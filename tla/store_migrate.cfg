SPECIFICATION FairSpec
CONSTANTS
  a = a
  b = b
  x = x
  y = y
  None = None
  Canons <- TwoCanons
  Notes <- OneNote
  Inputs <- FewInputs
  MaxFence = 2
  MaxCrashes = 1
  MaxCorruptions = 0
  MaxEdits = 1
  MaxReads = 0
  ActiveOps <- AllOps
  TornWrites = FALSE
INVARIANTS TypeOK
PROPERTIES MigrationResumes
CHECK_DEADLOCK FALSE
