SPECIFICATION Spec
CONSTANTS
  a = a
  b = b
  x = x
  y = y
  None = None
  Canons <- TwoCanons
  Notes <- TwoNotes
  Inputs <- NotesInputs
  MaxFence = 3
  MaxCrashes = 0
  MaxCorruptions = 1
  MaxEdits = 0
  MaxReads = 1
  ActiveOps <- PointerOps
  TornWrites = FALSE
INVARIANTS RoutingServesApproved
SYMMETRY Symmetry
CHECK_DEADLOCK FALSE
