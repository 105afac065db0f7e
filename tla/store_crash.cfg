SPECIFICATION Spec
CONSTANTS
  a = a
  b = b
  x = x
  y = y
  None = None
  Canons <- TwoCanons
  Notes <- OneNote
  Inputs <- FewInputs
  MaxFence = 3
  MaxCrashes = 1
  MaxCorruptions = 1
  MaxEdits = 0
  MaxReads = 0
  ActiveOps <- AllOps
  TornWrites = TRUE
INVARIANTS PointersComplete ApprovalProvenance ApprovalsRemembered ReceiptsEarned CommandsPublishOwnChange
PROPERTIES OnlyRecoveryDropsHistory
SYMMETRY Symmetry
CHECK_DEADLOCK FALSE
