SPECIFICATION Spec
CONSTANTS
  p1 = p1
  p2 = p2
  p3 = p3
  h1 = h1
  None = None
  Torn = Torn
  Procs <- ThreeProcs
  Hosts <- OneHost
  HostOf <- SameHost
  MaxAcq = 2
  MaxCrashes = 1
  PromptOwners = TRUE
PROPERTIES NoLostUpdate
SYMMETRY Symmetry
CHECK_DEADLOCK FALSE
