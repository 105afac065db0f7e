SPECIFICATION FairSpec
CONSTANTS
  p1 = p1
  p2 = p2
  p3 = p3
  h1 = h1
  None = None
  Torn = Torn
  Procs <- TwoProcs
  Hosts <- OneHost
  HostOf <- SameHost
  MaxAcq = 1
  MaxCrashes = 1
  PromptOwners = FALSE
INVARIANTS TypeOK
PROPERTIES CallsReturn AbandonedLockReclaimed
CHECK_DEADLOCK FALSE
