SPECIFICATION FairSpec
CONSTANTS
  p1 = p1
  p2 = p2
  p3 = p3
  Nobody = Nobody
  NoPid = NoPid
  Procs = {p1, p2, p3}
  PidOf <- OneNodePids
  NodeOf <- OneNode
  HardLinks = TRUE
  NeverLock = {}
  Timeouts <- Forever
  Failing = {"stat"}
  Crashes = TRUE
  PidReuse = FALSE
  MaxTakes = 1
CHECK_DEADLOCK FALSE
PROPERTIES ImplementsLockService TakeReturns
