SPECIFICATION Spec
CONSTANTS
  p1 = p1
  p2 = p2
  p3 = p3
  Nobody = Nobody
  NoPid = NoPid
  Procs = {p1, p2, p3}
  PidOf <- TwoNodesPids
  NodeOf <- TwoNodes
  HardLinks = FALSE
  NeverLock = {}
  Timeouts <- WaitOrNot
  Failing = {"open", "write", "read", "unlink"}
  Crashes = TRUE
  PidReuse = TRUE
  MaxTakes = 1
CHECK_DEADLOCK FALSE
INVARIANTS HolderOwnsFile BackoffSchedule NoOrphanFile
PROPERTIES ImplementsLockService
