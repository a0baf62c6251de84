SPECIFICATION FairSpec
CONSTANTS
  Conns = {c1, c2, c3}
  Ssh = {c1}
  Nobody = Nobody
  Failing = {"fflush", "assuan_new"}
  CardLoss = TRUE
  MaxCalls = 2
INVARIANT CountIsExact
PROPERTIES ImplementsLockService StopReturns
