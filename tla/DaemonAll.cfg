SPECIFICATION FairSpec
CONSTANTS
  Conns = {c1, c2}
  MaxCtx = 5
  MaxGen = 3
  IOFailures = TRUE
  ThreadFailures = TRUE
  AbsHomedir = TRUE
CHECK_DEADLOCK FALSE
INVARIANTS OneDaemon ContextNotShared ContextsValid IdleContextCurrent
PROPERTY DeadDaemonForgotten
