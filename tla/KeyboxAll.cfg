SPECIFICATION Spec
CONSTANTS
  Procs = {p1, p2}
  k1 = k1
  k2 = k2
  Keys <- MCKeys
  Sigs = {s1}
  Nodes <- MCNodes
  First <- MCFirst
  None = None
  MaxOps = 2
  MaxCrashes = 1
INVARIANTS CrashSafe OneWriter ImportCurrent OneBlobPerKey LockGivenBack
PROPERTIES ImplementsKeyStore ImportKeeps
CHECK_DEADLOCK FALSE
