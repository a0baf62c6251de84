SPECIFICATION FairSpec
CONSTANTS
  Sessions = {s1, s2}
  Tokens = {k1}
  Serials = {k1, k2}
  Ids <- MCIds
  None = None
  Main = Main
  MaxCmds = 2
  MaxPlugs = 2
PROPERTIES WatchEnds
CHECK_DEADLOCK FALSE
