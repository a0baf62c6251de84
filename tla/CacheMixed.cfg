SPECIFICATION Spec
CONSTANTS
  Puts <- MixedPuts
  Gets <- MixedGets
  Clears <- MixedClears
  Values = {v1, v2}
  TTLs <- DefaultOrEver
  DefTTL = 1
  DefTTLSsh = 1
  DefTTLData = 1
  MaxTTL = 1
  MaxTTLSsh = 0
  SlotTTL = 0
  StartClock = 5
  MaxClock = 7
  MaxSeq = 1
  Failures = TRUE
  NoData = NoData
  None = None
INVARIANTS ServedIsFresh OneSlotPerKey
PROPERTY ServedIsLatest
SYMMETRY Symmetry
