SPECIFICATION FairSpec
CONSTANTS
  d1 = d1
  d2 = d2
  Nobody = Nobody
  Devices <- OneDevice
  Access <- Either
  MaxOpens = 3
INVARIANTS FreedIsUnused
PROPERTIES WriteReturns KickEndsThreads
CHECK_DEADLOCK FALSE
