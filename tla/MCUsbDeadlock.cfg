SPECIFICATION FairSpec
CONSTANTS
  d1 = d1
  d2 = d2
  Nobody = Nobody
  Devices <- TwoDevices
  Access <- OneOfEach
  MaxOpens = 1
PROPERTY ShutdownEnsured
CHECK_DEADLOCK FALSE
