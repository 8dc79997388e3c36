SPECIFICATION FairSpec
CONSTANTS
  Quota <- ThreeEach
  MaxPayload = 2
PROPERTIES ImplementsPipe EverythingArrives BothFreed
CHECK_DEADLOCK FALSE
