SPECIFICATION FairSpec
CONSTANTS
  Quota <- BothWays
  MaxPayload = 2
INVARIANTS OneCredit
PROPERTIES ImplementsPipe EverythingArrives BothClose
CHECK_DEADLOCK FALSE
