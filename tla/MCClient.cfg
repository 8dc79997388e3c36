SPECIFICATION FairSpec
CONSTANTS
  c1 = c1
  c2 = c2
  Clients <- TwoClients
  Resident = Resident
  None = None
  Versions = {1, 2}
  Unknown = 0
  Commands <- AllCommands
  MaxCrash = 1
INVARIANTS RequestIntact ServerAtTheEnd
PROPERTIES SameVersionKeepsServer Returns
CHECK_DEADLOCK FALSE
