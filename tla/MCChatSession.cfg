SPECIFICATION FairSpec
CONSTANTS
  c1 = c1
  c2 = c2
  n1 = n1
  s1 = s1
  s2 = s2
  None = None
  ServerPid = ServerPid
  Clients <- TwoClients
  Names <- OneName
  Objects <- TwoObjects
  Mortal <- OneClient
  MaxSay = 1
INVARIANTS SentIsRecorded
PROPERTIES GoneIsSentNothing CallsReturn SaidIsSent
CHECK_DEADLOCK FALSE
