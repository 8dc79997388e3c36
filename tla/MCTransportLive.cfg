CONSTANTS
  tcp = tcp
  usb = usb
  c1 = c1
  NoTransport = NoTransport
  Transports <- OneTcp
  Local <- OneTcp
  Clients <- OneClient
  MaxRecv <- Four
SPECIFICATION FairSpec
INVARIANT IInv
PROPERTIES
  DownIsFreed
  WaitingIsReleased
CHECK_DEADLOCK FALSE
