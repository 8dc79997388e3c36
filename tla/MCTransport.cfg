CONSTANTS
  tcp = tcp
  usb = usb
  c1 = c1
  NoTransport = NoTransport
  Transports <- BothKinds
  Local <- OneTcp
  Clients <- OneClient
  MaxRecv <- TwoOne
SPECIFICATION Spec
INVARIANTS
  ClosedAfterThreads
  RemovedOnce
  NobodyLeftBehind
  NoWriteAbort
CHECK_DEADLOCK FALSE
