SPECIFICATION SpecDisconnect
CONSTANTS
  a = a
  b = b
  Master = Master
  None = None
  Transports <- TwoTransports
  Slots = 2
  Port <- OnePort
  Room = 1
  Forwards = {f}
  Conns = {x}
  Trackers = {k}
  Waiters = {w}
CHECK_DEADLOCK FALSE
INVARIANT ConnectedIsListed
