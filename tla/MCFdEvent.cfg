SPECIFICATION FairSpec
CONSTANTS
  e1 = e1
  e2 = e2
  None = None
  Read = "read"
  Fdes <- TwoFdes
  Fds <- TwoFds
  Events <- ReadWrite
INVARIANTS PendingIsListed WatchesWhatIsWanted NeverFatal
PROPERTIES NoStarvation BadIsTold
CHECK_DEADLOCK FALSE
