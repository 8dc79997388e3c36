SPECIFICATION FairSpec
CONSTANTS
  None = None
  big = big
  small = small
  empty = empty
  top = top
  sub = sub
  Files <- ThreeFiles
  First = big
  Content <- Chunks
  Parent <- Tree
  Root = top
  Commands <- AllCommands
  MaxRuns = 2
  Cap = 1
INVARIANTS InStep SkippedIsCurrent SuccessIsCopied
PROPERTIES Finishes
CHECK_DEADLOCK FALSE
