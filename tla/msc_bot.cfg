\* Every command, on two units (one write-protected) and a third that does not exist; the
\* backend may fail, and the host may give up half-way and reset the device.
CONSTANTS
  NLuns = 2
  ReadOnly = {1}
  NBlocks = 2
  BlockSize = 2
  InfoLen = 2
  Commands <- AllCommands
  MaxTag = 3
  MaxChunk = 3
  ReadMayFail = TRUE
  WriteMayFail = TRUE
  HostMayReset = TRUE
CHECK_DEADLOCK FALSE
SPECIFICATION FairSpec
INVARIANT InStep
PROPERTY WritesLand
PROPERTY EveryCommandEnds
