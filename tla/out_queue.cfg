\* Two hosts, two readers, buffers smaller than some transfers, halts.
CONSTANTS
  Conns = {c1, c2}
  Readers = {r1, r2}
  Sizes = {1, 2}
  Caps = {1, 2}
  MaxBytes = 3
  MayHalt = TRUE
SPECIFICATION FairSpec
INVARIANT NoLostWakeup
INVARIANT TransfersAreExact
PROPERTY QueuedIsRead
