\* A host that unlinks the last of two parked URBs and submits another.
CONSTANTS
  Conns = {c1}
  Apps = {a1}
  Writers = {a1}
  Stallers = {}
  Cancellers = {c1}
  Closers = {}
  Lengths = {0}
  MaxSeq = 3
  MaxBytes = 1
  Nobody = Nobody
SPECIFICATION Spec
CHECK_DEADLOCK FALSE
INVARIANT NoUrbForgotten
