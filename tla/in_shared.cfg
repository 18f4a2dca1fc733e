\* Everything at once: two hosts on one device, one of which unlinks and leaves; an
\* application thread writes and halts, a class callback halts.
CONSTANTS
  Conns = {c1, c2}
  Apps = {a1}
  Writers = {a1}
  Stallers = {a1, c1}
  Cancellers = {c1}
  Closers = {c1}
  Lengths = {0}
  MaxSeq = 2
  MaxBytes = 2
  Nobody = Nobody
SPECIFICATION Spec
INVARIANT OneOwner
INVARIANT AtMostOnce
INVARIANT NoStarvedUrb
