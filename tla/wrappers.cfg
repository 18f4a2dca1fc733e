\* Two busids and devices replugged once, two handles, two overlappeds, two slots.
CONSTANTS
  app = app
  work = work
  h1 = h1
  h2 = h2
  c1 = c1
  c2 = c2
  App = app
  Worker = work
  Threads <- MCThreads
  Handles <- MCHandles
  Handle = h1
  Busids = {"a", "b"}
  MaxDevnum = 3
  MaxSeq = 2
  Kinds = {"plain", "iso"}
  MayRunOut = TRUE
  Devs = {d1, d2, d3}
  NoDev = NoDev
  Ovls = {o1, o2}
  OvlKinds = {"plain"}
  MaxOps = 2
  NoOp = NoOp
  n_slots = 2
  Callers <- MCCallers
  MaxData = 4
  Lists = {l1, l2}
  Els = {e1, e2}
  NoEl = NoEl
  NoList = NoList
SPECIFICATION Spec
SYMMETRY MCSymmetry
CHECK_DEADLOCK FALSE
INVARIANT ReplyIsMine
INVARIANT HandleIsSound
 
 
 
