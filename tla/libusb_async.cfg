\* One handle shared by the program's thread and the worker, two transfers,
\* a connection that may break.
CONSTANTS
  app = app
  work = work
  App = app
  Worker = work
  Threads <- MCThreads
  Handles = {h1}
  Busids = {"1-1"}
  MaxDevnum = 1
  MaxSeq = 2
  Kinds = {"plain"}
  MayRunOut = FALSE
  Transfers = {t1, t2}
  EventThreads = {e1}
  PipeCap = 1
  MaxInit = 1
  NoXfer = NoXfer
SPECIFICATION FairSpec
INVARIANT NoLostCompletion
INVARIANT CancelIsExact
PROPERTY CallbackComes
CHECK_DEADLOCK FALSE
