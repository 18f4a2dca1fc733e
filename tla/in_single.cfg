\* One host that neither unlinks nor leaves, one application thread that writes, and
\* class callbacks, on the serve thread, halt the endpoint.
CONSTANTS
  Conns = {c1}
  Apps = {a1}
  Writers = {a1}
  Stallers = {c1}
  Cancellers = {}
  Closers = {}
  Lengths = {0, 1, 2}
  MaxSeq = 3
  MaxBytes = 4
  Nobody = Nobody
SPECIFICATION FairSpec
 
PROPERTY ImplementsPipe
PROPERTY QueuedDataIsServed
