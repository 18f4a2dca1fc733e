\* Streams on a fast and a slow endpoint; the host unlinks and goes away.
CONSTANTS
  e1 = e1
  e2 = e2
  Eps = {e1, e2}
  Frame <- MCFrame
  Packets = {1, 2}
  MaxSeq = 2
  MaxTime = 4
  MaySendNow = TRUE
  Unlinks = TRUE
SPECIFICATION FairSpec
INVARIANT NeverOversleeps
INVARIANT TeardownIsQuiet
 
 
