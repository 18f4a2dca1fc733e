\* Two threads plug and unplug two devices, one with a busid of its own; calls may fail; two clients.
CONSTANTS
  d1 = d1
  d2 = d2
  d3 = d3
  Devs = {d1, d2}
  Apps = {a1, a2}
  Conns = {c1, c2}
  PinnedBusid <- OnePinned
  MaxDevices = 2
  FirstDevnum = 2
  MaxDevnum = 4
  CallsMayFail = TRUE
  AcceptMayFail = FALSE
  None = None
SPECIFICATION FairSpec
INVARIANT ExportsAreSound
PROPERTY ListenerServes
