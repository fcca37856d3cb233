SPECIFICATION PSpec
CONSTANTS
  Conns = {c1, c2, c3}
  Fds = {f1, f2}
  NoFd = none
  NRings = 2
  SeqMod = 3
  MaxConnections = 2
  Build = "release"
  Depth = 1
INVARIANTS PTypeOK FdOwned RingBalance EnoughSlots
PROPERTIES Served DataReceived
