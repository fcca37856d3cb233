SPECIFICATION Spec
CONSTANTS
  Conns = {c1, c2, c3}
  Fds = {f1, f2, f3}
  NoFd = none
  NRings = 2
  SeqMod = 3
  MaxConnections = 2
  Build = "release"
SYMMETRY Clients
INVARIANT WithinMaxConnections
