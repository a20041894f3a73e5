SPECIFICATION FairSpec
CONSTANTS
  g = g
  a1 = a1
  a2 = a2
  p1 = p1
  p2 = p2
  Block <- LineBlock
  Genesis = g
  Parent <- LineParent
  Proof <- UnitProof
  Peer = {p1, p2}
  NoPeer = nopeer
  NoBlock = noblock
  Preferable = {p1}
  Client = {}
  OneShot = {}
  BadBlock = {a1}
  MaxInTransit = 1
  Window = 1
  TimeoutBase = 0
  StallTimeout = 0
  MaxConnect = 2
PROPERTIES RequestEnds
