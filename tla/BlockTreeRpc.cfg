SPECIFICATION Spec
CONSTANTS
  g = g
  a1 = a1
  a2 = a2
  b1 = b1
  b2 = b2
  b3 = b3
  p1 = p1
  p2 = p2
  Block <- EvenBlock
  Genesis = g
  Parent <- EvenParent
  Proof <- HeavyProof
  Addr <- AddrOfBlocks
  BadBlock = {}
  BadConnect = {}
  Corrupt = {b2}
  Threads <- TwoThreads
  NoThread = none
  MaxInvalidate = 1
  MaxReconsider = 1
  MaxRestart = 0
  MaxPrune = 1
  KeepBlocks = 1
INVARIANTS ActiveChainValid CandidatesLinked BestChainUntilReconsider
CHECK_DEADLOCK FALSE
