SPECIFICATION FairSpec
CONSTANTS
  g = g
  a1 = a1
  a2 = a2
  b1 = b1
  b2 = b2
  b3 = b3
  p1 = p1
  p2 = p2
  Block <- LongBlock
  Genesis = g
  Parent <- LongParent
  Proof <- HeavyProof
  Addr <- AddrOfBlocks
  BadBlock = {b3}
  BadConnect = {b2}
  Corrupt = {}
  Threads <- TwoThreads
  NoThread = none
  MaxInvalidate = 0
  MaxReconsider = 0
  MaxRestart = 1
  MaxPrune = 0
  KeepBlocks = 1
INVARIANTS CheckBlockIndex BestChainActive
PROPERTIES KeysStable ActivationEnds
