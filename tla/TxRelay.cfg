SPECIFICATION RelaySpec
CONSTANTS
  g = g
  a1 = a1
  a2 = a2
  b1 = b1
  a3 = a3
  c1 = c1
  e = e
  f = f
  ca1 = ca1
  ca2 = ca2
  cb1 = cb1
  ca3 = ca3
  cc1 = cc1
  t1 = t1
  t2 = t2
  t3 = t3
  x1 = x1
  y1 = y1
  s1 = s1
  p1 = p1
  p2 = p2
  Block <- ForkBlock
  Genesis = g
  Parent <- ForkParent
  Proof <- UnitProof
  Tx <- SomeTx
  NoTx = notx
  Coinbase = {e, ca1, ca2, ca3, cb1, cc1}
  Inputs <- SomeInputs
  NOut <- SomeNOut
  BlockTxs <- SomeBlockTxs
  Maturity = 2
  Peer = {p1, p2}
  NoPeer = nopeer
  MaxOrphans = 2
INVARIANTS NextTxExact PoolSpendable PoolMature PoolUnconfirmed OrphansIndexed OrphansResolved
PROPERTIES LossJustified
