SPECIFICATION Spec
CONSTANTS
  c1 = c1
  c2 = c2
  Txid = {t1, t2}
  Coins <- SomeCoins
  Pruned = pruned
  Hash = {h1, h2}
  NoHash = null
  Size <- SizeOf
INVARIANTS FlagsTellTheTruth UsageExact
PROPERTIES ImplementsUtxoSet
