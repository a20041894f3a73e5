SPECIFICATION Spec
CONSTANTS
  g = g
  a1 = a1
  a2 = a2
  b1 = b1
  Genesis = g
  Zeros = Zeros
  Block <- MC_Block
  Parent <- MC_Parent
  Proof <- MC_Proof
  Vtx <- MC_Vtx
  BaseCoins <- MC_BaseCoins
  BaseHeight = 200
  MaxFile = 1
  Capacity = 2
  MaxUndo = 2
  MaxFaults = 2
  MaxFileFaults = 1
  MaxEvents = 4
INVARIANTS IndexIsBacked ChainstateIsSound TipCanBeUndone
