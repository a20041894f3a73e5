SPECIFICATION FairSpec
CONSTANTS
  added = added
  connect = connect
  Node <- MCNode
  Opener <- MCOpener
  ByName <- MCByName
  Ungranted <- MCByName
  MaxOutbound = 2
  MaxInbound = 1
  MaxRaces = 1
INVARIANTS BorrowedIsLive SlotsBounded
PROPERTIES PoolDrains
