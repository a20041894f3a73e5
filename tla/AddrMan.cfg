SPECIFICATION AddrManSpec
CONSTANTS
  a1 = a1
  a2 = a2
  b = b
  c = c
  near = near
  far = far
  seed = seed
  CService <- MCService
  NetAddr <- MCNet
  Heard <- MCHeard
  Source <- MCSource
  NewBuckets <- MCBuckets
  TriedBuckets <- MCTried
  Positions <- MCPositions
  GetNewBucket <- MCGetNewBucket
  NewPosition <- MCNewPosition
  GetTriedBucket <- MCGetTriedBucket
  TriedPosition <- MCTriedPosition
  BucketsPerAddress = 2
  MaxPct = 100
  MaxAddr = 2
INVARIANTS ChecksOut
PROPERTIES TriedIsDemotedFirst RestartKeepsTables
