SPECIFICATION FairSpec
CONSTANTS
  w1 = w1
  w2 = w2
  c1 = c1
  c2 = c2
  c3 = c3
  Master = master
  Workers <- MC_Workers
  Checks <- MC_Checks
  Bad <- MC_Bad
  BatchSize = 2
INVARIANTS ControlFindsQueueIdle WaitIsSound
PROPERTIES ImplementsCheckResult MasterReturns
