SPECIFICATION FairSchedulerSpec
CONSTANTS
  s1 = s1
  s2 = s2
  a = a
  b = b
  c = c
  NoTask = NoTask
  Servicers <- MC_Servicers
  Tasks <- MC_Tasks
  Follow <- MC_Follow
  Delta = 1
  Times <- MC_Times
  MaxTime = 1
CHECK_DEADLOCK FALSE
INVARIANTS DrainLeavesNothing CounterExact
PROPERTIES NeverEarlyAlone TasksRun ThreadsEnd
