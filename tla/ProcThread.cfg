SPECIFICATION FairSpec
CONSTANTS
  t1 = t1
  t2 = t2
  c1 = c1
  c2 = c2
  c3 = c3
  Threads <- MCThreads
  Items <- MCItems
  MaxPriority = 1
  NoItem = NoItem
CHECK_DEADLOCK FALSE
INVARIANTS Conservation CounterExact NoSleepWithWork
PROPERTIES StopTerminates HighestServed
