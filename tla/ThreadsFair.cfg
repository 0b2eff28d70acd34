\* Two threads, two conditions, two mutexes, with a guest that yields.
CONSTANTS
  MaxThreads = 2
  Conds = {c1, c2}
  Mutexes = {m1, m2}
  SignalMax = 1
SPECIFICATION FairSpec
PROPERTIES
  WakeHandsMutex
  ReadyEventuallyRuns
CHECK_DEADLOCK FALSE
