\* Three threads on one condition and one mutex.
CONSTANTS
  MaxThreads = 3
  Conds = {c1}
  Mutexes = {m1}
  SignalMax = 1
SPECIFICATION Spec
INVARIANTS
  TypeOK
  NoLostWakeup
  Attribution
  ThreadsConserved
  StopStrandsOnlyWaiters
PROPERTIES
  ImplementsLifecycle
CHECK_DEADLOCK FALSE
