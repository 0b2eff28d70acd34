\* Both delay hooks, polled, with one thread next to main and two conditions.
CONSTANTS
  MaxThreads = 1
  Conds = {c1, c2}
  Mutexes = {m1}
  SignalMax = 1
  Compat = FALSE
  Hooks = {"sleep","usleep"}
  SleepStop = 2
  RescueAfter = 2
  RescueEvery = 2
  RescueLimit = 2
SPECIFICATION Polls
PROPERTIES
  IdleCountsHarmless
  PollingRescues
CHECK_DEADLOCK FALSE
