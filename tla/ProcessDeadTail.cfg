\* A thread runs on after it called exit.
CONSTANTS
  MaxThreads = 2
  Conds = {}
  Mutexes = {}
  SignalMax = 1
  MaxProcesses = 3
  ExitCodes = {7}
  WaitArgs <- NamedArgs
SPECIFICATION PSpec
INVARIANT NoDeadTail
CHECK_DEADLOCK FALSE
