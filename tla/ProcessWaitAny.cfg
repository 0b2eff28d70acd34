\* waitpid(-1) next to an ended child.
CONSTANTS
  MaxThreads = 2
  Conds = {}
  Mutexes = {}
  SignalMax = 1
  MaxProcesses = 3
  ExitCodes = {7}
  WaitArgs <- AllArgs
SPECIFICATION PSpec
PROPERTY WaitTellsTruth
CHECK_DEADLOCK FALSE
