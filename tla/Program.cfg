\* Fork, exec, exit, spawn and wait on three processes; an executable with two of
\* three libraries.
CONSTANTS
  MaxThreads = 2
  Conds = {}
  Mutexes = {}
  SignalMax = 1
  MaxProcesses = 3
  ExitCodes = {7}
  WaitArgs <- NamedArgs
  Mains <- MCMains
  Libraries <- MCLibraries
  Hooked <- MCHooked
  Proxied <- MCProxied
  Dispatched <- MCDispatched
  DataNames <- MCDataNames
  DlNames <- MCDlNames
  Reserved = {1, 3}
  Buckets = 9
  PageSize = 2
  LoadGap = 4
  MaxLibraries = 2
  MaxHandles = 1
  Narrow = 2
  Instructions <- MCOperations
  Values = {0, 1, 6, 13}
  Base = 1
  Cells = 5
  ReadOnly = {4}
  Machos <- MCMachos
  Page = 4
  MmapAddress = 12
  LoadBase = 256
  Low = 64
  DataSymbols <- MCDataSymbols
  StubSymbols <- MCStubSymbols
  SyscallSymbols <- MCSyscallSymbols
  KernelSymbols <- MCKernelSymbols
SPECIFICATION MCSpec
INVARIANTS
  ForkAttribution
  LoadingHonest
  MachoHonest
PROPERTIES
  EndsAndReapsOnce
  WaitTellsTruth
  AtomicsExact
CHECK_DEADLOCK FALSE
