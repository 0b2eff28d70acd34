\* The guest heap, calls back, thread storage, command output and system calls, each on
\* its own.
SPECIFICATION LibrarySpec
CONSTANTS
  Word = 14
  Page = 2
  Chunk = 2
  HeapBase = 2
  MmapBase = 8
  MmapEnd = 12
  Lengths <- MCLengths
  Alignments <- MCAlignments
  MaxMaps = 3
  MaxBlocks = 2
  Limit = 2
  HostLists <- MCHostLists
  NameCounts = {0, 1}
  MaxTop = 6
  MaxStores = 5
  Strings = {s, t}
  Vectors = {v, w}
  Texts <- MCTexts
  Bytes = {"a", "b"}
  Short = 1
  Longest = 3
  Align = 3
  MaxCalls = 4
  Workers = {2}
  Controls = {c, u}
  Tokens = {d, e}
  Readable = {c, d}
  ModTerms <- MCModTerms
  MaxHandlers = 4
  MaxDepth = 2
  MaxEntered = 5
  StorageThreads = 2
  Variables = {v1}
  Keys = 1
  StoredValues = {0, 1}
  TlvPages = 2
  Handles = 2
  MaxStored = 5
  Outputs <- MCOutputs
  Streams = 2
  ItemSizes = {1, 2, 3}
  MostBytes = 4
  Pipes = {5, 6}
  MaxActions = 2
  MaxReads = 5
  Paths = {p, q}
  Rooted = {p}
  Span = 8
  ArenaBase = 2
  ArenaEnd = 5
  MapSizes = {1, 3, 7}
  Numbers = {3, 4}
  FileSize = 2
  MaxTraps = 4
  Routes = {"u", "l", "m", "d"}
  Sketch <- MCSketch
  Trees <- MCTrees
  LowNumbers = {1}
  FirstNumber = 3
  LastNumber = 4
  Amounts = {3000}
  MaxTurns = 4
INVARIANTS
  DirectoriesHonest
  MemorySound
  ResultsAccounted
  ContainersSound
  CallbacksHonest
  StorageOwn
  OutputHonest
  SyscallsHonest
\* The bounds on blocks and calls stop the model.
CHECK_DEADLOCK FALSE
