\* Four numbers, two pipes and two streams, every sequence of six calls; seven
\* cells of memory, three bytes for the guest and two from it; five bytes of strings.
SPECIFICATION MCSpec
CONSTANTS
  MaxFd = 3
  MaxPipes = 2
  MaxHandles = 2
  Capacity = 2
  Saturation = 3
  MaxCalls = 6
  MaxCell = 7
  StreamLen = 3
  MaxSent = 2
  Room = 3
  MaxIov = 2
  MaxSide = 2
  MaxTransfers = 2
  Spans <- MCSpans
  NameSpans <- MCNames
  Iovecs <- MCIovecs
  Pointers <- MCPointers
  Lengths <- MCLengths
  Holes <- MCHoles
  MemSize = 5
  ChunkSize = 2
  StringLimit = 4
  WordBits = 6
  MaxText = 4
  MaxWidth = 4
INVARIANTS
  CacheExact
  SelectHonest
  NothingOrphaned
  StringsAgree
PROPERTY
  TransfersHonest
\* The bound on calls stops the model.
CHECK_DEADLOCK FALSE
