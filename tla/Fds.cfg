\* Two processes; a pipe or a file and its duplicates.
CONSTANTS
  Procs = {p1, p2}
  FirstFd = 3
  MaxFd = 5
  MaxObjects = 1
  Capacity = 1
  FileSize = 1
SPECIFICATION FSpec
SYMMETRY ProcsSymmetry
INVARIANTS
  EofHonest
  TablesAgree
PROPERTIES
  DescriptorsKept
  CaptureComplete
CHECK_DEADLOCK FALSE
