\* A waker in a kqueue and its duplicate, or a pipe with its ends registered; polled.
CONSTANTS
  Procs = {1}
  FirstFd = 3
  MaxFd = 4
  MaxObjects = 1
  Capacity = 1
  FileSize = 1
  MaxQueues = 2
  Sources <- WakerAndPipe
  MaxChanges = 1
  Rooms = {0, 2}
SPECIFICATION MCPolling
PROPERTIES
  NoTriggerLost
  ReadyIsReported
CHECK_DEADLOCK FALSE
