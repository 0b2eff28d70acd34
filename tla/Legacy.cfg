\* The import dispatcher of the loader: threads and processes, pipes and kqueues;
\* two trace buses with three events; two loads of a kernel extension.
SPECIFICATION MCSpec
CONSTANTS
  MaxThreads = 2
  ResumeLimit = 2
  MaxForks = 2
  MaxQueue = 3
  Pcs = {"a", "b"}
  MaxPipes = 1
  MaxQueues = 2
  MaxBytes = 2
  MaxSignals = 2
  Rooms = {0, 1}
  Buses = {b1, b2}
  Classes = {"plain", "noise", "hot", "page"}
  Plugins <- MCPlugins
  MaxEvents = 3
  AddedPids = {1, 42}
  EventKeys <- MCEventKeys
  Addrs = {7, 8}
  Policies = {p1, p2}
  MaxLoads = 2
  MaxProcs = 5
  MaxCallbacks = 2
  MaxJobs = 3
INVARIANTS
  LegacyConserved
  EventsTold
  TraceHonest
  KextHonest
\* The emulation stops when main exits.
CHECK_DEADLOCK FALSE
