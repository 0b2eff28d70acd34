---------------------------- MODULE MCGuestLibrary ----------------------------
(***************************************************************************)
(* What library calls keep for a guest, for TLC, one part at a time: the   *)
(* heap and the mappings themselves; results of host calls; the strings    *)
(* and the vectors of C++; the calls back into the guest, the storage of   *)
(* threads, the output of commands, system calls, and guest files and      *)
(* directories.  Results and C++ objects share no block, and the other     *)
(* parts share nothing, so that one by one loses no behaviour of any.      *)
(*                                                                         *)
(* A word of 14 quanta, pages of 2, heap at page 1, an mmap arena of two   *)
(* pages at page 4: a hint of page 2 lies in the way of the heap.          *)
(***************************************************************************)
EXTENDS GuestMemory, HostResults, CxxObjects, GuestCallbacks, ThreadStorage,
        ChildOutput, SyscallTable, GuestDirectories

CONSTANT MaxCalls       \* a bound of the model on calls on C++ objects

VARIABLES part,         \* the part that is explored
          calls

heappartvars == <<memvars, resultvars, cxxvars, part, calls>>

MCLengths == {1, 5, 13}
MCAlignments == {4}
MCHostLists == {<<2>>, <<1, 0>>, <<0, 1, 1>>}
MCTexts == {<<"a">>, <<"b", "a">>, <<"b", "a", "a", "b">>}

\* A bound of the model: two blocks next to one call on mappings, one next to two, or three calls.
MemoryBound == 3

CxxCall(step) == /\ calls < MaxCalls /\ calls' = calls + 1
                 /\ step \/ GuestStep
HeapNext ==
  /\ UNCHANGED part
  /\ \/ /\ part = "memory" /\ MNext /\ Cardinality(heap'.blocks) + maps' <= MemoryBound
        /\ UNCHANGED <<resultvars, cxxvars, calls>>
     \/ /\ part = "results" /\ RNext
        /\ UNCHANGED <<memvars, cxxvars, calls>>
     \/ /\ part = "strings" /\ \E granted \in Grants : CxxCall(StringStep(granted))
        /\ UNCHANGED <<memvars, resultvars>>
     \/ /\ part = "vectors" /\ \E granted \in Grants : CxxCall(VectorStep(granted))
        /\ UNCHANGED <<memvars, resultvars>>

libraryvars == <<heappartvars, callbackvars, storagevars, outputvars, syscallvars, directoryvars>>

MCModTerms == <<1, 0>>
\* A device, a file a browser keeps, a marker of the program and a directory; the
\* host lacks the last three, or has all of them and cannot list one.
MCSketch == [u |-> [form |-> "random", looksDir |-> FALSE, marker |-> FALSE],
             l |-> [form |-> "login", looksDir |-> FALSE, marker |-> FALSE],
             m |-> [form |-> "plain", looksDir |-> FALSE, marker |-> TRUE],
             d |-> [form |-> "browser", looksDir |-> TRUE, marker |-> FALSE]]
MCNoTree == [r \in DOMAIN MCSketch |-> Absent]
MCTrees ==
  LET node(kind, size, names) == [kind |-> kind, size |-> size, names |-> names]
  IN {MCNoTree,
      [u |-> Absent, m |-> node("sealed folder", 3, {}),
       l |-> node("file", 5, {}), d |-> node("folder", 3, {0})]}

MCOutputs == {<<>>, <<"x", "n", "x", "x", "n", "x", "x">>}

LibraryInit ==
  /\ MInit /\ RInit /\ CInit /\ calls = 0 /\ CallbacksInit /\ StorageInit /\ OutputInit
  /\ DirectoriesInit
  /\ part \in {"memory", "results", "strings", "vectors", "callbacks", "storage", "output", "syscalls",
              "directories"}
  /\ part # "directories" => regime = "bare" /\ hostTree = MCNoTree
  /\ SyscallInit /\ (part # "syscalls" => mode = "bare" /\ disk = {})
LibraryNext ==
  \/ HeapNext /\ UNCHANGED <<callbackvars, storagevars, outputvars, syscallvars, directoryvars>>
  \/ /\ UNCHANGED <<memvars, resultvars, cxxvars, calls, part>>
     /\ \/ part = "callbacks" /\ CallbacksNext /\ UNCHANGED <<storagevars, outputvars, syscallvars, directoryvars>>
        \/ part = "storage" /\ StorageNext /\ UNCHANGED <<callbackvars, outputvars, syscallvars, directoryvars>>
        \/ part = "output" /\ OutputNext /\ UNCHANGED <<callbackvars, storagevars, syscallvars, directoryvars>>
        \/ part = "syscalls" /\ SyscallNext /\ UNCHANGED <<callbackvars, storagevars, outputvars, directoryvars>>
        \/ /\ part = "directories" /\ DirectoriesNext
           /\ UNCHANGED <<callbackvars, storagevars, outputvars, syscallvars>>
LibrarySpec == LibraryInit /\ [][LibraryNext]_libraryvars
===============================================================================
