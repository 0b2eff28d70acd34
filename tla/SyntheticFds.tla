------------------------------ MODULE SyntheticFds ------------------------------
(***************************************************************************)
(* The synthetic descriptors of the arm64 runner: pipes, files, dup, dup2, *)
(* close and what exec, exit and posix_spawn do to them.  A descriptor is  *)
(* looked up in the table of its process and then in one table all         *)
(* processes share, which is how a forked child sees the pipes of its      *)
(* parent: fork copies nothing.                                            *)
(*                                                                         *)
(* Any process may call any hook at any time: the scheduler switches at    *)
(* import calls, and a process that ended may run on (GuestProcesses).     *)
(*                                                                         *)
(* Abstracted: the bytes (a buffer is its length, so the substitution of   *)
(* recently read bytes is not seen), directories (they behave as files),   *)
(* the count of reads at end of file that ends an idle run, the host proxy *)
(* of compat mode, and fd_flags: only F_GETFD reads them, since execve     *)
(* closes every descriptor with or without FD_CLOEXEC.  A file is named by *)
(* the descriptor it was opened as, as the code names a pipe.              *)
(***************************************************************************)
EXTENDS Naturals, FiniteSets

CONSTANTS Procs,        \* pids
          FirstFd,      \* first number handed out (0x10000)
          MaxFd,        \* bound on descriptor numbers
          MaxObjects,   \* bound on the pipes and files that exist at once
          Capacity,     \* bound on the bytes in a pipe (unbounded in the code)
          FileSize      \* bytes of a file

Stdin == 0
Fds == {Stdin} \cup FirstFd..MaxFd

\* A pid of 0 stands for no process in the table of captures.
ASSUME FdAssumption ==
  /\ 0 \notin Procs
  /\ FirstFd \in Nat \ 0..2 /\ {MaxFd, MaxObjects} \subseteq Nat
  /\ Capacity \in Nat \ {0} /\ FileSize \in Nat \ {0}

VARIABLES onCpu,        \* the process whose code runs
          nextFd,       \* next_fd
          own,          \* process_fd_targets
          global,       \* fd_targets
          pipes,        \* pipes, NoPipe for no entry
          files,        \* keys of guest_files.files
          offset,       \* guest_files.file_offsets, NoOffset for no entry
          capture,      \* stdin captures: pid of the consumer, or 0
          fed,          \* history: pipes posix_spawn closed for writing
          told          \* history: pipes read at end of file

tables == <<own, global, pipes, files, offset>>
histories == <<fed, told>>
fdvars == <<onCpu, nextFd, tables, capture, histories>>

Target(k, i) == [kind |-> k, id |-> i]
Unbound == Target("none", 0)
Targets == {Unbound} \cup [kind : {"read", "write", "file"}, id : Fds]
Pipe == [size : 0..Capacity, readOpen : BOOLEAN, writeOpen : BOOLEAN]
NoPipe == [size |-> 0, readOpen |-> FALSE, writeOpen |-> FALSE]
NoOffset == FileSize + 1

FInit ==
  /\ onCpu \in Procs /\ nextFd = FirstFd
  /\ own = [p \in Procs |-> [f \in Fds |-> Unbound]]
  /\ global = [f \in Fds |-> Unbound]
  /\ pipes = [f \in Fds |-> NoPipe]
  /\ files = {}
  /\ offset = [p \in Procs |-> [f \in Fds |-> NoOffset]]
  /\ capture = [f \in Fds |-> 0]
  /\ fed = {} /\ told = {}

\* The tables as one value, and the step that installs such a value.
Now == [own |-> own, global |-> global, pipes |-> pipes, files |-> files,
        offset |-> offset]
Become(s) == /\ own' = s.own /\ global' = s.global /\ pipes' = s.pipes
             /\ files' = s.files /\ offset' = s.offset

\* resolve_process_fd_target
Resolve(s, p, f) == IF s.own[p][f] # Unbound THEN s.own[p][f] ELSE s.global[f]

Exists(i) == pipes[i] # NoPipe
Objects == Cardinality(files) + Cardinality({i \in Fds : Exists(i)})

\* Mutant: only the descriptors of the calling process count.
HeldByCaller(s, t) == \E f \in Fds : s.own[onCpu][f] = t \/ s.global[f] = t
\* has_pipe_endpoint_ref, once the closed descriptors are gone from the tables.
Held(s, t) == \E f \in Fds : s.global[f] = t \/ \E p \in Procs : s.own[p][f] = t

-------------------------------------------------------------------------------
(***************************************************************************)
(* Closing.  close_synthetic_fd closes one descriptor and                  *)
(* terminate_synthetic_process all of a process, one by one; as each call  *)
(* looks at the references that are left, closing a set at once comes to   *)
(* the same.  Only a descriptor of the process itself closes a pipe end.   *)
(***************************************************************************)

\* Mutant: the shared table keeps the descriptor.
UnboundOwnOnly(s, p, F) ==
  [s EXCEPT !.own[p] = [f \in Fds |-> IF f \in F THEN Unbound ELSE @[f]],
            !.offset[p] = [f \in Fds |-> IF f \in F THEN NoOffset ELSE @[f]]]
\* Mutant: the descriptor is taken from whatever process has it.
UnboundEverywhere(s, p, F) ==
  [s EXCEPT !.own = [q \in Procs |-> [f \in Fds |-> IF f \in F THEN Unbound ELSE @[q][f]]],
            !.global = [f \in Fds |-> IF f \in F THEN Unbound ELSE @[f]],
            !.offset[p] = [f \in Fds |-> IF f \in F THEN NoOffset ELSE @[f]]]
UnboundFor(s, p, F) ==
  [s EXCEPT !.own[p] = [f \in Fds |-> IF f \in F THEN Unbound ELSE @[f]],
            !.global = [f \in Fds |-> IF f \in F THEN Unbound ELSE @[f]],
            !.offset[p] = [f \in Fds |-> IF f \in F THEN NoOffset ELSE @[f]]]

\* The entry of pipe i, if a descriptor of an end of it is closed: an end is closed
\* with its last reference, and the entry goes when both are.
PipeAfter(s, left, p, F, i) ==
  LET named(k) == Target(k, i) \in {s.own[p][f] : f \in F}
      closes(k) == named(k) /\ ~Held(left, Target(k, i))
      pipe == [s.pipes[i] EXCEPT !.readOpen = @ /\ ~closes("read"),
                                 !.writeOpen = @ /\ ~closes("write")]
  IN IF ~(named("read") \/ named("write")) THEN s.pipes[i]
     ELSE IF pipe.readOpen \/ pipe.writeOpen THEN pipe ELSE NoPipe

Closed(s, p, F) ==
  LET left == UnboundFor(s, p, F)
      gone == {i \in s.files : Target("file", i) \in {s.own[p][f] : f \in F}
                                 /\ ~Held(left, Target("file", i))}
  IN [left EXCEPT !.pipes = [i \in Fds |-> PipeAfter(s, left, p, F, i)],
                  !.files = @ \ gone]
\* terminate_synthetic_process
Terminated(s, p) == Closed(s, p, {f \in Fds : s.own[p][f] # Unbound})

-------------------------------------------------------------------------------
(***************************************************************************)
(* Hooks that open descriptors.                                            *)
(***************************************************************************)

\* open of a path that exists or is created; a failed one uses up a number.
Open(p) ==
  /\ nextFd <= MaxFd /\ Objects < MaxObjects
  /\ nextFd' = nextFd + 1
  /\ \/ Become([Now EXCEPT !.own[p][nextFd] = Target("file", nextFd),
                           !.files = @ \cup {nextFd}, !.offset[p][nextFd] = 0])
     \/ UNCHANGED tables
  /\ UNCHANGED <<capture, histories>>

\* pipe binds both ends for the process and in the shared table.
MakePipe(p) ==
  /\ nextFd + 1 <= MaxFd /\ Objects < MaxObjects
  /\ nextFd' = nextFd + 2
  /\ LET r == Target("read", nextFd)
         w == Target("write", nextFd) IN
     Become([Now EXCEPT
       !.own[p] = [@ EXCEPT ![nextFd] = r, ![nextFd + 1] = w],
       !.global = [@ EXCEPT ![nextFd] = r, ![nextFd + 1] = w],
       !.pipes[nextFd] = [size |-> 0, readOpen |-> TRUE, writeOpen |-> TRUE]])
  /\ UNCHANGED <<capture, histories>>

\* duplicate_synthetic_fd, for fcntl(F_DUPFD): the first number from next_fd that
\* nobody uses (the caller's minimum is clamped below next_fd); the offset of a
\* file is copied.
Dup(p, f) ==
  LET t == Resolve(Now, p, f)
      free == {n \in Fds : n >= nextFd /\ own[p][n] = Unbound /\ global[n] = Unbound}
  IN /\ t # Unbound
     /\ \E n \in free :
          /\ \A m \in free : n <= m
          /\ nextFd' = n + 1
          /\ Become([Now EXCEPT
               !.own[p][n] = t,
               !.offset[p][n] = IF t.kind # "file" THEN @
                                ELSE IF offset[p][f] = NoOffset THEN 0
                                ELSE offset[p][f]])
     /\ UNCHANGED <<capture, histories>>

\* dup2 closes the new number and then looks the old one up: the target is bound
\* without an offset, and dup2(f, f) closes f.
Dup2ed(s, p, old, new) ==
  LET left == Closed(s, p, {new}) IN
  IF Resolve(left, p, old) = Unbound THEN left
  ELSE [left EXCEPT !.own[p][new] = Resolve(left, p, old)]
\* The guest duplicates onto standard input or a number it was given before.
Dup2(p, old, new) ==
  /\ new < nextFd
  /\ Become(Dup2ed(Now, p, old, new))
  /\ UNCHANGED <<nextFd, capture, histories>>

-------------------------------------------------------------------------------
(***************************************************************************)
(* Reading and writing.                                                    *)
(***************************************************************************)
Least(a, b) == IF a < b THEN a ELSE b

\* A pipe is at its end when it is empty and closed for writing.
AtEof(pipe) == pipe.size = 0 /\ ~pipe.writeOpen

Taken(n, size) == Least(n, size)

\* read: of a pipe what is there, of a file from the offset of (pid, fd).
Read(p, f, n) ==
  LET t == Resolve(Now, p, f) IN
  /\ \/ /\ t.kind = "read" /\ Exists(t.id)
        /\ pipes' = [pipes EXCEPT ![t.id].size = @ - Taken(n, @)]
        /\ told' = IF pipes[t.id].size = 0 /\ AtEof(pipes[t.id])
                   THEN told \cup {t.id} ELSE told
        /\ UNCHANGED offset
     \/ /\ t.kind = "file" /\ t.id \in files
        /\ offset' = [offset EXCEPT ![p][f] =
                        IF @ = NoOffset THEN Least(n, FileSize) ELSE Least(@ + n, FileSize)]
        /\ UNCHANGED <<pipes, told>>
  /\ UNCHANGED <<nextFd, own, global, files, capture, fed>>

\* write appends to a pipe that exists, even one nobody can read.
Write(p, f, n) ==
  LET t == Resolve(Now, p, f) IN
  /\ t.kind = "write" /\ Exists(t.id)
  /\ pipes[t.id].size + n <= Capacity
  /\ pipes' = [pipes EXCEPT ![t.id].size = @ + n]
  /\ UNCHANGED <<nextFd, own, global, files, offset, capture, histories>>

-------------------------------------------------------------------------------
(***************************************************************************)
(* Closing hooks.                                                          *)
(***************************************************************************)

\* Mutant: any close of a write end completes the capture.
LastWriterAny(s, t) == t.kind = "write"
LastWriter(s, t) == t.kind = "write" /\ ~s.pipes[t.id].writeOpen

\* close: with the last writer of a captured pipe goes its consumer, the process
\* that execve left reading it, and the capture is complete.
Close(p, f) ==
  LET t == Resolve(Now, p, f)
      left == Closed(Now, p, {f})
      c == capture[t.id] IN
  /\ IF LastWriter(left, t) /\ c # 0
     THEN /\ Become(Terminated(left, c))
          /\ capture' = [capture EXCEPT ![t.id] = 0]
     ELSE Become(left) /\ UNCHANGED capture
  /\ UNCHANGED <<nextFd, fed, told>>

\* execve arms a capture of the pipe on standard input and closes everything.
Execve(p) ==
  LET t == Resolve(Now, p, Stdin) IN
  /\ capture' = IF t.kind = "read" /\ Exists(t.id)
                THEN [capture EXCEPT ![t.id] = p] ELSE capture
  /\ Become(Terminated(Now, p))
  /\ UNCHANGED <<nextFd, histories>>

\* exit of the last thread of a process.
Exit(p) ==
  /\ Become(Terminated(Now, p))
  /\ UNCHANGED <<nextFd, capture, histories>>

\* posix_spawn of the log stream: its output is in the pipe at once, which is then
\* closed for writing, whoever else holds the write end.
SpawnLogStream(p, f) ==
  LET t == Resolve(Now, p, f) IN
  /\ t.kind = "write" /\ Exists(t.id) /\ pipes[t.id].size < Capacity
  /\ pipes' = [pipes EXCEPT ![t.id].size = @ + 1, ![t.id].writeOpen = FALSE]
  /\ fed' = fed \cup {t.id}
  /\ UNCHANGED <<nextFd, own, global, files, offset, capture, told>>

Hook(p) ==
  \/ Open(p) \/ MakePipe(p) \/ Execve(p) \/ Exit(p)
  \/ \E f \in Fds : Dup(p, f) \/ Close(p, f) \/ SpawnLogStream(p, f)
  \/ \E old, new \in Fds : Dup2(p, old, new)
  \/ \E f \in Fds, n \in 1..Capacity : Read(p, f, n) \/ Write(p, f, n)

\* The scheduler switches between two hooks.
FNext ==
  \/ Hook(onCpu) /\ UNCHANGED onCpu
  \/ \E p \in Procs \ {onCpu} : onCpu' = p /\ UNCHANGED <<nextFd, tables, capture, histories>>

FSpec == FInit /\ [][FNext]_fdvars

-------------------------------------------------------------------------------
(***************************************************************************)
(* Properties.                                                             *)
(***************************************************************************)

FTypeOK ==
  /\ onCpu \in Procs /\ nextFd \in FirstFd..(MaxFd + 1)
  /\ own \in [Procs -> [Fds -> Targets]] /\ global \in [Fds -> Targets]
  /\ pipes \in [Fds -> Pipe] /\ files \subseteq Fds
  /\ offset \in [Procs -> [Fds -> 0..NoOffset]]
  /\ capture \in [Fds -> Procs \cup {0}]
  /\ fed \subseteq Fds /\ told \subseteq Fds

Referenced(t) == \E f \in Fds : global[f] = t \/ \E p \in Procs : own[p][f] = t

\* The open flags of a pipe say whether some descriptor of some process refers to
\* that end, through every dup, dup2, close, exec and exit (the log stream of
\* posix_spawn alone closes an end that is still referred to).
EndsCounted ==
  \A i \in Fds : Exists(i) =>
    /\ pipes[i].readOpen <=> Referenced(Target("read", i))
    /\ pipes[i].writeOpen => Referenced(Target("write", i))
    /\ Referenced(Target("write", i)) => pipes[i].writeOpen \/ i \in fed

\* No descriptor names a pipe or file that is gone, and none of these outlives
\* its last descriptor.
NothingDangles ==
  \A i \in Fds :
    /\ i \in files <=> Referenced(Target("file", i))
    /\ Referenced(Target("read", i)) => Exists(i)
    /\ Referenced(Target("write", i)) => Exists(i) \/ i \in fed

\* What a forked child sees of the pipes of its parent it sees only as long as a
\* process holds them: the shared table never names an end nobody owns.
SharedHasOwner ==
  \A f \in Fds : global[f] # Unbound => \E p \in Procs : own[p][f] = global[f]

\* An offset belongs to an open file: a number that is used again starts afresh.
OffsetsBelong ==
  \A p \in Procs, f \in Fds : offset[p][f] # NoOffset => own[p][f].kind = "file"

\* The tables agree whatever closes, duplicates and ends in between: nothing names
\* what is gone, nothing outlives its last descriptor, the shared table names what
\* some process holds, offsets belong to open files.
TablesAgree == NothingDangles /\ SharedHasOwner /\ OffsetsBelong

\* Once a reader saw the end of a pipe nobody can write to it any more, so no
\* byte comes after the end of file.
EofIsFinal ==
  \A i \in told \ fed : ~Referenced(Target("write", i))

\* The ends of a pipe are counted over all processes, so end of file is told when
\* it is true and stays true.
EofHonest == EndsCounted /\ EofIsFinal

\* A capture is complete only when nobody can write to the pipe any more.
CaptureEnds ==
  \A i \in Fds \ fed :
    capture[i] # 0 /\ capture'[i] = 0 => ~Referenced(Target("write", i))'
CaptureComplete == [][CaptureEnds]_fdvars

\* The steps by which number f may end for process q, which is not the one that
\* runs.  A number of its own ends when q is the consumer of a capture that is
\* complete.  A number q has from the shared table alone, as a forked child has the
\* pipes of its parent, ends besides when a process that has the number bound gives
\* it up, or when the process that runs closes that number or duplicates onto it,
\* be it only borrowed there as well.
MayEnd(q, f) ==
  \/ \E i \in Fds : capture[i] = q /\ capture'[i] = 0
  \/ /\ own[q][f] = Unbound
     /\ \/ \E r \in Procs : own[r][f] # Unbound /\ own'[r][f] # own[r][f]
        \/ Close(onCpu, f)
        \/ \E old \in Fds : Dup2(onCpu, old, f)

\* What number f of process q names: Resolve of the tables as they are.
Meaning(q, f) == IF own[q][f] # Unbound THEN own[q][f] ELSE global[f]

\* A number of a process that is not running never comes to name another pipe or
\* file: it names what it named, or it ends, in the ways above; and what it comes to
\* name, by a pipe another process made, it gets as a number nobody was given before.
MeaningKept ==
  \A q \in Procs \ {onCpu}, f \in Fds :
    LET was == Meaning(q, f)
        is == Meaning(q, f)' IN
    /\ own'[q][f] # own[q][f] => MayEnd(q, f)
    /\ \/ is = was
       \/ was = Unbound /\ f >= nextFd
       \/ is = Unbound /\ MayEnd(q, f)
DescriptorsKept == [][MeaningKept]_<<own, global>>
===============================================================================
