---------------------------- MODULE GuestProcesses ----------------------------
(***************************************************************************)
(* The synthetic processes of the arm64 runner on top of the thread        *)
(* scheduler: fork, execve, exit, posix_spawn and wait4/waitpid, and what  *)
(* done_addr and pthread_create do to the process table.  A process is a   *)
(* row of a table; its code runs as one more synthetic thread.             *)
(*                                                                         *)
(* Abstracted: paths, arguments, exec_path, memory (shared by parent and   *)
(* child), file descriptors (SyntheticFds) and the addresses of one sample *)
(* hard-coded in fork, exit(253) and the fork-ret snapshot, which change   *)
(* where a saved context resumes and not whose it is.  Left out: the       *)
(* trampolines that send a raw libc close, dup2 or execve to these hooks,  *)
(* and the _write of 8 bytes after an execve that is suppressed by         *)
(* queueing the recorded parent once more under the id 10_000 + tid.       *)
(***************************************************************************)
EXTENDS GuestThreads

CONSTANTS MaxProcesses, \* bound on the process table (unbounded in the code)
          ExitCodes,    \* statuses passed to exit
          WaitArgs      \* pid arguments of wait4/waitpid; AnyChild stands for -1

ASSUME ProcessAssumption == MaxProcesses \in Nat \ {0}

VARIABLES procs,        \* processes, indexed by pid
          threadProc,   \* thread_processes, 0 for no entry
          forkResumes,  \* fork_parent_resumes: parent thread of a child, or 0
          mainStack,    \* threads whose outermost frame returns to done_addr
          reply,        \* outcome of the last wait4/waitpid
          gone          \* history: threads that called exit

procVars == <<procs, threadProc, forkResumes, mainStack, reply, gone>>
pvars == <<vars, procVars>>

AnyChild == 1000             \* (u64) -1: never the pid of a process
Pids == 1..MaxProcesses
Process == [parent : 0..MaxProcesses, running : BOOLEAN, status : ExitCodes \cup {0},
            reaped : BOOLEAN]

PInit ==
  /\ Init
  /\ procs = <<[parent |-> 0, running |-> TRUE, status |-> 0, reaped |-> FALSE]>>
  /\ threadProc = [t \in Tids |-> IF t = Main THEN 1 ELSE 0]
  /\ forkResumes = [t \in Tids |-> 0]
  /\ mainStack = {Main}
  /\ reply = [arg |-> 0, answer |-> "none"] /\ gone = {}

PidOf(t) == IF threadProc[t] = 0 THEN 1 ELSE threadProc[t]
CurrentPid == PidOf(current)

\* terminate_synthetic_process: the row of pid ends with this status.
Ended(table, pid, code) ==
  [table EXCEPT ![pid].running = FALSE, ![pid].status = code]

-------------------------------------------------------------------------------
\* Hooks of GuestThreads, with their effect on the process table.
PCreate ==
  /\ PthreadCreate
  /\ threadProc' = [threadProc EXCEPT ![nextTid] = CurrentPid]
  /\ UNCHANGED <<procs, forkResumes, mainStack, reply, gone>>

PThread ==
  /\ \/ \E t \in Tids : PthreadJoin(t) \/ PthreadDetach(t)
     \/ ThreadExit \/ SyncStep \/ DelayYield
  /\ UNCHANGED procVars

\* done_addr ends a forked process before it looks for another thread.
DoneMarks(table) ==
  IF threadProc[current] > 1 THEN Ended(table, threadProc[current], 0) ELSE table
PDone ==
  /\ \/ InGuest /\ cpu.tid \in mainStack /\ DoneAddr([cpu EXCEPT !.at = "done"])
     \/ ExitWithoutActive \/ DoneAgain
  /\ procs' = DoneMarks(procs)
  /\ UNCHANGED <<threadProc, forkResumes, mainStack, reply, gone>>

-------------------------------------------------------------------------------
\* fork: the child is pushed to the front of the queue and entered at once, with
\* the caller saved as its parent; what the active slot held is dropped.
Fork ==
  /\ InGuest /\ nextTid <= MaxThreads + 1 /\ Len(procs) < MaxProcesses
  /\ nextTid' = nextTid + 1
  /\ procs' = Append(procs, [parent |-> CurrentPid, running |-> TRUE,
                             status |-> 0, reaped |-> FALSE])
  /\ threadProc' = [threadProc EXCEPT ![nextTid] = Len(procs) + 1]
  /\ forkResumes' = [forkResumes EXCEPT ![nextTid] = current]
  /\ mainStack' = IF cpu.tid \in mainStack THEN mainStack \cup {nextTid} ELSE mainStack
  /\ active' = [id |-> nextTid, parentId |-> current, parent |-> cpu, store |-> FALSE]
  /\ current' = nextTid
  /\ cpu' = [tid |-> nextTid, at |-> "guest"]
  /\ UNCHANGED <<pending, waiters, signals, owner, completed, stopped, ghosts,
                 reply, gone>>

\* posix_spawn runs nothing: the child is a row that has already ended.
PosixSpawn ==
  /\ InGuest /\ Len(procs) < MaxProcesses
  /\ procs' = Append(procs, [parent |-> CurrentPid, running |-> FALSE,
                             status |-> 0, reaped |-> FALSE])
  /\ UNCHANGED <<vars, threadProc, forkResumes, mainStack, reply, gone>>

\* The first entry of a thread in the ready queue is removed, if there is one.
WithoutFirst(q, t) ==
  LET i == SelectInSeq(q, LAMBDA e : e.id = t) IN IF i = 0 THEN q ELSE TakeEntry(q, i)

\* execve ends the process.  The active thread then gives the CPU to the parent
\* recorded by fork, else to a ready thread, else it goes on with its own code.
Execve ==
  /\ InGuest
  /\ procs' = Ended(procs, CurrentPid, 0)
  /\ LET parentTid == forkResumes[current]
         mine == active # NoActive /\ active.id = current IN
     \/ /\ mine /\ parentTid # 0
        /\ pending' = WithoutFirst(pending, parentTid)
        /\ active' = [id |-> parentTid, parentId |-> current, parent |-> cpu,
                      store |-> FALSE]
        /\ current' = parentTid
        /\ cpu' = [tid |-> parentTid, at |-> "guest"]
     \/ mine /\ parentTid = 0 /\ pending # <<>> /\ Dispatch(1, cpu, FALSE)
     \/ /\ mine /\ parentTid = 0 /\ pending = <<>>
        /\ active' = NoActive /\ UNCHANGED <<pending, current, cpu>>
     \/ ~mine /\ UNCHANGED sched
  /\ UNCHANGED <<nextTid, waiters, signals, owner, completed, stopped, ghosts,
                 threadProc, forkResumes, mainStack, reply, gone>>

\* exit: other threads of the process, as far as the queues and the slot show.
OtherThreads ==
  {t \in Tids \ {current} : threadProc[t] = CurrentPid
     /\ \/ active.id = t
        \/ \E i \in DOMAIN pending : pending[i].id = t
        \/ \E c \in Conds : Holds(c, t)}
AfterExit(code) ==
  IF OtherThreads # {} THEN procs ELSE Ended(procs, CurrentPid, code)
\* With another thread of the process only the caller goes, else the process
\* ends.  Then a ready thread runs, or the caller is parked at done_addr.
Exit(code) ==
  /\ InGuest
  /\ gone' = gone \cup {cpu.tid}
  /\ threadProc' = IF OtherThreads # {} THEN [threadProc EXCEPT ![current] = 0]
                   ELSE threadProc
  /\ \/ /\ active # NoActive /\ active.id = current /\ pending # <<>>
        /\ Dispatch(1, cpu, FALSE)
        /\ procs' = AfterExit(code)
        /\ UNCHANGED <<nextTid, waiters, signals, owner, completed, stopped, ghosts>>
     \/ /\ active = NoActive \/ active.id # current \/ pending = <<>>
        /\ DoneAddr(cpu)
        /\ procs' = IF threadProc'[current] > 1
                    THEN Ended(AfterExit(code), threadProc'[current], 0)
                    ELSE AfterExit(code)
  /\ UNCHANGED <<forkResumes, mainStack, reply>>

\* Mutant: a child is reaped while it runs.
ReapableRunning(arg) ==
  {p \in DOMAIN procs \ {1} : procs[p].parent = CurrentPid /\ ~procs[p].reaped
                              /\ (arg = 0 \/ arg = p)}
\* Mutant: only the child's own number selects it, and 0 is a number.
ReapableNamed(arg) ==
  {p \in DOMAIN procs \ {1} : procs[p].parent = CurrentPid /\ ~procs[p].reaped
                              /\ arg = p /\ ~procs[p].running}
\* wait4 and waitpid look for an ended child: any for 0, else the one named.
Reapable(arg) ==
  {p \in DOMAIN procs \ {1} : procs[p].parent = CurrentPid /\ ~procs[p].reaped
                              /\ (arg = 0 \/ arg = p) /\ ~procs[p].running}
Unreaped(arg) ==
  {p \in DOMAIN procs \ {1} : procs[p].parent = CurrentPid /\ ~procs[p].reaped
                              /\ (arg = 0 \/ arg = p)}
\* Neither blocks: with a live child and no WNOHANG the answer is 0.
Wait(arg, nohang) ==
  /\ InGuest
  /\ \/ \E p \in Reapable(arg) :
          procs' = [procs EXCEPT ![p].reaped = TRUE] /\ reply' = [arg |-> arg, answer |-> "reaped"]
     \/ /\ Reapable(arg) = {} /\ UNCHANGED procs
        /\ reply' = [arg |-> arg, answer |-> IF Unreaped(arg) # {} /\ ~nohang
                                          THEN "zero" ELSE "echild"]
  /\ UNCHANGED <<vars, threadProc, forkResumes, mainStack, gone>>

PNext ==
  \/ PCreate \/ PThread \/ PDone
  \/ Fork \/ PosixSpawn \/ Execve
  \/ \E code \in ExitCodes : Exit(code)
  \/ \E arg \in WaitArgs, nohang \in BOOLEAN : Wait(arg, nohang)

PSpec == PInit /\ [][PNext]_pvars

-------------------------------------------------------------------------------
(***************************************************************************)
(* Properties.                                                             *)
(***************************************************************************)

PTypeOK ==
  /\ TypeOK
  /\ procs \in Seq(Process) /\ Len(procs) <= MaxProcesses
  /\ threadProc \in [Tids -> 0..MaxProcesses]
  /\ forkResumes \in [Tids -> 0..(MaxThreads + 1)]
  /\ mainStack \subseteq Tids /\ gone \subseteq Tids
  /\ reply \in [arg : WaitArgs \cup {0}, answer : {"none", "reaped", "zero", "echild"}]

\* Forks nest, execve resumes a parent, exits resume whatever context the active
\* slot saved: through all of it current_thread_id, the active slot and the queues
\* name the thread whose registers they go with.
ForkAttribution ==
  /\ current = cpu.tid
  /\ active # NoActive => active.id = cpu.tid /\ active.parentId = active.parent.tid
  /\ QueuesMatch

\* Whoever exits, execs, returns from main or is resumed at done_addr, a step ends
\* at most the process whose registers are on the CPU, and no process comes back.
OwnEnds ==
  \A p \in DOMAIN procs :
    procs[p].running # procs'[p].running => procs[p].running /\ p = PidOf(cpu.tid)
OnlyOwnProcessEnds == [][OwnEnds]_pvars

\* A child is reaped once, by its parent, and only after it ended.
ParentReaps ==
  \A p \in DOMAIN procs :
    procs[p].reaped # procs'[p].reaped =>
      ~procs[p].reaped /\ ~procs[p].running /\ procs[p].parent = CurrentPid
ReapedOnce == [][ParentReaps]_pvars

\* A process ends once, by its own step, and is reaped once, by its parent.
EndsAndReapsOnce == OnlyOwnProcessEnds /\ ReapedOnce

\* ECHILD is answered only when no ended child of the caller matches the argument.
EchildTrue ==
  (reply' # reply /\ reply'.answer = "echild") =>
    ~\E p \in DOMAIN procs :
       /\ procs[p].parent = CurrentPid /\ ~procs[p].running /\ ~procs[p].reaped
       /\ reply'.arg \in {0, AnyChild, p}
WaitTellsTruth == [][EchildTrue]_pvars

\* A thread that called exit never executes again: neither the code after its
\* call nor anything else runs in its name.
NoDeadTail == cpu.tid \in gone => stopped
===============================================================================
