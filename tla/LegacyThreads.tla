----------------------------- MODULE LegacyThreads -----------------------------
(***************************************************************************)
(* The threads and processes of the import dispatcher the loader installs  *)
(* without dyld (install_arm64_import_dispatcher): main and one child on   *)
(* the CPU in turns.  A child runs while main waits on a condition or has  *)
(* just forked; it gives way at usleep, signal, exit and return.           *)
(*                                                                         *)
(* Register contexts are reduced to whose they are and, where the code     *)
(* compares it, to the pc they resume at.  Thread and process numbers are  *)
(* both counted from 2.  Counts of repeats stop one above their limit.     *)
(***************************************************************************)
EXTENDS Naturals, Sequences, FiniteSets

CONSTANTS MaxThreads,   \* MAX_GUEST_THREADS
          ResumeLimit,  \* ARM64_RESUME_STREAK_LIMIT
          MaxForks,     \* bound on fork
          MaxQueue,     \* bound on the queue, which a deferral makes grow
          Pcs           \* where a child calls usleep or fork

ASSUME LegacyAssumption ==
  /\ MaxThreads \in Nat /\ ResumeLimit \in Nat /\ MaxForks \in Nat /\ MaxQueue \in Nat
  /\ "entry" \notin Pcs

VARIABLES
  nextThread, nextPid,      \* next_thread_id, next_process_id: 0 at first
  current,                  \* current_thread_id
  pending,                  \* pending_arm64_threads
  active,                   \* active_arm64_thread
  processes,                \* synthetic_processes
  resumed,                  \* last_resume_pc, last_resume_streak, defer_same_resume
  running,                  \* whose registers are on the CPU
  stopped,                  \* stop_emulation
  gone,                     \* history: who ended, and who was dropped by its signal
  deferred                  \* history: a resume was deferred once

lvars == <<nextThread, nextPid, current, pending, active, processes, resumed,
           running, stopped, gone, deferred>>

Owner(kind, n) == [kind |-> kind, n |-> n]
Main == Owner("main", 1)
Pending(id, owner, pc) == [id |-> id, owner |-> owner, pc |-> pc]
None == [id |-> 0, parentId |-> 0, parent |-> Main]

LInit ==
  /\ nextThread = 0 /\ nextPid = 0 /\ current = 0
  /\ pending = <<>> /\ active = None /\ processes = [pid \in {} |-> "running"]
  /\ resumed = [pc |-> "entry", streak |-> 0, defer |-> FALSE]
  /\ running = Main /\ stopped = FALSE /\ gone = {} /\ deferred = FALSE

Most(a, b) == IF a > b THEN a ELSE b
Capped(n, limit) == IF n > limit THEN limit + 1 ELSE n

-------------------------------------------------------------------------------
(***************************************************************************)
(* dispatch_pending_arm64_thread.  A context that resumes too often at one *)
(* pc is put off, but it is active then, and main goes on in its name.     *)
(***************************************************************************)
Streak(head) == IF head.pc = resumed.pc THEN Capped(resumed.streak + 1, ResumeLimit) ELSE 1
Dispatches(queue) == active = None /\ ~resumed.defer /\ queue # <<>>
Resumes(head) == head.pc = "entry" \/ Streak(head) <= ResumeLimit

\* What dispatching from this queue does to the scheduler and to the CPU.
Dispatch(queue) ==
  IF ~Dispatches(queue)
  THEN /\ resumed' = IF active = None THEN [resumed EXCEPT !.defer = FALSE] ELSE resumed
       /\ pending' = queue
       /\ UNCHANGED <<current, active, running, deferred>>
  ELSE LET head == Head(queue)
       IN /\ active' = [id |-> head.id, parentId |-> Most(current, 1), parent |-> running]
          /\ current' = head.id
          /\ IF Resumes(head)
             THEN running' = head.owner /\ pending' = Tail(queue) /\ UNCHANGED deferred
             ELSE /\ pending' = Append(Tail(queue), head) /\ deferred' = TRUE
                  /\ UNCHANGED running
          /\ resumed' = [pc |-> head.pc, defer |-> ~Resumes(head),
                         streak |-> IF head.pc = "entry" THEN 0 ELSE Streak(head)]

\* The active child leaves the CPU to its parent.
BackToParent == /\ active' = None /\ current' = active.parentId /\ running' = active.parent

-------------------------------------------------------------------------------
PthreadCreate ==
  /\ nextThread <= MaxThreads
  /\ LET id == IF nextThread = 0 THEN 2 ELSE nextThread
     IN /\ nextThread' = id + 1
        /\ pending' = Append(pending, Pending(id, Owner("thread", id), "entry"))
  /\ current' = IF nextThread = 0 THEN 1 ELSE current
  /\ UNCHANGED <<nextPid, active, processes, resumed, running, stopped, gone, deferred>>

PthreadSelf ==
  /\ current = 0
  /\ current' = 1 /\ nextThread' = IF nextThread = 0 THEN 2 ELSE nextThread
  /\ UNCHANGED <<nextPid, pending, active, processes, resumed, running, stopped, gone,
                 deferred>>

\* pthread_cond_wait and timedwait: main gives way, or the wait comes back at once
\* (after a number of equal waits by another path, which only moves the clock).
CondWait ==
  /\ Dispatch(pending)
  /\ UNCHANGED <<nextThread, nextPid, processes, stopped, gone>>

\* A child that signals is dropped: main goes on, and nothing resumes the child.
CondSignal ==
  /\ active # None
  /\ BackToParent /\ gone' = gone \cup {running}
  /\ UNCHANGED <<nextThread, nextPid, pending, processes, resumed, stopped, deferred>>

\* Mutant: a child that sleeps is not put back in the queue.
YieldedForgotten(pc) == pending
Yielded(pc) == Append(pending, Pending(active.id, running, pc))
Usleep(pc) ==
  /\ active # None /\ Len(pending) < MaxQueue
  /\ pending' = Yielded(pc) /\ BackToParent
  /\ UNCHANGED <<nextThread, nextPid, processes, resumed, stopped, gone, deferred>>

-------------------------------------------------------------------------------
(***************************************************************************)
(* Processes.                                                              *)
(***************************************************************************)
Pids == 2..MaxForks + 1
Fork(pc) ==
  LET pid == IF nextPid = 0 THEN 2 ELSE nextPid
  IN /\ pid \in Pids
     /\ nextPid' = pid + 1
     /\ processes' = [p \in DOMAIN processes \cup {pid} |->
                       IF p = pid THEN "running" ELSE processes[p]]
     /\ Dispatch(<<Pending(pid, Owner("process", pid), pc)>> \o pending)
     /\ UNCHANGED <<nextThread, stopped, gone>>

\* mark_synthetic_process_exit: the active number is taken for a process.
Marked == [pid \in DOMAIN processes |->
             IF pid = active.id /\ processes[pid] = "running" THEN "ended" ELSE processes[pid]]

\* exit, and the return of a child to ARM64_HELPER_EXIT_STUB, are one to the scheduler.
Exit ==
  /\ gone' = gone \cup {running}
  /\ IF active # None
     THEN BackToParent /\ processes' = Marked /\ UNCHANGED stopped
     ELSE stopped' = TRUE /\ UNCHANGED <<active, current, running, processes>>
  /\ UNCHANGED <<nextThread, nextPid, pending, resumed, deferred>>
HelperReturn == active # None /\ running # Main /\ Exit

\* waitpid: for any ended child, whoever's it is, or for one.
Wait(pid) ==
  /\ pid \in DOMAIN processes /\ processes[pid] = "ended"
  /\ processes' = [processes EXCEPT ![pid] = "reaped"]
  /\ UNCHANGED <<nextThread, nextPid, current, pending, active, resumed, running,
                 stopped, gone, deferred>>

LNext ==
  /\ ~stopped
  /\ \/ PthreadCreate \/ PthreadSelf \/ CondWait \/ CondSignal \/ Exit \/ HelperReturn
     \/ \E pc \in Pcs : Usleep(pc) \/ Fork(pc)
     \/ \E pid \in Pids : Wait(pid)
LSpec == LInit /\ [][LNext]_lvars

-------------------------------------------------------------------------------
Parked == IF active = None THEN {} ELSE {active.parent}
InQueue == {pending[i].owner : i \in DOMAIN pending}
Born == {Main} \cup {Owner("thread", n) : n \in 2..nextThread - 1}
               \cup {Owner("process", n) : n \in DOMAIN processes}

\* Until a resume is deferred, every thread and child is in exactly one place, with
\* the number of its own, and main is on the CPU or next to have it: no order of
\* forks, waits, sleeps and exits loses one, except its own signal.
OnePlaceUntilDeferred ==
  ~deferred =>
    /\ Born = {running} \cup Parked \cup InQueue \cup gone
    /\ Cardinality(InQueue) = Len(pending)
    /\ running \notin InQueue \cup Parked /\ Parked \cap InQueue = {}
    /\ Parked \cup InQueue \subseteq Born \ gone
    /\ active = None <=> running = Main
    /\ active # None => active.id = running.n /\ active.parent = Main
    /\ \A i \in DOMAIN pending : pending[i].id = pending[i].owner.n

\* A child is taken for ended only when it has ended, or a thread that has its number:
\* waitpid does not reap a child that still runs on account of another process.
EndedTruly ==
  ~deferred => \A pid \in DOMAIN processes :
    processes[pid] # "running" => gone \cap {Owner("process", pid), Owner("thread", pid)} # {}

\* Until a resume is deferred, nobody is lost or in two places, and waitpid takes
\* only what has ended.
LegacyConserved == OnePlaceUntilDeferred /\ EndedTruly
===============================================================================
