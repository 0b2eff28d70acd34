----------------------------- MODULE GuestThreads -----------------------------
(***************************************************************************)
(* The synthetic guest thread scheduler: crates/compatra-threading (the    *)
(* data structure) driven by the pthread hooks, thread_exit_stub and       *)
(* done_addr of the arm64 runner.  One emulated CPU runs everything; a     *)
(* hook runs to completion between two guest instructions, so each hook is *)
(* one action.  The guest program is unknown: any thread may call any hook *)
(* at any time.                                                            *)
(*                                                                         *)
(* Abstracted: stacks and register contents.  A saved context keeps whose  *)
(* registers it holds (tid) and where it resumes (at): "guest" for code    *)
(* after an import call, "done" for done_addr, the address main returns    *)
(* to.  cond_wait_streaks only decides a word of the trace.                *)
(***************************************************************************)
EXTENDS Naturals, Sequences, FiniteSets, SequencesExt

CONSTANTS MaxThreads,   \* MAX_SYNTHETIC_THREADS
          Conds,        \* addresses used as condition variables
          Mutexes,      \* addresses used as mutexes
          SignalMax     \* saturation of a signal counter (u32::MAX)

ASSUME ConstantsAssumption ==
  /\ MaxThreads \in Nat
  /\ SignalMax \in Nat \ {0}
\* Conditions are guest addresses, never a name of a place in ThreadLifecycle.
ASSUME CondsAssumption ==
  Conds \cap {"unborn", "ready", "running", "exited", "lost"} = {}

VARIABLES nextTid,      \* next_thread_id
          current,      \* current_thread_id
          pending,      \* pending_threads: ready queue
          active,       \* active_thread, or NoActive
          waiters,      \* cond_waiters
          signals,      \* cond_signal_counts
          owner,        \* mutex_owners, 0 for no entry
          completed,    \* keys of completed_threads
          cpu,          \* the context the emulator executes
          stopped,      \* stop_emulation was called at done_addr
          exited,       \* history: threads whose code ended
          taken,        \* history: threads whose result was joined or detached
          lost          \* history: waiters dropped by pthread_cond_init

sched == <<pending, active, current, cpu>>
ghosts == <<exited, taken, lost>>
vars == <<nextTid, pending, active, current, cpu, waiters, signals, owner,
          completed, stopped, exited, taken, lost>>

Main == 1
Tids == 1..(MaxThreads + 1)
Children == Tids \ {Main}

Context == [tid : Tids, at : {"guest", "done"}]
\* Only an import call in guest code puts a context in a queue.
GuestContext == [tid : Tids, at : {"guest"}]
Entry == [id : Tids, ctx : GuestContext]
Waiter == [id : Tids, mutex : Mutexes, ctx : GuestContext]
NoActive == [id |-> 0, parentId |-> 0,
             parent |-> [tid |-> Main, at |-> "guest"], store |-> FALSE]
\* store: the exit action is StoreResultAndReturn (a join waits for the result).
Active == [id : Tids, parentId : Tids, parent : Context, store : BOOLEAN]

Init ==
  /\ nextTid = 2 /\ current = Main
  /\ pending = <<>> /\ active = NoActive
  /\ waiters = [c \in Conds |-> <<>>]
  /\ signals = [c \in Conds |-> 0]
  /\ owner = [m \in Mutexes |-> 0]
  /\ completed = {}
  /\ cpu = [tid |-> Main, at |-> "guest"]
  /\ stopped = FALSE
  /\ exited = {} /\ taken = {} /\ lost = {}

\* Some guest code runs and calls an import.
InGuest == ~stopped /\ cpu.at = "guest"

AsEntry(w) == [id |-> w.id, ctx |-> w.ctx]
Here == [id |-> active.id, ctx |-> cpu]

-------------------------------------------------------------------------------
(***************************************************************************)
(* Switching the CPU.                                                      *)
(***************************************************************************)

\* remove_pending_by_id and pop_front take one entry and keep the others' order.
TakeEntry(q, i) == RemoveAt(q, i)

\* dispatch_next and dispatch_thread_by_id: with no active thread, entry i of
\* the queue becomes active and `parent' is what its exit resumes.
Dispatch(i, parent, store) ==
  /\ active' = [id |-> pending[i].id, parentId |-> current,
                parent |-> parent, store |-> store]
  /\ current' = pending[i].id
  /\ cpu' = pending[i].ctx
  /\ pending' = TakeEntry(pending, i)

\* Mutant: the switch forgets current_thread_id.
SwitchToStale(q) ==
  /\ active' = [active EXCEPT !.id = q[1].id]
  /\ cpu' = q[1].ctx
  /\ pending' = Tail(q)
  /\ UNCHANGED current
\* The active thread leaves the CPU to the head of the queue q; the parent and
\* the exit action stay with the active slot.
SwitchTo(q) ==
  /\ active' = [active EXCEPT !.id = q[1].id]
  /\ current' = q[1].id
  /\ cpu' = q[1].ctx
  /\ pending' = Tail(q)

\* Mutant: the yielding thread is not put back in the queue.
YieldDrops(q) ==
  \/ active # NoActive /\ q # <<>> /\ SwitchTo(q)
  \/ /\ active = NoActive \/ q = <<>>
     /\ pending' = q /\ UNCHANGED <<active, current, cpu>>
\* Mutant: the yielding thread goes to the front of the queue.
YieldToSelf(q) ==
  \/ active # NoActive /\ q # <<>> /\ SwitchTo(<<Here>> \o q)
  \/ /\ active = NoActive \/ q = <<>>
     /\ pending' = q /\ UNCHANGED <<active, current, cpu>>
\* yield_active_to_next, once the ready queue is q.
Yield(q) ==
  \/ active # NoActive /\ q # <<>> /\ SwitchTo(Append(q, Here))
  \/ /\ active = NoActive \/ q = <<>>
     /\ pending' = q /\ UNCHANGED <<active, current, cpu>>

\* A delay hook (_sleep, _usleep) hands the CPU over when it can.
DelayYield ==
  /\ InGuest /\ active # NoActive /\ pending # <<>>
  /\ Yield(pending)
  /\ UNCHANGED <<nextTid, waiters, signals, owner, completed, stopped, ghosts>>

-------------------------------------------------------------------------------
(***************************************************************************)
(* Life of a thread.                                                       *)
(***************************************************************************)

\* Past the limit the hook returns EAGAIN and changes nothing.
PthreadCreate ==
  /\ InGuest /\ nextTid <= MaxThreads + 1
  /\ nextTid' = nextTid + 1
  /\ pending' = Append(pending,
       [id |-> nextTid, ctx |-> [tid |-> nextTid, at |-> "guest"]])
  /\ UNCHANGED <<active, current, cpu, waiters, signals, owner, completed,
                 stopped, ghosts>>

\* Joining a completed thread consumes its result; joining a ready one runs it.
\* In every other case the hook returns 0 at once and changes nothing.
PthreadJoin(t) ==
  /\ InGuest
  /\ \/ /\ t \in completed
        /\ completed' = completed \ {t}
        /\ taken' = taken \cup {t}
        /\ UNCHANGED sched
     \/ /\ t \notin completed /\ active = NoActive
        /\ \E i \in DOMAIN pending :
             /\ pending[i].id = t
             /\ \A j \in 1..(i - 1) : pending[j].id # t
             /\ Dispatch(i, cpu, TRUE)
        /\ UNCHANGED <<completed, taken>>
  /\ UNCHANGED <<nextTid, waiters, signals, owner, stopped, exited, lost>>

PthreadDetach(t) ==
  /\ InGuest /\ t \in completed
  /\ completed' = completed \ {t}
  /\ taken' = taken \cup {t}
  /\ UNCHANGED <<nextTid, sched, waiters, signals, owner, stopped, exited, lost>>

ExitRecords == IF active.store THEN completed ELSE completed \cup {active.id}

\* thread_exit_stub with an active thread: its start routine returned, or it
\* called pthread_exit.  A pending join stores the result instead of recording it.
ThreadExit ==
  /\ InGuest /\ active # NoActive
  /\ completed' = ExitRecords
  /\ taken' = IF active.store THEN taken \cup {cpu.tid} ELSE taken
  /\ exited' = exited \cup {cpu.tid}
  /\ current' = active.parentId
  /\ cpu' = active.parent
  /\ active' = NoActive
  /\ UNCHANGED <<nextTid, pending, waiters, signals, owner, stopped, lost>>

\* Mutant: done_addr stops with one thread still ready.
DoneAddrEarly(saved) ==
  /\ \/ Len(pending) > 1 /\ Dispatch(1, saved, FALSE) /\ UNCHANGED stopped
     \/ /\ Len(pending) <= 1 /\ stopped' = TRUE /\ active' = NoActive
        /\ UNCHANGED <<pending, current, cpu>>
  /\ UNCHANGED <<nextTid, waiters, signals, owner, completed, ghosts>>
\* done_addr: the active slot is dropped, and either the next ready thread runs
\* with `saved' as its parent or the emulation stops.
DoneAddr(saved) ==
  /\ \/ pending # <<>> /\ Dispatch(1, saved, FALSE) /\ UNCHANGED stopped
     \/ /\ pending = <<>> /\ stopped' = TRUE /\ active' = NoActive
        /\ UNCHANGED <<pending, current, cpu>>
  /\ UNCHANGED <<nextTid, waiters, signals, owner, completed, ghosts>>

\* main returned to done_addr; a saved context goes back there.
MainReturns ==
  InGuest /\ cpu.tid = Main /\ DoneAddr([cpu EXCEPT !.at = "done"])
\* pthread_exit with no active thread: thread_exit_stub jumps to done_addr with
\* lr still in guest code, so the saved context resumes after pthread_exit.
ExitWithoutActive == InGuest /\ active = NoActive /\ DoneAddr(cpu)
\* The context saved at done_addr was resumed and arrives there again.
DoneAgain == ~stopped /\ cpu.at = "done" /\ DoneAddr(cpu)

-------------------------------------------------------------------------------
(***************************************************************************)
(* Mutexes: ownership is only attributed, nobody ever blocks on one.       *)
(***************************************************************************)
SetOwner(m, t) ==
  /\ InGuest
  /\ owner' = [owner EXCEPT ![m] = t]
  /\ UNCHANGED <<nextTid, sched, waiters, signals, completed, stopped, ghosts>>

MutexInit(m) == SetOwner(m, 0)
MutexLock(m) == SetOwner(m, current)
MutexUnlock(m) == SetOwner(m, 0)

-------------------------------------------------------------------------------
(***************************************************************************)
(* Condition variables.                                                    *)
(***************************************************************************)
CondInit(c) ==
  /\ InGuest
  /\ signals' = [signals EXCEPT ![c] = 0]
  /\ waiters' = [waiters EXCEPT ![c] = <<>>]
  /\ lost' = lost \cup {w.id : w \in ToSet(waiters[c])}
  /\ UNCHANGED <<nextTid, sched, owner, completed, stopped, exited, taken>>

\* consume_cond_signal when a signal is stored.
ConsumeSignal(c, m) ==
  /\ signals[c] > 0
  /\ signals' = [signals EXCEPT ![c] = @ - 1]
  /\ owner' = [owner EXCEPT ![m] = current]

\* Mutant: the blocked thread is not queued on the condition.
AddWaiterDropped(c, m, id) == UNCHANGED waiters
AddWaiter(c, m, id) ==
  waiters' = [waiters EXCEPT ![c] = Append(@, [id |-> id, mutex |-> m, ctx |-> cpu])]

\* A stored signal is consumed, and main still gives way to a ready thread.
WaitConsumes(c, m) ==
  /\ ConsumeSignal(c, m)
  /\ \/ active = NoActive /\ pending # <<>> /\ Dispatch(1, cpu, FALSE)
     \/ (active # NoActive \/ pending = <<>>) /\ UNCHANGED sched
  /\ UNCHANGED waiters

\* block_current_on_cond_and_dispatch: main is queued as a waiter AND saved as
\* the parent of the thread it gives way to.
WaitBlocksMain(c, m) ==
  /\ signals[c] = 0 /\ active = NoActive /\ pending # <<>>
  /\ owner' = [owner EXCEPT ![m] = 0]
  /\ AddWaiter(c, m, current)
  /\ Dispatch(1, cpu, FALSE)
  /\ UNCHANGED signals

\* block_active_on_cond.
WaitBlocksActive(c, m) ==
  /\ signals[c] = 0 /\ active # NoActive /\ pending # <<>>
  /\ owner' = [owner EXCEPT ![m] = 0]
  /\ AddWaiter(c, m, active.id)
  /\ SwitchTo(pending)
  /\ UNCHANGED signals

\* Nobody else can run: the wait returns 0 at once, without the mutex.
WaitReturns(c, m) ==
  /\ signals[c] = 0 /\ pending = <<>>
  /\ owner' = [owner EXCEPT ![m] = 0]
  /\ UNCHANGED <<sched, waiters, signals>>

CondWait(c, m) ==
  /\ InGuest
  /\ WaitConsumes(c, m) \/ WaitBlocksMain(c, m)
     \/ WaitBlocksActive(c, m) \/ WaitReturns(c, m)
  /\ UNCHANGED <<nextTid, completed, stopped, ghosts>>

\* The relative timed wait never blocks: it takes a stored signal or times out.
CondTimedWait(c, m) ==
  /\ InGuest /\ ConsumeSignal(c, m)
  /\ UNCHANGED <<nextTid, sched, waiters, completed, stopped, ghosts>>

\* Mutant: the mutex of the woken waiter stays with the signalling thread.
WakeFirstKeepsMutex(c) ==
  /\ waiters[c] # <<>>
  /\ LET w == Head(waiters[c]) IN
       /\ waiters' = [waiters EXCEPT ![c] = Tail(@)]
       /\ owner' = [owner EXCEPT ![w.mutex] = current]
       /\ Yield(<<AsEntry(w)>> \o pending)
  /\ UNCHANGED signals
\* wake_one_cond_waiter_for: the first waiter owns its mutex and goes to the
\* front of the ready queue.
WakeFirst(c) ==
  /\ waiters[c] # <<>>
  /\ LET w == Head(waiters[c]) IN
       /\ waiters' = [waiters EXCEPT ![c] = Tail(@)]
       /\ owner' = [owner EXCEPT ![w.mutex] = w.id]
       /\ Yield(<<AsEntry(w)>> \o pending)
  /\ UNCHANGED signals

\* Mutant: the signal is stored although a thread waits.
StoreSignalBlind(c) ==
  /\ signals' = [signals EXCEPT ![c] = IF @ < SignalMax THEN @ + 1 ELSE @]
  /\ Yield(pending)
  /\ UNCHANGED <<waiters, owner>>
\* Mutant: the counter does not saturate.
StoreSignalWraps(c) ==
  /\ waiters[c] = <<>>
  /\ signals' = [signals EXCEPT ![c] = @ + 1]
  /\ Yield(pending)
  /\ UNCHANGED <<waiters, owner>>
\* signal_cond with nobody waiting: the signal is kept for a later wait.
StoreSignal(c) ==
  /\ waiters[c] = <<>>
  /\ signals' = [signals EXCEPT ![c] = IF @ < SignalMax THEN @ + 1 ELSE @]
  /\ Yield(pending)
  /\ UNCHANGED <<waiters, owner>>

\* pthread_cond_signal: the caller then yields.
CondSignal(c) ==
  /\ InGuest
  /\ WakeFirst(c) \/ StoreSignal(c)
  /\ UNCHANGED <<nextTid, completed, stopped, ghosts>>

\* broadcast_cond wakes the waiters one by one, each to the front of the queue:
\* they run in reverse order and the last one owns a mutex they share.
LastWith(ws, m) == {i \in DOMAIN ws : ws[i].mutex = m
                       /\ \A j \in DOMAIN ws : j > i => ws[j].mutex # m}
CondBroadcast(c) ==
  /\ InGuest
  /\ LET ws == waiters[c] IN
       /\ waiters' = [waiters EXCEPT ![c] = <<>>]
       /\ owner' = [m \in Mutexes |->
                      IF LastWith(ws, m) # {}
                      THEN ws[CHOOSE i \in LastWith(ws, m) : TRUE].id
                      ELSE owner[m]]
       /\ Yield([i \in DOMAIN ws |-> AsEntry(ws[Len(ws) + 1 - i])] \o pending)
  /\ UNCHANGED <<nextTid, signals, completed, stopped, ghosts>>

-------------------------------------------------------------------------------
ThreadStep ==
  \/ PthreadCreate
  \/ \E t \in Tids : PthreadJoin(t) \/ PthreadDetach(t)
  \/ ThreadExit \/ MainReturns \/ ExitWithoutActive \/ DoneAgain

SyncStep ==
  \/ \E m \in Mutexes : MutexInit(m) \/ MutexLock(m) \/ MutexUnlock(m)
  \/ \E c \in Conds : CondInit(c) \/ CondSignal(c) \/ CondBroadcast(c)
  \/ \E c \in Conds, m \in Mutexes : CondWait(c, m) \/ CondTimedWait(c, m)

Next == ThreadStep \/ SyncStep \/ DelayYield

Spec == Init /\ [][Next]_vars

-------------------------------------------------------------------------------
(***************************************************************************)
(* Properties.                                                             *)
(***************************************************************************)

\* Types of all the state.
TypeOK ==
  /\ nextTid \in 2..(MaxThreads + 2)
  /\ current \in Tids
  /\ pending \in Seq(Entry)
  /\ active \in Active \cup {NoActive}
  /\ waiters \in [Conds -> Seq(Waiter)]
  /\ signals \in [Conds -> 0..SignalMax]
  /\ owner \in [Mutexes -> 0..(MaxThreads + 1)]
  /\ completed \subseteq Tids
  /\ cpu \in Context
  /\ stopped \in BOOLEAN
  /\ exited \subseteq Tids /\ taken \subseteq Tids /\ lost \subseteq Tids

\* A stored signal and a queued waiter never meet on one condition, in whatever
\* order waits, signals, broadcasts and time-outs come: no wake-up is lost.
NoLostWakeup == \A c \in Conds : signals[c] > 0 => waiters[c] = <<>>

\* The bookkeeping of who runs (current_thread_id, the active slot, the ids in
\* the queues) is kept apart from the register contexts, and the two agree
\* across every switch, exit, join and return to done_addr.
RunningMatches ==
  /\ current = cpu.tid
  /\ IF active = NoActive THEN cpu.tid = Main
     ELSE /\ active.id = cpu.tid
          /\ active.parentId = Main /\ active.parent.tid = Main
  /\ cpu.at = "done" => active = NoActive
QueuesMatch ==
  /\ pending \in Seq({e \in Entry : e.id = e.ctx.tid})
  /\ \A c \in Conds : waiters[c] \in Seq({w \in Waiter : w.id = w.ctx.tid})
Attribution == RunningMatches /\ QueuesMatch

\* Every thread that was created is in exactly one place: once in one queue, on
\* the CPU, ended, or dropped by pthread_cond_init.  No switch forgets a thread
\* and none queues it twice.
Spots(t) ==
  {<<"ready", i>> : i \in {j \in DOMAIN pending : pending[j].id = t}}
  \cup (UNION {{<<c, i>> : i \in {j \in DOMAIN waiters[c] : waiters[c][j].id = t}}
                 : c \in Conds})
  \cup {<<"running", 0>> : x \in {1} \cap (IF active.id = t THEN {1} ELSE {})}
  \cup {<<"exited", 0>> : x \in exited \cap {t}}
  \cup {<<"lost", 0>> : x \in lost \cap {t}}
ExactlyOnePlace ==
  \A t \in Children : Cardinality(Spots(t)) = IF t < nextTid THEN 1 ELSE 0

\* The result of an ended thread is either waiting to be joined or was handed
\* over once, whichever of join, detach and exit came first.
ResultDeliveredOnce ==
  /\ exited \ {Main} = (completed \cup taken) \ {Main}
  /\ completed \cap taken \subseteq {Main}

\* pthread_cond_wait by main saves main twice (as waiter and as parent), so main
\* can be resumed several times from one call: at most one continuation more
\* for each thread that ended, and one for the thread that is active.
MainSpots == Spots(Main) \ {<<"exited", 0>>, <<"lost", 0>>}
MainContinuations ==
  Cardinality(MainSpots)
    + (IF active # NoActive THEN 1 ELSE IF stopped THEN 0 ELSE 1)
MainContinuationsBounded ==
  MainContinuations <= 1 + Cardinality(exited \ {Main})
                         + (IF active # NoActive THEN 1 ELSE 0)

\* What moves between queues, slots and results is conserved over every switch,
\* join, exit, wait and stop: a thread has one place, a result one reader, and main
\* no more continuations than the ends of threads account for.
ThreadsConserved == ExactlyOnePlace /\ ResultDeliveredOnce /\ MainContinuationsBounded

\* When the run stops at done_addr, a thread that did not end is one that waits
\* on a condition nobody signalled since, or one that pthread_cond_init dropped.
StopStrandsOnlyWaiters ==
  stopped => \A t \in Children : t < nextTid =>
    \/ t \in exited \cup lost
    \/ \E c \in Conds : signals[c] = 0 /\ \E w \in ToSet(waiters[c]) : w.id = t

\* A thread that a wake takes out of a wait leaves its mutex owned by a thread
\* that the same wake took out of a wait on that mutex (never by the signaller or
\* by a thread that still waits).
Waits(c, m, t) == \E w \in ToSet(waiters[c]) : w.id = t /\ w.mutex = m
WakeHandsOver ==
  \A c \in Conds, m \in Mutexes, t \in Children :
    (Waits(c, m, t) /\ ~Waits(c, m, t)' /\ t \notin lost') =>
      \E u \in Tids : /\ owner'[m] = u /\ Waits(c, m, u)
                      /\ u # Main => ~Waits(c, m, u)'
WakeHandsMutex == [][WakeHandsOver]_vars

\* Abstract placement of every child thread.
Holds(c, t) == \E w \in ToSet(waiters[c]) : w.id = t
place == [t \in Children |->
  IF active.id = t THEN "running"
  ELSE IF \E i \in DOMAIN pending : pending[i].id = t THEN "ready"
  ELSE IF \E c \in Conds : Holds(c, t) THEN CHOOSE c \in Conds : Holds(c, t)
  ELSE IF t \in exited THEN "exited"
  ELSE IF t \in lost THEN "lost"
  ELSE "unborn"]
Lifecycle == INSTANCE ThreadLifecycle WITH Threads <- Children
\* The scheduler implements the thread life cycle of ThreadLifecycle.
ImplementsLifecycle == Lifecycle!Spec

\* Guest assumptions under which every ready thread runs: a thread that could
\* give way does call a delay hook, and main, when it holds the CPU and others
\* are ready, waits, joins or returns.
MainGivesWay ==
  /\ active = NoActive
  /\ \/ \E c \in Conds, m \in Mutexes : CondWait(c, m) /\ active' # NoActive
     \/ \E t \in Tids : PthreadJoin(t) /\ active' # NoActive
     \/ MainReturns \/ DoneAgain
FairSpec == Spec /\ SF_vars(DelayYield) /\ WF_vars(MainGivesWay)

\* A ready thread gets the CPU, although signals push others in front of it.
ReadyEventuallyRuns ==
  \A t \in Children :
    (\E i \in DOMAIN pending : pending[i].id = t) ~> (active.id = t)
===============================================================================
