-------------------------- MODULE GuestThreadsProofs --------------------------
(***************************************************************************)
(* Proofs about GuestThreads for every number of threads, every set of     *)
(* conditions and mutexes and every saturation bound.                      *)
(*                                                                         *)
(* The inductive invariant has three parts, by the state they speak of:    *)
(* SchedOK (who runs and who is ready), WaitOK (the two queues of a        *)
(* condition) and RestOK (plain types).  A switch touches only the first,  *)
(* so its preservation is stated once per kind of switch and cited by the  *)
(* step of every action.                                                   *)
(***************************************************************************)
EXTENDS GuestThreads, ListSteps

MatchedEntry == {e \in Entry : e.id = e.ctx.tid}
MatchedWaiter == {w \in Waiter : w.id = w.ctx.tid}

SchedOK ==
  /\ current \in Tids /\ cpu \in Context
  /\ active \in Active \cup {NoActive}
  /\ pending \in Seq(MatchedEntry)
  /\ RunningMatches

WaitOK ==
  /\ waiters \in [Conds -> Seq(MatchedWaiter)]
  /\ signals \in [Conds -> 0..SignalMax]
  /\ NoLostWakeup

RestOK ==
  /\ nextTid \in 2..(MaxThreads + 2)
  /\ owner \in [Mutexes -> 0..(MaxThreads + 1)]
  /\ completed \subseteq Tids
  /\ stopped \in BOOLEAN
  /\ exited \subseteq Tids /\ taken \subseteq Tids /\ lost \subseteq Tids

IInv == SchedOK /\ WaitOK /\ RestOK

-------------------------------------------------------------------------------
\* Facts about the data.

LEMMA TidFacts ==
  /\ Main \in Tids /\ 0 \notin Tids
  /\ Tids \subseteq 0..(MaxThreads + 1)
BY ConstantsAssumption DEF Tids, Main

LEMMA NoActiveIsNone == NoActive \notin Active
BY TidFacts DEF NoActive, Active

\* TakeEntry keeps a sequence over the same set.
LEMMA TakeEntryType ==
  ASSUME NEW S, NEW q \in Seq(S), NEW i \in DOMAIN q
  PROVE  TakeEntry(q, i) \in Seq(S)
<1>1. Len(q) \in Nat /\ i \in 1..Len(q) /\ \A j \in 1..Len(q) : q[j] \in S
  BY ElementOfSeq, LenProperties
<1>2. SubSeq(q, 1, i - 1) \in Seq(S)
  BY <1>1, SubSeqProperties, SMT
<1>3. SubSeq(q, i + 1, Len(q)) \in Seq(S)
  BY <1>1, SubSeqProperties, SMT
<1> QED BY <1>2, <1>3, ConcatProperties DEF TakeEntry, RemoveAt

\* A woken waiter is a well-matched queue entry.
LEMMA EntryOfWaiter ==
  ASSUME NEW w \in MatchedWaiter
  PROVE  AsEntry(w) \in MatchedEntry
BY DEF AsEntry, MatchedWaiter, MatchedEntry, Waiter, Entry

-------------------------------------------------------------------------------
\* Switches preserve SchedOK.

\* Entering a ready thread from main, whatever context is saved as its parent.
LEMMA DispatchKeeps ==
  ASSUME SchedOK, current = Main,
         NEW i \in DOMAIN pending, NEW parent \in Context, parent.tid = Main,
         NEW store \in BOOLEAN,
         Dispatch(i, parent, store)
  PROVE  SchedOK'
<1>1. pending[i] \in MatchedEntry
  BY ElementOfSeq, LenProperties DEF SchedOK
<1>2. pending' \in Seq(MatchedEntry)
  BY TakeEntryType DEF Dispatch, SchedOK
<1>3. /\ current' \in Tids /\ cpu' \in Context /\ active' \in Active
      /\ current' = cpu'.tid /\ active'.id = cpu'.tid
      /\ active'.parentId = Main /\ active'.parent.tid = Main
      /\ cpu'.at = "guest"
  BY <1>1, TidFacts
     DEF Dispatch, MatchedEntry, Entry, GuestContext, Context, Active
<1> QED BY <1>2, <1>3, NoActiveIsNone DEF SchedOK, RunningMatches

\* Leaving the active thread for the head of a well-matched queue.
LEMMA SwitchKeeps ==
  ASSUME SchedOK, active # NoActive,
         NEW q \in Seq(MatchedEntry), q # <<>>, SwitchTo(q)
  PROVE  SchedOK'
<1>1. q[1] \in MatchedEntry /\ Tail(q) \in Seq(MatchedEntry)
  BY ElementOfSeq, EmptySeq, LenProperties, HeadTailProperties, SMT
<1>2. /\ current' \in Tids /\ cpu' \in Context /\ active' \in Active
      /\ current' = cpu'.tid /\ active'.id = cpu'.tid
      /\ active'.parentId = Main /\ active'.parent.tid = Main
      /\ cpu'.at = "guest"
  BY <1>1 DEF SchedOK, RunningMatches, SwitchTo, MatchedEntry, Entry,
              GuestContext, Context, Active
<1> QED BY <1>1, <1>2, NoActiveIsNone DEF SchedOK, RunningMatches, SwitchTo

\* Yielding once the ready queue is q.
LEMMA YieldKeeps ==
  ASSUME SchedOK, cpu.at = "guest", NEW q \in Seq(MatchedEntry), Yield(q)
  PROVE  SchedOK'
<1>1. CASE active # NoActive /\ q # <<>> /\ SwitchTo(Append(q, Here))
  <2>1. Here \in MatchedEntry
    BY <1>1 DEF SchedOK, RunningMatches, Here, MatchedEntry, Entry,
                GuestContext, Context, Active
  <2>2. Append(q, Here) \in Seq(MatchedEntry) /\ Append(q, Here) # <<>>
    BY <2>1, AppendProperties
  <2> QED BY <1>1, <2>2, SwitchKeeps
<1>2. CASE pending' = q /\ UNCHANGED <<active, current, cpu>>
  BY <1>2 DEF SchedOK, RunningMatches
<1> QED BY <1>1, <1>2 DEF Yield

\* A step that leaves the CPU, the queues and the conditions alone.
LEMMA UnchangedSched ==
  SchedOK /\ UNCHANGED sched => SchedOK'
BY DEF SchedOK, sched, RunningMatches

LEMMA UnchangedWait ==
  WaitOK /\ UNCHANGED <<waiters, signals>> => WaitOK'
BY DEF WaitOK, NoLostWakeup

-------------------------------------------------------------------------------
\* The inductive step, one lemma per group of actions.

LEMMA InitOK == Init => IInv
<1> SUFFICES ASSUME Init PROVE IInv
  OBVIOUS
<1>1. SchedOK
  BY TidFacts, EmptySeq
     DEF Init, SchedOK, RunningMatches, Context, NoActive, Main
<1>2. WaitOK
  BY ConstantsAssumption, EmptySeq DEF Init, WaitOK, NoLostWakeup
<1>3. nextTid \in 2..(MaxThreads + 2) /\ owner \in [Mutexes -> 0..(MaxThreads + 1)]
  BY ConstantsAssumption DEF Init
<1>4. RestOK
  BY <1>3 DEF Init, RestOK
<1> QED BY <1>1, <1>2, <1>4 DEF IInv

LEMMA CreateOK == IInv /\ PthreadCreate => IInv'
<1> SUFFICES ASSUME IInv, PthreadCreate PROVE IInv'
  OBVIOUS
<1> DEFINE new == [id |-> nextTid, ctx |-> [tid |-> nextTid, at |-> "guest"]]
<1>1. nextTid \in Tids /\ nextTid + 1 \in 2..(MaxThreads + 2)
  BY ConstantsAssumption DEF IInv, RestOK, PthreadCreate, Tids
<1>2. new \in MatchedEntry
  BY <1>1 DEF MatchedEntry, Entry, GuestContext
<1>3. SchedOK'
  BY <1>2, AppendProperties DEF IInv, SchedOK, RunningMatches, PthreadCreate
<1>4. WaitOK'
  BY UnchangedWait DEF IInv, PthreadCreate
<1>5. RestOK'
  BY <1>1 DEF IInv, RestOK, PthreadCreate, ghosts
<1> QED BY <1>3, <1>4, <1>5 DEF IInv

LEMMA JoinOK == ASSUME IInv, NEW t \in Tids, PthreadJoin(t) PROVE IInv'
<1>1. WaitOK'
  BY UnchangedWait DEF IInv, PthreadJoin
<1>2. CASE UNCHANGED sched /\ completed' = completed \ {t} /\ taken' = taken \cup {t}
  <2>1. SchedOK'
    BY <1>2, UnchangedSched DEF IInv
  <2>2. RestOK'
    BY <1>2 DEF IInv, RestOK, PthreadJoin
  <2> QED BY <1>1, <2>1, <2>2 DEF IInv
<1>3. CASE /\ active = NoActive
           /\ \E i \in DOMAIN pending : Dispatch(i, cpu, TRUE)
           /\ UNCHANGED <<completed, taken>>
  <2>1. current = Main /\ cpu.tid = Main /\ cpu \in Context
    BY <1>3 DEF IInv, SchedOK, RunningMatches
  <2>2. SchedOK'
    BY <1>3, <2>1, DispatchKeeps DEF IInv
  <2>3. RestOK'
    BY <1>3 DEF IInv, RestOK, PthreadJoin
  <2> QED BY <1>1, <2>2, <2>3 DEF IInv
<1> QED BY <1>2, <1>3 DEF PthreadJoin

LEMMA DetachOK == ASSUME IInv, NEW t \in Tids, PthreadDetach(t) PROVE IInv'
<1>1. SchedOK' /\ WaitOK'
  BY UnchangedSched, UnchangedWait DEF IInv, PthreadDetach
<1>2. RestOK'
  BY DEF IInv, RestOK, PthreadDetach
<1> QED BY <1>1, <1>2 DEF IInv

LEMMA ExitOK == IInv /\ ThreadExit => IInv'
<1> SUFFICES ASSUME IInv, ThreadExit PROVE IInv'
  OBVIOUS
<1>1. /\ active \in Active /\ active.parentId = Main /\ active.parent.tid = Main
      /\ active.parent \in Context /\ active.id \in Tids /\ cpu.tid \in Tids
  BY DEF IInv, SchedOK, RunningMatches, ThreadExit, Active, Context
<1>2. SchedOK'
  BY <1>1, TidFacts DEF IInv, SchedOK, RunningMatches, ThreadExit
<1>3. WaitOK'
  BY UnchangedWait DEF IInv, ThreadExit
<1>4. RestOK'
  BY <1>1 DEF IInv, RestOK, ThreadExit, ExitRecords
<1> QED BY <1>2, <1>3, <1>4 DEF IInv

\* done_addr is only reached by main.
LEMMA DoneOK ==
  ASSUME IInv, current = Main, cpu.tid = Main,
         NEW saved \in Context, saved.tid = Main, DoneAddr(saved)
  PROVE  IInv'
<1>1. WaitOK'
  BY UnchangedWait DEF IInv, DoneAddr
<1>2. CASE pending # <<>> /\ Dispatch(1, saved, FALSE) /\ UNCHANGED stopped
  <2>1. 1 \in DOMAIN pending
    BY <1>2, EmptySeq, LenProperties, SMT DEF IInv, SchedOK
  <2>2. SchedOK'
    BY <1>2, <2>1, DispatchKeeps DEF IInv
  <2>3. RestOK'
    BY <1>2 DEF IInv, RestOK, DoneAddr, ghosts
  <2> QED BY <1>1, <2>2, <2>3 DEF IInv
<1>3. CASE /\ stopped' = TRUE /\ active' = NoActive
           /\ UNCHANGED <<pending, current, cpu>>
  <2>1. SchedOK'
    BY <1>3 DEF IInv, SchedOK, RunningMatches
  <2>2. RestOK'
    BY <1>3 DEF IInv, RestOK, DoneAddr, ghosts
  <2> QED BY <1>1, <2>1, <2>2 DEF IInv
<1> QED BY <1>2, <1>3 DEF DoneAddr

LEMMA ThreadStepOK == IInv /\ ThreadStep => IInv'
<1> SUFFICES ASSUME IInv, ThreadStep PROVE IInv'
  OBVIOUS
<1>1. CASE PthreadCreate
  BY <1>1, CreateOK
<1>2. CASE \E t \in Tids : PthreadJoin(t) \/ PthreadDetach(t)
  BY <1>2, JoinOK, DetachOK
<1>3. CASE ThreadExit
  BY <1>3, ExitOK
<1>4. CASE MainReturns
  <2>1. [cpu EXCEPT !.at = "done"] \in Context
        /\ [cpu EXCEPT !.at = "done"].tid = Main /\ current = Main /\ cpu.tid = Main
    BY <1>4 DEF IInv, SchedOK, RunningMatches, MainReturns, Context
  <2> QED BY <1>4, <2>1, DoneOK DEF MainReturns
<1>5. CASE ExitWithoutActive \/ DoneAgain
  <2>1. cpu \in Context /\ current = Main /\ cpu.tid = Main
    BY <1>5 DEF IInv, SchedOK, RunningMatches, ExitWithoutActive, DoneAgain
  <2> QED BY <1>5, <2>1, DoneOK DEF ExitWithoutActive, DoneAgain
<1> QED BY <1>1, <1>2, <1>3, <1>4, <1>5 DEF ThreadStep

-------------------------------------------------------------------------------
\* Steps on mutexes and conditions.

\* Attributing mutexes to known threads keeps the types.
LEMMA OwnerKeeps ==
  ASSUME RestOK, NEW f \in [Mutexes -> 0..(MaxThreads + 1)], owner' = f,
         UNCHANGED <<nextTid, completed, stopped, ghosts>>
  PROVE  RestOK'
BY DEF RestOK, ghosts

LEMMA SetOwnerOK ==
  ASSUME IInv, NEW m \in Mutexes, NEW t \in Tids \cup {0}, SetOwner(m, t)
  PROVE  IInv'
<1>1. SchedOK' /\ WaitOK'
  BY UnchangedSched, UnchangedWait DEF IInv, SetOwner
<1>2. [owner EXCEPT ![m] = t] \in [Mutexes -> 0..(MaxThreads + 1)]
  BY TidFacts, ConstantsAssumption DEF IInv, RestOK
<1> QED BY <1>1, <1>2, OwnerKeeps DEF IInv, SetOwner

LEMMA CondInitOK == ASSUME IInv, NEW c \in Conds, CondInit(c) PROVE IInv'
<1>1. SchedOK'
  BY UnchangedSched DEF IInv, CondInit
<1>2. WaitOK'
  BY EmptySeq, ConstantsAssumption DEF IInv, WaitOK, NoLostWakeup, CondInit
<1>3. {w.id : w \in ToSet(waiters[c])} \subseteq Tids
  <2>1. \A w \in ToSet(waiters[c]) : w \in MatchedWaiter
    BY ElementOfSeq, LenProperties DEF IInv, WaitOK, ToSet
  <2> QED BY <2>1 DEF MatchedWaiter, Waiter
<1>4. RestOK'
  BY <1>3 DEF IInv, RestOK, CondInit
<1> QED BY <1>1, <1>2, <1>4 DEF IInv

\* Taking a stored signal.
LEMMA ConsumeKeeps ==
  ASSUME IInv, NEW c \in Conds, NEW m \in Mutexes, ConsumeSignal(c, m),
         UNCHANGED <<waiters, nextTid, completed, stopped, ghosts>>
  PROVE  WaitOK' /\ RestOK'
<1>1. signals' \in [Conds -> 0..SignalMax] /\ \A d \in Conds : signals'[d] <= signals[d]
  BY ConstantsAssumption DEF IInv, WaitOK, ConsumeSignal
<1>2. \A d \in Conds : signals'[d] > 0 => signals[d] > 0
  BY <1>1, ConstantsAssumption DEF IInv, WaitOK
<1>3. WaitOK'
  BY <1>1, <1>2 DEF IInv, WaitOK, NoLostWakeup
<1>4. [owner EXCEPT ![m] = current] \in [Mutexes -> 0..(MaxThreads + 1)]
  BY TidFacts DEF IInv, RestOK, SchedOK
<1> QED BY <1>3, <1>4, OwnerKeeps DEF IInv, ConsumeSignal

\* A wait that finds no signal queues a matched waiter on the condition.
LEMMA AddWaiterKeeps ==
  ASSUME WaitOK, NEW c \in Conds, NEW m \in Mutexes, NEW id \in Tids,
         cpu \in GuestContext, cpu.tid = id, signals[c] = 0,
         AddWaiter(c, m, id), UNCHANGED signals
  PROVE  WaitOK'
<1> DEFINE w == [id |-> id, mutex |-> m, ctx |-> cpu]
<1>1. w \in MatchedWaiter
  BY DEF MatchedWaiter, Waiter
<1>2. Append(waiters[c], w) \in Seq(MatchedWaiter)
  BY <1>1, AppendProperties DEF WaitOK
<1>3. waiters' = [waiters EXCEPT ![c] = Append(@, w)]
  BY DEF AddWaiter
<1> HIDE DEF w
<1>4. waiters' \in [Conds -> Seq(MatchedWaiter)]
      /\ \A d \in Conds : d # c => waiters'[d] = waiters[d]
  BY <1>2, <1>3 DEF WaitOK
<1> QED BY <1>4, ConstantsAssumption DEF WaitOK, NoLostWakeup

LEMMA CondWaitOK ==
  ASSUME IInv, NEW c \in Conds, NEW m \in Mutexes, CondWait(c, m) PROVE IInv'
<1>1. cpu \in GuestContext /\ cpu \in Context /\ cpu.at = "guest"
  BY DEF IInv, SchedOK, CondWait, InGuest, Context, GuestContext
<1>2. active = NoActive => current = Main /\ cpu.tid = Main
  BY DEF IInv, SchedOK, RunningMatches
<1>3. pending # <<>> => 1 \in DOMAIN pending
  BY EmptySeq, LenProperties, SMT DEF IInv, SchedOK
<1>4. [owner EXCEPT ![m] = 0] \in [Mutexes -> 0..(MaxThreads + 1)]
  BY ConstantsAssumption DEF IInv, RestOK
<1>5. CASE WaitConsumes(c, m)
  <2>1. WaitOK' /\ RestOK'
    BY <1>5, ConsumeKeeps DEF WaitConsumes, CondWait
  <2>2. SchedOK'
    BY <1>1, <1>2, <1>3, <1>5, DispatchKeeps, UnchangedSched DEF IInv, WaitConsumes
  <2> QED BY <2>1, <2>2 DEF IInv
<1>6. CASE WaitBlocksMain(c, m)
  <2>1. SchedOK'
    BY <1>1, <1>2, <1>3, <1>6, DispatchKeeps DEF IInv, WaitBlocksMain
  <2>2. WaitOK'
    BY <1>1, <1>2, <1>6, TidFacts, AddWaiterKeeps DEF IInv, WaitBlocksMain
  <2>3. RestOK'
    BY <1>4, <1>6, OwnerKeeps DEF IInv, WaitBlocksMain, CondWait
  <2> QED BY <2>1, <2>2, <2>3 DEF IInv
<1>7. CASE WaitBlocksActive(c, m)
  <2>1. SchedOK'
    BY <1>7, SwitchKeeps DEF IInv, SchedOK, WaitBlocksActive
  <2>2. active.id \in Tids /\ cpu.tid = active.id
    BY <1>7 DEF IInv, SchedOK, RunningMatches, WaitBlocksActive, Active
  <2>3. WaitOK'
    BY <1>1, <1>7, <2>2, AddWaiterKeeps DEF IInv, WaitBlocksActive
  <2>4. RestOK'
    BY <1>4, <1>7, OwnerKeeps DEF IInv, WaitBlocksActive, CondWait
  <2> QED BY <2>1, <2>3, <2>4 DEF IInv
<1>8. CASE WaitReturns(c, m)
  <2>1. SchedOK' /\ WaitOK'
    BY <1>8, UnchangedSched, UnchangedWait DEF IInv, WaitReturns
  <2>2. RestOK'
    BY <1>4, <1>8, OwnerKeeps DEF IInv, WaitReturns, CondWait
  <2> QED BY <2>1, <2>2 DEF IInv
<1> QED BY <1>5, <1>6, <1>7, <1>8 DEF CondWait

LEMMA TimedWaitOK ==
  ASSUME IInv, NEW c \in Conds, NEW m \in Mutexes, CondTimedWait(c, m) PROVE IInv'
<1>1. WaitOK' /\ RestOK'
  BY ConsumeKeeps DEF CondTimedWait
<1>2. SchedOK'
  BY UnchangedSched DEF IInv, CondTimedWait
<1> QED BY <1>1, <1>2 DEF IInv

LEMMA WakeFirstOK ==
  ASSUME IInv, cpu.at = "guest", NEW c \in Conds, WakeFirst(c),
         UNCHANGED <<nextTid, completed, stopped, ghosts>>
  PROVE  IInv'
<1> DEFINE w == Head(waiters[c])
           q == <<AsEntry(w)>> \o pending
<1>1. w \in MatchedWaiter /\ Tail(waiters[c]) \in Seq(MatchedWaiter)
  BY HeadTailProperties DEF IInv, WaitOK, WakeFirst
<1>2. <<AsEntry(w)>> \in Seq(MatchedEntry)
  <2>1. AsEntry(w) \in MatchedEntry
    BY <1>1, EntryOfWaiter
  <2> HIDE DEF w
  <2> QED BY <2>1
<1>3. q \in Seq(MatchedEntry)
  BY <1>2, ConcatProperties DEF IInv, SchedOK
<1>4. Yield(q)
  BY DEF WakeFirst
<1>5. SchedOK'
  <2> HIDE DEF q
  <2> QED BY <1>3, <1>4, YieldKeeps DEF IInv
<1>6. WaitOK'
  <2>1. waiters' = [waiters EXCEPT ![c] = Tail(waiters[c])] /\ signals' = signals
    BY DEF WakeFirst
  <2>2. signals[c] > 0 => waiters[c] = <<>>
    BY DEF IInv, WaitOK, NoLostWakeup
  <2>3. waiters[c] # <<>>
    BY DEF WakeFirst
  <2> QED BY <1>1, <2>1, <2>2, <2>3 DEF IInv, WaitOK, NoLostWakeup
<1>7. [owner EXCEPT ![w.mutex] = w.id] \in [Mutexes -> 0..(MaxThreads + 1)]
  BY <1>1, TidFacts DEF IInv, RestOK, MatchedWaiter, Waiter
<1>8. RestOK'
  BY <1>7, OwnerKeeps DEF IInv, WakeFirst
<1> QED BY <1>5, <1>6, <1>8 DEF IInv

LEMMA StoreSignalOK ==
  ASSUME IInv, cpu.at = "guest", NEW c \in Conds, StoreSignal(c),
         UNCHANGED <<nextTid, completed, stopped, ghosts>>
  PROVE  IInv'
<1>1. SchedOK'
  BY YieldKeeps DEF IInv, SchedOK, StoreSignal
<1>2. signals' \in [Conds -> 0..SignalMax]
      /\ \A d \in Conds : d # c => signals'[d] = signals[d]
  BY ConstantsAssumption DEF IInv, WaitOK, StoreSignal
<1>3. WaitOK'
  BY <1>2 DEF IInv, WaitOK, NoLostWakeup, StoreSignal
<1>4. RestOK'
  BY DEF IInv, RestOK, StoreSignal, ghosts
<1> QED BY <1>1, <1>3, <1>4 DEF IInv

LEMMA BroadcastOK == ASSUME IInv, NEW c \in Conds, CondBroadcast(c) PROVE IInv'
<1> DEFINE ws == waiters[c]
           r == [i \in DOMAIN ws |-> AsEntry(ws[Len(ws) + 1 - i])]
<1>1. /\ ws \in Seq(MatchedWaiter) /\ Len(ws) \in Nat /\ DOMAIN ws = 1..Len(ws)
      /\ \A i \in DOMAIN ws : ws[i] \in MatchedWaiter
  BY ElementOfSeq, LenProperties DEF IInv, WaitOK
<1>2. \A i \in DOMAIN ws : AsEntry(ws[Len(ws) + 1 - i]) \in MatchedEntry
  <2> HIDE DEF ws
  <2>1. \A i \in 1..Len(ws) : Len(ws) + 1 - i \in 1..Len(ws)
    BY <1>1, SMT
  <2> QED BY <1>1, <2>1, EntryOfWaiter
<1>3. r \in Seq(MatchedEntry)
  <2>1. r \in [1..Len(ws) -> MatchedEntry]
    BY <1>1, <1>2
  <2> HIDE DEF r, ws
  <2> QED BY <1>1, <2>1, SeqDef
<1>4. r \o pending \in Seq(MatchedEntry) /\ Yield(r \o pending)
  <2>1. Yield(r \o pending)
    BY DEF CondBroadcast
  <2> HIDE DEF r
  <2> QED BY <1>3, <2>1, ConcatProperties DEF IInv, SchedOK
<1>5. SchedOK'
  <2> HIDE DEF r
  <2> QED BY <1>4, YieldKeeps DEF IInv, CondBroadcast, InGuest
<1>6. WaitOK'
  BY EmptySeq DEF IInv, WaitOK, NoLostWakeup, CondBroadcast
<1>7. owner' \in [Mutexes -> 0..(MaxThreads + 1)]
  <2>1. ASSUME NEW m \in Mutexes, LastWith(ws, m) # {}
        PROVE  ws[CHOOSE i \in LastWith(ws, m) : TRUE].id \in Tids
    BY <1>1, <2>1 DEF LastWith, MatchedWaiter, Waiter
  <2> QED BY <2>1, TidFacts DEF IInv, RestOK, CondBroadcast
<1>8. RestOK'
  BY <1>7, OwnerKeeps DEF IInv, CondBroadcast
<1> QED BY <1>5, <1>6, <1>8 DEF IInv

LEMMA SyncStepOK == IInv /\ SyncStep => IInv'
<1> SUFFICES ASSUME IInv, SyncStep PROVE IInv'
  OBVIOUS
<1>1. current \in Tids
  BY DEF IInv, SchedOK
<1>2. ASSUME NEW m \in Mutexes, MutexInit(m) \/ MutexLock(m) \/ MutexUnlock(m)
      PROVE  IInv'
  BY <1>1, <1>2, SetOwnerOK DEF MutexInit, MutexLock, MutexUnlock
<1>3. ASSUME NEW c \in Conds, CondSignal(c) PROVE IInv'
  <2>1. cpu.at = "guest" /\ UNCHANGED <<nextTid, completed, stopped, ghosts>>
    BY <1>3 DEF CondSignal, InGuest
  <2> QED BY <1>3, <2>1, WakeFirstOK, StoreSignalOK DEF CondSignal
<1>4. ASSUME NEW c \in Conds, CondInit(c) \/ CondBroadcast(c) PROVE IInv'
  BY <1>4, CondInitOK, BroadcastOK
<1>5. ASSUME NEW c \in Conds, NEW m \in Mutexes, CondWait(c, m) \/ CondTimedWait(c, m)
      PROVE  IInv'
  BY <1>5, CondWaitOK, TimedWaitOK
<1> QED BY <1>2, <1>3, <1>4, <1>5 DEF SyncStep

LEMMA DelayYieldOK == IInv /\ DelayYield => IInv'
<1> SUFFICES ASSUME IInv, DelayYield PROVE IInv'
  OBVIOUS
<1>1. SchedOK'
  BY YieldKeeps DEF IInv, SchedOK, DelayYield, InGuest
<1>2. WaitOK'
  BY UnchangedWait DEF IInv, DelayYield
<1>3. RestOK'
  BY DEF IInv, RestOK, DelayYield, ghosts
<1> QED BY <1>1, <1>2, <1>3 DEF IInv

LEMMA StutterOK == IInv /\ UNCHANGED vars => IInv'
<1> SUFFICES ASSUME IInv, UNCHANGED vars PROVE IInv'
  OBVIOUS
<1>1. SchedOK' /\ WaitOK'
  BY UnchangedSched, UnchangedWait DEF IInv, vars, sched
<1>2. RestOK'
  BY DEF IInv, RestOK, vars
<1> QED BY <1>1, <1>2 DEF IInv

\* The invariant is inductive.
THEOREM InductiveInvariant == Spec => []IInv
<1>1. IInv /\ [Next]_vars => IInv'
  BY ThreadStepOK, SyncStepOK, DelayYieldOK, StutterOK DEF Next
<1> QED BY <1>1, InitOK, PTL DEF Spec

-------------------------------------------------------------------------------
\* What the invariant says in the terms of the properties TLC checks.

LEMMA IInvMeaning == IInv => TypeOK /\ NoLostWakeup /\ Attribution
<1> SUFFICES ASSUME IInv PROVE TypeOK /\ NoLostWakeup /\ Attribution
  OBVIOUS
<1>1. MatchedEntry \subseteq Entry /\ MatchedWaiter \subseteq Waiter
  BY DEF MatchedEntry, MatchedWaiter
<1>2. pending \in Seq(Entry)
  BY <1>1, SeqMonotonic DEF IInv, SchedOK
<1>3. waiters \in [Conds -> Seq(Waiter)]
  BY <1>1, SeqMonotonic DEF IInv, WaitOK
<1>4. TypeOK
  BY <1>2, <1>3 DEF IInv, SchedOK, WaitOK, RestOK, TypeOK
<1>5. Attribution
  BY DEF IInv, SchedOK, WaitOK, Attribution, QueuesMatch, MatchedEntry, MatchedWaiter
<1> QED BY <1>4, <1>5 DEF IInv, WaitOK

\* The state keeps its types: ids stay within the limit of threads and a signal
\* counter saturates.
THEOREM TypeCorrect == Spec => []TypeOK
BY InductiveInvariant, IInvMeaning, PTL

\* No wake-up is lost: a condition never has a stored signal and a waiter.
THEOREM NoWakeupLost == Spec => []NoLostWakeup
BY InductiveInvariant, IInvMeaning, PTL

\* The scheduler always knows whose registers run and whose are queued.
THEOREM AttributionHolds == Spec => []Attribution
BY InductiveInvariant, IInvMeaning, PTL

-------------------------------------------------------------------------------
(***************************************************************************)
(* Wakes and mutexes.  A step takes waiters of one condition out of their  *)
(* wait or none; a wake of all of them gives a mutex to the last in the    *)
(* queue that waited with it, which is where a greatest index is needed.   *)
(***************************************************************************)

\* A set of indices has a greatest one.
LEMMA GreatestIndex ==
  ASSUME NEW n \in Nat, NEW T, T \subseteq 1..n, T # {}
  PROVE  \E i \in T : \A j \in T : j <= i
<1> DEFINE R == OpToRel(<, Nat)
           D == {d \in 0..n : n - d \in T}
<1>1. D \subseteq Nat
  OBVIOUS
<1>2. \A y \in T : n - y \in D
  <2> SUFFICES ASSUME NEW y \in T PROVE n - y \in D
    OBVIOUS
  <2>1. y \in 1..n
    OBVIOUS
  <2>2. n - (n - y) = y /\ n - y \in 0..n
    BY <2>1
  <2> QED BY <2>2
<1>3. D # {}
  BY <1>2
<1>4. IsWellFoundedOn(R, Nat)
  BY NatLessThanWellFounded
<1>5. \A x, y \in D : <<y, x>> \in R <=> y < x
  BY <1>1, LessThan
<1>6. \A d \in D : d \in 0..n /\ n - d \in T
  OBVIOUS
<1> HIDE DEF R, D
<1>7. PICK d \in D : \A e \in D : ~(<<e, d>> \in R)
  BY <1>1, <1>3, <1>4, WFMin
<1>8. d \in 0..n /\ n - d \in T /\ \A e \in D : ~(e < d)
  BY <1>5, <1>6, <1>7
<1>9. ASSUME NEW j \in T PROVE j <= n - d
  <2>1. n - j \in D /\ j \in 1..n
    BY <1>2, <1>9
  <2>2. ~(n - j < d)
    BY <1>8, <2>1
  <2> QED BY <1>8, <2>1, <2>2
<1> QED BY <1>8, <1>9

\* A step that takes nobody out of a wait.
LEMMA NobodyWoken ==
  ASSUME \A c \in Conds : ToSet(waiters[c]) \subseteq ToSet(waiters'[c])
  PROVE  WakeHandsOver
BY DEF WakeHandsOver, Waits

\* Queueing a thread on a condition takes nobody out.
LEMMA AddWaiterWakesNobody ==
  ASSUME WaitOK, NEW c \in Conds, NEW m, NEW id, AddWaiter(c, m, id)
  PROVE  \A d \in Conds : ToSet(waiters[d]) \subseteq ToSet(waiters'[d])
<1> DEFINE e == [id |-> id, mutex |-> m, ctx |-> cpu]
<1>1. waiters' = [waiters EXCEPT ![c] = Append(waiters[c], e)]
  BY DEF AddWaiter
<1> HIDE DEF e
<1>2. waiters'[c] = Append(waiters[c], e) /\ \A d \in Conds : d # c => waiters'[d] = waiters[d]
  BY <1>1 DEF WaitOK
<1>3. waiters[c] \in Seq(MatchedWaiter)
  BY DEF WaitOK
<1>4. \A i \in DOMAIN waiters[c] : i \in DOMAIN Append(waiters[c], e) /\ Append(waiters[c], e)[i] = waiters[c][i]
  <2>1. waiters[c] \in Seq(MatchedWaiter \cup {e})
    BY <1>3, SeqMonotonic
  <2> QED BY <2>1, AppendProperties, LenProperties
<1>5. ToSet(waiters[c]) \subseteq ToSet(Append(waiters[c], e))
  BY <1>4 DEF ToSet
<1> QED BY <1>2, <1>5

\* A wait and a timed wait.
LEMMA WaitHands ==
  ASSUME WaitOK, NEW c \in Conds, NEW m \in Mutexes, CondWait(c, m) \/ CondTimedWait(c, m)
  PROVE  WakeHandsOver
<1>1. CASE UNCHANGED waiters
  BY <1>1, NobodyWoken
<1>2. CASE \E id : AddWaiter(c, m, id)
  BY <1>2, AddWaiterWakesNobody, NobodyWoken
<1> QED BY <1>1, <1>2 DEF CondWait, CondTimedWait, WaitConsumes, WaitBlocksMain, WaitBlocksActive, WaitReturns

\* Who is dropped by pthread_cond_init is lost.
LEMMA InitHands ==
  ASSUME WaitOK, NEW c \in Conds, CondInit(c)
  PROVE  WakeHandsOver
<1>1. /\ waiters' = [waiters EXCEPT ![c] = <<>>]
      /\ lost' = lost \cup {w.id : w \in ToSet(waiters[c])}
  BY DEF CondInit
<1>2. \A d \in Conds : d # c => waiters'[d] = waiters[d]
  BY <1>1 DEF WaitOK
<1> QED BY <1>1, <1>2 DEF WakeHandsOver, Waits

\* A wake of one waiter.
LEMMA WakeFirstHands ==
  ASSUME WaitOK, owner \in [Mutexes -> 0..(MaxThreads + 1)], NEW c \in Conds, WakeFirst(c)
  PROVE  WakeHandsOver
<1> DEFINE ws == waiters[c]
           h == Head(waiters[c])
<1>1. /\ waiters[c] \in Seq(MatchedWaiter) /\ waiters[c] # <<>>
      /\ waiters' = [waiters EXCEPT ![c] = Tail(waiters[c])]
      /\ owner' = [owner EXCEPT ![h.mutex] = h.id]
  BY DEF WaitOK, WakeFirst
<1>2. waiters'[c] = Tail(waiters[c]) /\ \A d \in Conds : d # c => waiters'[d] = waiters[d]
  BY <1>1 DEF WaitOK
<1>3. ToSet(ws) = {h} \cup ToSet(Tail(ws))
  <2>1. /\ Len(ws) \in Nat /\ DOMAIN ws = 1..Len(ws) /\ Len(ws) > 0 /\ h = ws[1]
        /\ DOMAIN Tail(ws) = 1..(Len(ws) - 1) /\ \A i \in 1..(Len(ws) - 1) : Tail(ws)[i] = ws[i + 1]
    BY <1>1, HeadTailProperties, LenProperties, EmptySeq
  <2>2. \A i \in 1..Len(ws) : i # 1 => i - 1 \in 1..(Len(ws) - 1) /\ (i - 1) + 1 = i
    BY <2>1
  <2>3. \A i \in 1..(Len(ws) - 1) : i + 1 \in 1..Len(ws)
    BY <2>1
  <2>4. ASSUME NEW w \in ToSet(ws) PROVE w \in {h} \cup ToSet(Tail(ws))
    <3>1. PICK i \in 1..Len(ws) : w = ws[i]
      BY <2>1 DEF ToSet
    <3>2. CASE i = 1
      BY <2>1, <3>1, <3>2
    <3>3. CASE i # 1
      <4>1. i - 1 \in DOMAIN Tail(ws) /\ Tail(ws)[i - 1] = w
        BY <2>1, <2>2, <3>1, <3>3
      <4> QED BY <4>1 DEF ToSet
    <3> QED BY <3>2, <3>3
  <2>5. ASSUME NEW w \in ToSet(Tail(ws)) PROVE w \in ToSet(ws)
    BY <2>1, <2>3 DEF ToSet
  <2>6. h \in ToSet(ws)
    BY <2>1 DEF ToSet
  <2> QED BY <2>4, <2>5, <2>6
<1>4. h \in MatchedWaiter /\ h.mutex \in Mutexes /\ h.id \in Tids
  <2>1. h \in MatchedWaiter
    BY <1>1, HeadTailProperties
  <2> QED BY <2>1 DEF MatchedWaiter, Waiter
<1>5. owner'[h.mutex] = h.id
  BY <1>1, <1>4
<1> SUFFICES ASSUME NEW d \in Conds, NEW m \in Mutexes, NEW t \in Children,
                    Waits(d, m, t), ~Waits(d, m, t)'
             PROVE  \E u \in Tids : /\ owner'[m] = u /\ Waits(d, m, u)
                                    /\ u # Main => ~Waits(d, m, u)'
  BY DEF WakeHandsOver
<1>6. d = c
  BY <1>2 DEF Waits
<1>7. PICK w \in ToSet(waiters[c]) : w.id = t /\ w.mutex = m
  BY <1>6 DEF Waits
<1>8. w \notin ToSet(Tail(ws))
  BY <1>2, <1>6, <1>7 DEF Waits
<1>9. w = h
  BY <1>3, <1>7, <1>8
<1> QED BY <1>4, <1>5, <1>6, <1>7, <1>9

\* A wake of all waiters.
LEMMA BroadcastHands ==
  ASSUME WaitOK, NEW c \in Conds, CondBroadcast(c)
  PROVE  WakeHandsOver
<1> DEFINE ws == waiters[c]
<1>1. /\ ws \in Seq(MatchedWaiter) /\ Len(ws) \in Nat /\ DOMAIN ws = 1..Len(ws)
      /\ \A i \in DOMAIN ws : ws[i] \in MatchedWaiter
  BY ElementOfSeq, LenProperties DEF WaitOK
<1>2. waiters' = [waiters EXCEPT ![c] = <<>>]
  BY DEF CondBroadcast
<1>3. waiters'[c] = <<>> /\ \A d \in Conds : d # c => waiters'[d] = waiters[d]
  BY <1>2 DEF WaitOK
<1>4. \A m \in Mutexes : LastWith(ws, m) # {} => owner'[m] = ws[CHOOSE i \in LastWith(ws, m) : TRUE].id
  BY DEF CondBroadcast
<1> SUFFICES ASSUME NEW d \in Conds, NEW m \in Mutexes, NEW t \in Children,
                    Waits(d, m, t), ~Waits(d, m, t)'
             PROVE  \E u \in Tids : /\ owner'[m] = u /\ Waits(d, m, u)
                                    /\ u # Main => ~Waits(d, m, u)'
  BY DEF WakeHandsOver
<1>5. d = c
  BY <1>3 DEF Waits
<1> DEFINE T == {i \in DOMAIN ws : ws[i].mutex = m}
<1>6. T # {} /\ T \subseteq 1..Len(ws)
  BY <1>1, <1>5 DEF Waits, ToSet
<1>7. PICK i \in T : \A j \in T : j <= i
  <2> HIDE DEF T
  <2> QED BY <1>1, <1>6, GreatestIndex
<1>8. i \in LastWith(ws, m)
  <2>1. ASSUME NEW j \in DOMAIN ws, j > i PROVE ws[j].mutex # m
    <3>1. j \notin T
      BY <1>1, <1>7, <2>1
    <3> QED BY <3>1
  <2> QED BY <2>1 DEF LastWith
<1>9. PICK k \in LastWith(ws, m) : owner'[m] = ws[k].id
  BY <1>4, <1>8
<1>10. k \in DOMAIN ws /\ ws[k].mutex = m /\ ws[k].id \in Tids
  BY <1>1, <1>9 DEF LastWith, MatchedWaiter, Waiter
<1>11. Waits(c, m, ws[k].id)
  BY <1>10 DEF Waits, ToSet
<1>12. \A u : ~Waits(c, m, u)'
  BY <1>3 DEF Waits, ToSet
<1> QED BY <1>5, <1>9, <1>10, <1>11, <1>12

LEMMA StepHands ==
  ASSUME WaitOK, owner \in [Mutexes -> 0..(MaxThreads + 1)], ThreadStep \/ SyncStep \/ UNCHANGED vars
  PROVE  WakeHandsOver
<1>1. CASE ThreadStep
  <2>1. UNCHANGED waiters
    BY <1>1 DEF ThreadStep, PthreadCreate, PthreadJoin, PthreadDetach, ThreadExit, MainReturns,
                ExitWithoutActive, DoneAgain, DoneAddr
  <2> QED BY <2>1, NobodyWoken
<1>2. CASE UNCHANGED vars
  BY <1>2, NobodyWoken DEF vars
<1>3. ASSUME NEW m \in Mutexes, MutexInit(m) \/ MutexLock(m) \/ MutexUnlock(m)
      PROVE  WakeHandsOver
  BY <1>3, NobodyWoken DEF MutexInit, MutexLock, MutexUnlock, SetOwner
<1>4. ASSUME NEW c \in Conds, CondSignal(c) PROVE WakeHandsOver
  <2>1. CASE WakeFirst(c)
    BY <2>1, WakeFirstHands
  <2>2. CASE StoreSignal(c)
    BY <2>2, NobodyWoken DEF StoreSignal
  <2> QED BY <1>4, <2>1, <2>2 DEF CondSignal
<1>5. ASSUME NEW c \in Conds, CondInit(c) \/ CondBroadcast(c) PROVE WakeHandsOver
  BY <1>5, InitHands, BroadcastHands
<1>6. ASSUME NEW c \in Conds, NEW m \in Mutexes, CondWait(c, m) \/ CondTimedWait(c, m)
      PROVE  WakeHandsOver
  BY <1>6, WaitHands
<1>7. CASE SyncStep
  BY <1>3, <1>4, <1>5, <1>6, <1>7 DEF SyncStep
<1> QED BY <1>1, <1>2, <1>7

\* Whoever a signal or a broadcast wakes, its mutex belongs to one of those that were
\* woken with it, never to the waker and never to a thread that still waits.
THEOREM MutexesAreHanded == Spec => WakeHandsMutex
<1>1. IInv /\ [Next]_vars => WakeHandsOver
  <2> SUFFICES ASSUME IInv, [Next]_vars PROVE WakeHandsOver
    OBVIOUS
  <2>1. WaitOK /\ owner \in [Mutexes -> 0..(MaxThreads + 1)]
    BY DEF IInv, RestOK
  <2>2. CASE DelayYield
    BY <2>2, NobodyWoken DEF DelayYield
  <2> QED BY <2>1, <2>2, StepHands DEF Next
<1> QED BY <1>1, InductiveInvariant, PTL DEF Spec, WakeHandsMutex
===============================================================================
