-------------------------- MODULE GuestProcessesProofs --------------------------
(***************************************************************************)
(* Proofs about GuestProcesses, for every number of threads and processes, *)
(* every set of conditions, mutexes, exit codes and wait arguments: who is *)
(* on the CPU (ForkAttribution), that a process ends by its own step and   *)
(* is reaped once by its parent (EndsAndReapsOnce), and that wait says     *)
(* ECHILD only when there is no child to reap (WaitTellsTruth).            *)
(*                                                                         *)
(* The invariant of GuestThreadsProofs does not hold here: forks nest, so  *)
(* the parent saved in the active slot need not be the main thread.  What  *)
(* is left of SchedOK is CpuOK: each id goes with the registers it names.  *)
(* The facts about queues and conditions (WaitOK, RestOK) hold as before   *)
(* but are shown again from the weaker CpuOK.                              *)
(***************************************************************************)
EXTENDS GuestProcesses, GuestThreadsProofs

CpuOK ==
  /\ current \in Tids /\ cpu \in Context
  /\ active \in Active \cup {NoActive}
  /\ pending \in Seq(MatchedEntry)
  /\ current = cpu.tid
  /\ active # NoActive => active.id = cpu.tid /\ active.parentId = active.parent.tid

TableOK ==
  /\ procs \in Seq(Process) /\ Len(procs) \in 1..MaxProcesses
  /\ procs[1].parent = 0
  /\ threadProc \in [Tids -> 0..MaxProcesses]
  /\ forkResumes \in [Tids -> 0..(MaxThreads + 1)]
  /\ mainStack \subseteq Tids /\ gone \subseteq Tids
  /\ reply \in [arg : WaitArgs \cup {0}, answer : {"none", "reaped", "zero", "echild"}]

KInv == CpuOK /\ WaitOK /\ RestOK /\ TableOK

-------------------------------------------------------------------------------
\* Switches preserve CpuOK.

\* Entering entry i of the queue from the thread on the CPU.
LEMMA DispatchKeepsCpu ==
  ASSUME CpuOK, NEW i \in DOMAIN pending,
         NEW parent \in Context, parent.tid = current, NEW store \in BOOLEAN,
         Dispatch(i, parent, store)
  PROVE  CpuOK'
<1>1. pending[i] \in MatchedEntry
  BY ElementOfSeq, LenProperties DEF CpuOK
<1>2. pending' \in Seq(MatchedEntry)
  BY TakeEntryType DEF Dispatch, CpuOK
<1>3. /\ current' \in Tids /\ cpu' \in Context /\ active' \in Active
      /\ current' = cpu'.tid /\ active'.id = cpu'.tid
      /\ active'.parentId = active'.parent.tid
  BY <1>1 DEF CpuOK, Dispatch, MatchedEntry, Entry, GuestContext, Context, Active
<1> QED BY <1>2, <1>3 DEF CpuOK

LEMMA DispatchFirst ==
  ASSUME CpuOK, pending # <<>>,
         NEW parent \in Context, parent.tid = current, NEW store \in BOOLEAN,
         Dispatch(1, parent, store)
  PROVE  CpuOK'
<1>1. 1 \in DOMAIN pending
  BY EmptySeq, LenProperties, SMT DEF CpuOK
<1> QED BY <1>1, DispatchKeepsCpu

\* The parent stays in the slot: it is still the one that was named there.
LEMMA SwitchKeepsCpu ==
  ASSUME CpuOK, active # NoActive,
         NEW q \in Seq(MatchedEntry), q # <<>>, SwitchTo(q)
  PROVE  CpuOK'
<1>1. q[1] \in MatchedEntry /\ Tail(q) \in Seq(MatchedEntry)
  BY ElementOfSeq, EmptySeq, LenProperties, HeadTailProperties, SMT
<1>2. /\ current' \in Tids /\ cpu' \in Context /\ active' \in Active
      /\ current' = cpu'.tid /\ active'.id = cpu'.tid
      /\ active'.parentId = active'.parent.tid
  BY <1>1 DEF CpuOK, SwitchTo, MatchedEntry, Entry, GuestContext, Context, Active
<1> QED BY <1>1, <1>2 DEF CpuOK, SwitchTo

LEMMA YieldKeepsCpu ==
  ASSUME CpuOK, cpu.at = "guest", NEW q \in Seq(MatchedEntry), Yield(q)
  PROVE  CpuOK'
<1>1. CASE active # NoActive /\ q # <<>> /\ SwitchTo(Append(q, Here))
  <2>1. Here \in MatchedEntry
    BY <1>1 DEF CpuOK, Here, MatchedEntry, Entry, GuestContext, Context, Active
  <2>2. Append(q, Here) \in Seq(MatchedEntry) /\ Append(q, Here) # <<>>
    BY <2>1, AppendProperties
  <2> QED BY <1>1, <2>2, SwitchKeepsCpu
<1>2. CASE pending' = q /\ UNCHANGED <<active, current, cpu>>
  BY <1>2 DEF CpuOK
<1> QED BY <1>1, <1>2 DEF Yield

LEMMA UnchangedCpu == CpuOK /\ UNCHANGED sched => CpuOK'
BY DEF CpuOK, sched

LEMMA UnchangedRest ==
  RestOK /\ UNCHANGED <<nextTid, owner, completed, stopped, ghosts>> => RestOK'
BY DEF RestOK, ghosts

\* A process and a thread that can be on the CPU.
LEMMA PidFacts ==
  ASSUME TableOK, NEW t \in Tids
  PROVE  PidOf(t) \in 1..MaxProcesses /\ (threadProc[t] > 1 => PidOf(t) = threadProc[t])
<1>1. threadProc[t] \in 0..MaxProcesses
  BY DEF TableOK
<1> QED BY <1>1, ProcessAssumption DEF PidOf

\* A process table whose row ended is one, with the same parents.
LEMMA EndedKeeps ==
  ASSUME NEW table \in Seq(Process), NEW pid, NEW code \in ExitCodes \cup {0}
  PROVE  /\ Ended(table, pid, code) \in Seq(Process)
         /\ Len(Ended(table, pid, code)) = Len(table)
         /\ \A p \in 1..Len(table) :
              /\ Ended(table, pid, code)[p].parent = table[p].parent
              /\ Ended(table, pid, code)[p].reaped = table[p].reaped
              /\ p # pid => Ended(table, pid, code)[p] = table[p]
              /\ p = pid => Ended(table, pid, code)[p].running = FALSE
<1> DEFINE new == Ended(table, pid, code)
<1>1. /\ Len(table) \in Nat /\ DOMAIN table = 1..Len(table)
      /\ \A p \in 1..Len(table) : table[p] \in Process
  BY ElementOfSeq, LenProperties
<1>2. new = [p \in 1..Len(table) |->
               IF p = pid THEN [table[p] EXCEPT !.running = FALSE, !.status = code]
               ELSE table[p]]
  BY <1>1 DEF Ended
<1>3. \A p \in 1..Len(table) :
        /\ new[p] \in Process
        /\ new[p].parent = table[p].parent /\ new[p].reaped = table[p].reaped
        /\ p # pid => new[p] = table[p]
        /\ p = pid => new[p].running = FALSE
  <2> SUFFICES ASSUME NEW p \in 1..Len(table)
               PROVE  /\ new[p] \in Process
                      /\ new[p].parent = table[p].parent /\ new[p].reaped = table[p].reaped
                      /\ p # pid => new[p] = table[p]
                      /\ p = pid => new[p].running = FALSE
    OBVIOUS
  <2> DEFINE r == table[p]
             e == [r EXCEPT !.running = FALSE, !.status = code]
  <2>1. r \in Process /\ new[p] = IF p = pid THEN e ELSE r
    BY <1>1, <1>2
  <2> HIDE DEF r, new
  <2>2. /\ e \in Process
        /\ e.parent = r.parent /\ e.reaped = r.reaped /\ e.running = FALSE
    BY <2>1 DEF Process
  <2> HIDE DEF e
  <2> QED BY <2>1, <2>2 DEF r
<1>4. new \in [1..Len(table) -> Process]
  BY <1>2, <1>3
<1>5. new \in Seq(Process)
  <2> HIDE DEF new
  <2> QED BY <1>1, <1>4, SeqDef
<1>6. Len(new) = Len(table)
  <2>1. DOMAIN new = 1..Len(table)
    BY <1>2
  <2> HIDE DEF new
  <2>2. Len(new) \in Nat /\ DOMAIN new = 1..Len(new)
    BY <1>5, LenProperties
  <2> QED BY <1>1, <2>1, <2>2
<1> QED BY <1>3, <1>5, <1>6

-------------------------------------------------------------------------------
\* The actions of GuestThreads, seen from CpuOK.

Small == CpuOK /\ WaitOK /\ RestOK


LEMMA CreateSmall == Small /\ PthreadCreate => Small' /\ nextTid \in Tids
<1> SUFFICES ASSUME Small, PthreadCreate PROVE Small' /\ nextTid \in Tids
  OBVIOUS
<1> DEFINE new == [id |-> nextTid, ctx |-> [tid |-> nextTid, at |-> "guest"]]
<1>1. nextTid \in Tids /\ nextTid + 1 \in 2..(MaxThreads + 2)
  BY ConstantsAssumption DEF Small, RestOK, PthreadCreate, Tids
<1>2. new \in MatchedEntry
  BY <1>1 DEF MatchedEntry, Entry, GuestContext
<1>3. CpuOK'
  BY <1>2, AppendProperties DEF Small, CpuOK, PthreadCreate
<1>4. WaitOK'
  BY UnchangedWait DEF Small, PthreadCreate
<1>5. RestOK'
  BY <1>1 DEF Small, RestOK, PthreadCreate, ghosts
<1> QED BY <1>1, <1>3, <1>4, <1>5 DEF Small

LEMMA JoinSmall == ASSUME Small, NEW t \in Tids, PthreadJoin(t) PROVE Small'
<1>1. WaitOK'
  BY UnchangedWait DEF Small, PthreadJoin
<1>2. CASE UNCHANGED sched /\ completed' = completed \ {t} /\ taken' = taken \cup {t}
  <2>1. CpuOK'
    BY <1>2, UnchangedCpu DEF Small
  <2>2. RestOK'
    BY <1>2 DEF Small, RestOK, PthreadJoin
  <2> QED BY <1>1, <2>1, <2>2 DEF Small
<1>3. CASE /\ \E i \in DOMAIN pending : Dispatch(i, cpu, TRUE)
           /\ UNCHANGED <<completed, taken>>
  <2>1. CpuOK'
    BY <1>3, DispatchKeepsCpu DEF Small, CpuOK
  <2>2. RestOK'
    BY <1>3 DEF Small, RestOK, PthreadJoin
  <2> QED BY <1>1, <2>1, <2>2 DEF Small
<1> QED BY <1>2, <1>3 DEF PthreadJoin

LEMMA DetachSmall == ASSUME Small, NEW t \in Tids, PthreadDetach(t) PROVE Small'
<1>1. CpuOK' /\ WaitOK'
  BY UnchangedCpu, UnchangedWait DEF Small, PthreadDetach
<1>2. RestOK'
  BY DEF Small, RestOK, PthreadDetach
<1> QED BY <1>1, <1>2 DEF Small

\* The parent that is resumed was named by its own id.
LEMMA ExitSmall == Small /\ ThreadExit => Small'
<1> SUFFICES ASSUME Small, ThreadExit PROVE Small'
  OBVIOUS
<1>1. /\ active \in Active /\ active.parentId = active.parent.tid
      /\ active.parent \in Context /\ active.parentId \in Tids
      /\ active.id \in Tids /\ cpu.tid \in Tids
  BY DEF Small, CpuOK, ThreadExit, Active, Context
<1>2. CpuOK'
  BY <1>1 DEF Small, CpuOK, ThreadExit
<1>3. WaitOK'
  BY UnchangedWait DEF Small, ThreadExit
<1>4. RestOK'
  BY <1>1 DEF Small, RestOK, ThreadExit, ExitRecords
<1> QED BY <1>2, <1>3, <1>4 DEF Small

\* Whoever comes to done_addr is saved, by its own id, as a parent.
LEMMA DoneSmall ==
  ASSUME Small, NEW saved \in Context, saved.tid = current, DoneAddr(saved)
  PROVE  Small'
<1>1. WaitOK'
  BY UnchangedWait DEF Small, DoneAddr
<1>2. CASE pending # <<>> /\ Dispatch(1, saved, FALSE) /\ UNCHANGED stopped
  <2>1. CpuOK'
    BY <1>2, DispatchFirst DEF Small
  <2>2. RestOK'
    BY <1>2, UnchangedRest DEF Small, DoneAddr
  <2> QED BY <1>1, <2>1, <2>2 DEF Small
<1>3. CASE /\ stopped' = TRUE /\ active' = NoActive
           /\ UNCHANGED <<pending, current, cpu>>
  <2>1. CpuOK'
    BY <1>3 DEF Small, CpuOK
  <2>2. RestOK'
    BY <1>3 DEF Small, RestOK, DoneAddr, ghosts
  <2> QED BY <1>1, <2>1, <2>2 DEF Small
<1> QED BY <1>2, <1>3 DEF DoneAddr

LEMMA SetOwnerSmall ==
  ASSUME Small, NEW m \in Mutexes, NEW t \in Tids \cup {0}, SetOwner(m, t)
  PROVE  Small'
<1>1. CpuOK' /\ WaitOK'
  BY UnchangedCpu, UnchangedWait DEF Small, SetOwner
<1>2. [owner EXCEPT ![m] = t] \in [Mutexes -> 0..(MaxThreads + 1)]
  BY TidFacts, ConstantsAssumption DEF Small, RestOK
<1>3. RestOK'
  BY <1>2, OwnerKeeps DEF Small, SetOwner
<1> QED BY <1>1, <1>3 DEF Small

LEMMA CondInitSmall == ASSUME Small, NEW c \in Conds, CondInit(c) PROVE Small'
<1>1. CpuOK'
  BY UnchangedCpu DEF Small, CondInit
<1>2. WaitOK'
  BY EmptySeq, ConstantsAssumption DEF Small, WaitOK, NoLostWakeup, CondInit
<1>3. {w.id : w \in ToSet(waiters[c])} \subseteq Tids
  <2>1. \A w \in ToSet(waiters[c]) : w \in MatchedWaiter
    BY ElementOfSeq, LenProperties DEF Small, WaitOK, ToSet
  <2> QED BY <2>1 DEF MatchedWaiter, Waiter
<1>4. RestOK'
  BY <1>3 DEF Small, RestOK, CondInit
<1> QED BY <1>1, <1>2, <1>4 DEF Small

\* Taking a stored signal.
LEMMA ConsumeSmall ==
  ASSUME Small, NEW c \in Conds, NEW m \in Mutexes, ConsumeSignal(c, m),
         UNCHANGED <<waiters, nextTid, completed, stopped, ghosts>>
  PROVE  WaitOK' /\ RestOK'
<1>1. signals' \in [Conds -> 0..SignalMax] /\ \A d \in Conds : signals'[d] <= signals[d]
  BY ConstantsAssumption DEF Small, WaitOK, ConsumeSignal
<1>2. \A d \in Conds : signals'[d] > 0 => signals[d] > 0
  BY <1>1, ConstantsAssumption DEF Small, WaitOK
<1>3. WaitOK'
  BY <1>1, <1>2 DEF Small, WaitOK, NoLostWakeup
<1>4. [owner EXCEPT ![m] = current] \in [Mutexes -> 0..(MaxThreads + 1)]
  BY TidFacts DEF Small, RestOK, CpuOK
<1> QED BY <1>3, <1>4, OwnerKeeps DEF Small, ConsumeSignal

LEMMA CondWaitSmall ==
  ASSUME Small, NEW c \in Conds, NEW m \in Mutexes, CondWait(c, m) PROVE Small'
<1>1. cpu \in GuestContext /\ cpu \in Context /\ cpu.at = "guest"
      /\ current \in Tids /\ cpu.tid = current
  BY DEF Small, CpuOK, CondWait, InGuest, Context, GuestContext
<1>2. [owner EXCEPT ![m] = 0] \in [Mutexes -> 0..(MaxThreads + 1)]
  BY ConstantsAssumption DEF Small, RestOK
<1>3. CASE WaitConsumes(c, m)
  <2>1. WaitOK' /\ RestOK'
    BY <1>3, ConsumeSmall DEF WaitConsumes, CondWait
  <2>2. CpuOK'
    BY <1>1, <1>3, DispatchFirst, UnchangedCpu DEF Small, WaitConsumes
  <2> QED BY <2>1, <2>2 DEF Small
<1>4. CASE WaitBlocksMain(c, m)
  <2>1. CpuOK'
    BY <1>1, <1>4, DispatchFirst DEF Small, WaitBlocksMain
  <2>2. WaitOK'
    BY <1>1, <1>4, AddWaiterKeeps DEF Small, WaitBlocksMain
  <2>3. RestOK'
    BY <1>2, <1>4, OwnerKeeps DEF Small, WaitBlocksMain, CondWait
  <2> QED BY <2>1, <2>2, <2>3 DEF Small
<1>5. CASE WaitBlocksActive(c, m)
  <2>1. CpuOK'
    BY <1>5, SwitchKeepsCpu DEF Small, CpuOK, WaitBlocksActive
  <2>2. active.id \in Tids /\ cpu.tid = active.id
    BY <1>1, <1>5 DEF Small, CpuOK, WaitBlocksActive
  <2>3. WaitOK'
    BY <1>1, <1>5, <2>2, AddWaiterKeeps DEF Small, WaitBlocksActive
  <2>4. RestOK'
    BY <1>2, <1>5, OwnerKeeps DEF Small, WaitBlocksActive, CondWait
  <2> QED BY <2>1, <2>3, <2>4 DEF Small
<1>6. CASE WaitReturns(c, m)
  <2>1. CpuOK' /\ WaitOK'
    BY <1>6, UnchangedCpu, UnchangedWait DEF Small, WaitReturns
  <2>2. RestOK'
    BY <1>2, <1>6, OwnerKeeps DEF Small, WaitReturns, CondWait
  <2> QED BY <2>1, <2>2 DEF Small
<1> QED BY <1>3, <1>4, <1>5, <1>6 DEF CondWait

LEMMA TimedWaitSmall ==
  ASSUME Small, NEW c \in Conds, NEW m \in Mutexes, CondTimedWait(c, m) PROVE Small'
<1>1. WaitOK' /\ RestOK'
  BY ConsumeSmall DEF CondTimedWait
<1>2. CpuOK'
  BY UnchangedCpu DEF Small, CondTimedWait
<1> QED BY <1>1, <1>2 DEF Small

LEMMA WakeFirstSmall ==
  ASSUME Small, cpu.at = "guest", NEW c \in Conds, WakeFirst(c),
         UNCHANGED <<nextTid, completed, stopped, ghosts>>
  PROVE  Small'
<1> DEFINE w == Head(waiters[c])
           q == <<AsEntry(w)>> \o pending
<1>1. w \in MatchedWaiter /\ Tail(waiters[c]) \in Seq(MatchedWaiter)
  BY HeadTailProperties DEF Small, WaitOK, WakeFirst
<1>2. <<AsEntry(w)>> \in Seq(MatchedEntry)
  <2>1. AsEntry(w) \in MatchedEntry
    BY <1>1, EntryOfWaiter
  <2> HIDE DEF w
  <2> QED BY <2>1
<1>3. q \in Seq(MatchedEntry)
  BY <1>2, ConcatProperties DEF Small, CpuOK
<1>4. Yield(q)
  BY DEF WakeFirst
<1>5. CpuOK'
  <2> HIDE DEF q
  <2> QED BY <1>3, <1>4, YieldKeepsCpu DEF Small
<1>6. WaitOK'
  <2>1. waiters' = [waiters EXCEPT ![c] = Tail(waiters[c])] /\ signals' = signals
    BY DEF WakeFirst
  <2>2. signals[c] > 0 => waiters[c] = <<>>
    BY DEF Small, WaitOK, NoLostWakeup
  <2>3. waiters[c] # <<>>
    BY DEF WakeFirst
  <2> QED BY <1>1, <2>1, <2>2, <2>3 DEF Small, WaitOK, NoLostWakeup
<1>7. [owner EXCEPT ![w.mutex] = w.id] \in [Mutexes -> 0..(MaxThreads + 1)]
  BY <1>1, TidFacts DEF Small, RestOK, MatchedWaiter, Waiter
<1>8. RestOK'
  BY <1>7, OwnerKeeps DEF Small, WakeFirst
<1> QED BY <1>5, <1>6, <1>8 DEF Small

LEMMA StoreSignalSmall ==
  ASSUME Small, cpu.at = "guest", NEW c \in Conds, StoreSignal(c),
         UNCHANGED <<nextTid, completed, stopped, ghosts>>
  PROVE  Small'
<1>1. CpuOK'
  BY YieldKeepsCpu DEF Small, CpuOK, StoreSignal
<1>2. signals' \in [Conds -> 0..SignalMax]
      /\ \A d \in Conds : d # c => signals'[d] = signals[d]
  BY ConstantsAssumption DEF Small, WaitOK, StoreSignal
<1>3. WaitOK'
  BY <1>2 DEF Small, WaitOK, NoLostWakeup, StoreSignal
<1>4. RestOK'
  BY UnchangedRest DEF Small, StoreSignal
<1> QED BY <1>1, <1>3, <1>4 DEF Small

LEMMA BroadcastSmall == ASSUME Small, NEW c \in Conds, CondBroadcast(c) PROVE Small'
<1> DEFINE ws == waiters[c]
           r == [i \in DOMAIN ws |-> AsEntry(ws[Len(ws) + 1 - i])]
<1>1. /\ ws \in Seq(MatchedWaiter) /\ Len(ws) \in Nat /\ DOMAIN ws = 1..Len(ws)
      /\ \A i \in DOMAIN ws : ws[i] \in MatchedWaiter
  BY ElementOfSeq, LenProperties DEF Small, WaitOK
<1>2. \A i \in DOMAIN ws : AsEntry(ws[Len(ws) + 1 - i]) \in MatchedEntry
  <2> HIDE DEF ws
  <2>1. \A i \in 1..Len(ws) : Len(ws) + 1 - i \in 1..Len(ws)
    BY <1>1, SMT
  <2> QED BY <1>1, <2>1, EntryOfWaiter
<1>3. r \in Seq(MatchedEntry)
  <2>1. r \in [1..Len(ws) -> MatchedEntry]
    BY <1>1, <1>2
  <2> HIDE DEF r, ws
  <2> QED BY <1>1, <2>1, SeqDef
<1>4. r \o pending \in Seq(MatchedEntry) /\ Yield(r \o pending)
  <2>1. Yield(r \o pending)
    BY DEF CondBroadcast
  <2> HIDE DEF r
  <2> QED BY <1>3, <2>1, ConcatProperties DEF Small, CpuOK
<1>5. CpuOK'
  <2> HIDE DEF r
  <2> QED BY <1>4, YieldKeepsCpu DEF Small, CondBroadcast, InGuest
<1>6. WaitOK'
  BY EmptySeq DEF Small, WaitOK, NoLostWakeup, CondBroadcast
<1>7. owner' \in [Mutexes -> 0..(MaxThreads + 1)]
  <2>1. ASSUME NEW m \in Mutexes, LastWith(ws, m) # {}
        PROVE  ws[CHOOSE i \in LastWith(ws, m) : TRUE].id \in Tids
    BY <1>1, <2>1 DEF LastWith, MatchedWaiter, Waiter
  <2> QED BY <2>1, TidFacts DEF Small, RestOK, CondBroadcast
<1>8. RestOK'
  BY <1>7, OwnerKeeps DEF Small, CondBroadcast
<1> QED BY <1>5, <1>6, <1>8 DEF Small

LEMMA SyncSmall == Small /\ SyncStep => Small'
<1> SUFFICES ASSUME Small, SyncStep PROVE Small'
  OBVIOUS
<1>1. current \in Tids
  BY DEF Small, CpuOK
<1>2. ASSUME NEW m \in Mutexes, MutexInit(m) \/ MutexLock(m) \/ MutexUnlock(m)
      PROVE  Small'
  BY <1>1, <1>2, SetOwnerSmall DEF MutexInit, MutexLock, MutexUnlock
<1>3. ASSUME NEW c \in Conds, CondSignal(c) PROVE Small'
  <2>1. cpu.at = "guest" /\ UNCHANGED <<nextTid, completed, stopped, ghosts>>
    BY <1>3 DEF CondSignal, InGuest
  <2> QED BY <1>3, <2>1, WakeFirstSmall, StoreSignalSmall DEF CondSignal
<1>4. ASSUME NEW c \in Conds, CondInit(c) \/ CondBroadcast(c) PROVE Small'
  BY <1>4, CondInitSmall, BroadcastSmall
<1>5. ASSUME NEW c \in Conds, NEW m \in Mutexes, CondWait(c, m) \/ CondTimedWait(c, m)
      PROVE  Small'
  BY <1>5, CondWaitSmall, TimedWaitSmall
<1> QED BY <1>2, <1>3, <1>4, <1>5 DEF SyncStep

LEMMA DelayYieldSmall == Small /\ DelayYield => Small'
<1> SUFFICES ASSUME Small, DelayYield PROVE Small'
  OBVIOUS
<1>1. CpuOK'
  BY YieldKeepsCpu DEF Small, CpuOK, DelayYield, InGuest
<1>2. WaitOK' /\ RestOK'
  BY UnchangedWait, UnchangedRest DEF Small, DelayYield
<1> QED BY <1>1, <1>2 DEF Small

-------------------------------------------------------------------------------
\* Changes of the process table.

\* What a step may do to the rows that were there.
RowsOK ==
  /\ procs' \in Seq(Process) /\ Len(procs') \in 1..MaxProcesses
  /\ procs'[1].parent = 0
  /\ OwnEnds /\ ParentReaps

LEMMA RowFacts ==
  ASSUME TableOK
  PROVE  /\ Len(procs) \in 1..MaxProcesses /\ DOMAIN procs = 1..Len(procs)
         /\ \A p \in 1..Len(procs) :
              /\ procs[p] \in Process /\ procs[p].running \in BOOLEAN
              /\ procs[p].reaped \in BOOLEAN
         /\ 1 \in 1..Len(procs) /\ procs[1].parent = 0
<1>1. Len(procs) \in 1..MaxProcesses /\ procs[1].parent = 0 /\ procs \in Seq(Process)
  BY DEF TableOK
<1>2. DOMAIN procs = 1..Len(procs) /\ \A p \in 1..Len(procs) : procs[p] \in Process
  BY <1>1, ElementOfSeq, LenProperties
<1>3. 1 \in 1..Len(procs)
  BY <1>1, ProcessAssumption
<1> QED BY <1>1, <1>2, <1>3 DEF Process

LEMMA KeptRows == ASSUME TableOK, UNCHANGED procs PROVE RowsOK
BY DEF TableOK, RowsOK, OwnEnds, ParentReaps

LEMMA GrownRows ==
  ASSUME TableOK, Len(procs) < MaxProcesses, NEW new \in Process,
         procs' = Append(procs, new)
  PROVE  RowsOK
<1>1. /\ procs' \in Seq(Process) /\ Len(procs') = Len(procs) + 1
      /\ \A p \in 1..Len(procs) : procs'[p] = procs[p]
  BY AppendProperties DEF TableOK
<1> QED BY <1>1, RowFacts, ProcessAssumption DEF RowsOK, OwnEnds, ParentReaps

\* A table in which nothing happened but the end of the caller's process.
OwnEnded(table) ==
  /\ table \in Seq(Process) /\ Len(table) = Len(procs)
  /\ \A p \in 1..Len(procs) :
       /\ table[p].parent = procs[p].parent /\ table[p].reaped = procs[p].reaped
       /\ table[p].running # procs[p].running => procs[p].running /\ p = CurrentPid

LEMMA NothingEnded == TableOK => OwnEnded(procs)
BY DEF OwnEnded, TableOK

LEMMA EndedOnce ==
  ASSUME TableOK, NEW table, OwnEnded(table), NEW code \in ExitCodes \cup {0}
  PROVE  OwnEnded(Ended(table, CurrentPid, code))
<1> DEFINE new == Ended(table, CurrentPid, code)
<1>1. table \in Seq(Process) /\ Len(table) = Len(procs)
  BY DEF OwnEnded
<1>2. /\ new \in Seq(Process) /\ Len(new) = Len(table)
      /\ \A p \in 1..Len(table) :
           /\ new[p].parent = table[p].parent /\ new[p].reaped = table[p].reaped
           /\ p # CurrentPid => new[p] = table[p]
           /\ p = CurrentPid => new[p].running = FALSE
  BY <1>1, EndedKeeps, ZenonT(60)
<1>3. \A p \in 1..Len(procs) : procs[p].running \in BOOLEAN
  BY RowFacts
<1> HIDE DEF new
<1>4. OwnEnded(new)
  <2> SUFFICES ASSUME NEW p \in 1..Len(procs)
               PROVE  /\ new[p].parent = procs[p].parent /\ new[p].reaped = procs[p].reaped
                      /\ new[p].running # procs[p].running =>
                           procs[p].running /\ p = CurrentPid
    BY <1>1, <1>2 DEF OwnEnded
  <2>1. table[p].parent = procs[p].parent /\ table[p].reaped = procs[p].reaped
        /\ (table[p].running # procs[p].running => procs[p].running /\ p = CurrentPid)
    BY DEF OwnEnded
  <2>2. CASE p = CurrentPid
    <3>1. new[p].running = FALSE
      BY <1>1, <1>2, <2>2
    <3>2. new[p].running # procs[p].running => procs[p].running
      BY <1>3, <3>1
    <3> QED BY <1>1, <1>2, <2>1, <2>2, <3>2
  <2>3. CASE p # CurrentPid
    <3>1. new[p] = table[p]
      BY <1>1, <1>2, <2>3
    <3> QED BY <2>1, <3>1
  <2> QED BY <2>2, <2>3
<1> QED BY <1>4 DEF new

LEMMA EndedRows ==
  ASSUME TableOK, CpuOK, NEW table, OwnEnded(table), procs' = table
  PROVE  RowsOK
<1>1. CurrentPid = PidOf(cpu.tid)
  BY DEF CpuOK, CurrentPid
<1> QED BY <1>1, RowFacts DEF RowsOK, OwnEnded, OwnEnds, ParentReaps

LEMMA ReapedRows ==
  ASSUME TableOK, NEW arg, NEW p \in Reapable(arg),
         procs' = [procs EXCEPT ![p].reaped = TRUE]
  PROVE  RowsOK
<1>1. /\ p \in 1..Len(procs) /\ p # 1 /\ procs[p].parent = CurrentPid
      /\ ~procs[p].reaped /\ ~procs[p].running
  BY RowFacts DEF Reapable
<1> DEFINE e == [procs[p] EXCEPT !.reaped = TRUE]
<1>2. e \in Process /\ e.running = procs[p].running /\ procs[p] \in Process
  BY <1>1, RowFacts DEF Process
<1>3. procs' = [procs EXCEPT ![p] = e]
  OBVIOUS
<1> HIDE DEF e
<1>4. /\ procs' \in Seq(Process) /\ Len(procs') = Len(procs)
      /\ \A q \in 1..Len(procs) : procs'[q] = IF q = p THEN e ELSE procs[q]
  <2>1. procs \in Seq(Process) /\ p \in 1..Len(procs) /\ e \in Process
    BY <1>1, <1>2 DEF TableOK
  <2>2. /\ [procs EXCEPT ![p] = e] \in Seq(Process)
        /\ Len([procs EXCEPT ![p] = e]) = Len(procs)
        /\ \A q \in 1..Len(procs) :
             [procs EXCEPT ![p] = e][q] = IF q = p THEN e ELSE procs[q]
    BY <2>1, ExceptSeq
  <2> QED BY <1>3, <2>2
<1>5. procs'[1] = procs[1]
  BY <1>1, <1>4, RowFacts
<1> QED BY <1>1, <1>2, <1>4, <1>5, RowFacts DEF RowsOK, OwnEnds, ParentReaps

-------------------------------------------------------------------------------
\* The inductive step, one lemma per action.  Step is what the invariant and the
\* action properties need of it.

Step == KInv' /\ OwnEnds /\ ParentReaps

LEMMA StepFromParts ==
  ASSUME TableOK, Small', RowsOK,
         threadProc' \in [Tids -> 0..MaxProcesses],
         forkResumes' \in [Tids -> 0..(MaxThreads + 1)],
         mainStack' \subseteq Tids, gone' \subseteq Tids,
         UNCHANGED reply
  PROVE  Step
BY DEF Step, KInv, Small, TableOK, RowsOK

LEMMA InitKInv == PInit => KInv
<1> SUFFICES ASSUME PInit PROVE KInv
  OBVIOUS
<1>1. IInv
  BY InitOK DEF PInit
<1>2. CpuOK
  BY <1>1 DEF PInit, Init, IInv, SchedOK, RunningMatches, CpuOK
<1>3. TableOK
  <2> DEFINE row == [parent |-> 0, running |-> TRUE, status |-> 0, reaped |-> FALSE]
  <2>1. row \in Process /\ row.parent = 0
    BY ProcessAssumption DEF Process
  <2>2. procs = <<row>>
    BY DEF PInit
  <2> HIDE DEF row
  <2>3. procs \in Seq(Process) /\ Len(procs) = 1 /\ procs[1] = row
    BY <2>1, <2>2
  <2>4. threadProc \in [Tids -> 0..MaxProcesses]
        /\ forkResumes \in [Tids -> 0..(MaxThreads + 1)]
    BY ProcessAssumption, ConstantsAssumption DEF PInit
  <2> QED BY <2>1, <2>3, <2>4, TidFacts, ProcessAssumption DEF PInit, TableOK
<1> QED BY <1>1, <1>2, <1>3 DEF IInv, KInv

LEMMA CreateStep == KInv /\ PCreate => Step
<1> SUFFICES ASSUME KInv, PCreate PROVE Step
  OBVIOUS
<1>1. Small' /\ nextTid \in Tids
  BY CreateSmall DEF KInv, Small, PCreate
<1>2. RowsOK
  BY KeptRows DEF KInv, PCreate
<1>3. CurrentPid \in 1..MaxProcesses
  BY PidFacts DEF KInv, CpuOK, CurrentPid
<1>4. threadProc' \in [Tids -> 0..MaxProcesses]
  BY <1>1, <1>3, ProcessAssumption DEF KInv, TableOK, PCreate
<1> QED BY <1>1, <1>2, <1>4, StepFromParts DEF KInv, TableOK, PCreate

LEMMA ThreadsStep == KInv /\ PThread => Step
<1> SUFFICES ASSUME KInv, PThread PROVE Step
  OBVIOUS
<1>1. Small
  BY DEF KInv, Small
<1>2. Small'
  BY <1>1, JoinSmall, DetachSmall, ExitSmall, SyncSmall, DelayYieldSmall DEF PThread
<1>3. RowsOK
  BY KeptRows DEF KInv, PThread, procVars
<1> QED BY <1>2, <1>3, StepFromParts DEF KInv, TableOK, PThread, procVars

\* What done_addr does to the table is the end of the caller's process, if any.
LEMMA DoneMarksEnd == ASSUME KInv PROVE OwnEnded(DoneMarks(procs))
<1>1. threadProc[current] > 1 => threadProc[current] = CurrentPid
  BY PidFacts DEF KInv, CpuOK, CurrentPid
<1>2. OwnEnded(procs)
  BY NothingEnded DEF KInv
<1>3. OwnEnded(Ended(procs, CurrentPid, 0))
  BY <1>2, EndedOnce DEF KInv
<1> QED BY <1>1, <1>2, <1>3 DEF DoneMarks

LEMMA DoneStep == KInv /\ PDone => Step
<1> SUFFICES ASSUME KInv, PDone PROVE Step
  OBVIOUS
<1>1. cpu \in Context /\ cpu.tid = current /\ Small
  BY DEF KInv, CpuOK, Small
<1>2. [cpu EXCEPT !.at = "done"] \in Context /\ [cpu EXCEPT !.at = "done"].tid = current
  BY <1>1 DEF Context
<1>3. Small'
  BY <1>1, <1>2, DoneSmall DEF PDone, ExitWithoutActive, DoneAgain
<1>4. RowsOK
  BY DoneMarksEnd, EndedRows DEF KInv, PDone
<1> QED BY <1>3, <1>4, StepFromParts DEF KInv, TableOK, PDone

\* A new row of the process table, of a child of the caller.
LEMMA ChildRow ==
  ASSUME KInv, NEW b \in BOOLEAN
  PROVE  [parent |-> CurrentPid, running |-> b, status |-> 0, reaped |-> FALSE] \in Process
<1>1. CurrentPid \in 1..MaxProcesses
  BY PidFacts DEF KInv, CpuOK, CurrentPid
<1>2. CurrentPid \in 0..MaxProcesses
  BY <1>1, ProcessAssumption
<1> QED BY <1>2 DEF Process

LEMMA SpawnStep == KInv /\ PosixSpawn => Step
<1> SUFFICES ASSUME KInv, PosixSpawn PROVE Step
  OBVIOUS
<1>1. CpuOK'
  BY UnchangedCpu DEF KInv, PosixSpawn, vars, sched
<1>2. WaitOK' /\ RestOK'
  BY UnchangedWait, UnchangedRest DEF KInv, PosixSpawn, vars, ghosts
<1>3. RowsOK
  BY ChildRow, GrownRows DEF KInv, PosixSpawn
<1> QED BY <1>1, <1>2, <1>3, StepFromParts DEF KInv, Small, TableOK, PosixSpawn

\* The child is entered with the caller, under its own id, as its parent.
LEMMA ForkStep == KInv /\ Fork => Step
<1> SUFFICES ASSUME KInv, Fork PROVE Step
  OBVIOUS
<1>1. /\ nextTid \in Tids /\ nextTid + 1 \in 2..(MaxThreads + 2)
      /\ current \in Tids /\ cpu \in Context /\ cpu.tid = current
  BY ConstantsAssumption DEF KInv, CpuOK, RestOK, Fork, Tids
<1>2. CpuOK'
  <2>1. active' \in Active /\ active'.id = nextTid /\ active'.parentId = active'.parent.tid
    BY <1>1 DEF Fork, Active
  <2>2. cpu' \in Context /\ cpu'.tid = nextTid
    BY <1>1 DEF Fork, Context
  <2> QED BY <1>1, <2>1, <2>2 DEF KInv, CpuOK, Fork
<1>3. WaitOK'
  BY UnchangedWait DEF KInv, Fork
<1>4. RestOK'
  BY <1>1 DEF KInv, RestOK, Fork, ghosts
<1>5. RowsOK
  BY ChildRow, GrownRows DEF KInv, Fork
<1>6. Len(procs) + 1 \in 0..MaxProcesses
  BY ProcessAssumption DEF KInv, TableOK, Fork
<1>7. threadProc' \in [Tids -> 0..MaxProcesses]
  BY <1>1, <1>6 DEF KInv, TableOK, Fork
<1>8. forkResumes' \in [Tids -> 0..(MaxThreads + 1)]
  BY <1>1, TidFacts DEF KInv, TableOK, Fork
<1>9. mainStack' \subseteq Tids
  BY <1>1 DEF KInv, TableOK, Fork
<1> QED BY <1>2, <1>3, <1>4, <1>5, <1>7, <1>8, <1>9, StepFromParts
        DEF KInv, Small, TableOK, Fork

\* A non-empty set of numbers has a least one.
LEMMA LeastOne == ASSUME NEW T, T \subseteq Nat, T # {} PROVE Min(T) \in T
<1> DEFINE R == OpToRel(<, Nat)
<1>1. IsWellFoundedOn(R, Nat)
  BY NatLessThanWellFounded
<1>2. \A x, y \in T : <<y, x>> \in R <=> y < x
  BY LessThan
<1> HIDE DEF R
<1>3. PICK x \in T : \A y \in T : ~(<<y, x>> \in R)
  BY <1>1, WFMin
<1>4. \A y \in T : ~(y < x)
  BY <1>2, <1>3, Zenon
<1>5. \A y \in T : x =< y
  BY <1>4, SMT
<1>6. Min(T) = CHOOSE m \in T : \A y \in T : m =< y
  BY DEF Min
<1>7. (CHOOSE m \in T : \A y \in T : m =< y) \in T
  BY <1>5, Zenon
<1> QED BY <1>6, <1>7

\* Removing an entry leaves a queue of matched entries.
LEMMA WithoutFirstType ==
  ASSUME NEW q \in Seq(MatchedEntry), NEW t PROVE WithoutFirst(q, t) \in Seq(MatchedEntry)
<1> DEFINE I == {i \in 1..Len(q) : q[i].id = t}
<1>1. Len(q) \in Nat /\ DOMAIN q = 1..Len(q)
  BY LenProperties
<1>2. SelectInSeq(q, LAMBDA e : e.id = t) = IF I # {} THEN Min(I) ELSE 0
  BY DEF SelectInSeq
<1>3. I # {} => Min(I) \in I
  <2>1. I \subseteq Nat
    BY <1>1
  <2> HIDE DEF I
  <2> QED BY <2>1, LeastOne
<1>4. I # {} => Min(I) \in DOMAIN q /\ Min(I) # 0
  BY <1>1, <1>3
<1> HIDE DEF I
<1>5. CASE I = {}
  BY <1>2, <1>5 DEF WithoutFirst
<1>6. CASE I # {}
  BY <1>2, <1>4, <1>6, TakeEntryType DEF WithoutFirst
<1> QED BY <1>5, <1>6

\* execve: the process ends, and the CPU goes to the recorded parent, to a ready
\* thread, or stays.
LEMMA ExecveStep == KInv /\ Execve => Step
<1> SUFFICES ASSUME KInv, Execve PROVE Step
  OBVIOUS
<1>1. /\ cpu \in Context /\ cpu.tid = current /\ current \in Tids
      /\ CpuOK /\ pending \in Seq(MatchedEntry)
  BY DEF KInv, CpuOK
<1>2. CpuOK'
  <2> DEFINE parentTid == forkResumes[current]
             mine == active # NoActive /\ active.id = current
  <2>1. CASE /\ mine /\ parentTid # 0
             /\ pending' = WithoutFirst(pending, parentTid)
             /\ active' = [id |-> parentTid, parentId |-> current, parent |-> cpu,
                           store |-> FALSE]
             /\ current' = parentTid
             /\ cpu' = [tid |-> parentTid, at |-> "guest"]
    <3>1. parentTid \in Tids
      <4>1. parentTid \in 0..(MaxThreads + 1)
        BY <1>1 DEF KInv, TableOK
      <4> QED BY <2>1, <4>1, ConstantsAssumption DEF Tids
    <3>2. pending' \in Seq(MatchedEntry)
      BY <1>1, <2>1, WithoutFirstType
    <3>3. active' \in Active /\ active'.id = parentTid
          /\ active'.parentId = active'.parent.tid
      BY <1>1, <2>1, <3>1 DEF Active
    <3>4. cpu' \in Context /\ cpu'.tid = parentTid
      BY <2>1, <3>1 DEF Context
    <3> HIDE DEF parentTid
    <3> QED BY <2>1, <3>1, <3>2, <3>3, <3>4 DEF CpuOK
  <2>2. CASE pending # <<>> /\ Dispatch(1, cpu, FALSE)
    BY <1>1, <2>2, DispatchFirst
  <2>3. CASE active' = NoActive /\ UNCHANGED <<pending, current, cpu>>
    BY <1>1, <2>3 DEF CpuOK
  <2>4. CASE UNCHANGED sched
    BY <1>1, <2>4, UnchangedCpu
  <2> QED BY <2>1, <2>2, <2>3, <2>4 DEF Execve
<1>3. WaitOK' /\ RestOK'
  BY UnchangedWait, UnchangedRest DEF KInv, Execve
<1>4. RowsOK
  BY NothingEnded, EndedOnce, EndedRows DEF KInv, Execve
<1> QED BY <1>2, <1>3, <1>4, StepFromParts DEF KInv, Small, TableOK, Execve

\* exit: the process ends unless another thread of it is left; done_addr, if the
\* caller is parked there, ends it once more.
LEMMA ExitStep == ASSUME KInv, NEW code \in ExitCodes, Exit(code) PROVE Step
<1>1. /\ cpu \in Context /\ cpu.tid = current /\ current \in Tids /\ CpuOK /\ TableOK
      /\ WaitOK /\ RestOK /\ Small
  BY DEF KInv, CpuOK, Small
<1>2. Small'
  <2>1. CASE /\ pending # <<>> /\ Dispatch(1, cpu, FALSE)
             /\ UNCHANGED <<nextTid, waiters, signals, owner, completed, stopped, ghosts>>
    <3>1. CpuOK'
      BY <1>1, <2>1, DispatchFirst
    <3>2. WaitOK' /\ RestOK'
      BY <1>1, <2>1, UnchangedWait, UnchangedRest
    <3> QED BY <3>1, <3>2 DEF Small
  <2>2. CASE DoneAddr(cpu)
    BY <1>1, <2>2, DoneSmall
  <2> QED BY <2>1, <2>2 DEF Exit
<1>3. OwnEnded(AfterExit(code))
  BY <1>1, NothingEnded, EndedOnce DEF AfterExit
<1>4. threadProc' \in [Tids -> 0..MaxProcesses]
  BY <1>1, ProcessAssumption DEF TableOK, Exit
<1>5. threadProc'[current] > 1 => threadProc'[current] = CurrentPid
  <2>1. threadProc'[current] \in {0, threadProc[current]}
    BY <1>1 DEF TableOK, Exit
  <2>2. threadProc[current] > 1 => threadProc[current] = CurrentPid
    BY <1>1, PidFacts DEF CurrentPid
  <2> QED BY <2>1, <2>2
<1>6. RowsOK
  <2>1. CASE procs' = AfterExit(code)
    BY <1>1, <1>3, <2>1, EndedRows
  <2>2. CASE procs' = IF threadProc'[current] > 1
                      THEN Ended(AfterExit(code), threadProc'[current], 0)
                      ELSE AfterExit(code)
    <3>1. OwnEnded(Ended(AfterExit(code), CurrentPid, 0))
      BY <1>1, <1>3, EndedOnce
    <3> QED BY <1>1, <1>3, <1>5, <2>1, <2>2, <3>1, EndedRows
  <2> QED BY <2>1, <2>2 DEF Exit
<1> QED BY <1>1, <1>2, <1>4, <1>6, StepFromParts DEF TableOK, Exit

LEMMA WaitStep ==
  ASSUME KInv, NEW arg \in WaitArgs, NEW nohang \in BOOLEAN, Wait(arg, nohang)
  PROVE  Step
<1>1. CpuOK'
  BY UnchangedCpu DEF KInv, Wait, vars, sched
<1>2. WaitOK' /\ RestOK'
  BY UnchangedWait, UnchangedRest DEF KInv, Wait, vars, ghosts
<1>3. RowsOK
  BY KeptRows, ReapedRows DEF KInv, Wait
<1>4. reply' \in [arg : WaitArgs \cup {0}, answer : {"none", "reaped", "zero", "echild"}]
  BY DEF Wait
<1>5. TableOK'
  BY <1>3, <1>4 DEF KInv, TableOK, RowsOK, Wait
<1> QED BY <1>1, <1>2, <1>3, <1>5 DEF Step, KInv, RowsOK

LEMMA PStutter == KInv /\ UNCHANGED pvars => KInv'
<1> SUFFICES ASSUME KInv, UNCHANGED pvars PROVE KInv'
  OBVIOUS
<1>1. CpuOK' /\ WaitOK' /\ RestOK'
  BY UnchangedCpu, UnchangedWait, UnchangedRest DEF KInv, pvars, vars, sched, ghosts
<1>2. TableOK'
  BY DEF KInv, TableOK, pvars, procVars
<1> QED BY <1>1, <1>2 DEF KInv

LEMMA NextStep == KInv /\ PNext => Step
<1>1. KInv /\ (PCreate \/ PThread \/ PDone) => Step
  BY CreateStep, ThreadsStep, DoneStep
<1>2. KInv /\ (Fork \/ PosixSpawn \/ Execve) => Step
  BY ForkStep, SpawnStep, ExecveStep
<1>3. KInv /\ (\E code \in ExitCodes : Exit(code)) => Step
  BY ExitStep
<1>4. KInv /\ (\E arg \in WaitArgs, nohang \in BOOLEAN : Wait(arg, nohang)) => Step
  BY WaitStep
<1> QED BY <1>1, <1>2, <1>3, <1>4 DEF PNext

\* The invariant is inductive.
THEOREM ProcessInvariant == PSpec => []KInv
<1>1. KInv /\ [PNext]_pvars => KInv'
  BY NextStep, PStutter DEF Step
<1> QED BY <1>1, InitKInv, PTL DEF PSpec

-------------------------------------------------------------------------------
\* What the invariant and the steps say in the terms of the properties TLC checks.

LEMMA KInvMeaning == KInv => PTypeOK /\ ForkAttribution
<1> SUFFICES ASSUME KInv PROVE PTypeOK /\ ForkAttribution
  OBVIOUS
<1>1. MatchedEntry \subseteq Entry /\ MatchedWaiter \subseteq Waiter
  BY DEF MatchedEntry, MatchedWaiter
<1>2. pending \in Seq(Entry)
  BY <1>1, SeqMonotonic DEF KInv, CpuOK
<1>3. waiters \in [Conds -> Seq(Waiter)]
  BY <1>1, SeqMonotonic DEF KInv, WaitOK
<1>4. TypeOK
  BY <1>2, <1>3 DEF KInv, CpuOK, WaitOK, RestOK, TypeOK
<1>5. PTypeOK
  BY <1>4, ProcessAssumption DEF KInv, TableOK, PTypeOK
<1>6. ForkAttribution
  BY DEF KInv, CpuOK, WaitOK, ForkAttribution, QueuesMatch, MatchedEntry, MatchedWaiter
<1> QED BY <1>5, <1>6

\* The process table, the ids of threads and the answers of wait keep their types.
THEOREM ProcessesTyped == PSpec => []PTypeOK
BY ProcessInvariant, KInvMeaning, PTL

\* Through forks, execve and exits the ids name the thread whose registers run.
THEOREM AttributionSurvivesFork == PSpec => []ForkAttribution
BY ProcessInvariant, KInvMeaning, PTL

\* A process ends once, by its own step, and is reaped once, by its parent.
THEOREM EndsAndReapsHold == PSpec => EndsAndReapsOnce
<1>1. KInv /\ [PNext]_pvars => [OwnEnds]_pvars /\ [ParentReaps]_pvars
  BY NextStep DEF Step
<1> QED BY <1>1, ProcessInvariant, PTL
        DEF PSpec, EndsAndReapsOnce, OnlyOwnProcessEnds, ReapedOnce

\* A wait finds each ended child its argument names.  The argument is one of those
\* the look-up understands: with -1 it is not so.
LEMMA WaitAnswers ==
  ASSUME AnyChild \notin WaitArgs, KInv, NEW arg \in WaitArgs, NEW nohang \in BOOLEAN,
         Wait(arg, nohang)
  PROVE  EchildTrue
<1> SUFFICES ASSUME reply' # reply, reply'.answer = "echild",
                    NEW p \in DOMAIN procs,
                    procs[p].parent = CurrentPid, ~procs[p].running, ~procs[p].reaped,
                    reply'.arg \in {0, AnyChild, p}
             PROVE  FALSE
  BY DEF EchildTrue
<1>1. Reapable(arg) = {} /\ reply'.arg = arg
  BY DEF Wait
<1>2. arg = 0 \/ arg = p
  BY <1>1
<1>3. p # 1
  BY RowFacts, PidFacts, ProcessAssumption DEF KInv, CpuOK, CurrentPid
<1> QED BY <1>1, <1>2, <1>3 DEF Reapable

\* ECHILD is answered only when no ended child matches, for callers that ask for
\* any child of theirs by 0 or for one by its number.
THEOREM WaitHonestWithoutAny ==
  ASSUME AnyChild \notin WaitArgs PROVE PSpec => WaitTellsTruth
<1>1. KInv /\ [PNext]_pvars => [EchildTrue]_pvars
  <2> SUFFICES ASSUME KInv, PNext, reply' # reply PROVE EchildTrue
    BY DEF EchildTrue
  <2>1. PICK arg \in WaitArgs, nohang \in BOOLEAN : Wait(arg, nohang)
    BY DEF PNext, PCreate, PThread, PDone, Fork, PosixSpawn, Execve, Exit, procVars
  <2> QED BY <2>1, WaitAnswers
<1> QED BY <1>1, ProcessInvariant, PTL DEF PSpec, WaitTellsTruth
===============================================================================
