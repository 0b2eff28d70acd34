------------------------------ MODULE GuestDelays ------------------------------
(***************************************************************************)
(* The delay hooks _sleep and _usleep of the arm64 runner on top of the    *)
(* thread scheduler.  Nothing really sleeps: a delay is where a thread     *)
(* gives way, where a polling loop is noticed (by counting the calls of    *)
(* one call site), where waiting threads are rescued and where an idle run *)
(* is stopped.                                                             *)
(*                                                                         *)
(* Each thread sleeps at one call site and usleeps at another, so a        *)
(* counter per thread and hook stands for the map keyed by (tid, lr).  The *)
(* virtual clock the hooks advance decides nothing and is left out; so is  *)
(* the saturation of the counters at u32::MAX.                             *)
(***************************************************************************)
EXTENDS GuestThreads

CONSTANTS Compat,       \* compat mode with a host that serves delays
          Hooks,        \* delay hooks the guest calls: "sleep", "usleep"
          SleepStop,    \* sleeps of one site that mean an idle loop (3)
          RescueAfter,  \* usleeps of one site before the first rescue (50)
          RescueEvery,  \* usleeps between two rescues (25)
          RescueLimit   \* waiters woken by one rescue (4)

ASSUME DelayAssumption ==
  /\ Compat \in BOOLEAN /\ Hooks \subseteq {"sleep", "usleep"}
  /\ {SleepStop, RescueAfter, RescueEvery, RescueLimit} \subseteq Nat \ {0}
  /\ RescueAfter % RescueEvery = 0

VARIABLES sleeps,       \* streaks of the call site of sleep, by thread
          usleeps,      \* streaks of the call site of usleep, by thread
          idleStop      \* synthetic_stop_reason is idle_sleep_loop

dvars == <<vars, sleeps, usleeps, idleStop>>

DInit ==
  /\ Init
  /\ sleeps = [t \in Tids |-> 0] /\ usleeps = [t \in Tids |-> 0]
  /\ idleStop = FALSE

\* Arm64ThreadScheduleState::host_delay_proxy_allowed: nobody but main exists.
SchedulerIdle ==
  active = NoActive /\ pending = <<>> /\ \A c \in Conds : waiters[c] = <<>>

\* The synthetic path of a delay hook; an idle scheduler leaves it to the host.
Delays == InGuest /\ ~idleStop /\ ~(Compat /\ SchedulerIdle)
CanYield == active # NoActive /\ pending # <<>>

-------------------------------------------------------------------------------
\* Counted up to the value that decides.
SleepCount == IF sleeps[current] < SleepStop THEN sleeps[current] + 1 ELSE SleepStop

\* Mutant: a ready thread does not keep the run going.
SleepStopsBusy(seconds) == seconds > 0 /\ SleepCount >= SleepStop
SleepStops(seconds) == seconds > 0 /\ pending = <<>> /\ SleepCount >= SleepStop

\* _sleep: yield; a loop that cannot yield is stopped at its third call.
Sleep(seconds) ==
  /\ "sleep" \in Hooks /\ Delays
  /\ sleeps' = [sleeps EXCEPT ![current] = SleepCount]
  /\ \/ CanYield /\ Yield(pending) /\ UNCHANGED <<stopped, idleStop>>
     \/ /\ ~CanYield /\ UNCHANGED sched
        /\ stopped' = SleepStops(seconds) /\ idleStop' = SleepStops(seconds)
  /\ UNCHANGED <<nextTid, waiters, signals, owner, completed, ghosts, usleeps>>

-------------------------------------------------------------------------------
\* Counted modulo RescueEvery once past RescueAfter.
UsleepCount ==
  IF usleeps[current] + 1 < RescueAfter + RescueEvery THEN usleeps[current] + 1
                                                      ELSE RescueAfter
\* Mutant: only waiters of a run without an active thread are rescued.
RescuesMainOnly ==
  active = NoActive /\ pending = <<>> /\ UsleepCount >= RescueAfter
    /\ UsleepCount % RescueEvery = 0
Rescues ==
  pending = <<>> /\ UsleepCount >= RescueAfter /\ UsleepCount % RescueEvery = 0

\* wake_one_cond_waiter_for on the scheduler state r.
WokenFrom(r, c) ==
  LET w == Head(r.waiters[c])
  IN [ready |-> <<AsEntry(w)>> \o r.ready,
      waiters |-> [r.waiters EXCEPT ![c] = Tail(@)],
      owner |-> [r.owner EXCEPT ![w.mutex] = w.id]]

\* One turn of wake_cond_waiters: some condition in hash-map order.
WokenOnce(r) == LET cs == {c \in Conds : r.waiters[c] # <<>>}
                IN IF cs = {} THEN {r} ELSE {WokenFrom(r, c) : c \in cs}
\* wake_cond_waiters: up to n waiters.
Woken[n \in 0..RescueLimit] ==
  IF n = 0 THEN {[ready |-> pending, waiters |-> waiters, owner |-> owner]}
  ELSE UNION {WokenOnce(r) : r \in Woken[n - 1]}

\* _usleep: yield; a loop that cannot yield now and then wakes some waiters.
Usleep ==
  /\ "usleep" \in Hooks /\ Delays
  /\ usleeps' = [usleeps EXCEPT ![current] = UsleepCount]
  /\ \/ CanYield /\ Yield(pending) /\ UNCHANGED <<waiters, owner>>
     \/ /\ ~CanYield /\ Rescues
        /\ \E r \in Woken[RescueLimit] :
             /\ waiters' = r.waiters /\ owner' = r.owner
             /\ Yield(r.ready)
     \/ ~CanYield /\ ~Rescues /\ UNCHANGED <<sched, waiters, owner>>
  /\ UNCHANGED <<nextTid, signals, completed, stopped, ghosts, sleeps, idleStop>>

OtherHook == (ThreadStep \/ SyncStep) /\ UNCHANGED <<sleeps, usleeps, idleStop>>

DNext == OtherHook \/ Usleep \/ \E seconds \in {0, 1} : Sleep(seconds)

DSpec == DInit /\ [][DNext]_dvars

-------------------------------------------------------------------------------
(***************************************************************************)
(* Properties, next to those of GuestThreads that a rescue could break.    *)
(***************************************************************************)

DTypeOK ==
  /\ TypeOK
  /\ sleeps \in [Tids -> 0..SleepStop]
  /\ usleeps \in [Tids -> 0..(RescueAfter + RescueEvery - 1)]
  /\ idleStop \in BOOLEAN

\* What an idle stop cuts off: the sleeping thread itself and threads that wait on
\* a condition nobody signalled since, never one that could have run.
IdleStopStrandsOnlyWaiters ==
  idleStop => \A t \in Children : t < nextTid =>
    \/ t \in exited \cup lost \/ active.id = t
    \/ \E c \in Conds : signals[c] = 0 /\ Holds(c, t)

\* A rescue wakes waiters nobody signalled, of several conditions at once, and
\* still leaves each mutex with a thread it took out of a wait on that mutex.
RescueHandsOver ==
  \A c \in Conds, m \in Mutexes, t \in Children :
    (Waits(c, m, t) /\ ~Waits(c, m, t)' /\ t \notin lost') =>
      \E u \in Tids, d \in Conds : /\ owner'[m] = u /\ Waits(d, m, u)
                                   /\ u # Main => ~Waits(d, m, u)'

\* Neither the rescue nor the idle stop, both decided by counting calls, harms a
\* thread that could run or a mutex.
IdleCountsHarmless == [][RescueHandsOver /\ IdleStopStrandsOnlyWaiters']_dvars

\* A guest that only polls in usleep does not leave waiting threads asleep for
\* ever: under weak fairness of the hook, the emulator running the loop, each of
\* them is woken or something else becomes ready.
Polls == DSpec /\ WF_dvars(Usleep)
StrandedWaiters ==
  InGuest /\ pending = <<>> /\ \E c \in Conds : waiters[c] # <<>>
PollingRescues == StrandedWaiters ~> ~StrandedWaiters
===============================================================================
