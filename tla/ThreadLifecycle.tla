--------------------------- MODULE ThreadLifecycle ---------------------------
(***************************************************************************)
(* What the synthetic guest scheduler promises about one guest thread,     *)
(* without saying how: a thread is born once, is in exactly one place at a *)
(* time, at most one created thread holds the emulated CPU, and a thread   *)
(* that waits on a condition leaves it only by a wake of that condition.   *)
(*                                                                         *)
(* The main thread is not described: its register contexts may be saved    *)
(* more than once (see GuestThreads), so "nobody runs" here means that the *)
(* CPU belongs to main.                                                    *)
(***************************************************************************)
EXTENDS Naturals

CONSTANTS Threads,      \* ids of the threads the guest may create
          Conds         \* condition variables (model values)

VARIABLE place          \* place[t]: where thread t is

Places == {"unborn", "ready", "running", "exited", "lost"} \cup Conds

Init == place = [t \in Threads |-> "unborn"]

Running == {t \in Threads : place[t] = "running"}
WaitingOn(c) == {t \in Threads : place[t] = c}

\* Ids are handed out in order.
Create(t) ==
  /\ place[t] = "unborn"
  /\ \A u \in Threads : u < t => place[u] # "unborn"
  /\ place' = [place EXCEPT ![t] = "ready"]

(***************************************************************************)
(* From the placement p, the CPU may be taken from the thread that runs    *)
(* (which then goes to `to') and given to a ready one, or to nobody.       *)
(***************************************************************************)
Released(p, to) == [t \in Threads |-> IF p[t] = "running" THEN to ELSE p[t]]
Granted(p) == {p} \cup {[p EXCEPT ![t] = "running"] :
                          t \in {u \in Threads : p[u] = "ready"}}

\* The CPU is handed over, from a thread that stays ready or from main.
Switch == place' \in Granted(Released(place, "ready"))

\* A wake of condition c makes some of its waiters ready; the thread that woke
\* them may be put back in the ready queue in the same step.
Woken(c, woken) == [t \in Threads |-> IF t \in woken THEN "ready" ELSE place[t]]
WakeAndSwitch(c, woken) ==
  /\ woken \subseteq WaitingOn(c)
  /\ \/ place' = Woken(c, woken)
     \/ place' \in Granted(Released(Woken(c, woken), "ready"))

\* The running thread starts to wait on c and somebody else takes the CPU.
Park(c) == Running # {} /\ place' \in Granted(Released(place, c))

\* The running thread ends: the CPU goes back to main.
Exit == Running # {} /\ place' = Released(place, "exited")

\* Re-initialising c forgets the threads that wait on it.
Forget(c) ==
  place' = [t \in Threads |-> IF place[t] = c THEN "lost" ELSE place[t]]

Next == \/ \E t \in Threads : Create(t)
        \/ \E c \in Conds : \E woken \in SUBSET Threads : WakeAndSwitch(c, woken)
        \/ \E c \in Conds : Park(c) \/ Forget(c)
        \/ Switch \/ Exit

Spec == Init /\ [][Next]_place
==============================================================================
