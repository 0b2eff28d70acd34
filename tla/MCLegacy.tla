-------------------------------- MODULE MCLegacy --------------------------------
(***************************************************************************)
(* What runs without the arm64 hooks, for TLC, one part at a time: threads *)
(* and processes of the import dispatcher; its pipes and kqueues, which    *)
(* share no state with them; the trace bus; and the services for kernel    *)
(* extensions, whose three managers share nothing either.                  *)
(*                                                                         *)
(* The second kqueue has no registration and only takes signals from the   *)
(* bus.  A change that asks for events does what it does without and the   *)
(* next poll does, so changes come without an event list.                  *)
(***************************************************************************)
EXTENDS LegacyThreads, LegacyKqueues, TraceBus, KextServices

VARIABLE part           \* the part that is explored

legacyvars == <<lvars, qvars, tracevars, kextvars, part>>

\* One plugin collects the hot calls, both claim the plain ones and the page touches.
MCPlugins == <<{"plain", "noise", "page"}, {"plain", "hot", "page"}>>
MCEventKeys == {[type |-> "sysctl", name |-> "a", proto |-> 0],
                [type |-> "sysctl", name |-> "b", proto |-> 0],
                [type |-> "socket", name |-> "b", proto |-> 6]}

MCQNext ==
  \/ Pipe \/ Kqueue
  \/ \E call \in {"read", "write", "close"}, k \in EndKeys : Notify(call, k.fd)
  \/ \E q \in DOMAIN kqueues, room \in Rooms : (q = 1 \/ room = 0) /\ Kevent(q, <<>>, room)
  \/ \E c \in Changes : kqueues # <<>> /\ Kevent(1, <<c>>, 0)
MCInit == /\ LInit /\ QInit /\ TraceInit /\ KextInit
          /\ part \in {"threads", "kqueues", "trace", "processes", "events", "policies"}
MCNext ==
  /\ UNCHANGED part
  /\ \/ part = "threads" /\ LNext /\ UNCHANGED <<qvars, tracevars, kextvars>>
     \/ part = "kqueues" /\ MCQNext /\ UNCHANGED <<lvars, tracevars, kextvars>>
     \/ part = "trace" /\ TraceNext /\ UNCHANGED <<lvars, qvars, kextvars>>
     \/ part = "processes" /\ ListStep /\ UNCHANGED <<lvars, qvars, tracevars>>
     \/ part = "events" /\ EventStep /\ UNCHANGED <<lvars, qvars, tracevars>>
     \/ part = "policies" /\ PolicyStep /\ UNCHANGED <<lvars, qvars, tracevars>>
MCSpec == MCInit /\ [][MCNext]_legacyvars
===============================================================================
