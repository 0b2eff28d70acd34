------------------------------- MODULE MCKqueues -------------------------------
(***************************************************************************)
(* Small instances of the kqueues for TLC, explored one by one: a waker in *)
(* a kqueue and its duplicates, while no descriptor is open; and the ends  *)
(* of a pipe in one kqueue, while the process opens, fills, drains,        *)
(* duplicates and closes descriptors.  A poll has room for every source;   *)
(* the waker is also polled without an event list.                         *)
(***************************************************************************)
EXTENDS Kqueues

VARIABLE part           \* the instance that is explored

kpartvars == <<kvars, part>>

\* A waker (EVFILT_USER, ident 0), and the ends of the first pipe.
Waker == [ident |-> 0, filter |-> "user"]
PipeEnds == {[ident |-> FirstFd, filter |-> "read"],
             [ident |-> FirstFd + 1, filter |-> "write"]}
WakerAndPipe == PipeEnds \cup {Waker}

Of(sources) == {changes \in Changelists : \A i \in DOMAIN changes : changes[i].source \in sources}
WakerChanges == Of({Waker})
\* Acknowledged or not, a change does the same: for the pipe one verb is enough.
PipeChanges == {changes \in Of(PipeEnds) :
  \A i \in DOMAIN changes : changes[i].receipt => changes[i].verb = "none"}

MCKNext ==
  /\ UNCHANGED part
  /\ \/ /\ part = "waker" /\ UNCHANGED fdvars
        /\ \/ Kqueue
           \/ \E q \in DOMAIN kqueues : DupKqueue(q)
           \/ \E q \in DOMAIN kqueues, changes \in WakerChanges, room \in Rooms :
                Kevent(onCpu, q, changes, room)
     \/ /\ part = "pipe"
        /\ \/ FNext /\ UNCHANGED kqueues /\ last' = NoCall
           \/ kqueues = <<>> /\ Kqueue /\ UNCHANGED fdvars
           \/ \E q \in DOMAIN kqueues, changes \in PipeChanges :
                Kevent(onCpu, q, changes, LargestRoom) /\ UNCHANGED fdvars
MCKInit == KInit /\ part \in {"waker", "pipe"}
MCPolling ==
  /\ MCKInit /\ [][MCKNext]_kpartvars
  /\ \A q \in 1..MaxQueues : WF_kvars(q \in DOMAIN kqueues /\ Poll(q, LargestRoom))
===============================================================================
