-------------------------------- MODULE Kqueues --------------------------------
(***************************************************************************)
(* The synthetic kqueues of the arm64 runner on top of its descriptors:    *)
(* kqueue, kevent and the duplication of a kqueue by fcntl.  A kqueue is a *)
(* list of registrations; kevent applies changes to it and then either     *)
(* acknowledges them or reports what is ready.                             *)
(*                                                                         *)
(* Abstracted: data, fflags and udata of a registration, and the timeout   *)
(* (kevent never waits).  A change has one verb, as the code looks at      *)
(* EV_DELETE, EV_ADD, EV_ENABLE and EV_DISABLE in this order; `off' says   *)
(* that EV_DISABLE comes with EV_ADD or EV_ENABLE.  A kqueue is named by   *)
(* its rank among the numbers 0x20000, 0x20001, ...; close does not know   *)
(* kqueues, and kevent and F_DUPFD go on working on one that was closed.   *)
(***************************************************************************)
EXTENDS SyntheticFds, Sequences, SequencesExt

CONSTANTS MaxQueues,    \* bound on the kqueues (unbounded in the code)
          Sources,      \* [ident, filter] pairs the guest registers
          MaxChanges,   \* bound on nchanges
          Rooms         \* values of nevents, 0 also for no eventlist

ASSUME KqueueAssumption ==
  /\ MaxQueues \in Nat /\ MaxChanges \in Nat /\ Rooms \subseteq Nat
  /\ Sources \subseteq [ident : Fds, filter : {"read", "write", "user"}]

VARIABLES kqueues,      \* kqueues: the registrations of each, in order
          last          \* history: what the last step asked of kevent and got

kvars == <<fdvars, kqueues, last>>

Registration == [source : Sources, disabled : BOOLEAN, clear : BOOLEAN,
                 triggered : BOOLEAN]
Change == [source : Sources, verb : {"delete", "add", "enable", "disable", "none"},
           off : BOOLEAN, clear : BOOLEAN, trigger : BOOLEAN, receipt : BOOLEAN]
\* The changes that differ: NOTE_TRIGGER is for EVFILT_USER, and flags of a
\* registration come with EV_ADD and EV_ENABLE.
Changes == {ch \in Change :
  /\ ch.trigger => ch.source.filter = "user" /\ ch.verb # "delete"
  /\ ch.off \/ ch.clear => ch.verb \in {"add", "enable"}
  /\ ch.clear => ch.source.filter = "user"}
Changelists == UNION {[1..n -> Changes] : n \in 0..MaxChanges}

NoCall == [queue |-> 0, reset |-> {}, events |-> {}, receipts |-> FALSE]

KInit == FInit /\ kqueues = <<>> /\ last = NoCall

-------------------------------------------------------------------------------
(***************************************************************************)
(* apply_synthetic_kevent_change, without the receipt it returns.          *)
(***************************************************************************)
\* The registrations of other sources.
Others(regs, src) ==
  LET left[n \in 0..Len(regs)] ==
        IF n = 0 THEN <<>>
        ELSE IF regs[n].source = src THEN left[n - 1] ELSE Append(left[n - 1], regs[n])
  IN left[Len(regs)]
\* The registration of src, if there is one, after f.
Changed(regs, src, f(_)) ==
  [i \in DOMAIN regs |-> IF regs[i].source = src THEN f(regs[i]) ELSE regs[i]]

Added(regs, ch) ==
  Append(Others(regs, ch.source),
         [source |-> ch.source, disabled |-> ch.off, clear |-> ch.clear,
          triggered |-> ch.trigger])

Disabled(regs, ch) ==
  Changed(regs, ch.source, LAMBDA r : [r EXCEPT !.disabled = TRUE])

Applied(regs, ch) ==
  LET noted == IF ch.trigger
               THEN Changed(regs, ch.source, LAMBDA r : [r EXCEPT !.triggered = TRUE])
               ELSE regs
  IN CASE ch.verb = "delete"  -> Others(regs, ch.source)
       [] ch.verb = "add"     -> Added(noted, ch)
       [] ch.verb = "enable"  -> Changed(noted, ch.source,
            LAMBDA r : [r EXCEPT !.disabled = ch.off, !.clear = @ \/ ch.clear])
       [] ch.verb = "disable" -> Disabled(noted, ch)
       [] ch.verb = "none"    -> noted
AppliedAll(regs, changes) ==
  LET after[n \in 0..Len(changes)] ==
        IF n = 0 THEN regs ELSE Applied(after[n - 1], changes[n])
  IN after[Len(changes)]

-------------------------------------------------------------------------------
(***************************************************************************)
(* collect_synthetic_kevent_ready and clear_emitted_user_triggers.         *)
(***************************************************************************)

\* A pipe can be read, at its end as well.
ReadReady(t) ==
  t.kind = "read" /\ Exists(t.id) /\ (pipes[t.id].size > 0 \/ ~pipes[t.id].writeOpen)
\* A pipe can always be written, also when nobody reads it.
WriteReady(t) == t.kind = "write" /\ Exists(t.id)

IsReady(p, r) ==
  /\ ~r.disabled
  /\ CASE r.source.filter = "user"  -> r.triggered
       [] r.source.filter = "read"  -> ReadReady(Resolve(Now, p, r.source.ident))
       [] r.source.filter = "write" -> WriteReady(Resolve(Now, p, r.source.ident))

\* Mutant: the last place of the event list is not used.
FirstShort(s, n) == SubSeq(s, 1, Least(n - 1, Len(s)))
\* What fits in the event list.
First(s, n) == SubSeq(s, 1, Least(n, Len(s)))

\* Mutant: every ready trigger is reset, reported or not.
ClearedAll(regs, emitted) ==
  [i \in DOMAIN regs |->
     IF regs[i].clear /\ ~regs[i].disabled THEN [regs[i] EXCEPT !.triggered = FALSE]
     ELSE regs[i]]
Cleared(regs, emitted) ==
  [i \in DOMAIN regs |->
     IF regs[i].source \in emitted /\ regs[i].clear
     THEN [regs[i] EXCEPT !.triggered = FALSE] ELSE regs[i]]

\* kevent: receipts of the changes that ask for one take the place of the events.
Kevent(p, q, changes, room) ==
  LET regs == AppliedAll(kqueues[q], changes)
      receipts == SelectSeq(changes, LAMBDA ch : ch.receipt)
      ready == SelectSeq(regs, LAMBDA r : IsReady(p, r))
      emitted == {r.source : r \in ToSet(First(ready, room))}
      acked == {ch.source : ch \in ToSet(First(receipts, room))}
      reset == {ch.source : ch \in {c \in ToSet(changes) : c.verb \in {"add", "delete"}}}
  IN /\ kqueues' = [kqueues EXCEPT ![q] =
                      IF receipts = <<>> THEN Cleared(regs, emitted) ELSE regs]
     /\ last' = [queue |-> q, reset |-> reset, receipts |-> receipts # <<>>,
                 events |-> IF receipts = <<>> THEN emitted ELSE acked]

-------------------------------------------------------------------------------
Kqueue ==
  /\ Len(kqueues) < MaxQueues
  /\ kqueues' = Append(kqueues, <<>>)
  /\ last' = NoCall

\* F_DUPFD of a kqueue: a new one with a copy of the registrations.
DupKqueue(q) ==
  /\ Len(kqueues) < MaxQueues
  /\ kqueues' = Append(kqueues, kqueues[q])
  /\ last' = NoCall

\* A poll asks for events and changes nothing.
Poll(q, room) == Kevent(onCpu, q, <<>>, room) /\ UNCHANGED fdvars

KNext ==
  \/ FNext /\ UNCHANGED kqueues /\ last' = NoCall
  \/ Kqueue /\ UNCHANGED fdvars
  \/ \E q \in DOMAIN kqueues :
       \/ DupKqueue(q) /\ UNCHANGED fdvars
       \/ \E changes \in Changelists, room \in Rooms :
            Kevent(onCpu, q, changes, room) /\ UNCHANGED fdvars

KSpec == KInit /\ [][KNext]_kvars

-------------------------------------------------------------------------------
(***************************************************************************)
(* Properties.                                                             *)
(***************************************************************************)

KTypeOK ==
  /\ FTypeOK
  /\ kqueues \in Seq(Seq(Registration)) /\ Len(kqueues) <= MaxQueues
  /\ last \in [queue : 0..MaxQueues, reset : SUBSET Sources,
               events : SUBSET Sources, receipts : BOOLEAN]

\* No wake-up of an event loop is lost: a trigger that was posted is withdrawn only
\* by a kevent of that kqueue that reports it as an event, or that adds or deletes
\* the registration.  Receipts, too small an event list, none at all, a disabled
\* registration and the traffic of other sources and kqueues postpone it.
Pending(q, src) == \E r \in ToSet(kqueues[q]) : r.source = src /\ r.triggered
TriggersKept ==
  \A q \in DOMAIN kqueues, src \in Sources :
    (Pending(q, src) /\ ~Pending(q, src)') =>
      /\ last'.queue = q
      /\ src \in last'.reset \/ (src \in last'.events /\ ~last'.receipts)
NoTriggerLost == [][TriggersKept]_kvars

\* An enabled registration whose source stays ready is reported, if the guest goes
\* on polling with room for every source (with less room the registrations that
\* were added first starve the others, and with EV_RECEIPT on every call all).
LargestRoom == CHOOSE n \in Rooms : \A m \in Rooms : m <= n
Polling == KSpec /\ \A q \in 1..MaxQueues :
  WF_kvars(q \in DOMAIN kqueues /\ Poll(q, LargestRoom))
ReadyIn(q, src) ==
  q \in DOMAIN kqueues /\ \E r \in ToSet(kqueues[q]) : r.source = src /\ IsReady(onCpu, r)
Reported(q, src) == last.queue = q /\ src \in last.events /\ ~last.receipts
ReadyIsReported ==
  \A q \in 1..MaxQueues, src \in Sources :
    ReadyIn(q, src) ~> (Reported(q, src) \/ ~ReadyIn(q, src))
===============================================================================
