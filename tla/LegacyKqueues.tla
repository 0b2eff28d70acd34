----------------------------- MODULE LegacyKqueues -----------------------------
(***************************************************************************)
(* Pipes and kqueues of the import dispatcher.  Its read, write and close  *)
(* are raw system calls that only post signals on a bus; kevent takes the  *)
(* signals from the bus, whichever kqueue it is called on, and keeps a     *)
(* queue of events in each kqueue next to the registrations.               *)
(*                                                                         *)
(* Every call moves one byte.  Abstracted: udata, fflags, data beyond the  *)
(* end-of-file flag, and the numbers of descriptors, which are not reused. *)
(***************************************************************************)
EXTENDS Naturals, Sequences, SequencesExt

CONSTANTS MaxPipes, MaxQueues,  \* bounds on pipe and kqueue
          MaxBytes,             \* bound on the bytes of a pipe
          MaxSignals,           \* bound on the signals on the bus
          Rooms                 \* values of nevents, 0 also for no event list

ASSUME LegacyKqueueAssumption ==
  MaxPipes \in Nat /\ MaxQueues \in Nat /\ MaxBytes \in Nat /\ MaxSignals \in Nat /\ Rooms \subseteq Nat

VARIABLES pipes,        \* synthetic pipes
          kqueues,      \* kqueues: registrations and pending events
          bus,          \* SyntheticSignalBus
          drainers      \* history: the kqueues that took signals from the bus

qvars == <<pipes, kqueues, bus, drainers>>

End(p, end) == [pipe |-> p, end |-> end]
Key(fd, filter) == [fd |-> fd, filter |-> filter]
ReadKey(p) == Key(End(p, "read"), "read")
WriteKey(p) == Key(End(p, "write"), "write")
Event(key, eof) == [key |-> key, eof |-> eof]
\* The flags of a registration that the guests use.
Flags(enabled, clear, oneshot) == [enabled |-> enabled, clear |-> clear, oneshot |-> oneshot]
Level == Flags(TRUE, FALSE, FALSE)
Registrations == {Level, Flags(FALSE, FALSE, FALSE), Flags(TRUE, TRUE, FALSE), Flags(TRUE, FALSE, TRUE)}

QInit == pipes = <<>> /\ kqueues = <<>> /\ bus = <<>> /\ drainers = {}

\* pipe and kqueue
Pipe == /\ Len(pipes) < MaxPipes
        /\ pipes' = Append(pipes, [bytes |-> 0, readClosed |-> FALSE, writeClosed |-> FALSE])
        /\ UNCHANGED <<kqueues, bus, drainers>>
Kqueue == /\ Len(kqueues) < MaxQueues
          /\ kqueues' = Append(kqueues, [regs |-> <<>>, events |-> <<>>])
          /\ UNCHANGED <<pipes, bus, drainers>>

\* The system calls: a read of a pipe is posted even if nothing can be read.
Notify(call, fd) ==
  /\ Len(bus) < MaxSignals
  /\ call = "write" =>
       pipes[fd.pipe].bytes + Len(SelectSeq(bus, LAMBDA s : s.call = "write")) < MaxBytes
  /\ bus' = Append(bus, [call |-> call, fd |-> fd])
  /\ UNCHANGED <<pipes, kqueues, drainers>>

-------------------------------------------------------------------------------
\* queue_kevent_event: one event for each registration.
Queued(events, event) ==
  IF \E i \in DOMAIN events : events[i].key = event.key THEN events ELSE Append(events, event)
\* An event for a registration, if there is one.
Raised(kq, key, eof) ==
  IF key \in DOMAIN kq.regs THEN [kq EXCEPT !.events = Queued(@, Event(key, eof))] ELSE kq

\* registration_ready_event
Readable(pipe) == pipe.bytes > 0 \/ pipe.writeClosed
IsReady(ps, key, reg) ==
  /\ reg.enabled /\ key.fd.pipe \in DOMAIN ps /\ key.filter = key.fd.end
  /\ key.filter = "read" => Readable(ps[key.fd.pipe])
ReadyEvent(ps, key) ==
  Event(key, IF key.filter = "read" THEN ps[key.fd.pipe].bytes = 0 ELSE ps[key.fd.pipe].readClosed)

\* The events but for those of some keys.
Without(events, keys) ==
  LET left[n \in 0..Len(events)] ==
        IF n = 0 THEN <<>>
        ELSE IF events[n].key \in keys THEN left[n - 1] ELSE Append(left[n - 1], events[n])
  IN left[Len(events)]

\* apply_kevent_changes: a change replaces the registration and all its flags.
Changed(kq, change) ==
  IF change.verb = "delete"
  THEN [regs |-> [k \in DOMAIN kq.regs \ {change.key} |-> kq.regs[k]],
        events |-> Without(kq.events, {change.key})]
  ELSE [regs |-> [k \in DOMAIN kq.regs \cup {change.key} |->
                    IF k = change.key THEN change.flags ELSE kq.regs[k]],
        events |-> IF IsReady(pipes, change.key, change.flags)
                   THEN Queued(kq.events, ReadyEvent(pipes, change.key)) ELSE kq.events]
ChangedAll(kq, changes) ==
  LET after[n \in 0..Len(changes)] ==
        IF n = 0 THEN kq ELSE Changed(after[n - 1], changes[n])
  IN after[Len(changes)]

-------------------------------------------------------------------------------
(***************************************************************************)
(* apply_signal_to_kqueue, on the pipes and the kqueue that drains.        *)
(***************************************************************************)
OnWrite(s, fd) ==
  LET p == fd.pipe
      moved == IF fd.end = "write" /\ ~s.pipes[p].writeClosed
               THEN [pipes |-> [s.pipes EXCEPT ![p].bytes = @ + 1],
                     kq |-> Raised(s.kq, ReadKey(p), FALSE)]
               ELSE s
  IN [moved EXCEPT !.kq = Raised(@, Key(fd, "write"), FALSE)]
OnRead(s, fd) ==
  IF fd.end # "read" THEN s
  ELSE LET p == fd.pipe
           left == IF s.pipes[p].bytes = 0 THEN 0 ELSE s.pipes[p].bytes - 1
           room == Raised(s.kq, WriteKey(p), FALSE)
       IN [pipes |-> [s.pipes EXCEPT ![p].bytes = left],
           kq |-> IF left > 0 THEN Raised(room, ReadKey(p), FALSE)
                  ELSE IF s.pipes[p].writeClosed THEN Raised(room, ReadKey(p), TRUE) ELSE room]
\* Mutant: end of file is told when the writer goes, whatever is left to read.
OnCloseEof(s, fd) ==
  LET p == fd.pipe
  IN IF fd.end = "write"
     THEN [pipes |-> [s.pipes EXCEPT ![p].writeClosed = TRUE], kq |-> Raised(s.kq, ReadKey(p), TRUE)]
     ELSE [pipes |-> [s.pipes EXCEPT ![p].readClosed = TRUE], kq |-> Raised(s.kq, WriteKey(p), TRUE)]
OnClose(s, fd) ==
  LET p == fd.pipe
  IN IF fd.end = "write"
     THEN [pipes |-> [s.pipes EXCEPT ![p].writeClosed = TRUE],
           kq |-> Raised(s.kq, ReadKey(p), s.pipes[p].bytes = 0)]
     ELSE [pipes |-> [s.pipes EXCEPT ![p].readClosed = TRUE], kq |-> Raised(s.kq, WriteKey(p), TRUE)]
Drained(s, signal) ==
  CASE signal.call = "write" -> OnWrite(s, signal.fd)
    [] signal.call = "read"  -> OnRead(s, signal.fd)
    [] signal.call = "close" -> OnClose(s, signal.fd)
\* take_signals: the bus is emptied, the oldest signal first.
DrainedAll(s, signals) ==
  LET after[n \in 0..Len(signals)] ==
        IF n = 0 THEN s ELSE Drained(after[n - 1], signals[n])
  IN after[Len(signals)]

-------------------------------------------------------------------------------
(***************************************************************************)
(* kevent, and the events it hands out.                                    *)
(***************************************************************************)
\* One event is popped: out, put off for want of room, or dropped.
\* Mutant: an event that was handed out is never kept.
PoppedAlways(s, event, room) ==
  IF s.out = room THEN [s EXCEPT !.kept = Append(@, event)]
  ELSE IF event.key \notin DOMAIN s.regs \/ ~s.regs[event.key].enabled THEN s
  ELSE [s EXCEPT !.out = @ + 1, !.once = IF s.regs[event.key].oneshot THEN @ \cup {event.key} ELSE @]
Popped(s, event, room) ==
  IF s.out = room THEN [s EXCEPT !.kept = Append(@, event)]
  ELSE IF event.key \notin DOMAIN s.regs \/ ~s.regs[event.key].enabled THEN s
  ELSE LET reg == s.regs[event.key]
       IN [s EXCEPT !.out = @ + 1,
                    !.once = IF reg.oneshot THEN @ \cup {event.key} ELSE @,
                    !.kept = IF reg.oneshot \/ reg.clear THEN @ ELSE Append(@, event)]
\* The kqueue after these events were handed out.
Emitted(kq, events, room) ==
  LET after[n \in 0..Len(events)] ==
        IF n = 0 THEN [regs |-> kq.regs, out |-> 0, once |-> {}, kept |-> <<>>]
        ELSE Popped(after[n - 1], events[n], room)
      s == after[Len(events)]
  IN [regs |-> [k \in DOMAIN kq.regs \ s.once |-> kq.regs[k]],
      events |-> Without(s.kept, s.once)]

\* An empty queue is filled with what is ready, in any order (seed_kqueue_readiness).
Seeds(ps, kq) ==
  IF kq.events # <<>> THEN {kq.events}
  ELSE {[i \in DOMAIN keys |-> ReadyEvent(ps, keys[i])] :
          keys \in SetToSeqs({k \in DOMAIN kq.regs : IsReady(ps, k, kq.regs[k])})}

Kevent(q, changes, room) ==
  LET after == DrainedAll([pipes |-> pipes, kq |-> ChangedAll(kqueues[q], changes)], bus)
  IN /\ pipes' = after.pipes /\ bus' = <<>>
     /\ drainers' = IF bus = <<>> THEN drainers ELSE drainers \cup {q}
     /\ IF room = 0 THEN kqueues' = [kqueues EXCEPT ![q] = after.kq]
        ELSE \E events \in Seeds(after.pipes, after.kq) :
               kqueues' = [kqueues EXCEPT ![q] = Emitted(after.kq, events, room)]

\* A guest registers the ends it was given.
EndKeys == {ReadKey(p) : p \in DOMAIN pipes} \cup {WriteKey(p) : p \in DOMAIN pipes}
Changes == {[verb |-> "delete", key |-> k, flags |-> Level] : k \in EndKeys}
           \cup [verb : {"add"}, key : EndKeys, flags : Registrations]
QNext ==
  \/ Pipe \/ Kqueue
  \/ \E call \in {"read", "write", "close"}, k \in EndKeys : Notify(call, k.fd)
  \/ \E q \in DOMAIN kqueues, room \in Rooms :
       Kevent(q, <<>>, room) \/ \E c \in Changes : Kevent(q, <<c>>, room)
QSpec == QInit /\ [][QNext]_qvars

-------------------------------------------------------------------------------
\* A kqueue that alone drains the bus misses nothing: while a level-triggered end of
\* a pipe is ready, its event waits in the queue, whatever was registered, disabled,
\* enabled, deleted, read and reported in between.
NothingMissed ==
  \A q \in DOMAIN kqueues : drainers \subseteq {q} =>
    \A k \in DOMAIN kqueues[q].regs :
      LET reg == kqueues[q].regs[k]
      IN (~reg.clear /\ ~reg.oneshot /\ IsReady(pipes, k, reg)) =>
           \E i \in DOMAIN kqueues[q].events : kqueues[q].events[i].key = k

\* End of file is told only of a pipe that is empty and that nobody can write, also by
\* an event that waited while the pipe was read, written and closed.
EofTold ==
  \A q \in DOMAIN kqueues : \A i \in DOMAIN kqueues[q].events :
    LET e == kqueues[q].events[i]
        pipe == pipes[e.key.fd.pipe]
    IN e.eof => IF e.key.filter = "read" THEN pipe.writeClosed /\ pipe.bytes = 0 ELSE pipe.readClosed

\* What a kqueue owes to a guest that waits on it, by both of the above.
EventsTold == NothingMissed /\ EofTold
===============================================================================
