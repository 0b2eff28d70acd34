-------------------------------- MODULE TraceBus --------------------------------
(***************************************************************************)
(* The shared trace bus.  The emulator's thread sends events to a worker   *)
(* of its own per bus (the batch has one, and the runner of each target),  *)
(* and both write to one standard output.  A counter of events that were   *)
(* sent and not yet dealt with lets the sender wait, for a while, before   *)
(* it goes on or the process exits and takes the workers with it.          *)
(*                                                                         *)
(* An event is its number on its bus and its class: what plugins claim and *)
(* what the compact profile does with it.  "plain" is printed, "noise"     *)
(* suppressed, "hot" collected into bursts by signature, and of the        *)
(* touches of a "page" only the first is printed, whichever plugin claimed *)
(* it.  Rendering is left out.                                             *)
(* The counter is sequentially consistent: its only reader is the thread   *)
(* that adds.                                                              *)
(***************************************************************************)
EXTENDS Naturals, Sequences, FiniteSets, SequencesExt

CONSTANTS Buses,
          Classes,      \* of the events the emulator sends
          Plugins,      \* the registered plugins, each the classes it claims
          MaxEvents     \* bound on the events that are sent

ASSUME TraceAssumption ==
  /\ Classes \subseteq {"plain", "noise", "hot", "page"}
  /\ Plugins \in Seq(SUBSET Classes) /\ MaxEvents \in Nat

VARIABLES main,     \* the emulator's thread: what it does, on which bus
          chan,     \* mpsc channel of each bus
          undelivered,  \* SharedTraceBus::pending
          worker,   \* the thread of a bus: the copies it still has to print
          tracer,   \* its Tracer: pending_burst, seen_compact_lazy_pages
          out,      \* the lines on standard output
          sent, flushed, hot    \* histories: events, how many of them a flush
                                \* waited for, copies that joined a burst
tracevars == <<main, chan, undelivered, worker, tracer, out, sent, flushed, hot>>

Idle == [at |-> "runs"]
Ready == [alive |-> TRUE, busy |-> FALSE, todo |-> <<>>]

TraceInit ==
  /\ main = Idle /\ out = <<>>
  /\ chan = [b \in Buses |-> <<>>] /\ sent = chan
  /\ undelivered = [b \in Buses |-> 0] /\ flushed = undelivered /\ hot = undelivered
  /\ worker = [b \in Buses |-> Ready]
  /\ tracer = [b \in Buses |-> [bursts |-> <<>>, seen |-> {}]]

-------------------------------------------------------------------------------
(***************************************************************************)
(* Plugins and the tracer.                                                 *)
(***************************************************************************)

\* PluginRegistry::dispatch: a copy per plugin that claims the event.
Copies(e) ==
  LET upTo[i \in 0..Len(Plugins)] ==
        IF i = 0 THEN <<>>
        ELSE IF e.class \in Plugins[i]
             THEN Append(upTo[i - 1], [id |-> e.id, class |-> e.class, plugin |-> i])
             ELSE upTo[i - 1]
  IN upTo[Len(Plugins)]

Signature(c) == <<c.plugin, c.class>>
Line(b, c, repeats) == [bus |-> b, id |-> c.id, of |-> Signature(c), repeats |-> repeats]

\* flush_pending_burst: the first event of each burst, and how often it was repeated.
LinesOf(b, burst) ==
  <<Line(b, burst.copy, 0)>> \o
  (IF burst.count > 1 THEN <<Line(b, burst.copy, burst.count - 1)>> ELSE <<>>)
BurstLines(b, bursts) ==
  LET upTo[i \in 0..Len(bursts)] == IF i = 0 THEN <<>> ELSE upTo[i - 1] \o LinesOf(b, bursts[i])
  IN upTo[Len(bursts)]

\* emit_compact_burst
Collected(bursts, c) ==
  IF \E i \in DOMAIN bursts : Signature(bursts[i].copy) = Signature(c)
  THEN [i \in DOMAIN bursts |->
          IF Signature(bursts[i].copy) = Signature(c)
          THEN [bursts[i] EXCEPT !.count = @ + 1] ELSE bursts[i]]
  ELSE Append(bursts, [copy |-> c, count |-> 1])

\* compact_lazy_page_key: the page and its kind, whichever plugin claimed the event.
PageKey(c) == c.class
\* should_skip_compact_lazy_page
Skipped(t, c) == c.class = "noise" \/ (c.class = "page" /\ PageKey(c) \in t.seen)

-------------------------------------------------------------------------------
(***************************************************************************)
(* The worker of a bus.                                                    *)
(***************************************************************************)

Receive(b) ==
  /\ worker[b].alive /\ ~worker[b].busy /\ chan[b] # <<>>
  /\ worker' = [worker EXCEPT ![b].busy = TRUE, ![b].todo = Copies(Head(chan[b]))]
  /\ chan' = [chan EXCEPT ![b] = Tail(@)]
  /\ UNCHANGED <<main, undelivered, tracer, out, sent, flushed, hot>>

\* Tracer::emit on the next copy: skipped, collected, or printed after what was
\* collected before.
Emit(b) ==
  /\ worker[b].alive /\ worker[b].todo # <<>>
  /\ LET c == Head(worker[b].todo)
         t == tracer[b]
     IN \/ /\ Skipped(t, c) /\ UNCHANGED <<tracer, out, hot>>
        \/ /\ ~Skipped(t, c) /\ c.class = "hot"
           /\ tracer' = [tracer EXCEPT ![b].bursts = Collected(@, c)]
           /\ hot' = [hot EXCEPT ![b] = @ + 1] /\ UNCHANGED out
        \/ /\ ~Skipped(t, c) /\ c.class # "hot"
           /\ out' = out \o BurstLines(b, t.bursts) \o <<Line(b, c, 0)>>
           /\ tracer' = [tracer EXCEPT ![b] =
                [bursts |-> <<>>,
                 seen |-> IF c.class = "page" THEN @.seen \cup {PageKey(c)} ELSE @.seen]]
           /\ UNCHANGED hot
  /\ worker' = [worker EXCEPT ![b].todo = Tail(@)]
  /\ UNCHANGED <<main, chan, undelivered, sent, flushed>>

\* println! panics when nobody reads standard output: the worker is gone with the
\* event in its hands, and with it the receiver and what is in the channel.
Panic(b) ==
  /\ worker[b].alive /\ worker[b].todo # <<>>
  /\ worker' = [worker EXCEPT ![b] = [alive |-> FALSE, busy |-> TRUE, todo |-> <<>>]]
  /\ chan' = [chan EXCEPT ![b] = <<>>]
  /\ UNCHANGED <<main, undelivered, tracer, out, sent, flushed, hot>>

\* mark_delivered, after emit_trace.
\* Mutant: as soon as the event is received.
DoneReceived(b) == worker[b].busy
Done(b) == worker[b].busy /\ worker[b].todo = <<>>
Delivered(b) ==
  /\ worker[b].alive /\ Done(b)
  /\ undelivered' = [undelivered EXCEPT ![b] = @ - 1]
  /\ worker' = [worker EXCEPT ![b].busy = FALSE]
  /\ UNCHANGED <<main, chan, tracer, out, sent, flushed, hot>>

-------------------------------------------------------------------------------
(***************************************************************************)
(* The emulator's thread.                                                  *)
(***************************************************************************)

\* The events sent so far, which MaxEvents bounds.
SentSoFar == FoldLeft(LAMBDA n, b : n + Len(sent[b]), 0, SetToSeq(Buses))

\* send: counted first, then put into the channel, or taken back if the worker is gone.
Count(b, class) ==
  /\ main = Idle /\ SentSoFar < MaxEvents
  /\ main' = [at |-> "sends", bus |-> b, event |-> [id |-> Len(sent[b]) + 1, class |-> class]]
  /\ undelivered' = [undelivered EXCEPT ![b] = @ + 1]
  /\ UNCHANGED <<chan, worker, tracer, out, sent, flushed, hot>>
Send ==
  /\ main.at = "sends" /\ main' = Idle
  /\ sent' = [sent EXCEPT ![main.bus] = Append(@, main.event)]
  /\ IF worker[main.bus].alive
     THEN /\ chan' = [chan EXCEPT ![main.bus] = Append(@, main.event)]
          /\ UNCHANGED undelivered
     ELSE /\ undelivered' = [undelivered EXCEPT ![main.bus] = @ - 1]
          /\ UNCHANGED chan
  /\ UNCHANGED <<worker, tracer, out, flushed, hot>>

\* flush_shared_trace_bus: until the counter is zero or 250 milliseconds are over.
Flush(b) ==
  /\ main = Idle /\ main' = [at |-> "flushes", bus |-> b]
  /\ UNCHANGED <<chan, undelivered, worker, tracer, out, sent, flushed, hot>>
Flushed ==
  /\ main.at = "flushes" /\ undelivered[main.bus] = 0 /\ main' = Idle
  /\ flushed' = [flushed EXCEPT ![main.bus] = Len(sent[main.bus])]
  /\ UNCHANGED <<chan, undelivered, worker, tracer, out, sent, hot>>
GiveUp ==
  /\ main.at = "flushes" /\ main' = Idle
  /\ UNCHANGED <<chan, undelivered, worker, tracer, out, sent, flushed, hot>>

\* The process ends, whatever the workers are about to do.
ProcessExit == /\ main = Idle /\ main' = [at |-> "gone"]
        /\ UNCHANGED <<chan, undelivered, worker, tracer, out, sent, flushed, hot>>

Working(b) == Receive(b) \/ Emit(b) \/ Delivered(b)
TraceNext ==
  \/ \E b \in Buses : main.at # "gone" /\ (Working(b) \/ Panic(b))
  \/ \E b \in Buses, class \in Classes : Count(b, class)
  \/ \E b \in Buses : Flush(b)
  \/ Send \/ Flushed \/ GiveUp \/ ProcessExit
TraceSpec == TraceInit /\ [][TraceNext]_tracevars

-------------------------------------------------------------------------------
\* A flush that did not give up leaves nothing behind: of every event sent before
\* it, each copy the profile shows is on standard output or counted in a burst,
\* whatever the worker was doing and although it may have died in between.  A touch
\* of a page is shown by the line of any touch of it, of whichever plugin.
LineOf(c, l) ==
  IF c.class = "page" THEN l.of[2] = PageKey(c)
  ELSE l.of = Signature(c) /\ (c.class = "plain" => l.id = c.id)
Shown(b, c) ==
  \/ c.class = "noise"
  \/ \E i \in DOMAIN out : out[i].bus = b /\ LineOf(c, out[i])
  \/ \E i \in DOMAIN tracer[b].bursts : Signature(tracer[b].bursts[i].copy) = Signature(c)
FlushDelivers ==
  \A b \in Buses : \A i \in 1..flushed[b] :
    \A c \in ToSet(Copies(sent[b][i])) : Shown(b, c)

\* The sum of f[1] to f[k], and how often a line tells of a hot call of the bus.
Added(f, k) == LET sum[i \in 0..k] == IF i = 0 THEN 0 ELSE sum[i - 1] + f[i] IN sum[k]
Times(b, l) ==
  IF l.bus = b /\ l.of[2] = "hot" THEN IF l.repeats = 0 THEN 1 ELSE l.repeats ELSE 0
Printed(b, lines) == Added([i \in DOMAIN lines |-> Times(b, lines[i])], Len(lines))
Collecting(bursts) == Added([i \in DOMAIN bursts |-> bursts[i].count], Len(bursts))
\* Bursts are counted exactly: what is printed, repeats included, and what is still
\* collected are the copies that came in.
BurstsCounted ==
  \A b \in Buses : hot[b] = Printed(b, out) + Collecting(tracer[b].bursts)

TraceHonest == FlushDelivers /\ BurstsCounted
===============================================================================
