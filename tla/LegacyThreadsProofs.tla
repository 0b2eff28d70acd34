-------------------------- MODULE LegacyThreadsProofs --------------------------
(***************************************************************************)
(* Proof of LegacyConserved: until a resume is deferred, each thread and   *)
(* child process is in one place, whatever the limits, and waitpid takes   *)
(* only what has ended.                                                    *)
(*                                                                         *)
(* The property is not inductive: that the queue holds a context once must *)
(* be known by its entries (QueueOK) and not by its length, fresh numbers  *)
(* must name nobody (NumbersOK), and who goes back into the queue must not *)
(* have ended (the last part of PlacedOK).  After a deferral nothing is    *)
(* claimed, and a deferral is never taken back.                            *)
(*                                                                         *)
(* Behind it, the proofs of KextHonest (the kernel extension services), of *)
(* EventsTold (the pipes and kqueues of the import dispatcher) and of      *)
(* TraceHonest (the trace bus).  The last says for each bus where between  *)
(* sender, channel, worker and output an event is: the counter is the      *)
(* number of those that are on the way, and a worker that died is on the   *)
(* way for ever.                                                           *)
(***************************************************************************)
EXTENDS TraceBus, LegacyThreads, KextServices, LegacyKqueues, ListSteps, FiniteSetTheorems

Owners == [kind : {"main", "thread", "process"}, n : Nat]
Entries == [id : Nat, owner : Owners, pc : Pcs \cup {"entry"}]
OwnersIn(q) == {q[i].owner : i \in DOMAIN q}

\* A queue holds each context once, under its own number.
QueueOK(q) ==
  /\ q \in Seq(Entries)
  /\ \A i, j \in DOMAIN q : q[i].owner = q[j].owner => i = j
  /\ \A i \in DOMAIN q : q[i].id = q[i].owner.n

NumbersOK ==
  /\ nextThread \in Nat \ {1} /\ nextPid \in Nat \ {1}
  /\ processes \in [2..(nextPid - 1) -> {"running", "ended", "reaped"}]

\* Those in `born' are divided between the CPU, the active slot, the queue q and
\* those that have gone.
PlacedOK(born, q) ==
  /\ QueueOK(q)
  /\ born = {running} \cup Parked \cup OwnersIn(q) \cup gone
  /\ running \notin OwnersIn(q) \cup Parked
  /\ Parked \cap OwnersIn(q) = {}
  /\ Parked \cup OwnersIn(q) \subseteq born \ gone
  /\ active = None <=> running = Main
  /\ active # None => active.id = running.n /\ active.parent = Main

Truly == \A pid \in DOMAIN processes :
  processes[pid] # "running" => gone \cap {Owner("process", pid), Owner("thread", pid)} # {}

Settled ==
  /\ NumbersOK /\ PlacedOK(Born, pending) /\ Truly
  /\ stopped \/ running \notin gone
LegacyInv == ~deferred => Settled

-------------------------------------------------------------------------------
\* Queues.

LEMMA QueueFacts ==
  ASSUME NEW q, QueueOK(q)
  PROVE  /\ q \in Seq(Entries) /\ Len(q) \in Nat /\ DOMAIN q = 1..Len(q)
         /\ \A i \in 1..Len(q) : q[i] \in Entries /\ q[i].owner \in OwnersIn(q)
BY ElementOfSeq, LenProperties DEF QueueOK, OwnersIn

LEMMA EmptyQueue == QueueOK(<<>>) /\ OwnersIn(<<>>) = {}
<1>1. <<>> \in Seq(Entries) /\ DOMAIN <<>> = {}
  BY EmptySeq
<1> QED BY <1>1 DEF QueueOK, OwnersIn

LEMMA AppendedQueue ==
  ASSUME NEW q, QueueOK(q), NEW e \in Entries, e.owner \notin OwnersIn(q), e.id = e.owner.n
  PROVE  QueueOK(Append(q, e)) /\ OwnersIn(Append(q, e)) = OwnersIn(q) \cup {e.owner}
<1> DEFINE r == Append(q, e)
           n == Len(q)
<1>1. /\ q \in Seq(Entries) /\ n \in Nat /\ DOMAIN q = 1..n
      /\ \A i \in 1..n : q[i].owner \in OwnersIn(q)
  BY QueueFacts
<1>2. /\ r \in Seq(Entries) /\ Len(r) = n + 1 /\ DOMAIN r = 1..(n + 1)
      /\ \A i \in 1..n : r[i] = q[i]
      /\ r[n + 1] = e
  BY <1>1, AppendProperties, LenProperties
<1> HIDE DEF r
<1>3. \A i \in DOMAIN r : i \in 1..n \/ i = n + 1
  BY <1>1, <1>2
<1>4. \A i, j \in DOMAIN r : r[i].owner = r[j].owner => i = j
  BY <1>1, <1>2, <1>3 DEF QueueOK
<1>5. \A i \in DOMAIN r : r[i].id = r[i].owner.n
  BY <1>1, <1>2, <1>3 DEF QueueOK
<1>6. OwnersIn(r) = OwnersIn(q) \cup {e.owner}
  <2>1. \A i \in 1..n : i \in DOMAIN r
    BY <1>1, <1>2
  <2>2. n + 1 \in DOMAIN r
    BY <1>1, <1>2
  <2> HIDE DEF n
  <2> QED BY <1>1, <1>2, <1>3, <2>1, <2>2 DEF OwnersIn
<1>7. QueueOK(r)
  BY <1>2, <1>4, <1>5 DEF QueueOK
<1> QED BY <1>6, <1>7 DEF r

LEMMA PrependedQueue ==
  ASSUME NEW q, QueueOK(q), NEW e \in Entries, e.owner \notin OwnersIn(q), e.id = e.owner.n
  PROVE  /\ QueueOK(<<e>> \o q) /\ OwnersIn(<<e>> \o q) = OwnersIn(q) \cup {e.owner}
         /\ <<e>> \o q # <<>> /\ Head(<<e>> \o q) = e
<1> DEFINE r == <<e>> \o q
           n == Len(q)
<1>1. /\ q \in Seq(Entries) /\ n \in Nat /\ DOMAIN q = 1..n
      /\ \A i \in 1..n : q[i].owner \in OwnersIn(q)
  BY QueueFacts
<1>2. <<e>> \in Seq(Entries) /\ Len(<<e>>) = 1 /\ <<e>>[1] = e
  OBVIOUS
<1>3. /\ r \in Seq(Entries) /\ Len(r) = n + 1
      /\ \A i \in 1..(1 + n) : r[i] = IF i <= 1 THEN <<e>>[i] ELSE q[i - 1]
  BY <1>1, <1>2, ConcatProperties
<1>4. DOMAIN r = 1..(n + 1)
  BY <1>3, LenProperties
<1>5. r[1] = e /\ \A i \in 1..n : r[i + 1] = q[i]
  BY <1>1, <1>2, <1>3
<1> HIDE DEF r
<1>6. \A i \in DOMAIN r : i = 1 \/ (i - 1 \in 1..n /\ i = (i - 1) + 1)
  BY <1>1, <1>4
<1>7. \A i \in DOMAIN r : i = 1 \/ (i - 1 \in 1..n /\ r[i] = q[i - 1])
  BY <1>5, <1>6
<1>8. \A i, j \in DOMAIN r : r[i].owner = r[j].owner => i = j
  <2> SUFFICES ASSUME NEW i \in DOMAIN r, NEW j \in DOMAIN r, r[i].owner = r[j].owner
               PROVE  i = j
    OBVIOUS
  <2>1. CASE i = 1 \/ j = 1
    BY <1>1, <1>5, <1>7, <2>1
  <2>2. CASE i # 1 /\ j # 1
    <3>1. i - 1 \in 1..n /\ j - 1 \in 1..n /\ r[i] = q[i - 1] /\ r[j] = q[j - 1]
      BY <1>7, <2>2
    <3>2. i - 1 = j - 1
      BY <1>1, <3>1 DEF QueueOK
    <3> QED BY <1>4, <3>1, <3>2
  <2> QED BY <2>1, <2>2
<1>9. \A i \in DOMAIN r : r[i].id = r[i].owner.n
  BY <1>1, <1>5, <1>7 DEF QueueOK
<1>10. OwnersIn(r) = OwnersIn(q) \cup {e.owner}
  <2>1. 1 \in DOMAIN r /\ \A i \in 1..n : i + 1 \in DOMAIN r
    BY <1>1, <1>4
  <2>2. OwnersIn(r) \subseteq OwnersIn(q) \cup {e.owner}
    BY <1>1, <1>5, <1>7 DEF OwnersIn
  <2>3. OwnersIn(q) \cup {e.owner} \subseteq OwnersIn(r)
    BY <1>1, <1>5, <2>1 DEF OwnersIn
  <2> QED BY <2>2, <2>3
<1>11. r # <<>> /\ Head(r) = e
  BY <1>1, <1>3, <1>5, EmptySeq
<1>12. QueueOK(r)
  BY <1>3, <1>8, <1>9 DEF QueueOK
<1> QED BY <1>10, <1>11, <1>12 DEF r

LEMMA ShortenedQueue ==
  ASSUME NEW q, QueueOK(q), q # <<>>
  PROVE  /\ QueueOK(Tail(q)) /\ OwnersIn(Tail(q)) = OwnersIn(q) \ {Head(q).owner}
         /\ Head(q) \in Entries /\ Head(q).owner \in OwnersIn(q)
         /\ Head(q).id = Head(q).owner.n
<1> DEFINE r == Tail(q)
           n == Len(q)
           e == Head(q)
<1>1. /\ q \in Seq(Entries) /\ n \in Nat /\ DOMAIN q = 1..n
      /\ \A i \in 1..n : q[i] \in Entries /\ q[i].owner \in OwnersIn(q)
  BY QueueFacts
<1>2. n # 0
  BY <1>1, EmptySeq
<1>3. e = q[1] /\ 1 \in 1..n
  BY <1>1, <1>2
<1>4. /\ r \in Seq(Entries) /\ Len(r) = n - 1
      /\ \A i \in 1..Len(r) : r[i] = q[i + 1]
  BY <1>1, HeadTailProperties
<1>5. DOMAIN r = 1..(n - 1)
  BY <1>4, LenProperties
<1> HIDE DEF r, e
<1>6. \A i \in DOMAIN r : r[i] = q[i + 1] /\ i + 1 \in 1..n /\ i + 1 # 1 /\ i \in Nat
  BY <1>1, <1>2, <1>4, <1>5
<1>7. \A i, j \in DOMAIN r : r[i].owner = r[j].owner => i = j
  <2> SUFFICES ASSUME NEW i \in DOMAIN r, NEW j \in DOMAIN r, r[i].owner = r[j].owner
               PROVE  i = j
    OBVIOUS
  <2>1. i + 1 = j + 1
    BY <1>1, <1>6 DEF QueueOK
  <2> QED BY <1>6, <2>1
<1>8. \A i \in DOMAIN r : r[i].id = r[i].owner.n
  BY <1>1, <1>6 DEF QueueOK
<1>9. \A i \in 1..n : i # 1 => i - 1 \in DOMAIN r /\ r[i - 1] = q[i]
  BY <1>1, <1>4, <1>5
<1>10. OwnersIn(r) = OwnersIn(q) \ {e.owner}
  <2>1. OwnersIn(r) \subseteq OwnersIn(q)
    BY <1>1, <1>6 DEF OwnersIn
  <2>2. e.owner \notin OwnersIn(r)
    <3> SUFFICES ASSUME NEW i \in DOMAIN r, r[i].owner = e.owner PROVE FALSE
      BY DEF OwnersIn
    <3>1. i + 1 = 1
      BY <1>1, <1>3, <1>6 DEF QueueOK
    <3> QED BY <1>6, <3>1
  <2>3. \A i \in 1..n : q[i].owner # e.owner => q[i].owner \in OwnersIn(r)
    BY <1>3, <1>9 DEF OwnersIn
  <2>4. OwnersIn(q) \ {e.owner} \subseteq OwnersIn(r)
    BY <1>1, <2>3 DEF OwnersIn
  <2> QED BY <2>1, <2>2, <2>4
<1>11. QueueOK(r)
  BY <1>4, <1>7, <1>8 DEF QueueOK
<1>12. e \in Entries /\ e.owner \in OwnersIn(q) /\ e.id = e.owner.n
  BY <1>1, <1>3 DEF QueueOK
<1> QED BY <1>10, <1>11, <1>12 DEF r, e

\* A queue of distinct contexts is as long as they are many.
LEMMA QueueCounts == ASSUME NEW q, QueueOK(q) PROVE Cardinality(OwnersIn(q)) = Len(q)
<1> DEFINE n == Len(q)
           f == [i \in 1..n |-> q[i].owner]
<1>1. n \in Nat /\ DOMAIN q = 1..n
  BY QueueFacts
<1>2. f \in [1..n -> OwnersIn(q)]
  BY QueueFacts
<1>3. f \in Injection(1..n, OwnersIn(q))
  BY <1>1, <1>2 DEF Injection, IsInjective, QueueOK
<1>4. f \in Surjection(1..n, OwnersIn(q))
  BY <1>1, <1>2 DEF Surjection, OwnersIn
<1> HIDE DEF f, n
<1>5. IsFiniteSet(1..n) /\ Cardinality(1..n) = n
  BY <1>1, FS_Interval
<1> QED BY <1>3, <1>4, <1>5, FS_Surjection DEF n

-------------------------------------------------------------------------------
\* Who has been born.

LEMMA BornFacts ==
  ASSUME NumbersOK
  PROVE  /\ Born \subseteq Owners /\ Main \in Born
         /\ \A o \in Born : o.n # 0 /\ (o = Main \/ o = Owner("thread", o.n)
                                                  \/ o = Owner("process", o.n))
<1>1. \A n \in 2..(nextThread - 1) : n \in Nat /\ n # 0
  OBVIOUS
<1>2. \A n \in DOMAIN processes : n \in Nat /\ n # 0
  BY DEF NumbersOK
<1> QED BY <1>1, <1>2 DEF Born, Owners, Owner, Main

LEMMA BornSame ==
  ASSUME UNCHANGED nextThread, DOMAIN processes' = DOMAIN processes PROVE Born' = Born
BY DEF Born

\* The next numbers name nobody yet.
LEMMA BornThread ==
  ASSUME NumbersOK, NEW id \in Nat, id = IF nextThread = 0 THEN 2 ELSE nextThread,
         nextThread' = id + 1, UNCHANGED processes
  PROVE  Born' = Born \cup {Owner("thread", id)} /\ Owner("thread", id) \notin Born
<1>1. 2..(nextThread' - 1) = 2..(nextThread - 1) \cup {id} /\ id \notin 2..(nextThread - 1)
  BY DEF NumbersOK
<1>2. Owner("thread", id) \notin Born
  BY <1>1 DEF Born, Owner, Main
<1>3. Born' = Born \cup {Owner("thread", id)}
  BY <1>1 DEF Born
<1> QED BY <1>2, <1>3

LEMMA BornProcess ==
  ASSUME NumbersOK, NEW pid \in Nat, pid = IF nextPid = 0 THEN 2 ELSE nextPid,
         nextPid' = pid + 1, UNCHANGED nextThread,
         processes' = [p \in DOMAIN processes \cup {pid} |->
                         IF p = pid THEN "running" ELSE processes[p]]
  PROVE  /\ Born' = Born \cup {Owner("process", pid)} /\ Owner("process", pid) \notin Born
         /\ NumbersOK'
<1>1. 2..(nextPid' - 1) = 2..(nextPid - 1) \cup {pid} /\ pid \notin 2..(nextPid - 1)
  BY DEF NumbersOK
<1>2. DOMAIN processes = 2..(nextPid - 1) /\ DOMAIN processes' = DOMAIN processes \cup {pid}
  BY DEF NumbersOK
<1>3. Owner("process", pid) \notin Born
  BY <1>1, <1>2 DEF Born, Owner, Main
<1>4. Born' = Born \cup {Owner("process", pid)}
  BY <1>2 DEF Born
<1>5. processes' \in [2..(nextPid' - 1) -> {"running", "ended", "reaped"}]
  BY <1>1, <1>2 DEF NumbersOK
<1>6. nextPid' \in Nat \ {1} /\ nextThread' \in Nat \ {1}
  BY DEF NumbersOK
<1> QED BY <1>3, <1>4, <1>5, <1>6 DEF NumbersOK

-------------------------------------------------------------------------------
\* Moves between the places.

\* One more is born, into the queue.
LEMMA NewcomerPlaced ==
  ASSUME NEW born, NEW q, PlacedOK(born, q), NEW o, o \notin born,
         NEW r, QueueOK(r), OwnersIn(r) = OwnersIn(q) \cup {o}
  PROVE  PlacedOK(born \cup {o}, r)
<1>1. o # running /\ o \notin Parked /\ o \notin gone
  BY DEF PlacedOK
<1> QED BY <1>1 DEF PlacedOK

\* A dispatch that is not a deferral puts the head on the CPU and parks main.
LEMMA DispatchPlaced ==
  ASSUME NEW born, NEW q, PlacedOK(born, q), \A o \in born : o.n # 0,
         running \notin gone, Dispatch(q), UNCHANGED gone, ~deferred, ~deferred'
  PROVE  PlacedOK(born, pending)' /\ running' \notin gone'
<1>1. CASE ~Dispatches(q)
  <2>1. pending' = q /\ UNCHANGED <<active, running, gone>>
    BY <1>1 DEF Dispatch
  <2> QED BY <2>1 DEF PlacedOK, Parked
<1>2. CASE Dispatches(q)
  <2> DEFINE head == Head(q)
  <2>1. active = None /\ q # <<>>
    BY <1>2 DEF Dispatches
  <2>2. /\ active' = [id |-> head.id, parentId |-> Most(current, 1), parent |-> running]
        /\ running' = head.owner /\ pending' = Tail(q)
    BY <1>2 DEF Dispatch
  <2>3. /\ QueueOK(Tail(q)) /\ OwnersIn(Tail(q)) = OwnersIn(q) \ {head.owner}
        /\ head.owner \in OwnersIn(q) /\ head.id = head.owner.n
    BY <2>1, ShortenedQueue DEF PlacedOK
  <2> HIDE DEF head
  <2>4. running = Main /\ Parked = {} /\ head.owner \in born \ gone
        /\ head.owner # Main /\ Main \notin OwnersIn(q) /\ Main \notin gone
    BY <2>1, <2>3 DEF PlacedOK, Parked
  <2>5. active'.id # 0 /\ active'.id = running'.n /\ active'.parent = Main
    BY <2>2, <2>3, <2>4
  <2>6. active' # None
    BY <2>5 DEF None
  <2>7. Parked' = {Main}
    BY <2>5, <2>6 DEF Parked
  <2>8. born = {running} \cup OwnersIn(q) \cup gone
    BY <2>4 DEF PlacedOK
  <2>9. OwnersIn(pending)' = OwnersIn(q) \ {head.owner} /\ QueueOK(pending)'
    <3> DEFINE r == Tail(q)
    <3>1. pending' = r /\ QueueOK(r) /\ OwnersIn(r) = OwnersIn(q) \ {head.owner}
      BY <2>2, <2>3
    <3> HIDE DEF r
    <3>2. OwnersIn(pending)' = OwnersIn(r)
      BY <3>1 DEF OwnersIn
    <3>3. QueueOK(pending)'
      BY <3>1 DEF QueueOK
    <3> QED BY <3>1, <3>2, <3>3
  <2>10. OwnersIn(q) \subseteq born \ gone
    BY DEF PlacedOK
  <2>11. born = {running'} \cup Parked' \cup OwnersIn(pending)' \cup gone'
    BY <2>2, <2>3, <2>4, <2>7, <2>8, <2>9
  <2>12. /\ running' \notin OwnersIn(pending)' \cup Parked'
         /\ Parked' \cap OwnersIn(pending)' = {}
         /\ Parked' \cup OwnersIn(pending)' \subseteq born \ gone'
         /\ running' \notin gone' /\ running' # Main
    BY <2>2, <2>3, <2>4, <2>7, <2>8, <2>9, <2>10
  <2> QED BY <2>5, <2>6, <2>9, <2>11, <2>12 DEF PlacedOK
<1> QED BY <1>1, <1>2

\* The child on the CPU ends, or is dropped: main goes on.
LEMMA ChildGonePlaced ==
  ASSUME NEW born, PlacedOK(born, pending), active # None, BackToParent,
         gone' = gone \cup {running}, UNCHANGED pending
  PROVE  PlacedOK(born, pending)' /\ running' \notin gone'
<1>1. /\ active' = None /\ running' = Main /\ running # Main /\ Parked = {Main}
      /\ Parked' = {}
  BY DEF PlacedOK, BackToParent, Parked
<1>2. OwnersIn(pending)' = OwnersIn(pending) /\ QueueOK(pending)'
  BY DEF PlacedOK, OwnersIn, QueueOK
<1>3. /\ born = {running, Main} \cup OwnersIn(pending) \cup gone
      /\ running \notin OwnersIn(pending) /\ Main \notin OwnersIn(pending)
      /\ OwnersIn(pending) \subseteq born \ gone /\ Main \notin gone
  BY <1>1 DEF PlacedOK
<1>4. born = {running'} \cup Parked' \cup OwnersIn(pending)' \cup gone'
  BY <1>1, <1>2, <1>3
<1>5. /\ running' \notin OwnersIn(pending)' \cup Parked'
      /\ Parked' \cap OwnersIn(pending)' = {}
      /\ Parked' \cup OwnersIn(pending)' \subseteq born \ gone'
      /\ running' \notin gone'
  BY <1>1, <1>2, <1>3
<1> QED BY <1>1, <1>2, <1>4, <1>5 DEF PlacedOK

\* The child on the CPU goes back into the queue.
LEMMA SleeperPlaced ==
  ASSUME NEW born, PlacedOK(born, pending), born \subseteq Owners, active # None,
         NEW pc \in Pcs, running \notin gone, UNCHANGED gone,
         pending' = Append(pending, Pending(active.id, running, pc)), BackToParent
  PROVE  PlacedOK(born, pending)' /\ running' \notin gone'
<1> DEFINE e == Pending(active.id, running, pc)
<1>1. /\ active' = None /\ running' = Main /\ running # Main /\ Parked = {Main}
      /\ Parked' = {} /\ active.id = running.n
  BY DEF PlacedOK, BackToParent, Parked
<1>2. e \in Entries /\ e.owner = running /\ e.id = e.owner.n
  <2>1. running \in Owners
    BY DEF PlacedOK
  <2>2. running.n \in Nat
    BY <2>1 DEF Owners
  <2> QED BY <1>1, <2>1, <2>2 DEF Entries, Pending
<1> HIDE DEF e
<1>3. QueueOK(Append(pending, e)) /\ OwnersIn(Append(pending, e)) = OwnersIn(pending) \cup {running}
  BY <1>2, AppendedQueue DEF PlacedOK
<1>4. QueueOK(pending)' /\ OwnersIn(pending)' = OwnersIn(pending) \cup {running}
  BY <1>3 DEF e, QueueOK, OwnersIn
<1>5. /\ born = {running, Main} \cup OwnersIn(pending) \cup gone
      /\ running \notin OwnersIn(pending) /\ Main \notin OwnersIn(pending)
      /\ OwnersIn(pending) \subseteq born \ gone /\ Main \notin gone
  BY <1>1 DEF PlacedOK
<1>6. born = {running'} \cup Parked' \cup OwnersIn(pending)' \cup gone'
  BY <1>1, <1>4, <1>5
<1>7. /\ running' \notin OwnersIn(pending)' \cup Parked'
      /\ Parked' \cap OwnersIn(pending)' = {}
      /\ Parked' \cup OwnersIn(pending)' \subseteq born \ gone'
      /\ running' \notin gone'
  BY <1>1, <1>4, <1>5
<1> QED BY <1>1, <1>4, <1>6, <1>7 DEF PlacedOK

-------------------------------------------------------------------------------
\* The inductive step, one lemma per action.

LEMMA InitSettled == LInit => Settled
<1> SUFFICES ASSUME LInit PROVE Settled
  OBVIOUS
<1>1. NumbersOK
  BY DEF LInit, NumbersOK
<1>2. DOMAIN processes = {} /\ 2..(nextThread - 1) = {}
  BY DEF LInit
<1>3. Born = {Main} /\ Parked = {}
  BY <1>2 DEF LInit, Born, Parked
<1>4. QueueOK(pending) /\ OwnersIn(pending) = {}
  BY EmptyQueue DEF LInit
<1>5. PlacedOK(Born, pending)
  BY <1>3, <1>4 DEF LInit, PlacedOK
<1>6. Truly
  BY <1>2 DEF Truly
<1> QED BY <1>1, <1>5, <1>6 DEF LInit, Settled

\* A new thread goes to the end of the queue.
LEMMA CreateStep == ASSUME Settled, ~stopped, PthreadCreate PROVE Settled'
<1> DEFINE id == IF nextThread = 0 THEN 2 ELSE nextThread
           o == Owner("thread", id)
           e == Pending(id, o, "entry")
<1>1. id \in Nat /\ nextThread' = id + 1 /\ pending' = Append(pending, e)
      /\ UNCHANGED <<nextPid, active, processes, running, stopped, gone>>
  BY DEF Settled, NumbersOK, PthreadCreate
<1>2. Born' = Born \cup {o} /\ o \notin Born
  <2> HIDE DEF o, e
  <2>1. Born' = Born \cup {Owner("thread", id)} /\ Owner("thread", id) \notin Born
    BY <1>1, BornThread DEF Settled
  <2> QED BY <2>1 DEF o
<1>3. e \in Entries /\ e.owner = o /\ e.id = e.owner.n
  BY <1>1 DEF Entries, Owners, Pending, Owner
<1>4. NumbersOK'
  BY <1>1 DEF Settled, NumbersOK
<1> HIDE DEF o, e
<1>5. QueueOK(Append(pending, e)) /\ OwnersIn(Append(pending, e)) = OwnersIn(pending) \cup {o}
  <2>1. QueueOK(pending) /\ o \notin OwnersIn(pending)
    BY <1>2 DEF Settled, PlacedOK
  <2> QED BY <1>3, <2>1, AppendedQueue
<1>6. PlacedOK(Born \cup {o}, Append(pending, e))
  BY <1>2, <1>5, NewcomerPlaced DEF Settled
<1>7. PlacedOK(Born, pending)'
  <2> DEFINE r == Append(pending, e)
  <2>1. pending' = r /\ PlacedOK(Born \cup {o}, r)
    BY <1>1, <1>6
  <2> HIDE DEF r
  <2>2. PlacedOK(Born', pending')
    BY <1>2, <2>1
  <2> QED BY <1>1, <2>2 DEF PlacedOK, Parked
<1>8. Truly' /\ running' \notin gone'
  BY <1>1 DEF Settled, Truly
<1> QED BY <1>4, <1>7, <1>8 DEF Settled

LEMMA SelfStep == ASSUME Settled, ~stopped, PthreadSelf PROVE Settled'
<1>1. UNCHANGED <<nextPid, pending, active, processes, running, stopped, gone>>
  BY DEF PthreadSelf
<1>2. NumbersOK'
  BY <1>1 DEF Settled, NumbersOK, PthreadSelf
<1>3. 2..(nextThread' - 1) = 2..(nextThread - 1)
  BY DEF PthreadSelf, Settled, NumbersOK
<1>4. Born' = Born
  BY <1>1, <1>3 DEF Born
<1>5. PlacedOK(Born, pending)'
  BY <1>1, <1>4 DEF Settled, PlacedOK, Parked, OwnersIn, QueueOK
<1>6. Truly' /\ running' \notin gone'
  BY <1>1 DEF Settled, Truly
<1> QED BY <1>2, <1>5, <1>6 DEF Settled

\* Steps that create nobody and end no process.
LEMMA KeptNumbers ==
  ASSUME Settled, UNCHANGED <<nextThread, nextPid, processes>>, gone \subseteq gone'
  PROVE  NumbersOK' /\ Born' = Born /\ Truly'
<1>1. NumbersOK' /\ Born' = Born
  BY DEF Settled, NumbersOK, Born
<1>2. Truly'
  BY DEF Settled, Truly
<1> QED BY <1>1, <1>2

\* PlacedOK of the next state, from that of the parts of it.
LEMMA PlacedNext ==
  ASSUME NEW born, Born' = born, PlacedOK(born, pending)' PROVE PlacedOK(Born, pending)'
BY DEF PlacedOK

LEMMA CondWaitStep ==
  ASSUME Settled, ~stopped, ~deferred, ~deferred', CondWait PROVE Settled'
<1>1. Dispatch(pending) /\ UNCHANGED <<nextThread, nextPid, processes, stopped, gone>>
  BY DEF CondWait
<1>2. NumbersOK' /\ Born' = Born /\ Truly'
  BY <1>1, KeptNumbers
<1>3. \A o \in Born : o.n # 0
  BY BornFacts DEF Settled
<1>4. PICK born : born = Born
  OBVIOUS
<1>5. PlacedOK(born, pending) /\ running \notin gone
  BY <1>4 DEF Settled
<1>6. PlacedOK(born, pending)' /\ running' \notin gone'
  BY <1>1, <1>3, <1>4, <1>5, DispatchPlaced
<1>7. PlacedOK(Born, pending)'
  BY <1>2, <1>4, <1>6, PlacedNext
<1> QED BY <1>2, <1>6, <1>7 DEF Settled

LEMMA SignalStep == ASSUME Settled, ~stopped, CondSignal PROVE Settled'
<1>1. /\ active # None /\ BackToParent /\ gone' = gone \cup {running}
      /\ UNCHANGED <<nextThread, nextPid, pending, processes, stopped>>
  BY DEF CondSignal
<1>2. NumbersOK' /\ Born' = Born /\ Truly'
  BY <1>1, KeptNumbers
<1>3. PICK born : born = Born
  OBVIOUS
<1>4. PlacedOK(born, pending)
  BY <1>3 DEF Settled
<1>5. PlacedOK(born, pending)' /\ running' \notin gone'
  BY <1>1, <1>4, ChildGonePlaced
<1>6. PlacedOK(Born, pending)'
  BY <1>2, <1>3, <1>5, PlacedNext
<1> QED BY <1>2, <1>5, <1>6 DEF Settled

LEMMA UsleepStep == ASSUME Settled, ~stopped, NEW pc \in Pcs, Usleep(pc) PROVE Settled'
<1>1. /\ active # None /\ BackToParent
      /\ pending' = Append(pending, Pending(active.id, running, pc))
      /\ UNCHANGED <<nextThread, nextPid, processes, stopped, gone>>
  BY DEF Usleep, Yielded
<1>2. NumbersOK' /\ Born' = Born /\ Truly'
  BY <1>1, KeptNumbers
<1>3. PICK born : born = Born
  OBVIOUS
<1>4. PlacedOK(born, pending) /\ born \subseteq Owners /\ running \notin gone
  BY <1>3, BornFacts DEF Settled
<1>5. PlacedOK(born, pending)' /\ running' \notin gone'
  BY <1>1, <1>4, SleeperPlaced
<1>6. PlacedOK(Born, pending)'
  BY <1>2, <1>3, <1>5, PlacedNext
<1> QED BY <1>2, <1>5, <1>6 DEF Settled

\* A child process goes to the front of the queue, and is dispatched.
LEMMA ForkStep ==
  ASSUME Settled, ~stopped, ~deferred, ~deferred', NEW pc \in Pcs, Fork(pc) PROVE Settled'
<1> DEFINE pid == IF nextPid = 0 THEN 2 ELSE nextPid
           o == Owner("process", pid)
           e == Pending(pid, o, pc)
           q == <<e>> \o pending
<1>1. /\ pid \in Nat /\ nextPid' = pid + 1 /\ Dispatch(q)
      /\ processes' = [p \in DOMAIN processes \cup {pid} |->
                         IF p = pid THEN "running" ELSE processes[p]]
      /\ UNCHANGED <<nextThread, stopped, gone>>
  BY DEF Settled, NumbersOK, Fork
<1>2. Born' = Born \cup {o} /\ o \notin Born /\ NumbersOK'
  <2> HIDE DEF o, e, q
  <2>1. /\ Born' = Born \cup {Owner("process", pid)} /\ Owner("process", pid) \notin Born
        /\ NumbersOK'
    BY <1>1, BornProcess DEF Settled
  <2> QED BY <2>1 DEF o
<1>3. e \in Entries /\ e.owner = o /\ e.id = e.owner.n
  BY <1>1 DEF Entries, Owners, Pending, Owner
<1>4. Truly'
  <2> HIDE DEF o, e, q
  <2>1. pid \notin DOMAIN processes
    BY DEF Settled, NumbersOK
  <2>2. \A p \in DOMAIN processes' : p = pid \/ (p \in DOMAIN processes /\ processes'[p] = processes[p])
    BY <1>1, <2>1
  <2>3. processes'[pid] = "running"
    BY <1>1
  <2> QED BY <1>1, <2>2, <2>3 DEF Settled, Truly
<1> HIDE DEF o, e
<1>5. QueueOK(q) /\ OwnersIn(q) = OwnersIn(pending) \cup {o}
  <2>1. QueueOK(pending) /\ o \notin OwnersIn(pending)
    BY <1>2 DEF Settled, PlacedOK
  <2> QED BY <1>3, <2>1, PrependedQueue
<1> HIDE DEF q, pid
<1>6. PICK born : born = Born \cup {o}
  OBVIOUS
<1>7. PlacedOK(born, q) /\ running \notin gone
  BY <1>2, <1>5, <1>6, NewcomerPlaced DEF Settled
<1>8. \A x \in born : x.n # 0
  <2>1. \A x \in Born : x.n # 0
    BY BornFacts DEF Settled
  <2>2. o.n # 0
    BY DEF o, pid, Owner, Settled, NumbersOK
  <2> QED BY <1>6, <2>1, <2>2
<1>9. PlacedOK(born, pending)' /\ running' \notin gone'
  BY <1>1, <1>7, <1>8, DispatchPlaced
<1>10. PlacedOK(Born, pending)'
  BY <1>2, <1>6, <1>9, PlacedNext
<1> QED BY <1>2, <1>4, <1>9, <1>10 DEF Settled

\* The row that is marked is that of the child on the CPU, or of the thread that has
\* its number.
LEMMA MarkedTruly ==
  ASSUME Settled, active # None, gone' = gone \cup {running}, processes' = Marked
  PROVE  Truly' /\ DOMAIN processes' = DOMAIN processes
         /\ processes' \in [2..(nextPid - 1) -> {"running", "ended", "reaped"}]
<1>1. /\ active.id = running.n /\ running \in Born /\ running # Main
  BY DEF Settled, PlacedOK
<1>2. running = Owner("thread", active.id) \/ running = Owner("process", active.id)
  BY <1>1, BornFacts DEF Settled
<1>3. DOMAIN processes' = DOMAIN processes
      /\ \A p \in DOMAIN processes :
           processes'[p] = IF p = active.id /\ processes[p] = "running" THEN "ended"
                           ELSE processes[p]
  BY DEF Marked
<1>4. Truly'
  <2> SUFFICES ASSUME NEW p \in DOMAIN processes, processes'[p] # "running"
               PROVE  gone' \cap {Owner("process", p), Owner("thread", p)} # {}
    BY <1>3 DEF Truly
  <2>1. CASE p = active.id
    BY <1>2, <2>1
  <2>2. CASE p # active.id
    <3>1. processes[p] # "running"
      BY <1>3, <2>2
    <3> QED BY <3>1 DEF Settled, Truly
  <2> QED BY <2>1, <2>2
<1>5. processes' \in [2..(nextPid - 1) -> {"running", "ended", "reaped"}]
  BY DEF Settled, NumbersOK, Marked
<1> QED BY <1>3, <1>4, <1>5

LEMMA ExitStep == ASSUME Settled, ~stopped, Exit PROVE Settled'
<1>1. /\ gone' = gone \cup {running}
      /\ UNCHANGED <<nextThread, nextPid, pending>>
  BY DEF Exit
<1>2. CASE active # None
  <2>1. BackToParent /\ processes' = Marked /\ UNCHANGED stopped
    BY <1>2 DEF Exit
  <2>2. Truly' /\ DOMAIN processes' = DOMAIN processes
        /\ processes' \in [2..(nextPid - 1) -> {"running", "ended", "reaped"}]
    BY <1>1, <1>2, <2>1, MarkedTruly
  <2>3. NumbersOK' /\ Born' = Born
    BY <1>1, <2>2, BornSame DEF Settled, NumbersOK
  <2>4. PICK born : born = Born
    OBVIOUS
  <2>5. PlacedOK(born, pending)
    BY <2>4 DEF Settled
  <2>6. PlacedOK(born, pending)' /\ running' \notin gone'
    BY <1>1, <1>2, <2>1, <2>5, ChildGonePlaced
  <2>7. PlacedOK(Born, pending)'
    BY <2>3, <2>4, <2>6, PlacedNext
  <2> QED BY <2>2, <2>3, <2>6, <2>7 DEF Settled
<1>3. CASE active = None
  <2>1. stopped' = TRUE /\ UNCHANGED <<active, current, running, processes>>
    BY <1>3 DEF Exit
  <2>2. NumbersOK' /\ Born' = Born /\ Truly'
    BY <1>1, <2>1, KeptNumbers
  <2>3. Parked = {} /\ Parked' = {}
    BY <1>3, <2>1 DEF Parked
  <2>4. OwnersIn(pending)' = OwnersIn(pending) /\ QueueOK(pending)'
    BY <1>1 DEF Settled, PlacedOK, OwnersIn, QueueOK
  <2>5. PlacedOK(Born, pending)'
    BY <1>1, <1>3, <2>1, <2>2, <2>3, <2>4 DEF Settled, PlacedOK
  <2> QED BY <2>1, <2>2, <2>5 DEF Settled
<1> QED BY <1>2, <1>3

LEMMA WaitStep == ASSUME Settled, ~stopped, NEW pid \in Pids, Wait(pid) PROVE Settled'
<1>1. /\ pid \in DOMAIN processes /\ processes[pid] = "ended"
      /\ processes' = [processes EXCEPT ![pid] = "reaped"]
      /\ UNCHANGED <<nextThread, nextPid, pending, active, running, stopped, gone>>
  BY DEF Wait
<1>2. NumbersOK' /\ DOMAIN processes' = DOMAIN processes
  BY <1>1 DEF Settled, NumbersOK
<1>3. Born' = Born
  BY <1>1, <1>2, BornSame
<1>4. PlacedOK(Born, pending)'
  BY <1>1, <1>3 DEF Settled, PlacedOK, Parked, OwnersIn, QueueOK
<1>5. Truly' /\ running' \notin gone'
  BY <1>1, <1>2 DEF Settled, Truly
<1> QED BY <1>2, <1>4, <1>5 DEF Settled

\* A deferral is not taken back.
LEMMA DeferredStays == LNext /\ deferred => deferred'
BY DEF LNext, PthreadCreate, PthreadSelf, CondWait, CondSignal, Exit, HelperReturn,
       Usleep, Fork, Wait, Dispatch

LEMMA NextSettled == LegacyInv /\ LNext => LegacyInv'
<1> SUFFICES ASSUME LegacyInv, LNext, ~deferred' PROVE Settled'
  BY DEF LegacyInv
<1>1. ~deferred /\ Settled /\ ~stopped
  BY DeferredStays DEF LegacyInv, LNext
<1>2. CASE PthreadCreate \/ PthreadSelf
  BY <1>1, <1>2, CreateStep, SelfStep
<1>3. CASE CondWait \/ CondSignal
  BY <1>1, <1>3, CondWaitStep, SignalStep
<1>4. CASE Exit \/ HelperReturn
  BY <1>1, <1>4, ExitStep DEF HelperReturn
<1>5. CASE \E pc \in Pcs : Usleep(pc) \/ Fork(pc)
  BY <1>1, <1>5, UsleepStep, ForkStep
<1>6. CASE \E pid \in Pids : Wait(pid)
  BY <1>1, <1>6, WaitStep
<1> QED BY <1>2, <1>3, <1>4, <1>5, <1>6 DEF LNext

LEMMA StutterSettled == LegacyInv /\ UNCHANGED lvars => LegacyInv'
<1> SUFFICES ASSUME LegacyInv, UNCHANGED lvars, ~deferred' PROVE Settled'
  BY DEF LegacyInv
<1>1. Settled
  BY DEF LegacyInv, lvars
<1>2. Born' = Born
  BY DEF lvars, Born
<1>3. PlacedOK(Born, pending)'
  BY <1>1, <1>2 DEF lvars, Settled, PlacedOK, Parked, OwnersIn, QueueOK
<1>4. NumbersOK' /\ Truly' /\ (stopped' \/ running' \notin gone')
  BY <1>1 DEF lvars, Settled, NumbersOK, Truly
<1> QED BY <1>3, <1>4 DEF Settled

-------------------------------------------------------------------------------
\* The invariant is inductive.
THEOREM LegacyInvariant == LSpec => []LegacyInv
<1>1. LInit => LegacyInv
  BY InitSettled DEF LegacyInv
<1>2. LegacyInv /\ [LNext]_lvars => LegacyInv'
  BY NextSettled, StutterSettled
<1> QED BY <1>1, <1>2, PTL DEF LSpec

\* Until a resume is deferred, nobody is lost or in two places, and waitpid takes
\* only what has ended.
THEOREM LegacyIsConserved == LSpec => []LegacyConserved
<1>1. LegacyInv => LegacyConserved
  <2> SUFFICES ASSUME LegacyInv, ~deferred PROVE OnePlaceUntilDeferred /\ EndedTruly
    BY DEF LegacyConserved, OnePlaceUntilDeferred, EndedTruly
  <2>1. PlacedOK(Born, pending) /\ Truly
    BY DEF LegacyInv, Settled
  <2>2. InQueue = OwnersIn(pending)
    BY DEF InQueue, OwnersIn
  <2>3. Cardinality(InQueue) = Len(pending)
    BY <2>1, <2>2, QueueCounts DEF PlacedOK
  <2>4. OnePlaceUntilDeferred
    BY <2>1, <2>2, <2>3 DEF OnePlaceUntilDeferred, PlacedOK, QueueOK
  <2>5. EndedTruly
    BY <2>1 DEF EndedTruly, Truly
  <2> QED BY <2>4, <2>5
<1> QED BY <1>1, LegacyInvariant, PTL

-------------------------------------------------------------------------------
(***************************************************************************)
(* KextServices.  What the list keeps is stated of a list given as an      *)
(* argument, since a load adds processes one after the other: their        *)
(* addresses grow and lie below the next free one (ApartOK), neighbours    *)
(* know each other (LinkedOK), and as long as no old cells are handed out  *)
(* again a pointer is written for listed processes only, for the last one  *)
(* when a link was left half done (FreshOK).                               *)
(***************************************************************************)
Cells == UNION {[A -> Nat] : A \in SUBSET Nat}
ListedOnes == [pid : Nat, addr : Nat]
KextLists == [current : Nat \ {0}, allproc : BOOLEAN, procs : Seq(ListedOnes), head : Nat,
              next : Cells, prev : Cells]
KextStages == [l : KextLists, writes : Int, ok : BOOLEAN, half : BOOLEAN]

PidsOK(l) == \A i, j \in DOMAIN l.procs : l.procs[i].pid = l.procs[j].pid => i = j
ApartOK(l) ==
  /\ \A i \in DOMAIN l.procs : l.procs[i].addr + (ProcSize + CredSize) <= l.current
  /\ \A i, j \in DOMAIN l.procs :
       i < j => l.procs[i].addr + (ProcSize + CredSize) <= l.procs[j].addr
LinkedOK(l) ==
  \A i \in 1..(Len(l.procs) - 1) : /\ At(l.next, l.procs[i].addr) = l.procs[i + 1].addr
                                   /\ At(l.prev, l.procs[i + 1].addr) = l.procs[i].addr
HeadOK(l) == l.procs # <<>> /\ l.allproc => l.head = l.procs[1].addr
FreshOK(l, half) ==
  \A a \in DOMAIN l.next :
    \E i \in DOMAIN l.procs : a = l.procs[i].addr /\ (i = Len(l.procs) => half)
WholeOK(l) == ApartOK(l) /\ LinkedOK(l) /\ HeadOK(l)
ListOK(l, half, again, old) ==
  /\ l \in KextLists /\ PidsOK(l)
  /\ ~again => WholeOK(l) /\ (~old => FreshOK(l, half))

JobsSent == [cb : Addrs, key : EventKeys]
EventsInv ==
  /\ callbacks \in [EventKeys -> Seq(Addrs)]
  /\ {jobs, due, ran} \subseteq Seq(JobsSent) /\ failed \in BOOLEAN
  /\ JobsAccounted
PoliciesInv ==
  /\ policies \in Seq([name : Policies, hooked : Addrs \cup {0}])
  /\ DOMAIN latest = Policies
  /\ \A name \in Policies :
       /\ Found(name) = {} => latest[name] = 0
       /\ \A i \in Found(name) : policies[i].hooked = latest[name]
  /\ ChecksLatest
KextInv ==
  /\ ListOK(list, halfway, cleared, dirty) /\ halfway \in BOOLEAN
  /\ EventsInv /\ PoliciesInv

\* Cells of memory.
LEMMA PutFacts ==
  ASSUME NEW c \in Cells, NEW a \in Nat, NEW v \in Nat
  PROVE  /\ Put(c, a, v) \in Cells /\ DOMAIN Put(c, a, v) = DOMAIN c \cup {a}
<1>1. PICK A \in SUBSET Nat : c \in [A -> Nat]
  BY DEF Cells
<1>2. /\ DOMAIN c = A /\ \A b \in A : c[b] \in Nat
  BY <1>1
<1>3. A \cup {a} \in SUBSET Nat
  BY <1>1
<1>4. Put(c, a, v) \in [A \cup {a} -> Nat]
  BY <1>2 DEF Put
<1>5. Put(c, a, v) \in Cells
  BY <1>3, <1>4 DEF Cells
<1>6. /\ DOMAIN Put(c, a, v) = DOMAIN c \cup {a}
      /\ \A b \in DOMAIN c \cup {a} : Put(c, a, v)[b] = IF b = a THEN v ELSE c[b]
  BY DEF Put
<1> QED BY <1>5, <1>6 DEF At

\* Handing out memory disturbs nothing.
LEMMA RoomTaken ==
  ASSUME NEW l, NEW half, NEW again, NEW old, ListOK(l, half, again, old), NEW n \in Nat
  PROVE  ListOK([l EXCEPT !.current = @ + n], half, again, old)
<1> DEFINE m == [l EXCEPT !.current = @ + n]
<1>1. l \in KextLists
  BY DEF ListOK
<1>2. /\ m \in KextLists /\ m.current = l.current + n /\ m.current >= l.current
      /\ m.procs = l.procs /\ m.next = l.next /\ m.prev = l.prev
      /\ m.head = l.head /\ m.allproc = l.allproc
  BY <1>1 DEF KextLists
<1> HIDE DEF m
<1>3. PidsOK(m)
  BY <1>2 DEF ListOK, PidsOK
<1>4. \A i \in DOMAIN l.procs : l.procs[i].addr \in Nat
  <2>1. l.procs \in Seq(ListedOnes)
    BY <1>1 DEF KextLists
  <2>2. \A i \in DOMAIN l.procs : l.procs[i] \in ListedOnes
    BY <2>1, LenProperties, ElementOfSeq
  <2> QED BY <2>2 DEF ListedOnes
<1>5. ApartOK(l) => ApartOK(m)
  BY <1>1, <1>2, <1>4 DEF ApartOK, KextLists, ProcSize, CredSize
<1>6. (LinkedOK(l) => LinkedOK(m)) /\ (HeadOK(l) => HeadOK(m)) /\ (FreshOK(l, half) => FreshOK(m, half))
  BY <1>2 DEF LinkedOK, HeadOK, FreshOK
<1> QED BY <1>2, <1>3, <1>5, <1>6 DEF ListOK, WholeOK, m

\* The first process.
LEMMA FirstAdded ==
  ASSUME NEW l, NEW half, NEW again, NEW old, ListOK(l, half, again, old), NEW pid \in Nat,
         l.procs = <<>>, NEW m \in KextLists,
         m.procs = <<[pid |-> pid, addr |-> l.current]>>,
         m.current = l.current + (ProcSize + CredSize),
         m.allproc => m.head = l.current, m.next = l.next
  PROVE  ListOK(m, half, again, old)
<1>1. DOMAIN m.procs = {1} /\ Len(m.procs) = 1 /\ m.procs[1].addr = l.current
  OBVIOUS
<1>2. l.current \in Nat
  BY DEF ListOK, KextLists
<1>3. PidsOK(m)
  BY <1>1 DEF PidsOK
<1>4. ApartOK(m)
  BY <1>1, <1>2 DEF ApartOK, ProcSize, CredSize
<1>5. LinkedOK(m) /\ HeadOK(m)
  BY <1>1 DEF LinkedOK, HeadOK
<1>6. FreshOK(l, half) => DOMAIN l.next = {}
  BY DEF FreshOK
<1>7. FreshOK(l, half) => FreshOK(m, half)
  BY <1>6 DEF FreshOK
<1> QED BY <1>3, <1>4, <1>5, <1>7 DEF ListOK, WholeOK

\* One more process behind the last one, and a link that was left half done.
LEMMA BehindLast ==
  ASSUME NEW l, NEW half, NEW again, NEW old, ListOK(l, half, again, old), NEW pid \in Nat,
         l.procs # <<>>, NEW m \in KextLists,
         m.current = l.current + (ProcSize + CredSize),
         m.allproc = l.allproc, m.head = l.head,
         m.next = Put(l.next, Last(l.procs).addr, l.current)
  PROVE  /\ m.procs = l.procs /\ m.prev = l.prev => ListOK(m, TRUE, again, old)
         /\ /\ \A i \in DOMAIN l.procs : l.procs[i].pid # pid
            /\ m.procs = Append(l.procs, [pid |-> pid, addr |-> l.current])
            /\ m.prev = Put(l.prev, l.current, Last(l.procs).addr)
            => ListOK(m, FALSE, again, old)
<1> DEFINE n == Len(l.procs)
           new == [pid |-> pid, addr |-> l.current]
<1>1. l \in KextLists /\ l.procs \in Seq(ListedOnes) /\ l.current \in Nat /\ l.next \in Cells /\ l.prev \in Cells
  BY DEF ListOK, KextLists
<1>2. n \in Nat \ {0} /\ DOMAIN l.procs = 1..n /\ Last(l.procs) = l.procs[n]
  BY <1>1, EmptySeq, LenProperties DEF Last
<1>3. \A i \in 1..n : l.procs[i].addr \in Nat
  <2>1. \A i \in 1..n : l.procs[i] \in ListedOnes
    BY <1>1, ElementOfSeq
  <2> QED BY <2>1 DEF ListedOnes
<1> DEFINE last == l.procs[n].addr
<1>4. last \in Nat
  BY <1>2, <1>3
<1>5. /\ DOMAIN m.next = DOMAIN l.next \cup {last} /\ At(m.next, last) = l.current
      /\ \A b : b # last => At(m.next, b) = At(l.next, b)
  <2>1. m.next = Put(l.next, last, l.current)
    BY <1>2
  <2> HIDE DEF last
  <2> DEFINE cells == Put(l.next, last, l.current)
  <2>2. /\ DOMAIN cells = DOMAIN l.next \cup {last}
        /\ \A b : At(cells, b) = IF b = last THEN l.current ELSE At(l.next, b)
    BY DEF At, Put
  <2> QED BY <2>1, <2>2
<1>6. ASSUME ApartOK(l), NEW i \in 1..(n - 1) PROVE l.procs[i].addr # last
  <2>1. i \in 1..n /\ n \in 1..n /\ i < n
    BY <1>2
  <2>2. l.procs[i].addr + (ProcSize + CredSize) <= last
    BY <1>2, <1>6, <2>1 DEF ApartOK
  <2>3. l.procs[i].addr \in Nat
    BY <1>3, <2>1
  <2> QED BY <1>4, <2>2, <2>3 DEF ProcSize, CredSize
<1>7. ASSUME m.procs = l.procs, m.prev = l.prev PROVE ListOK(m, TRUE, again, old)
  <2>1. PidsOK(m)
    BY <1>7 DEF ListOK, PidsOK
  <2>2. ASSUME WholeOK(l) PROVE WholeOK(m)
    <3>1. ApartOK(m)
      <4>1. \A i \in DOMAIN l.procs : l.procs[i].addr + (ProcSize + CredSize) <= l.current
        BY <2>2 DEF WholeOK, ApartOK
      <4>2. \A i \in DOMAIN l.procs : l.procs[i].addr + (ProcSize + CredSize) <= m.current
        BY <1>1, <1>2, <1>3, <4>1 DEF ProcSize, CredSize
      <4> QED BY <1>7, <2>2, <4>2 DEF WholeOK, ApartOK
    <3>2. LinkedOK(m)
      BY <1>5, <1>6, <1>7, <2>2 DEF WholeOK, LinkedOK
    <3>3. HeadOK(m)
      BY <1>7, <2>2 DEF WholeOK, HeadOK
    <3> QED BY <3>1, <3>2, <3>3 DEF WholeOK
  <2>3. ASSUME FreshOK(l, half) PROVE FreshOK(m, TRUE)
    <3>1. n \in DOMAIN l.procs
      BY <1>2
    <3> QED BY <1>5, <1>7, <2>3, <3>1 DEF FreshOK
  <2> QED BY <2>1, <2>2, <2>3 DEF ListOK
<1>8. ASSUME \A i \in DOMAIN l.procs : l.procs[i].pid # pid, m.procs = Append(l.procs, new),
             m.prev = Put(l.prev, l.current, Last(l.procs).addr)
      PROVE  ListOK(m, FALSE, again, old)
  <2>1. new \in ListedOnes
    BY <1>1 DEF ListedOnes
  <2>2. /\ m.procs \in Seq(ListedOnes) /\ m.procs # <<>> /\ Len(m.procs) = n + 1
        /\ \A i \in 1..n : m.procs[i] = l.procs[i]
        /\ m.procs[n + 1] = new
    BY <1>1, <1>8, <2>1, AppendProperties
  <2>3. DOMAIN m.procs = 1..(n + 1)
    BY <2>2, LenProperties
  <2>4. new.pid = pid /\ new.addr = l.current
    OBVIOUS
  <2> HIDE DEF new
  <2>5. PidsOK(m)
    <3> SUFFICES ASSUME NEW i \in 1..(n + 1), NEW j \in 1..(n + 1), m.procs[i].pid = m.procs[j].pid
                 PROVE  i = j
      BY <2>3 DEF PidsOK
    <3>1. CASE i \in 1..n /\ j \in 1..n
      BY <1>2, <2>2, <3>1 DEF ListOK, PidsOK
    <3>2. CASE i = n + 1 \/ j = n + 1
      BY <1>2, <1>8, <2>2, <2>4, <3>2
    <3> QED BY <1>2, <3>1, <3>2
  <2>6. ASSUME WholeOK(l) PROVE WholeOK(m)
    <3>1. /\ \A i \in 1..n : l.procs[i].addr + (ProcSize + CredSize) <= l.current
          /\ \A i, j \in 1..n :
               i < j => l.procs[i].addr + (ProcSize + CredSize) <= l.procs[j].addr
      BY <1>2, <2>6 DEF WholeOK, ApartOK
    <3>2. ApartOK(m)
      <4>1. ASSUME NEW i \in 1..(n + 1)
            PROVE  m.procs[i].addr + (ProcSize + CredSize) <= m.current
        <5>1. CASE i \in 1..n
          <6>1. /\ m.procs[i].addr = l.procs[i].addr /\ l.procs[i].addr \in Nat
                /\ l.procs[i].addr + (ProcSize + CredSize) <= l.current
            BY <1>3, <2>2, <3>1, <5>1
          <6> QED BY <1>1, <6>1 DEF ProcSize, CredSize
        <5>2. CASE i = n + 1
          BY <1>1, <2>2, <2>4, <5>2 DEF ProcSize, CredSize
        <5> QED BY <1>2, <5>1, <5>2
      <4>2. ASSUME NEW i \in 1..(n + 1), NEW j \in 1..(n + 1), i < j
            PROVE  m.procs[i].addr + (ProcSize + CredSize) <= m.procs[j].addr
        <5>1. i \in 1..n /\ m.procs[i] = l.procs[i]
          BY <1>2, <2>2, <4>2
        <5>2. CASE j \in 1..n
          BY <2>2, <3>1, <4>2, <5>1, <5>2
        <5>3. CASE j = n + 1
          BY <2>2, <2>4, <3>1, <5>1, <5>3
        <5> QED BY <1>2, <5>2, <5>3
      <4> QED BY <2>3, <4>1, <4>2 DEF ApartOK
    <3>3. /\ At(m.prev, l.current) = last
          /\ \A b : b # l.current => At(m.prev, b) = At(l.prev, b)
      <4>1. m.prev = Put(l.prev, l.current, last)
        BY <1>2, <1>8
      <4> HIDE DEF last
      <4> DEFINE cells == Put(l.prev, l.current, last)
      <4>2. \A b : At(cells, b) = IF b = l.current THEN last ELSE At(l.prev, b)
        BY DEF At, Put
      <4> QED BY <4>1, <4>2
    <3>4. LinkedOK(m)
      <4> SUFFICES ASSUME NEW i \in 1..n
                   PROVE  /\ At(m.next, m.procs[i].addr) = m.procs[i + 1].addr
                          /\ At(m.prev, m.procs[i + 1].addr) = m.procs[i].addr
        BY <1>2, <2>2 DEF LinkedOK
      <4>1. CASE i = n
        BY <1>5, <2>2, <2>4, <3>3, <4>1
      <4>2. CASE i # n
        <5>1. i \in 1..(n - 1) /\ i + 1 \in 1..n
          BY <1>2, <4>2
        <5>2. l.procs[i].addr # last /\ l.procs[i + 1].addr # l.current
          BY <1>1, <1>3, <1>6, <2>6, <3>1, <5>1 DEF WholeOK, ProcSize, CredSize
        <5>3. /\ At(l.next, l.procs[i].addr) = l.procs[i + 1].addr
              /\ At(l.prev, l.procs[i + 1].addr) = l.procs[i].addr
          BY <2>6, <5>1 DEF WholeOK, LinkedOK
        <5> QED BY <1>5, <2>2, <3>3, <5>1, <5>2, <5>3
      <4> QED BY <4>1, <4>2
    <3>5. HeadOK(m)
      <4>1. 1 \in 1..n
        BY <1>2
      <4> QED BY <2>2, <2>6, <4>1 DEF WholeOK, HeadOK
    <3> QED BY <3>2, <3>4, <3>5 DEF WholeOK
  <2>7. ASSUME FreshOK(l, half) PROVE FreshOK(m, FALSE)
    <3> SUFFICES ASSUME NEW a \in DOMAIN l.next \cup {last}
                 PROVE  \E i \in 1..(n + 1) : a = m.procs[i].addr /\ i # n + 1
      BY <1>5, <2>2, <2>3 DEF FreshOK
    <3>1. PICK i \in 1..n : a = l.procs[i].addr
      BY <1>2, <2>7 DEF FreshOK
    <3>2. i \in 1..(n + 1) /\ i # n + 1 /\ m.procs[i] = l.procs[i]
      BY <1>2, <2>2, <3>1
    <3> QED BY <3>1, <3>2
  <2> QED BY <2>5, <2>6, <2>7 DEF ListOK
<1> QED BY <1>7, <1>8

Described(pid, l) == \E p \in ToSet(l.procs) : p.pid = pid

\* add_process keeps the list, wherever it fails.
LEMMA AddedOK ==
  ASSUME NEW s \in KextStages, NEW again, NEW old, ListOK(s.l, s.half, again, old),
         NEW pid \in Nat
  PROVE  /\ AddProcess(s, pid) \in KextStages
         /\ ListOK(AddProcess(s, pid).l, AddProcess(s, pid).half, again, old)
<1> DEFINE l == s.l
           r == AddProcess(s, pid)
           addr == l.current
           room == Allotted(l)
           listed == Listed(l, pid)
           last == Last(l.procs).addr
           linked == [room EXCEPT !.next = Put(@, last, addr)]
<1>1. /\ l \in KextLists /\ l.procs \in Seq(ListedOnes) /\ addr \in Nat
      /\ l.next \in Cells /\ l.prev \in Cells
  BY DEF KextStages, KextLists
<1>2. /\ ProcSize + CredSize \in Nat /\ addr + ProcSize + CredSize = addr + (ProcSize + CredSize)
  BY <1>1 DEF ProcSize, CredSize
<1>3. /\ room \in KextLists /\ room.current = addr + (ProcSize + CredSize)
      /\ room.procs = l.procs /\ room.next = l.next /\ room.prev = l.prev
      /\ room.head = l.head /\ room.allproc = l.allproc
  BY <1>1, <1>2 DEF Allotted, KextLists, ProcSize, CredSize
<1>4. ListOK(room, s.half, again, old)
  <2>1. room = [l EXCEPT !.current = @ + (ProcSize + CredSize)]
    BY <1>1, <1>2 DEF Allotted
  <2> HIDE DEF room
  <2> QED BY <1>2, <2>1, RoomTaken
<1>5. listed \in Seq(ListedOnes)
  <2>1. [pid |-> pid, addr |-> addr] \in ListedOnes
    BY <1>1 DEF ListedOnes
  <2> QED BY <1>1, <2>1, AppendProperties DEF Listed
<1>6. s.ok \in BOOLEAN /\ s.writes \in Int /\ s.half \in BOOLEAN
      /\ s = [l |-> s.l, writes |-> s.writes, ok |-> s.ok, half |-> s.half]
  BY DEF KextStages
<1>7. CASE ~s.ok \/ Described(pid, l)
  <2>1. r = s
    BY <1>7, Zenon DEF AddProcess, Described
  <2> QED BY <2>1
<1>8. CASE s.ok /\ ~Described(pid, l) /\ l.procs = <<>>
  <2> DEFINE m == [room EXCEPT !.procs = listed, !.head = IF l.allproc THEN addr ELSE @]
  <2>1. r = IF l.allproc /\ s.writes = 0 THEN [s EXCEPT !.l = room, !.ok = FALSE]
            ELSE [s EXCEPT !.l = m, !.writes = IF l.allproc THEN @ - 1 ELSE @]
    <3>1. r = AddFirst(s, pid)
      BY <1>8, Zenon DEF AddProcess, Described
    <3> QED BY <3>1 DEF AddFirst
  <2>2. /\ m \in KextLists /\ m.procs = listed /\ m.current = addr + (ProcSize + CredSize)
        /\ (m.allproc => m.head = addr) /\ m.next = l.next
    BY <1>1, <1>3, <1>5 DEF KextLists
  <2>3. listed = <<[pid |-> pid, addr |-> addr]>>
    BY <1>8 DEF Listed
  <2> HIDE DEF l, r, addr, room, listed, m
  <2>4. ListOK(m, s.half, again, old)
    BY <1>8, <2>2, <2>3, FirstAdded DEF l, addr
  <2>5. CASE l.allproc /\ s.writes = 0
    <3>1. r = [s EXCEPT !.l = room, !.ok = FALSE]
      BY <2>1, <2>5
    <3>2. r \in KextStages /\ r.l = room /\ r.half = s.half
      BY <1>3, <3>1 DEF KextStages
    <3> QED BY <1>4, <3>2 DEF r
  <2>6. CASE ~(l.allproc /\ s.writes = 0)
    <3>1. r = [s EXCEPT !.l = m, !.writes = IF l.allproc THEN @ - 1 ELSE @]
      BY <2>1, <2>6
    <3>2. r = [l |-> m, writes |-> IF l.allproc THEN s.writes - 1 ELSE s.writes, ok |-> s.ok,
               half |-> s.half]
      BY <1>6, <3>1
    <3>3. r \in KextStages /\ r.l = m /\ r.half = s.half
      BY <1>6, <2>2, <3>2 DEF KextStages
    <3> QED BY <2>4, <3>3 DEF r
  <2> QED BY <2>5, <2>6
<1>9. CASE s.ok /\ ~Described(pid, l) /\ l.procs # <<>>
  <2> DEFINE m == [linked EXCEPT !.procs = listed, !.prev = Put(@, addr, last)]
  <2>1. r = CASE s.writes = 0 -> [s EXCEPT !.l = room, !.ok = FALSE]
              [] s.writes = 1 -> [s EXCEPT !.l = linked, !.ok = FALSE, !.half = TRUE]
              [] OTHER -> [s EXCEPT !.l = m, !.half = FALSE, !.writes = @ - 2]
    <3>1. r = AddBehind(s, pid)
      BY <1>9, Zenon DEF AddProcess, Described
    <3> QED BY <3>1 DEF AddBehind, Neighbour
  <2>2. last \in Nat
    <3>1. Len(l.procs) \in 1..Len(l.procs)
      BY <1>1, <1>9, EmptySeq
    <3>2. l.procs[Len(l.procs)] \in ListedOnes
      BY <1>1, <3>1, ElementOfSeq
    <3> QED BY <3>2 DEF ListedOnes, Last
  <2>3. Put(l.next, last, addr) \in Cells /\ Put(l.prev, addr, last) \in Cells
    BY <1>1, <2>2, PutFacts
  <2>4. /\ linked \in KextLists /\ linked.current = addr + (ProcSize + CredSize)
        /\ linked.procs = l.procs /\ linked.next = Put(l.next, last, addr)
        /\ linked.prev = l.prev /\ linked.head = l.head /\ linked.allproc = l.allproc
    BY <1>3, <2>3 DEF KextLists
  <2>5. /\ m \in KextLists /\ m.current = addr + (ProcSize + CredSize)
        /\ m.procs = listed /\ m.next = Put(l.next, last, addr)
        /\ m.prev = Put(l.prev, addr, last) /\ m.head = l.head /\ m.allproc = l.allproc
    BY <1>5, <2>3, <2>4 DEF KextLists
  <2>6. \A i \in DOMAIN l.procs : l.procs[i].pid # pid
    BY <1>9 DEF Described, ToSet
  <2> HIDE DEF r, m, linked, room
  <2>7. ListOK(linked, TRUE, again, old)
    BY <1>9, <2>4, BehindLast
  <2>8. ListOK(m, FALSE, again, old)
    BY <1>9, <2>5, <2>6, BehindLast DEF Listed
  <2> HIDE DEF l
  <2>9. CASE s.writes = 0
    <3>1. r = [s EXCEPT !.l = room, !.ok = FALSE]
      BY <2>1, <2>9
    <3>2. r \in KextStages /\ r.l = room /\ r.half = s.half
      BY <1>3, <3>1 DEF KextStages
    <3> QED BY <1>4, <3>2 DEF r
  <2>10. CASE s.writes = 1
    <3>1. r = [s EXCEPT !.l = linked, !.ok = FALSE, !.half = TRUE]
      BY <2>1, <2>10
    <3>2. r \in KextStages /\ r.l = linked /\ r.half = TRUE
      BY <2>4, <3>1 DEF KextStages
    <3> QED BY <2>7, <3>2 DEF r
  <2>11. CASE s.writes # 0 /\ s.writes # 1
    <3>1. r = [s EXCEPT !.l = m, !.half = FALSE, !.writes = @ - 2]
      BY <2>1, <2>11
    <3>2. r = [l |-> m, writes |-> s.writes - 2, ok |-> s.ok, half |-> FALSE]
      BY <1>6, <3>1
    <3>3. r \in KextStages /\ r.l = m /\ r.half = FALSE
      BY <1>6, <2>5, <3>2 DEF KextStages
    <3> QED BY <2>8, <3>3 DEF r
  <2> QED BY <2>9, <2>10, <2>11
<1> QED BY <1>7, <1>8, <1>9

\* What a load starts with: no processes if it finds _allproc, old cells handed out again
\* if it leaves processes of the load before.
LEMMA LoadBegins ==
  ASSUME KextInv, NEW at \in Nat \ {0}, NEW allproc \in BOOLEAN
  PROVE  ListOK([list EXCEPT !.current = at, !.procs = IF allproc THEN <<>> ELSE @,
                             !.allproc = @ \/ allproc],
                halfway /\ ~allproc, ~allproc /\ (cleared \/ list.procs # <<>>),
                dirty \/ list.next # <<>>)
<1> DEFINE l == [list EXCEPT !.current = at, !.procs = IF allproc THEN <<>> ELSE @,
                             !.allproc = @ \/ allproc]
<1>1. list \in KextLists /\ PidsOK(list) /\ (~cleared /\ ~dirty => FreshOK(list, halfway))
  BY DEF KextInv, ListOK
<1>2. <<>> \in Seq(ListedOnes)
  BY EmptySeq
<1>3. /\ l \in KextLists /\ l.procs = (IF allproc THEN <<>> ELSE list.procs) /\ l.next = list.next
  BY <1>1, <1>2 DEF KextLists
<1> HIDE DEF l
<1>4. PidsOK(l)
  BY <1>1, <1>3 DEF PidsOK
<1>5. CASE l.procs # <<>>
  <2>1. ~allproc /\ list.procs # <<>>
    BY <1>3, <1>5
  <2> QED BY <1>3, <1>4, <2>1 DEF ListOK, l
<1>6. CASE l.procs = <<>>
  <2>1. DOMAIN l.procs = {} /\ 1..(Len(l.procs) - 1) = {}
    BY <1>6
  <2>2. WholeOK(l)
    BY <1>6, <2>1 DEF WholeOK, ApartOK, LinkedOK, HeadOK
  <2>3. list.next = <<>> => DOMAIN l.next = {}
    BY <1>3
  <2>4. list.next = <<>> => FreshOK(l, halfway /\ ~allproc)
    BY <2>3 DEF FreshOK
  <2> QED BY <1>3, <1>4, <2>2, <2>4 DEF ListOK, l
<1> QED BY <1>5, <1>6

LEMMA LoadStep ==
  ASSUME KextInv, NEW policyList \in BOOLEAN, NEW allproc \in BOOLEAN, NEW ioKit \in BOOLEAN,
         NEW writes \in 0..6, LoadKext(policyList, allproc, ioKit, writes)
  PROVE  ListOK(list, halfway, cleared, dirty)' /\ halfway' \in BOOLEAN
<1> DEFINE at == 1 + (IF policyList THEN PolicyListSize ELSE 0)
           l == [list EXCEPT !.current = at, !.procs = IF allproc THEN <<>> ELSE @,
                             !.allproc = @ \/ allproc]
           start == Stage(l, IF policyList THEN writes - 1 ELSE writes, halfway /\ ~allproc)
           set == IF allproc THEN AddProcess(AddProcess(AddProcess(start, 0), 4919), 1) ELSE start
           again == ~allproc /\ (cleared \/ list.procs # <<>>)
           old == dirty \/ list.next # <<>>
<1>1. at \in Nat \ {0}
  BY DEF PolicyListSize
<1>2. dirty' = old
  BY DEF LoadKext
<1>3. CASE policyList /\ writes = 0
  <2>1. /\ list' = [list EXCEPT !.current = at] /\ halfway' = halfway
        /\ cleared' = (cleared \/ list.procs # <<>>)
    BY <1>3 DEF LoadKext
  <2>2. ListOK([list EXCEPT !.current = at, !.procs = IF FALSE THEN <<>> ELSE @,
                            !.allproc = @ \/ FALSE],
               halfway /\ ~FALSE, ~FALSE /\ (cleared \/ list.procs # <<>>), old)
    BY <1>1, LoadBegins
  <2>3. list \in KextLists /\ halfway \in BOOLEAN
    BY DEF KextInv, ListOK
  <2>4. [list EXCEPT !.current = at, !.procs = IF FALSE THEN <<>> ELSE @, !.allproc = @ \/ FALSE]
        = list'
    BY <2>1, <2>3 DEF KextLists
  <2>5. (halfway /\ ~FALSE) = halfway' /\ (~FALSE /\ (cleared \/ list.procs # <<>>)) = cleared'
    BY <2>1, <2>3
  <2> HIDE DEF old
  <2>6. ListOK(list', halfway', cleared', dirty')
    BY <1>2, <2>2, <2>4, <2>5
  <2> QED BY <2>1, <2>3, <2>6 DEF ListOK, PidsOK, WholeOK, ApartOK, LinkedOK, HeadOK, FreshOK
<1>4. CASE ~(policyList /\ writes = 0)
  <2>1. /\ list' = [set.l EXCEPT !.current =
                       @ + (IF set.ok THEN (IF ioKit THEN TmpSize ELSE KmodSize) ELSE 0)]
        /\ halfway' = set.half /\ cleared' = again
    BY <1>4 DEF LoadKext
  <2>2. ListOK(l, halfway /\ ~allproc, again, old)
    BY <1>1, LoadBegins
  <2>3. start \in KextStages /\ start.l = l /\ start.half = (halfway /\ ~allproc)
    BY <2>2 DEF Stage, KextStages, KextInv, ListOK
  <2> HIDE DEF l, start, again, old
  <2>4. set \in KextStages /\ ListOK(set.l, set.half, again, old)
    <3>1. CASE ~allproc
      BY <2>2, <2>3, <3>1
    <3>2. CASE allproc
      <4> DEFINE one == AddProcess(start, 0)
                 two == AddProcess(one, 4919)
                 three == AddProcess(two, 1)
      <4>1. one \in KextStages /\ ListOK(one.l, one.half, again, old)
        BY <2>2, <2>3, AddedOK
      <4> HIDE DEF one
      <4>2. two \in KextStages /\ ListOK(two.l, two.half, again, old)
        BY <4>1, AddedOK
      <4> HIDE DEF two
      <4>3. three \in KextStages /\ ListOK(three.l, three.half, again, old)
        BY <4>2, AddedOK
      <4> QED BY <3>2, <4>3 DEF one, two
    <3> QED BY <3>1, <3>2
  <2> HIDE DEF set
  <2>5. (IF set.ok THEN (IF ioKit THEN TmpSize ELSE KmodSize) ELSE 0) \in Nat
    BY DEF TmpSize, KmodSize
  <2>6. ListOK(list', halfway', cleared', dirty')
    BY <1>2, <2>1, <2>4, <2>5, RoomTaken
  <2>7. halfway' \in BOOLEAN
    BY <2>1, <2>4 DEF KextStages
  <2> QED BY <2>6, <2>7 DEF ListOK, PidsOK, WholeOK, ApartOK, LinkedOK, HeadOK, FreshOK
<1> QED BY <1>3, <1>4

LEMMA AddStep ==
  ASSUME KextInv, NEW pid \in Nat, NEW writes \in 0..2, EmbedderAdds(pid, writes)
  PROVE  ListOK(list, halfway, cleared, dirty)' /\ halfway' \in BOOLEAN
<1> DEFINE start == Stage(list, writes, halfway)
           s == AddProcess(start, pid)
<1>1. start \in KextStages /\ start.l = list /\ start.half = halfway
  BY DEF Stage, KextStages, KextInv, ListOK
<1>2. /\ list' = s.l /\ halfway' = s.half /\ cleared' = cleared /\ dirty' = dirty
  BY DEF EmbedderAdds
<1>3. ListOK(list, halfway, cleared, dirty)
  BY DEF KextInv
<1> HIDE DEF start
<1>4. s \in KextStages /\ ListOK(s.l, s.half, cleared, dirty)
  BY <1>1, <1>3, AddedOK
<1> HIDE DEF s
<1>5. ListOK(list', halfway', cleared', dirty')
  BY <1>2, <1>4
<1>6. halfway' \in BOOLEAN
  BY <1>2, <1>4 DEF KextStages
<1> QED BY <1>5, <1>6 DEF ListOK, PidsOK, WholeOK, ApartOK, LinkedOK, HeadOK, FreshOK

-------------------------------------------------------------------------------
\* Jobs are queued at the end, run from the front, and dropped after one that failed.
LEMMA QueueStep ==
  ASSUME EventsInv, NEW keys, NEW n \in Nat, keys \in [1..n -> EventKeys], QueueJobs(keys)
  PROVE  EventsInv'
<1> DEFINE parts == [i \in DOMAIN keys |-> JobsOf(keys[i])]
           new == FlattenSeq(parts)
<1>1. DOMAIN parts = 1..n /\ parts \in Seq(Seq(JobsSent)) /\ Len(parts) = n
  <2>1. DOMAIN keys = 1..n /\ \A i \in 1..n : keys[i] \in EventKeys
    OBVIOUS
  <2>2. ASSUME NEW k \in EventKeys PROVE JobsOf(k) \in Seq(JobsSent)
    <3> DEFINE c == callbacks[k]
    <3>1. c \in Seq(Addrs)
      BY DEF EventsInv
    <3>2. DOMAIN c = 1..Len(c) /\ Len(c) \in Nat /\ \A i \in 1..Len(c) : c[i] \in Addrs
      BY <3>1, LenProperties, ElementOfSeq
    <3>3. JobsOf(k) = [i \in 1..Len(c) |-> [cb |-> c[i], key |-> k]]
      BY <3>2 DEF JobsOf
    <3> HIDE DEF c
    <3>4. JobsOf(k) \in [1..Len(c) -> JobsSent]
      BY <3>2, <3>3 DEF JobsSent
    <3> QED BY <3>2, <3>4, SeqDef
  <2>3. parts \in [1..n -> Seq(JobsSent)]
    BY <2>1, <2>2
  <2>4. parts \in Seq(Seq(JobsSent))
    BY <2>3, SeqDef
  <2> HIDE DEF parts
  <2>5. DOMAIN parts = 1..n /\ DOMAIN parts = 1..Len(parts) /\ Len(parts) \in Nat
    BY <2>3, <2>4, LenProperties
  <2> QED BY <2>4, <2>5
<1> HIDE DEF parts
<1>2. new \in Seq(JobsSent)
  <2>1. \A i \in 1..n : parts[i] \in Seq(JobsSent)
    BY <1>1, ElementOfSeq
  <2>2. n = 0 => parts = <<>>
    BY <1>1, EmptySeq
  <2> QED BY <1>1, <2>1, <2>2, FlatIsSeq
<1>3. /\ jobs' = jobs \o new /\ due' = due \o new
      /\ UNCHANGED <<callbacks, ran, failed>>
  BY DEF QueueJobs, parts
<1> HIDE DEF new
<1>4. /\ jobs \in Seq(JobsSent) /\ due \in Seq(JobsSent) /\ ran \in Seq(JobsSent)
      /\ JobsAccounted
  BY DEF EventsInv
<1>5. /\ jobs' \in Seq(JobsSent) /\ due' \in Seq(JobsSent)
      /\ Len(jobs') = Len(jobs) + Len(new) /\ Len(due') = Len(due) + Len(new)
  BY <1>2, <1>3, <1>4, ConcatProperties
<1>6. ran \o (jobs \o new) = (ran \o jobs) \o new
  <2>1. ran \in Seq(JobsSent) /\ jobs \in Seq(JobsSent) /\ new \in Seq(JobsSent)
    BY <1>2, <1>4
  <2>2. \A s, t, u \in Seq(JobsSent) : (s \o t) \o u = s \o (t \o u)
    BY ConcatAssociative
  <2> QED BY <2>1, <2>2
<1>7. Len(jobs) \in Nat /\ Len(due) \in Nat /\ Len(ran) \in Nat /\ Len(new) \in Nat
  BY <1>2, <1>4, LenProperties
<1>8. JobsAccounted'
  <2>1. CASE failed
    <3>1. Len(ran) + Len(jobs) <= Len(due)
      BY <1>4, <2>1 DEF JobsAccounted
    <3>2. Len(ran') + Len(jobs') <= Len(due')
      BY <1>3, <1>5, <1>7, <3>1
    <3> QED BY <1>3, <2>1, <3>2 DEF JobsAccounted
  <2>2. CASE ~failed
    <3>1. ran' \o jobs' = due'
      BY <1>3, <1>4, <1>6, <2>2 DEF JobsAccounted
    <3> QED BY <1>3, <2>2, <3>1 DEF JobsAccounted
  <2> QED BY <2>1, <2>2
<1> QED BY <1>3, <1>4, <1>5, <1>8 DEF EventsInv

LEMMA TriggerStep == ASSUME EventsInv, NEW done, Trigger(done) PROVE EventsInv'
<1> DEFINE taken == SubSeq(jobs, 1, done)
<1>1. /\ jobs \in Seq(JobsSent) /\ due \in Seq(JobsSent) /\ ran \in Seq(JobsSent)
      /\ failed \in BOOLEAN /\ JobsAccounted
  BY DEF EventsInv
<1>2. /\ Len(jobs) \in Nat /\ Len(due) \in Nat /\ Len(ran) \in Nat
      /\ \A i \in 1..Len(jobs) : jobs[i] \in JobsSent
  BY <1>1, LenProperties, ElementOfSeq
<1>3. /\ done \in 0..Len(jobs) /\ ran' = ran \o taken /\ jobs' = <<>>
      /\ failed' = (failed \/ done < Len(jobs)) /\ UNCHANGED <<callbacks, due>>
  BY DEF Trigger
<1>4. taken \in Seq(JobsSent) /\ Len(taken) = done
  <2>1. done \in Int /\ \A i \in 1..done : jobs[i] \in JobsSent
    BY <1>2, <1>3
  <2>2. taken \in Seq(JobsSent) /\ Len(taken) = IF 1 <= done THEN done - 1 + 1 ELSE 0
    BY <2>1, SubSeqProperties
  <2> QED BY <1>2, <1>3, <2>2
<1> HIDE DEF taken
<1>5. ran' \in Seq(JobsSent) /\ Len(ran') = Len(ran) + done
  BY <1>1, <1>3, <1>4, ConcatProperties
<1>6. jobs' \in Seq(JobsSent) /\ Len(jobs') = 0
  BY <1>3, EmptySeq
<1>7. failed' \in BOOLEAN
  BY <1>1, <1>3
<1>8. CASE failed'
  <2>1. Len(ran) + Len(jobs) <= Len(due)
    <3>1. CASE failed
      BY <1>1, <3>1 DEF JobsAccounted
    <3>2. CASE ~failed
      <4>1. Len(due) = Len(ran) + Len(jobs)
        BY <1>1, <3>2, ConcatProperties DEF JobsAccounted
      <4> QED BY <1>2, <4>1
    <3> QED BY <3>1, <3>2
  <2>2. Len(ran') + Len(jobs') <= Len(due')
    BY <1>2, <1>3, <1>5, <1>6, <2>1
  <2>3. JobsAccounted'
    BY <1>8, <2>2 DEF JobsAccounted
  <2> QED BY <1>1, <1>3, <1>5, <1>6, <1>7, <2>3 DEF EventsInv
<1>9. CASE ~failed'
  <2>1. ~failed /\ done = Len(jobs)
    <3>1. ~(failed \/ done < Len(jobs))
      BY <1>3, <1>9, Zenon
    <3>2. ~failed /\ ~(done < Len(jobs))
      BY <3>1, Zenon
    <3> QED BY <1>2, <1>3, <3>2
  <2>2. taken = jobs
    BY <1>1, <2>1, SubSeqFull DEF taken
  <2>3. ran' = due'
    BY <1>1, <1>3, <2>1, <2>2 DEF JobsAccounted
  <2>4. ran' \o jobs' = ran'
    BY <1>3, <1>5, ConcatEmptySeq
  <2>5. JobsAccounted'
    BY <1>9, <2>3, <2>4 DEF JobsAccounted
  <2> QED BY <1>1, <1>3, <1>5, <1>6, <1>7, <2>5 DEF EventsInv
<1> QED BY <1>8, <1>9

LEMMA CallbacksStep ==
  ASSUME EventsInv, NEW k \in EventKeys,
         (\E addr \in Addrs : Register(addr, k)) \/ Deregister(k.name)
  PROVE  EventsInv'
<1>1. UNCHANGED <<jobs, due, ran, failed>>
  BY DEF Register, Deregister
<1>2. callbacks' \in [EventKeys -> Seq(Addrs)]
  <2>1. ASSUME NEW addr \in Addrs, Register(addr, k) PROVE callbacks' \in [EventKeys -> Seq(Addrs)]
    <3>1. callbacks \in [EventKeys -> Seq(Addrs)] /\ callbacks' = [callbacks EXCEPT ![k] = Append(@, addr)]
      BY <2>1 DEF EventsInv, Register
    <3>2. Append(callbacks[k], addr) \in Seq(Addrs)
      BY <3>1, AppendProperties
    <3> QED BY <3>1, <3>2
  <2>2. ASSUME Deregister(k.name) PROVE callbacks' \in [EventKeys -> Seq(Addrs)]
    BY <2>2, EmptySeq DEF EventsInv, Deregister
  <2> QED BY <2>1, <2>2
<1> QED BY <1>1, <1>2 DEF EventsInv, JobsAccounted

LEMMA SameEvents == EventsInv /\ UNCHANGED eventvars => EventsInv'
BY DEF EventsInv, JobsAccounted, eventvars

-------------------------------------------------------------------------------
\* The first policy of a name is the one that is hooked and asked.
LEMMA PolicyStepOK == ASSUME PoliciesInv, PolicyStep PROVE PoliciesInv'
<1> DEFINE P == [name : Policies, hooked : Addrs \cup {0}]
<1>1. /\ policies \in Seq(P) /\ DOMAIN latest = Policies
      /\ \A name \in Policies :
           /\ Found(name) = {} => latest[name] = 0
           /\ \A i \in Found(name) : policies[i].hooked = latest[name]
      /\ ChecksLatest
  BY DEF PoliciesInv
<1>2. /\ Len(policies) \in Nat /\ DOMAIN policies = 1..Len(policies)
      /\ \A i \in 1..Len(policies) : policies[i] \in P
  BY <1>1, LenProperties, ElementOfSeq
<1>3. PICK name \in Policies :
        RegisterPolicy(name) \/ PolicyCheck(name) \/ \E addr \in Addrs : HookPolicyCallback(name, addr)
  BY DEF PolicyStep
<1>4. CASE RegisterPolicy(name)
  <2> DEFINE new == [name |-> name, hooked |-> 0]
             n == Len(policies)
  <2>1. policies' = Append(policies, new) /\ UNCHANGED <<latest, asked>>
    BY <1>4 DEF RegisterPolicy
  <2>2. new \in P
    OBVIOUS
  <2>3. /\ policies' \in Seq(P) /\ Len(policies') = n + 1
        /\ \A i \in 1..n : policies'[i] = policies[i]
        /\ policies'[n + 1] = new
    BY <1>1, <2>1, <2>2, AppendProperties
  <2>4. DOMAIN policies' = 1..(n + 1)
    BY <2>3, LenProperties
  <2>5. new.name = name /\ new.hooked = 0
    OBVIOUS
  <2> HIDE DEF new
  <2>6. ASSUME NEW p \in Policies
        PROVE  /\ Found(p)' = {} => latest'[p] = 0
               /\ \A i \in Found(p)' : policies'[i].hooked = latest'[p]
    <3>1. \A i \in 1..(n + 1) : i # n + 1 => i \in 1..n
      BY <1>2
    <3>2. \A i \in 1..n : i \in Found(p)' <=> i \in Found(p)
      <4> TAKE i \in 1..n
      <4>1. i \in 1..(n + 1) /\ \A j \in 1..(i - 1) : j \in 1..n
        BY <1>2
      <4> QED BY <1>2, <2>3, <2>4, <4>1 DEF Found
    <3>3. n + 1 \in Found(p)' => Found(p) = {} /\ policies'[n + 1].hooked = 0
      <4> SUFFICES ASSUME n + 1 \in Found(p)' PROVE Found(p) = {} /\ policies'[n + 1].hooked = 0
        OBVIOUS
      <4>1. \A j \in 1..((n + 1) - 1) : policies'[j].name # p
        BY DEF Found
      <4>2. \A j \in 1..n : policies[j].name # p
        BY <1>2, <2>3, <4>1
      <4> QED BY <1>2, <2>3, <2>5, <4>2 DEF Found
    <3>4. Found(p) \subseteq 1..n /\ Found(p)' \subseteq 1..(n + 1)
      BY <1>2, <2>4 DEF Found
    <3>5. Found(p)' = {} => latest'[p] = 0
      BY <1>1, <2>1, <3>2, <3>4
    <3>6. ASSUME NEW i \in Found(p)' PROVE policies'[i].hooked = latest'[p]
      <4>1. CASE i = n + 1
        BY <1>1, <2>1, <3>3, <4>1
      <4>2. CASE i # n + 1
        <5>1. i \in 1..n /\ i \in Found(p)
          BY <3>1, <3>2, <3>4, <4>2
        <5> QED BY <1>1, <2>1, <2>3, <5>1
      <4> QED BY <4>1, <4>2
    <3> QED BY <3>5, <3>6
  <2> QED BY <1>1, <2>1, <2>3, <2>6 DEF PoliciesInv, ChecksLatest
<1>5. CASE PolicyCheck(name)
  <2>1. /\ asked'.want = latest[name]
        /\ asked'.by = IF Found(name) = {} THEN 0 ELSE policies[CHOOSE i \in Found(name) : TRUE].hooked
        /\ UNCHANGED <<policies, latest>>
    BY <1>5 DEF PolicyCheck
  <2>2. Found(name) # {} => (CHOOSE i \in Found(name) : TRUE) \in Found(name)
    OBVIOUS
  <2>3. asked'.by = asked'.want
    BY <1>1, <2>1, <2>2
  <2> QED BY <1>1, <2>1, <2>3 DEF PoliciesInv, Found, ChecksLatest
<1>6. ASSUME NEW addr \in Addrs, HookPolicyCallback(name, addr) PROVE PoliciesInv'
  <2> DEFINE n == Len(policies)
  <2>1. /\ policies' = [i \in 1..n |-> IF i \in Found(name) THEN [policies[i] EXCEPT !.hooked = addr]
                                       ELSE policies[i]]
        /\ latest' = [latest EXCEPT ![name] = IF Found(name) = {} THEN @ ELSE addr]
        /\ UNCHANGED asked
    BY <1>2, <1>6 DEF HookPolicyCallback
  <2>2. /\ DOMAIN policies' = 1..n
        /\ \A i \in 1..n : /\ policies'[i] \in P /\ policies'[i].name = policies[i].name
                           /\ policies'[i].hooked = IF i \in Found(name) THEN addr ELSE policies[i].hooked
    BY <1>2, <2>1
  <2>3. policies' \in Seq(P)
    <3>1. n \in Nat
      BY <1>2
    <3> HIDE DEF n, P
    <3>2. policies' \in [1..n -> P]
      BY <2>1, <2>2
    <3> QED BY <3>1, <3>2, SeqDef
  <2>4. \A p \in Policies : Found(p)' = Found(p)
    <3>1. \A i \in 1..n : \A j \in 1..(i - 1) : j \in 1..n
      BY <1>2
    <3> QED BY <1>2, <2>2, <3>1 DEF Found
  <2>5. ASSUME NEW p \in Policies
        PROVE  /\ Found(p) = {} => latest'[p] = 0
               /\ \A i \in Found(p) : policies'[i].hooked = latest'[p]
    <3>1. Found(p) \subseteq 1..n
      BY <1>2 DEF Found
    <3>2. CASE p = name
      BY <1>1, <2>1, <2>2, <3>1, <3>2
    <3>3. CASE p # name
      <4>1. Found(p) \cap Found(name) = {}
        BY <3>3 DEF Found
      <4> QED BY <1>1, <2>1, <2>2, <3>1, <3>3, <4>1
    <3> QED BY <3>2, <3>3
  <2> QED BY <1>1, <2>1, <2>3, <2>4, <2>5 DEF PoliciesInv, ChecksLatest
<1> QED BY <1>3, <1>4, <1>5, <1>6

LEMMA SamePolicies == PoliciesInv /\ UNCHANGED policyvars => PoliciesInv'
BY DEF PoliciesInv, Found, ChecksLatest, policyvars

-------------------------------------------------------------------------------
LEMMA InitKext == KextInit => KextInv
<1> SUFFICES ASSUME KextInit PROVE KextInv
  OBVIOUS
<1>1. <<>> \in Seq(ListedOnes) /\ <<>> \in Seq(JobsSent) /\ <<>> \in Seq(Addrs)
      /\ <<>> \in Seq([name : Policies, hooked : Addrs \cup {0}]) /\ Len(<<>>) = 0
  BY EmptySeq
<1>2. <<>> \in Cells
  <2>1. {} \in SUBSET Nat /\ <<>> \in [{} -> Nat]
    OBVIOUS
  <2> QED BY <2>1 DEF Cells
<1>3. /\ list \in KextLists /\ DOMAIN list.procs = {} /\ list.procs = <<>> /\ DOMAIN list.next = {}
      /\ halfway \in BOOLEAN
  <2>1. list = [current |-> 1, allproc |-> FALSE, procs |-> <<>>, head |-> 0,
                next |-> <<>>, prev |-> <<>>]
    BY DEF KextInit
  <2>2. list \in KextLists
    BY <1>1, <1>2, <2>1 DEF KextLists
  <2>3. list.procs = <<>> /\ list.next = <<>>
    BY <2>1
  <2>4. halfway \in BOOLEAN
    BY DEF KextInit
  <2> QED BY <2>2, <2>3, <2>4
<1>4. 1..(Len(list.procs) - 1) = {}
  BY <1>1, <1>3
<1>5. ListOK(list, halfway, cleared, dirty)
  BY <1>3, <1>4 DEF ListOK, PidsOK, WholeOK, ApartOK, LinkedOK, HeadOK, FreshOK
<1>6. EventsInv
  <2>1. <<>> \o <<>> = <<>>
    BY <1>1, ConcatEmptySeq
  <2> QED BY <1>1, <2>1 DEF KextInit, EventsInv, JobsAccounted
<1>7. PoliciesInv
  <2>1. DOMAIN policies = {}
    BY DEF KextInit
  <2>2. \A name \in Policies : Found(name) = {}
    BY <2>1 DEF Found
  <2> QED BY <1>1, <2>2 DEF KextInit, PoliciesInv, ChecksLatest
<1> QED BY <1>3, <1>5, <1>6, <1>7 DEF KextInv

LEMMA NextKext == KextInv /\ [KextNext]_kextvars => KextInv'
<1> SUFFICES ASSUME KextInv, [KextNext]_kextvars PROVE KextInv'
  OBVIOUS
<1>1. ListOK(list, halfway, cleared, dirty) /\ halfway \in BOOLEAN /\ EventsInv /\ PoliciesInv
  BY DEF KextInv
<1>2. ASSUME UNCHANGED listvars PROVE ListOK(list, halfway, cleared, dirty)' /\ halfway' \in BOOLEAN
  BY <1>1, <1>2
     DEF listvars, ListOK, PidsOK, WholeOK, ApartOK, LinkedOK, HeadOK, FreshOK
<1>3. CASE ListStep
  <2>1. UNCHANGED eventvars /\ UNCHANGED policyvars
    <3>1. ASSUME NEW pid, NEW writes, EmbedderAdds(pid, writes)
          PROVE  UNCHANGED eventvars /\ UNCHANGED policyvars
      BY <3>1, Zenon DEF EmbedderAdds
    <3>2. ASSUME NEW policyList, NEW allproc, NEW ioKit, NEW writes,
                 LoadKext(policyList, allproc, ioKit, writes)
          PROVE  UNCHANGED eventvars /\ UNCHANGED policyvars
      BY <3>2, Zenon DEF LoadKext
    <3> QED BY <1>3, <3>1, <3>2, Zenon DEF ListStep
  <2>2. ListOK(list, halfway, cleared, dirty)' /\ halfway' \in BOOLEAN
    <3>1. ASSUME NEW pid \in AddedPids, NEW writes \in 0..2, EmbedderAdds(pid, writes)
          PROVE  ListOK(list, halfway, cleared, dirty)' /\ halfway' \in BOOLEAN
      <4>1. pid \in Nat
        BY KextAssumption
      <4> QED BY <3>1, <4>1, AddStep
    <3>2. ASSUME NEW policyList \in BOOLEAN, NEW allproc \in BOOLEAN, NEW ioKit \in BOOLEAN,
                 NEW writes \in 0..6, LoadKext(policyList, allproc, ioKit, writes)
          PROVE  ListOK(list, halfway, cleared, dirty)' /\ halfway' \in BOOLEAN
      BY <3>2, LoadStep
    <3> QED BY <1>3, <3>1, <3>2 DEF ListStep
  <2> QED BY <1>1, <2>1, <2>2, SameEvents, SamePolicies DEF KextInv
<1>4. CASE EventStep
  <2>1. UNCHANGED <<listvars, policyvars>>
    BY <1>4 DEF EventStep, Register, Deregister, EmitNamed, EmitByType, EmitByTypeAndProto, QueueJobs, Trigger
  <2>2. EventsInv'
    <3>1. ASSUME NEW keys \in SUBSET EventKeys, NEW order \in Orders(keys), QueueJobs(order)
          PROVE  EventsInv'
      <4>1. Cardinality(keys) \in Nat
        BY KextAssumption, FS_Subset, FS_CardinalityType
      <4>2. order \in [1..Cardinality(keys) -> EventKeys]
        BY DEF Orders
      <4> QED BY <1>1, <3>1, <4>1, <4>2, QueueStep
    <3>2. ASSUME NEW k \in EventKeys,
                 (\E addr \in Addrs : Register(addr, k)) \/ Deregister(k.name)
          PROVE  EventsInv'
      BY <1>1, <3>2, CallbacksStep
    <3>3. ASSUME NEW k \in EventKeys,
                 \/ EmitNamed(k.name, k.type) \/ EmitByType(k.type)
                 \/ EmitByTypeAndProto(k.type, k.proto)
          PROVE  EventsInv'
      BY <3>1, <3>3, Zenon DEF EmitNamed, EmitByType, EmitByTypeAndProto
    <3>4. ASSUME NEW done \in 0..MaxJobs, Trigger(done) PROVE EventsInv'
      BY <1>1, <3>4, TriggerStep
    <3> QED BY <1>4, <3>2, <3>3, <3>4 DEF EventStep
  <2> QED BY <1>1, <1>2, <2>1, <2>2, SamePolicies DEF KextInv
<1>5. CASE PolicyStep
  <2>1. UNCHANGED <<listvars, eventvars>>
    BY <1>5 DEF PolicyStep, RegisterPolicy, PolicyCheck, HookPolicyCallback
  <2> QED BY <1>1, <1>2, <1>5, <2>1, SameEvents, PolicyStepOK DEF KextInv
<1>6. CASE UNCHANGED kextvars
  BY <1>1, <1>2, <1>6, SameEvents, SamePolicies DEF KextInv, kextvars
<1> QED BY <1>3, <1>4, <1>5, <1>6 DEF KextNext

\* The list, the jobs and the policies are as they are said to be, through loads that
\* fail in any of their writes.
THEOREM KextInvariant == KextSpec => []KextInv
<1> QED BY InitKext, NextKext, PTL DEF KextSpec

\* Who walks the list of processes finds each once and comes back; jobs run once and in
\* order; a check asks the function that was last hooked.
THEOREM KextIsHonest == KextSpec => []KextHonest
<1>1. KextInv => KextHonest
  <2> SUFFICES ASSUME KextInv PROVE ProcsLinked
    BY DEF KextInv, KextHonest, EventsInv, PoliciesInv
  <2> DEFINE procs == list.procs
             n == Len(procs)
  <2>1. /\ ListOK(list, halfway, cleared, dirty) /\ list \in KextLists
    BY DEF KextInv, ListOK
  <2>2. procs \in Seq(ListedOnes)
    BY <2>1 DEF KextLists
  <2>3. n \in Nat /\ DOMAIN procs = 1..n
    BY <2>2, LenProperties
  <2>4. \A i \in 1..n : procs[i].addr \in Nat
    <3>1. \A i \in 1..n : procs[i] \in ListedOnes
      BY <2>2, ElementOfSeq
    <3> QED BY <3>1 DEF ListedOnes
  <2>5. IsInjective([i \in DOMAIN procs |-> procs[i].pid])
    BY <2>1 DEF ListOK, PidsOK, IsInjective
  <2>6. ASSUME ~cleared
        PROVE  /\ \A i \in 1..(n - 1) : /\ At(list.next, procs[i].addr) = procs[i + 1].addr
                                        /\ At(list.prev, procs[i + 1].addr) = procs[i].addr
               /\ \A i \in DOMAIN procs : procs[i].addr + ProcSize + CredSize <= list.current
               /\ procs # <<>> /\ list.allproc => list.head = procs[1].addr
    <3>1. WholeOK(list)
      BY <2>1, <2>6 DEF ListOK
    <3>2. \A i \in 1..n : procs[i].addr + (ProcSize + CredSize) <= list.current
      BY <2>3, <3>1 DEF WholeOK, ApartOK
    <3>3. \A i \in 1..n : procs[i].addr + ProcSize + CredSize <= list.current
      BY <2>4, <3>2 DEF ProcSize, CredSize
    <3> QED BY <2>3, <3>1, <3>3 DEF WholeOK, LinkedOK, HeadOK
  <2>7. ASSUME ~cleared, procs # <<>>, ~dirty, ~halfway PROVE At(list.next, Last(procs).addr) = 0
    <3>1. n \in 1..n /\ Last(procs) = procs[n]
      BY <2>2, <2>7, EmptySeq DEF Last
    <3>2. FreshOK(list, halfway) /\ ApartOK(list)
      BY <2>1, <2>7 DEF ListOK, WholeOK
    <3>3. ASSUME procs[n].addr \in DOMAIN list.next PROVE FALSE
      <4>1. PICK i \in 1..n : procs[n].addr = procs[i].addr /\ (i = n => halfway)
        BY <2>3, <3>2, <3>3 DEF FreshOK
      <4>2. i < n
        BY <2>3, <2>7, <4>1
      <4>3. procs[i].addr + (ProcSize + CredSize) <= procs[n].addr
        BY <2>3, <3>1, <3>2, <4>2 DEF ApartOK
      <4>4. procs[i].addr \in Nat
        BY <2>4
      <4> QED BY <4>1, <4>3, <4>4 DEF ProcSize, CredSize
    <3> QED BY <3>1, <3>3 DEF At
  <2> QED BY <2>5, <2>6, <2>7 DEF ProcsLinked
<1> QED BY <1>1, KextInvariant, PTL

-------------------------------------------------------------------------------
(***************************************************************************)
(* LegacyKqueues: what a kqueue owes is kept by each change, each signal   *)
(* and each event that is handed out, hence by any number of them.         *)
(***************************************************************************)
PipeStates == [bytes : Nat, readClosed : BOOLEAN, writeClosed : BOOLEAN]
EndsOf(n) == [pipe : 1..n, end : {"read", "write"}]
KeysOf(n) == [fd : EndsOf(n), filter : {"read", "write"}]
EventsOf(n) == [key : KeysOf(n), eof : BOOLEAN]
RegsOf(n) == UNION {[K -> Registrations] : K \in {X \in SUBSET KeysOf(n) : IsFiniteSet(X)}}
KqStates(n) == [regs : RegsOf(n), events : Seq(EventsOf(n))]
SignalsOf(n) == [call : {"read", "write", "close"}, fd : EndsOf(n)]

\* What an end-of-file event says, and what a kqueue owes.
Said(ps, key) ==
  IF key.filter = "read" THEN ps[key.fd.pipe].writeClosed /\ ps[key.fd.pipe].bytes = 0
  ELSE ps[key.fd.pipe].readClosed
EofOK(ps, kq) == \A e \in ToSet(kq.events) : e.eof => Said(ps, e.key)
Owed(ps, kq, k) ==
  /\ k \in DOMAIN kq.regs /\ ~kq.regs[k].clear /\ ~kq.regs[k].oneshot
  /\ IsReady(ps, k, kq.regs[k])
Waits(kq, k) == \E e \in ToSet(kq.events) : e.key = k
MissesOnly(ps, kq, M) == \A k : Owed(ps, kq, k) => Waits(kq, k) \/ k \in M

\* What was once true of the end of a pipe stays true.
Onward(a, b) ==
  /\ a.readClosed => b.readClosed
  /\ a.writeClosed => b.writeClosed /\ (a.bytes = 0 => b.bytes = 0)
Later(ps, qs) == \A p \in DOMAIN ps : Onward(ps[p], qs[p])

LEMMA QueuedFacts ==
  ASSUME NEW S, NEW events \in Seq(S), NEW e \in S
  PROVE  /\ Queued(events, e) \in Seq(S)
         /\ ToSet(events) \subseteq ToSet(Queued(events, e))
         /\ ToSet(Queued(events, e)) \subseteq ToSet(events) \cup {e}
         /\ \E x \in ToSet(Queued(events, e)) : x.key = e.key
<1>1. CASE \E i \in DOMAIN events : events[i].key = e.key
  <2>1. Queued(events, e) = events
    BY <1>1 DEF Queued
  <2> QED BY <1>1, <2>1 DEF ToSet
<1>2. CASE ~\E i \in DOMAIN events : events[i].key = e.key
  <2>1. Queued(events, e) = Append(events, e)
    BY <1>2 DEF Queued
  <2> QED BY <2>1, SetOfSeq
<1> QED BY <1>1, <1>2

\* Raising an event: it waits if there is a registration for it.
LEMMA RaisedOK ==
  ASSUME NEW n, NEW ps, NEW kq \in KqStates(n), EofOK(ps, kq), NEW key \in KeysOf(n),
         NEW eof \in BOOLEAN, eof => Said(ps, key), NEW M, NEW alone, alone => MissesOnly(ps, kq, M)
  PROVE  /\ Raised(kq, key, eof) \in KqStates(n) /\ EofOK(ps, Raised(kq, key, eof))
         /\ alone => MissesOnly(ps, Raised(kq, key, eof), M \ {key})
<1> DEFINE r == Raised(kq, key, eof)
<1>1. CASE key \in DOMAIN kq.regs
  <2> DEFINE e == Event(key, eof)
             events == Queued(kq.events, e)
  <2>1. e \in EventsOf(n) /\ e.key = key /\ e.eof = eof
    BY DEF Event, EventsOf
  <2>2. kq.events \in Seq(EventsOf(n)) /\ kq.regs \in RegsOf(n)
    BY DEF KqStates
  <2>3. /\ events \in Seq(EventsOf(n)) /\ ToSet(kq.events) \subseteq ToSet(events)
        /\ ToSet(events) \subseteq ToSet(kq.events) \cup {e}
        /\ \E x \in ToSet(events) : x.key = e.key
    BY <2>1, <2>2, QueuedFacts
  <2>4. r = [kq EXCEPT !.events = events]
    BY <1>1 DEF Raised
  <2> HIDE DEF events, e
  <2>5. r \in KqStates(n) /\ r.events = events /\ r.regs = kq.regs
    BY <2>2, <2>3, <2>4 DEF KqStates
  <2> HIDE DEF r
  <2>6. EofOK(ps, r)
    BY <2>1, <2>3, <2>5 DEF EofOK
  <2>7. ASSUME MissesOnly(ps, kq, M) PROVE MissesOnly(ps, r, M \ {key})
    <3> SUFFICES ASSUME NEW k, Owed(ps, r, k) PROVE Waits(r, k) \/ k \in M \ {key}
      BY DEF MissesOnly
    <3>1. Owed(ps, kq, k)
      BY <2>5 DEF Owed
    <3>2. Waits(kq, k) => Waits(r, k)
      BY <2>3, <2>5 DEF Waits
    <3>3. Waits(r, key)
      BY <2>1, <2>3, <2>5 DEF Waits
    <3> QED BY <2>7, <3>1, <3>2, <3>3 DEF MissesOnly
  <2> QED BY <2>5, <2>6, <2>7 DEF r
<1>2. CASE key \notin DOMAIN kq.regs
  <2>1. r = kq
    BY <1>2 DEF Raised
  <2>2. MissesOnly(ps, kq, M) => MissesOnly(ps, kq, M \ {key})
    BY <1>2 DEF MissesOnly, Owed
  <2> QED BY <2>1, <2>2
<1> QED BY <1>1, <1>2

-------------------------------------------------------------------------------
\* Signals.
LEMMA SaidLater ==
  ASSUME NEW n \in Nat, NEW ps \in Seq(PipeStates), NEW qs, Len(ps) = n, Later(ps, qs),
         NEW kq \in KqStates(n), EofOK(ps, kq)
  PROVE  EofOK(qs, kq)
<1> SUFFICES ASSUME NEW e \in ToSet(kq.events), e.eof PROVE Said(qs, e.key)
  BY DEF EofOK
<1>1. kq.events \in Seq(EventsOf(n))
  BY DEF KqStates
<1>2. e \in EventsOf(n)
  BY <1>1, SetOfSeq
<1>3. e.key.fd.pipe \in 1..n
  BY <1>2 DEF EventsOf, KeysOf, EndsOf
<1>4. DOMAIN ps = 1..n
  BY LenProperties
<1>5. Said(ps, e.key)
  BY DEF EofOK
<1> QED BY <1>3, <1>4, <1>5 DEF Said, Later, Onward

\* The states a kqueue and the pipes pass through while signals are taken.
DrainStates(n, old, alone) ==
  {s \in [pipes : Seq(PipeStates), kq : KqStates(n)] :
     /\ Len(s.pipes) = n /\ Later(old, s.pipes) /\ EofOK(s.pipes, s.kq)
     /\ alone => MissesOnly(s.pipes, s.kq, {})}

LaterPipes(n, old) == {ps \in Seq(PipeStates) : Len(ps) = n /\ Later(old, ps)}
WithPipe(ps, p, pipe) == [ps EXCEPT ![p] = pipe]

\* One pipe changes, and at most its reader is owed something new.
LEMMA PipeChanged ==
  ASSUME NEW n \in Nat, NEW old, DOMAIN old = 1..n, NEW alone, NEW s \in DrainStates(n, old, alone),
         NEW p \in 1..n, NEW pipe \in PipeStates,
         Onward(s.pipes[p], pipe), NEW qs, qs = WithPipe(s.pipes, p, pipe)
  PROVE  /\ qs \in LaterPipes(n, old)
         /\ EofOK(qs, s.kq)
         /\ alone => MissesOnly(qs, s.kq, {ReadKey(p)})
         /\ alone /\ (Readable(pipe) => Readable(s.pipes[p])) => MissesOnly(qs, s.kq, {})
<1> DEFINE ps == s.pipes
<1>1. /\ ps \in Seq(PipeStates) /\ s.kq \in KqStates(n) /\ Len(ps) = n /\ Later(old, ps)
      /\ EofOK(ps, s.kq) /\ (alone => MissesOnly(ps, s.kq, {}))
  BY DEF DrainStates
<1>2. DOMAIN ps = 1..n
  BY <1>1, LenProperties
<1>3. qs \in Seq(PipeStates) /\ Len(qs) = n /\ \A j \in 1..n : qs[j] = IF j = p THEN pipe ELSE ps[j]
  BY <1>1, ExceptSeq DEF WithPipe
<1>4. DOMAIN qs = 1..n
  BY <1>2 DEF WithPipe
<1>5. Later(ps, qs)
  BY <1>2, <1>3 DEF Later, Onward
<1>6. Later(old, qs)
  BY <1>1, <1>2, <1>5 DEF Later, Onward
<1>7. EofOK(qs, s.kq)
  BY <1>1, <1>5, SaidLater
<1>8. ASSUME NEW k, Owed(qs, s.kq, k), ~Owed(ps, s.kq, k)
      PROVE  k = ReadKey(p) /\ Readable(pipe) /\ ~Readable(ps[p])
  <2>1. k \in DOMAIN s.kq.regs /\ IsReady(qs, k, s.kq.regs[k]) /\ ~IsReady(ps, k, s.kq.regs[k])
    BY <1>8 DEF Owed
  <2>2. k.fd.pipe \in 1..n /\ k.filter = k.fd.end /\ k.filter = "read"
    BY <1>2, <1>4, <2>1 DEF IsReady
  <2>3. Readable(qs[k.fd.pipe]) /\ ~Readable(ps[k.fd.pipe])
    BY <1>2, <1>4, <2>1, <2>2 DEF IsReady
  <2>4. k.fd.pipe = p
    BY <1>3, <2>2, <2>3
  <2>5. k \in KeysOf(n)
    <3>1. PICK K \in SUBSET KeysOf(n) : s.kq.regs \in [K -> Registrations]
      BY <1>1 DEF KqStates, RegsOf
    <3> QED BY <2>1, <3>1
  <2>6. k = [fd |-> [pipe |-> p, end |-> "read"], filter |-> "read"]
    BY <2>2, <2>4, <2>5 DEF KeysOf, EndsOf
  <2> QED BY <1>3, <2>2, <2>3, <2>4, <2>6 DEF ReadKey, Key, End
<1>9. alone => MissesOnly(qs, s.kq, {ReadKey(p)})
  BY <1>1, <1>8 DEF MissesOnly
<1>10. alone /\ (Readable(pipe) => Readable(ps[p])) => MissesOnly(qs, s.kq, {})
  BY <1>1, <1>8 DEF MissesOnly
<1> QED BY <1>3, <1>6, <1>7, <1>9, <1>10 DEF LaterPipes

LEMMA KeysAre ==
  ASSUME NEW n \in Nat, NEW fd \in EndsOf(n)
  PROVE  /\ fd.pipe \in 1..n /\ fd.end \in {"read", "write"}
         /\ ReadKey(fd.pipe) \in KeysOf(n) /\ WriteKey(fd.pipe) \in KeysOf(n)
         /\ Key(fd, "write") \in KeysOf(n)
         /\ ReadKey(fd.pipe).filter = "read" /\ ReadKey(fd.pipe).fd.pipe = fd.pipe
         /\ WriteKey(fd.pipe).filter = "write" /\ WriteKey(fd.pipe).fd.pipe = fd.pipe
BY DEF EndsOf, KeysOf, ReadKey, WriteKey, Key, End

LEMMA WriteTaken ==
  ASSUME NEW n \in Nat, NEW old, DOMAIN old = 1..n, NEW alone, NEW s \in DrainStates(n, old, alone),
         NEW fd \in EndsOf(n)
  PROVE  OnWrite(s, fd) \in DrainStates(n, old, alone)
<1> DEFINE p == fd.pipe
           key == Key(fd, "write")
<1>1. /\ s \in [pipes : Seq(PipeStates), kq : KqStates(n)]
      /\ s.pipes \in Seq(PipeStates) /\ s.kq \in KqStates(n) /\ Len(s.pipes) = n /\ Later(old, s.pipes)
      /\ EofOK(s.pipes, s.kq) /\ (alone => MissesOnly(s.pipes, s.kq, {}))
  BY DEF DrainStates
<1>2. p \in 1..n /\ key \in KeysOf(n) /\ ReadKey(p) \in KeysOf(n)
  BY KeysAre
<1>3. s.pipes[p] \in PipeStates
  BY <1>1, <1>2, ElementOfSeq
<1> HIDE DEF key
<1>4. ASSUME NEW t \in DrainStates(n, old, alone)
      PROVE  [t EXCEPT !.kq = Raised(@, key, FALSE)] \in DrainStates(n, old, alone)
  <2> DEFINE r == Raised(t.kq, key, FALSE)
  <2>1. /\ t \in [pipes : Seq(PipeStates), kq : KqStates(n)]
        /\ Len(t.pipes) = n /\ Later(old, t.pipes)
        /\ EofOK(t.pipes, t.kq) /\ (alone => MissesOnly(t.pipes, t.kq, {}))
    BY DEF DrainStates
  <2>2. t.kq \in KqStates(n)
    BY <2>1
  <2>3. r \in KqStates(n) /\ EofOK(t.pipes, r) /\ (alone => MissesOnly(t.pipes, r, {} \ {key}))
    BY <1>2, <2>1, <2>2, RaisedOK
  <2> HIDE DEF r
  <2>4. [t EXCEPT !.kq = r] \in [pipes : Seq(PipeStates), kq : KqStates(n)]
        /\ [t EXCEPT !.kq = r].pipes = t.pipes /\ [t EXCEPT !.kq = r].kq = r
    BY <2>1, <2>3
  <2>5. {} \ {key} = {}
    OBVIOUS
  <2>6. [t EXCEPT !.kq = r] \in DrainStates(n, old, alone)
    BY <2>1, <2>3, <2>4, <2>5 DEF DrainStates
  <2> QED BY <2>6 DEF r
<1>5. CASE fd.end = "write" /\ ~s.pipes[p].writeClosed
  <2> DEFINE pipe == [s.pipes[p] EXCEPT !.bytes = @ + 1]
             qs == [s.pipes EXCEPT ![p] = pipe]
             r == Raised(s.kq, ReadKey(p), FALSE)
             t == [pipes |-> qs, kq |-> r]
  <2>1. pipe \in PipeStates
    BY <1>3 DEF PipeStates
  <2>2. Onward(s.pipes[p], pipe)
    BY <1>3, <1>5 DEF Onward, PipeStates
  <2>3. [s.pipes EXCEPT ![p].bytes = @ + 1] = qs
    OBVIOUS
  <2> HIDE DEF pipe
  <2>a. qs = WithPipe(s.pipes, p, pipe)
    BY DEF WithPipe
  <2>b. qs[p] = pipe
    BY <1>1, <1>2, ExceptSeq
  <2> HIDE DEF qs, p
  <2>4. /\ qs \in LaterPipes(n, old)
        /\ EofOK(qs, s.kq) /\ (alone => MissesOnly(qs, s.kq, {ReadKey(p)}))
    BY <1>2, <2>1, <2>2, <2>a, PipeChanged
  <2>5. r \in KqStates(n) /\ EofOK(qs, r) /\ (alone => MissesOnly(qs, r, {ReadKey(p)} \ {ReadKey(p)}))
    BY <1>1, <1>2, <2>4, RaisedOK
  <2>6. {ReadKey(p)} \ {ReadKey(p)} = {}
    OBVIOUS
  <2> HIDE DEF r
  <2>7. t \in DrainStates(n, old, alone)
    BY <2>4, <2>5, <2>6 DEF DrainStates, LaterPipes
  <2>8. OnWrite(s, fd) = [t EXCEPT !.kq = Raised(@, key, FALSE)]
    BY <1>5, <2>3 DEF OnWrite, p, r, key
  <2> QED BY <1>4, <2>7, <2>8
<1>6. CASE ~(fd.end = "write" /\ ~s.pipes[p].writeClosed)
  <2>1. OnWrite(s, fd) = [s EXCEPT !.kq = Raised(@, key, FALSE)]
    BY <1>6, Zenon DEF OnWrite, key
  <2> QED BY <1>4, <2>1
<1> QED BY <1>5, <1>6

LEMMA ReadTaken ==
  ASSUME NEW n \in Nat, NEW old, DOMAIN old = 1..n, NEW alone, NEW s \in DrainStates(n, old, alone),
         NEW fd \in EndsOf(n)
  PROVE  OnRead(s, fd) \in DrainStates(n, old, alone)
<1> DEFINE p == fd.pipe
           left == IF s.pipes[p].bytes = 0 THEN 0 ELSE s.pipes[p].bytes - 1
           room == Raised(s.kq, WriteKey(p), FALSE)
           pipe == [s.pipes[p] EXCEPT !.bytes = left]
           qs == [s.pipes EXCEPT ![p] = pipe]
           r == IF left > 0 THEN Raised(room, ReadKey(p), FALSE)
                ELSE IF s.pipes[p].writeClosed THEN Raised(room, ReadKey(p), TRUE) ELSE room
<1>1. /\ s.pipes \in Seq(PipeStates) /\ s.kq \in KqStates(n)
      /\ EofOK(s.pipes, s.kq) /\ (alone => MissesOnly(s.pipes, s.kq, {}))
  BY DEF DrainStates
<1>0. Len(s.pipes) = n
  BY DEF DrainStates
<1>2. p \in 1..n /\ WriteKey(p) \in KeysOf(n) /\ ReadKey(p) \in KeysOf(n)
  BY KeysAre
<1>3. s.pipes[p] \in PipeStates
  <2>1. Len(s.pipes) = n
    BY DEF DrainStates
  <2> QED BY <1>1, <1>2, <2>1, ElementOfSeq
<1>4. /\ pipe \in PipeStates /\ Onward(s.pipes[p], pipe)
      /\ pipe.bytes = left /\ pipe.writeClosed = s.pipes[p].writeClosed
  BY <1>3 DEF PipeStates, Onward
<1>5. Readable(pipe) => Readable(s.pipes[p])
  BY <1>3, <1>4 DEF Readable, PipeStates
<1>6. left \in Nat
  BY <1>3 DEF PipeStates
<1>7. CASE fd.end = "read"
  <2>1. [s.pipes EXCEPT ![p].bytes = left] = qs
    OBVIOUS
  <2>2. OnRead(s, fd) = [pipes |-> qs, kq |-> r]
    BY <1>7, <2>1 DEF OnRead
  <2> HIDE DEF pipe, left
  <2>a. qs = WithPipe(s.pipes, p, pipe)
    BY DEF WithPipe
  <2>b. qs[p] = pipe
    BY <1>0, <1>1, <1>2, ExceptSeq
  <2> HIDE DEF qs
  <2>3. /\ qs \in LaterPipes(n, old)
        /\ EofOK(qs, s.kq) /\ (alone => MissesOnly(qs, s.kq, {}))
    <3> HIDE DEF p
    <3> QED BY <1>2, <1>4, <1>5, <2>a, PipeChanged
  <2>4. /\ ReadKey(p).filter = "read" /\ ReadKey(p).fd.pipe = p
    BY KeysAre
  <2> HIDE DEF p
  <2>5. room \in KqStates(n) /\ EofOK(qs, room) /\ (alone => MissesOnly(qs, room, {} \ {WriteKey(p)}))
    BY <1>1, <1>2, <2>3, RaisedOK
  <2>6. {} \ {WriteKey(p)} = {} /\ {} \ {ReadKey(p)} = {}
    OBVIOUS
  <2> HIDE DEF room
  <2>7. ASSUME NEW eof \in BOOLEAN, eof => Said(qs, ReadKey(p))
        PROVE  /\ Raised(room, ReadKey(p), eof) \in KqStates(n) /\ EofOK(qs, Raised(room, ReadKey(p), eof))
               /\ alone => MissesOnly(qs, Raised(room, ReadKey(p), eof), {} \ {ReadKey(p)})
    <3>1. alone => MissesOnly(qs, room, {})
      BY <2>5, <2>6
    <3> QED BY <1>2, <2>5, <2>7, <3>1, RaisedOK
  <2>8. left = 0 /\ s.pipes[p].writeClosed => Said(qs, ReadKey(p))
    BY <1>4, <2>b, <2>4 DEF Said
  <2>9. r \in KqStates(n) /\ EofOK(qs, r) /\ (alone => MissesOnly(qs, r, {}))
    <3>1. CASE left > 0
      <4>1. r = Raised(room, ReadKey(p), FALSE)
        BY <3>1
      <4> QED BY <2>6, <2>7, <4>1
    <3>2. CASE ~(left > 0) /\ s.pipes[p].writeClosed
      <4>1. r = Raised(room, ReadKey(p), TRUE) /\ left = 0
        BY <1>6, <3>2
      <4>2. Said(qs, ReadKey(p))
        BY <2>8, <3>2, <4>1
      <4> QED BY <2>6, <2>7, <4>1, <4>2
    <3>3. CASE ~(left > 0) /\ ~s.pipes[p].writeClosed
      <4>1. r = room
        BY <3>3
      <4> QED BY <2>5, <2>6, <4>1
    <3> QED BY <3>1, <3>2, <3>3
  <2> HIDE DEF r
  <2> QED BY <2>2, <2>3, <2>9 DEF DrainStates, LaterPipes
<1>8. CASE fd.end # "read"
  BY <1>8 DEF OnRead
<1> QED BY <1>7, <1>8

LEMMA CloseTaken ==
  ASSUME NEW n \in Nat, NEW old, DOMAIN old = 1..n, NEW alone, NEW s \in DrainStates(n, old, alone),
         NEW fd \in EndsOf(n)
  PROVE  OnClose(s, fd) \in DrainStates(n, old, alone)
<1> DEFINE p == fd.pipe
<1>1. /\ s.pipes \in Seq(PipeStates) /\ s.kq \in KqStates(n) /\ Len(s.pipes) = n
      /\ EofOK(s.pipes, s.kq) /\ (alone => MissesOnly(s.pipes, s.kq, {}))
  BY DEF DrainStates
<1>2. /\ p \in 1..n /\ WriteKey(p) \in KeysOf(n) /\ ReadKey(p) \in KeysOf(n)
      /\ fd.end \in {"read", "write"}
      /\ ReadKey(p).filter = "read" /\ ReadKey(p).fd.pipe = p
      /\ WriteKey(p).filter = "write" /\ WriteKey(p).fd.pipe = p
  BY KeysAre
<1>3. s.pipes[p] \in PipeStates
  BY <1>1, <1>2, ElementOfSeq
<1>4. CASE fd.end = "write"
  <2> DEFINE pipe == [s.pipes[p] EXCEPT !.writeClosed = TRUE]
             qs == [s.pipes EXCEPT ![p] = pipe]
             eof == (s.pipes[p].bytes = 0)
             r == Raised(s.kq, ReadKey(p), eof)
  <2>1. /\ pipe \in PipeStates /\ Onward(s.pipes[p], pipe)
        /\ pipe.bytes = s.pipes[p].bytes /\ pipe.writeClosed
    BY <1>3 DEF PipeStates, Onward
  <2>2. OnClose(s, fd) = [pipes |-> qs, kq |-> r]
    BY <1>4 DEF OnClose
  <2>a. qs = WithPipe(s.pipes, p, pipe)
    BY DEF WithPipe
  <2>b. qs[p] = pipe
    BY <1>1, <1>2, ExceptSeq
  <2> HIDE DEF pipe, qs, p
  <2>3. /\ qs \in LaterPipes(n, old)
        /\ EofOK(qs, s.kq) /\ (alone => MissesOnly(qs, s.kq, {ReadKey(p)}))
    BY <1>2, <2>1, <2>a, PipeChanged
  <2>4. eof \in BOOLEAN /\ (eof => Said(qs, ReadKey(p)))
    BY <1>2, <2>1, <2>b DEF Said
  <2>5. {ReadKey(p)} \ {ReadKey(p)} = {}
    OBVIOUS
  <2> HIDE DEF eof
  <2>6. r \in KqStates(n) /\ EofOK(qs, r) /\ (alone => MissesOnly(qs, r, {ReadKey(p)} \ {ReadKey(p)}))
    BY <1>1, <1>2, <2>3, <2>4, RaisedOK
  <2> HIDE DEF r
  <2>7. MissesOnly(qs, r, {ReadKey(p)} \ {ReadKey(p)}) => MissesOnly(qs, r, {})
    BY <2>5
  <2> QED BY <2>2, <2>3, <2>6, <2>7 DEF DrainStates, LaterPipes
<1>5. CASE fd.end # "write"
  <2> DEFINE pipe == [s.pipes[p] EXCEPT !.readClosed = TRUE]
             qs == [s.pipes EXCEPT ![p] = pipe]
             r == Raised(s.kq, WriteKey(p), TRUE)
  <2>1. /\ pipe \in PipeStates /\ Onward(s.pipes[p], pipe)
        /\ pipe.writeClosed = s.pipes[p].writeClosed /\ pipe.bytes = s.pipes[p].bytes /\ pipe.readClosed
    BY <1>3 DEF PipeStates, Onward
  <2>2. OnClose(s, fd) = [pipes |-> qs, kq |-> r]
    BY <1>5 DEF OnClose
  <2>3. Readable(pipe) => Readable(s.pipes[p])
    BY <2>1 DEF Readable
  <2>a. qs = WithPipe(s.pipes, p, pipe)
    BY DEF WithPipe
  <2>b. qs[p] = pipe
    BY <1>1, <1>2, ExceptSeq
  <2> HIDE DEF pipe, qs, p
  <2>4. /\ qs \in LaterPipes(n, old)
        /\ EofOK(qs, s.kq) /\ (alone => MissesOnly(qs, s.kq, {}))
    BY <1>2, <2>1, <2>3, <2>a, PipeChanged
  <2>5. Said(qs, WriteKey(p))
    BY <1>2, <2>1, <2>b DEF Said
  <2>6. {} \ {WriteKey(p)} = {}
    OBVIOUS
  <2>7. r \in KqStates(n) /\ EofOK(qs, r) /\ (alone => MissesOnly(qs, r, {} \ {WriteKey(p)}))
    BY <1>1, <1>2, <2>4, <2>5, RaisedOK
  <2> HIDE DEF r
  <2> QED BY <2>2, <2>4, <2>6, <2>7 DEF DrainStates, LaterPipes
<1> QED BY <1>4, <1>5

LEMMA SignalTaken ==
  ASSUME NEW n \in Nat, NEW old, DOMAIN old = 1..n, NEW alone, NEW s \in DrainStates(n, old, alone),
         NEW signal \in SignalsOf(n)
  PROVE  Drained(s, signal) \in DrainStates(n, old, alone)
<1>1. signal.call \in {"read", "write", "close"} /\ signal.fd \in EndsOf(n)
  BY DEF SignalsOf
<1>2. CASE signal.call = "write"
  <2>1. Drained(s, signal) = OnWrite(s, signal.fd)
    BY <1>2 DEF Drained
  <2> QED BY <1>1, <2>1, WriteTaken
<1>3. CASE signal.call = "read"
  <2>1. Drained(s, signal) = OnRead(s, signal.fd)
    BY <1>3 DEF Drained
  <2> QED BY <1>1, <2>1, ReadTaken
<1>4. CASE signal.call = "close"
  <2>1. Drained(s, signal) = OnClose(s, signal.fd)
    BY <1>4 DEF Drained
  <2> QED BY <1>1, <2>1, CloseTaken
<1> QED BY <1>1, <1>2, <1>3, <1>4

DrainsTo(s, signals, f) ==
  f = [n \in 0..Len(signals) |-> IF n = 0 THEN s ELSE Drained(f[n - 1], signals[n])]

\* The bus is emptied: what it owes is told, and nothing that was told becomes false.
LEMMA AllTaken ==
  ASSUME NEW n \in Nat, NEW old, DOMAIN old = 1..n, NEW alone, NEW s \in DrainStates(n, old, alone),
         NEW signals \in Seq(SignalsOf(n))
  PROVE  /\ DrainedAll(s, signals) \in DrainStates(n, old, alone)
         /\ signals = <<>> => DrainedAll(s, signals) = s
<1> DEFINE St == DrainStates(n, old, alone)
           k == Len(signals)
           F == [i \in 1..k |-> [t \in St |-> Drained(t, signals[i])]]
           g == CHOOSE f : DrainsTo(s, signals, f)
<1>1. k \in Nat /\ \A i \in 1..k : signals[i] \in SignalsOf(n)
  BY LenProperties, ElementOfSeq
<1>2. \A i \in 1..k : \A t \in St : Drained(t, signals[i]) \in St
  BY <1>1, SignalTaken
<1> HIDE DEF St
<1>3. F \in [1..k -> [St -> St]]
  BY <1>2
<1>4. s \in St
  BY DEF St
<1>5. PICK f : Stepped(s, F, k, f) /\ \A i \in 0..k : f[i] \in St
  <2> HIDE DEF F, k
  <2> QED BY <1>1, <1>3, <1>4, StepsExist
<1>6. DrainsTo(s, signals, f)
  <2>1. ASSUME NEW i \in 0..k, i # 0 PROVE F[i][f[i - 1]] = Drained(f[i - 1], signals[i])
    <3>1. i \in 1..k /\ i - 1 \in 0..k
      BY <1>1, <2>1
    <3> QED BY <1>5, <3>1
  <2> HIDE DEF F
  <2>2. f = [i \in 0..k |-> IF i = 0 THEN s ELSE Drained(f[i - 1], signals[i])]
    BY <1>5, <2>1 DEF Stepped
  <2> QED BY <2>2 DEF DrainsTo
<1>7. DrainsTo(s, signals, g)
  BY <1>6
<1>8. DrainedAll(s, signals) = g[k]
  BY DEF DrainedAll, DrainsTo
<1> HIDE DEF g
<1>9. g[0] = s /\ \A i \in 1..k : g[i] = Drained(g[i - 1], signals[i])
  BY <1>1, <1>7 DEF DrainsTo
<1>10. \A i \in 0..k : g[i] \in St
  <2> DEFINE Good == [i \in 0..k |-> St]
  <2>0. \A i \in 0..k : Good[i] = St
    OBVIOUS
  <2>1. g[0] \in Good[0] /\ \A i \in 1..k : g[i - 1] \in Good[i - 1] => g[i] \in Good[i]
    <3>1. 0 \in 0..k /\ \A i \in 1..k : i \in 0..k /\ i - 1 \in 0..k
      BY <1>1
    <3> HIDE DEF Good, k
    <3>2. g[0] \in Good[0]
      BY <1>4, <1>9, <2>0, <3>1
    <3>3. ASSUME NEW i \in 1..k, g[i - 1] \in Good[i - 1] PROVE g[i] \in Good[i]
      <4>1. g[i - 1] \in St
        BY <2>0, <3>1, <3>3
      <4>2. g[i] \in St
        BY <1>2, <1>9, <4>1
      <4> QED BY <2>0, <3>1, <4>2
    <3> QED BY <3>2, <3>3
  <2>2. \A i \in 0..k : Good[i] = St
    OBVIOUS
  <2> HIDE DEF Good, k
  <2>3. \A i \in 0..k : g[i] \in Good[i]
    BY <1>1, <2>1, EachStep
  <2> QED BY <2>2, <2>3
<1>11. signals = <<>> => k = 0
  BY EmptySeq
<1> QED BY <1>1, <1>8, <1>9, <1>10, <1>11 DEF St

-------------------------------------------------------------------------------
\* Changes.
LeavesTo(events, keys, f) ==
  f = [n \in 0..Len(events) |->
         IF n = 0 THEN <<>>
         ELSE IF events[n].key \in keys THEN f[n - 1] ELSE Append(f[n - 1], events[n])]

LEMMA WithoutFacts ==
  ASSUME NEW S, NEW events \in Seq(S), NEW keys
  PROVE  /\ Without(events, keys) \in Seq(S)
         /\ ToSet(Without(events, keys)) = {e \in ToSet(events) : e.key \notin keys}
<1> DEFINE St == Seq(S)
           k == Len(events)
           F == [i \in 1..k |-> [t \in St |-> IF events[i].key \in keys THEN t ELSE Append(t, events[i])]]
           g == CHOOSE f : LeavesTo(events, keys, f)
<1>1. k \in Nat /\ \A i \in 1..k : events[i] \in S
  BY LenProperties, ElementOfSeq
<1>2. \A i \in 1..k : \A t \in St : Append(t, events[i]) \in St
  BY <1>1, AppendProperties
<1>3. <<>> \in St
  BY EmptySeq
<1>4. F \in [1..k -> [St -> St]]
  <2> HIDE DEF St
  <2> QED BY <1>2
<1>5. PICK f : Stepped(<<>>, F, k, f) /\ \A i \in 0..k : f[i] \in St
  <2> HIDE DEF F, k, St
  <2> QED BY <1>1, <1>3, <1>4, StepsExist
<1>6. LeavesTo(events, keys, f)
  <2> HIDE DEF St
  <2>1. ASSUME NEW i \in 0..k, i # 0
        PROVE  F[i][f[i - 1]] = IF events[i].key \in keys THEN f[i - 1] ELSE Append(f[i - 1], events[i])
    <3>1. i \in 1..k /\ i - 1 \in 0..k
      BY <1>1, <2>1
    <3> QED BY <1>5, <3>1
  <2> HIDE DEF F
  <2>2. f = [i \in 0..k |-> IF i = 0 THEN <<>>
                            ELSE IF events[i].key \in keys THEN f[i - 1] ELSE Append(f[i - 1], events[i])]
    BY <1>5, <2>1 DEF Stepped
  <2> QED BY <2>2 DEF LeavesTo
<1>7. LeavesTo(events, keys, g)
  BY <1>6
<1>8. Without(events, keys) = g[k]
  BY DEF Without, LeavesTo
<1> HIDE DEF g
<1>9. g[0] = <<>> /\ \A i \in 1..k : g[i] = IF events[i].key \in keys THEN g[i - 1] ELSE Append(g[i - 1], events[i])
  <2> DEFINE V(i) == IF i = 0 THEN <<>>
                     ELSE IF events[i].key \in keys THEN g[i - 1] ELSE Append(g[i - 1], events[i])
  <2>1. g = [i \in 0..k |-> V(i)]
    BY <1>7 DEF LeavesTo
  <2> HIDE DEF V, k
  <2>2. \A i \in 0..k : g[i] = V(i)
    BY <2>1
  <2>3. 0 \in 0..k /\ \A i \in 1..k : i \in 0..k /\ i # 0
    BY <1>1
  <2> QED BY <2>2, <2>3 DEF V
<1> DEFINE Left(i) == {events[j] : j \in {m \in 1..i : events[m].key \notin keys}}
           Good == [i \in 0..k |-> {t \in Seq(S) : ToSet(t) = Left(i)}]
<1>10. \A i \in 0..k : g[i] \in Good[i]
  <2>1. g[0] \in Good[0]
    <3>1. ToSet(<<>>) = {} /\ Left(0) = {} /\ 0 \in 0..k
      BY <1>1 DEF ToSet
    <3> QED BY <1>3, <1>9, <3>1
  <2>2. ASSUME NEW i \in 1..k, g[i - 1] \in Good[i - 1] PROVE g[i] \in Good[i]
    <3>1. i - 1 \in 0..k /\ i \in 0..k /\ \A m : m \in 1..i <=> m \in 1..(i - 1) \/ m = i
      BY <1>1
    <3>2. g[i - 1] \in Seq(S) /\ ToSet(g[i - 1]) = Left(i - 1)
      BY <2>2, <3>1
    <3>3. CASE events[i].key \in keys
      <4>1. Left(i) = Left(i - 1)
        BY <3>1, <3>3
      <4> QED BY <1>9, <3>1, <3>2, <3>3, <4>1
    <3>4. CASE events[i].key \notin keys
      <4>1. Left(i) = Left(i - 1) \cup {events[i]}
        BY <3>1, <3>4
      <4> HIDE DEF Left
      <4>2. /\ Append(g[i - 1], events[i]) \in Seq(S)
            /\ ToSet(Append(g[i - 1], events[i])) = ToSet(g[i - 1]) \cup {events[i]}
        BY <1>1, <3>2, SetOfSeq
      <4> QED BY <1>9, <3>1, <3>2, <3>4, <4>1, <4>2
    <3> QED BY <3>3, <3>4
  <2> HIDE DEF Good, k
  <2> QED BY <1>1, <2>1, <2>2, EachStep
<1>11. g[k] \in Seq(S) /\ ToSet(g[k]) = Left(k)
  BY <1>1, <1>10
<1>12. ToSet(events) = {events[i] : i \in 1..k}
  BY SetOfSeq
<1> QED BY <1>8, <1>11, <1>12

GoodKqs(n, ps, alone) == {kq \in KqStates(n) : EofOK(ps, kq) /\ (alone => MissesOnly(ps, kq, {}))}
ChangesOf(n) == [verb : {"add", "delete"}, key : KeysOf(n), flags : Registrations]

LEMMA RegsAre ==
  ASSUME NEW n, NEW regs \in RegsOf(n)
  PROVE  /\ IsFiniteSet(DOMAIN regs) /\ DOMAIN regs \subseteq KeysOf(n)
         /\ \A k \in DOMAIN regs : regs[k] \in Registrations
BY DEF RegsOf

LEMMA RegsMade ==
  ASSUME NEW n, NEW K \in SUBSET KeysOf(n), IsFiniteSet(K), NEW regs \in [K -> Registrations]
  PROVE  regs \in RegsOf(n)
BY DEF RegsOf

\* What is told of an end that is ready is true.
LEMMA ReadyIsTrue ==
  ASSUME NEW n \in Nat, NEW ps \in Seq(PipeStates), NEW key \in KeysOf(n), NEW reg, IsReady(ps, key, reg)
  PROVE  /\ ReadyEvent(ps, key) \in EventsOf(n) /\ ReadyEvent(ps, key).key = key
         /\ ReadyEvent(ps, key).eof => Said(ps, key)
<1>1. key.fd.pipe \in DOMAIN ps /\ (key.filter = "read" => Readable(ps[key.fd.pipe]))
  BY DEF IsReady
<1>2. ps[key.fd.pipe] \in PipeStates
  BY <1>1, LenProperties, ElementOfSeq
<1>3. key.filter \in {"read", "write"}
  BY DEF KeysOf
<1>4. CASE key.filter = "read"
  <2> DEFINE pipe == ps[key.fd.pipe]
             none == (pipe.bytes = 0)
  <2>1. ReadyEvent(ps, key) = [key |-> key, eof |-> none] /\ none \in BOOLEAN
    BY <1>4 DEF ReadyEvent, Event
  <2>2. pipe.bytes = 0 => pipe.writeClosed
    BY <1>1, <1>4 DEF Readable
  <2> HIDE DEF pipe, none
  <2>3. ReadyEvent(ps, key) \in EventsOf(n) /\ ReadyEvent(ps, key).key = key
        /\ (ReadyEvent(ps, key).eof = none)
    BY <2>1 DEF EventsOf
  <2> QED BY <1>4, <2>2, <2>3 DEF Said, pipe, none
<1>5. CASE key.filter = "write"
  BY <1>1, <1>2, <1>5 DEF ReadyEvent, Event, EventsOf, Said, PipeStates
<1> QED BY <1>3, <1>4, <1>5

\* One change keeps what the kqueue owes.
LEMMA ChangeKept ==
  ASSUME NEW n \in Nat, pipes \in Seq(PipeStates), NEW alone, NEW kq \in GoodKqs(n, pipes, alone),
         NEW change \in ChangesOf(n)
  PROVE  Changed(kq, change) \in GoodKqs(n, pipes, alone)
<1> DEFINE key == change.key
           r == Changed(kq, change)
<1>1. /\ kq.regs \in RegsOf(n) /\ kq.events \in Seq(EventsOf(n)) /\ EofOK(pipes, kq)
      /\ (alone => MissesOnly(pipes, kq, {}))
  BY DEF GoodKqs, KqStates
<1>2. key \in KeysOf(n) /\ change.flags \in Registrations /\ change.verb \in {"add", "delete"}
  BY DEF ChangesOf
<1>3. /\ IsFiniteSet(DOMAIN kq.regs) /\ DOMAIN kq.regs \subseteq KeysOf(n)
      /\ \A k \in DOMAIN kq.regs : kq.regs[k] \in Registrations
  BY <1>1, RegsAre
<1>4. CASE change.verb = "delete"
  <2> DEFINE K == DOMAIN kq.regs \ {key}
             regs == [k \in K |-> kq.regs[k]]
             events == Without(kq.events, {key})
  <2>1. r = [regs |-> regs, events |-> events]
    BY <1>4 DEF Changed
  <2>2. events \in Seq(EventsOf(n)) /\ ToSet(events) = {e \in ToSet(kq.events) : e.key \notin {key}}
    BY <1>1, WithoutFacts
  <2>3. K \in SUBSET KeysOf(n) /\ IsFiniteSet(K) /\ regs \in [K -> Registrations]
    BY <1>3, FS_RemoveElement
  <2>4. regs \in RegsOf(n)
    <3> HIDE DEF regs, K
    <3> QED BY <2>3, RegsMade
  <2>5. \A k : k \in DOMAIN regs => k \in DOMAIN kq.regs /\ k # key /\ regs[k] = kq.regs[k]
    OBVIOUS
  <2> HIDE DEF events, regs, r, key
  <2>6. r \in KqStates(n) /\ r.regs = regs /\ r.events = events
    BY <2>1, <2>2, <2>4 DEF KqStates
  <2>7. EofOK(pipes, r)
    BY <1>1, <2>2, <2>6 DEF EofOK
  <2>8. ASSUME MissesOnly(pipes, kq, {}) PROVE MissesOnly(pipes, r, {})
    <3> SUFFICES ASSUME NEW k, Owed(pipes, r, k) PROVE Waits(r, k)
      BY DEF MissesOnly
    <3>1. Owed(pipes, kq, k) /\ k # key
      BY <2>5, <2>6 DEF Owed
    <3>2. Waits(kq, k)
      BY <2>8, <3>1 DEF MissesOnly
    <3> QED BY <2>2, <2>6, <3>1, <3>2 DEF Waits
  <2> QED BY <1>1, <2>6, <2>7, <2>8 DEF GoodKqs, r
<1>5. CASE change.verb = "add"
  <2> DEFINE K == DOMAIN kq.regs \cup {key}
             regs == [k \in K |-> IF k = key THEN change.flags ELSE kq.regs[k]]
             e == ReadyEvent(pipes, key)
             ready == IsReady(pipes, key, change.flags)
             events == IF ready THEN Queued(kq.events, e) ELSE kq.events
  <2>1. r = [regs |-> regs, events |-> events]
    BY <1>5 DEF Changed
  <2>2. K \in SUBSET KeysOf(n) /\ IsFiniteSet(K) /\ regs \in [K -> Registrations]
    BY <1>2, <1>3, FS_AddElement
  <2>3. regs \in RegsOf(n)
    <3> HIDE DEF regs, K
    <3> QED BY <2>2, RegsMade
  <2>4. /\ \A k : k \in DOMAIN regs /\ k # key => k \in DOMAIN kq.regs /\ regs[k] = kq.regs[k]
        /\ regs[key] = change.flags
    OBVIOUS
  <2>5. ready => e \in EventsOf(n) /\ e.key = key /\ (e.eof => Said(pipes, key))
    BY <1>2, ReadyIsTrue
  <2> HIDE DEF e
  <2>6. /\ events \in Seq(EventsOf(n)) /\ ToSet(kq.events) \subseteq ToSet(events)
        /\ \A x \in ToSet(events) : x \in ToSet(kq.events) \/ (ready /\ x = e)
        /\ ready => \E x \in ToSet(events) : x.key = key
    <3>1. CASE ready
      <4>1. events = Queued(kq.events, e)
        BY <3>1
      <4> HIDE DEF events, ready
      <4>2. /\ Queued(kq.events, e) \in Seq(EventsOf(n))
            /\ ToSet(kq.events) \subseteq ToSet(Queued(kq.events, e))
            /\ ToSet(Queued(kq.events, e)) \subseteq ToSet(kq.events) \cup {e}
            /\ \E x \in ToSet(Queued(kq.events, e)) : x.key = e.key
        BY <1>1, <2>5, <3>1, QueuedFacts
      <4> QED BY <2>5, <3>1, <4>1, <4>2
    <3>2. CASE ~ready
      <4>1. events = kq.events
        BY <3>2
      <4> QED BY <1>1, <3>2, <4>1
    <3> QED BY <3>1, <3>2
  <2> HIDE DEF events, regs, r, key
  <2>7. r \in KqStates(n) /\ r.regs = regs /\ r.events = events
    BY <2>1, <2>3, <2>6 DEF KqStates
  <2>8. EofOK(pipes, r)
    BY <1>1, <2>5, <2>6, <2>7 DEF EofOK
  <2>9. ASSUME MissesOnly(pipes, kq, {}) PROVE MissesOnly(pipes, r, {})
    <3> SUFFICES ASSUME NEW k, Owed(pipes, r, k) PROVE Waits(r, k)
      BY DEF MissesOnly
    <3>1. CASE k = key
      <4>1. ready
        BY <2>4, <2>7, <3>1 DEF Owed
      <4> QED BY <2>6, <2>7, <3>1, <4>1 DEF Waits
    <3>2. CASE k # key
      <4>1. Owed(pipes, kq, k)
        BY <2>4, <2>7, <3>2 DEF Owed
      <4>2. Waits(kq, k)
        BY <2>9, <4>1 DEF MissesOnly
      <4> QED BY <2>6, <2>7, <4>2 DEF Waits
    <3> QED BY <3>1, <3>2
  <2> QED BY <1>1, <2>7, <2>8, <2>9 DEF GoodKqs, r
<1> QED BY <1>2, <1>4, <1>5

ChangesTo(kq, changes, f) ==
  f = [n \in 0..Len(changes) |-> IF n = 0 THEN kq ELSE Changed(f[n - 1], changes[n])]

LEMMA AllChanged ==
  ASSUME NEW n \in Nat, pipes \in Seq(PipeStates), NEW alone, NEW kq \in GoodKqs(n, pipes, alone),
         NEW changes \in Seq(ChangesOf(n))
  PROVE  ChangedAll(kq, changes) \in GoodKqs(n, pipes, alone)
<1> DEFINE St == GoodKqs(n, pipes, alone)
           k == Len(changes)
           F == [i \in 1..k |-> [t \in St |-> Changed(t, changes[i])]]
           g == CHOOSE f : ChangesTo(kq, changes, f)
<1>1. k \in Nat /\ \A i \in 1..k : changes[i] \in ChangesOf(n)
  BY LenProperties, ElementOfSeq
<1>2. \A i \in 1..k : \A t \in St : Changed(t, changes[i]) \in St
  BY <1>1, ChangeKept
<1> HIDE DEF St
<1>3. F \in [1..k -> [St -> St]]
  BY <1>2
<1>4. kq \in St
  BY DEF St
<1>5. PICK f : Stepped(kq, F, k, f) /\ \A i \in 0..k : f[i] \in St
  <2> HIDE DEF F, k
  <2> QED BY <1>1, <1>3, <1>4, StepsExist
<1>6. ChangesTo(kq, changes, f)
  <2>1. ASSUME NEW i \in 0..k, i # 0 PROVE F[i][f[i - 1]] = Changed(f[i - 1], changes[i])
    <3>1. i \in 1..k /\ i - 1 \in 0..k
      BY <1>1, <2>1
    <3> QED BY <1>5, <3>1
  <2> HIDE DEF F
  <2>2. f = [i \in 0..k |-> IF i = 0 THEN kq ELSE Changed(f[i - 1], changes[i])]
    BY <1>5, <2>1 DEF Stepped
  <2> QED BY <2>2 DEF ChangesTo
<1>7. ChangesTo(kq, changes, g)
  BY <1>6
<1>8. ChangedAll(kq, changes) = g[k]
  BY DEF ChangedAll, ChangesTo
<1> HIDE DEF g
<1>9. g[0] = kq /\ \A i \in 1..k : g[i] = Changed(g[i - 1], changes[i])
  BY <1>1, <1>7 DEF ChangesTo
<1>10. \A i \in 0..k : g[i] \in St
  <2> DEFINE Good == [i \in 0..k |-> St]
  <2>0. \A i \in 0..k : Good[i] = St
    OBVIOUS
  <2>1. g[0] \in Good[0] /\ \A i \in 1..k : g[i - 1] \in Good[i - 1] => g[i] \in Good[i]
    <3>1. 0 \in 0..k /\ \A i \in 1..k : i \in 0..k /\ i - 1 \in 0..k
      BY <1>1
    <3> HIDE DEF Good, k
    <3>2. g[0] \in Good[0]
      BY <1>4, <1>9, <2>0, <3>1
    <3>3. ASSUME NEW i \in 1..k, g[i - 1] \in Good[i - 1] PROVE g[i] \in Good[i]
      <4>1. g[i - 1] \in St
        BY <2>0, <3>1, <3>3
      <4>2. g[i] \in St
        BY <1>2, <1>9, <4>1
      <4> QED BY <2>0, <3>1, <4>2
    <3> QED BY <3>2, <3>3
  <2>2. \A i \in 0..k : Good[i] = St
    OBVIOUS
  <2> HIDE DEF Good, k
  <2>3. \A i \in 0..k : g[i] \in Good[i]
    BY <1>1, <2>1, EachStep
  <2> QED BY <2>2, <2>3
<1> QED BY <1>1, <1>8, <1>10 DEF St

-------------------------------------------------------------------------------
\* An empty queue is filled with what is ready.
LEMMA Seeded ==
  ASSUME NEW n \in Nat, NEW ps \in Seq(PipeStates), NEW alone, NEW kq \in GoodKqs(n, ps, alone),
         NEW events \in Seeds(ps, kq)
  PROVE  /\ events \in Seq(EventsOf(n)) /\ \A e \in ToSet(events) : e.eof => Said(ps, e.key)
         /\ alone => \A k : Owed(ps, kq, k) => \E e \in ToSet(events) : e.key = k
<1>1. /\ kq.regs \in RegsOf(n) /\ kq.events \in Seq(EventsOf(n)) /\ EofOK(ps, kq)
      /\ (alone => MissesOnly(ps, kq, {}))
  BY DEF GoodKqs, KqStates
<1>2. CASE kq.events # <<>>
  <2>1. events = kq.events
    BY <1>2 DEF Seeds
  <2> QED BY <1>1, <2>1 DEF EofOK, MissesOnly, Waits
<1>3. CASE kq.events = <<>>
  <2> DEFINE R == {k \in DOMAIN kq.regs : IsReady(ps, k, kq.regs[k])}
             D == 1..Cardinality(R)
  <2>1. PICK keys \in SetToSeqs(R) : events = [i \in DOMAIN keys |-> ReadyEvent(ps, keys[i])]
    BY <1>3 DEF Seeds
  <2>2. IsFiniteSet(R) /\ R \subseteq KeysOf(n)
    BY <1>1, RegsAre, FS_Subset
  <2>3. \A k \in R : IsReady(ps, k, kq.regs[k])
    OBVIOUS
  <2>4. \A k : Owed(ps, kq, k) => k \in R
    BY DEF Owed
  <2> HIDE DEF R
  <2>5. keys \in [D -> R] /\ \A i, j \in D : i # j => keys[i] # keys[j]
    BY <2>1 DEF SetToSeqs
  <2>6. Cardinality(R) \in Nat /\ Cardinality(D) = Cardinality(R)
    BY <2>2, FS_CardinalityType, FS_Interval
  <2>7. keys \in Injection(D, R)
    BY <2>5 DEF Injection, IsInjective
  <2> HIDE DEF D
  <2>8. keys \in Surjection(D, R)
    BY <2>2, <2>6, <2>7, FS_Injection
  <2>9. \A k \in R : \E i \in D : keys[i] = k
    BY <2>8 DEF Surjection
  <2>10. \A k \in R : ReadyEvent(ps, k) \in EventsOf(n) /\ ReadyEvent(ps, k).key = k
                      /\ (ReadyEvent(ps, k).eof => Said(ps, k))
    BY <2>2, <2>3, ReadyIsTrue
  <2>11. events = [i \in D |-> ReadyEvent(ps, keys[i])] /\ \A i \in D : keys[i] \in R
    BY <2>1, <2>5
  <2>12. events \in Seq(EventsOf(n)) /\ ToSet(events) = {ReadyEvent(ps, k) : k \in R}
    <3>1. events \in [D -> EventsOf(n)]
      BY <2>10, <2>11
    <3>2. events \in Seq(EventsOf(n))
      BY <2>6, <3>1 DEF D
    <3>3. ToSet(events) = {events[i] : i \in D}
      BY <3>1 DEF ToSet
    <3> QED BY <2>9, <2>11, <3>2, <3>3
  <2>13. \A e \in ToSet(events) : e.eof => Said(ps, e.key)
    BY <2>10, <2>12
  <2>14. \A k : Owed(ps, kq, k) => \E e \in ToSet(events) : e.key = k
    BY <2>4, <2>10, <2>12
  <2> QED BY <2>12, <2>13, <2>14
<1> QED BY <1>2, <1>3

PopsTo(kq, events, room, f) ==
  f = [n \in 0..Len(events) |->
         IF n = 0 THEN [regs |-> kq.regs, out |-> 0, once |-> {}, kept |-> <<>>]
         ELSE Popped(f[n - 1], events[n], room)]
\* A registration that is reported as long as its end is ready.
Lasts(regs, k) == k \in DOMAIN regs /\ ~regs[k].clear /\ ~regs[k].oneshot /\ regs[k].enabled
\* The events of a queue on their way to the guest: those before i were popped.
PopStates(n, regs) ==
  {s \in [regs : {regs}, out : Nat, once : SUBSET KeysOf(n), kept : Seq(EventsOf(n))] :
     \A k \in s.once : ~Lasts(regs, k)}
Popping(n, regs, events, i) ==
  {s \in PopStates(n, regs) :
     /\ ToSet(s.kept) \subseteq ToSet(events)
     /\ \A j \in 1..i : Lasts(regs, events[j].key) => \E e \in ToSet(s.kept) : e.key = events[j].key}

LEMMA PopKept ==
  ASSUME NEW n \in Nat, NEW regs, NEW room, NEW s \in PopStates(n, regs), NEW event \in EventsOf(n)
  PROVE  LET t == Popped(s, event, room)
         IN /\ t \in PopStates(n, regs)
            /\ ToSet(s.kept) \subseteq ToSet(t.kept)
            /\ ToSet(t.kept) \subseteq ToSet(s.kept) \cup {event}
            /\ Lasts(regs, event.key) => event \in ToSet(t.kept)
<1> DEFINE t == Popped(s, event, room)
           kept == Append(s.kept, event)
<1>1. /\ s.regs = regs /\ s.out \in Nat /\ s.once \in SUBSET KeysOf(n) /\ s.kept \in Seq(EventsOf(n))
      /\ \A k \in s.once : ~Lasts(regs, k)
      /\ s = [regs |-> regs, out |-> s.out, once |-> s.once, kept |-> s.kept]
  BY DEF PopStates
<1>2. event.key \in KeysOf(n)
  BY DEF EventsOf
<1>3. kept \in Seq(EventsOf(n)) /\ ToSet(kept) = ToSet(s.kept) \cup {event}
  BY <1>1, SetOfSeq
<1> HIDE DEF kept
<1>4. CASE s.out = room
  <2>1. t = [regs |-> regs, out |-> s.out, once |-> s.once, kept |-> kept]
    BY <1>1, <1>4 DEF Popped, kept
  <2> HIDE DEF t
  <2>2. t \in PopStates(n, regs) /\ t.kept = kept
    BY <1>1, <1>3, <2>1 DEF PopStates
  <2> QED BY <1>3, <2>2 DEF t
<1>5. CASE s.out # room /\ (event.key \notin DOMAIN regs \/ ~regs[event.key].enabled)
  <2>1. t = s
    BY <1>1, <1>5 DEF Popped
  <2>2. ~Lasts(regs, event.key)
    BY <1>5 DEF Lasts
  <2> QED BY <2>1, <2>2
<1>6. CASE s.out # room /\ event.key \in DOMAIN regs /\ regs[event.key].enabled
  <2> DEFINE reg == regs[event.key]
             once == IF reg.oneshot THEN s.once \cup {event.key} ELSE s.once
             left == IF reg.oneshot \/ reg.clear THEN s.kept ELSE kept
  <2>1. t = [regs |-> regs, out |-> s.out + 1, once |-> once, kept |-> left]
    BY <1>1, <1>6, Zenon DEF Popped, kept
  <2>2. once \in SUBSET KeysOf(n) /\ \A k \in once : ~Lasts(regs, k)
    BY <1>1, <1>2 DEF Lasts
  <2>3. /\ left \in Seq(EventsOf(n)) /\ ToSet(s.kept) \subseteq ToSet(left)
        /\ ToSet(left) \subseteq ToSet(s.kept) \cup {event}
        /\ Lasts(regs, event.key) => event \in ToSet(left)
    BY <1>1, <1>3 DEF Lasts
  <2> HIDE DEF once, left, t
  <2>4. t \in PopStates(n, regs) /\ t.kept = left
    BY <1>1, <2>1, <2>2, <2>3 DEF PopStates
  <2> QED BY <2>3, <2>4 DEF t
<1> QED BY <1>4, <1>5, <1>6

LEMMA AllPopped ==
  ASSUME NEW n \in Nat, NEW kq, NEW room, NEW events \in Seq(EventsOf(n))
  PROVE  \E g : /\ PopsTo(kq, events, room, g) /\ g = (CHOOSE f : PopsTo(kq, events, room, f))
                /\ g[Len(events)] \in Popping(n, kq.regs, events, Len(events))
<1> DEFINE St == PopStates(n, kq.regs)
           s0 == [regs |-> kq.regs, out |-> 0, once |-> {}, kept |-> <<>>]
           k == Len(events)
           F == [i \in 1..k |-> [t \in St |-> Popped(t, events[i], room)]]
           g == CHOOSE f : PopsTo(kq, events, room, f)
<1>1. k \in Nat /\ \A i \in 1..k : events[i] \in EventsOf(n)
  BY LenProperties, ElementOfSeq
<1>2. \A i \in 1..k : \A t \in St : Popped(t, events[i], room) \in St
  BY <1>1, PopKept
<1>3. s0 \in St /\ ToSet(s0.kept) = {}
  <2>1. <<>> \in Seq(EventsOf(n)) /\ ToSet(<<>>) = {}
    BY EmptySeq DEF ToSet
  <2> QED BY <2>1 DEF PopStates
<1>4. F \in [1..k -> [St -> St]]
  <2> HIDE DEF St
  <2> QED BY <1>2
<1>5. PICK f : Stepped(s0, F, k, f) /\ \A i \in 0..k : f[i] \in St
  <2> HIDE DEF F, k, s0, St
  <2> QED BY <1>1, <1>3, <1>4, StepsExist
<1>6. PopsTo(kq, events, room, f)
  <2> HIDE DEF St
  <2>1. ASSUME NEW i \in 0..k, i # 0 PROVE F[i][f[i - 1]] = Popped(f[i - 1], events[i], room)
    <3>1. i \in 1..k /\ i - 1 \in 0..k
      BY <1>1, <2>1
    <3> QED BY <1>5, <3>1
  <2> HIDE DEF F, s0
  <2>2. f = [i \in 0..k |-> IF i = 0 THEN s0 ELSE Popped(f[i - 1], events[i], room)]
    BY <1>5, <2>1 DEF Stepped
  <2> QED BY <2>2 DEF PopsTo, s0
<1>7. PopsTo(kq, events, room, g)
  BY <1>6
<1> HIDE DEF g
<1>8. g[0] = s0 /\ \A i \in 1..k : g[i] = Popped(g[i - 1], events[i], room)
  <2> HIDE DEF s0
  <2>1. g = [i \in 0..k |-> IF i = 0 THEN s0 ELSE Popped(g[i - 1], events[i], room)]
    BY <1>7 DEF PopsTo, s0
  <2>2. 0 \in 0..k /\ \A i \in 1..k : i \in 0..k /\ i # 0
    BY <1>1
  <2> QED BY <2>1, <2>2
<1> DEFINE Good == [i \in 0..k |-> Popping(n, kq.regs, events, i)]
<1>9. g[0] \in Good[0]
  <2>1. 0 \in 0..k /\ 1..0 = {}
    BY <1>1
  <2> HIDE DEF s0
  <2> QED BY <1>3, <1>8, <2>1 DEF Popping
<1>10. ASSUME NEW i \in 1..k, g[i - 1] \in Good[i - 1] PROVE g[i] \in Good[i]
  <2> DEFINE s == g[i - 1]
             t == g[i]
  <2>1. i - 1 \in 0..k /\ i \in 0..k /\ \A m : m \in 1..i <=> m \in 1..(i - 1) \/ m = i
    BY <1>1
  <2>2. s \in Popping(n, kq.regs, events, i - 1)
    BY <1>10, <2>1
  <2>3. t = Popped(s, events[i], room)
    BY <1>8
  <2> HIDE DEF Good, s, t
  <2>4. /\ t \in PopStates(n, kq.regs) /\ ToSet(s.kept) \subseteq ToSet(t.kept)
        /\ ToSet(t.kept) \subseteq ToSet(s.kept) \cup {events[i]}
        /\ Lasts(kq.regs, events[i].key) => events[i] \in ToSet(t.kept)
    BY <1>1, <2>2, <2>3, PopKept DEF Popping
  <2>5. events[i] \in ToSet(events)
    <3>1. ToSet(events) = {events[j] : j \in 1..k}
      BY SetOfSeq
    <3> QED BY <3>1
  <2>6. t \in Popping(n, kq.regs, events, i)
    BY <2>1, <2>2, <2>4, <2>5 DEF Popping
  <2> QED BY <2>1, <2>6 DEF Good, t
<1>11. \A i \in 0..k : g[i] \in Good[i]
  <2> HIDE DEF Good, k
  <2> QED BY <1>1, <1>9, <1>10, EachStep
<1>12. g[k] \in Popping(n, kq.regs, events, k)
  BY <1>1, <1>11
<1> QED BY <1>7, <1>12 DEF g

\* The events that were handed out leave what the kqueue owes in its queue.
LEMMA EmittedOK ==
  ASSUME NEW n \in Nat, NEW ps \in Seq(PipeStates), NEW alone, NEW kq \in GoodKqs(n, ps, alone), NEW room,
         NEW events \in Seeds(ps, kq)
  PROVE  Emitted(kq, events, room) \in GoodKqs(n, ps, alone)
<1> DEFINE g == CHOOSE f : PopsTo(kq, events, room, f)
           s == g[Len(events)]
           K == DOMAIN kq.regs \ s.once
           regs == [k \in K |-> kq.regs[k]]
           left == Without(s.kept, s.once)
           r == Emitted(kq, events, room)
<1>1. /\ events \in Seq(EventsOf(n)) /\ \A e \in ToSet(events) : e.eof => Said(ps, e.key)
      /\ alone => \A k : Owed(ps, kq, k) => \E e \in ToSet(events) : e.key = k
  BY Seeded
<1>2. r = [regs |-> regs, events |-> left]
  BY DEF Emitted, PopsTo
<1>3. s \in Popping(n, kq.regs, events, Len(events))
  BY <1>1, AllPopped
<1> HIDE DEF g, s
<1>4. /\ s.kept \in Seq(EventsOf(n)) /\ ToSet(s.kept) \subseteq ToSet(events)
      /\ \A k \in s.once : ~Lasts(kq.regs, k)
      /\ \A j \in 1..Len(events) :
           Lasts(kq.regs, events[j].key) => \E e \in ToSet(s.kept) : e.key = events[j].key
  BY <1>3 DEF Popping, PopStates
<1>5. left \in Seq(EventsOf(n)) /\ ToSet(left) = {e \in ToSet(s.kept) : e.key \notin s.once}
  BY <1>4, WithoutFacts
<1>6. kq.regs \in RegsOf(n)
  BY DEF GoodKqs, KqStates
<1>7. regs \in RegsOf(n)
  <2>1. /\ IsFiniteSet(DOMAIN kq.regs) /\ DOMAIN kq.regs \subseteq KeysOf(n)
        /\ \A k \in DOMAIN kq.regs : kq.regs[k] \in Registrations
    BY <1>6, RegsAre
  <2>2. K \in SUBSET KeysOf(n) /\ IsFiniteSet(K) /\ regs \in [K -> Registrations]
    BY <2>1, FS_Subset
  <2> HIDE DEF regs, K
  <2> QED BY <2>2, RegsMade
<1>8. \A k : k \in DOMAIN regs => k \in DOMAIN kq.regs /\ k \notin s.once /\ regs[k] = kq.regs[k]
  OBVIOUS
<1> HIDE DEF left, regs, r
<1>9. r \in KqStates(n) /\ r.regs = regs /\ r.events = left
  BY <1>2, <1>5, <1>7 DEF KqStates
<1>10. EofOK(ps, r)
  BY <1>1, <1>4, <1>5, <1>9 DEF EofOK
<1>11. ASSUME alone PROVE MissesOnly(ps, r, {})
  <2> SUFFICES ASSUME NEW k, Owed(ps, r, k) PROVE Waits(r, k)
    BY DEF MissesOnly
  <2>1. Owed(ps, kq, k) /\ Lasts(kq.regs, k) /\ k \notin s.once
    BY <1>8, <1>9 DEF Owed, Lasts, IsReady
  <2>2. PICK x \in ToSet(events) : x.key = k
    BY <1>1, <1>11, <2>1
  <2>3. PICK j \in 1..Len(events) : x = events[j]
    <3>1. ToSet(events) = {events[i] : i \in 1..Len(events)}
      BY <1>1, SetOfSeq
    <3> QED BY <3>1
  <2>4. PICK e \in ToSet(s.kept) : e.key = k
    BY <1>4, <2>1, <2>2, <2>3
  <2>5. e \in ToSet(left)
    BY <1>5, <2>1, <2>4
  <2> QED BY <1>9, <2>4, <2>5 DEF Waits
<1> QED BY <1>9, <1>10, <1>11 DEF GoodKqs, r

-------------------------------------------------------------------------------
\* The inductive invariant: each kqueue owes nothing that does not wait in its queue,
\* if it drained the bus alone, and says nothing that is not true.
Alone(q) == drainers \subseteq {q}
QueuesInv ==
  /\ pipes \in Seq(PipeStates)
  /\ kqueues \in Seq(KqStates(Len(pipes)))
  /\ bus \in Seq(SignalsOf(Len(pipes)))
  /\ \A q \in 1..Len(kqueues) : kqueues[q] \in GoodKqs(Len(pipes), pipes, Alone(q))

\* A pipe more changes nothing for the kqueues there are.
LEMMA OneMore ==
  ASSUME NEW n \in Nat, NEW ps \in Seq(PipeStates), Len(ps) = n, NEW pipe \in PipeStates,
         NEW alone, NEW kq \in GoodKqs(n, ps, alone)
  PROVE  kq \in GoodKqs(n + 1, Append(ps, pipe), alone)
<1> DEFINE qs == Append(ps, pipe)
<1>1. /\ kq \in KqStates(n) /\ kq.regs \in RegsOf(n) /\ kq.events \in Seq(EventsOf(n)) /\ EofOK(ps, kq)
      /\ (alone => MissesOnly(ps, kq, {}))
  BY DEF GoodKqs, KqStates
<1>2. KeysOf(n) \subseteq KeysOf(n + 1)
  BY DEF KeysOf, EndsOf
<1>3. EventsOf(n) \subseteq EventsOf(n + 1) /\ RegsOf(n) \subseteq RegsOf(n + 1)
  BY <1>2 DEF EventsOf, RegsOf
<1>4. kq.events \in Seq(EventsOf(n + 1))
  BY <1>1, <1>3, SeqMore
<1>5. kq \in KqStates(n + 1)
  BY <1>1, <1>3, <1>4 DEF KqStates
<1>6. DOMAIN ps = 1..n /\ DOMAIN qs = 1..(n + 1) /\ \A p \in 1..n : p \in 1..(n + 1) /\ qs[p] = ps[p]
  BY AppendProperties, LenProperties
<1> HIDE DEF qs
<1>7. \A k \in KeysOf(n) : k.fd.pipe \in 1..n
  BY DEF KeysOf, EndsOf
<1>8. EofOK(qs, kq)
  <2>1. Later(ps, qs)
    BY <1>6 DEF Later, Onward
  <2> QED BY <1>1, <2>1, SaidLater
<1>9. ASSUME alone, NEW k, Owed(qs, kq, k) PROVE Owed(ps, kq, k)
  <2>1. k \in KeysOf(n)
    BY <1>1, <1>9, RegsAre DEF Owed
  <2>2. k.fd.pipe \in 1..n
    BY <1>7, <2>1
  <2> QED BY <1>6, <1>9, <2>2 DEF Owed, IsReady
<1>10. alone => MissesOnly(qs, kq, {})
  BY <1>1, <1>9 DEF MissesOnly
<1> QED BY <1>5, <1>8, <1>10 DEF GoodKqs, qs

LEMMA QueuesBegin == QInit => QueuesInv
<1> SUFFICES ASSUME QInit PROVE QueuesInv
  OBVIOUS
<1>1. \A S : <<>> \in Seq(S) /\ Len(<<>>) = 0 /\ 1..0 = {}
  BY EmptySeq
<1> QED BY <1>1 DEF QInit, QueuesInv

LEMMA PipeAdds == ASSUME QueuesInv, Pipe PROVE QueuesInv'
<1> DEFINE n == Len(pipes)
           pipe == [bytes |-> 0, readClosed |-> FALSE, writeClosed |-> FALSE]
<1>1. pipe \in PipeStates /\ n \in Nat
  BY LenProperties DEF PipeStates, QueuesInv
<1>2. pipes' = Append(pipes, pipe) /\ UNCHANGED <<kqueues, bus, drainers>>
  BY DEF Pipe
<1> HIDE DEF pipe
<1>3. pipes' \in Seq(PipeStates) /\ Len(pipes') = n + 1
  BY <1>1, <1>2, AppendProperties DEF QueuesInv
<1>4. Len(kqueues) \in Nat /\ \A q \in 1..Len(kqueues) : kqueues[q] \in GoodKqs(n + 1, pipes', Alone(q))
  BY <1>1, <1>2, OneMore, LenProperties DEF QueuesInv
<1>5. kqueues \in Seq(KqStates(n + 1))
  <2>1. \A q \in 1..Len(kqueues) : kqueues[q] \in KqStates(n + 1)
    BY <1>4 DEF GoodKqs
  <2>2. DOMAIN kqueues = 1..Len(kqueues) /\ kqueues = [q \in DOMAIN kqueues |-> kqueues[q]]
    BY LenProperties DEF QueuesInv
  <2>3. kqueues \in [1..Len(kqueues) -> KqStates(n + 1)]
    BY <2>1, <2>2
  <2> QED BY <1>4, <2>3
<1>6. bus \in Seq(SignalsOf(n + 1))
  <2>1. SignalsOf(n) \subseteq SignalsOf(n + 1)
    BY <1>1 DEF SignalsOf, EndsOf
  <2> QED BY <2>1, SeqMore DEF QueuesInv
<1>7. \A q : Alone(q)' = Alone(q)
  BY <1>2 DEF Alone
<1> QED BY <1>2, <1>3, <1>4, <1>5, <1>6, <1>7 DEF QueuesInv

LEMMA KqueueAdds == ASSUME QueuesInv, Kqueue PROVE QueuesInv'
<1> DEFINE n == Len(pipes)
           kq == [regs |-> <<>>, events |-> <<>>]
<1>1. kqueues' = Append(kqueues, kq) /\ UNCHANGED <<pipes, bus, drainers>>
  BY DEF Kqueue
<1>2. kq.regs = <<>> /\ kq.events = <<>> /\ DOMAIN kq.regs = {} /\ ToSet(kq.events) = {}
  BY DEF ToSet
<1>3. kq \in KqStates(n)
  <2>1. IsFiniteSet({}) /\ {} \in SUBSET KeysOf(n) /\ <<>> \in [{} -> Registrations]
    BY FS_EmptySet
  <2>2. <<>> \in RegsOf(n) /\ <<>> \in Seq(EventsOf(n))
    BY <2>1, RegsMade, EmptySeq
  <2> QED BY <2>2 DEF KqStates
<1> HIDE DEF kq
<1>4. \A ps, alone : kq \in GoodKqs(n, ps, alone)
  BY <1>2, <1>3 DEF GoodKqs, EofOK, MissesOnly, Owed
<1>5. kqueues \in Seq(KqStates(n))
  BY DEF QueuesInv
<1>6. /\ kqueues' \in Seq(KqStates(n)) /\ Len(kqueues') = Len(kqueues) + 1 /\ Len(kqueues) \in Nat
      /\ kqueues'[Len(kqueues) + 1] = kq /\ \A q \in 1..Len(kqueues) : kqueues'[q] = kqueues[q]
  BY <1>1, <1>3, <1>5, AppendProperties, LenProperties
<1>7. \A q : Alone(q)' = Alone(q)
  BY <1>1 DEF Alone
<1>8. ASSUME NEW q \in 1..Len(kqueues') PROVE kqueues'[q] \in GoodKqs(n, pipes, Alone(q))
  <2>1. q \in 1..Len(kqueues) \/ q = Len(kqueues) + 1
    BY <1>6
  <2> QED BY <1>4, <1>6, <2>1 DEF QueuesInv
<1> QED BY <1>1, <1>6, <1>7, <1>8 DEF QueuesInv

LEMMA EndsAre ==
  ASSUME pipes \in Seq(PipeStates), NEW k \in EndKeys
  PROVE  k \in KeysOf(Len(pipes)) /\ k.fd \in EndsOf(Len(pipes))
<1>1. DOMAIN pipes = 1..Len(pipes)
  BY LenProperties
<1>2. PICK p \in 1..Len(pipes) : k = ReadKey(p) \/ k = WriteKey(p)
  BY <1>1 DEF EndKeys
<1> QED BY <1>2 DEF ReadKey, WriteKey, Key, End, KeysOf, EndsOf

LEMMA Posted ==
  ASSUME QueuesInv, NEW call \in {"read", "write", "close"}, NEW k \in EndKeys, Notify(call, k.fd)
  PROVE  QueuesInv'
<1> DEFINE signal == [call |-> call, fd |-> k.fd]
<1>1. bus' = Append(bus, signal) /\ UNCHANGED <<pipes, kqueues, drainers>>
  BY DEF Notify
<1>2. signal \in SignalsOf(Len(pipes))
  <2>1. k.fd \in EndsOf(Len(pipes))
    BY EndsAre DEF QueuesInv
  <2> QED BY <2>1 DEF SignalsOf
<1> HIDE DEF signal
<1>3. bus' \in Seq(SignalsOf(Len(pipes)))
  BY <1>1, <1>2, AppendProperties DEF QueuesInv
<1>4. \A q : Alone(q)' = Alone(q)
  BY <1>1 DEF Alone
<1> QED BY <1>1, <1>3, <1>4 DEF QueuesInv

\* kevent on one kqueue: the others are owed nothing more, for they do not drain alone.
LEMMA KeventKeeps ==
  ASSUME QueuesInv, NEW q \in DOMAIN kqueues, NEW room, NEW changes \in Seq(ChangesOf(Len(pipes))),
         Kevent(q, changes, room)
  PROVE  QueuesInv'
<1> DEFINE n == Len(pipes)
           s == [pipes |-> pipes, kq |-> ChangedAll(kqueues[q], changes)]
           after == DrainedAll(s, bus)
<1>1. /\ n \in Nat /\ DOMAIN pipes = 1..n /\ pipes \in Seq(PipeStates) /\ bus \in Seq(SignalsOf(n))
      /\ Len(kqueues) \in Nat /\ DOMAIN kqueues = 1..Len(kqueues) /\ kqueues \in Seq(KqStates(n))
  BY LenProperties DEF QueuesInv
<1>2. q \in 1..Len(kqueues) /\ kqueues[q] \in GoodKqs(n, pipes, Alone(q))
  BY <1>1 DEF QueuesInv
<1>3. s.kq \in GoodKqs(n, pipes, Alone(q)) /\ s.pipes = pipes
  BY <1>1, <1>2, AllChanged
<1>4. s \in DrainStates(n, pipes, Alone(q))
  <2>1. Later(pipes, pipes)
    BY DEF Later, Onward
  <2> QED BY <1>1, <1>3, <2>1 DEF DrainStates, GoodKqs
<1>5. after \in DrainStates(n, pipes, Alone(q)) /\ (bus = <<>> => after = s)
  BY <1>1, <1>4, AllTaken
<1>6. /\ pipes' = after.pipes /\ bus' = <<>>
      /\ drainers' = IF bus = <<>> THEN drainers ELSE drainers \cup {q}
      /\ IF room = 0 THEN kqueues' = [kqueues EXCEPT ![q] = after.kq]
         ELSE \E events \in Seeds(after.pipes, after.kq) :
                kqueues' = [kqueues EXCEPT ![q] = Emitted(after.kq, events, room)]
  BY DEF Kevent
<1> HIDE DEF after, s
<1>7. /\ after.pipes \in Seq(PipeStates) /\ Len(after.pipes) = n /\ Later(pipes, after.pipes)
      /\ after.kq \in GoodKqs(n, after.pipes, Alone(q))
  BY <1>5 DEF DrainStates, GoodKqs
<1>8. PICK kq \in GoodKqs(n, after.pipes, Alone(q)) : kqueues' = [kqueues EXCEPT ![q] = kq]
  <2>1. CASE room = 0
    BY <1>6, <1>7, <2>1
  <2>2. CASE room # 0
    <3>1. PICK events \in Seeds(after.pipes, after.kq) :
            kqueues' = [kqueues EXCEPT ![q] = Emitted(after.kq, events, room)]
      BY <1>6, <2>2
    <3>2. Emitted(after.kq, events, room) \in GoodKqs(n, after.pipes, Alone(q))
      BY <1>1, <1>7, EmittedOK
    <3> QED BY <3>1, <3>2
  <2> QED BY <2>1, <2>2
<1>9. kq \in KqStates(n)
  BY DEF GoodKqs
<1>10. /\ kqueues' \in Seq(KqStates(n)) /\ Len(kqueues') = Len(kqueues)
       /\ \A j \in 1..Len(kqueues) : kqueues'[j] = IF j = q THEN kq ELSE kqueues[j]
  BY <1>1, <1>2, <1>8, <1>9, ExceptSeq
<1>11. Alone(q)' = Alone(q)
  BY <1>6 DEF Alone
<1>12. ASSUME NEW j \in 1..Len(kqueues), j # q
       PROVE  kqueues[j] \in GoodKqs(n, pipes', Alone(j)')
  <2>1. kqueues[j] \in GoodKqs(n, pipes, Alone(j))
    BY DEF QueuesInv
  <2>2. CASE bus = <<>>
    <3>1. pipes' = pipes /\ (Alone(j)' = Alone(j))
      BY <1>3, <1>5, <1>6, <2>2 DEF Alone
    <3> QED BY <2>1, <3>1
  <2>3. CASE bus # <<>>
    <3>1. ~Alone(j)'
      BY <1>6, <1>12, <2>3 DEF Alone
    <3>2. kqueues[j] \in KqStates(n) /\ EofOK(pipes, kqueues[j])
      BY <2>1 DEF GoodKqs
    <3>3. EofOK(pipes', kqueues[j])
      BY <1>1, <1>6, <1>7, <3>2, SaidLater
    <3> QED BY <3>1, <3>2, <3>3 DEF GoodKqs
  <2> QED BY <2>2, <2>3
<1>13. <<>> \in Seq(SignalsOf(n))
  BY EmptySeq
<1>14. ASSUME NEW j \in 1..Len(kqueues') PROVE kqueues'[j] \in GoodKqs(n, pipes', Alone(j)')
  BY <1>6, <1>10, <1>11, <1>12
<1> QED BY <1>6, <1>7, <1>10, <1>13, <1>14 DEF QueuesInv

LEMMA QueuesStep == ASSUME QueuesInv, [QNext]_qvars PROVE QueuesInv'
<1>1. CASE Pipe
  BY <1>1, PipeAdds
<1>2. CASE Kqueue
  BY <1>2, KqueueAdds
<1>3. CASE \E call \in {"read", "write", "close"}, k \in EndKeys : Notify(call, k.fd)
  BY <1>3, Posted
<1>4. ASSUME NEW q \in DOMAIN kqueues, NEW room \in Rooms,
             Kevent(q, <<>>, room) \/ \E c \in Changes : Kevent(q, <<c>>, room)
      PROVE  QueuesInv'
  <2>1. <<>> \in Seq(ChangesOf(Len(pipes)))
    BY EmptySeq
  <2>2. ASSUME NEW c \in Changes PROVE <<c>> \in Seq(ChangesOf(Len(pipes)))
    <3>1. \A k \in EndKeys : k \in KeysOf(Len(pipes))
      BY EndsAre DEF QueuesInv
    <3>2. Level \in Registrations
      BY DEF Registrations
    <3>3. CASE c \in {[verb |-> "delete", key |-> k, flags |-> Level] : k \in EndKeys}
      BY <3>1, <3>2, <3>3 DEF ChangesOf
    <3>4. CASE c \in [verb : {"add"}, key : EndKeys, flags : Registrations]
      BY <3>1, <3>4 DEF ChangesOf
    <3>5. c \in ChangesOf(Len(pipes))
      BY <3>3, <3>4 DEF Changes
    <3> QED BY <3>5
  <2>3. CASE Kevent(q, <<>>, room)
    BY <2>1, <2>3, KeventKeeps
  <2>4. CASE \E c \in Changes : Kevent(q, <<c>>, room)
    BY <2>2, <2>4, KeventKeeps
  <2> QED BY <1>4, <2>3, <2>4
<1>5. CASE UNCHANGED qvars
  BY <1>5 DEF qvars, QueuesInv, Alone
<1> QED BY <1>1, <1>2, <1>3, <1>4, <1>5 DEF QNext

\* However many signals and changes a kevent takes, the queues keep what they owe.
THEOREM QueuesInvariant == QSpec => []QueuesInv
BY QueuesBegin, QueuesStep, PTL DEF QSpec

LEMMA QueuesTell == QueuesInv => EventsTold
<1> SUFFICES ASSUME QueuesInv PROVE EventsTold
  OBVIOUS
<1>1. DOMAIN kqueues = 1..Len(kqueues)
  BY LenProperties DEF QueuesInv
<1>2. NothingMissed
  <2> SUFFICES ASSUME NEW q \in DOMAIN kqueues, drainers \subseteq {q},
                      NEW k \in DOMAIN kqueues[q].regs,
                      ~kqueues[q].regs[k].clear, ~kqueues[q].regs[k].oneshot,
                      IsReady(pipes, k, kqueues[q].regs[k])
               PROVE  \E i \in DOMAIN kqueues[q].events : kqueues[q].events[i].key = k
    BY DEF NothingMissed
  <2>1. MissesOnly(pipes, kqueues[q], {})
    BY <1>1 DEF QueuesInv, GoodKqs, Alone
  <2>2. Owed(pipes, kqueues[q], k)
    BY DEF Owed
  <2>3. Waits(kqueues[q], k)
    BY <2>1, <2>2 DEF MissesOnly
  <2> QED BY <2>3 DEF Waits, ToSet
<1>3. EofTold
  <2> SUFFICES ASSUME NEW q \in DOMAIN kqueues, NEW i \in DOMAIN kqueues[q].events,
                      kqueues[q].events[i].eof
               PROVE  Said(pipes, kqueues[q].events[i].key)
    BY Zenon DEF EofTold, Said
  <2>1. EofOK(pipes, kqueues[q])
    BY <1>1 DEF QueuesInv, GoodKqs
  <2> QED BY <2>1 DEF EofOK, ToSet
<1> QED BY <1>2, <1>3 DEF EventsTold

\* kevent reports what is ready: a kqueue that alone drains the bus misses nothing, and
\* end of file is told only of a pipe that is at its end.
THEOREM EventsAreTold == QSpec => []EventsTold
BY QueuesInvariant, QueuesTell, PTL

-------------------------------------------------------------------------------
(***************************************************************************)
(* TraceBus.  Its counts are sums, about which the first lemmas are.       *)
(***************************************************************************)
SumOf(f, k, g) == g = [i \in 0..k |-> IF i = 0 THEN 0 ELSE g[i - 1] + f[i]]
Naturals1(f, k) == \A i \in 1..k : f[i] \in Nat

LEMMA SumIs ==
  ASSUME NEW f, NEW k \in Nat, Naturals1(f, k)
  PROVE  \E g : /\ Added(f, k) = g[k] /\ g[0] = 0 /\ \A i \in 0..k : g[i] \in Nat
                /\ \A i \in 1..k : g[i] = g[i - 1] + f[i]
<1> DEFINE F == [i \in 1..k |-> [s \in Nat |-> s + f[i]]]
           h == CHOOSE g : SumOf(f, k, g)
<1>1. F \in [1..k -> [Nat -> Nat]]
  BY DEF Naturals1
<1>2. PICK g : Stepped(0, F, k, g) /\ \A n \in 0..k : g[n] \in Nat
  <2> HIDE DEF F
  <2> QED BY <1>1, StepsExist
<1>3. SumOf(f, k, g)
  <2>1. \A i \in 0..k : i # 0 => i \in 1..k /\ i - 1 \in 0..k
    OBVIOUS
  <2>2. \A i \in 0..k : i # 0 => F[i][g[i - 1]] = g[i - 1] + f[i]
    BY <1>2, <2>1
  <2>3. g = [n \in 0..k |-> IF n = 0 THEN 0 ELSE F[n][g[n - 1]]]
    BY <1>2 DEF Stepped
  <2> HIDE DEF F
  <2> QED BY <2>2, <2>3 DEF SumOf
<1>4. SumOf(f, k, h)
  BY <1>3
<1>5. Added(f, k) = h[k]
  BY DEF Added, SumOf
<1> HIDE DEF h
<1>6. \A i \in 0..k : h[i] = IF i = 0 THEN 0 ELSE h[i - 1] + f[i]
  BY <1>4 DEF SumOf
<1>7. h[0] = 0 /\ \A i \in 1..k : h[i] = h[i - 1] + f[i]
  <2>1. 0 \in 0..k /\ \A i \in 1..k : i \in 0..k /\ i # 0
    OBVIOUS
  <2> QED BY <1>6, <2>1
<1>8. \A i \in 0..k : h[i] \in Nat
  <2> DEFINE Good == [i \in 0..k |-> Nat]
  <2>1. h[0] \in Good[0]
    BY <1>7
  <2>2. ASSUME NEW i \in 1..k, h[i - 1] \in Good[i - 1] PROVE h[i] \in Good[i]
    <3>1. i - 1 \in 0..k /\ i \in 0..k /\ f[i] \in Nat
      BY DEF Naturals1
    <3> QED BY <1>7, <2>2, <3>1
  <2> HIDE DEF Good
  <2>3. \A i \in 0..k : h[i] \in Good[i]
    BY <2>1, <2>2, EachStep
  <2> QED BY <2>3 DEF Good
<1> QED BY <1>5, <1>7, <1>8

\* Two ways to sum agree as far as both go, and the next summand is added.
LEMMA SumAgrees ==
  ASSUME NEW f, NEW k \in Nat, NEW g, NEW h, g[0] = h[0],
         \A i \in 1..k : g[i] = g[i - 1] + f[i], \A i \in 1..k : h[i] = h[i - 1] + f[i]
  PROVE  g[k] = h[k]
<1> DEFINE Good == [i \in 0..k |-> {h[i]}]
<1>1. g[0] \in Good[0]
  OBVIOUS
<1>2. ASSUME NEW i \in 1..k, g[i - 1] \in Good[i - 1] PROVE g[i] \in Good[i]
  <2>1. i - 1 \in 0..k /\ i \in 0..k
    OBVIOUS
  <2>2. g[i - 1] = h[i - 1]
    BY <1>2, <2>1
  <2>3. g[i] = h[i]
    BY <2>2
  <2> QED BY <2>1, <2>3
<1> HIDE DEF Good
<1>3. \A i \in 0..k : g[i] \in Good[i]
  BY <1>1, <1>2, EachStep
<1> QED BY <1>3 DEF Good

LEMMA AddedNext ==
  ASSUME NEW f, NEW k \in Nat, Naturals1(f, k)
  PROVE  /\ Added(f, k) \in Nat /\ Added(f, 0) = 0
         /\ k # 0 => Added(f, k) = Added(f, k - 1) + f[k]
<1>1. Added(f, k) \in Nat
  <2>1. PICK g : Added(f, k) = g[k] /\ \A i \in 0..k : g[i] \in Nat
    BY SumIs
  <2> QED BY <2>1
<1>2. Added(f, 0) = 0
  <2>1. Naturals1(f, 0)
    BY DEF Naturals1
  <2>2. PICK g : Added(f, 0) = g[0] /\ g[0] = 0
    BY <2>1, SumIs
  <2> QED BY <2>2
<1>3. ASSUME k # 0 PROVE Added(f, k) = Added(f, k - 1) + f[k]
  <2> DEFINE j == k - 1
  <2>1. PICK g : Added(f, k) = g[k] /\ g[0] = 0 /\ \A i \in 1..k : g[i] = g[i - 1] + f[i]
    BY SumIs
  <2>2. j \in Nat /\ Naturals1(f, j) /\ \A i \in 1..j : i \in 1..k
    BY <1>3 DEF Naturals1
  <2>3. PICK h : Added(f, j) = h[j] /\ h[0] = 0 /\ \A i \in 1..j : h[i] = h[i - 1] + f[i]
    BY <2>2, SumIs
  <2> HIDE DEF j
  <2>4. g[j] = h[j]
    <3>1. \A i \in 1..j : g[i] = g[i - 1] + f[i]
      BY <2>1, <2>2
    <3> QED BY <2>1, <2>2, <2>3, <3>1, SumAgrees
  <2>5. k \in 1..k /\ k - 1 = j
    BY <1>3 DEF j
  <2> QED BY <2>1, <2>3, <2>4, <2>5 DEF j
<1> QED BY <1>1, <1>2, <1>3

LEMMA AddedSame ==
  ASSUME NEW f, NEW e, NEW k \in Nat, Naturals1(f, k), \A i \in 1..k : f[i] = e[i]
  PROVE  Added(f, k) = Added(e, k)
<1>1. Naturals1(e, k)
  BY DEF Naturals1
<1>2. PICK g : Added(f, k) = g[k] /\ g[0] = 0 /\ \A i \in 1..k : g[i] = g[i - 1] + f[i]
  BY SumIs
<1>3. PICK h : Added(e, k) = h[k] /\ h[0] = 0 /\ \A i \in 1..k : h[i] = h[i - 1] + e[i]
  BY <1>1, SumIs
<1>4. \A i \in 1..k : h[i] = h[i - 1] + f[i]
  BY <1>3
<1>5. g[k] = h[k]
  BY <1>2, <1>3, <1>4, SumAgrees
<1> QED BY <1>2, <1>3, <1>5

\* One summand is one more.
LEMMA AddedMore ==
  ASSUME NEW f, NEW e, NEW k \in Nat, Naturals1(f, k), NEW j \in 1..k,
         \A i \in 1..k : e[i] = IF i = j THEN f[i] + 1 ELSE f[i]
  PROVE  Added(e, k) = Added(f, k) + 1
<1>1. Naturals1(e, k)
  BY DEF Naturals1
<1>2. PICK g : /\ Added(f, k) = g[k] /\ g[0] = 0 /\ (\A i \in 1..k : g[i] = g[i - 1] + f[i])
               /\ \A i \in 0..k : g[i] \in Nat
  BY SumIs
<1>3. PICK h : Added(e, k) = h[k] /\ h[0] = 0 /\ \A i \in 1..k : h[i] = h[i - 1] + e[i]
  BY <1>1, SumIs
<1> DEFINE Good == [i \in 0..k |-> {g[i] + (IF i >= j THEN 1 ELSE 0)}]
<1>4. h[0] \in Good[0]
  BY <1>2, <1>3
<1>5. ASSUME NEW i \in 1..k, h[i - 1] \in Good[i - 1] PROVE h[i] \in Good[i]
  <2>1. i - 1 \in 0..k /\ i \in 0..k /\ f[i] \in Nat /\ g[i - 1] \in Nat
    BY <1>2 DEF Naturals1
  <2>2. h[i - 1] = g[i - 1] + (IF i - 1 >= j THEN 1 ELSE 0)
    BY <1>5, <2>1
  <2>3. h[i] = h[i - 1] + e[i] /\ g[i] = g[i - 1] + f[i]
    BY <1>2, <1>3
  <2>4. h[i] = g[i] + (IF i >= j THEN 1 ELSE 0)
    BY <2>1, <2>2, <2>3
  <2> QED BY <2>1, <2>4
<1> HIDE DEF Good
<1>6. \A i \in 0..k : h[i] \in Good[i]
  BY <1>4, <1>5, EachStep
<1>7. k \in 0..k /\ k >= j /\ g[k] \in Nat
  BY <1>2
<1> QED BY <1>2, <1>3, <1>6, <1>7 DEF Good

\* The summands of one list behind those of another.
LEMMA AddedBehind ==
  ASSUME NEW f, NEW e, NEW d, NEW m \in Nat, NEW n \in Nat, NEW k, k = m + n,
         Naturals1(f, m), Naturals1(e, n),
         \A i \in 1..k : d[i] = IF i <= m THEN f[i] ELSE e[i - m]
  PROVE  Added(d, k) = Added(f, m) + Added(e, n)
<1>1. k \in Nat /\ Naturals1(d, k)
  <2>1. \A i \in 1..k : IF i <= m THEN i \in 1..m ELSE i - m \in 1..n
    OBVIOUS
  <2> QED BY <2>1 DEF Naturals1
<1>2. PICK g : Added(e, n) = g[n] /\ g[0] = 0 /\ (\A i \in 1..n : g[i] = g[i - 1] + e[i])
               /\ \A i \in 0..n : g[i] \in Nat
  BY SumIs
<1>3. PICK h : Added(d, k) = h[k] /\ h[0] = 0 /\ (\A i \in 1..k : h[i] = h[i - 1] + d[i])
               /\ \A i \in 0..k : h[i] \in Nat
  BY <1>1, SumIs
<1>4. PICK p : Added(f, m) = p[m] /\ p[0] = 0 /\ (\A i \in 1..m : p[i] = p[i - 1] + f[i])
               /\ \A i \in 0..m : p[i] \in Nat
  BY SumIs
<1>5. h[m] = p[m]
  <2>1. \A i \in 1..m : i \in 1..k /\ d[i] = f[i]
    OBVIOUS
  <2>2. \A i \in 1..m : h[i] = h[i - 1] + f[i]
    BY <1>3, <2>1
  <2>3. h[0] = p[0] /\ \A i \in 1..m : p[i] = p[i - 1] + f[i]
    BY <1>3, <1>4
  <2> QED BY <2>2, <2>3, SumAgrees
<1> DEFINE q == [i \in 0..n |-> h[m + i]]
           Good == [i \in 0..n |-> {p[m] + g[i]}]
<1>6. q[0] \in Good[0]
  BY <1>2, <1>4, <1>5
<1>7. ASSUME NEW i \in 1..n, q[i - 1] \in Good[i - 1] PROVE q[i] \in Good[i]
  <2>1. i - 1 \in 0..n /\ i \in 0..n /\ m + i \in 1..k /\ e[i] \in Nat /\ g[i - 1] \in Nat /\ p[m] \in Nat
    BY <1>2, <1>4 DEF Naturals1
  <2>2. d[m + i] = e[i]
    <3>1. ~(m + i <= m) /\ m + i - m = i
      OBVIOUS
    <3> QED BY <2>1, <3>1
  <2>3. (m + i) - 1 = m + (i - 1)
    OBVIOUS
  <2>4. h[m + i] = h[m + (i - 1)] + e[i]
    BY <1>3, <2>1, <2>2, <2>3
  <2>5. h[m + (i - 1)] = p[m] + g[i - 1]
    BY <1>7, <2>1
  <2>6. g[i] = g[i - 1] + e[i]
    BY <1>2
  <2>7. h[m + i] = p[m] + g[i]
    BY <2>1, <2>4, <2>5, <2>6
  <2> QED BY <2>1, <2>7
<1> HIDE DEF Good
<1>8. \A i \in 0..n : q[i] \in Good[i]
  <2> HIDE DEF q
  <2> QED BY <1>6, <1>7, EachStep
<1>9. n \in 0..n
  OBVIOUS
<1>10. h[k] = p[m] + g[n]
  BY <1>8, <1>9 DEF Good
<1> QED BY <1>2, <1>3, <1>4, <1>10

TraceEvent == [id : Nat, class : Classes]
Copy == [id : Nat, class : Classes, plugin : Nat]
Burst == [copy : Copy, count : Nat]
OutLine == [bus : Buses, id : Nat, of : Nat \X Classes, repeats : Nat]

\* The bursts of a tracer: hot events, one burst per signature.
BurstsOK(bursts) ==
  /\ bursts \in Seq(Burst)
  /\ \A i \in 1..Len(bursts) : bursts[i].copy.class = "hot" /\ bursts[i].count # 0
  /\ \A i, j \in 1..Len(bursts) :
       Signature(bursts[i].copy) = Signature(bursts[j].copy) => i = j
Tells(b, lines, sg) == \E i \in 1..Len(lines) : lines[i].bus = b /\ lines[i].of = sg
TellsPage(b, lines, key) == \E i \in 1..Len(lines) : lines[i].bus = b /\ lines[i].of[2] = key

LEMMA CopyMade ==
  ASSUME NEW e \in TraceEvent, NEW i \in 1..Len(Plugins)
  PROVE  [id |-> e.id, class |-> e.class, plugin |-> i] \in Copy
<1>1. i \in Nat
  BY TraceAssumption, LenProperties
<1> QED BY <1>1 DEF TraceEvent, Copy

\* The copies of an event are a list.
LEMMA CopiesListed == ASSUME NEW e \in TraceEvent PROVE Copies(e) \in Seq(Copy)
<1> DEFINE k == Len(Plugins)
           C(i) == [id |-> e.id, class |-> e.class, plugin |-> i]
           F == [i \in 1..k |-> [s \in Seq(Copy) |-> IF e.class \in Plugins[i] THEN Append(s, C(i)) ELSE s]]
           g == [i \in 0..k |-> i]
           All(h) == h = [i \in 0..k |-> IF i = 0 THEN <<>>
                            ELSE IF e.class \in Plugins[i]
                                 THEN Append(h[i - 1], C(i)) ELSE h[i - 1]]
           h == CHOOSE h : All(h)
<1>1. k \in Nat
  BY TraceAssumption, LenProperties
<1>2. \A i \in 1..k : C(i) \in Copy
  BY CopyMade
<1>3. F \in [1..k -> [Seq(Copy) -> Seq(Copy)]]
  <2> HIDE DEF C, k
  <2> QED BY <1>2, AppendProperties
<1>4. <<>> \in Seq(Copy)
  BY EmptySeq
<1>5. PICK f : Stepped(<<>>, F, k, f) /\ \A n \in 0..k : f[n] \in Seq(Copy)
  <2> HIDE DEF F, k
  <2> QED BY <1>1, <1>3, <1>4, StepsExist
<1>6. All(f)
  <2>1. \A i \in 0..k : i # 0 => i \in 1..k /\ i - 1 \in 0..k
    BY <1>1
  <2>2. f = [n \in 0..k |-> IF n = 0 THEN <<>> ELSE F[n][f[n - 1]]]
    BY <1>5 DEF Stepped
  <2>3. \A i \in 0..k : i # 0 => F[i][f[i - 1]] = IF e.class \in Plugins[i] THEN Append(f[i - 1], C(i)) ELSE f[i - 1]
    <3> HIDE DEF C, k
    <3> QED BY <1>5, <2>1
  <2> HIDE DEF F, C, k
  <2> QED BY <2>2, <2>3
<1>7. All(h)
  BY <1>6
<1>8. Copies(e) = h[k]
  BY DEF Copies
<1> HIDE DEF h
<1>9. h[0] = <<>> /\ \A i \in 1..k : h[i] = IF e.class \in Plugins[i] THEN Append(h[i - 1], C(i)) ELSE h[i - 1]
  <2>1. 0 \in 0..k /\ \A i \in 1..k : i \in 0..k /\ i # 0
    BY <1>1
  <2> HIDE DEF C, k
  <2> QED BY <1>7, <2>1
<1> DEFINE Good == [i \in 0..k |-> Seq(Copy)]
<1>10. h[0] \in Good[0]
  BY <1>1, <1>4, <1>9
<1>11. ASSUME NEW i \in 1..k, h[i - 1] \in Good[i - 1] PROVE h[i] \in Good[i]
  <2>1. i - 1 \in 0..k /\ i \in 0..k
    BY <1>1
  <2>2. h[i - 1] \in Seq(Copy) /\ C(i) \in Copy
    BY <1>2, <1>11, <2>1
  <2>3. h[i] \in Seq(Copy)
    <3> HIDE DEF C, k
    <3>1. Append(h[i - 1], C(i)) \in Seq(Copy)
      BY <2>2, AppendProperties
    <3> QED BY <1>9, <2>2, <3>1
  <2> QED BY <2>1, <2>3
<1> HIDE DEF Good
<1>12. \A i \in 0..k : h[i] \in Good[i]
  <2> HIDE DEF k
  <2> QED BY <1>1, <1>10, <1>11, EachStep
<1>13. k \in 0..k
  BY <1>1
<1> QED BY <1>8, <1>12, <1>13 DEF Good

-------------------------------------------------------------------------------
LEMMA TimesIsNat == ASSUME NEW b, NEW l \in OutLine PROVE Times(b, l) \in Nat
BY DEF Times, OutLine

LEMMA PrintedBehind ==
  ASSUME NEW b, NEW s \in Seq(OutLine), NEW t \in Seq(OutLine)
  PROVE  /\ s \o t \in Seq(OutLine) /\ Len(s \o t) = Len(s) + Len(t)
         /\ \A i \in 1..Len(s) : (s \o t)[i] = s[i]
         /\ \A i \in 1..Len(t) : (s \o t)[Len(s) + i] = t[i]
         /\ Printed(b, s) \in Nat /\ Printed(b, s \o t) = Printed(b, s) + Printed(b, t)
<1> DEFINE m == Len(s)
           n == Len(t)
           d == s \o t
           f == [i \in DOMAIN s |-> Times(b, s[i])]
           e == [i \in DOMAIN t |-> Times(b, t[i])]
           h == [i \in DOMAIN d |-> Times(b, d[i])]
<1>1. /\ m \in Nat /\ n \in Nat /\ d \in Seq(OutLine) /\ Len(d) = m + n
      /\ DOMAIN s = 1..m /\ DOMAIN t = 1..n /\ DOMAIN d = 1..(m + n)
      /\ \A i \in 1..(m + n) : d[i] = IF i <= m THEN s[i] ELSE t[i - m]
  BY ConcatProperties, LenProperties
<1>2. \A i \in 1..n : m + i \in 1..(m + n) /\ ~(m + i <= m) /\ (m + i) - m = i
  BY <1>1
<1>3. \A i \in 1..m : i \in 1..(m + n) /\ i <= m
  BY <1>1
<1>4. \A i \in 1..(m + n) : IF i <= m THEN i \in 1..m ELSE i - m \in 1..n
  BY <1>1
<1>5. Naturals1(f, m) /\ Naturals1(e, n)
  <2>1. (\A i \in 1..m : s[i] \in OutLine) /\ (\A i \in 1..n : t[i] \in OutLine)
    BY ElementOfSeq
  <2>2. (\A i \in 1..m : f[i] = Times(b, s[i])) /\ (\A i \in 1..n : e[i] = Times(b, t[i]))
    <3> HIDE DEF m, n
    <3> QED BY <1>1
  <2> HIDE DEF f, e, m, n
  <2> QED BY <2>1, <2>2, TimesIsNat DEF Naturals1
<1>6. \A i \in 1..(m + n) : h[i] = IF i <= m THEN f[i] ELSE e[i - m]
  <2> HIDE DEF m, n, d
  <2> QED BY <1>1, <1>4
<1>7. Added(f, m) \in Nat
  <2> HIDE DEF f, m
  <2> QED BY <1>1, <1>5, AddedNext
<1>8. Added(h, Len(d)) = Added(f, m) + Added(e, n)
  <2> DEFINE k == Len(d)
  <2>1. k = m + n /\ \A i \in 1..k : h[i] = IF i <= m THEN f[i] ELSE e[i - m]
    BY <1>1, <1>6
  <2>2. m \in Nat /\ n \in Nat
    BY <1>1
  <2> HIDE DEF f, e, h, m, n, k
  <2>3. Added(h, k) = Added(f, m) + Added(e, n)
    BY <1>5, <2>1, <2>2, AddedBehind
  <2> QED BY <2>3 DEF k
<1>9. Printed(b, s) = Added(f, m) /\ Printed(b, t) = Added(e, n) /\ Printed(b, d) = Added(h, Len(d))
  BY DEF Printed
<1>10. (\A i \in 1..m : d[i] = s[i]) /\ (\A i \in 1..n : d[m + i] = t[i])
  <2> HIDE DEF m, n, d
  <2> QED BY <1>1, <1>2, <1>3
<1>11. Printed(b, d) = Printed(b, s) + Printed(b, t)
  <2> HIDE DEF f, e, h, m, n, d
  <2> QED BY <1>1, <1>8, <1>9
<1> HIDE DEF f, e, h
<1> QED BY <1>1, <1>7, <1>9, <1>10, <1>11

LEMMA PrintedNone == ASSUME NEW b PROVE Printed(b, <<>>) = 0
<1> DEFINE f == [i \in DOMAIN <<>> |-> Times(b, <<>>[i])]
<1>1. Naturals1(f, 0)
  BY DEF Naturals1
<1>2. Added(f, 0) = 0
  <2> HIDE DEF f
  <2> QED BY <1>1, AddedNext
<1>3. Len(<<>>) = 0
  OBVIOUS
<1> HIDE DEF f
<1> QED BY <1>2, <1>3 DEF Printed, f

LEMMA PrintedShort ==
  ASSUME NEW b, NEW l \in OutLine
  PROVE  Printed(b, <<l>>) = Times(b, l) /\ <<l>> \in Seq(OutLine)
<1> DEFINE e == [i \in DOMAIN <<l>> |-> Times(b, <<l>>[i])]
<1>1. Len(<<l>>) = 1 /\ DOMAIN <<l>> = 1..1 /\ <<l>>[1] = l /\ <<l>> \in Seq(OutLine)
  OBVIOUS
<1>2. e[1] = Times(b, l) /\ Naturals1(e, 1)
  <2>1. e[1] = Times(b, l)
    BY <1>1
  <2> HIDE DEF e
  <2> QED BY <2>1, TimesIsNat DEF Naturals1
<1>3. Added(e, 1) = Added(e, 0) + e[1] /\ Added(e, 0) = 0
  <2>1. 1 \in Nat /\ 1 # 0 /\ 1 - 1 = 0
    OBVIOUS
  <2> HIDE DEF e
  <2> QED BY <1>2, <2>1, AddedNext
<1>4. Added(e, 1) = Times(b, l)
  <2> HIDE DEF e
  <2> QED BY <1>2, <1>3, TimesIsNat
<1> HIDE DEF e
<1> QED BY <1>1, <1>4 DEF Printed, e

LEMMA SignatureTyped == ASSUME NEW c \in Copy PROVE Signature(c) \in Nat \X Classes /\ Signature(c)[2] = c.class
BY DEF Signature, Copy

LEMMA LineTyped ==
  ASSUME NEW b \in Buses, NEW c \in Copy, NEW n \in Nat
  PROVE  /\ Line(b, c, n) \in OutLine /\ Line(b, c, n).bus = b /\ Line(b, c, n).of = Signature(c)
         /\ Line(b, c, n).id = c.id
         /\ \A d : Times(d, Line(b, c, n)) =
                     IF d = b /\ c.class = "hot" THEN IF n = 0 THEN 1 ELSE n ELSE 0
<1>1. Signature(c) \in Nat \X Classes /\ Signature(c)[2] = c.class /\ c.id \in Nat
  BY SignatureTyped DEF Copy
<1>2. Line(b, c, n).bus = b /\ Line(b, c, n).of = Signature(c) /\ Line(b, c, n).repeats = n /\ Line(b, c, n).id = c.id
  BY DEF Line
<1>3. Line(b, c, n) \in OutLine
  BY <1>1 DEF Line, OutLine
<1>4. ASSUME NEW d PROVE Times(d, Line(b, c, n)) = IF d = b /\ c.class = "hot" THEN IF n = 0 THEN 1 ELSE n ELSE 0
  BY <1>1, <1>2 DEF Times
<1> QED BY <1>2, <1>3, <1>4

\* A burst is told with its first event, as often as it was counted.
LEMMA LinesOfBurst ==
  ASSUME NEW b \in Buses, NEW x \in Burst, x.copy.class = "hot", x.count # 0
  PROVE  /\ LinesOf(b, x) \in Seq(OutLine) /\ Tells(b, LinesOf(b, x), Signature(x.copy))
         /\ \A d : Printed(d, LinesOf(b, x)) = IF d = b THEN x.count ELSE 0
<1> DEFINE c == x.copy
           l == Line(b, c, 0)
           m == Line(b, c, x.count - 1)
           rest == IF x.count > 1 THEN <<m>> ELSE <<>>
<1>1. c \in Copy /\ x.count \in Nat /\ x.count - 1 \in Nat /\ 0 \in Nat /\ (x.count > 1 => x.count - 1 # 0)
      /\ (~(x.count > 1) => x.count = 1)
  BY DEF Burst
<1>2. /\ l \in OutLine /\ l.bus = b /\ l.of = Signature(c)
      /\ \A d : Times(d, l) = IF d = b THEN 1 ELSE 0
  <2> HIDE DEF c
  <2>1. \A d : Times(d, Line(b, c, 0)) = IF d = b /\ c.class = "hot" THEN IF 0 = 0 THEN 1 ELSE 0 ELSE 0
    BY <1>1, LineTyped
  <2>2. c.class = "hot"
    BY DEF c
  <2> QED BY <1>1, <2>1, <2>2, LineTyped
<1>3. m \in OutLine /\ (x.count > 1 => \A d : Times(d, m) = IF d = b THEN x.count - 1 ELSE 0)
  <2> DEFINE n == x.count - 1
  <2>1. n \in Nat /\ (x.count > 1 => n # 0)
    BY <1>1
  <2>2. c.class = "hot"
    OBVIOUS
  <2> HIDE DEF c, n
  <2>3. Line(b, c, n) \in OutLine /\ \A d : Times(d, Line(b, c, n)) = IF d = b /\ c.class = "hot" THEN IF n = 0 THEN 1 ELSE n ELSE 0
    BY <1>1, <2>1, LineTyped
  <2>4. x.count > 1 => \A d : Times(d, Line(b, c, n)) = IF d = b THEN n ELSE 0
    BY <2>1, <2>2, <2>3
  <2> QED BY <2>3, <2>4 DEF n
<1> HIDE DEF l, m, c
<1>4. rest \in Seq(OutLine) /\ \A d : Printed(d, rest) = IF d = b THEN x.count - 1 ELSE 0
  <2>1. CASE x.count > 1
    <3>1. <<m>> \in Seq(OutLine) /\ \A d : Printed(d, <<m>>) = Times(d, m)
      BY <1>3, PrintedShort
    <3> QED BY <1>3, <2>1, <3>1
  <2>2. CASE ~(x.count > 1)
    <3>1. <<>> \in Seq(OutLine) /\ \A d : Printed(d, <<>>) = 0
      BY PrintedNone, EmptySeq
    <3>2. x.count - 1 = 0
      BY <1>1, <2>2
    <3> QED BY <2>2, <3>1, <3>2
  <2> QED BY <2>1, <2>2
<1>5. <<l>> \in Seq(OutLine) /\ \A d : Printed(d, <<l>>) = Times(d, l)
  BY <1>2, PrintedShort
<1>6. LinesOf(b, x) = <<l>> \o rest
  BY DEF LinesOf, l, m, c
<1> HIDE DEF rest
<1>7. <<l>> \o rest \in Seq(OutLine) /\ Len(<<l>> \o rest) = Len(<<l>>) + Len(rest)
      /\ \A i \in 1..Len(<<l>>) : (<<l>> \o rest)[i] = <<l>>[i]
  BY <1>4, <1>5, PrintedBehind
<1>8. Tells(b, <<l>> \o rest, Signature(c))
  <2>1. Len(<<l>>) = 1 /\ <<l>>[1] = l /\ Len(rest) \in Nat
    BY <1>4, LenProperties
  <2>2. 1 \in 1..Len(<<l>>) /\ 1 \in 1..(Len(<<l>>) + Len(rest))
    BY <2>1
  <2>3. (<<l>> \o rest)[1] = l
    BY <1>7, <2>1, <2>2
  <2> QED BY <1>2, <1>7, <2>2, <2>3 DEF Tells
<1>9. ASSUME NEW d PROVE Printed(d, <<l>> \o rest) = IF d = b THEN x.count ELSE 0
  <2>1. Printed(d, <<l>> \o rest) = Printed(d, <<l>>) + Printed(d, rest)
    BY <1>4, <1>5, PrintedBehind
  <2>2. Printed(d, <<l>>) = IF d = b THEN 1 ELSE 0
    BY <1>2, <1>5
  <2>3. Printed(d, rest) = IF d = b THEN x.count - 1 ELSE 0
    BY <1>4
  <2> QED BY <1>1, <2>1, <2>2, <2>3
<1> QED BY <1>6, <1>7, <1>8, <1>9 DEF c

-------------------------------------------------------------------------------
LEMMA TellsBehind ==
  ASSUME NEW b, NEW sg, NEW s \in Seq(OutLine), NEW t \in Seq(OutLine)
  PROVE  Tells(b, s, sg) \/ Tells(b, t, sg) => Tells(b, s \o t, sg)
<1>1. /\ Len(s \o t) = Len(s) + Len(t) /\ Len(s) \in Nat /\ Len(t) \in Nat
      /\ \A i \in 1..Len(s) : (s \o t)[i] = s[i]
      /\ \A i \in 1..Len(t) : (s \o t)[Len(s) + i] = t[i]
  BY PrintedBehind, LenProperties
<1>2. \A i \in 1..Len(s) : i \in 1..Len(s \o t)
  BY <1>1
<1>3. \A i \in 1..Len(t) : Len(s) + i \in 1..Len(s \o t)
  BY <1>1
<1> QED BY <1>1, <1>2, <1>3 DEF Tells

LEMMA PageBehind ==
  ASSUME NEW b, NEW key, NEW s \in Seq(OutLine), NEW t \in Seq(OutLine), TellsPage(b, s, key)
  PROVE  TellsPage(b, s \o t, key)
<1>1. /\ Len(s \o t) = Len(s) + Len(t) /\ Len(s) \in Nat /\ Len(t) \in Nat
      /\ \A i \in 1..Len(s) : (s \o t)[i] = s[i]
  BY PrintedBehind, LenProperties
<1>2. \A i \in 1..Len(s) : i \in 1..Len(s \o t)
  BY <1>1
<1> QED BY <1>1, <1>2 DEF TellsPage

\* A line with the signature of a copy shows it, a plain one if it is its own.
LEMMA LineShows ==
  ASSUME NEW c \in Copy, NEW l, l.of = Signature(c), c.class = "plain" => l.id = c.id
  PROVE  LineOf(c, l) /\ l.of[2] = PageKey(c)
BY SignatureTyped DEF LineOf, PageKey

Counts(bursts) == [i \in DOMAIN bursts |-> bursts[i].count]
LEMMA CountsAdd ==
  ASSUME NEW bursts \in Seq(Burst)
  PROVE  /\ Naturals1(Counts(bursts), Len(bursts)) /\ Collecting(bursts) = Added(Counts(bursts), Len(bursts))
         /\ Len(bursts) \in Nat /\ DOMAIN bursts = 1..Len(bursts) /\ \A i \in 1..Len(bursts) : Counts(bursts)[i] = bursts[i].count /\ bursts[i] \in Burst
<1>1. \A i \in 1..Len(bursts) : bursts[i].count \in Nat /\ bursts[i] \in Burst
  <2>1. \A i \in 1..Len(bursts) : bursts[i] \in Burst
    BY ElementOfSeq
  <2> QED BY <2>1 DEF Burst
<1>2. Len(bursts) \in Nat /\ DOMAIN bursts = 1..Len(bursts)
  BY LenProperties
<1> QED BY <1>1, <1>2 DEF Naturals1, Counts, Collecting

\* All bursts are told, each as often as it was counted, on the bus.
LEMMA BurstsTold ==
  ASSUME NEW b \in Buses, NEW bursts, BurstsOK(bursts)
  PROVE  /\ BurstLines(b, bursts) \in Seq(OutLine)
         /\ \A i \in 1..Len(bursts) : Tells(b, BurstLines(b, bursts), Signature(bursts[i].copy))
         /\ \A d : Printed(d, BurstLines(b, bursts)) = IF d = b THEN Collecting(bursts) ELSE 0
<1> DEFINE k == Len(bursts)
           f == Counts(bursts)
           L(i) == LinesOf(b, bursts[i])
           F == [i \in 1..k |-> [s \in Seq(OutLine) |-> s \o L(i)]]
           All(h) == h = [i \in 0..k |-> IF i = 0 THEN <<>> ELSE h[i - 1] \o L(i)]
           h == CHOOSE h : All(h)
<1>1. k \in Nat /\ bursts \in Seq(Burst) /\ Naturals1(f, k) /\ Collecting(bursts) = Added(f, k)
      /\ \A i \in 1..k : f[i] = bursts[i].count /\ bursts[i] \in Burst /\ bursts[i].copy.class = "hot" /\ bursts[i].count # 0
  <2>1. bursts \in Seq(Burst)
    BY DEF BurstsOK
  <2> HIDE DEF f
  <2> QED BY <2>1, CountsAdd DEF BurstsOK, f
<1> HIDE DEF f
<1>2. \A i \in 1..k : /\ L(i) \in Seq(OutLine) /\ Tells(b, L(i), Signature(bursts[i].copy))
                      /\ \A d : Printed(d, L(i)) = IF d = b THEN f[i] ELSE 0
  BY <1>1, LinesOfBurst
<1> HIDE DEF L
<1>3. F \in [1..k -> [Seq(OutLine) -> Seq(OutLine)]]
  <2> HIDE DEF k
  <2> QED BY <1>2, ConcatProperties
<1>4. <<>> \in Seq(OutLine)
  BY EmptySeq
<1>5. PICK g : Stepped(<<>>, F, k, g) /\ \A n \in 0..k : g[n] \in Seq(OutLine)
  <2> HIDE DEF F, k
  <2> QED BY <1>1, <1>3, <1>4, StepsExist
<1>6. All(g)
  <2>1. \A i \in 0..k : i # 0 => i \in 1..k /\ i - 1 \in 0..k
    BY <1>1
  <2>2. g = [n \in 0..k |-> IF n = 0 THEN <<>> ELSE F[n][g[n - 1]]]
    BY <1>5 DEF Stepped
  <2>3. \A i \in 0..k : i # 0 => F[i][g[i - 1]] = g[i - 1] \o L(i)
    <3> HIDE DEF k
    <3> QED BY <1>5, <2>1
  <2> HIDE DEF F, k
  <2> QED BY <2>2, <2>3
<1>7. All(h)
  BY <1>6
<1>8. BurstLines(b, bursts) = h[k]
  BY DEF BurstLines, L
<1> HIDE DEF h
<1>9. h[0] = <<>> /\ \A i \in 1..k : h[i] = h[i - 1] \o L(i)
  <2>1. 0 \in 0..k /\ \A i \in 1..k : i \in 0..k /\ i # 0
    BY <1>1
  <2> HIDE DEF k
  <2> QED BY <1>7, <2>1
<1> DEFINE Fine(i) == {s \in Seq(OutLine) :
              /\ \A d : Printed(d, s) = IF d = b THEN Added(f, i) ELSE 0
              /\ \A m \in 1..i : Tells(b, s, Signature(bursts[m].copy))}
           Good == [i \in 0..k |-> Fine(i)]
<1>10. h[0] \in Fine(0)
  <2>1. Added(f, 0) = 0
    <3>1. Naturals1(f, 0)
      BY DEF Naturals1
    <3> QED BY <3>1, AddedNext
  <2>2. \A d : Printed(d, <<>>) = 0
    BY PrintedNone
  <2>3. \A d : Printed(d, <<>>) = IF d = b THEN Added(f, 0) ELSE 0
    BY <2>1, <2>2
  <2>4. 1..0 = {}
    OBVIOUS
  <2> QED BY <1>4, <1>9, <2>3, <2>4
<1>11. ASSUME NEW i \in 1..k, h[i - 1] \in Fine(i - 1) PROVE h[i] \in Fine(i)
  <2> DEFINE s == h[i - 1]
  <2>1. s \in Seq(OutLine) /\ L(i) \in Seq(OutLine) /\ h[i] = s \o L(i)
    BY <1>2, <1>9, <1>11
  <2>2. ASSUME NEW d PROVE Printed(d, h[i]) = IF d = b THEN Added(f, i) ELSE 0
    <3>1. Printed(d, s \o L(i)) = Printed(d, s) + Printed(d, L(i))
      <4> HIDE DEF s
      <4> QED BY <2>1, PrintedBehind
    <3>2. Printed(d, s) = IF d = b THEN Added(f, i - 1) ELSE 0
      BY <1>11
    <3>3. Printed(d, L(i)) = IF d = b THEN f[i] ELSE 0
      BY <1>2
    <3>4. Added(f, i) = Added(f, i - 1) + f[i]
      <4>1. i \in Nat /\ i # 0 /\ Naturals1(f, i)
        BY <1>1 DEF Naturals1
      <4> QED BY <4>1, AddedNext
    <3> HIDE DEF s
    <3> QED BY <2>1, <3>1, <3>2, <3>3, <3>4
  <2>3. ASSUME NEW m \in 1..i PROVE Tells(b, h[i], Signature(bursts[m].copy))
    <3>1. m = i \/ m \in 1..(i - 1)
      OBVIOUS
    <3>2. Tells(b, s, Signature(bursts[m].copy)) \/ Tells(b, L(i), Signature(bursts[m].copy))
      BY <1>2, <1>11, <3>1
    <3> HIDE DEF s
    <3> QED BY <2>1, <3>2, TellsBehind
  <2>4. h[i] \in Seq(OutLine)
    <3> HIDE DEF s
    <3> QED BY <2>1, PrintedBehind
  <2> QED BY <2>2, <2>3, <2>4
<1> HIDE DEF Fine
<1>12. h[0] \in Good[0]
  BY <1>1, <1>10
<1>13. ASSUME NEW i \in 1..k, h[i - 1] \in Good[i - 1] PROVE h[i] \in Good[i]
  <2>1. i - 1 \in 0..k /\ i \in 0..k
    BY <1>1
  <2> QED BY <1>11, <1>13, <2>1
<1>14. k \in 0..k
  BY <1>1
<1>15. h[k] \in Fine(k)
  <2>1. \A i \in 0..k : h[i] \in Good[i]
    <3> HIDE DEF Good, k
    <3> QED BY <1>1, <1>12, <1>13, EachStep
  <2> QED BY <1>14, <2>1
<1> HIDE DEF k, h
<1>16. /\ h[k] \in Seq(OutLine) /\ \A d : Printed(d, h[k]) = IF d = b THEN Added(f, k) ELSE 0
       /\ \A m \in 1..k : Tells(b, h[k], Signature(bursts[m].copy))
  BY <1>15 DEF Fine
<1> QED BY <1>1, <1>8, <1>16 DEF k

Has(bursts, sg) == \E i \in 1..Len(bursts) : Signature(bursts[i].copy) = sg

LEMMA CollectedCounts ==
  ASSUME NEW bursts, BurstsOK(bursts), NEW c \in Copy, c.class = "hot"
  PROVE  /\ BurstsOK(Collected(bursts, c)) /\ Collecting(bursts) \in Nat
         /\ Collecting(Collected(bursts, c)) = Collecting(bursts) + 1
         /\ \A sg : Has(bursts, sg) \/ sg = Signature(c) => Has(Collected(bursts, c), sg)
<1> DEFINE k == Len(bursts)
           r == Collected(bursts, c)
           f == Counts(bursts)
           e == Counts(r)
<1>1. /\ bursts \in Seq(Burst) /\ k \in Nat /\ DOMAIN bursts = 1..k /\ Naturals1(f, k)
      /\ Collecting(bursts) = Added(f, k)
      /\ \A i \in 1..k : f[i] = bursts[i].count /\ bursts[i] \in Burst /\ bursts[i].copy.class = "hot" /\ bursts[i].count # 0
  <2>1. bursts \in Seq(Burst)
    BY DEF BurstsOK
  <2> HIDE DEF f
  <2> QED BY <2>1, CountsAdd DEF BurstsOK, f
<1>2. Added(f, k) \in Nat
  <2> HIDE DEF f, k
  <2> QED BY <1>1, AddedNext
<1>3. \A i \in 1..k : bursts[i].copy \in Copy /\ bursts[i].count \in Nat
  BY <1>1 DEF Burst
<1>4. \A i, j \in 1..k : Signature(bursts[i].copy) = Signature(bursts[j].copy) => i = j
  BY DEF BurstsOK
<1>5. ASSUME NEW j \in 1..k, Signature(bursts[j].copy) = Signature(c)
      PROVE  BurstsOK(r) /\ Collecting(r) = Collecting(bursts) + 1
             /\ \A sg : Has(bursts, sg) \/ sg = Signature(c) => Has(r, sg)
  <2> DEFINE More(x) == [x EXCEPT !.count = @ + 1]
  <2>1. \A x \in Burst : More(x) \in Burst /\ More(x).copy = x.copy /\ More(x).count = x.count + 1
    BY DEF Burst
  <2>2. r = [i \in 1..k |-> IF Signature(bursts[i].copy) = Signature(c) THEN More(bursts[i]) ELSE bursts[i]]
    BY <1>1, <1>5 DEF Collected
  <2> HIDE DEF r, More
  <2>3. \A i \in 1..k : r[i] = IF i = j THEN More(bursts[i]) ELSE bursts[i]
    BY <1>4, <1>5, <2>2
  <2>4. \A i \in 1..k : r[i] \in Burst /\ r[i].copy = bursts[i].copy /\ r[i].count = IF i = j THEN bursts[i].count + 1 ELSE bursts[i].count
    BY <1>1, <2>1, <2>3
  <2>5. r \in [1..k -> Burst]
    BY <2>2, <2>4
  <2>6. r \in Seq(Burst) /\ Len(r) = k
    BY <1>1, <2>5, SeqDef, LenProperties
  <2>7. BurstsOK(r)
    <3>1. \A i \in 1..k : r[i].count # 0
      BY <1>1, <1>3, <2>4
    <3> HIDE DEF k
    <3> QED BY <1>1, <1>4, <2>4, <2>6, <3>1 DEF BurstsOK
  <2>8. Collecting(r) = Added(e, k) /\ \A i \in 1..k : e[i] = r[i].count
    <3> HIDE DEF e, k
    <3> QED BY <2>6, CountsAdd DEF e
  <2>9. \A i \in 1..k : e[i] = IF i = j THEN f[i] + 1 ELSE f[i]
    <3> HIDE DEF e, f, k
    <3> QED BY <1>1, <2>4, <2>8
  <2>10. Added(e, k) = Added(f, k) + 1
    <3> HIDE DEF e, f, k
    <3> QED BY <1>1, <2>9, AddedMore
  <2>11. \A sg : Has(bursts, sg) \/ sg = Signature(c) => Has(r, sg)
    <3> HIDE DEF e, f
    <3> QED BY <1>5, <2>4, <2>6 DEF Has
  <2> HIDE DEF e, f
  <2> QED BY <1>1, <2>7, <2>8, <2>10, <2>11
<1>6. ASSUME \A i \in 1..k : Signature(bursts[i].copy) # Signature(c)
      PROVE  BurstsOK(r) /\ Collecting(r) = Collecting(bursts) + 1
             /\ \A sg : Has(bursts, sg) \/ sg = Signature(c) => Has(r, sg)
  <2> DEFINE x == [copy |-> c, count |-> 1]
  <2>1. x \in Burst /\ x.copy = c /\ x.count = 1
    BY DEF Burst
  <2> HIDE DEF x
  <2>2. r = Append(bursts, x)
    BY <1>1, <1>6 DEF Collected, x
  <2> HIDE DEF r
  <2>3. r \in Seq(Burst) /\ Len(r) = k + 1 /\ r[k + 1] = x /\ \A i \in 1..k : r[i] = bursts[i]
    BY <1>1, <2>1, <2>2, AppendProperties
  <2>4. \A i \in 1..(k + 1) : i \in 1..k \/ i = k + 1
    BY <1>1
  <2>5. k + 1 \in 1..(k + 1) /\ \A i \in 1..k : i \in 1..(k + 1)
    BY <1>1
  <2>6. BurstsOK(r)
    <3>1. \A i \in 1..(k + 1) : r[i].copy.class = "hot" /\ r[i].count # 0
      BY <1>1, <2>1, <2>3, <2>4
    <3>2. \A i, j \in 1..(k + 1) : Signature(r[i].copy) = Signature(r[j].copy) => i = j
      BY <1>4, <1>6, <2>1, <2>3, <2>4
    <3> QED BY <2>3, <3>1, <3>2 DEF BurstsOK
  <2>7. Collecting(r) = Added(e, k + 1) /\ Naturals1(e, k + 1) /\ \A i \in 1..(k + 1) : e[i] = r[i].count
    <3>1. Naturals1(e, Len(r)) /\ Collecting(r) = Added(e, Len(r)) /\ \A i \in 1..Len(r) : e[i] = r[i].count
      <4> HIDE DEF e
      <4> QED BY <2>3, CountsAdd DEF e
    <3> HIDE DEF e, k
    <3> QED BY <2>3, <3>1
  <2>8. Added(e, k + 1) = Added(e, k) + e[k + 1]
    <3> DEFINE m == k + 1
    <3>1. m \in Nat /\ m # 0 /\ m - 1 = k
      BY <1>1
    <3>2. Naturals1(e, m)
      BY <2>7
    <3> HIDE DEF e, m, k
    <3>3. Added(e, m) = Added(e, m - 1) + e[m]
      BY <3>1, <3>2, AddedNext
    <3> QED BY <3>1, <3>3 DEF m
  <2>9. Added(f, k) = Added(e, k)
    <3>1. \A i \in 1..k : f[i] = e[i]
      <4> HIDE DEF e, f, k
      <4> QED BY <1>1, <2>3, <2>5, <2>7
    <3> HIDE DEF e, f, k
    <3> QED BY <1>1, <3>1, AddedSame
  <2>10. e[k + 1] = 1
    <3> HIDE DEF e, k
    <3> QED BY <2>1, <2>3, <2>5, <2>7
  <2>11. \A sg : Has(bursts, sg) \/ sg = Signature(c) => Has(r, sg)
    <3> HIDE DEF e, f
    <3> QED BY <2>1, <2>3, <2>5 DEF Has
  <2> HIDE DEF e, f
  <2> QED BY <1>1, <2>6, <2>7, <2>8, <2>9, <2>10, <2>11
<1> HIDE DEF r, f, e
<1>7. BurstsOK(r) /\ Collecting(r) = Collecting(bursts) + 1
             /\ \A sg : Has(bursts, sg) \/ sg = Signature(c) => Has(r, sg)
  BY <1>5, <1>6
<1> QED BY <1>1, <1>2, <1>7 DEF r

-------------------------------------------------------------------------------
(***************************************************************************)
(* The invariant of the trace bus.                                         *)
(***************************************************************************)
Mains == {Idle, [at |-> "gone"]} \cup [at : {"sends"}, bus : Buses, event : TraceEvent]
         \cup [at : {"flushes"}, bus : Buses]
TraceTyped ==
  /\ main \in Mains /\ chan \in [Buses -> Seq(TraceEvent)] /\ sent \in [Buses -> Seq(TraceEvent)]
  /\ undelivered \in [Buses -> Nat] /\ flushed \in [Buses -> Nat] /\ hot \in [Buses -> Nat]
  /\ worker \in [Buses -> [alive : BOOLEAN, busy : BOOLEAN, todo : Seq(Copy)]]
  /\ tracer \in [Buses -> [bursts : Seq(Burst), seen : SUBSET Classes]]
  /\ out \in Seq(OutLine)

Ahead(b) == IF worker[b].busy THEN 1 ELSE 0
Sending(b) == IF main.at = "sends" /\ main.bus = b THEN 1 ELSE 0
ShownAll(b, i) == \A c \in ToSet(Copies(sent[b][i])) : Shown(b, c)

\* What is in the channel was sent last, what the worker holds before that, and all
\* before is shown; the counter is the number of the others.
Delivering(b) ==
  worker[b].alive =>
    /\ Len(chan[b]) + Ahead(b) <= Len(sent[b])
    /\ \A j \in 1..Len(chan[b]) : chan[b][j] = sent[b][Len(sent[b]) - Len(chan[b]) + j]
    /\ \A i \in 1..(Len(sent[b]) - Len(chan[b]) - Ahead(b)) : ShownAll(b, i)
    /\ worker[b].busy => \A c \in ToSet(Copies(sent[b][Len(sent[b]) - Len(chan[b])])) :
                            Shown(b, c) \/ c \in ToSet(worker[b].todo)
    /\ ~worker[b].busy => worker[b].todo = <<>>
    /\ undelivered[b] = Len(chan[b]) + Ahead(b) + Sending(b)
\* A worker that died holds one event for ever.
Stuck(b) == ~worker[b].alive => worker[b].busy /\ worker[b].todo = <<>> /\ undelivered[b] >= 1 + Sending(b)
FlushedOK(b) == flushed[b] <= Len(sent[b]) /\ \A i \in 1..flushed[b] : ShownAll(b, i)
TracerOK(b) ==
  /\ BurstsOK(tracer[b].bursts) /\ \A k \in tracer[b].seen : TellsPage(b, out, k)
  /\ hot[b] = Printed(b, out) + Collecting(tracer[b].bursts)
TraceInv ==
  /\ TraceTyped
  /\ \A b \in Buses : Delivering(b) /\ Stuck(b) /\ FlushedOK(b) /\ TracerOK(b)

ShownIn(o, bursts, b, c) ==
  \/ c.class = "noise"
  \/ \E i \in 1..Len(o) : o[i].bus = b /\ LineOf(c, o[i])
  \/ Has(bursts, Signature(c))

LEMMA ShownIs ==
  ASSUME NEW b, NEW c, NEW o \in Seq(OutLine), NEW bursts \in Seq(Burst)
  PROVE  (\/ c.class = "noise"
          \/ \E i \in DOMAIN o : o[i].bus = b /\ LineOf(c, o[i])
          \/ \E i \in DOMAIN bursts : Signature(bursts[i].copy) = Signature(c)) <=> ShownIn(o, bursts, b, c)
<1>1. DOMAIN o = 1..Len(o) /\ DOMAIN bursts = 1..Len(bursts)
  BY LenProperties
<1> QED BY <1>1 DEF ShownIn, Has

\* What stays of the deliveries of a bus nothing happens to.
LEMMA SameDelivered ==
  ASSUME TraceTyped, NEW d \in Buses, Delivering(d), Stuck(d), FlushedOK(d),
         chan'[d] = chan[d], sent'[d] = sent[d], worker'[d] = worker[d],
         undelivered'[d] = undelivered[d], flushed'[d] = flushed[d], Sending(d)' = Sending(d),
         \A c \in Copy : Shown(d, c) => Shown(d, c)'
  PROVE  Delivering(d)' /\ Stuck(d)' /\ FlushedOK(d)'
<1> DEFINE n == Len(sent[d])
           k == Len(chan[d])
<1>1. n \in Nat /\ k \in Nat /\ Ahead(d) \in {0, 1} /\ flushed[d] \in Nat /\ \A i \in 1..n : sent[d][i] \in TraceEvent
  BY LenProperties, ElementOfSeq DEF TraceTyped, Ahead
<1>2. \A i \in 1..n : ToSet(Copies(sent[d][i])) \subseteq Copy
  BY <1>1, CopiesListed, SetOfSeq
<1>3. Ahead(d)' = Ahead(d)
  BY DEF Ahead
<1>4. \A i \in 1..n : ShownAll(d, i) => ShownAll(d, i)'
  BY <1>2 DEF ShownAll
<1>5. FlushedOK(d)'
  <2>1. flushed[d] <= n
    BY DEF FlushedOK
  <2>2. \A i \in 1..flushed[d] : i \in 1..n
    BY <1>1, <2>1
  <2> QED BY <1>4, <2>2 DEF FlushedOK
<1>6. Stuck(d)'
  BY DEF Stuck
<1>7. ASSUME worker[d].alive PROVE Delivering(d)'
  <2>1. k + Ahead(d) <= n
    BY <1>7 DEF Delivering
  <2>2. \A i \in 1..(n - k - Ahead(d)) : i \in 1..n
    <3> DEFINE u == Ahead(d)
    <3>1. n \in Nat /\ k \in Nat /\ u \in Nat
      BY <1>1
    <3> HIDE DEF n, k, u
    <3>2. \A i \in 1..(n - k - u) : i \in 1..n
      BY <3>1
    <3> QED BY <3>2 DEF u
  <2>3. worker[d].busy => n - k \in 1..n
    <3>1. worker[d].busy => k + 1 <= n
      BY <2>1 DEF Ahead
    <3> HIDE DEF n, k
    <3> QED BY <1>1, <3>1
  <2>4. worker[d].busy => \A c \in ToSet(Copies(sent[d][n - k])) : Shown(d, c)' \/ c \in ToSet(worker[d].todo)
    <3>1. worker[d].busy => \A c \in ToSet(Copies(sent[d][n - k])) : Shown(d, c) \/ c \in ToSet(worker[d].todo)
      BY <1>7 DEF Delivering
    <3> QED BY <1>2, <2>3, <3>1
  <2>5. \A i \in 1..(n - k - Ahead(d)) : ShownAll(d, i)'
    <3>1. \A i \in 1..(n - k - Ahead(d)) : ShownAll(d, i)
      BY <1>7 DEF Delivering
    <3> QED BY <1>4, <2>2, <3>1
  <2> QED BY <1>3, <1>7, <2>1, <2>4, <2>5 DEF Delivering
<1>8. ASSUME ~worker[d].alive PROVE Delivering(d)'
  <2>1. ~worker'[d].alive
    BY <1>8
  <2> QED BY <2>1, Zenon DEF Delivering
<1> QED BY <1>5, <1>6, <1>7, <1>8

Worker == [alive : BOOLEAN, busy : BOOLEAN, todo : Seq(Copy)]
LEMMA WorkerPut ==
  ASSUME NEW w \in Worker, NEW s \in Seq(Copy), NEW y \in BOOLEAN
  PROVE  /\ [w EXCEPT !.busy = y, !.todo = s] \in Worker
         /\ [w EXCEPT !.busy = y, !.todo = s].alive = w.alive
         /\ [w EXCEPT !.busy = y, !.todo = s].busy = y
         /\ [w EXCEPT !.busy = y, !.todo = s].todo = s
BY DEF Worker
LEMMA WorkerTodo ==
  ASSUME NEW w \in Worker, NEW s \in Seq(Copy)
  PROVE  /\ [w EXCEPT !.todo = s] \in Worker
         /\ [w EXCEPT !.todo = s].alive = w.alive
         /\ [w EXCEPT !.todo = s].busy = w.busy
         /\ [w EXCEPT !.todo = s].todo = s
BY DEF Worker
LEMMA WorkerBusy ==
  ASSUME NEW w \in Worker, NEW y \in BOOLEAN
  PROVE  /\ [w EXCEPT !.busy = y] \in Worker
         /\ [w EXCEPT !.busy = y].alive = w.alive
         /\ [w EXCEPT !.busy = y].busy = y
         /\ [w EXCEPT !.busy = y].todo = w.todo
BY DEF Worker
LEMMA WorkerHas == ASSUME TraceTyped, NEW b \in Buses PROVE worker \in [Buses -> Worker] /\ worker[b] \in Worker
                          /\ worker[b].todo \in Seq(Copy) /\ worker[b].busy \in BOOLEAN /\ worker[b].alive \in BOOLEAN
BY DEF TraceTyped, Worker

LEMMA SameTraced ==
  ASSUME NEW d, TracerOK(d), tracer'[d] = tracer[d], hot'[d] = hot[d], out' = out
  PROVE  TracerOK(d)'
BY DEF TracerOK

LEMMA BusTyped ==
  ASSUME TraceTyped, NEW b \in Buses
  PROVE  /\ chan[b] \in Seq(TraceEvent) /\ sent[b] \in Seq(TraceEvent) /\ Len(chan[b]) \in Nat /\ Len(sent[b]) \in Nat
         /\ flushed[b] \in Nat /\ undelivered[b] \in Nat /\ Sending(b) \in {0, 1} /\ Sending(b) \in Nat
         /\ (\A j \in 1..Len(chan[b]) : chan[b][j] \in TraceEvent)
         /\ \A j \in 1..Len(sent[b]) : sent[b][j] \in TraceEvent
BY LenProperties, ElementOfSeq DEF TraceTyped, Sending

\* Nothing that the flush or the exit says of main counts as sending.
LEMMA MainOnly ==
  ASSUME TraceInv, main' \in Mains, \A d \in Buses : Sending(d)' = Sending(d),
         UNCHANGED <<chan, undelivered, worker, tracer, out, sent, flushed, hot>>
  PROVE  TraceInv'
<1>1. TraceTyped'
  BY DEF TraceInv, TraceTyped
<1>2. \A b \in Buses, c \in Copy : Shown(b, c) => Shown(b, c)'
  BY DEF Shown
<1>3. ASSUME NEW d \in Buses PROVE Delivering(d)' /\ Stuck(d)' /\ FlushedOK(d)' /\ TracerOK(d)'
  <2>1. Delivering(d)' /\ Stuck(d)' /\ FlushedOK(d)'
    <3>1. Sending(d)' = Sending(d) /\ \A c \in Copy : Shown(d, c) => Shown(d, c)'
      BY <1>2
    <3> QED BY <3>1, SameDelivered DEF TraceInv
  <2>2. TracerOK(d)'
    BY SameTraced DEF TraceInv
  <2> QED BY <2>1, <2>2
<1> QED BY <1>1, <1>3 DEF TraceInv

LEMMA ReceiveKeeps == ASSUME TraceInv, NEW b \in Buses, Receive(b) PROVE TraceInv'
<1> DEFINE n == Len(sent[b])
           k == Len(chan[b])
           e == Head(chan[b])
           s == Copies(e)
<1> TraceTyped /\ worker[b].alive /\ ~worker[b].busy /\ chan[b] # <<>>
  BY DEF TraceInv, Receive
<1>1. /\ chan[b] \in Seq(TraceEvent) /\ k \in Nat /\ n \in Nat /\ Sending(b) \in Nat
      /\ \A i \in 1..n : sent[b][i] \in TraceEvent
  BY BusTyped
<1>2. /\ k # 0 /\ e = chan[b][1] /\ e \in TraceEvent /\ Tail(chan[b]) \in Seq(TraceEvent) /\ Len(Tail(chan[b])) = k - 1
      /\ \A j \in 1..(k - 1) : Tail(chan[b])[j] = chan[b][j + 1]
  BY <1>1, HeadTailProperties, EmptySeq, ElementOfSeq
<1>3. s \in Seq(Copy)
  BY <1>2, CopiesListed
<1>4. /\ worker' = [worker EXCEPT ![b] = [worker[b] EXCEPT !.busy = TRUE, !.todo = s]]
      /\ chan' = [chan EXCEPT ![b] = Tail(chan[b])]
      /\ UNCHANGED <<main, undelivered, tracer, out, sent, flushed, hot>>
  BY DEF Receive
<1> HIDE DEF s
<1>5. worker \in [Buses -> Worker] /\ worker[b] \in Worker
  BY WorkerHas
<1>6. /\ worker'[b] \in Worker /\ worker'[b].alive /\ worker'[b].busy /\ worker'[b].todo = s
      /\ worker' \in [Buses -> Worker] /\ \A d \in Buses : d # b => worker'[d] = worker[d]
  <2> DEFINE w == [worker[b] EXCEPT !.busy = TRUE, !.todo = s]
  <2>1. w \in Worker /\ w.alive = worker[b].alive /\ w.busy = TRUE /\ w.todo = s
    BY <1>3, <1>5, WorkerPut
  <2>2. worker' = [worker EXCEPT ![b] = w]
    BY <1>4
  <2> HIDE DEF w
  <2> QED BY <1>5, <2>1, <2>2
<1>7. chan' \in [Buses -> Seq(TraceEvent)] /\ chan'[b] = Tail(chan[b]) /\ \A d \in Buses : d # b => chan'[d] = chan[d]
  BY <1>2, <1>4 DEF TraceTyped
<1>8. TraceTyped'
  BY <1>4, <1>6, <1>7 DEF TraceTyped, Worker
<1>9. \A d \in Buses, c \in Copy : Shown(d, c) => Shown(d, c)'
  BY <1>4 DEF Shown
<1>10. \A d \in Buses : TracerOK(d)' /\ Sending(d)' = Sending(d)
  BY <1>4, SameTraced DEF TraceInv, Sending
<1>11. ASSUME NEW d \in Buses, d # b PROVE Delivering(d)' /\ Stuck(d)' /\ FlushedOK(d)'
  <2>1. Sending(d)' = Sending(d) /\ \A c \in Copy : Shown(d, c) => Shown(d, c)'
    BY <1>9, <1>10
  <2> QED BY <1>4, <1>6, <1>7, <1>11, <2>1, SameDelivered DEF TraceInv
<1>12. \A i \in 1..n : ShownAll(b, i) => ShownAll(b, i)'
  <2>1. \A i \in 1..n : ToSet(Copies(sent[b][i])) \subseteq Copy
    BY <1>1, CopiesListed, SetOfSeq
  <2> QED BY <1>4, <1>9, <2>1 DEF ShownAll
<1>13. Stuck(b)' /\ FlushedOK(b)'
  <2>1. FlushedOK(b) /\ flushed[b] \in Nat
    BY BusTyped DEF TraceInv
  <2>2. \A i \in 1..flushed[b] : i \in 1..n
    BY <1>1, <2>1 DEF FlushedOK
  <2> QED BY <1>4, <1>6, <1>12, <2>1, <2>2 DEF Stuck, FlushedOK
<1>14. /\ k <= n /\ (\A j \in 1..k : chan[b][j] = sent[b][n - k + j])
       /\ (\A i \in 1..(n - k) : ShownAll(b, i)) /\ undelivered[b] = k + Sending(b)
  <2>1. Ahead(b) = 0 /\ Delivering(b)
    BY DEF Ahead, TraceInv
  <2>2. /\ k + 0 <= n /\ (\A j \in 1..k : chan[b][j] = sent[b][n - k + j])
        /\ (\A i \in 1..(n - k - 0) : ShownAll(b, i)) /\ undelivered[b] = k + 0 + Sending(b)
    BY <2>1 DEF Delivering
  <2>3. n - k - 0 = n - k /\ k + 0 = k
    BY <1>1
  <2> QED BY <2>2, <2>3
<1>15. Ahead(b)' = 1 /\ Len(chan[b])' = k - 1 /\ Len(sent[b])' = n
  BY <1>2, <1>4, <1>6, <1>7 DEF Ahead
<1>16. ToSet(Copies(sent[b][n - (k - 1)])) = ToSet(s)
  <2>1. sent[b][n - (k - 1)] = e
    <3>1. 1 \in 1..k /\ n - k + 1 = n - (k - 1)
      BY <1>1, <1>2
    <3> QED BY <1>2, <1>14, <3>1
  <2> QED BY <2>1 DEF s
<1>17. \A j \in 1..(k - 1) : chan'[b][j] = sent[b][n - (k - 1) + j]
  <2>1. \A j \in 1..(k - 1) : j + 1 \in 1..k /\ n - k + (j + 1) = n - (k - 1) + j
    <3>1. n \in Nat /\ k \in Nat
      BY <1>1
    <3> HIDE DEF n, k
    <3> QED BY <3>1
  <2> HIDE DEF n, k
  <2> QED BY <1>2, <1>7, <1>14, <2>1
<1>18. /\ (k - 1) + 1 <= n /\ undelivered[b] = (k - 1) + 1 + Sending(b)
       /\ n - (k - 1) - 1 = n - k
  BY <1>1, <1>2, <1>14
<1>19. \A i \in 1..(n - k) : ShownAll(b, i)'
  <2>1. \A i \in 1..(n - k) : i \in 1..n
    BY <1>1
  <2> QED BY <1>12, <1>14, <2>1
<1>20. Delivering(b)'
  <2> HIDE DEF n, k
  <2> QED BY <1>4, <1>6, <1>10, <1>15, <1>16, <1>17, <1>18, <1>19 DEF Delivering
<1> QED BY <1>8, <1>10, <1>11, <1>13, <1>20 DEF TraceInv

\* What was shown stays so when lines follow and bursts are told or kept.
LEMMA ShownBehind ==
  ASSUME NEW o \in Seq(OutLine), NEW t \in Seq(OutLine), NEW d, NEW c \in Copy, NEW bs, NEW bs2,
         BurstsOK(bs), ShownIn(o, bs, d, c),
         Has(bs, Signature(c)) => Has(bs2, Signature(c)) \/ Tells(d, t, Signature(c))
  PROVE  ShownIn(o \o t, bs2, d, c)
<1>1. /\ Len(o \o t) = Len(o) + Len(t) /\ Len(o) \in Nat /\ Len(t) \in Nat
      /\ \A i \in 1..Len(o) : (o \o t)[i] = o[i]
  BY PrintedBehind, LenProperties
<1>2. CASE c.class = "noise"
  BY <1>2 DEF ShownIn
<1>3. CASE \E i \in 1..Len(o) : o[i].bus = d /\ LineOf(c, o[i])
  <2>1. \A i \in 1..Len(o) : i \in 1..Len(o \o t)
    BY <1>1
  <2> QED BY <1>1, <1>3, <2>1 DEF ShownIn
<1>4. CASE Has(bs, Signature(c))
  <2>1. CASE Has(bs2, Signature(c))
    BY <2>1 DEF ShownIn
  <2>2. CASE Tells(d, t, Signature(c))
    <3>1. PICK i \in 1..Len(bs) : Signature(bs[i].copy) = Signature(c)
      BY <1>4 DEF Has
    <3>2. bs[i].copy.class = "hot" /\ bs[i].copy \in Copy
      <4>1. bs[i] \in Burst
        BY ElementOfSeq DEF BurstsOK
      <4> QED BY <4>1 DEF BurstsOK, Burst
    <3>3. c.class = "hot"
      BY <3>1, <3>2, SignatureTyped
    <3>4. Tells(d, o \o t, Signature(c))
      BY <2>2, TellsBehind
    <3>5. PICK j \in 1..Len(o \o t) : (o \o t)[j].bus = d /\ (o \o t)[j].of = Signature(c)
      BY <3>4 DEF Tells
    <3>6. LineOf(c, (o \o t)[j])
      BY <3>3, <3>5, LineShows
    <3> QED BY <3>5, <3>6 DEF ShownIn
  <2> QED BY <1>4, <2>1, <2>2
<1> QED BY <1>2, <1>3, <1>4 DEF ShownIn

Tracer == [bursts : Seq(Burst), seen : SUBSET Classes]
LEMMA TracerPut ==
  ASSUME NEW t \in Tracer, NEW bs \in Seq(Burst)
  PROVE  [t EXCEPT !.bursts = bs] \in Tracer /\ [t EXCEPT !.bursts = bs].bursts = bs
         /\ [t EXCEPT !.bursts = bs].seen = t.seen
BY DEF Tracer
LEMMA TracerHas ==
  ASSUME TraceInv, NEW b \in Buses
  PROVE  /\ tracer \in [Buses -> Tracer] /\ tracer[b] \in Tracer /\ out \in Seq(OutLine) /\ hot[b] \in Nat
         /\ hot \in [Buses -> Nat] /\ tracer[b].bursts \in Seq(Burst) /\ BurstsOK(tracer[b].bursts)
         /\ (\A k \in tracer[b].seen : TellsPage(b, out, k)) /\ tracer[b].seen \in SUBSET Classes
         /\ hot[b] = Printed(b, out) + Collecting(tracer[b].bursts)
BY DEF TraceInv, TraceTyped, Tracer, TracerOK

\* Shown, of a state and of the next one.
LEMMA ShownNow == ASSUME TraceInv, NEW b \in Buses, NEW c PROVE Shown(b, c) <=> ShownIn(out, tracer[b].bursts, b, c)
<1>1. out \in Seq(OutLine) /\ tracer[b].bursts \in Seq(Burst)
  BY TracerHas
<1> QED BY <1>1, ShownIs DEF Shown
LEMMA ShownThen ==
  ASSUME NEW b, NEW c, out' \in Seq(OutLine), tracer'[b].bursts \in Seq(Burst)
  PROVE  Shown(b, c)' <=> ShownIn(out', tracer'[b].bursts, b, c)
BY ShownIs DEF Shown

\* What a tracer does with an event leaves all counted and shown.
TracedFine(b, c) ==
  /\ tracer' \in [Buses -> Tracer] /\ out' \in Seq(OutLine) /\ hot' \in [Buses -> Nat]
  /\ \A d \in Buses : TracerOK(d)' /\ \A x \in Copy : Shown(d, x) => Shown(d, x)'
  /\ Shown(b, c)'

LEMMA SkipFine ==
  ASSUME TraceInv, NEW b \in Buses, NEW c \in Copy, Skipped(tracer[b], c), UNCHANGED <<tracer, out, hot>>
  PROVE  TracedFine(b, c)
<1>1. \A d \in Buses : TracerOK(d)' /\ \A x \in Copy : Shown(d, x) => Shown(d, x)'
  BY SameTraced DEF TraceInv, Shown
<1>2. ShownIn(out, tracer[b].bursts, b, c)
  <2>1. CASE c.class = "noise"
    BY <2>1 DEF ShownIn
  <2>2. CASE c.class = "page" /\ PageKey(c) \in tracer[b].seen
    <3>1. TellsPage(b, out, PageKey(c))
      BY <2>2, TracerHas
    <3> QED BY <2>2, <3>1 DEF TellsPage, LineOf, ShownIn
  <2> QED BY <2>1, <2>2 DEF Skipped
<1>3. Shown(b, c)'
  <2>1. Shown(b, c)
    BY <1>2, ShownNow
  <2> QED BY <1>1, <2>1
<1>4. tracer' \in [Buses -> Tracer] /\ out' \in Seq(OutLine) /\ hot' \in [Buses -> Nat]
  BY TracerHas
<1> QED BY <1>1, <1>3, <1>4 DEF TracedFine

Collects(b, c) ==
  /\ tracer' = [tracer EXCEPT ![b].bursts = Collected(@, c)]
  /\ hot' = [hot EXCEPT ![b] = @ + 1] /\ UNCHANGED out
LEMMA CollectFine ==
  ASSUME TraceInv, NEW b \in Buses, NEW c \in Copy, c.class = "hot", Collects(b, c)
  PROVE  TracedFine(b, c)
<1> /\ tracer' = [tracer EXCEPT ![b] = [tracer[b] EXCEPT !.bursts = Collected(tracer[b].bursts, c)]]
    /\ hot' = [hot EXCEPT ![b] = hot[b] + 1] /\ out' = out
  BY DEF Collects
<1> DEFINE bs == tracer[b].bursts
           bs2 == Collected(bs, c)
           t == [tracer[b] EXCEPT !.bursts = bs2]
<1>1. /\ tracer \in [Buses -> Tracer] /\ tracer[b] \in Tracer /\ hot \in [Buses -> Nat] /\ hot[b] \in Nat
      /\ BurstsOK(bs) /\ hot[b] = Printed(b, out) + Collecting(bs) /\ out \in Seq(OutLine) /\ bs \in Seq(Burst)
      /\ \A k \in tracer[b].seen : TellsPage(b, out, k)
  BY TracerHas
<1> HIDE DEF bs
<1>2. /\ BurstsOK(bs2) /\ Collecting(bs) \in Nat /\ Collecting(bs2) = Collecting(bs) + 1
      /\ \A sg : Has(bs, sg) \/ sg = Signature(c) => Has(bs2, sg)
  BY <1>1, CollectedCounts
<1> HIDE DEF bs2
<1>3. bs2 \in Seq(Burst)
  BY <1>2 DEF BurstsOK
<1>4. t \in Tracer /\ t.bursts = bs2 /\ t.seen = tracer[b].seen
  BY <1>1, <1>3, TracerPut
<1>5. tracer' = [tracer EXCEPT ![b] = t]
  BY DEF bs2, bs
<1> HIDE DEF t
<1>6. tracer' \in [Buses -> Tracer] /\ tracer'[b] = t /\ \A d \in Buses : d # b => tracer'[d] = tracer[d]
  BY <1>1, <1>4, <1>5
<1>7. hot' \in [Buses -> Nat] /\ hot'[b] = hot[b] + 1 /\ \A d \in Buses : d # b => hot'[d] = hot[d]
  BY <1>1
<1>8. TracerOK(b)'
  <2>1. Printed(b, out) \in Nat
    BY <1>1, PrintedBehind
  <2>2. hot[b] + 1 = Printed(b, out) + Collecting(bs2)
    BY <1>1, <1>2, <2>1
  <2> QED BY <1>1, <1>2, <1>4, <1>6, <1>7, <2>2 DEF TracerOK
<1>9. \A d \in Buses : TracerOK(d)'
  <2>1. ASSUME NEW d \in Buses, d # b PROVE TracerOK(d)'
    BY <1>6, <1>7, <2>1, SameTraced DEF TraceInv
  <2> QED BY <1>8, <2>1
<1>10. ASSUME NEW x \in Copy, ShownIn(out, bs, b, x) PROVE ShownIn(out, bs2, b, x)
  BY <1>2, <1>10 DEF ShownIn
<1>11. ASSUME NEW d \in Buses, NEW x \in Copy, Shown(d, x) PROVE Shown(d, x)'
  <2>1. CASE d = b
    <3>1. ShownIn(out, bs2, b, x)
      BY <1>10, <1>11, <2>1, ShownNow DEF bs
    <3>2. out' \in Seq(OutLine) /\ tracer'[b].bursts \in Seq(Burst) /\ tracer'[b].bursts = bs2
      BY <1>1, <1>3, <1>4, <1>6
    <3> QED BY <2>1, <3>1, <3>2, ShownThen
  <2>2. CASE d # b
    BY <1>6, <1>11, <2>2 DEF Shown
  <2> QED BY <2>1, <2>2
<1>12. Shown(b, c)'
  <2>1. ShownIn(out, bs2, b, c)
    BY <1>2 DEF ShownIn
  <2>2. out' \in Seq(OutLine) /\ tracer'[b].bursts \in Seq(Burst) /\ tracer'[b].bursts = bs2
    BY <1>1, <1>3, <1>4, <1>6
  <2> QED BY <2>1, <2>2, ShownThen
<1> QED BY <1>1, <1>6, <1>7, <1>9, <1>11, <1>12 DEF TracedFine

Prints(b, c) ==
  /\ out' = out \o BurstLines(b, tracer[b].bursts) \o <<Line(b, c, 0)>>
  /\ tracer' = [tracer EXCEPT ![b] =
       [bursts |-> <<>>,
        seen |-> IF c.class = "page" THEN @.seen \cup {PageKey(c)} ELSE @.seen]]
  /\ UNCHANGED hot
LEMMA PrintFine ==
  ASSUME TraceInv, NEW b \in Buses, NEW c \in Copy, c.class # "hot", Prints(b, c)
  PROVE  TracedFine(b, c)
<1> DEFINE seen == IF c.class = "page" THEN tracer[b].seen \cup {PageKey(c)} ELSE tracer[b].seen
<1> /\ out' = out \o BurstLines(b, tracer[b].bursts) \o <<Line(b, c, 0)>>
    /\ tracer' = [tracer EXCEPT ![b] = [bursts |-> <<>>, seen |-> seen]] /\ hot' = hot
    /\ seen = (IF c.class = "page" THEN tracer[b].seen \cup {PageKey(c)} ELSE tracer[b].seen)
  BY DEF Prints
<1> HIDE DEF seen
<1> DEFINE bs == tracer[b].bursts
           told == BurstLines(b, bs)
           l == Line(b, c, 0)
           more == told \o <<l>>
           t == [bursts |-> <<>>, seen |-> seen]
<1>1. /\ tracer \in [Buses -> Tracer] /\ tracer[b] \in Tracer /\ hot \in [Buses -> Nat] /\ hot[b] \in Nat
      /\ BurstsOK(bs) /\ hot[b] = Printed(b, out) + Collecting(bs) /\ out \in Seq(OutLine) /\ bs \in Seq(Burst)
      /\ (\A k \in tracer[b].seen : TellsPage(b, out, k)) /\ tracer[b].seen \in SUBSET Classes
  BY TracerHas
<1> HIDE DEF bs
<1>2. /\ told \in Seq(OutLine) /\ (\A i \in 1..Len(bs) : Tells(b, told, Signature(bs[i].copy)))
      /\ \A d : Printed(d, told) = IF d = b THEN Collecting(bs) ELSE 0
  BY <1>1, BurstsTold
<1> HIDE DEF told
<1>3. /\ l \in OutLine /\ l.bus = b /\ l.of = Signature(c) /\ l.id = c.id /\ \A d : Times(d, l) = 0
  <2>1. 0 \in Nat
    OBVIOUS
  <2>2. /\ Line(b, c, 0) \in OutLine /\ Line(b, c, 0).bus = b /\ Line(b, c, 0).of = Signature(c)
        /\ Line(b, c, 0).id = c.id
        /\ \A d : Times(d, Line(b, c, 0)) = IF d = b /\ c.class = "hot" THEN IF 0 = 0 THEN 1 ELSE 0 ELSE 0
    BY <2>1, LineTyped
  <2> QED BY <2>2
<1> HIDE DEF l
<1>4. <<l>> \in Seq(OutLine) /\ Len(<<l>>) = 1 /\ <<l>>[1] = l /\ \A d : Printed(d, <<l>>) = 0
  BY <1>3, PrintedShort
<1>5. more \in Seq(OutLine) /\ \A d : Printed(d, more) = Printed(d, told) + Printed(d, <<l>>)
  BY <1>2, <1>4, PrintedBehind
<1>6. \A d : Printed(d, more) = IF d = b THEN Collecting(bs) ELSE 0
  <2>1. Collecting(bs) \in Nat
    <3>1. Naturals1(Counts(bs), Len(bs)) /\ Collecting(bs) = Added(Counts(bs), Len(bs)) /\ Len(bs) \in Nat
      BY <1>1, CountsAdd
    <3> QED BY <3>1, AddedNext
  <2> HIDE DEF more
  <2> QED BY <1>2, <1>4, <1>5, <2>1
<1>7. Tells(b, <<l>>, Signature(c))
  <2>1. 1 \in 1..Len(<<l>>)
    BY <1>4
  <2> QED BY <1>3, <1>4, <2>1 DEF Tells
<1>8. Tells(b, more, Signature(c)) /\ \A sg : Has(bs, sg) => Tells(b, more, sg)
  BY <1>2, <1>4, <1>7, TellsBehind DEF Has
<1>9. out' = out \o more
  BY <1>1, <1>2, <1>4, ConcatAssociative DEF told, l, bs
<1>10. t.bursts = <<>> /\ t.seen = seen /\ t \in Tracer
  <2>1. seen \in SUBSET Classes
    BY <1>1 DEF PageKey, Copy
  <2>2. <<>> \in Seq(Burst)
    BY EmptySeq
  <2> QED BY <2>1, <2>2 DEF Tracer
<1> HIDE DEF t
<1>11. tracer' = [tracer EXCEPT ![b] = t]
  BY DEF t
<1>12. tracer' \in [Buses -> Tracer] /\ tracer'[b] = t /\ \A d \in Buses : d # b => tracer'[d] = tracer[d]
  BY <1>1, <1>10, <1>11
<1> HIDE DEF more
<1>13. out' \in Seq(OutLine) /\ \A d : Printed(d, out') = Printed(d, out) + Printed(d, more) /\ Printed(d, out) \in Nat
  <2>1. \A d : Printed(d, out \o more) = Printed(d, out) + Printed(d, more) /\ Printed(d, out) \in Nat
    BY <1>1, <1>5, PrintedBehind
  <2>2. out \o more \in Seq(OutLine)
    BY <1>1, <1>5, ConcatProperties
  <2> QED BY <1>9, <2>1, <2>2
<1>14. \A d, k : TellsPage(d, out, k) => TellsPage(d, out', k)
  BY <1>1, <1>5, <1>9, PageBehind
<1>15. TracerOK(b)'
  <2>1. BurstsOK(<<>>) /\ Collecting(<<>>) = 0
    <3>1. Len(<<>>) = 0 /\ 1..0 = {} /\ <<>> \in Seq(Burst)
      OBVIOUS
    <3>2. BurstsOK(<<>>)
      BY <3>1 DEF BurstsOK
    <3>3. Naturals1(Counts(<<>>), 0) /\ Collecting(<<>>) = Added(Counts(<<>>), 0)
      BY <3>1, CountsAdd
    <3> QED BY <3>2, <3>3, AddedNext
  <2>2. \A k \in seen : TellsPage(b, out', k)
    <3>1. TellsPage(b, out', PageKey(c))
      <4>1. Tells(b, out \o more, Signature(c))
        BY <1>1, <1>5, <1>8, TellsBehind
      <4>2. Signature(c)[2] = PageKey(c)
        BY SignatureTyped DEF PageKey
      <4> QED BY <1>9, <4>1, <4>2 DEF Tells, TellsPage
    <3> QED BY <1>1, <1>14, <3>1
  <2>3. hot'[b] = Printed(b, out') + 0
    <3>1. Printed(b, out') = Printed(b, out) + Collecting(bs)
      BY <1>6, <1>13
    <3>2. Printed(b, out') = hot[b]
      BY <1>1, <3>1
    <3> QED BY <1>1, <3>2
  <2> QED BY <1>10, <1>12, <2>1, <2>2, <2>3 DEF TracerOK
<1>16. ASSUME NEW d \in Buses, d # b PROVE TracerOK(d)'
  <2>1. BurstsOK(tracer[d].bursts) /\ (\A k \in tracer[d].seen : TellsPage(d, out, k))
        /\ hot[d] = Printed(d, out) + Collecting(tracer[d].bursts)
    BY DEF TraceInv, TracerOK
  <2>2. Printed(d, out') = Printed(d, out)
    BY <1>6, <1>13, <1>16
  <2> QED BY <1>12, <1>14, <1>16, <2>1, <2>2 DEF TracerOK
<1>17. ASSUME NEW d \in Buses, NEW x \in Copy, Shown(d, x) PROVE Shown(d, x)'
  <2> DEFINE old == tracer[d].bursts
             new == tracer'[d].bursts
  <2>1. BurstsOK(old) /\ ShownIn(out, old, d, x)
    BY <1>17, ShownNow, TracerHas
  <2>2. Has(old, Signature(x)) => Has(new, Signature(x)) \/ Tells(d, more, Signature(x))
    <3>1. CASE d = b
      BY <1>8, <3>1 DEF bs
    <3>2. CASE d # b
      BY <1>12, <3>2
    <3> QED BY <3>1, <3>2
  <2>3. new \in Seq(Burst)
    BY <1>12 DEF Tracer
  <2> HIDE DEF old, new
  <2>4. ShownIn(out', new, d, x)
    BY <1>1, <1>5, <1>9, <2>1, <2>2, ShownBehind
  <2> QED BY <1>13, <2>3, <2>4, ShownThen DEF new
<1>18. Shown(b, c)'
  <2>1. out' \in Seq(OutLine) /\ tracer'[b].bursts \in Seq(Burst)
    BY <1>12, <1>13 DEF Tracer
  <2>2. \E i \in 1..Len(out') : out'[i].bus = b /\ out'[i].of = Signature(c) /\ out'[i].id = c.id
    <3>1. Len(out) \in Nat /\ Len(told) \in Nat /\ out \o told \in Seq(OutLine) /\ Len(out \o told) = Len(out) + Len(told)
      BY <1>1, <1>2, PrintedBehind, LenProperties
    <3>2. out' = (out \o told) \o <<l>>
      BY DEF told, l, bs
    <3>3. Len(out') = Len(out \o told) + 1 /\ out'[Len(out \o told) + 1] = l
      <4> DEFINE o == out \o told
      <4>1. Len(o \o <<l>>) = Len(o) + Len(<<l>>) /\ \A i \in 1..Len(<<l>>) : (o \o <<l>>)[Len(o) + i] = <<l>>[i]
        <5> HIDE DEF o
        <5> QED BY <1>4, <3>1, PrintedBehind DEF o
      <4>2. 1 \in 1..Len(<<l>>)
        BY <1>4
      <4> QED BY <1>4, <3>2, <4>1, <4>2
    <3>4. Len(out \o told) + 1 \in 1..(Len(out \o told) + 1)
      BY <3>1
    <3> QED BY <1>3, <3>3, <3>4
  <2>3. ShownIn(out', tracer'[b].bursts, b, c)
    <3>1. PICK i \in 1..Len(out') : out'[i].bus = b /\ out'[i].of = Signature(c) /\ out'[i].id = c.id
      BY <2>2
    <3>2. LineOf(c, out'[i])
      BY <3>1, LineShows
    <3> QED BY <3>1, <3>2 DEF ShownIn
  <2> QED BY <2>1, <2>3, ShownThen
<1> QED BY <1>1, <1>12, <1>13, <1>15, <1>16, <1>17, <1>18 DEF TracedFine

LEMMA EmitFine ==
  ASSUME TraceInv, NEW b \in Buses, Emit(b)
  PROVE  \E c \in Copy : c = Head(worker[b].todo) /\ TracedFine(b, c)
<1>1. PICK c \in Copy : c = Head(worker[b].todo)
  <2>1. worker[b].todo \in Seq(Copy) /\ worker[b].todo # <<>>
    BY WorkerHas DEF TraceInv, Emit
  <2> QED BY <2>1, HeadTailProperties
<1>2. ASSUME Skipped(tracer[b], c), UNCHANGED <<tracer, out, hot>> PROVE TracedFine(b, c)
  BY <1>1, <1>2, SkipFine
<1>3. ASSUME c.class = "hot", Collects(b, c) PROVE TracedFine(b, c)
  BY <1>1, <1>3, CollectFine
<1>4. ASSUME c.class # "hot", Prints(b, c) PROVE TracedFine(b, c)
  BY <1>1, <1>4, PrintFine
<1>5. \/ Skipped(tracer[b], c) /\ UNCHANGED <<tracer, out, hot>>
      \/ c.class = "hot" /\ Collects(b, c)
      \/ c.class # "hot" /\ Prints(b, c)
  BY <1>1 DEF Emit, Collects, Prints
<1> QED BY <1>1, <1>2, <1>3, <1>4, <1>5

LEMMA EmitKeeps == ASSUME TraceInv, NEW b \in Buses, Emit(b) PROVE TraceInv'
<1> DEFINE n == Len(sent[b])
           k == Len(chan[b])
           todo == worker[b].todo
<1> TraceTyped /\ worker[b].alive /\ todo # <<>>
  BY DEF TraceInv, Emit
<1>1. PICK c \in Copy : c = Head(todo) /\ TracedFine(b, c)
  BY EmitFine
<1>2. /\ worker \in [Buses -> Worker] /\ worker[b] \in Worker /\ todo \in Seq(Copy)
  BY WorkerHas
<1>3. worker[b].busy
  BY DEF TraceInv, Delivering
<1>4. /\ worker' = [worker EXCEPT ![b] = [worker[b] EXCEPT !.todo = Tail(todo)]]
      /\ UNCHANGED <<main, chan, undelivered, sent, flushed>>
  BY DEF Emit
<1>5. Tail(todo) \in Seq(Copy) /\ \A x \in ToSet(todo) : x = c \/ x \in ToSet(Tail(todo))
  <2>1. /\ Tail(todo) \in Seq(Copy) /\ Len(todo) \in Nat /\ Len(todo) # 0 /\ Len(Tail(todo)) = Len(todo) - 1
        /\ c = todo[1] /\ \A j \in 1..(Len(todo) - 1) : Tail(todo)[j] = todo[j + 1]
    <3> HIDE DEF todo
    <3> QED BY <1>1, <1>2, HeadTailProperties, LenProperties, EmptySeq
  <2>2. \A i \in 1..Len(todo) : i = 1 \/ (i - 1 \in 1..(Len(todo) - 1) /\ (i - 1) + 1 = i)
    BY <2>1
  <2>3. ToSet(todo) = {todo[i] : i \in 1..Len(todo)} /\ ToSet(Tail(todo)) = {Tail(todo)[i] : i \in 1..(Len(todo) - 1)}
    <3>1. ToSet(todo) = {todo[i] : i \in 1..Len(todo)}
      BY <1>2, SetOfSeq
    <3>2. ToSet(Tail(todo)) = {Tail(todo)[i] : i \in 1..Len(Tail(todo))}
      <4> DEFINE s == Tail(todo)
      <4>1. s \in Seq(Copy)
        BY <2>1
      <4> HIDE DEF s
      <4>2. ToSet(s) = {s[i] : i \in 1..Len(s)}
        BY <4>1, SetOfSeq
      <4> QED BY <4>2 DEF s
    <3> QED BY <2>1, <3>1, <3>2
  <2> HIDE DEF todo
  <2> QED BY <2>1, <2>2, <2>3
<1>6. /\ worker' \in [Buses -> Worker] /\ worker'[b].alive = worker[b].alive /\ worker'[b].busy = worker[b].busy
      /\ worker'[b].todo = Tail(todo) /\ \A d \in Buses : d # b => worker'[d] = worker[d]
  <2> DEFINE s == Tail(todo)
             w == [worker[b] EXCEPT !.todo = s]
  <2>1. s \in Seq(Copy)
    BY <1>5
  <2> HIDE DEF s
  <2>2. w \in Worker /\ w.alive = worker[b].alive /\ w.busy = worker[b].busy /\ w.todo = s
    BY <1>2, <2>1, WorkerTodo
  <2>3. worker' = [worker EXCEPT ![b] = w]
    BY <1>4 DEF s
  <2> HIDE DEF w
  <2> QED BY <1>2, <2>2, <2>3 DEF s
<1> HIDE DEF todo
<1>7. TraceTyped'
  BY <1>1, <1>4, <1>6 DEF TraceTyped, TracedFine, Worker, Tracer
<1>8. \A d \in Buses, x \in Copy : Shown(d, x) => Shown(d, x)'
  BY <1>1 DEF TracedFine
<1>9. \A d \in Buses : TracerOK(d)' /\ Sending(d)' = Sending(d)
  BY <1>1, <1>4 DEF TracedFine, Sending
<1>10. ASSUME NEW d \in Buses, d # b PROVE Delivering(d)' /\ Stuck(d)' /\ FlushedOK(d)'
  <2>1. Sending(d)' = Sending(d) /\ \A x \in Copy : Shown(d, x) => Shown(d, x)'
    BY <1>8, <1>9
  <2> QED BY <1>4, <1>6, <1>10, <2>1, SameDelivered DEF TraceInv
<1>11. /\ n \in Nat /\ k \in Nat /\ flushed[b] \in Nat /\ \A i \in 1..n : sent[b][i] \in TraceEvent
  BY BusTyped
<1>12. \A i \in 1..n : (ToSet(Copies(sent[b][i])) \subseteq Copy /\ (ShownAll(b, i) => ShownAll(b, i)'))
  <2>1. \A i \in 1..n : ToSet(Copies(sent[b][i])) \subseteq Copy
    BY <1>11, CopiesListed, SetOfSeq
  <2> QED BY <1>4, <1>8, <2>1 DEF ShownAll
<1>13. Stuck(b)' /\ FlushedOK(b)'
  <2>1. FlushedOK(b)
    BY DEF TraceInv
  <2>2. \A i \in 1..flushed[b] : i \in 1..n
    BY <1>11, <2>1 DEF FlushedOK
  <2> QED BY <1>4, <1>6, <1>12, <2>1, <2>2 DEF Stuck, FlushedOK
<1>14. /\ k + 1 <= n /\ (\A j \in 1..k : chan[b][j] = sent[b][n - k + j])
       /\ (\A i \in 1..(n - k - 1) : ShownAll(b, i)) /\ undelivered[b] = k + 1 + Sending(b)
       /\ \A x \in ToSet(Copies(sent[b][n - k])) : Shown(b, x) \/ x \in ToSet(todo)
  <2>1. Ahead(b) = 1 /\ Delivering(b)
    BY <1>3 DEF Ahead, TraceInv
  <2> QED BY <1>3, <2>1 DEF Delivering, todo
<1>15. Ahead(b)' = 1
  BY <1>3, <1>6 DEF Ahead
<1>16. \A i \in 1..(n - k - 1) : ShownAll(b, i)'
  <2>1. \A i \in 1..(n - k - 1) : i \in 1..n
    <3> HIDE DEF n, k
    <3> QED BY <1>11
  <2> QED BY <1>12, <1>14, <2>1
<1>17. \A x \in ToSet(Copies(sent[b][n - k])) : Shown(b, x)' \/ x \in ToSet(Tail(todo))
  <2>1. n - k \in 1..n
    <3> HIDE DEF n, k
    <3> QED BY <1>11, <1>14
  <2>2. ASSUME NEW x \in ToSet(Copies(sent[b][n - k])) PROVE Shown(b, x)' \/ x \in ToSet(Tail(todo))
    <3>1. x \in Copy
      BY <1>12, <2>1
    <3>2. CASE Shown(b, x)
      BY <1>8, <3>1, <3>2
    <3>3. CASE x \in ToSet(todo)
      <4>1. x = c \/ x \in ToSet(Tail(todo))
        BY <1>5, <3>3
      <4>2. Shown(b, c)'
        BY <1>1 DEF TracedFine
      <4> QED BY <4>1, <4>2
    <3> QED BY <1>14, <3>2, <3>3
  <2> QED BY <2>2
<1>18. Len(sent[b])' = n /\ Len(chan[b])' = k
  BY <1>4
<1>19. Delivering(b)'
  <2> HIDE DEF n, k
  <2>1. /\ k + Ahead(b)' <= n /\ (\A i \in 1..(n - k - Ahead(b)') : ShownAll(b, i)')
        /\ undelivered'[b] = k + Ahead(b)' + Sending(b)'
    BY <1>4, <1>9, <1>14, <1>15, <1>16
  <2>2. /\ worker'[b].busy /\ (\A j \in 1..k : chan'[b][j] = sent'[b][n - k + j])
        /\ \A x \in ToSet(Copies(sent'[b][n - k])) : Shown(b, x)' \/ x \in ToSet(worker'[b].todo)
    BY <1>3, <1>4, <1>6, <1>14, <1>17
  <2> QED BY <1>18, <2>1, <2>2 DEF Delivering
<1> QED BY <1>7, <1>9, <1>10, <1>13, <1>19 DEF TraceInv

-------------------------------------------------------------------------------
\* Actions that print and collect nothing.
LEMMA NothingPrinted ==
  ASSUME TraceInv, UNCHANGED <<tracer, out, hot>>
  PROVE  \A d \in Buses : TracerOK(d)' /\ \A x \in Copy : Shown(d, x) => Shown(d, x)'
BY SameTraced DEF TraceInv, Shown

\* What was shown of the events of a bus stays shown, if no event is taken away.
LEMMA StaysShown ==
  ASSUME TraceTyped, NEW b \in Buses, \A x \in Copy : Shown(b, x) => Shown(b, x)',
         \A i \in 1..Len(sent[b]) : sent'[b][i] = sent[b][i]
  PROVE  \A i \in 1..Len(sent[b]) : ToSet(Copies(sent[b][i])) \subseteq Copy /\ (ShownAll(b, i) => ShownAll(b, i)')
<1>1. \A i \in 1..Len(sent[b]) : ToSet(Copies(sent[b][i])) \subseteq Copy
  BY BusTyped, CopiesListed, SetOfSeq
<1> QED BY <1>1 DEF ShownAll

LEMMA PanicKeeps == ASSUME TraceInv, NEW b \in Buses, Panic(b) PROVE TraceInv'
<1> TraceTyped /\ worker[b].alive /\ worker[b].todo # <<>>
  BY DEF TraceInv, Panic
<1>1. /\ worker' = [worker EXCEPT ![b] = [alive |-> FALSE, busy |-> TRUE, todo |-> <<>>]]
      /\ chan' = [chan EXCEPT ![b] = <<>>]
      /\ UNCHANGED <<main, undelivered, tracer, out, sent, flushed, hot>>
  BY DEF Panic
<1>2. \A d \in Buses : TracerOK(d)' /\ \A x \in Copy : Shown(d, x) => Shown(d, x)'
  BY <1>1, NothingPrinted
<1>3. <<>> \in Seq(TraceEvent) /\ <<>> \in Seq(Copy)
  BY EmptySeq
<1>4. worker \in [Buses -> Worker]
  BY WorkerHas
<1>5. /\ worker' \in [Buses -> Worker] /\ ~worker'[b].alive /\ worker'[b].busy /\ worker'[b].todo = <<>>
      /\ \A d \in Buses : d # b => worker'[d] = worker[d]
  <2>1. [alive |-> FALSE, busy |-> TRUE, todo |-> <<>>] \in Worker
    BY <1>3 DEF Worker
  <2> QED BY <1>1, <1>4, <2>1
<1>6. chan' \in [Buses -> Seq(TraceEvent)] /\ \A d \in Buses : d # b => chan'[d] = chan[d]
  BY <1>1, <1>3 DEF TraceTyped
<1>7. TraceTyped'
  BY <1>1, <1>5, <1>6 DEF TraceTyped, Worker
<1>8. \A d \in Buses : Sending(d)' = Sending(d)
  BY <1>1 DEF Sending
<1>9. ASSUME NEW d \in Buses, d # b PROVE Delivering(d)' /\ Stuck(d)' /\ FlushedOK(d)'
  <2>1. Sending(d)' = Sending(d) /\ \A x \in Copy : Shown(d, x) => Shown(d, x)'
    BY <1>2, <1>8
  <2> QED BY <1>1, <1>5, <1>6, <1>9, <2>1, SameDelivered DEF TraceInv
<1>10. Delivering(b)'
  BY <1>5, Zenon DEF Delivering
<1>11. Stuck(b)'
  <2>1. worker[b].busy /\ undelivered[b] = Len(chan[b]) + 1 + Sending(b)
    BY DEF TraceInv, Delivering, Ahead
  <2>2. Len(chan[b]) \in Nat /\ Sending(b) \in Nat
    BY BusTyped
  <2>3. undelivered[b] >= 1 + Sending(b)
    BY <2>1, <2>2
  <2> QED BY <1>1, <1>5, <1>8, <2>3 DEF Stuck
<1>12. FlushedOK(b)'
  <2>1. FlushedOK(b) /\ flushed[b] \in Nat /\ Len(sent[b]) \in Nat
    BY BusTyped DEF TraceInv
  <2>2. \A i \in 1..flushed[b] : i \in 1..Len(sent[b])
    BY <2>1 DEF FlushedOK
  <2>3. \A i \in 1..Len(sent[b]) : ShownAll(b, i) => ShownAll(b, i)'
    BY <1>1, <1>2, StaysShown
  <2> QED BY <1>1, <2>1, <2>2, <2>3 DEF FlushedOK
<1> QED BY <1>2, <1>7, <1>9, <1>10, <1>11, <1>12 DEF TraceInv

LEMMA DeliveredKeeps == ASSUME TraceInv, NEW b \in Buses, Delivered(b) PROVE TraceInv'
<1> DEFINE n == Len(sent[b])
           k == Len(chan[b])
<1> TraceTyped /\ worker[b].alive /\ worker[b].busy /\ worker[b].todo = <<>>
  BY DEF TraceInv, Delivered, Done
<1>1. /\ worker' = [worker EXCEPT ![b] = [worker[b] EXCEPT !.busy = FALSE]]
      /\ undelivered' = [undelivered EXCEPT ![b] = undelivered[b] - 1]
      /\ UNCHANGED <<main, chan, tracer, out, sent, flushed, hot>>
  BY DEF Delivered
<1>2. \A d \in Buses : TracerOK(d)' /\ \A x \in Copy : Shown(d, x) => Shown(d, x)'
  BY <1>1, NothingPrinted
<1>3. worker \in [Buses -> Worker] /\ worker[b] \in Worker
  BY WorkerHas
<1>4. /\ worker' \in [Buses -> Worker] /\ worker'[b].alive /\ ~worker'[b].busy /\ worker'[b].todo = <<>>
      /\ \A d \in Buses : d # b => worker'[d] = worker[d]
  <2> DEFINE w == [worker[b] EXCEPT !.busy = FALSE]
  <2>1. w \in Worker /\ w.alive = worker[b].alive /\ w.busy = FALSE /\ w.todo = worker[b].todo
    BY <1>3, WorkerBusy
  <2>2. worker' = [worker EXCEPT ![b] = w]
    BY <1>1
  <2> HIDE DEF w
  <2> QED BY <1>3, <2>1, <2>2
<1>5. n \in Nat /\ k \in Nat /\ Sending(b) \in Nat /\ flushed[b] \in Nat
  BY BusTyped
<1>6. /\ k + 1 <= n /\ (\A j \in 1..k : chan[b][j] = sent[b][n - k + j])
      /\ (\A i \in 1..(n - k - 1) : ShownAll(b, i)) /\ undelivered[b] = k + 1 + Sending(b)
      /\ \A x \in ToSet(Copies(sent[b][n - k])) : Shown(b, x) \/ x \in ToSet(<<>>)
  <2>1. Ahead(b) = 1 /\ Delivering(b)
    BY DEF Ahead, TraceInv
  <2> QED BY <2>1 DEF Delivering
<1>7. ShownAll(b, n - k)
  <2>1. ToSet(<<>>) = {}
    BY DEF ToSet
  <2> QED BY <1>6, <2>1 DEF ShownAll
<1>8. \A d \in Buses : Sending(d)' = Sending(d)
  BY <1>1 DEF Sending
<1>9. undelivered' \in [Buses -> Nat] /\ undelivered'[b] = k + 0 + Sending(b) /\ \A d \in Buses : d # b => undelivered'[d] = undelivered[d]
  <2>1. undelivered[b] - 1 = k + 0 + Sending(b) /\ k + 0 + Sending(b) \in Nat
    <3> HIDE DEF k
    <3> QED BY <1>5, <1>6
  <2> HIDE DEF k
  <2> QED BY <1>1, <2>1 DEF TraceTyped
<1>10. TraceTyped'
  BY <1>1, <1>4, <1>9 DEF TraceTyped, Worker
<1>11. ASSUME NEW d \in Buses, d # b PROVE Delivering(d)' /\ Stuck(d)' /\ FlushedOK(d)'
  <2>1. Sending(d)' = Sending(d) /\ \A x \in Copy : Shown(d, x) => Shown(d, x)'
    BY <1>2, <1>8
  <2> QED BY <1>1, <1>4, <1>9, <1>11, <2>1, SameDelivered DEF TraceInv
<1>12. \A i \in 1..n : ShownAll(b, i) => ShownAll(b, i)'
  BY <1>1, <1>2, StaysShown
<1>13. Stuck(b)' /\ FlushedOK(b)'
  <2>1. FlushedOK(b)
    BY DEF TraceInv
  <2>2. \A i \in 1..flushed[b] : i \in 1..n
    BY <1>5, <2>1 DEF FlushedOK
  <2> QED BY <1>1, <1>4, <1>12, <2>1, <2>2 DEF Stuck, FlushedOK
<1>14. Ahead(b)' = 0 /\ Len(sent[b])' = n /\ Len(chan[b])' = k
  BY <1>1, <1>4 DEF Ahead
<1>15. k + 0 <= n /\ \A i \in 1..(n - k - 0) : ShownAll(b, i)'
  <2>1. \A i \in 1..(n - k - 0) : i \in 1..n /\ (i = n - k \/ i \in 1..(n - k - 1))
    <3> HIDE DEF n, k
    <3> QED BY <1>5
  <2>2. \A i \in 1..(n - k - 0) : ShownAll(b, i)
    <3> HIDE DEF n, k
    <3> QED BY <1>6, <1>7, <2>1
  <2>3. k + 0 <= n
    <3> HIDE DEF n, k
    <3> QED BY <1>5, <1>6
  <2> HIDE DEF n, k
  <2> QED BY <1>12, <2>1, <2>2, <2>3
<1>16. Delivering(b)'
  <2> HIDE DEF n, k
  <2>1. \A j \in 1..k : chan'[b][j] = sent'[b][n - k + j]
    BY <1>1, <1>6
  <2> QED BY <1>4, <1>8, <1>9, <1>14, <1>15, <2>1 DEF Delivering
<1> QED BY <1>2, <1>10, <1>11, <1>13, <1>16 DEF TraceInv

\* The counter of the bus of main goes up before the event is sent.
LEMMA CountKeeps == ASSUME TraceInv, NEW b \in Buses, NEW class \in Classes, Count(b, class) PROVE TraceInv'
<1> DEFINE e == [id |-> Len(sent[b]) + 1, class |-> class]
<1> TraceTyped
  BY DEF TraceInv
<1>1. /\ main = Idle /\ undelivered' = [undelivered EXCEPT ![b] = undelivered[b] + 1]
      /\ main' = [at |-> "sends", bus |-> b, event |-> e]
      /\ UNCHANGED <<chan, worker, tracer, out, sent, flushed, hot>>
  BY DEF Count
<1>2. Len(sent[b]) \in Nat /\ undelivered[b] \in Nat
  BY BusTyped
<1>3. e \in TraceEvent
  BY <1>2 DEF TraceEvent
<1> HIDE DEF e
<1>4. main' \in Mains /\ main'.at = "sends" /\ main'.bus = b
  BY <1>1, <1>3 DEF Mains
<1>5. (\A d \in Buses : Sending(d) = 0) /\ Sending(b)' = 1 /\ \A d \in Buses : d # b => Sending(d)' = 0
  BY <1>1, <1>4 DEF Idle, Sending
<1>6. undelivered' \in [Buses -> Nat] /\ undelivered'[b] = undelivered[b] + 1 /\ \A d \in Buses : d # b => undelivered'[d] = undelivered[d]
  BY <1>1, <1>2 DEF TraceTyped
<1>7. TraceTyped'
  BY <1>1, <1>4, <1>6 DEF TraceTyped
<1>8. \A d \in Buses : TracerOK(d)' /\ \A x \in Copy : Shown(d, x) => Shown(d, x)'
  BY <1>1, NothingPrinted
<1>9. ASSUME NEW d \in Buses, d # b PROVE Delivering(d)' /\ Stuck(d)' /\ FlushedOK(d)'
  <2>1. Sending(d)' = Sending(d) /\ \A x \in Copy : Shown(d, x) => Shown(d, x)'
    BY <1>5, <1>8, <1>9
  <2> QED BY <1>1, <1>6, <1>9, <2>1, SameDelivered DEF TraceInv
<1>10. \A i \in 1..Len(sent[b]) : ToSet(Copies(sent[b][i])) \subseteq Copy /\ (ShownAll(b, i) => ShownAll(b, i)')
  BY <1>1, <1>8, StaysShown
<1>11. FlushedOK(b)'
  <2>1. FlushedOK(b) /\ flushed[b] \in Nat
    BY BusTyped DEF TraceInv
  <2>2. \A i \in 1..flushed[b] : i \in 1..Len(sent[b])
    BY <1>2, <2>1 DEF FlushedOK
  <2> QED BY <1>1, <1>10, <2>1, <2>2 DEF FlushedOK
<1>12. Stuck(b)'
  <2>1. ~worker[b].alive => worker[b].busy /\ worker[b].todo = <<>> /\ undelivered[b] >= 1 + Sending(b)
    BY DEF TraceInv, Stuck
  <2>2. ~worker[b].alive => undelivered'[b] >= 1 + Sending(b)'
    BY <1>2, <1>5, <1>6, <2>1
  <2> QED BY <1>1, <2>1, <2>2 DEF Stuck
<1>13. Delivering(b)'
  <2> DEFINE n == Len(sent[b])
             k == Len(chan[b])
             u == Ahead(b)
  <2>1. n \in Nat /\ k \in Nat /\ u \in Nat /\ Ahead(b)' = u
    BY <1>1, BusTyped DEF Ahead
  <2>2. CASE ~worker'[b].alive
    BY <2>2, Zenon DEF Delivering
  <2>3. CASE worker[b].alive
    <3>1. /\ k + u <= n /\ (\A j \in 1..k : chan[b][j] = sent[b][n - k + j])
          /\ (\A i \in 1..(n - k - u) : ShownAll(b, i)) /\ undelivered[b] = k + u + Sending(b)
          /\ (worker[b].busy => \A x \in ToSet(Copies(sent[b][n - k])) : Shown(b, x) \/ x \in ToSet(worker[b].todo))
          /\ (~worker[b].busy => worker[b].todo = <<>>)
      BY <2>3 DEF Delivering, TraceInv
    <3>2. undelivered'[b] = k + u + Sending(b)'
      <4> HIDE DEF k, u
      <4> QED BY <1>5, <1>6, <2>1, <3>1
    <3>3. \A i \in 1..(n - k - u) : ShownAll(b, i)'
      <4>1. \A i \in 1..(n - k - u) : i \in 1..n
        <5> HIDE DEF n, k, u
        <5> QED BY <2>1
      <4> QED BY <1>10, <3>1, <4>1
    <3>4. worker[b].busy => \A x \in ToSet(Copies(sent[b][n - k])) : Shown(b, x)' \/ x \in ToSet(worker[b].todo)
      <4>1. worker[b].busy => n - k \in 1..n
        <5>1. worker[b].busy => k + 1 <= n
          BY <3>1 DEF Ahead
        <5> HIDE DEF n, k
        <5> QED BY <2>1, <5>1
      <4> QED BY <1>8, <1>10, <3>1, <4>1
    <3>5. Len(sent[b])' = n /\ Len(chan[b])' = k /\ worker' = worker /\ chan' = chan /\ sent' = sent
      BY <1>1
    <3> HIDE DEF n, k, u
    <3> QED BY <2>1, <3>1, <3>2, <3>3, <3>4, <3>5 DEF Delivering
  <2> QED BY <1>1, <2>2, <2>3
<1> QED BY <1>7, <1>8, <1>9, <1>11, <1>12, <1>13 DEF TraceInv

LEMMA SendKeeps == ASSUME TraceInv, Send PROVE TraceInv'
<1> TraceTyped
  BY DEF TraceInv
<1>1. PICK b \in Buses : main.at = "sends" /\ b = main.bus
  BY DEF Send, TraceTyped, Mains, Idle
<1>2. PICK e \in TraceEvent : e = main.event
  BY DEF Send, TraceTyped, Mains, Idle
<1>3. /\ main' = Idle /\ sent' = [sent EXCEPT ![b] = Append(sent[b], e)]
      /\ IF worker[b].alive
         THEN chan' = [chan EXCEPT ![b] = Append(chan[b], e)] /\ undelivered' = undelivered
         ELSE undelivered' = [undelivered EXCEPT ![b] = undelivered[b] - 1] /\ chan' = chan
      /\ UNCHANGED <<worker, tracer, out, flushed, hot>>
  BY <1>1, <1>2 DEF Send
<1> DEFINE n == Len(sent[b])
           k == Len(chan[b])
           u == Ahead(b)
<1>4. /\ sent[b] \in Seq(TraceEvent) /\ chan[b] \in Seq(TraceEvent) /\ n \in Nat /\ k \in Nat /\ u \in Nat /\ Ahead(b)' = u
      /\ undelivered[b] \in Nat /\ flushed[b] \in Nat
  BY <1>3, BusTyped DEF Ahead
<1>5. /\ Append(sent[b], e) \in Seq(TraceEvent) /\ Len(Append(sent[b], e)) = n + 1 /\ Append(sent[b], e)[n + 1] = e
      /\ \A i \in 1..n : Append(sent[b], e)[i] = sent[b][i]
  BY <1>4, AppendProperties
<1>6. /\ Append(chan[b], e) \in Seq(TraceEvent) /\ Len(Append(chan[b], e)) = k + 1 /\ Append(chan[b], e)[k + 1] = e
      /\ \A i \in 1..k : Append(chan[b], e)[i] = chan[b][i]
  BY <1>4, AppendProperties
<1>7. /\ sent' \in [Buses -> Seq(TraceEvent)] /\ sent'[b] = Append(sent[b], e) /\ \A d \in Buses : d # b => sent'[d] = sent[d]
  BY <1>3, <1>5 DEF TraceTyped
<1>8. Sending(b) = 1 /\ Sending(b)' = 0 /\ (\A d \in Buses : Sending(d)' = 0) /\ \A d \in Buses : d # b => Sending(d) = 0
  BY <1>1, <1>3 DEF Sending, Idle
<1>9. chan' \in [Buses -> Seq(TraceEvent)] /\ \A d \in Buses : d # b => chan'[d] = chan[d]
  BY <1>3, <1>6 DEF TraceTyped
<1>10. ~worker[b].alive => worker[b].busy /\ worker[b].todo = <<>> /\ undelivered[b] >= 2
  <2>1. ~worker[b].alive => worker[b].busy /\ worker[b].todo = <<>> /\ undelivered[b] >= 1 + Sending(b)
    BY DEF TraceInv, Stuck
  <2> QED BY <1>8, <2>1
<1>11. /\ undelivered' \in [Buses -> Nat] /\ (\A d \in Buses : d # b => undelivered'[d] = undelivered[d])
       /\ undelivered'[b] = IF worker[b].alive THEN undelivered[b] ELSE undelivered[b] - 1
  <2>1. CASE worker[b].alive
    BY <1>3, <2>1 DEF TraceTyped
  <2>2. CASE ~worker[b].alive
    <3>1. undelivered[b] - 1 \in Nat
      BY <1>4, <1>10, <2>2
    <3> QED BY <1>3, <2>2, <3>1 DEF TraceTyped
  <2> QED BY <2>1, <2>2
<1>12. TraceTyped'
  <2>1. main' \in Mains
    BY <1>3 DEF Mains
  <2> QED BY <1>3, <1>7, <1>9, <1>11, <2>1 DEF TraceTyped
<1>13. \A d \in Buses : TracerOK(d)' /\ \A x \in Copy : Shown(d, x) => Shown(d, x)'
  BY <1>3, NothingPrinted
<1>14. ASSUME NEW d \in Buses, d # b PROVE Delivering(d)' /\ Stuck(d)' /\ FlushedOK(d)'
  <2>1. Sending(d)' = Sending(d) /\ \A x \in Copy : Shown(d, x) => Shown(d, x)'
    BY <1>8, <1>13, <1>14
  <2> QED BY <1>3, <1>7, <1>9, <1>11, <1>14, <2>1, SameDelivered DEF TraceInv
<1>15. \A i \in 1..n : ToSet(Copies(sent[b][i])) \subseteq Copy /\ (ShownAll(b, i) => ShownAll(b, i)') /\ sent'[b][i] = sent[b][i]
  <2>1. \A i \in 1..n : sent'[b][i] = sent[b][i]
    BY <1>5, <1>7
  <2> QED BY <1>13, <2>1, StaysShown
<1>16. FlushedOK(b)'
  <2>1. FlushedOK(b) /\ Len(sent'[b]) = n + 1
    BY <1>5, <1>7 DEF TraceInv
  <2>2. \A i \in 1..flushed[b] : i \in 1..n
    BY <1>4, <2>1 DEF FlushedOK
  <2>3. flushed[b] <= n + 1
    <3>1. flushed[b] <= n
      BY <2>1 DEF FlushedOK
    <3> HIDE DEF n
    <3> QED BY <1>4, <3>1
  <2>4. \A i \in 1..flushed[b] : ShownAll(b, i)'
    BY <1>15, <2>1, <2>2 DEF FlushedOK
  <2> HIDE DEF n
  <2> QED BY <1>3, <2>1, <2>3, <2>4 DEF FlushedOK
<1>17. Stuck(b)'
  <2>1. ~worker[b].alive => undelivered'[b] >= 1 + Sending(b)'
    BY <1>4, <1>8, <1>10, <1>11
  <2> QED BY <1>3, <1>10, <2>1 DEF Stuck
<1>18. Delivering(b)'
  <2>2. CASE ~worker'[b].alive
    BY <2>2, Zenon DEF Delivering
  <2>3. CASE worker[b].alive
    <3>1. /\ k + u <= n /\ (\A j \in 1..k : chan[b][j] = sent[b][n - k + j])
          /\ (\A i \in 1..(n - k - u) : ShownAll(b, i)) /\ undelivered[b] = k + u + Sending(b)
          /\ (worker[b].busy => \A x \in ToSet(Copies(sent[b][n - k])) : Shown(b, x) \/ x \in ToSet(worker[b].todo))
          /\ (~worker[b].busy => worker[b].todo = <<>>)
      BY <2>3 DEF Delivering, TraceInv
    <3>2. chan'[b] = Append(chan[b], e) /\ undelivered'[b] = undelivered[b]
      BY <1>3, <2>3 DEF TraceTyped
    <3>3. undelivered'[b] = (k + 1) + u + Sending(b)' /\ (k + 1) + u <= n + 1
      <4> HIDE DEF n, k, u
      <4> QED BY <1>4, <1>8, <3>1, <3>2
    <3>4. (n + 1) - (k + 1) - u = n - k - u /\ (n + 1) - (k + 1) = n - k
      <4>1. n \in Nat /\ k \in Nat /\ u \in Nat
        BY <1>4
      <4> HIDE DEF n, k, u
      <4> QED BY <4>1
    <3>5. \A i \in 1..(n - k - u) : ShownAll(b, i)'
      <4>1. \A i \in 1..(n - k - u) : i \in 1..n
        <5>1. n \in Nat /\ k \in Nat /\ u \in Nat
          BY <1>4
        <5> HIDE DEF n, k, u
        <5> QED BY <5>1
      <4> QED BY <1>15, <3>1, <4>1
    <3>6. worker[b].busy => \A x \in ToSet(Copies(sent'[b][n - k])) : Shown(b, x)' \/ x \in ToSet(worker[b].todo)
      <4>1. worker[b].busy => n - k \in 1..n
        <5>1. worker[b].busy => k + 1 <= n
          BY <3>1 DEF Ahead
        <5> HIDE DEF n, k
        <5> QED BY <1>4, <5>1
      <4> QED BY <1>13, <1>15, <3>1, <4>1
    <3>7. \A j \in 1..(k + 1) : chan'[b][j] = sent'[b][n - k + j]
      <4>1. ASSUME NEW j \in 1..k PROVE chan'[b][j] = sent'[b][n - k + j]
        <5>1. n - k + j \in 1..n
          <6> HIDE DEF n, k, u
          <6> QED BY <1>4, <3>1
        <5> HIDE DEF n, k
        <5> QED BY <1>6, <1>15, <3>1, <3>2, <5>1
      <4>2. n - k + (k + 1) = n + 1
        <5>1. n \in Nat /\ k \in Nat
          BY <1>4
        <5> HIDE DEF n, k
        <5> QED BY <5>1
      <4>3. \A j \in 1..(k + 1) : j \in 1..k \/ j = k + 1
        <5>1. k \in Nat
          BY <1>4
        <5> HIDE DEF k
        <5> QED BY <5>1
      <4> HIDE DEF n, k
      <4> QED BY <1>5, <1>6, <1>7, <3>2, <4>1, <4>2, <4>3
    <3>8. Len(sent[b])' = n + 1 /\ Len(chan[b])' = k + 1 /\ worker' = worker
      BY <1>3, <1>5, <1>6, <1>7, <3>2
    <3> HIDE DEF n, k, u
    <3> QED BY <1>4, <3>1, <3>3, <3>4, <3>5, <3>6, <3>7, <3>8 DEF Delivering
  <2> QED BY <1>3, <2>2, <2>3
<1> QED BY <1>12, <1>13, <1>14, <1>16, <1>17, <1>18 DEF TraceInv

LEMMA FlushedKeeps == ASSUME TraceInv, Flushed PROVE TraceInv'
<1> TraceTyped
  BY DEF TraceInv
<1>1. PICK b \in Buses : b = main.bus
  BY DEF Flushed, TraceTyped, Mains, Idle
<1>2. /\ main.at = "flushes" /\ undelivered[b] = 0 /\ main' = Idle
      /\ flushed' = [flushed EXCEPT ![b] = Len(sent[b])]
      /\ UNCHANGED <<chan, undelivered, worker, tracer, out, sent, hot>>
  BY <1>1 DEF Flushed
<1>3. \A d \in Buses : Sending(d) = 0 /\ Sending(d)' = 0
  BY <1>2 DEF Sending, Idle
<1>4. \A d \in Buses : TracerOK(d)' /\ \A x \in Copy : Shown(d, x) => Shown(d, x)'
  BY <1>2, NothingPrinted
<1>5. Len(sent[b]) \in Nat /\ Len(chan[b]) \in Nat /\ Ahead(b) \in {0, 1} /\ undelivered[b] \in Nat
  BY BusTyped DEF Ahead
<1>6. flushed' \in [Buses -> Nat] /\ flushed'[b] = Len(sent[b]) /\ \A d \in Buses : d # b => flushed'[d] = flushed[d]
  BY <1>2, <1>5 DEF TraceTyped
<1>7. TraceTyped'
  <2>1. main' \in Mains
    BY <1>2 DEF Mains
  <2> QED BY <1>2, <1>6, <2>1 DEF TraceTyped
<1>8. ASSUME NEW d \in Buses PROVE Delivering(d)' /\ Stuck(d)'
  <2>1. Delivering(d) /\ Stuck(d)
    BY DEF TraceInv
  <2>2. Ahead(d)' = Ahead(d) /\ Sending(d)' = Sending(d)
    BY <1>2, <1>3 DEF Ahead
  <2>3. Stuck(d)'
    BY <1>2, <2>1, <2>2 DEF Stuck
  <2>4. \A c : Shown(d, c) => Shown(d, c)'
    BY <1>2 DEF Shown
  <2>5. \A i : ShownAll(d, i) => ShownAll(d, i)'
    BY <1>2, <2>4 DEF ShownAll
  <2>6. Delivering(d)'
    BY <1>2, <2>1, <2>2, <2>4, <2>5 DEF Delivering
  <2> QED BY <2>3, <2>6
<1>9. \A d \in Buses : \A i \in 1..Len(sent[d]) : ShownAll(d, i) => ShownAll(d, i)'
  BY <1>2, <1>4, StaysShown
<1>10. \A i \in 1..Len(sent[b]) : ShownAll(b, i)
  <2>1. worker[b].alive
    <3>1. ~worker[b].alive => undelivered[b] >= 1 + Sending(b)
      BY DEF TraceInv, Stuck
    <3> QED BY <1>2, <1>3, <3>1
  <2>2. /\ undelivered[b] = Len(chan[b]) + Ahead(b) + Sending(b)
        /\ \A i \in 1..(Len(sent[b]) - Len(chan[b]) - Ahead(b)) : ShownAll(b, i)
    BY <2>1 DEF TraceInv, Delivering
  <2>3. Len(chan[b]) = 0 /\ Ahead(b) = 0
    BY <1>2, <1>3, <1>5, <2>2
  <2>4. Len(sent[b]) - 0 - 0 = Len(sent[b])
    BY <1>5
  <2> QED BY <2>2, <2>3, <2>4
<1>11. FlushedOK(b)'
  BY <1>2, <1>5, <1>6, <1>9, <1>10 DEF FlushedOK
<1>12. ASSUME NEW d \in Buses, d # b PROVE FlushedOK(d)'
  <2>1. FlushedOK(d) /\ flushed[d] \in Nat /\ Len(sent[d]) \in Nat
    BY BusTyped DEF TraceInv
  <2>2. \A i \in 1..flushed[d] : i \in 1..Len(sent[d])
    BY <2>1 DEF FlushedOK
  <2> QED BY <1>2, <1>6, <1>9, <1>12, <2>1, <2>2 DEF FlushedOK
<1> QED BY <1>4, <1>7, <1>8, <1>11, <1>12 DEF TraceInv

LEMMA MainStays ==
  ASSUME TraceInv, \/ \E b \in Buses : Flush(b)
         \/ GiveUp \/ ProcessExit
  PROVE  TraceInv'
<1>1. UNCHANGED <<chan, undelivered, worker, tracer, out, sent, flushed, hot>>
  BY DEF Flush, GiveUp, ProcessExit
<1>2. main' \in Mains
  BY DEF Flush, GiveUp, ProcessExit, Mains
<1>3. \A d \in Buses : Sending(d)' = Sending(d)
  BY DEF Flush, GiveUp, ProcessExit, Sending, Idle
<1> QED BY <1>1, <1>2, <1>3, MainOnly

LEMMA TraceStart == TraceInit => TraceInv
<1> SUFFICES ASSUME TraceInit PROVE TraceInv
  OBVIOUS
<1>1. TraceTyped
  <2>1. <<>> \in Seq(TraceEvent) /\ <<>> \in Seq(Burst) /\ <<>> \in Seq(OutLine) /\ <<>> \in Seq(Copy)
    BY EmptySeq
  <2>2. Ready \in [alive : BOOLEAN, busy : BOOLEAN, todo : Seq(Copy)]
    BY <2>1 DEF Ready
  <2>3. [bursts |-> <<>>, seen |-> {}] \in [bursts : Seq(Burst), seen : SUBSET Classes]
    BY <2>1
  <2>4. main \in Mains
    BY DEF TraceInit, Mains
  <2> QED BY <2>1, <2>2, <2>3, <2>4 DEF TraceInit, TraceTyped
<1>2. ASSUME NEW b \in Buses PROVE Delivering(b) /\ Stuck(b) /\ FlushedOK(b) /\ TracerOK(b)
  <2>1. /\ worker[b].alive /\ ~worker[b].busy /\ worker[b].todo = <<>> /\ chan[b] = <<>> /\ sent[b] = <<>>
        /\ undelivered[b] = 0 /\ flushed[b] = 0 /\ hot[b] = 0 /\ out = <<>>
        /\ tracer[b].bursts = <<>> /\ tracer[b].seen = {}
    BY DEF TraceInit, Ready
  <2>2. Ahead(b) = 0 /\ Sending(b) = 0
    BY <2>1 DEF TraceInit, Idle, Ahead, Sending
  <2>3. Len(<<>>) = 0 /\ 1..0 = {} /\ 0 - 0 - 0 = 0 /\ 0 + 0 <= 0 /\ 0 + 0 + 0 = 0
    OBVIOUS
  <2>4. Delivering(b)
    BY <2>1, <2>2, <2>3 DEF Delivering
  <2>5. Stuck(b) /\ FlushedOK(b)
    BY <2>1, <2>3 DEF Stuck, FlushedOK
  <2>6. BurstsOK(<<>>) /\ Collecting(<<>>) = 0
    <3>1. Len(<<>>) = 0 /\ 1..0 = {} /\ <<>> \in Seq(Burst)
      OBVIOUS
    <3>2. BurstsOK(<<>>)
      BY <3>1 DEF BurstsOK
    <3>3. Naturals1(Counts(<<>>), 0) /\ Collecting(<<>>) = Added(Counts(<<>>), 0)
      BY <3>1, CountsAdd
    <3> QED BY <3>2, <3>3, AddedNext
  <2>7. TracerOK(b)
    <3>1. Printed(b, <<>>) = 0
      BY PrintedNone
    <3> QED BY <2>1, <2>6, <3>1 DEF TracerOK
  <2> QED BY <2>4, <2>5, <2>7
<1> QED BY <1>1, <1>2 DEF TraceInv

\* Whatever the workers, the emulator's thread and the reader of standard output do.
THEOREM TraceInvariant == TraceSpec => []TraceInv
<1>1. TraceInit => TraceInv
  BY TraceStart
<1>2. TraceInv /\ [TraceNext]_tracevars => TraceInv'
  <2> SUFFICES ASSUME TraceInv, [TraceNext]_tracevars PROVE TraceInv'
    OBVIOUS
  <2>1. CASE \E b \in Buses : Working(b) \/ Panic(b)
    BY <2>1, ReceiveKeeps, EmitKeeps, DeliveredKeeps, PanicKeeps DEF Working
  <2>2. CASE \E b \in Buses, class \in Classes : Count(b, class)
    BY <2>2, CountKeeps
  <2>3. CASE Send
    BY <2>3, SendKeeps
  <2>4. CASE Flushed
    BY <2>4, FlushedKeeps
  <2>5. CASE (\E b \in Buses : Flush(b)) \/ GiveUp \/ ProcessExit
    BY <2>5, MainStays
  <2>6. CASE UNCHANGED tracevars
    <3>1. main' \in Mains /\ \A d \in Buses : Sending(d)' = Sending(d)
      BY <2>6 DEF tracevars, TraceInv, TraceTyped, Sending
    <3> QED BY <2>6, <3>1, MainOnly DEF tracevars
  <2> QED BY <2>1, <2>2, <2>3, <2>4, <2>5, <2>6 DEF TraceNext
<1> QED BY <1>1, <1>2, PTL DEF TraceSpec

\* What a flush waited for is shown, a touch of a page by the line of any touch of it,
\* and every hot call is in a burst or a line once, for any plugins, buses and events.
THEOREM TracesAreHonest == TraceSpec => []TraceHonest
<1>1. TraceInv => TraceHonest
  BY DEF TraceInv, FlushedOK, TracerOK, ShownAll, TraceHonest, FlushDelivers, BurstsCounted
<1> QED BY <1>1, TraceInvariant, PTL
===============================================================================
