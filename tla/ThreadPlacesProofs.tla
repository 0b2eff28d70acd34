--------------------------- MODULE ThreadPlacesProofs ---------------------------
(***************************************************************************)
(* Proofs about where the threads of GuestThreads are, for any number of   *)
(* threads, conditions and mutexes: nothing is lost or doubled by a switch *)
(* (ThreadsConserved), a stop strands only waiters (StopStrandsOnlyWaiters)*)
(* and the scheduler implements the life cycle of a thread                 *)
(* (ImplementsLifecycle).                                                  *)
(*                                                                         *)
(* A place is a predicate on ids, so that no proof reindexes a queue: In   *)
(* says that a queue holds an id, Once that it holds it in one entry.  The *)
(* lemmas on queues say what taking, joining and reversing do to both, and *)
(* what to the number of entries of main (MainIn), which may be queued     *)
(* more than once.                                                         *)
(***************************************************************************)
EXTENDS GuestThreadsProofs, FiniteSetTheorems, GuestDelays

In(q, t) == \E i \in DOMAIN q : q[i].id = t
Once(q) == \A i, j \in DOMAIN q : q[i].id = q[j].id /\ q[i].id # Main => i = j
MainIn(q) == {i \in DOMAIN q : q[i].id = Main}
One(P) == IF P THEN 1 ELSE 0

-------------------------------------------------------------------------------
(***************************************************************************)
(* Queues.                                                                 *)
(***************************************************************************)

LEMMA CountInjected ==
  ASSUME NEW S, NEW T, IsFiniteSet(T), NEW f \in [S -> T],
         \A a, b \in S : f[a] = f[b] => a = b
  PROVE  IsFiniteSet(S) /\ Cardinality(S) <= Cardinality(T)
<1>1. f \in Injection(S, T)
  BY DEF Injection, IsInjective
<1>2. f \in Injection(S, T) => IsFiniteSet(S) /\ Cardinality(S) <= Cardinality(T)
  BY FS_Injection, Zenon
<1> QED BY <1>1, <1>2

\* The entries of main in a queue can be counted.
LEMMA MainCounted ==
  ASSUME NEW S, NEW q \in Seq(S)
  PROVE  IsFiniteSet(MainIn(q)) /\ Cardinality(MainIn(q)) \in Nat
<1>1. Len(q) \in Nat /\ MainIn(q) \in SUBSET (1..Len(q))
  BY LenProperties DEF MainIn
<1>2. IsFiniteSet(1..Len(q))
  BY <1>1, FS_Interval
<1>3. IsFiniteSet(MainIn(q))
  BY <1>1, <1>2, FS_Subset
<1> QED BY <1>3, FS_CardinalityType

\* q2 is q without its entry i.
Without(q2, q, i) ==
  /\ Len(q2) = Len(q) - 1
  /\ \A j \in 1..Len(q2) : q2[j] = q[IF j < i THEN j ELSE j + 1]

LEMMA TakeIsWithout ==
  ASSUME NEW S, NEW q \in Seq(S), NEW i \in DOMAIN q
  PROVE  Without(TakeEntry(q, i), q, i)
<1>1. Len(q) \in Nat /\ i \in 1..Len(q) /\ \A j \in 1..Len(q) : q[j] \in S
  BY ElementOfSeq, LenProperties
<1> DEFINE a == SubSeq(q, 1, i - 1)
           b == SubSeq(q, i + 1, Len(q))
<1>2. /\ a \in Seq(S) /\ Len(a) = i - 1
      /\ \A j \in 1..(i - 1) : a[j] = q[j]
  BY <1>1, SubSeqProperties, SMT
<1>3. /\ b \in Seq(S) /\ Len(b) = Len(q) - i
      /\ \A j \in 1..(Len(q) - i) : b[j] = q[i + j]
  BY <1>1, SubSeqProperties, SMT
<1>4. TakeEntry(q, i) = a \o b
  BY DEF TakeEntry, RemoveAt
<1> HIDE DEF a, b
<1>5. /\ Len(a \o b) = Len(a) + Len(b)
      /\ \A j \in 1..(Len(a) + Len(b)) : (a \o b)[j] = IF j <= Len(a) THEN a[j] ELSE b[j - Len(a)]
  BY <1>2, <1>3, ConcatProperties
<1>6. ASSUME NEW j \in 1..(Len(q) - 1)
      PROVE  (a \o b)[j] = q[IF j < i THEN j ELSE j + 1]
  <2>1. j \in 1..(Len(a) + Len(b)) /\ Len(a) = i - 1
    BY <1>1, <1>2, <1>3
  <2>2. (a \o b)[j] = IF j <= Len(a) THEN a[j] ELSE b[j - Len(a)]
    BY <1>5, <2>1
  <2>3. CASE j < i
    BY <1>1, <1>2, <2>1, <2>2, <2>3
  <2>4. CASE ~(j < i)
    <3>1. (a \o b)[j] = b[j - (i - 1)] /\ j - (i - 1) \in 1..(Len(q) - i)
      BY <1>1, <2>1, <2>2, <2>4, SMTT(30)
    <3> QED BY <1>1, <1>3, <2>4, <3>1, SMTT(30)
  <2> QED BY <2>3, <2>4
<1>7. Len(a \o b) = Len(q) - 1
  BY <1>1, <1>2, <1>3, <1>5
<1> QED BY <1>4, <1>6, <1>7 DEF Without

LEMMA TailIsWithout ==
  ASSUME NEW S, NEW q \in Seq(S), q # <<>>
  PROVE  1 \in DOMAIN q /\ Without(Tail(q), q, 1)
BY HeadTailProperties, LenProperties, EmptySeq DEF Without

\* Taking an entry out of a queue takes its thread out, and one entry of main if it
\* was one.
LEMMA WithoutIds ==
  ASSUME NEW S, NEW q \in Seq(S), NEW q2 \in Seq(S), NEW i \in DOMAIN q, Without(q2, q, i)
  PROVE  /\ Once(q) => Once(q2)
         /\ Once(q) => \A t : t # Main => (In(q2, t) <=> In(q, t) /\ t # q[i].id)
         /\ Cardinality(MainIn(q2)) + One(q[i].id = Main) <= Cardinality(MainIn(q))
<1> DEFINE g(j) == IF j < i THEN j ELSE j + 1
<1>1. /\ Len(q) \in Nat /\ i \in 1..Len(q) /\ DOMAIN q = 1..Len(q)
      /\ Len(q2) = Len(q) - 1 /\ DOMAIN q2 = 1..Len(q2)
  BY LenProperties DEF Without
<1>2. /\ \A j \in DOMAIN q2 : g(j) \in DOMAIN q /\ g(j) # i /\ q2[j] = q[g(j)]
      /\ \A j, k \in DOMAIN q2 : g(j) = g(k) => j = k
  BY <1>1 DEF Without
<1>3. ASSUME NEW k \in DOMAIN q, k # i PROVE \E j \in DOMAIN q2 : g(j) = k
  <2>1. CASE k < i
    BY <1>1, <2>1
  <2>2. CASE k > i
    <3>1. k - 1 \in DOMAIN q2 /\ g(k - 1) = k
      BY <1>1, <2>2
    <3> QED BY <3>1
  <2> QED BY <1>1, <1>3, <2>1, <2>2
<1> HIDE DEF g
<1>4. Once(q) => Once(q2)
  BY <1>2 DEF Once
<1>5. ASSUME Once(q), NEW t, t # Main
      PROVE  In(q2, t) <=> In(q, t) /\ t # q[i].id
  BY <1>2, <1>3, <1>5 DEF Once, In
<1>6. Cardinality(MainIn(q2)) + One(q[i].id = Main) <= Cardinality(MainIn(q))
  <2> DEFINE T == MainIn(q) \ {i}
             f == [j \in MainIn(q2) |-> g(j)]
  <2>1. IsFiniteSet(MainIn(q)) /\ Cardinality(MainIn(q)) \in Nat
    BY MainCounted
  <2>2. /\ IsFiniteSet(T)
        /\ Cardinality(T) = IF i \in MainIn(q) THEN Cardinality(MainIn(q)) - 1
                            ELSE Cardinality(MainIn(q))
    BY <2>1, FS_RemoveElement
  <2>3. f \in [MainIn(q2) -> T] /\ \A a, b \in MainIn(q2) : f[a] = f[b] => a = b
    BY <1>2 DEF MainIn
  <2>4. Cardinality(MainIn(q2)) <= Cardinality(T) /\ Cardinality(MainIn(q2)) \in Nat
    <3> HIDE DEF T, f
    <3> QED BY <2>2, <2>3, CountInjected, MainCounted
  <2>5. i \in MainIn(q) <=> q[i].id = Main
    BY DEF MainIn
  <2> QED BY <2>1, <2>2, <2>4, <2>5 DEF One
<1> QED BY <1>4, <1>5, <1>6

\* A queue in front of another holds what both hold.
LEMMA ConcatIds ==
  ASSUME NEW S, NEW q \in Seq(S), NEW r \in Seq(S)
  PROVE  /\ \A t : In(q \o r, t) <=> In(q, t) \/ In(r, t)
         /\ Once(q) /\ Once(r) /\ (\A t : t # Main => ~(In(q, t) /\ In(r, t)))
              => Once(q \o r)
         /\ Cardinality(MainIn(q \o r)) <= Cardinality(MainIn(q)) + Cardinality(MainIn(r))
<1> DEFINE n == Len(q)
           s == q \o r
<1>1. /\ n \in Nat /\ Len(r) \in Nat /\ DOMAIN q = 1..n /\ DOMAIN r = 1..Len(r)
      /\ s \in Seq(S) /\ DOMAIN s = 1..(n + Len(r))
      /\ \A i \in 1..(n + Len(r)) : s[i] = IF i <= n THEN q[i] ELSE r[i - n]
  BY ConcatProperties, LenProperties
<1> HIDE DEF n, s
<1>2. /\ \A i \in DOMAIN q : i \in DOMAIN s /\ s[i] = q[i]
      /\ \A i \in DOMAIN r : i + n \in DOMAIN s /\ s[i + n] = r[i]
      /\ \A i \in DOMAIN s : \/ i \in DOMAIN q /\ s[i] = q[i]
                             \/ i - n \in DOMAIN r /\ s[i] = r[i - n]
  BY <1>1
<1>3. \A t : In(s, t) <=> In(q, t) \/ In(r, t)
  BY <1>2 DEF In
<1>4. ASSUME Once(q), Once(r), \A t : t # Main => ~(In(q, t) /\ In(r, t))
      PROVE  Once(s)
  <2> SUFFICES ASSUME NEW i \in DOMAIN s, NEW j \in DOMAIN s,
                      s[i].id = s[j].id, s[i].id # Main
               PROVE  i = j
    BY DEF Once
  <2>1. CASE i \in DOMAIN q /\ s[i] = q[i] /\ j \in DOMAIN q /\ s[j] = q[j]
    BY <1>4, <2>1 DEF Once
  <2>2. CASE i - n \in DOMAIN r /\ s[i] = r[i - n] /\ j - n \in DOMAIN r /\ s[j] = r[j - n]
    <3>1. i - n = j - n
      BY <1>4, <2>2 DEF Once
    <3> QED BY <1>1, <3>1
  <2>3. ASSUME NEW k \in DOMAIN q, NEW l \in DOMAIN r, q[k].id = r[l].id, q[k].id # Main
        PROVE  FALSE
    BY <1>4, <2>3 DEF In
  <2> QED BY <1>2, <2>1, <2>2, <2>3
<1>5. Cardinality(MainIn(s)) <= Cardinality(MainIn(q)) + Cardinality(MainIn(r))
  <2> DEFINE B == {i \in MainIn(s) : i > n}
             f == [i \in B |-> i - n]
  <2>1. /\ IsFiniteSet(MainIn(q)) /\ Cardinality(MainIn(q)) \in Nat
        /\ IsFiniteSet(MainIn(r)) /\ Cardinality(MainIn(r)) \in Nat
        /\ IsFiniteSet(MainIn(s)) /\ Cardinality(MainIn(s)) \in Nat
    BY <1>1, MainCounted
  <2>2. f \in [B -> MainIn(r)] /\ \A a, b \in B : f[a] = f[b] => a = b
    BY <1>1 DEF MainIn
  <2>3. IsFiniteSet(B) /\ Cardinality(B) <= Cardinality(MainIn(r)) /\ Cardinality(B) \in Nat
    <3> HIDE DEF f, B
    <3> QED BY <2>1, <2>2, CountInjected, FS_CardinalityType
  <2>4. MainIn(s) \in SUBSET (MainIn(q) \cup B)
    BY <1>1 DEF MainIn
  <2> HIDE DEF f, B
  <2>5. /\ IsFiniteSet(MainIn(q) \cup B)
        /\ Cardinality(MainIn(q) \cup B) =
             Cardinality(MainIn(q)) + Cardinality(B) - Cardinality(MainIn(q) \cap B)
    BY <2>1, <2>3, FS_Union
  <2>6. Cardinality(MainIn(q) \cap B) \in Nat
    BY <2>1, FS_Subset, FS_CardinalityType
  <2>7. Cardinality(MainIn(s)) <= Cardinality(MainIn(q) \cup B)
    BY <2>4, <2>5, FS_Subset
  <2> QED BY <2>1, <2>3, <2>5, <2>6, <2>7
<1> QED BY <1>3, <1>4, <1>5 DEF s

LEMMA SingleIds ==
  ASSUME NEW e
  PROVE  /\ \A t : In(<<e>>, t) <=> t = e.id
         /\ Once(<<e>>)
         /\ Cardinality(MainIn(<<e>>)) = One(e.id = Main)
<1>1. DOMAIN <<e>> = {1} /\ <<e>>[1] = e
  OBVIOUS
<1>2. CASE e.id = Main
  <2>1. MainIn(<<e>>) = {1}
    BY <1>1, <1>2 DEF MainIn
  <2> QED BY <1>1, <1>2, <2>1, FS_Singleton DEF In, Once, One
<1>3. CASE e.id # Main
  <2>1. MainIn(<<e>>) = {}
    BY <1>1, <1>3 DEF MainIn
  <2> QED BY <1>1, <1>3, <2>1, FS_EmptySet DEF In, Once, One
<1> QED BY <1>2, <1>3

LEMMA AppendIds ==
  ASSUME NEW S, NEW q \in Seq(S), NEW e \in S
  PROVE  /\ \A t : In(Append(q, e), t) <=> In(q, t) \/ t = e.id
         /\ Once(q) /\ (e.id # Main => ~In(q, e.id)) => Once(Append(q, e))
         /\ Cardinality(MainIn(Append(q, e))) <= Cardinality(MainIn(q)) + One(e.id = Main)
<1>1. Append(q, e) = q \o <<e>> /\ <<e>> \in Seq(S)
  BY AppendIsConcat
<1>2. /\ \A t : In(<<e>>, t) <=> t = e.id
      /\ Once(<<e>>)
      /\ Cardinality(MainIn(<<e>>)) = One(e.id = Main)
  BY SingleIds
<1>3. /\ \A t : In(q \o <<e>>, t) <=> In(q, t) \/ In(<<e>>, t)
      /\ Once(q) /\ Once(<<e>>) /\ (\A t : t # Main => ~(In(q, t) /\ In(<<e>>, t)))
           => Once(q \o <<e>>)
      /\ Cardinality(MainIn(q \o <<e>>)) <= Cardinality(MainIn(q)) + Cardinality(MainIn(<<e>>))
  BY <1>1, ConcatIds
<1> QED BY <1>1, <1>2, <1>3

\* Turning a queue round, entry by entry, changes neither.
LEMMA TurnedIds ==
  ASSUME NEW S, NEW ws \in Seq(S), NEW T, NEW r \in Seq(T), Len(r) = Len(ws),
         \A i \in 1..Len(ws) : r[i].id = ws[Len(ws) + 1 - i].id
  PROVE  /\ \A t : In(r, t) <=> In(ws, t)
         /\ Once(ws) => Once(r)
         /\ Cardinality(MainIn(r)) <= Cardinality(MainIn(ws))
<1> DEFINE g(i) == Len(ws) + 1 - i
<1>1. /\ Len(ws) \in Nat /\ DOMAIN ws = 1..Len(ws) /\ DOMAIN r = 1..Len(ws)
      /\ \A i \in 1..Len(ws) : g(i) \in 1..Len(ws) /\ g(g(i)) = i /\ r[i].id = ws[g(i)].id
      /\ \A i, j \in 1..Len(ws) : g(i) = g(j) => i = j
  BY LenProperties
<1> HIDE DEF g
<1>2. ASSUME NEW t PROVE In(r, t) <=> In(ws, t)
  <2>1. ASSUME NEW i \in DOMAIN r, r[i].id = t PROVE In(ws, t)
    <3>1. g(i) \in DOMAIN ws /\ ws[g(i)].id = t
      BY <1>1, <2>1
    <3> QED BY <3>1 DEF In
  <2>2. ASSUME NEW i \in DOMAIN ws, ws[i].id = t PROVE In(r, t)
    <3>1. g(i) \in DOMAIN r /\ r[g(i)].id = ws[g(g(i))].id /\ g(g(i)) = i
      BY <1>1, <2>2
    <3> QED BY <2>2, <3>1 DEF In
  <2> QED BY <2>1, <2>2 DEF In
<1>3. ASSUME Once(ws) PROVE Once(r)
  <2> SUFFICES ASSUME NEW i \in DOMAIN r, NEW j \in DOMAIN r,
                      r[i].id = r[j].id, r[i].id # Main
               PROVE  i = j
    BY DEF Once
  <2>1. /\ g(i) \in DOMAIN ws /\ g(j) \in DOMAIN ws
        /\ ws[g(i)].id = ws[g(j)].id /\ ws[g(i)].id # Main
    BY <1>1
  <2>2. g(i) = g(j)
    BY <1>3, <2>1 DEF Once
  <2> QED BY <1>1, <2>2
<1> DEFINE f == [i \in MainIn(r) |-> g(i)]
<1>4. f \in [MainIn(r) -> MainIn(ws)] /\ \A a, b \in MainIn(r) : f[a] = f[b] => a = b
  BY <1>1 DEF MainIn
<1>5. Cardinality(MainIn(r)) <= Cardinality(MainIn(ws))
  <2> HIDE DEF f
  <2> QED BY <1>4, CountInjected, MainCounted
<1> QED BY <1>2, <1>3, <1>5

-------------------------------------------------------------------------------
(***************************************************************************)
(* The invariant.                                                          *)
(***************************************************************************)

\* A created thread has one place, a thread that is not created has none.
Up(t) == In(pending, t) \/ active.id = t
Placed(t) ==
  /\ ~(In(pending, t) /\ active.id = t)
  /\ Up(t) => t \notin exited \cup lost /\ \A c \in Conds : ~In(waiters[c], t)
  /\ \A c \in Conds : In(waiters[c], t) =>
       t \notin exited \cup lost /\ \A d \in Conds : In(waiters[d], t) => c = d
  /\ ~(t \in exited /\ t \in lost)
  /\ t < nextTid <=> \/ Up(t)
                     \/ \E c \in Conds : In(waiters[c], t)
                     \/ t \in exited \cup lost
PlacesOK ==
  /\ Once(pending) /\ \A c \in Conds : Once(waiters[c])
  /\ \A t \in Children : Placed(t)

\* Main is saved once more by a wait than it is resumed, and each such surplus is
\* paid for by a thread that runs meanwhile and ends.
MainWaits(w) == {x \in Conds \X Nat : x[2] \in MainIn(w[x[1]])}
Saved == Cardinality(MainIn(pending)) + One(active.id = Main)
Busy == active # NoActive \/ stopped
CountOK ==
  /\ IsFiniteSet(MainWaits(waiters))
  /\ Saved + Cardinality(MainWaits(waiters)) <= Cardinality(exited \ {Main}) + One(Busy)

StopOK == stopped => active = NoActive /\ pending = <<>>

PInv == PlacesOK /\ CountOK /\ StopOK /\ ResultDeliveredOnce

-------------------------------------------------------------------------------
(***************************************************************************)
(* Switches.                                                               *)
(***************************************************************************)

LEMMA ActiveFacts ==
  ASSUME SchedOK
  PROVE  /\ active.id \in Tids \cup {0}
         /\ active = NoActive <=> active.id = 0
         /\ active # NoActive => active.id = cpu.tid
         /\ active = NoActive => cpu.tid = Main
         /\ \A t \in Children : t # 0 /\ t # Main /\ t \in Tids
BY TidFacts DEF SchedOK, RunningMatches, NoActive, Active, Children

LEMMA Finite ==
  ASSUME RestOK
  PROVE  /\ IsFiniteSet(exited) /\ IsFiniteSet(exited \ {Main})
         /\ Cardinality(exited \ {Main}) \in Nat
<1>1. IsFiniteSet(Tids)
  BY ConstantsAssumption, FS_Interval DEF Tids
<1>2. IsFiniteSet(exited)
  BY <1>1, FS_Subset DEF RestOK
<1>3. IsFiniteSet(exited \ {Main})
  BY <1>2, FS_RemoveElement
<1> QED BY <1>2, <1>3, FS_CardinalityType

\* An entry of the queue q becomes active and the others stay ready.
LEMMA TookEffect ==
  ASSUME NEW q \in Seq(MatchedEntry), NEW i \in DOMAIN q, Once(q),
         pending' \in Seq(MatchedEntry), Without(pending', q, i), active'.id = q[i].id
  PROVE  /\ Once(pending)'
         /\ \A t \in Children : /\ Up(t)' <=> In(q, t)
                                /\ ~(In(pending, t) /\ active.id = t)'
         /\ Saved' <= Cardinality(MainIn(q)) /\ Saved' \in Nat
<1>1. /\ Once(pending')
      /\ \A t : t # Main => (In(pending', t) <=> In(q, t) /\ t # q[i].id)
      /\ Cardinality(MainIn(pending')) + One(q[i].id = Main) <= Cardinality(MainIn(q))
  BY WithoutIds
<1>2. In(q, q[i].id)
  BY DEF In
<1>3. Cardinality(MainIn(pending')) \in Nat
  BY MainCounted
<1> QED BY <1>1, <1>2, <1>3 DEF Up, Saved, Children, One

LEMMA DispatchEffect ==
  ASSUME SchedOK, SchedOK', Once(pending), NEW i \in DOMAIN pending,
         NEW parent, NEW store, Dispatch(i, parent, store)
  PROVE  /\ Once(pending)'
         /\ \A t \in Children : /\ Up(t)' <=> In(pending, t)
                                /\ ~(In(pending, t) /\ active.id = t)'
         /\ Saved' <= Cardinality(MainIn(pending)) /\ Saved' \in Nat
         /\ active' # NoActive
<1>1. /\ pending \in Seq(MatchedEntry) /\ pending' \in Seq(MatchedEntry)
      /\ pending' = TakeEntry(pending, i) /\ active'.id = pending[i].id
  BY DEF SchedOK, Dispatch
<1>2. Without(pending', pending, i)
  BY <1>1, TakeIsWithout
<1>3. pending[i] \in MatchedEntry
  BY <1>1, ElementOfSeq, LenProperties
<1>4. active' # NoActive
  BY <1>1, <1>3, TidFacts DEF MatchedEntry, Entry, NoActive
<1> QED BY <1>1, <1>2, <1>4, TookEffect

LEMMA SwitchEffect ==
  ASSUME SchedOK, SchedOK', active # NoActive,
         NEW q \in Seq(MatchedEntry), q # <<>>, Once(q), SwitchTo(q)
  PROVE  /\ Once(pending)'
         /\ \A t \in Children : /\ Up(t)' <=> In(q, t)
                                /\ ~(In(pending, t) /\ active.id = t)'
         /\ Saved' <= Cardinality(MainIn(q)) /\ Saved' \in Nat
         /\ active' # NoActive
<1>1. /\ pending' \in Seq(MatchedEntry) /\ pending' = Tail(q)
      /\ current' = q[1].id /\ active' = [active EXCEPT !.id = q[1].id]
  BY DEF SchedOK, SwitchTo
<1>2. 1 \in DOMAIN q /\ Without(pending', q, 1)
  BY <1>1, TailIsWithout
<1>3. q[1] \in MatchedEntry
  BY <1>2, ElementOfSeq, LenProperties
<1>4. active'.id = q[1].id /\ active' # NoActive
  <2>1. q[1].id \in Tids
    BY <1>3 DEF MatchedEntry, Entry
  <2>2. active'.id = q[1].id
    BY <1>1 DEF SchedOK, Active
  <2> QED BY <2>1, <2>2, TidFacts DEF NoActive
<1> QED BY <1>1, <1>2, <1>4, TookEffect

LEMMA YieldEffect ==
  ASSUME SchedOK, SchedOK', cpu.at = "guest", NEW q \in Seq(MatchedEntry), Once(q),
         active.id \in Children => ~In(q, active.id), Yield(q)
  PROVE  /\ Once(pending)'
         /\ \A t \in Children : /\ Up(t)' <=> In(q, t) \/ active.id = t
                                /\ ~(In(pending, t) /\ active.id = t)'
         /\ Saved' <= Cardinality(MainIn(q)) + One(active.id = Main) /\ Saved' \in Nat
         /\ active' = NoActive <=> active = NoActive
<1>0. Cardinality(MainIn(q)) \in Nat
  BY MainCounted
<1>1. CASE active # NoActive /\ q # <<>> /\ SwitchTo(Append(q, Here))
  <2>1. Here \in MatchedEntry /\ Here.id = active.id
    BY <1>1 DEF SchedOK, RunningMatches, Here, MatchedEntry, Entry,
                GuestContext, Context, Active
  <2> DEFINE r == Append(q, Here)
  <2>2. r \in Seq(MatchedEntry) /\ r # <<>>
    BY <2>1, AppendProperties
  <2>3. active.id # Main => active.id \in Children
    BY <1>1, ActiveFacts DEF Children
  <2>4. /\ \A t : In(r, t) <=> In(q, t) \/ t = active.id
        /\ Once(r)
        /\ Cardinality(MainIn(r)) <= Cardinality(MainIn(q)) + One(active.id = Main)
    BY <2>1, <2>3, AppendIds
  <2>5. Cardinality(MainIn(r)) \in Nat
    BY <2>2, MainCounted
  <2> HIDE DEF r
  <2>6. SwitchTo(r)
    BY <1>1 DEF r
  <2>7. /\ Once(pending)'
        /\ \A t \in Children : /\ Up(t)' <=> In(r, t)
                               /\ ~(In(pending, t) /\ active.id = t)'
        /\ Saved' <= Cardinality(MainIn(r)) /\ Saved' \in Nat
        /\ active' # NoActive
    BY <1>1, <2>2, <2>4, <2>6, SwitchEffect
  <2>8. Saved' <= Cardinality(MainIn(q)) + One(active.id = Main)
    BY <1>0, <2>4, <2>5, <2>7 DEF One
  <2> QED BY <1>1, <2>4, <2>7, <2>8
<1>2. CASE pending' = q /\ UNCHANGED <<active, current, cpu>>
  <2>1. Saved' = Cardinality(MainIn(q)) + One(active.id = Main)
    BY <1>2 DEF Saved
  <2> QED BY <1>0, <1>2, <2>1 DEF Up, One
<1> QED BY <1>1, <1>2 DEF Yield

-------------------------------------------------------------------------------
(***************************************************************************)
(* The parts of the invariant over a step.                                 *)
(***************************************************************************)

\* A step that moves created threads between the ready queue and the CPU only.
LEMMA PlacesKept ==
  ASSUME PlacesOK, Once(pending)',
         \A t \in Children : /\ Up(t)' <=> Up(t)
                            /\ ~(In(pending, t) /\ active.id = t)',
         UNCHANGED <<waiters, nextTid, exited, lost>>
  PROVE  PlacesOK'
BY DEF PlacesOK, Placed

LEMMA CountKept ==
  ASSUME RestOK, CountOK, Saved \in Nat, Saved' \in Nat, Saved' <= Saved,
         Busy => Busy', UNCHANGED <<waiters, exited>>
  PROVE  CountOK'
<1>1. /\ Cardinality(MainWaits(waiters)) \in Nat
      /\ Cardinality(exited \ {Main}) \in Nat
  BY Finite, FS_CardinalityType DEF CountOK
<1>2. One(Busy) <= One(Busy') /\ One(Busy) \in Nat /\ One(Busy') \in Nat
  BY DEF One
<1>3. One(Busy)' = One(Busy')
  BY DEF One
<1> QED BY <1>1, <1>2, <1>3 DEF CountOK

LEMMA SavedCounted ==
  ASSUME SchedOK
  PROVE  Saved \in Nat /\ Cardinality(MainIn(pending)) \in Nat
BY MainCounted DEF SchedOK, Saved, One

\* The waits of main, when a wait is queued, the first is taken, or all are.
LEMMA WaitsAppended ==
  ASSUME NEW S, NEW w \in [Conds -> Seq(S)], IsFiniteSet(MainWaits(w)),
         NEW c \in Conds, NEW e \in S
  PROVE  LET w2 == [w EXCEPT ![c] = Append(@, e)] IN
         /\ IsFiniteSet(MainWaits(w2))
         /\ Cardinality(MainWaits(w2)) <= Cardinality(MainWaits(w)) + One(e.id = Main)
<1> DEFINE w2 == [w EXCEPT ![c] = Append(@, e)]
           n == Len(w[c])
<1>1. /\ w2[c] = Append(w[c], e) /\ \A d \in Conds : d # c => w2[d] = w[d]
      /\ n \in Nat /\ DOMAIN w[c] = 1..n /\ DOMAIN w2[c] = 1..(n + 1)
      /\ \A i \in 1..n : w2[c][i] = w[c][i]
      /\ w2[c][n + 1] = e
  <2>1. w[c] \in Seq(S) /\ Append(w[c], e) \in Seq(S)
    BY AppendProperties
  <2> QED BY <2>1, AppendProperties, LenProperties
<1> HIDE DEF w2, n
<1>2. Cardinality(MainWaits(w)) \in Nat
  BY FS_CardinalityType
<1>3. CASE e.id # Main
  <2>1. MainWaits(w2) \in SUBSET MainWaits(w)
    BY <1>1, <1>3 DEF MainWaits, MainIn
  <2>2. IsFiniteSet(MainWaits(w2)) /\ Cardinality(MainWaits(w2)) <= Cardinality(MainWaits(w))
    BY <2>1, FS_Subset
  <2>3. One(e.id = Main) = 0
    BY <1>3 DEF One
  <2> QED BY <1>2, <2>2, <2>3 DEF w2
<1>4. CASE e.id = Main
  <2> DEFINE T == MainWaits(w) \cup {<<c, n + 1>>}
  <2>1. MainWaits(w2) \in SUBSET T
    BY <1>1, <1>4 DEF MainWaits, MainIn
  <2>2. IsFiniteSet(T) /\ Cardinality(T) <= Cardinality(MainWaits(w)) + 1 /\ Cardinality(T) \in Nat
    <3>1. /\ IsFiniteSet(T)
          /\ Cardinality(T) = IF <<c, n + 1>> \in MainWaits(w) THEN Cardinality(MainWaits(w))
                              ELSE Cardinality(MainWaits(w)) + 1
      BY FS_AddElement
    <3> QED BY <1>2, <3>1
  <2> HIDE DEF T
  <2>3. IsFiniteSet(MainWaits(w2)) /\ Cardinality(MainWaits(w2)) <= Cardinality(T)
    BY <2>1, <2>2, FS_Subset
  <2>4. Cardinality(MainWaits(w2)) \in Nat
    BY <2>3, FS_CardinalityType
  <2> QED BY <1>2, <1>4, <2>2, <2>3, <2>4 DEF One, w2
<1> QED BY <1>3, <1>4

LEMMA WaitsTaken ==
  ASSUME NEW S, NEW w \in [Conds -> Seq(S)], IsFiniteSet(MainWaits(w)),
         NEW c \in Conds, w[c] # <<>>
  PROVE  LET w2 == [w EXCEPT ![c] = Tail(@)] IN
         /\ IsFiniteSet(MainWaits(w2))
         /\ Cardinality(MainWaits(w2)) + One(Head(w[c]).id = Main) <= Cardinality(MainWaits(w))
<1> DEFINE w2 == [w EXCEPT ![c] = Tail(@)]
           T == MainWaits(w) \ {<<c, 1>>}
           f == [x \in MainWaits(w2) |-> IF x[1] = c THEN <<c, x[2] + 1>> ELSE x]
<1>1. /\ w2[c] = Tail(w[c]) /\ \A d \in Conds : d # c => w2[d] = w[d]
      /\ w[c] \in Seq(S) /\ Head(w[c]) = w[c][1] /\ 1 \in DOMAIN w[c]
      /\ \A i \in DOMAIN w2[c] : i \in Nat /\ i # 0 /\ i + 1 \in DOMAIN w[c] /\ w2[c][i] = w[c][i + 1]
  <2>1. w[c] \in Seq(S) /\ w2[c] = Tail(w[c]) /\ \A d \in Conds : d # c => w2[d] = w[d]
    OBVIOUS
  <2>2. Tail(w[c]) \in Seq(S)
    BY <2>1, HeadTailProperties
  <2> QED BY <2>1, <2>2, HeadTailProperties, LenProperties, EmptySeq
<1> HIDE DEF w2
<1>2. f \in [MainWaits(w2) -> T] /\ \A a, b \in MainWaits(w2) : f[a] = f[b] => a = b
  <2>1. ASSUME NEW x \in MainWaits(w2)
        PROVE  /\ x \in Conds \X Nat /\ x = <<x[1], x[2]>> /\ x[1] \in Conds /\ x[2] \in Nat
               /\ x[2] \in MainIn(w2[x[1]])
    BY DEF MainWaits
  <2>2. ASSUME NEW x \in MainWaits(w2)
        PROVE  f[x] \in T
    <3>1. CASE x[1] = c
      <4> DEFINE k == x[2] + 1
      <4>1. x[2] \in DOMAIN w2[c] /\ w2[c][x[2]].id = Main
        BY <2>1, <3>1 DEF MainIn
      <4>2. k \in DOMAIN w[c] /\ k \in Nat /\ k # 1 /\ w[c][k].id = Main
        BY <1>1, <4>1
      <4>3. f[x] = <<c, k>>
        BY <3>1
      <4> HIDE DEF k, f
      <4>4. <<c, k>> \in Conds \X Nat /\ k \in MainIn(w[c]) /\ <<c, k>> # <<c, 1>>
        BY <4>2 DEF MainIn
      <4>5. <<c, k>> \in MainWaits(w)
        BY <4>4 DEF MainWaits
      <4> QED BY <4>3, <4>4, <4>5
    <3>2. CASE x[1] # c
      <4>1. f[x] = x /\ w2[x[1]] = w[x[1]] /\ x # <<c, 1>>
        BY <1>1, <2>1, <3>2
      <4> QED BY <2>1, <4>1 DEF MainWaits
    <3> QED BY <3>1, <3>2
  <2>3. ASSUME NEW a \in MainWaits(w2), NEW b \in MainWaits(w2), f[a] = f[b]
        PROVE  a = b
    <3>1. /\ f[a] = IF a[1] = c THEN <<c, a[2] + 1>> ELSE a
          /\ f[b] = IF b[1] = c THEN <<c, b[2] + 1>> ELSE b
      OBVIOUS
    <3>2. a = <<a[1], a[2]>> /\ b = <<b[1], b[2]>> /\ a[2] \in Nat /\ b[2] \in Nat
      BY <2>1
    <3>3. a[1] = b[1] /\ a[2] = b[2]
      BY <2>3, <3>1, <3>2
    <3> QED BY <3>2, <3>3
  <2> QED BY <2>2, <2>3
<1>3. /\ IsFiniteSet(T)
      /\ Cardinality(T) = IF <<c, 1>> \in MainWaits(w) THEN Cardinality(MainWaits(w)) - 1
                          ELSE Cardinality(MainWaits(w))
  BY FS_RemoveElement
<1>4. <<c, 1>> \in MainWaits(w) <=> Head(w[c]).id = Main
  BY <1>1 DEF MainWaits, MainIn
<1> HIDE DEF T, f
<1>5. IsFiniteSet(MainWaits(w2)) /\ Cardinality(MainWaits(w2)) <= Cardinality(T)
  BY <1>2, <1>3, CountInjected
<1>6. Cardinality(MainWaits(w2)) \in Nat /\ Cardinality(MainWaits(w)) \in Nat
  BY <1>5, FS_CardinalityType
<1> QED BY <1>3, <1>4, <1>5, <1>6 DEF One, w2

LEMMA WaitsCleared ==
  ASSUME NEW S, NEW w \in [Conds -> Seq(S)], IsFiniteSet(MainWaits(w)), NEW c \in Conds
  PROVE  LET w2 == [w EXCEPT ![c] = <<>>] IN
         /\ IsFiniteSet(MainWaits(w2))
         /\ Cardinality(MainWaits(w2)) + Cardinality(MainIn(w[c])) <= Cardinality(MainWaits(w))
<1> DEFINE w2 == [w EXCEPT ![c] = <<>>]
           B == {<<c, i>> : i \in MainIn(w[c])}
           f == [i \in MainIn(w[c]) |-> <<c, i>>]
<1>1. /\ w2[c] = <<>> /\ \A d \in Conds : d # c => w2[d] = w[d]
      /\ w[c] \in Seq(S) /\ DOMAIN w[c] \subseteq Nat
  <2>1. w[c] \in Seq(S)
    OBVIOUS
  <2> QED BY <2>1, LenProperties
<1> HIDE DEF w2
<1>2. MainWaits(w2) \in SUBSET MainWaits(w) /\ B \in SUBSET MainWaits(w)
      /\ MainWaits(w2) \cap B = {}
  BY <1>1 DEF MainWaits, MainIn
<1>3. IsFiniteSet(MainWaits(w2)) /\ IsFiniteSet(B)
  BY <1>2, FS_Subset
<1>4. f \in [MainIn(w[c]) -> B] /\ \A a, b \in MainIn(w[c]) : f[a] = f[b] => a = b
  OBVIOUS
<1> HIDE DEF B, f
<1>5. Cardinality(MainIn(w[c])) <= Cardinality(B)
  BY <1>3, <1>4, CountInjected
<1>6. Cardinality(MainWaits(w2) \cup B) = Cardinality(MainWaits(w2)) + Cardinality(B)
  <2>1. Cardinality(MainWaits(w2)) \in Nat /\ Cardinality(B) \in Nat
    BY <1>3, FS_CardinalityType
  <2>2. Cardinality(MainWaits(w2) \cup B) =
          Cardinality(MainWaits(w2)) + Cardinality(B) - Cardinality(MainWaits(w2) \cap B)
    BY <1>3, FS_Union
  <2>3. Cardinality(MainWaits(w2) \cap B) = 0
    BY <1>2, FS_EmptySet
  <2> QED BY <2>1, <2>2, <2>3
<1>7. Cardinality(MainWaits(w2) \cup B) <= Cardinality(MainWaits(w))
  <2>1. MainWaits(w2) \cup B \in SUBSET MainWaits(w)
    BY <1>2
  <2> QED BY <2>1, FS_Subset
<1>8. /\ Cardinality(MainWaits(w2)) \in Nat /\ Cardinality(B) \in Nat
      /\ Cardinality(MainWaits(w)) \in Nat /\ Cardinality(MainIn(w[c])) \in Nat
  BY <1>1, <1>3, FS_CardinalityType, MainCounted
<1> QED BY <1>3, <1>5, <1>6, <1>7, <1>8 DEF w2

-------------------------------------------------------------------------------
(***************************************************************************)
(* The inductive step, by the kind of move a step makes.                   *)
(***************************************************************************)

LEMMA QuietKept ==
  ASSUME ResultDeliveredOnce, ~stopped, UNCHANGED <<stopped, exited, taken, completed>>
  PROVE  StopOK' /\ ResultDeliveredOnce'
BY DEF StopOK, ResultDeliveredOnce

\* From main, or with main in the active slot, a ready thread is entered.
LEMMA DispatchStep ==
  ASSUME IInv, SchedOK', PlacesOK, CountOK, active.id \notin Children,
         NEW i \in DOMAIN pending, NEW parent, NEW store, Dispatch(i, parent, store),
         UNCHANGED <<waiters, nextTid, exited, lost>>
  PROVE  PlacesOK' /\ CountOK'
<1>1. /\ Once(pending)'
      /\ \A t \in Children : /\ Up(t)' <=> In(pending, t)
                             /\ ~(In(pending, t) /\ active.id = t)'
      /\ Saved' <= Cardinality(MainIn(pending)) /\ Saved' \in Nat
      /\ active' # NoActive
  BY DispatchEffect DEF IInv, PlacesOK
<1>2. \A t \in Children : Up(t)' <=> Up(t)
  BY <1>1 DEF Up
<1>3. Saved' <= Saved /\ Saved \in Nat /\ Saved' \in Nat
  BY <1>1, SavedCounted DEF IInv, Saved, One
<1>4. Busy'
  BY <1>1 DEF Busy
<1>5. PlacesOK'
  BY <1>1, <1>2, PlacesKept
<1> QED BY <1>3, <1>4, <1>5, CountKept DEF IInv

\* The active thread gives way, if it can.
LEMMA YieldStep ==
  ASSUME IInv, SchedOK', PlacesOK, CountOK, InGuest, Yield(pending),
         UNCHANGED <<waiters, nextTid, exited, lost, stopped>>
  PROVE  PlacesOK' /\ CountOK'
<1>1. /\ pending \in Seq(MatchedEntry) /\ Once(pending)
      /\ active.id \in Children => ~In(pending, active.id)
  BY DEF IInv, SchedOK, PlacesOK, Placed
<1>2. /\ Once(pending)'
      /\ \A t \in Children : /\ Up(t)' <=> In(pending, t) \/ active.id = t
                             /\ ~(In(pending, t) /\ active.id = t)'
      /\ Saved' <= Cardinality(MainIn(pending)) + One(active.id = Main) /\ Saved' \in Nat
      /\ active' = NoActive <=> active = NoActive
  BY <1>1, YieldEffect DEF IInv, InGuest
<1>3. \A t \in Children : Up(t)' <=> Up(t)
  BY <1>2 DEF Up
<1>4. Saved' <= Saved /\ Saved \in Nat /\ Saved' \in Nat
  BY <1>2, SavedCounted DEF IInv, Saved
<1>5. Busy => Busy'
  BY <1>2 DEF Busy
<1>6. PlacesOK'
  BY <1>2, <1>3, PlacesKept
<1> QED BY <1>4, <1>5, <1>6, CountKept DEF IInv

\* The woken entries r go from the condition c to the front of the ready queue, and
\* the waker gives way.
Woke(c, r) ==
  /\ r \in Seq(MatchedEntry) /\ Once(r) /\ Yield(r \o pending)
  /\ \A d \in Conds : d # c => waiters'[d] = waiters[d]
  /\ Once(waiters'[c])
  /\ \A t \in Children : /\ In(waiters[c], t) <=> In(r, t) \/ In(waiters'[c], t)
                         /\ ~(In(r, t) /\ In(waiters'[c], t))
  /\ IsFiniteSet(MainWaits(waiters'))
  /\ Cardinality(MainWaits(waiters')) + Cardinality(MainIn(r))
       <= Cardinality(MainWaits(waiters))

LEMMA WokenInFront ==
  ASSUME IInv, PlacesOK, NEW c \in Conds, NEW r, Woke(c, r)
  PROVE  /\ r \o pending \in Seq(MatchedEntry)
         /\ \A t : In(r \o pending, t) <=> In(r, t) \/ In(pending, t)
         /\ Once(r \o pending)
         /\ Cardinality(MainIn(r \o pending))
              <= Cardinality(MainIn(r)) + Cardinality(MainIn(pending))
         /\ active.id \in Children => ~In(r \o pending, active.id)
         /\ \A t \in Children : In(r, t) => ~Up(t)
<1> DEFINE q == r \o pending
<1>0. /\ r \in Seq(MatchedEntry) /\ Once(r)
      /\ \A t \in Children : In(waiters[c], t) <=> In(r, t) \/ In(waiters'[c], t)
  BY DEF Woke
<1>1. /\ pending \in Seq(MatchedEntry) /\ Once(pending)
      /\ \A t \in Children : Placed(t)
      /\ \A d \in Conds : Once(waiters[d])
  BY DEF IInv, SchedOK, PlacesOK
<1>2. \A t \in Children : In(r, t) => ~Up(t)
  BY <1>0, <1>1 DEF Placed
<1>3. \A t : t # Main => ~(In(r, t) /\ In(pending, t))
  <2> SUFFICES ASSUME NEW t, t # Main, In(r, t), In(pending, t) PROVE FALSE
    OBVIOUS
  <2>1. t \in Children
    <3>1. PICK i \in DOMAIN pending : pending[i].id = t
      BY DEF In
    <3>2. pending[i] \in MatchedEntry
      BY <1>1, ElementOfSeq, LenProperties
    <3> QED BY <3>1, <3>2 DEF MatchedEntry, Entry, Children
  <2> QED BY <1>2, <2>1 DEF Up
<1>4. /\ q \in Seq(MatchedEntry)
      /\ \A t : In(q, t) <=> In(r, t) \/ In(pending, t)
      /\ Once(q)
      /\ Cardinality(MainIn(q)) <= Cardinality(MainIn(r)) + Cardinality(MainIn(pending))
  <2>1. q \in Seq(MatchedEntry)
    BY <1>0, <1>1, ConcatProperties
  <2>2. /\ \A t : In(q, t) <=> In(r, t) \/ In(pending, t)
        /\ Once(r) /\ Once(pending) /\ (\A t : t # Main => ~(In(r, t) /\ In(pending, t)))
             => Once(q)
        /\ Cardinality(MainIn(q)) <= Cardinality(MainIn(r)) + Cardinality(MainIn(pending))
    BY <1>0, <1>1, ConcatIds
  <2> QED BY <1>0, <1>1, <1>3, <2>1, <2>2
<1> HIDE DEF q
<1>5. active.id \in Children => ~In(q, active.id)
  BY <1>1, <1>2, <1>4 DEF Placed, Up
<1> QED BY <1>2, <1>4, <1>5 DEF q

LEMMA WakeStep ==
  ASSUME IInv, SchedOK', PlacesOK, CountOK, InGuest, NEW c \in Conds, NEW r, Woke(c, r),
         UNCHANGED <<nextTid, exited, lost, stopped>>
  PROVE  PlacesOK' /\ CountOK'
<1> DEFINE q == r \o pending
<1>1. /\ pending \in Seq(MatchedEntry) /\ Once(pending)
      /\ \A t \in Children : Placed(t)
      /\ \A d \in Conds : Once(waiters[d])
  BY DEF IInv, SchedOK, PlacesOK
<1>2. /\ r \in Seq(MatchedEntry) /\ Yield(q) /\ Once(waiters'[c])
      /\ \A d \in Conds : d # c => waiters'[d] = waiters[d]
      /\ \A t \in Children : /\ In(waiters[c], t) <=> In(r, t) \/ In(waiters'[c], t)
                             /\ ~(In(r, t) /\ In(waiters'[c], t))
      /\ IsFiniteSet(MainWaits(waiters'))
      /\ Cardinality(MainWaits(waiters')) + Cardinality(MainIn(r))
           <= Cardinality(MainWaits(waiters))
  BY DEF Woke
<1>4. /\ q \in Seq(MatchedEntry)
      /\ \A t : In(q, t) <=> In(r, t) \/ In(pending, t)
      /\ Once(q)
      /\ Cardinality(MainIn(q)) <= Cardinality(MainIn(r)) + Cardinality(MainIn(pending))
      /\ active.id \in Children => ~In(q, active.id)
  BY WokenInFront
<1> HIDE DEF q
<1>6. /\ Once(pending)'
      /\ \A t \in Children : /\ Up(t)' <=> In(q, t) \/ active.id = t
                             /\ ~(In(pending, t) /\ active.id = t)'
      /\ Saved' <= Cardinality(MainIn(q)) + One(active.id = Main) /\ Saved' \in Nat
      /\ active' = NoActive <=> active = NoActive
  BY <1>2, <1>4, YieldEffect DEF IInv, InGuest
<1>7. PlacesOK'
  <2>1. \A d \in Conds : Once(waiters'[d])
    BY <1>1, <1>2
  <2>2. ASSUME NEW t \in Children PROVE Placed(t)'
    <3>1. /\ Up(t)' <=> In(r, t) \/ Up(t)
          /\ ~(In(pending, t) /\ active.id = t)'
          /\ \A d \in Conds : In(waiters'[d], t) => In(waiters[d], t)
          /\ \A d \in Conds : In(waiters[d], t) => In(waiters'[d], t) \/ (d = c /\ In(r, t))
          /\ In(r, t) => In(waiters[c], t) /\ ~In(waiters'[c], t)
      BY <1>2, <1>4, <1>6 DEF Up
    <3>2. Placed(t)
      BY <1>1
    <3> HIDE DEF Up
    <3>3. In(r, t) => \A d \in Conds : ~In(waiters'[d], t)
      BY <3>1, <3>2 DEF Placed
    <3> QED BY <3>1, <3>2, <3>3 DEF Placed
  <2> QED BY <1>6, <2>1, <2>2 DEF PlacesOK
<1>8. CountOK'
  <2>1. /\ Cardinality(MainWaits(waiters)) \in Nat /\ Cardinality(MainWaits(waiters')) \in Nat
        /\ Cardinality(exited \ {Main}) \in Nat
        /\ Cardinality(MainIn(r)) \in Nat /\ Cardinality(MainIn(pending)) \in Nat
        /\ Cardinality(MainIn(q)) \in Nat
    BY <1>1, <1>2, <1>4, Finite, FS_CardinalityType, MainCounted DEF IInv, CountOK
  <2>2. Saved + Cardinality(MainWaits(waiters)) <= Cardinality(exited \ {Main}) + One(Busy)
    BY DEF CountOK
  <2>3. Busy' <=> Busy
    BY <1>6 DEF Busy
  <2>4. One(Busy)' = One(Busy) /\ One(Busy) \in Nat
    BY <2>3 DEF One
  <2>5. Saved' + Cardinality(MainWaits(waiters')) <= Cardinality(exited \ {Main}) + One(Busy)
    <3>1. Saved = Cardinality(MainIn(pending)) + One(active.id = Main)
          /\ One(active.id = Main) \in Nat
      BY DEF Saved, One
    <3>2. Saved' <= Cardinality(MainIn(r)) + Saved /\ Saved \in Nat /\ Saved' \in Nat
      <4>1. Cardinality(MainIn(q)) <= Cardinality(MainIn(r)) + Cardinality(MainIn(pending))
        BY <1>4
      <4>2. Saved' <= Cardinality(MainIn(q)) + One(active.id = Main) /\ Saved' \in Nat
        BY <1>6
      <4>3. Saved' <= Cardinality(MainIn(r)) + (Cardinality(MainIn(pending)) + One(active.id = Main))
        BY <2>1, <3>1, <4>1, <4>2
      <4>4. Saved \in Nat
        BY <2>1, <3>1
      <4> QED BY <3>1, <4>2, <4>3, <4>4
    <3> QED BY <1>2, <2>1, <2>2, <2>4, <3>2, SMTT(30)
  <2> QED BY <1>2, <2>4, <2>5 DEF CountOK
<1> QED BY <1>7, <1>8

-------------------------------------------------------------------------------
(***************************************************************************)
(* The inductive step, action by action.                                   *)
(***************************************************************************)

LEMMA InitPlaces == Init => PInv
<1> SUFFICES ASSUME Init PROVE PInv
  OBVIOUS
<1>1. /\ pending = <<>> /\ DOMAIN pending = {} /\ active.id = 0
      /\ \A c \in Conds : waiters[c] = <<>> /\ DOMAIN waiters[c] = {}
      /\ exited = {} /\ lost = {} /\ nextTid = 2 /\ ~stopped /\ active = NoActive
  BY DEF Init, NoActive
<1>2. PlacesOK
  <2>1. \A t \in Children : ~(t < 2) /\ t # 0
    BY ConstantsAssumption DEF Children, Tids, Main
  <2> QED BY <1>1, <2>1 DEF PlacesOK, Placed, Up, In, Once
<1>3. CountOK
  <2>1. MainWaits(waiters) = {} /\ MainIn(pending) = {} /\ exited \ {Main} = {}
    BY <1>1 DEF MainWaits, MainIn
  <2>2. IsFiniteSet({}) /\ Cardinality({}) = 0
    BY FS_EmptySet
  <2> QED BY <1>1, <2>1, <2>2 DEF CountOK, Saved, Busy, One, Main
<1>4. StopOK /\ ResultDeliveredOnce
  BY <1>1 DEF StopOK, ResultDeliveredOnce, Init
<1> QED BY <1>2, <1>3, <1>4 DEF PInv

\* Neither a thread nor a result moves.
LEMMA StillStep ==
  ASSUME PInv,
         UNCHANGED <<nextTid, pending, active, waiters, completed, stopped, ghosts>>
  PROVE  PInv'
<1>1. PlacesOK'
  BY DEF PInv, PlacesOK, Placed, Up, ghosts
<1>2. CountOK' /\ StopOK' /\ ResultDeliveredOnce'
  BY DEF PInv, CountOK, Saved, Busy, StopOK, ResultDeliveredOnce, ghosts
<1> QED BY <1>1, <1>2 DEF PInv

LEMMA CreatePlaces == ASSUME IInv, PInv, PthreadCreate PROVE PInv'
<1> DEFINE new == [id |-> nextTid, ctx |-> [tid |-> nextTid, at |-> "guest"]]
<1>1. /\ nextTid \in Children /\ nextTid # Main /\ nextTid' = nextTid + 1 /\ nextTid \in Nat
      /\ pending' = Append(pending, new) /\ pending \in Seq(MatchedEntry)
      /\ new \in MatchedEntry /\ new.id = nextTid
      /\ UNCHANGED <<active, waiters, stopped, exited, taken, lost, completed>> /\ ~stopped
  BY ConstantsAssumption
     DEF IInv, RestOK, SchedOK, PthreadCreate, InGuest, Children, Tids, Main, MatchedEntry,
         Entry, GuestContext, ghosts
<1> HIDE DEF new
<1>2. /\ \A t : In(pending', t) <=> In(pending, t) \/ t = nextTid
      /\ Once(pending) /\ (new.id # Main => ~In(pending, new.id)) => Once(pending')
      /\ Cardinality(MainIn(pending')) <= Cardinality(MainIn(pending)) + One(new.id = Main)
  BY <1>1, AppendIds
<1>3. /\ Placed(nextTid) /\ ~(nextTid < nextTid) /\ Once(pending)
  BY <1>1 DEF PInv, PlacesOK
<1>4. PlacesOK'
  <2>1. Once(pending')
    BY <1>1, <1>2, <1>3 DEF Placed, Up
  <2>2. ASSUME NEW t \in Children PROVE Placed(t)'
    <3>1. CASE t = nextTid
      <4>1. nextTid < nextTid + 1
        BY <1>1
      <4> QED BY <1>1, <1>2, <1>3, <3>1, <4>1 DEF Placed, Up
    <3>2. CASE t # nextTid
      <4>1. Placed(t)
        BY DEF PInv, PlacesOK
      <4>2. t < nextTid + 1 <=> t < nextTid
        BY <1>1, <3>2, ConstantsAssumption DEF Children, Tids
      <4> QED BY <1>1, <1>2, <3>2, <4>1, <4>2 DEF Placed, Up
    <3> QED BY <3>1, <3>2
  <2> QED BY <1>1, <2>1, <2>2 DEF PInv, PlacesOK
<1>5. CountOK'
  <2>1. One(new.id = Main) = 0
    BY <1>1 DEF One
  <2>2. /\ Cardinality(MainIn(pending)) \in Nat /\ Cardinality(MainIn(pending')) \in Nat
        /\ One(active.id = Main) \in Nat
    <3>1. pending' \in Seq(MatchedEntry)
      BY <1>1, AppendProperties
    <3> QED BY <1>1, <3>1, MainCounted DEF One
  <2>3. Cardinality(MainIn(pending')) <= Cardinality(MainIn(pending))
    BY <1>2, <2>1, <2>2
  <2>4. /\ Saved = Cardinality(MainIn(pending)) + One(active.id = Main)
        /\ Saved' = Cardinality(MainIn(pending')) + One(active.id = Main)
    BY <1>1 DEF Saved
  <2>5. Saved \in Nat /\ Saved' \in Nat /\ Saved' <= Saved
    BY <2>2, <2>3, <2>4
  <2>6. Busy => Busy'
    BY <1>1 DEF Busy
  <2> QED BY <1>1, <2>5, <2>6, CountKept DEF IInv, PInv
<1> QED BY <1>1, <1>4, <1>5, QuietKept DEF PInv

LEMMA JoinPlaces ==
  ASSUME IInv, IInv', PInv, NEW t \in Tids, PthreadJoin(t) PROVE PInv'
<1>1. CASE UNCHANGED sched /\ t \in completed /\ completed' = completed \ {t}
           /\ taken' = taken \cup {t}
  <2>1. PlacesOK' /\ CountOK' /\ StopOK'
    BY <1>1 DEF PInv, PlacesOK, Placed, Up, CountOK, Saved, Busy, StopOK, PthreadJoin, sched
  <2>2. ResultDeliveredOnce'
    BY <1>1 DEF PInv, ResultDeliveredOnce, PthreadJoin
  <2> QED BY <2>1, <2>2 DEF PInv
<1>2. CASE /\ active = NoActive
           /\ \E i \in DOMAIN pending : Dispatch(i, cpu, TRUE)
           /\ UNCHANGED <<completed, taken>>
  <2>1. active.id \notin Children
    BY <1>2, ActiveFacts DEF IInv
  <2>2. PlacesOK' /\ CountOK'
    BY <1>2, <2>1, DispatchStep DEF IInv, PInv, PthreadJoin
  <2>3. StopOK' /\ ResultDeliveredOnce'
    BY <1>2, QuietKept DEF PInv, PthreadJoin, InGuest
  <2> QED BY <2>2, <2>3 DEF PInv
<1> QED BY <1>1, <1>2 DEF PthreadJoin

LEMMA DetachPlaces ==
  ASSUME PInv, NEW t \in Tids, PthreadDetach(t) PROVE PInv'
<1>1. PlacesOK' /\ CountOK' /\ StopOK'
  BY DEF PInv, PlacesOK, Placed, Up, CountOK, Saved, Busy, StopOK, PthreadDetach, sched
<1>2. ResultDeliveredOnce'
  BY DEF PInv, ResultDeliveredOnce, PthreadDetach
<1> QED BY <1>1, <1>2 DEF PInv

LEMMA ExitPlaces == ASSUME IInv, IInv', PInv, ThreadExit PROVE PInv'
<1> DEFINE e == cpu.tid
<1>1. /\ active # NoActive /\ active.id = e /\ e \in Tids /\ e # 0
      /\ active' = NoActive /\ active'.id = 0 /\ exited' = exited \cup {e}
      /\ UNCHANGED <<nextTid, pending, waiters, stopped, lost>> /\ ~stopped
  BY ActiveFacts, TidFacts DEF IInv, SchedOK, Context, ThreadExit, InGuest, NoActive
<1> HIDE DEF e
<1>2. PlacesOK'
  <2>1. ASSUME NEW t \in Children PROVE Placed(t)'
    <3>1. Placed(t) /\ t # 0
      BY ActiveFacts DEF IInv, PInv, PlacesOK
    <3>2. CASE t = e
      BY <1>1, <3>1, <3>2 DEF Placed, Up
    <3>3. CASE t # e
      BY <1>1, <3>1, <3>3 DEF Placed, Up
    <3> QED BY <3>2, <3>3
  <2> QED BY <1>1, <2>1 DEF PInv, PlacesOK
<1>3. CountOK'
  <2> DEFINE n == Cardinality(exited \ {Main})
             w == Cardinality(MainWaits(waiters))
             p == Cardinality(MainIn(pending))
  <2>1. /\ IsFiniteSet(MainWaits(waiters)) /\ n \in Nat /\ w \in Nat /\ p \in Nat
        /\ IsFiniteSet(exited \ {Main})
    BY Finite, FS_CardinalityType, SavedCounted DEF IInv, PInv, CountOK
  <2>2. /\ Saved = p + One(active.id = Main) /\ Saved' = p
        /\ One(Busy) = 1 /\ One(Busy)' = 0
    <3>1. active'.id # Main
      BY <1>1 DEF Main
    <3>2. Saved' = p + 0 /\ Saved = p + One(active.id = Main)
      BY <1>1, <3>1 DEF Saved, One
    <3> QED BY <1>1, <2>1, <3>2 DEF Busy, One
  <2>3. Saved + w <= n + 1
    BY <2>2 DEF PInv, CountOK
  <2>4. CASE e = Main
    <3>1. exited' \ {Main} = exited \ {Main} /\ One(active.id = Main) = 1
      BY <1>1, <2>4 DEF One
    <3> HIDE DEF n, w, p
    <3>2. Saved' + w <= n + 0
      BY <2>1, <2>2, <2>3, <3>1
    <3> QED BY <1>1, <2>1, <2>2, <3>1, <3>2 DEF CountOK, n, w
  <2>5. CASE e # Main
    <3>1. e \notin exited
      BY <1>1, <2>5 DEF PInv, PlacesOK, Placed, Up, Children
    <3>2. exited' \ {Main} = (exited \ {Main}) \cup {e} /\ e \notin exited \ {Main}
      BY <1>1, <2>5, <3>1
    <3>3. Cardinality(exited' \ {Main}) = n + 1
      BY <2>1, <3>2, FS_AddElement
    <3>4. One(active.id = Main) = 0
      BY <1>1, <2>5 DEF One
    <3> HIDE DEF n, w, p
    <3>5. Saved' + w <= (n + 1) + 0
      BY <2>1, <2>2, <2>3, <3>4
    <3> QED BY <1>1, <2>1, <2>2, <3>3, <3>5 DEF CountOK, w
  <2> QED BY <2>4, <2>5
<1>4. ResultDeliveredOnce'
  <2>1. e # Main => e \notin exited
    BY <1>1 DEF PInv, PlacesOK, Placed, Up, Children
  <2>2. exited \ {Main} = (completed \cup taken) \ {Main} /\ completed \cap taken \subseteq {Main}
    BY DEF PInv, ResultDeliveredOnce
  <2>3. CASE active.store
    <3>1. completed' = completed /\ taken' = taken \cup {e}
      BY <2>3 DEF ThreadExit, ExitRecords, e
    <3> QED BY <1>1, <2>1, <2>2, <3>1 DEF ResultDeliveredOnce
  <2>4. CASE ~active.store
    <3>1. completed' = completed \cup {e} /\ taken' = taken
      BY <1>1, <2>4 DEF ThreadExit, ExitRecords
    <3> QED BY <1>1, <2>1, <2>2, <3>1 DEF ResultDeliveredOnce
  <2> QED BY <2>3, <2>4
<1>5. StopOK'
  BY <1>1 DEF StopOK
<1> QED BY <1>2, <1>3, <1>4, <1>5 DEF PInv

LEMMA DonePlaces ==
  ASSUME IInv, IInv', PInv, ~stopped, cpu.tid = Main, NEW saved, DoneAddr(saved)
  PROVE  PInv'
<1>1. active.id \notin Children
  BY ActiveFacts DEF IInv, Children
<1>2. CASE pending # <<>> /\ Dispatch(1, saved, FALSE) /\ UNCHANGED stopped
  <2>1. 1 \in DOMAIN pending
    BY <1>2, EmptySeq, LenProperties, SMT DEF IInv, SchedOK
  <2>2. PlacesOK' /\ CountOK'
    BY <1>1, <1>2, <2>1, DispatchStep DEF IInv, PInv, DoneAddr, ghosts
  <2>3. StopOK' /\ ResultDeliveredOnce'
    BY <1>2, QuietKept DEF PInv, DoneAddr, ghosts
  <2> QED BY <2>2, <2>3 DEF PInv
<1>3. CASE /\ pending = <<>> /\ stopped' = TRUE /\ active' = NoActive
           /\ UNCHANGED <<pending, current, cpu>>
  <2>1. active'.id = 0 /\ \A t \in Children : t # 0 /\ t # active.id
    BY <1>1, <1>3, ActiveFacts DEF IInv, NoActive
  <2>2. \A t \in Children : /\ Up(t)' <=> Up(t)
                            /\ ~(In(pending, t) /\ active.id = t)'
    BY <1>3, <2>1 DEF Up
  <2>3. PlacesOK'
    BY <1>3, <2>2, PlacesKept DEF PInv, PlacesOK, DoneAddr, ghosts
  <2>4. Saved \in Nat /\ Saved' \in Nat /\ Saved' <= Saved
    <3>1. active'.id # Main
      BY <2>1 DEF Main
    <3>2. Saved' = Cardinality(MainIn(pending)) + 0
          /\ Saved = Cardinality(MainIn(pending)) + One(active.id = Main)
      BY <1>3, <3>1 DEF Saved, One
    <3> QED BY <3>2, SavedCounted DEF IInv, One
  <2>5. CountOK'
    <3>1. Busy'
      BY <1>3 DEF Busy
    <3> QED BY <2>4, <3>1, CountKept DEF IInv, PInv, DoneAddr, ghosts
  <2>6. StopOK' /\ ResultDeliveredOnce'
    BY <1>3 DEF PInv, StopOK, ResultDeliveredOnce, DoneAddr, ghosts
  <2> QED BY <2>3, <2>5, <2>6 DEF PInv
<1> QED BY <1>2, <1>3 DEF DoneAddr

LEMMA CondInitPlaces ==
  ASSUME IInv, PInv, NEW c \in Conds, CondInit(c) PROVE PInv'
<1>1. /\ waiters \in [Conds -> Seq(MatchedWaiter)]
      /\ waiters' = [waiters EXCEPT ![c] = <<>>]
      /\ lost' = lost \cup {w.id : w \in ToSet(waiters[c])}
      /\ UNCHANGED <<nextTid, pending, active, completed, stopped, exited, taken>>
      /\ ~stopped
  BY DEF IInv, WaitOK, CondInit, sched, InGuest
<1>2. \A t : t \in {w.id : w \in ToSet(waiters[c])} <=> In(waiters[c], t)
  BY DEF ToSet, In
<1>3. \A t : ~In(waiters'[c], t) /\ \A d \in Conds : d # c => waiters'[d] = waiters[d]
  BY <1>1 DEF In
<1>4. PlacesOK'
  <2>1. ASSUME NEW t \in Children PROVE Placed(t)'
    <3>1. Placed(t)
      BY DEF PInv, PlacesOK
    <3>2. Up(t)' <=> Up(t)
      BY <1>1 DEF Up
    <3>3. t \in lost' <=> t \in lost \/ In(waiters[c], t)
      BY <1>1, <1>2
    <3>4. \A d \in Conds : In(waiters'[d], t) <=> In(waiters[d], t) /\ d # c
      BY <1>3
    <3> QED BY <1>1, <3>1, <3>2, <3>3, <3>4 DEF Placed
  <2>2. \A d \in Conds : Once(waiters'[d])
    BY <1>1, <1>3 DEF PInv, PlacesOK, Once
  <2> QED BY <1>1, <2>1, <2>2 DEF PInv, PlacesOK
<1>5. CountOK'
  <2>1. /\ IsFiniteSet(MainWaits(waiters'))
        /\ Cardinality(MainWaits(waiters')) + Cardinality(MainIn(waiters[c]))
             <= Cardinality(MainWaits(waiters))
    BY <1>1, WaitsCleared DEF PInv, CountOK
  <2>2. /\ Cardinality(MainWaits(waiters)) \in Nat /\ Cardinality(MainWaits(waiters')) \in Nat
        /\ Cardinality(MainIn(waiters[c])) \in Nat /\ Cardinality(exited \ {Main}) \in Nat
        /\ Saved \in Nat
    BY <1>1, <2>1, Finite, SavedCounted, FS_CardinalityType, MainCounted DEF IInv, PInv, CountOK
  <2>3. Saved' = Saved /\ One(Busy)' = One(Busy) /\ One(Busy) \in Nat
    BY <1>1 DEF Saved, Busy, One
  <2>4. Saved + Cardinality(MainWaits(waiters)) <= Cardinality(exited \ {Main}) + One(Busy)
    BY DEF PInv, CountOK
  <2>5. Saved' + Cardinality(MainWaits(waiters')) <= Cardinality(exited \ {Main}) + One(Busy)
    BY <2>1, <2>2, <2>3, <2>4
  <2> QED BY <1>1, <2>1, <2>3, <2>5 DEF CountOK
<1> QED BY <1>1, <1>4, <1>5, QuietKept DEF PInv

\* The current thread is queued on c and a ready one takes the CPU.
LEMMA ParkStep ==
  ASSUME IInv, PInv, ~stopped, NEW c \in Conds, NEW e \in MatchedWaiter,
         waiters' = [waiters EXCEPT ![c] = Append(@, e)],
         e.id = IF active = NoActive THEN Main ELSE active.id,
         Once(pending)',
         \A t \in Children : /\ Up(t)' <=> In(pending, t)
                             /\ ~(In(pending, t) /\ active.id = t)',
         Saved' <= Cardinality(MainIn(pending)), Saved' \in Nat, active' # NoActive,
         UNCHANGED <<nextTid, exited, lost>>
  PROVE  PlacesOK' /\ CountOK'
<1>1. /\ waiters \in [Conds -> Seq(MatchedWaiter)] /\ waiters[c] \in Seq(MatchedWaiter)
      /\ waiters'[c] = Append(waiters[c], e)
      /\ \A d \in Conds : d # c => waiters'[d] = waiters[d]
  BY DEF IInv, WaitOK
<1>2. /\ \A t : In(waiters'[c], t) <=> In(waiters[c], t) \/ t = e.id
      /\ Once(waiters[c]) /\ (e.id # Main => ~In(waiters[c], e.id)) => Once(waiters'[c])
  BY <1>1, AppendIds
<1>3. \A t \in Children : (t = e.id <=> active.id = t) /\ t # Main
  BY ActiveFacts DEF IInv, Children
<1>4. e.id # Main => e.id \in Children
  BY DEF MatchedWaiter, Waiter, Children
<1>5. PlacesOK'
  <2>1. \A d \in Conds : Once(waiters'[d])
    BY <1>1, <1>2, <1>3, <1>4 DEF PInv, PlacesOK, Placed, Up
  <2>2. ASSUME NEW t \in Children PROVE Placed(t)'
    <3>1. Placed(t)
      BY DEF PInv, PlacesOK
    <3>2. CASE active.id = t
      <4>1. Up(t) /\ ~In(pending, t)
        BY <3>1, <3>2 DEF Placed, Up
      <4>2. \A d \in Conds : In(waiters'[d], t) <=> d = c
        BY <1>1, <1>2, <1>3, <3>1, <3>2, <4>1 DEF Placed
      <4> HIDE DEF Up
      <4> QED BY <3>1, <4>1, <4>2 DEF Placed
    <3>3. CASE active.id # t
      <4>1. Up(t)' <=> Up(t)
        BY <3>3 DEF Up
      <4>2. \A d \in Conds : In(waiters'[d], t) <=> In(waiters[d], t)
        BY <1>1, <1>2, <1>3, <3>3
      <4> HIDE DEF Up
      <4> QED BY <3>1, <4>1, <4>2 DEF Placed
    <3> QED BY <3>2, <3>3
  <2> QED BY <2>1, <2>2 DEF PlacesOK
<1>6. CountOK'
  <2> DEFINE n == Cardinality(exited \ {Main})
             w == Cardinality(MainWaits(waiters))
             w2 == Cardinality(MainWaits(waiters'))
             p == Cardinality(MainIn(pending))
  <2>1. IsFiniteSet(MainWaits(waiters')) /\ w2 <= w + One(e.id = Main)
    BY <1>1, WaitsAppended DEF PInv, CountOK
  <2>2. n \in Nat /\ w \in Nat /\ w2 \in Nat /\ p \in Nat
    BY <2>1, Finite, FS_CardinalityType, SavedCounted DEF IInv, PInv, CountOK
  <2>3. p + One(active.id = Main) + w <= n + One(Busy)
    BY DEF PInv, CountOK, Saved
  <2>4. One(Busy)' = 1
    BY DEF Busy, One
  <2>5. /\ One(e.id = Main) + One(Busy) <= One(active.id = Main) + 1
        /\ One(e.id = Main) \in Nat /\ One(active.id = Main) \in Nat /\ One(Busy) \in Nat
    <3>1. CASE active = NoActive
      BY <3>1 DEF One, Busy
    <3>2. CASE active # NoActive
      BY <3>2 DEF One, Busy
    <3> QED BY <3>1, <3>2
  <2> HIDE DEF n, w, w2, p
  <2>6. Saved' + w2 <= n + 1
    <3> DEFINE o == One(e.id = Main)
               a == One(active.id = Main)
               b == One(Busy)
    <3>1. o + b <= a + 1 /\ o \in Nat /\ a \in Nat /\ b \in Nat
      BY <2>5
    <3>2. w2 <= w + o /\ p + a + w <= n + b
      BY <2>1, <2>3
    <3>3. Saved' <= p /\ Saved' \in Nat
      BY DEF p
    <3> HIDE DEF o, a, b
    <3>4. w2 + b <= w + a + 1
      BY <2>2, <3>1, <3>2
    <3>5. p + w2 + b <= n + b + 1
      BY <2>2, <3>1, <3>2, <3>4
    <3>6. p + w2 <= n + 1
      BY <2>2, <3>1, <3>5
    <3>7. \A s \in Nat : s <= p => s + w2 <= n + 1
      BY <2>2, <3>6
    <3> QED BY <3>3, <3>7
  <2> QED BY <2>1, <2>4, <2>6 DEF CountOK, n, w2
<1> QED BY <1>5, <1>6

LEMMA CondWaitPlaces ==
  ASSUME IInv, IInv', PInv, NEW c \in Conds, NEW m \in Mutexes, CondWait(c, m)
  PROVE  PInv'
<1>1. /\ cpu \in GuestContext /\ cpu.at = "guest" /\ ~stopped
      /\ UNCHANGED <<nextTid, completed, stopped, exited, taken, lost>>
  BY DEF IInv, SchedOK, CondWait, InGuest, Context, GuestContext, ghosts
<1>2. /\ active = NoActive => current = Main /\ cpu.tid = Main /\ active.id \notin Children
      /\ pending # <<>> => 1 \in DOMAIN pending
      /\ pending \in Seq(MatchedEntry) /\ Once(pending)
  BY ActiveFacts, EmptySeq, LenProperties DEF IInv, SchedOK, RunningMatches, PInv, PlacesOK
<1>3. StopOK' /\ ResultDeliveredOnce'
  BY <1>1, QuietKept DEF PInv
<1>4. CASE WaitConsumes(c, m)
  <2>1. CASE UNCHANGED sched
    BY <1>1, <1>4, <2>1, StillStep DEF WaitConsumes, sched, ghosts
  <2>2. CASE active = NoActive /\ pending # <<>> /\ Dispatch(1, cpu, FALSE)
    <3>1. PlacesOK' /\ CountOK'
      BY <1>1, <1>2, <1>4, <2>2, DispatchStep DEF IInv, PInv, WaitConsumes
    <3> QED BY <1>3, <3>1 DEF PInv
  <2> QED BY <1>4, <2>1, <2>2 DEF WaitConsumes
<1>5. CASE WaitBlocksMain(c, m)
  <2> DEFINE e == [id |-> current, mutex |-> m, ctx |-> cpu]
  <2>1. /\ e \in MatchedWaiter /\ e.id = Main /\ active = NoActive
        /\ waiters' = [waiters EXCEPT ![c] = Append(@, e)]
    BY <1>1, <1>2, <1>5, TidFacts DEF WaitBlocksMain, AddWaiter, MatchedWaiter, Waiter
  <2> HIDE DEF e
  <2>2. /\ Once(pending)'
        /\ \A t \in Children : /\ Up(t)' <=> In(pending, t)
                               /\ ~(In(pending, t) /\ active.id = t)'
        /\ Saved' <= Cardinality(MainIn(pending)) /\ Saved' \in Nat
        /\ active' # NoActive
    BY <1>2, <1>5, DispatchEffect DEF IInv, WaitBlocksMain
  <2>3. PlacesOK' /\ CountOK'
    BY <1>1, <2>1, <2>2, ParkStep
  <2> QED BY <1>3, <2>3 DEF PInv
<1>6. CASE WaitBlocksActive(c, m)
  <2> DEFINE e == [id |-> active.id, mutex |-> m, ctx |-> cpu]
  <2>1. /\ e \in MatchedWaiter /\ e.id = active.id /\ active # NoActive
        /\ waiters' = [waiters EXCEPT ![c] = Append(@, e)]
    <3>1. active # NoActive /\ active.id = cpu.tid /\ active.id \in Tids
      BY <1>6 DEF IInv, SchedOK, RunningMatches, WaitBlocksActive, Active
    <3> QED BY <1>1, <1>6, <3>1 DEF WaitBlocksActive, AddWaiter, MatchedWaiter, Waiter
  <2> HIDE DEF e
  <2>2. /\ Once(pending)'
        /\ \A t \in Children : /\ Up(t)' <=> In(pending, t)
                               /\ ~(In(pending, t) /\ active.id = t)'
        /\ Saved' <= Cardinality(MainIn(pending)) /\ Saved' \in Nat
        /\ active' # NoActive
    <3>1. pending # <<>> /\ SwitchTo(pending)
      BY <1>6 DEF WaitBlocksActive
    <3> QED BY <1>2, <2>1, <3>1, SwitchEffect DEF IInv
  <2>3. PlacesOK' /\ CountOK'
    BY <1>1, <2>1, <2>2, ParkStep
  <2> QED BY <1>3, <2>3 DEF PInv
<1>7. CASE WaitReturns(c, m)
  BY <1>1, <1>7, StillStep DEF WaitReturns, sched, ghosts
<1> QED BY <1>4, <1>5, <1>6, <1>7 DEF CondWait

LEMMA WakeFirstWakes ==
  ASSUME IInv, PInv, NEW c \in Conds, WakeFirst(c)
  PROVE  \E r : Woke(c, r)
<1> DEFINE w == Head(waiters[c])
           r == <<AsEntry(w)>>
<1>1. /\ waiters \in [Conds -> Seq(MatchedWaiter)] /\ waiters[c] \in Seq(MatchedWaiter)
      /\ waiters[c] # <<>> /\ waiters' = [waiters EXCEPT ![c] = Tail(@)]
      /\ waiters'[c] = Tail(waiters[c]) /\ \A d \in Conds : d # c => waiters'[d] = waiters[d]
      /\ Yield(r \o pending)
  BY DEF IInv, WaitOK, WakeFirst
<1>2. /\ w = waiters[c][1] /\ w \in MatchedWaiter /\ Tail(waiters[c]) \in Seq(MatchedWaiter)
      /\ 1 \in DOMAIN waiters[c] /\ Without(Tail(waiters[c]), waiters[c], 1)
  BY <1>1, HeadTailProperties, TailIsWithout
<1> HIDE DEF w
<1>3. AsEntry(w) \in MatchedEntry /\ AsEntry(w).id = w.id
  BY <1>2, EntryOfWaiter DEF AsEntry
<1>4. /\ r \in Seq(MatchedEntry)
      /\ \A t : In(r, t) <=> t = w.id
      /\ Once(r)
      /\ Cardinality(MainIn(r)) = One(w.id = Main)
  BY <1>3, SingleIds
<1>5. /\ Once(waiters'[c])
      /\ \A t : t # Main => (In(waiters'[c], t) <=> In(waiters[c], t) /\ t # w.id)
  <2>1. Once(waiters[c])
    BY DEF PInv, PlacesOK
  <2>2. /\ Once(waiters[c]) => Once(Tail(waiters[c]))
        /\ Once(waiters[c]) => \A t : t # Main =>
             (In(Tail(waiters[c]), t) <=> In(waiters[c], t) /\ t # waiters[c][1].id)
    BY <1>1, <1>2, WithoutIds
  <2> QED BY <1>1, <1>2, <2>1, <2>2
<1>6. /\ IsFiniteSet(MainWaits(waiters'))
      /\ Cardinality(MainWaits(waiters')) + One(w.id = Main) <= Cardinality(MainWaits(waiters))
  BY <1>1, WaitsTaken DEF PInv, CountOK, w
<1>7. In(waiters[c], w.id)
  BY <1>2 DEF In
<1> HIDE DEF r
<1>8. \A t \in Children : /\ In(waiters[c], t) <=> In(r, t) \/ In(waiters'[c], t)
                          /\ ~(In(r, t) /\ In(waiters'[c], t))
  BY <1>4, <1>5, <1>7 DEF Children
<1>9. Woke(c, r)
  BY <1>1, <1>4, <1>5, <1>6, <1>8 DEF Woke
<1> QED BY <1>9

LEMMA BroadcastWakes ==
  ASSUME IInv, PInv, NEW c \in Conds, CondBroadcast(c)
  PROVE  \E r : Woke(c, r)
<1> DEFINE ws == waiters[c]
           r == [i \in DOMAIN ws |-> AsEntry(ws[Len(ws) + 1 - i])]
<1>1. /\ waiters \in [Conds -> Seq(MatchedWaiter)] /\ ws \in Seq(MatchedWaiter)
      /\ Len(ws) \in Nat /\ DOMAIN ws = 1..Len(ws)
      /\ \A i \in DOMAIN ws : ws[i] \in MatchedWaiter
  BY ElementOfSeq, LenProperties DEF IInv, WaitOK
<1>2. /\ waiters' = [waiters EXCEPT ![c] = <<>>]
      /\ Yield(r \o pending)
  BY DEF CondBroadcast
<1>3. \A i \in DOMAIN ws : ws[Len(ws) + 1 - i] \in MatchedWaiter
  <2> HIDE DEF ws
  <2>1. \A i \in 1..Len(ws) : Len(ws) + 1 - i \in 1..Len(ws)
    BY <1>1, SMT
  <2> QED BY <1>1, <2>1
<1>4. r \in Seq(MatchedEntry) /\ Len(r) = Len(ws)
      /\ \A i \in 1..Len(ws) : r[i].id = ws[Len(ws) + 1 - i].id
  <2>1. r \in [1..Len(ws) -> MatchedEntry]
    BY <1>1, <1>3, EntryOfWaiter
  <2>2. \A i \in 1..Len(ws) : r[i].id = ws[Len(ws) + 1 - i].id
    BY <1>1 DEF AsEntry
  <2> HIDE DEF r, ws
  <2>3. r \in Seq(MatchedEntry)
    BY <1>1, <2>1, SeqDef
  <2>4. Len(r) \in Nat /\ 1..Len(r) = 1..Len(ws)
    BY <2>1, <2>3, LenProperties
  <2>5. Len(r) = Len(ws)
    <3>1. /\ Len(r) \in 1..Len(r) \/ Len(r) = 0
          /\ Len(ws) \in 1..Len(ws) \/ Len(ws) = 0
      BY <1>1, <2>4
    <3>2. /\ Len(r) \in 1..Len(ws) \/ Len(r) = 0
          /\ Len(ws) \in 1..Len(r) \/ Len(ws) = 0
      BY <2>4, <3>1
    <3> QED BY <1>1, <2>4, <3>2
  <2> QED BY <2>2, <2>3, <2>5
<1> HIDE DEF r, ws
<1>5. /\ \A t : In(r, t) <=> In(ws, t)
      /\ Once(ws) => Once(r)
      /\ Cardinality(MainIn(r)) <= Cardinality(MainIn(ws))
  BY <1>1, <1>4, TurnedIds
<1>6. /\ waiters'[c] = <<>> /\ \A d \in Conds : d # c => waiters'[d] = waiters[d]
      /\ Once(waiters'[c]) /\ \A t : ~In(waiters'[c], t)
  BY <1>1, <1>2 DEF Once, In
<1>7. /\ IsFiniteSet(MainWaits(waiters'))
      /\ Cardinality(MainWaits(waiters')) + Cardinality(MainIn(ws))
           <= Cardinality(MainWaits(waiters))
  BY <1>1, <1>2, WaitsCleared DEF PInv, CountOK, ws
<1>8. Cardinality(MainWaits(waiters')) + Cardinality(MainIn(r)) <= Cardinality(MainWaits(waiters))
  <2>1. /\ Cardinality(MainWaits(waiters')) \in Nat /\ Cardinality(MainWaits(waiters)) \in Nat
        /\ Cardinality(MainIn(r)) \in Nat /\ Cardinality(MainIn(ws)) \in Nat
    BY <1>1, <1>4, <1>7, FS_CardinalityType, MainCounted DEF PInv, CountOK
  <2> QED BY <1>5, <1>7, <2>1
<1>9. Once(r) /\ \A t \in Children : /\ In(waiters[c], t) <=> In(r, t) \/ In(waiters'[c], t)
                                    /\ ~(In(r, t) /\ In(waiters'[c], t))
  BY <1>5, <1>6 DEF PInv, PlacesOK, ws
<1>10. Woke(c, r)
  BY <1>2, <1>4, <1>6, <1>7, <1>8, <1>9 DEF Woke
<1> QED BY <1>10

LEMMA WakePlaces ==
  ASSUME IInv, IInv', PInv, InGuest, NEW c \in Conds, \E r : Woke(c, r),
         UNCHANGED <<nextTid, completed, stopped, ghosts>>
  PROVE  PInv'
<1>1. PlacesOK' /\ CountOK'
  BY WakeStep DEF IInv, PInv, ghosts
<1> QED BY <1>1, QuietKept DEF PInv, InGuest, ghosts

LEMMA StepPlaces == IInv /\ IInv' /\ PInv /\ [Next]_vars => PInv'
<1> SUFFICES ASSUME IInv, IInv', PInv, [Next]_vars PROVE PInv'
  OBVIOUS
<1>1. CASE ThreadStep
  <2>1. CASE PthreadCreate
    BY <2>1, CreatePlaces
  <2>2. CASE \E t \in Tids : PthreadJoin(t) \/ PthreadDetach(t)
    BY <2>2, JoinPlaces, DetachPlaces
  <2>3. CASE ThreadExit
    BY <2>3, ExitPlaces
  <2>4. CASE MainReturns
    BY <2>4, DonePlaces DEF MainReturns, InGuest
  <2>5. CASE ExitWithoutActive \/ DoneAgain
    <3>1. cpu.tid = Main /\ ~stopped /\ DoneAddr(cpu)
      BY <2>5 DEF IInv, SchedOK, RunningMatches, ExitWithoutActive, DoneAgain, InGuest
    <3> QED BY <3>1, DonePlaces
  <2> QED BY <1>1, <2>1, <2>2, <2>3, <2>4, <2>5 DEF ThreadStep
<1>2. CASE SyncStep
  <2>1. ASSUME NEW m \in Mutexes, MutexInit(m) \/ MutexLock(m) \/ MutexUnlock(m)
        PROVE  PInv'
    BY <2>1, StillStep DEF MutexInit, MutexLock, MutexUnlock, SetOwner, sched, ghosts
  <2>2. ASSUME NEW c \in Conds, CondInit(c) \/ CondBroadcast(c) PROVE PInv'
    <3>1. CASE CondBroadcast(c)
      <4>1. InGuest /\ UNCHANGED <<nextTid, completed, stopped, ghosts>>
        BY <3>1 DEF CondBroadcast
      <4> QED BY <3>1, <4>1, BroadcastWakes, WakePlaces
    <3> QED BY <2>2, <3>1, CondInitPlaces
  <2>3. ASSUME NEW c \in Conds, CondSignal(c) PROVE PInv'
    <3>1. InGuest /\ UNCHANGED <<nextTid, completed, stopped, ghosts>>
      BY <2>3 DEF CondSignal
    <3>2. CASE StoreSignal(c)
      <4>1. PlacesOK' /\ CountOK'
        BY <3>1, <3>2, YieldStep DEF IInv, PInv, StoreSignal, ghosts
      <4> QED BY <3>1, <4>1, QuietKept DEF PInv, InGuest, ghosts
    <3> QED BY <2>3, <3>1, <3>2, WakeFirstWakes, WakePlaces DEF CondSignal
  <2>4. ASSUME NEW c \in Conds, NEW m \in Mutexes, CondWait(c, m) \/ CondTimedWait(c, m)
        PROVE  PInv'
    <3>1. CASE CondTimedWait(c, m)
      BY <3>1, StillStep DEF CondTimedWait, sched
    <3> QED BY <2>4, <3>1, CondWaitPlaces
  <2> QED BY <1>2, <2>1, <2>2, <2>3, <2>4 DEF SyncStep
<1>3. CASE DelayYield
  <2>1. PlacesOK' /\ CountOK'
    BY <1>3, YieldStep DEF IInv, PInv, DelayYield, ghosts
  <2> QED BY <1>3, <2>1, QuietKept DEF PInv, DelayYield, InGuest, ghosts
<1>4. CASE UNCHANGED vars
  BY <1>4, StillStep DEF vars, ghosts
<1> QED BY <1>1, <1>2, <1>3, <1>4 DEF Next

\* Where the threads are is an invariant, next to who runs and who is ready.
THEOREM PlacesInvariant == Spec => [](IInv /\ PInv)
<1>1. IInv /\ PInv /\ IInv' /\ [Next]_vars => PInv'
  BY StepPlaces
<1> QED BY <1>1, InductiveInvariant, InitPlaces, PTL DEF Spec

-------------------------------------------------------------------------------
(***************************************************************************)
(* What the invariant says in the terms of the properties TLC checks.      *)
(***************************************************************************)

LEMMA SpotsAre ==
  ASSUME NEW t, NEW s
  PROVE  s \in Spots(t) <=>
           \/ \E i \in DOMAIN pending : pending[i].id = t /\ s = <<"ready", i>>
           \/ \E c \in Conds : \E i \in DOMAIN waiters[c] :
                 waiters[c][i].id = t /\ s = <<c, i>>
           \/ active.id = t /\ s = <<"running", 0>>
           \/ t \in exited /\ s = <<"exited", 0>>
           \/ t \in lost /\ s = <<"lost", 0>>
<1> DEFINE Q == {<<"ready", i>> : i \in {j \in DOMAIN pending : pending[j].id = t}}
           C(c) == {<<c, i>> : i \in {j \in DOMAIN waiters[c] : waiters[c][j].id = t}}
           R == {<<"running", 0>> : x \in {1} \cap (IF active.id = t THEN {1} ELSE {})}
           U == UNION {C(c) : c \in Conds}
           E == {<<"exited", 0>> : x \in exited \cap {t}}
           L == {<<"lost", 0>> : x \in lost \cap {t}}
<1>1. Spots(t) = Q \cup U \cup R \cup E \cup L
  BY DEF Spots
<1>2. s \in Q <=> \E i \in DOMAIN pending : pending[i].id = t /\ s = <<"ready", i>>
  OBVIOUS
<1>3. s \in U <=>
        \E c \in Conds : \E i \in DOMAIN waiters[c] : waiters[c][i].id = t /\ s = <<c, i>>
  <2>1. \A c \in Conds : s \in C(c) <=>
          \E i \in DOMAIN waiters[c] : waiters[c][i].id = t /\ s = <<c, i>>
    OBVIOUS
  <2> HIDE DEF C
  <2> QED BY <2>1
<1>4. s \in R <=> active.id = t /\ s = <<"running", 0>>
  OBVIOUS
<1>5. /\ s \in E <=> t \in exited /\ s = <<"exited", 0>>
      /\ s \in L <=> t \in lost /\ s = <<"lost", 0>>
  OBVIOUS
<1> HIDE DEF Q, C, U, R, E, L
<1> QED BY <1>1, <1>2, <1>3, <1>4, <1>5

LEMMA OnePlace == ASSUME IInv, PInv PROVE ExactlyOnePlace
<1> SUFFICES ASSUME NEW t \in Children
             PROVE  Cardinality(Spots(t)) = IF t < nextTid THEN 1 ELSE 0
  BY DEF ExactlyOnePlace
<1>1. /\ Placed(t) /\ t # Main
      /\ Once(pending) /\ \A c \in Conds : Once(waiters[c])
  BY DEF PInv, PlacesOK, Children
<1>2. CASE t < nextTid
  <2>1. \E s : s \in Spots(t)
    <3>1. CASE In(pending, t)
      <4>1. PICK i \in DOMAIN pending : pending[i].id = t
        BY <3>1 DEF In
      <4>2. <<"ready", i>> \in Spots(t)
        BY <4>1, SpotsAre
      <4> QED BY <4>2
    <3>2. ASSUME NEW c \in Conds, In(waiters[c], t) PROVE \E s : s \in Spots(t)
      <4>1. PICK i \in DOMAIN waiters[c] : waiters[c][i].id = t
        BY <3>2 DEF In
      <4>2. <<c, i>> \in Spots(t)
        BY <4>1, SpotsAre
      <4> QED BY <4>2
    <3>3. /\ active.id = t => <<"running", 0>> \in Spots(t)
          /\ t \in exited => <<"exited", 0>> \in Spots(t)
          /\ t \in lost => <<"lost", 0>> \in Spots(t)
      BY SpotsAre
    <3> QED BY <1>1, <1>2, <3>1, <3>2, <3>3 DEF Placed, Up
  <2>2. ASSUME NEW s \in Spots(t), NEW r \in Spots(t) PROVE s = r
    <3>1. /\ \/ \E i \in DOMAIN pending : pending[i].id = t /\ s = <<"ready", i>>
             \/ \E c \in Conds : \E i \in DOMAIN waiters[c] :
                   waiters[c][i].id = t /\ s = <<c, i>>
             \/ active.id = t /\ s = <<"running", 0>>
             \/ t \in exited /\ s = <<"exited", 0>>
             \/ t \in lost /\ s = <<"lost", 0>>
          /\ \/ \E i \in DOMAIN pending : pending[i].id = t /\ r = <<"ready", i>>
             \/ \E c \in Conds : \E i \in DOMAIN waiters[c] :
                   waiters[c][i].id = t /\ r = <<c, i>>
             \/ active.id = t /\ r = <<"running", 0>>
             \/ t \in exited /\ r = <<"exited", 0>>
             \/ t \in lost /\ r = <<"lost", 0>>
      BY <2>2, SpotsAre
    <3>2. CASE In(pending, t)
      <4>1. /\ \E i \in DOMAIN pending : pending[i].id = t /\ s = <<"ready", i>>
            /\ \E i \in DOMAIN pending : pending[i].id = t /\ r = <<"ready", i>>
        BY <1>1, <3>1, <3>2 DEF Placed, Up, In
      <4> QED BY <1>1, <4>1 DEF Once
    <3>3. ASSUME NEW c \in Conds, In(waiters[c], t) PROVE s = r
      <4>1. /\ \E i \in DOMAIN waiters[c] : waiters[c][i].id = t /\ s = <<c, i>>
            /\ \E i \in DOMAIN waiters[c] : waiters[c][i].id = t /\ r = <<c, i>>
        BY <1>1, <3>1, <3>3 DEF Placed, Up, In
      <4> QED BY <1>1, <4>1 DEF Once
    <3>4. CASE ~In(pending, t) /\ \A c \in Conds : ~In(waiters[c], t)
      BY <1>1, <3>1, <3>4 DEF Placed, Up, In
    <3> QED BY <3>2, <3>3, <3>4
  <2>3. PICK s : Spots(t) = {s}
    BY <2>1, <2>2
  <2> QED BY <1>2, <2>3, FS_Singleton
<1>3. CASE ~(t < nextTid)
  <2>1. Spots(t) = {}
    <3> SUFFICES ASSUME NEW s \in Spots(t) PROVE FALSE
      OBVIOUS
    <3> QED BY <1>1, <1>3, SpotsAre DEF Placed, Up, In
  <2> QED BY <1>3, <2>1, FS_EmptySet
<1> QED BY <1>2, <1>3

LEMMA MainBounded == ASSUME IInv, PInv PROVE MainContinuationsBounded
<1> DEFINE A == {<<"ready", i>> : i \in MainIn(pending)}
           f == [x \in A |-> x[2]]
           W == MainWaits(waiters)
           R == IF active.id = Main THEN {<<"running", 0>>} ELSE {}
           p == Cardinality(MainIn(pending))
           w == Cardinality(W)
           n == Cardinality(exited \ {Main})
<1>1. /\ IsFiniteSet(MainIn(pending)) /\ p \in Nat
      /\ IsFiniteSet(W) /\ w \in Nat /\ n \in Nat
  BY Finite, MainCounted, FS_CardinalityType DEF IInv, SchedOK, PInv, CountOK
<1>2. IsFiniteSet(A) /\ Cardinality(A) <= p /\ Cardinality(A) \in Nat
  <2>1. f \in [A -> MainIn(pending)] /\ \A a, b \in A : f[a] = f[b] => a = b
    OBVIOUS
  <2> HIDE DEF A, f
  <2> QED BY <1>1, <2>1, CountInjected, FS_CardinalityType
<1>3. IsFiniteSet(R) /\ Cardinality(R) = One(active.id = Main)
  <2>1. CASE active.id = Main
    <3>1. R = {<<"running", 0>>}
      BY <2>1
    <3> QED BY <2>1, <3>1, FS_Singleton DEF One
  <2>2. CASE active.id # Main
    <3>1. R = {}
      BY <2>2
    <3> QED BY <2>2, <3>1, FS_EmptySet DEF One
  <2> QED BY <2>1, <2>2
<1>4. MainSpots \in SUBSET (A \cup W \cup R)
  <2> SUFFICES ASSUME NEW s \in MainSpots PROVE s \in A \cup W \cup R
    OBVIOUS
  <2>1. \A c \in Conds : DOMAIN waiters[c] \subseteq Nat
    BY LenProperties DEF IInv, WaitOK
  <2>2. \/ \E i \in DOMAIN pending : pending[i].id = Main /\ s = <<"ready", i>>
        \/ \E c \in Conds : \E i \in DOMAIN waiters[c] :
              waiters[c][i].id = Main /\ s = <<c, i>>
        \/ active.id = Main /\ s = <<"running", 0>>
    BY SpotsAre DEF MainSpots
  <2>3. CASE \E i \in DOMAIN pending : pending[i].id = Main /\ s = <<"ready", i>>
    BY <2>3 DEF MainIn
  <2>4. ASSUME NEW c \in Conds, NEW i \in DOMAIN waiters[c],
               waiters[c][i].id = Main, s = <<c, i>>
        PROVE  s \in W
    BY <2>1, <2>4 DEF MainWaits, MainIn
  <2> QED BY <2>2, <2>3, <2>4
<1> HIDE DEF A, R, f
<1>5. /\ IsFiniteSet(A \cup W)
      /\ Cardinality(A \cup W) <= Cardinality(A) + w
      /\ Cardinality(A \cup W) \in Nat
  <2>1. /\ IsFiniteSet(A \cup W)
        /\ Cardinality(A \cup W) = Cardinality(A) + Cardinality(W) - Cardinality(A \cap W)
    BY <1>1, <1>2, FS_Union
  <2>2. Cardinality(A \cap W) \in Nat
    BY <1>2, FS_Subset, FS_CardinalityType
  <2>3. Cardinality(A \cup W) \in Nat
    BY <2>1, FS_CardinalityType
  <2> QED BY <1>1, <1>2, <2>1, <2>2, <2>3
<1>6. /\ IsFiniteSet((A \cup W) \cup R)
      /\ Cardinality((A \cup W) \cup R) <= Cardinality(A \cup W) + Cardinality(R)
      /\ Cardinality((A \cup W) \cup R) \in Nat
  <2>1. /\ IsFiniteSet((A \cup W) \cup R)
        /\ Cardinality((A \cup W) \cup R) =
             Cardinality(A \cup W) + Cardinality(R) - Cardinality((A \cup W) \cap R)
    BY <1>3, <1>5, FS_Union
  <2>2. Cardinality((A \cup W) \cap R) \in Nat
    BY <1>5, FS_Subset, FS_CardinalityType
  <2>3. Cardinality((A \cup W) \cup R) \in Nat /\ Cardinality(R) \in Nat
    BY <1>3, <2>1, FS_CardinalityType
  <2> QED BY <1>5, <2>1, <2>2, <2>3
<1>7. Cardinality(MainSpots) <= Cardinality((A \cup W) \cup R) /\ Cardinality(MainSpots) \in Nat
  <2>1. IsFiniteSet(MainSpots) /\ Cardinality(MainSpots) <= Cardinality((A \cup W) \cup R)
    BY <1>4, <1>6, FS_Subset
  <2> QED BY <2>1, FS_CardinalityType
<1> DEFINE m == Cardinality(MainSpots)
           a == One(active.id = Main)
           b == One(Busy)
<1>8. m <= p + w + a /\ m \in Nat /\ a \in Nat /\ b \in Nat
  <2>1. a \in Nat /\ b \in Nat
    BY DEF One
  <2> QED BY <1>1, <1>2, <1>3, <1>5, <1>6, <1>7, <2>1
<1>9. p + a + w <= n + b
  BY DEF PInv, CountOK, Saved
<1> HIDE DEF W, p, w, n, m, a, b
<1>10. m <= n + b
  BY <1>1, <1>8, <1>9
<1>11. CASE active # NoActive
  <2>1. b = 1
    BY <1>11 DEF b, One, Busy
  <2>2. m + 1 <= 1 + n + 1
    BY <1>1, <1>8, <1>10, <2>1
  <2> QED BY <1>11, <2>2 DEF MainContinuationsBounded, MainContinuations, m, n
<1>12. CASE active = NoActive /\ stopped
  <2>1. b = 1
    BY <1>12 DEF b, One, Busy
  <2>2. m + 0 <= 1 + n + 0
    BY <1>1, <1>8, <1>10, <2>1
  <2> QED BY <1>12, <2>2 DEF MainContinuationsBounded, MainContinuations, m, n
<1>13. CASE active = NoActive /\ ~stopped
  <2>1. b = 0
    BY <1>13 DEF b, One, Busy
  <2>2. m + 1 <= 1 + n + 0
    BY <1>1, <1>8, <1>10, <2>1
  <2> QED BY <1>13, <2>2 DEF MainContinuationsBounded, MainContinuations, m, n
<1> QED BY <1>11, <1>12, <1>13

LEMMA StopMeaning == ASSUME IInv, PInv PROVE StopStrandsOnlyWaiters
<1> SUFFICES ASSUME stopped, NEW t \in Children, t < nextTid, t \notin exited \cup lost
             PROVE  \E c \in Conds : signals[c] = 0 /\ \E w \in ToSet(waiters[c]) : w.id = t
  BY DEF StopStrandsOnlyWaiters
<1>1. active = NoActive /\ pending = <<>> /\ DOMAIN pending = {}
  BY DEF PInv, StopOK
<1>2. ~Up(t)
  BY <1>1, ActiveFacts DEF IInv, Up, In
<1>3. PICK c \in Conds : In(waiters[c], t)
  BY <1>2 DEF PInv, PlacesOK, Placed
<1>4. PICK i \in DOMAIN waiters[c] : waiters[c][i].id = t
  BY <1>3 DEF In
<1>5. waiters[c] # <<>>
  BY <1>4
<1>6. signals[c] = 0
  BY <1>5, ConstantsAssumption DEF IInv, WaitOK, NoLostWakeup
<1> QED BY <1>4, <1>6 DEF ToSet

\* No switch, join, exit, wait or stop loses or doubles a thread, or a result, and
\* main is resumed at most once more for each thread that ended.
THEOREM NothingLost == Spec => []ThreadsConserved
<1>1. IInv /\ PInv => ThreadsConserved
  BY OnePlace, MainBounded DEF ThreadsConserved, PInv
<1> QED BY <1>1, PlacesInvariant, PTL

\* done_addr stops the run only when every thread that did not end waits for a
\* signal nobody sent, or was dropped by pthread_cond_init.
THEOREM StopIsHonest == Spec => []StopStrandsOnlyWaiters
BY PlacesInvariant, StopMeaning, PTL

-------------------------------------------------------------------------------
(***************************************************************************)
(* The refinement: every step is a step of ThreadLifecycle, or leaves the  *)
(* children where they are.                                                *)
(***************************************************************************)

\* The abstract place of a child, read from the queues.
PlaceIs(t) ==
  /\ active.id = t <=> place[t] = "running"
  /\ In(pending, t) <=> place[t] = "ready"
  /\ \A c \in Conds : In(waiters[c], t) <=> place[t] = c
  /\ t \in exited <=> place[t] = "exited"
  /\ t \in lost <=> place[t] = "lost"
  /\ ~(t < nextTid) <=> place[t] = "unborn"
  /\ place[t] \in {"unborn", "ready", "running", "exited", "lost"} \cup Conds

LEMMA HoldsIsIn ==
  ASSUME NEW c, NEW t PROVE Holds(c, t) <=> In(waiters[c], t)
BY DEF Holds, In, ToSet

LEMMA PlaceRead == ASSUME PlacesOK, NEW t \in Children PROVE PlaceIs(t)
<1>1. Placed(t)
  BY DEF PlacesOK
<1>2. place[t] =
        IF active.id = t THEN "running"
        ELSE IF \E i \in DOMAIN pending : pending[i].id = t THEN "ready"
        ELSE IF \E c \in Conds : Holds(c, t) THEN CHOOSE c \in Conds : Holds(c, t)
        ELSE IF t \in exited THEN "exited"
        ELSE IF t \in lost THEN "lost"
        ELSE "unborn"
  BY DEF place
<1> DEFINE x == place[t]
           h == CHOOSE c \in Conds : Holds(c, t)
<1>3. /\ x = IF active.id = t THEN "running"
             ELSE IF In(pending, t) THEN "ready"
             ELSE IF \E c \in Conds : In(waiters[c], t) THEN h
             ELSE IF t \in exited THEN "exited"
             ELSE IF t \in lost THEN "lost"
             ELSE "unborn"
      /\ (\E c \in Conds : In(waiters[c], t)) => h \in Conds /\ In(waiters[h], t)
  BY <1>2, HoldsIsIn DEF In
<1>4. /\ \A c \in Conds : c \notin {"unborn", "ready", "running", "exited", "lost"}
  BY CondsAssumption
<1> HIDE DEF x, h
<1> DEFINE C(c) == In(waiters[c], t)
<1>5. \A c, d \in Conds : C(c) /\ C(d) => c = d
  BY <1>1 DEF Placed
<1>6. /\ ~(In(pending, t) /\ active.id = t)
      /\ In(pending, t) \/ active.id = t =>
           t \notin exited \cup lost /\ (\A c \in Conds : ~C(c)) /\ t < nextTid
      /\ (\E c \in Conds : C(c)) => t \notin exited \cup lost /\ t < nextTid
      /\ ~(t \in exited /\ t \in lost)
      /\ t \in exited \cup lost => t < nextTid
      /\ t < nextTid => \/ In(pending, t) \/ active.id = t
                        \/ \E c \in Conds : C(c)
                        \/ t \in exited \cup lost
  BY <1>1 DEF Placed, Up
<1>7. /\ active.id = t <=> x = "running"
      /\ In(pending, t) <=> x = "ready"
      /\ \A c \in Conds : C(c) <=> x = c
      /\ t \in exited <=> x = "exited"
      /\ t \in lost <=> x = "lost"
      /\ ~(t < nextTid) <=> x = "unborn"
      /\ x \in {"unborn", "ready", "running", "exited", "lost"} \cup Conds
  <2>1. CASE active.id = t
    BY <1>3, <1>4, <1>6, <2>1
  <2>2. CASE In(pending, t)
    BY <1>3, <1>4, <1>6, <2>2
  <2>3. CASE ~In(pending, t) /\ active.id # t /\ \E c \in Conds : C(c)
    <3>1. x = h /\ h \in Conds /\ C(h)
      BY <1>3, <2>3
    <3> HIDE DEF C
    <3> QED BY <1>4, <1>5, <1>6, <2>3, <3>1
  <2>4. CASE ~In(pending, t) /\ active.id # t /\ \A c \in Conds : ~C(c)
    <3>1. CASE t \in exited
      BY <1>3, <1>4, <1>6, <2>4, <3>1
    <3>2. CASE t \in lost
      BY <1>3, <1>4, <1>6, <2>4, <3>2
    <3>3. CASE t \notin exited \cup lost
      BY <1>3, <1>4, <1>6, <2>4, <3>3
    <3> QED BY <3>1, <3>2, <3>3
  <2> QED BY <2>1, <2>2, <2>3, <2>4
<1> QED BY <1>7 DEF PlaceIs, x

LEMMA PlacesRead ==
  /\ PlacesOK => \A t \in Children : PlaceIs(t)
  /\ PlacesOK' => (\A t \in Children : PlaceIs(t))'
<1>1. PlacesOK => \A t \in Children : PlaceIs(t)
  BY PlaceRead
<1> QED BY <1>1, PTL

\* Placements are functions on the children: two that agree are equal.
LEMMA SamePlaces ==
  ASSUME NEW p, p = [t \in Children |-> p[t]], \A t \in Children : place'[t] = p[t]
  PROVE  place' = p
<1>1. place' = [t \in Children |-> place'[t]]
  BY DEF place
<1> QED BY <1>1

LEMMA PlacesAreFunctions ==
  /\ place = [t \in Children |-> place[t]]
  /\ place' = [t \in Children |-> place'[t]]
BY DEF place

\* From the placement p, thread n takes the CPU.
LEMMA Grants ==
  ASSUME NEW p, p = [t \in Children |-> p[t]], NEW n,
         \A t \in Children : place'[t] = IF t = n THEN "running" ELSE p[t],
         n \in Children => p[n] = "ready"
  PROVE  place' \in Lifecycle!Granted(p)
<1>1. CASE n \in Children
  <2> DEFINE p2 == [p EXCEPT ![n] = "running"]
  <2>1. p2 = [t \in Children |-> p2[t]] /\ \A t \in Children : place'[t] = p2[t]
    BY <1>1
  <2>2. place' = p2
    <3> HIDE DEF p2
    <3> QED BY <2>1, SamePlaces
  <2>3. p2 \in {[p EXCEPT ![t] = "running"] : t \in {u \in Children : p[u] = "ready"}}
    BY <1>1
  <2> HIDE DEF p2
  <2> QED BY <2>2, <2>3 DEF Lifecycle!Granted
<1>2. CASE n \notin Children
  <2>1. \A t \in Children : place'[t] = p[t]
    BY <1>2
  <2>2. place' = p
    BY <2>1, SamePlaces
  <2> QED BY <2>2 DEF Lifecycle!Granted
<1> QED BY <1>1, <1>2

\* A child of which all that is kept stays the same stays where it is.
LEMMA StaysPut ==
  ASSUME PlacesOK, PlacesOK', NEW t \in Children,
         active'.id = t <=> active.id = t,
         In(pending', t) <=> In(pending, t),
         \A c \in Conds : In(waiters'[c], t) <=> In(waiters[c], t),
         t \in exited' <=> t \in exited, t \in lost' <=> t \in lost,
         t < nextTid' <=> t < nextTid
  PROVE  place'[t] = place[t]
<1>1. PlaceIs(t) /\ PlaceIs(t)'
  BY PlacesRead
<1> QED BY <1>1 DEF PlaceIs

\* Which thread a switch puts on the CPU, and who stays ready.
Took(q, n) ==
  /\ In(q, n)
  /\ \A t \in Children : /\ active'.id = t <=> n = t
                         /\ In(pending', t) <=> In(q, t) /\ t # n

LEMMA DispatchTook ==
  ASSUME SchedOK, Once(pending), NEW i \in DOMAIN pending,
         NEW parent, NEW store, Dispatch(i, parent, store)
  PROVE  \E n : Took(pending, n)
<1>1. /\ pending \in Seq(MatchedEntry) /\ pending' = TakeEntry(pending, i)
      /\ active'.id = pending[i].id
  BY DEF SchedOK, Dispatch
<1>2. Without(pending', pending, i) /\ pending' \in Seq(MatchedEntry)
  BY <1>1, TakeIsWithout, TakeEntryType
<1>3. \A t : t # Main => (In(pending', t) <=> In(pending, t) /\ t # pending[i].id)
  BY <1>1, <1>2, WithoutIds
<1>4. Took(pending, pending[i].id)
  BY <1>1, <1>3 DEF Took, In, Children
<1> QED BY <1>4

LEMMA SwitchTook ==
  ASSUME SchedOK, active # NoActive,
         NEW q \in Seq(MatchedEntry), q # <<>>, Once(q), SwitchTo(q)
  PROVE  \E n : Took(q, n)
<1>1. /\ pending' = Tail(q) /\ Tail(q) \in Seq(MatchedEntry)
      /\ active'.id = q[1].id
  BY HeadTailProperties DEF SchedOK, SwitchTo, Active
<1>2. 1 \in DOMAIN q /\ Without(pending', q, 1)
  BY <1>1, TailIsWithout
<1>3. \A t : t # Main => (In(pending', t) <=> In(q, t) /\ t # q[1].id)
  BY <1>1, <1>2, WithoutIds
<1>4. Took(q, q[1].id)
  BY <1>1, <1>2, <1>3 DEF Took, In, Children
<1> QED BY <1>4

\* A yield: nobody moves, or somebody of q takes the CPU and the caller is ready.
YieldTook(q) ==
  \/ UNCHANGED active /\ pending' = q
  \/ \E n : /\ In(q, n) \/ n = active.id
            /\ \A t \in Children : /\ active'.id = t <=> n = t
                                   /\ In(pending', t) <=>
                                        (In(q, t) \/ t = active.id) /\ t # n

LEMMA YieldTakes ==
  ASSUME SchedOK, cpu.at = "guest", NEW q \in Seq(MatchedEntry), Once(q),
         active.id \in Children => ~In(q, active.id), Yield(q)
  PROVE  YieldTook(q)
<1>1. CASE active # NoActive /\ q # <<>> /\ SwitchTo(Append(q, Here))
  <2>1. Here \in MatchedEntry /\ Here.id = active.id
    BY <1>1 DEF SchedOK, RunningMatches, Here, MatchedEntry, Entry,
                GuestContext, Context, Active
  <2> DEFINE r == Append(q, Here)
  <2>2. r \in Seq(MatchedEntry) /\ r # <<>>
    BY <2>1, AppendProperties
  <2>3. active.id # Main => active.id \in Children
    BY <1>1, ActiveFacts DEF Children
  <2>4. /\ \A t : In(r, t) <=> In(q, t) \/ t = active.id
        /\ Once(r)
    BY <2>1, <2>3, AppendIds
  <2> HIDE DEF r
  <2>5. PICK n : Took(r, n)
    <3>1. SwitchTo(r)
      BY <1>1 DEF r
    <3> QED BY <1>1, <2>2, <2>4, <3>1, SwitchTook
  <2> QED BY <2>4, <2>5 DEF Took, YieldTook
<1>2. CASE pending' = q /\ UNCHANGED <<active, current, cpu>>
  BY <1>2 DEF YieldTook
<1> QED BY <1>1, <1>2 DEF Yield

\* A hand-over in which the children W leave their conditions and become ready.
LEMMA HandsOver ==
  ASSUME PlacesOK, PlacesOK', NEW q, YieldTook(q), NEW W \in SUBSET Children,
         \A t \in W : ~Up(t) /\ \E c \in Conds : In(waiters[c], t),
         \A t \in Children : In(q, t) <=> In(pending, t) \/ t \in W,
         \A t \in Children, c \in Conds :
           In(waiters'[c], t) <=> In(waiters[c], t) /\ t \notin W,
         UNCHANGED <<nextTid, exited, lost>>
  PROVE  LET p == [t \in Children |-> IF t \in W THEN "ready" ELSE place[t]] IN
         place' = p \/ place' \in Lifecycle!Granted(Lifecycle!Released(p, "ready"))
<1> DEFINE p == [t \in Children |-> IF t \in W THEN "ready" ELSE place[t]]
<1>1. \A t \in Children : PlaceIs(t) /\ PlaceIs(t)'
  BY PlacesRead
<1>2. ASSUME NEW t \in Children, t \notin W,
             active'.id = t <=> active.id = t, In(pending', t) <=> In(pending, t)
      PROVE  place'[t] = place[t]
  BY <1>2, StaysPut
<1>3. CASE UNCHANGED active /\ pending' = q
  <2>1. ASSUME NEW t \in Children PROVE place'[t] = p[t]
    <3>1. CASE t \in W
      BY <1>1, <1>3, <3>1 DEF PlaceIs
    <3>2. CASE t \notin W
      BY <1>2, <1>3, <3>2
    <3> QED BY <3>1, <3>2
  <2>2. p = [t \in Children |-> p[t]]
    OBVIOUS
  <2> HIDE DEF p
  <2>3. place' = p
    BY <2>1, <2>2, SamePlaces
  <2> QED BY <2>3 DEF p
<1>4. ASSUME NEW n, In(q, n) \/ n = active.id,
             \A t \in Children : /\ active'.id = t <=> n = t
                                 /\ In(pending', t) <=> (In(q, t) \/ t = active.id) /\ t # n
      PROVE  place' \in Lifecycle!Granted(Lifecycle!Released(p, "ready"))
  <2> DEFINE r == Lifecycle!Released(p, "ready")
  <2>1. /\ r = [t \in Children |-> r[t]]
        /\ \A t \in Children : r[t] = IF p[t] = "running" THEN "ready" ELSE p[t]
    BY DEF Lifecycle!Released
  <2>2. ASSUME NEW t \in Children PROVE place'[t] = IF t = n THEN "running" ELSE r[t]
    <3>1. CASE t = n
      BY <1>1, <1>4, <3>1 DEF PlaceIs
    <3>2. CASE t # n /\ (t \in W \/ t = active.id)
      <4>1. place'[t] = "ready"
        BY <1>1, <1>4, <3>2 DEF PlaceIs
      <4>2. p[t] = "ready" \/ p[t] = "running"
        BY <1>1, <3>2 DEF PlaceIs
      <4> QED BY <2>1, <3>2, <4>1, <4>2
    <3>3. CASE t # n /\ t \notin W /\ t # active.id
      <4>1. place'[t] = place[t] /\ place[t] # "running"
        BY <1>1, <1>2, <1>4, <3>3 DEF PlaceIs
      <4> QED BY <2>1, <3>3, <4>1
    <3> QED BY <3>1, <3>2, <3>3
  <2>3. n \in Children => r[n] = "ready"
    <3> SUFFICES ASSUME n \in Children PROVE r[n] = "ready"
      OBVIOUS
    <3>1. p[n] = "ready" \/ p[n] = "running"
      BY <1>1, <1>4 DEF PlaceIs
    <3> QED BY <2>1, <3>1
  <2> HIDE DEF r
  <2>4. place' \in Lifecycle!Granted(r)
    BY <2>1, <2>2, <2>3, Grants
  <2> QED BY <2>4 DEF r
<1> HIDE DEF p
<1> QED BY <1>3, <1>4 DEF YieldTook, p

\* The CPU changes hands between main, the active thread and the ready ones.
LEMMA SwitchRefines ==
  ASSUME PlacesOK, PlacesOK', YieldTook(pending),
         \A t \in Children, c \in Conds : In(waiters'[c], t) <=> In(waiters[c], t),
         UNCHANGED <<nextTid, exited, lost>>
  PROVE  place' = place \/ Lifecycle!Switch
<1>1. PICK W : W = {}
  OBVIOUS
<1> DEFINE p == [t \in Children |-> IF t \in W THEN "ready" ELSE place[t]]
<1>2. p = place
  BY <1>1, PlacesAreFunctions
<1>3. place' = p \/ place' \in Lifecycle!Granted(Lifecycle!Released(p, "ready"))
  <2>1. /\ W \in SUBSET Children /\ \A t : t \notin W
    BY <1>1
  <2> QED BY <2>1, HandsOver
<1> HIDE DEF p
<1> QED BY <1>2, <1>3 DEF Lifecycle!Switch

LEMMA DispatchRefines ==
  ASSUME IInv, PlacesOK, PlacesOK', active.id \notin Children,
         NEW i \in DOMAIN pending, NEW parent, NEW store, Dispatch(i, parent, store),
         \A t \in Children, c \in Conds : In(waiters'[c], t) <=> In(waiters[c], t),
         UNCHANGED <<nextTid, exited, lost>>
  PROVE  place' = place \/ Lifecycle!Switch
<1>1. PICK n : Took(pending, n)
  BY DispatchTook DEF IInv, PlacesOK
<1>2. YieldTook(pending)
  BY <1>1 DEF Took, YieldTook
<1> QED BY <1>2, SwitchRefines

LEMMA YieldRefines ==
  ASSUME IInv, PlacesOK, PlacesOK', InGuest, Yield(pending),
         UNCHANGED <<waiters, nextTid, exited, lost>>
  PROVE  place' = place \/ Lifecycle!Switch
<1>1. YieldTook(pending)
  BY YieldTakes DEF IInv, SchedOK, PlacesOK, Placed, InGuest
<1> QED BY <1>1, SwitchRefines

\* Waking is a wake of the abstract condition.
LEMMA WakeRefines ==
  ASSUME IInv, PlacesOK, PlacesOK', InGuest, NEW c \in Conds, NEW r, Woke(c, r),
         UNCHANGED <<nextTid, exited, lost>>
  PROVE  \E woken \in SUBSET Children : Lifecycle!WakeAndSwitch(c, woken)
<1> DEFINE q == r \o pending
           W == {t \in Children : In(r, t)}
           p == [t \in Children |-> IF t \in W THEN "ready" ELSE place[t]]
<1>1. /\ q \in Seq(MatchedEntry) /\ Once(q)
      /\ \A t : In(q, t) <=> In(r, t) \/ In(pending, t)
      /\ active.id \in Children => ~In(q, active.id)
      /\ \A t \in Children : In(r, t) => ~Up(t)
  BY WokenInFront
<1>2. /\ Yield(q)
      /\ \A t \in Children : /\ In(waiters[c], t) <=> In(r, t) \/ In(waiters'[c], t)
                             /\ ~(In(r, t) /\ In(waiters'[c], t))
      /\ \A d \in Conds : d # c => waiters'[d] = waiters[d]
  BY DEF Woke
<1> HIDE DEF q
<1>3. YieldTook(q)
  BY <1>1, <1>2, YieldTakes DEF IInv, InGuest
<1>4. \A t \in Children, d \in Conds :
        In(waiters'[d], t) <=> In(waiters[d], t) /\ t \notin W
  <2> SUFFICES ASSUME NEW t \in Children, NEW d \in Conds
               PROVE  In(waiters'[d], t) <=> In(waiters[d], t) /\ t \notin W
    OBVIOUS
  <2>1. t \in W => \A b \in Conds : b # c => ~In(waiters[b], t)
    BY <1>2 DEF PlacesOK, Placed
  <2> QED BY <1>2, <2>1
<1>5. /\ \A t \in W : ~Up(t) /\ \E d \in Conds : In(waiters[d], t)
      /\ \A t \in Children : In(q, t) <=> In(pending, t) \/ t \in W
      /\ W \in SUBSET Children
  BY <1>1, <1>2
<1>6. \A t \in W : place[t] = c
  BY <1>2, PlacesRead DEF PlaceIs
<1> HIDE DEF W
<1>7. place' = p \/ place' \in Lifecycle!Granted(Lifecycle!Released(p, "ready"))
  BY <1>3, <1>4, <1>5, HandsOver
<1>8. p = Lifecycle!Woken(c, W)
  BY DEF Lifecycle!Woken
<1>9. W \subseteq Lifecycle!WaitingOn(c)
  BY <1>5, <1>6 DEF Lifecycle!WaitingOn
<1> HIDE DEF p
<1> QED BY <1>5, <1>7, <1>8, <1>9 DEF Lifecycle!WakeAndSwitch

\* The active thread waits: it is parked on the condition, unless it is main.
LEMMA ParkRefines ==
  ASSUME IInv, PlacesOK, PlacesOK', NEW c \in Conds, NEW m, active # NoActive,
         pending # <<>>, AddWaiter(c, m, active.id), SwitchTo(pending),
         UNCHANGED <<nextTid, exited, lost>>
  PROVE  place' = place \/ Lifecycle!Switch \/ Lifecycle!Park(c)
<1> DEFINE e == [id |-> active.id, mutex |-> m, ctx |-> cpu]
<1>1. waiters' = [waiters EXCEPT ![c] = Append(@, e)] /\ e.id = active.id
  BY DEF AddWaiter
<1>2. /\ waiters \in [Conds -> Seq(MatchedWaiter)]
      /\ pending \in Seq(MatchedEntry) /\ Once(pending)
      /\ active.id \in Tids
  BY DEF IInv, WaitOK, SchedOK, PlacesOK, Active
<1>3. PICK n : Took(pending, n)
  BY <1>2, SwitchTook DEF IInv
<1> HIDE DEF e
<1>4. /\ \A d \in Conds : d # c => waiters'[d] = waiters[d]
      /\ \A t : In(waiters'[c], t) <=> In(waiters[c], t) \/ t = active.id
  <2>1. waiters[c] \in Seq(MatchedWaiter \cup {e}) /\ e \in MatchedWaiter \cup {e}
    <3>1. waiters[c] \in Seq(MatchedWaiter)
      BY <1>2
    <3> QED BY <3>1, SeqMonotonic
  <2>2. \A t : In(Append(waiters[c], e), t) <=> In(waiters[c], t) \/ t = e.id
    BY <2>1, AppendIds
  <2> QED BY <1>1, <1>2, <2>2
<1>5. CASE active.id \notin Children
  <2>1. YieldTook(pending)
    BY <1>3, <1>5 DEF Took, YieldTook
  <2>2. \A t \in Children, d \in Conds : In(waiters'[d], t) <=> In(waiters[d], t)
    BY <1>4, <1>5
  <2> QED BY <2>1, <2>2, SwitchRefines
<1>6. CASE active.id \in Children
  <2> DEFINE a == active.id
             r == Lifecycle!Released(place, c)
  <2>1. \A t \in Children : PlaceIs(t) /\ PlaceIs(t)'
    BY PlacesRead
  <2>2. /\ r = [t \in Children |-> r[t]]
        /\ \A t \in Children : r[t] = IF place[t] = "running" THEN c ELSE place[t]
    BY DEF Lifecycle!Released
  <2>3. /\ ~In(pending, a) /\ n # a
        /\ \A t \in Children : /\ active'.id = t <=> n = t
                               /\ In(pending', t) <=> In(pending, t) /\ t # n
    BY <1>3, <1>6 DEF Took, PlacesOK, Placed
  <2>4. ASSUME NEW t \in Children PROVE place'[t] = IF t = n THEN "running" ELSE r[t]
    <3>1. CASE t = n
      BY <2>1, <2>3, <3>1 DEF PlaceIs
    <3>2. CASE t = a
      <4>1. place[t] = "running" /\ place'[t] = c
        BY <1>4, <2>1, <3>2 DEF PlaceIs
      <4> QED BY <2>2, <2>3, <3>2, <4>1
    <3>3. CASE t # n /\ t # a
      <4>1. \A d \in Conds : In(waiters'[d], t) <=> In(waiters[d], t)
        BY <1>4, <3>3
      <4>2. place'[t] = place[t]
        BY <2>3, <3>3, <4>1, StaysPut
      <4>3. place[t] # "running"
        BY <2>1, <3>3 DEF PlaceIs
      <4> QED BY <2>2, <3>3, <4>2, <4>3
    <3> QED BY <3>1, <3>2, <3>3
  <2>5. n \in Children => r[n] = "ready"
    BY <1>3, <2>1, <2>2 DEF Took, PlaceIs
  <2>6. Lifecycle!Running # {}
    BY <1>6, <2>1 DEF PlaceIs, Lifecycle!Running
  <2> HIDE DEF r
  <2>7. place' \in Lifecycle!Granted(r)
    BY <2>2, <2>4, <2>5, Grants
  <2> QED BY <2>6, <2>7 DEF Lifecycle!Park, r
<1> QED BY <1>5, <1>6

\* The life of a thread, step by step.
LEMMA CreateRefines ==
  ASSUME IInv, PlacesOK, PlacesOK', PthreadCreate
  PROVE  \E t \in Children : Lifecycle!Create(t)
<1> DEFINE n == nextTid
           p == [place EXCEPT ![n] = "ready"]
           new == [id |-> nextTid, ctx |-> [tid |-> nextTid, at |-> "guest"]]
<1>1. /\ n \in Children /\ n \in Nat /\ nextTid' = n + 1
      /\ pending' = Append(pending, new) /\ pending \in Seq(MatchedEntry)
      /\ new \in MatchedEntry /\ new.id = n
      /\ UNCHANGED <<active, waiters, exited, lost>>
  BY ConstantsAssumption
     DEF IInv, RestOK, SchedOK, PthreadCreate, Children, Tids, Main, MatchedEntry,
         Entry, GuestContext, ghosts
<1> HIDE DEF new
<1>2. \A t : In(pending', t) <=> In(pending, t) \/ t = n
  BY <1>1, AppendIds
<1>3. \A t \in Children : PlaceIs(t) /\ PlaceIs(t)' /\ t \in Nat
  BY PlacesRead, ConstantsAssumption DEF Children, Tids
<1> HIDE DEF n
<1>4. place[n] = "unborn" /\ \A t \in Children : t < n => place[t] # "unborn"
  BY <1>1, <1>3 DEF PlaceIs, n
<1>5. ASSUME NEW t \in Children PROVE place'[t] = p[t]
  <2>1. CASE t = n
    <3>1. In(pending', t)
      BY <1>2, <2>1
    <3>2. place'[t] = "ready"
      BY <1>3, <3>1 DEF PlaceIs
    <3> QED BY <2>1, <3>2, PlacesAreFunctions
  <2>2. CASE t # n
    <3>1. t < n + 1 <=> t < n
      BY <1>1, <1>3, <2>2
    <3>2. place'[t] = place[t]
      <4>1. t < nextTid' <=> t < nextTid
        BY <1>1, <3>1 DEF n
      <4>2. active'.id = t <=> active.id = t
        BY <1>1
      <4> QED BY <1>1, <1>2, <2>2, <4>1, <4>2, StaysPut
    <3> QED BY <2>2, <3>2, PlacesAreFunctions
  <2> QED BY <2>1, <2>2
<1>6. place' = p
  <2>1. p = [t \in Children |-> p[t]]
    BY PlacesAreFunctions
  <2> HIDE DEF p
  <2> QED BY <1>5, <2>1, SamePlaces
<1> QED BY <1>1, <1>4, <1>6 DEF Lifecycle!Create

LEMMA ExitRefines ==
  ASSUME IInv, PlacesOK, PlacesOK', ThreadExit
  PROVE  place' = place \/ Lifecycle!Exit
<1> DEFINE a == active.id
           r == Lifecycle!Released(place, "exited")
<1>1. /\ active # NoActive /\ cpu.tid = a /\ exited' = exited \cup {a}
      /\ active'.id = 0
      /\ UNCHANGED <<nextTid, pending, waiters, lost>>
  BY ActiveFacts DEF IInv, ThreadExit, NoActive
<1>2. \A t \in Children : PlaceIs(t) /\ PlaceIs(t)' /\ t # 0
  BY PlacesRead, ActiveFacts DEF IInv
<1>3. ASSUME NEW t \in Children, t # a PROVE place'[t] = place[t] /\ place[t] # "running"
  <2>1. place'[t] = place[t]
    BY <1>1, <1>2, <1>3, StaysPut
  <2> QED BY <1>2, <1>3, <2>1 DEF PlaceIs
<1>4. CASE a \notin Children
  BY <1>3, <1>4, PlacesAreFunctions, SamePlaces
<1>5. CASE a \in Children
  <2>1. place[a] = "running" /\ place'[a] = "exited"
    BY <1>1, <1>2, <1>5 DEF PlaceIs
  <2>2. /\ r = [t \in Children |-> r[t]]
        /\ \A t \in Children : r[t] = IF place[t] = "running" THEN "exited" ELSE place[t]
    BY DEF Lifecycle!Released
  <2>3. \A t \in Children : place'[t] = r[t]
    BY <1>3, <2>1, <2>2
  <2> HIDE DEF r
  <2>4. place' = r
    BY <2>2, <2>3, SamePlaces
  <2>5. Lifecycle!Running # {}
    BY <1>5, <2>1 DEF Lifecycle!Running
  <2> QED BY <2>4, <2>5 DEF Lifecycle!Exit, r
<1> QED BY <1>4, <1>5

LEMMA StillRefines ==
  ASSUME PlacesOK, PlacesOK', UNCHANGED <<nextTid, pending, waiters, exited, lost>>,
         \A t \in Children : active'.id = t <=> active.id = t
  PROVE  place' = place
<1>1. \A t \in Children : place'[t] = place[t]
  BY StaysPut
<1> QED BY <1>1, PlacesAreFunctions, SamePlaces

LEMMA DoneRefines ==
  ASSUME IInv, PlacesOK, PlacesOK', cpu.tid = Main, NEW saved, DoneAddr(saved)
  PROVE  place' = place \/ Lifecycle!Switch
<1>1. active.id \notin Children
  BY ActiveFacts DEF IInv, Children
<1>2. CASE pending # <<>> /\ Dispatch(1, saved, FALSE)
  <2>1. 1 \in DOMAIN pending
    BY <1>2, EmptySeq, LenProperties, SMT DEF IInv, SchedOK
  <2> QED BY <1>1, <1>2, <2>1, DispatchRefines DEF DoneAddr, ghosts
<1>3. CASE pending = <<>> /\ active' = NoActive /\ UNCHANGED pending
  <2>1. \A t \in Children : active'.id # t
    BY <1>3, ActiveFacts DEF IInv, NoActive
  <2> QED BY <1>1, <1>3, <2>1, StillRefines DEF DoneAddr, ghosts
<1> QED BY <1>2, <1>3 DEF DoneAddr

LEMMA ForgetRefines ==
  ASSUME IInv, PlacesOK, PlacesOK', NEW c \in Conds, CondInit(c)
  PROVE  Lifecycle!Forget(c)
<1> DEFINE p == [t \in Children |-> IF place[t] = c THEN "lost" ELSE place[t]]
<1>1. /\ waiters \in [Conds -> Seq(MatchedWaiter)]
      /\ waiters' = [waiters EXCEPT ![c] = <<>>]
      /\ lost' = lost \cup {w.id : w \in ToSet(waiters[c])}
      /\ UNCHANGED <<nextTid, pending, active, exited>>
  BY DEF IInv, WaitOK, CondInit, sched
<1>2. \A t : t \in {w.id : w \in ToSet(waiters[c])} <=> In(waiters[c], t)
  BY DEF ToSet, In
<1>3. \A t : ~In(waiters'[c], t) /\ \A d \in Conds : d # c => waiters'[d] = waiters[d]
  BY <1>1 DEF In
<1>4. ASSUME NEW t \in Children PROVE place'[t] = p[t]
  <2>1. PlaceIs(t) /\ PlaceIs(t)'
    BY PlacesRead
  <2>2. t \in lost' <=> t \in lost \/ In(waiters[c], t)
    BY <1>1, <1>2
  <2>3. CASE In(waiters[c], t)
    <3>1. place[t] = c /\ place'[t] = "lost"
      BY <2>1, <2>2, <2>3 DEF PlaceIs
    <3> QED BY <3>1
  <2>4. CASE ~In(waiters[c], t)
    <3>1. place'[t] = place[t]
      BY <1>1, <1>3, <2>2, <2>4, StaysPut
    <3> QED BY <2>1, <2>4, <3>1 DEF PlaceIs
  <2> QED BY <2>3, <2>4
<1>5. p = [t \in Children |-> p[t]]
  OBVIOUS
<1> HIDE DEF p
<1>6. place' = p
  BY <1>4, <1>5, SamePlaces
<1> QED BY <1>6 DEF Lifecycle!Forget, p

LEMMA CondWaitRefines ==
  ASSUME IInv, PlacesOK, PlacesOK', NEW c \in Conds, NEW m \in Mutexes, CondWait(c, m)
  PROVE  place' = place \/ Lifecycle!Switch \/ Lifecycle!Park(c)
<1>1. UNCHANGED <<nextTid, exited, lost>>
  BY DEF CondWait, ghosts
<1>2. /\ active = NoActive => current = Main /\ active.id \notin Children
      /\ pending # <<>> => 1 \in DOMAIN pending
  BY ActiveFacts, EmptySeq, LenProperties DEF IInv, SchedOK, RunningMatches
<1>3. CASE WaitConsumes(c, m)
  <2>1. CASE UNCHANGED sched
    BY <1>1, <1>3, <2>1, StillRefines DEF WaitConsumes, sched
  <2>2. CASE active = NoActive /\ pending # <<>> /\ Dispatch(1, cpu, FALSE)
    BY <1>1, <1>2, <1>3, <2>2, DispatchRefines DEF WaitConsumes
  <2> QED BY <1>3, <2>1, <2>2 DEF WaitConsumes
<1>4. CASE WaitBlocksMain(c, m)
  <2> DEFINE e == [id |-> current, mutex |-> m, ctx |-> cpu]
  <2>1. /\ waiters' = [waiters EXCEPT ![c] = Append(@, e)] /\ e.id = Main
        /\ waiters \in [Conds -> Seq(MatchedWaiter)]
    BY <1>2, <1>4 DEF WaitBlocksMain, AddWaiter, IInv, WaitOK
  <2> HIDE DEF e
  <2>2. waiters[c] \in Seq(MatchedWaiter \cup {e}) /\ e \in MatchedWaiter \cup {e}
    <3>1. waiters[c] \in Seq(MatchedWaiter)
      BY <2>1
    <3> QED BY <3>1, SeqMonotonic
  <2>3. \A t : In(Append(waiters[c], e), t) <=> In(waiters[c], t) \/ t = e.id
    BY <2>2, AppendIds
  <2>4. \A t \in Children, d \in Conds : In(waiters'[d], t) <=> In(waiters[d], t)
    BY <2>1, <2>3 DEF Children
  <2> QED BY <1>1, <1>2, <1>4, <2>4, DispatchRefines DEF WaitBlocksMain
<1>5. CASE WaitBlocksActive(c, m)
  BY <1>1, <1>5, ParkRefines DEF WaitBlocksActive
<1>6. CASE WaitReturns(c, m)
  BY <1>1, <1>6, StillRefines DEF WaitReturns, sched
<1> QED BY <1>3, <1>4, <1>5, <1>6 DEF CondWait

LEMMA StepRefines ==
  IInv /\ PInv /\ PInv' /\ [Next]_vars => [Lifecycle!Next]_place
<1> SUFFICES ASSUME IInv, PInv, PInv', [Next]_vars
             PROVE  Lifecycle!Next \/ place' = place
  OBVIOUS
<1>0. PlacesOK /\ PlacesOK'
  BY DEF PInv
<1>1. CASE ThreadStep
  <2>1. CASE PthreadCreate
    BY <1>0, <2>1, CreateRefines DEF Lifecycle!Next
  <2>2. ASSUME NEW t \in Tids, PthreadJoin(t) PROVE Lifecycle!Next \/ place' = place
    <3>1. CASE UNCHANGED sched
      BY <1>0, <2>2, <3>1, StillRefines DEF PthreadJoin, sched
    <3>2. CASE active = NoActive /\ \E i \in DOMAIN pending : Dispatch(i, cpu, TRUE)
      <4>1. active.id \notin Children
        BY <3>2, ActiveFacts DEF IInv
      <4>2. PICK i \in DOMAIN pending : Dispatch(i, cpu, TRUE)
        BY <3>2
      <4>3. place' = place \/ Lifecycle!Switch
        BY <1>0, <2>2, <4>1, <4>2, DispatchRefines DEF PthreadJoin
      <4> QED BY <4>3 DEF Lifecycle!Next
    <3> QED BY <2>2, <3>1, <3>2 DEF PthreadJoin
  <2>3. ASSUME NEW t \in Tids, PthreadDetach(t) PROVE Lifecycle!Next \/ place' = place
    BY <1>0, <2>3, StillRefines DEF PthreadDetach, sched
  <2>4. CASE ThreadExit
    BY <1>0, <2>4, ExitRefines DEF Lifecycle!Next
  <2>5. CASE MainReturns \/ ExitWithoutActive \/ DoneAgain
    <3>1. cpu.tid = Main /\ \E saved : DoneAddr(saved)
      BY <2>5 DEF IInv, SchedOK, RunningMatches, MainReturns, ExitWithoutActive, DoneAgain
    <3> QED BY <1>0, <3>1, DoneRefines DEF Lifecycle!Next
  <2> QED BY <1>1, <2>1, <2>2, <2>3, <2>4, <2>5 DEF ThreadStep
<1>2. CASE SyncStep
  <2>1. ASSUME NEW m \in Mutexes, MutexInit(m) \/ MutexLock(m) \/ MutexUnlock(m)
        PROVE  Lifecycle!Next \/ place' = place
    BY <1>0, <2>1, StillRefines DEF MutexInit, MutexLock, MutexUnlock, SetOwner, sched, ghosts
  <2>2. ASSUME NEW c \in Conds, CondInit(c) PROVE Lifecycle!Next \/ place' = place
    BY <1>0, <2>2, ForgetRefines DEF Lifecycle!Next
  <2>3. ASSUME NEW c \in Conds, CondSignal(c) \/ CondBroadcast(c)
        PROVE  Lifecycle!Next \/ place' = place
    <3>1. InGuest /\ UNCHANGED <<nextTid, exited, lost>>
      BY <2>3 DEF CondSignal, CondBroadcast, ghosts
    <3>2. CASE StoreSignal(c)
      BY <1>0, <3>1, <3>2, YieldRefines DEF StoreSignal, Lifecycle!Next
    <3>3. CASE \E r : Woke(c, r)
      <4>1. \E woken \in SUBSET Children : Lifecycle!WakeAndSwitch(c, woken)
        BY <1>0, <3>1, <3>3, WakeRefines
      <4> QED BY <4>1 DEF Lifecycle!Next
    <3> QED BY <2>3, <3>2, <3>3, WakeFirstWakes, BroadcastWakes DEF CondSignal
  <2>4. ASSUME NEW c \in Conds, NEW m \in Mutexes, CondWait(c, m) \/ CondTimedWait(c, m)
        PROVE  Lifecycle!Next \/ place' = place
    <3>1. CASE CondTimedWait(c, m)
      BY <1>0, <3>1, StillRefines DEF CondTimedWait, sched, ghosts
    <3>2. CASE CondWait(c, m)
      BY <1>0, <3>2, CondWaitRefines DEF Lifecycle!Next
    <3> QED BY <2>4, <3>1, <3>2
  <2> QED BY <1>2, <2>1, <2>2, <2>3, <2>4 DEF SyncStep
<1>3. CASE DelayYield
  <2>1. place' = place \/ Lifecycle!Switch
    BY <1>0, <1>3, YieldRefines DEF DelayYield, ghosts
  <2> QED BY <2>1 DEF Lifecycle!Next
<1>4. CASE UNCHANGED vars
  BY <1>0, <1>4, StillRefines DEF vars
<1> QED BY <1>1, <1>2, <1>3, <1>4 DEF Next

LEMMA InitRefines == Init => Lifecycle!Init
<1> SUFFICES ASSUME Init PROVE Lifecycle!Init
  OBVIOUS
<1>1. PlacesOK
  BY InitPlaces DEF PInv
<1>2. \A t \in Children : ~(t < nextTid)
  BY ConstantsAssumption DEF Init, Children, Tids, Main
<1>3. \A t \in Children : place[t] = "unborn"
  BY <1>1, <1>2, PlacesRead DEF PlaceIs
<1> QED BY <1>3, PlacesAreFunctions DEF Lifecycle!Init

\* The scheduler implements the life cycle of ThreadLifecycle: however its queues, its
\* active slot and its parents are juggled, a thread is born once, waits until its
\* condition is woken, and shares the CPU with nobody.
THEOREM ThreadsHaveALifecycle == Spec => ImplementsLifecycle
<1>1. Init => Lifecycle!Init
  BY InitRefines
<1>2. IInv /\ PInv /\ PInv' /\ [Next]_vars => [Lifecycle!Next]_place
  BY StepRefines
<1> QED BY <1>1, <1>2, PlacesInvariant, PTL DEF Spec, ImplementsLifecycle, Lifecycle!Spec
-------------------------------------------------------------------------------
(***************************************************************************)
(* The delay hooks.  A rescue is a chain of wakes before one switch: what  *)
(* is true of the queues between two wakes (RescueOK, next to the queues   *)
(* the rescue found) is kept by each wake, and so by any number of them.   *)
(***************************************************************************)

\* t is queued on the condition c of r with the mutex m.
StillWaits(r, c, m, t) == \E w \in ToSet(r.waiters[c]) : w.id = t /\ w.mutex = m

RescueTypes(r) ==
  r \in [ready : Seq(MatchedEntry), waiters : [Conds -> Seq(MatchedWaiter)],
         owner : [Mutexes -> 0..(MaxThreads + 1)]]
\* A waiter the rescue found is still queued, in one place, or ready.
RescuePlaced(r) ==
  /\ Once(r.ready)
  /\ \A c \in Conds : /\ Once(r.waiters[c])
                      /\ ToSet(r.waiters[c]) \subseteq ToSet(waiters[c])
  /\ \A t \in Children :
       /\ In(r.ready, t) => /\ \E c \in Conds : In(waiters[c], t)
                            /\ \A c \in Conds : ~In(r.waiters[c], t)
       /\ \A c \in Conds : In(waiters[c], t) => In(r.ready, t) \/ In(r.waiters[c], t)
RescueCounted(r) ==
  /\ IsFiniteSet(MainWaits(r.waiters))
  /\ Cardinality(MainWaits(r.waiters)) + Cardinality(MainIn(r.ready))
       <= Cardinality(MainWaits(waiters))
RescueHanded(r) ==
  \A c \in Conds, m \in Mutexes, t \in Children :
    (Waits(c, m, t) /\ ~StillWaits(r, c, m, t)) =>
      \E u \in Tids, d \in Conds : /\ r.owner[m] = u /\ Waits(d, m, u)
                                   /\ u # Main => ~StillWaits(r, d, m, u)
RescueOK(r) == RescueTypes(r) /\ RescuePlaced(r) /\ RescueCounted(r) /\ RescueHanded(r)

Found == [ready |-> pending, waiters |-> waiters, owner |-> owner]

LEMMA NothingIn == /\ \A t : ~In(<<>>, t)
                   /\ Once(<<>>) /\ Cardinality(MainIn(<<>>)) = 0
<1>1. DOMAIN <<>> = {}
  OBVIOUS
<1>2. MainIn(<<>>) = {}
  BY <1>1 DEF MainIn
<1> QED BY <1>1, <1>2, FS_EmptySet DEF In, Once

LEMMA FoundOK == ASSUME IInv, PInv, pending = <<>> PROVE RescueOK(Found)
<1>1. Found.ready = <<>> /\ Found.waiters = waiters /\ Found.owner = owner
  BY DEF Found
<1>2. RescueTypes(Found)
  BY EmptySeq DEF RescueTypes, Found, IInv, SchedOK, WaitOK, RestOK
<1>3. RescuePlaced(Found)
  BY <1>1, NothingIn DEF RescuePlaced, PInv, PlacesOK
<1>4. RescueCounted(Found)
  <2>1. IsFiniteSet(MainWaits(waiters))
    BY DEF PInv, CountOK
  <2>2. Cardinality(MainWaits(waiters)) \in Nat
    BY <2>1, FS_CardinalityType
  <2> QED BY <1>1, <2>1, <2>2, NothingIn DEF RescueCounted
<1>5. RescueHanded(Found)
  BY <1>1 DEF RescueHanded, StillWaits, Waits
<1> QED BY <1>2, <1>3, <1>4, <1>5 DEF RescueOK

\* A queue is its first entry and its rest.
LEMMA HeadAndTail ==
  ASSUME NEW S, NEW q \in Seq(S), q # <<>>
  PROVE  /\ Head(q) \in S /\ Tail(q) \in Seq(S) /\ Without(Tail(q), q, 1)
         /\ 1 \in DOMAIN q /\ Head(q) = q[1]
         /\ ToSet(q) = {Head(q)} \cup ToSet(Tail(q))
<1>1. /\ Len(q) \in Nat /\ DOMAIN q = 1..Len(q) /\ Len(q) > 0 /\ Head(q) = q[1]
      /\ DOMAIN Tail(q) = 1..(Len(q) - 1) /\ \A i \in 1..(Len(q) - 1) : Tail(q)[i] = q[i + 1]
  BY HeadTailProperties, LenProperties, EmptySeq
<1>2. \A i \in 1..Len(q) : i # 1 => i - 1 \in 1..(Len(q) - 1) /\ (i - 1) + 1 = i
  BY <1>1
<1>3. \A i \in 1..(Len(q) - 1) : i + 1 \in 1..Len(q)
  BY <1>1
<1>4. ASSUME NEW w \in ToSet(q) PROVE w \in {Head(q)} \cup ToSet(Tail(q))
  <2>1. PICK i \in 1..Len(q) : w = q[i]
    BY <1>1 DEF ToSet
  <2>2. CASE i = 1
    BY <1>1, <2>1, <2>2
  <2>3. CASE i # 1
    <3>1. i - 1 \in DOMAIN Tail(q) /\ Tail(q)[i - 1] = w
      BY <1>1, <1>2, <2>1, <2>3
    <3> QED BY <3>1 DEF ToSet
  <2> QED BY <2>2, <2>3
<1>5. ASSUME NEW w \in ToSet(Tail(q)) PROVE w \in ToSet(q)
  BY <1>1, <1>3 DEF ToSet
<1>6. Head(q) \in ToSet(q)
  BY <1>1 DEF ToSet
<1> QED BY <1>4, <1>5, <1>6, HeadTailProperties, TailIsWithout

\* One wake of a rescue.
LEMMA WokenFromOK ==
  ASSUME PInv, NEW r, RescueOK(r), NEW c \in Conds, r.waiters[c] # <<>>
  PROVE  RescueOK(WokenFrom(r, c))
<1> DEFINE q == r.waiters[c]
           h == Head(q)
           e == AsEntry(h)
           s == WokenFrom(r, c)
<1>1. /\ q \in Seq(MatchedWaiter) /\ r.ready \in Seq(MatchedEntry)
      /\ r.waiters \in [Conds -> Seq(MatchedWaiter)]
      /\ r.owner \in [Mutexes -> 0..(MaxThreads + 1)]
  BY DEF RescueOK, RescueTypes
<1>2. /\ h \in MatchedWaiter /\ Tail(q) \in Seq(MatchedWaiter) /\ Without(Tail(q), q, 1)
      /\ 1 \in DOMAIN q /\ h = q[1] /\ ToSet(q) = {h} \cup ToSet(Tail(q))
  BY <1>1, HeadAndTail
<1>3. e \in MatchedEntry /\ e.id = h.id /\ h.mutex \in Mutexes /\ h.id \in Tids
  BY <1>2, EntryOfWaiter DEF AsEntry, MatchedWaiter, Waiter
<1>4. /\ s.ready = <<e>> \o r.ready
      /\ s.waiters = [r.waiters EXCEPT ![c] = Tail(@)]
      /\ s.owner = [r.owner EXCEPT ![h.mutex] = h.id]
      /\ s = [ready |-> s.ready, waiters |-> s.waiters, owner |-> s.owner]
  BY DEF WokenFrom
<1> HIDE DEF s, e, h
<1>5. s.waiters[c] = Tail(q) /\ \A d \in Conds : d # c => s.waiters[d] = r.waiters[d]
  BY <1>1, <1>4
<1>6. <<e>> \in Seq(MatchedEntry) /\ s.ready \in Seq(MatchedEntry)
  <2>1. <<e>> \in Seq(MatchedEntry)
    BY <1>3
  <2> QED BY <1>1, <1>4, <2>1, ConcatProperties
<1>7. RescueTypes(s)
  <2>1. s.waiters \in [Conds -> Seq(MatchedWaiter)]
    BY <1>1, <1>2, <1>4
  <2>2. s.owner \in [Mutexes -> 0..(MaxThreads + 1)]
    BY <1>1, <1>3, <1>4, TidFacts
  <2> QED BY <1>4, <1>6, <2>1, <2>2 DEF RescueTypes
<1>8. /\ \A t : In(s.ready, t) <=> t = h.id \/ In(r.ready, t)
      /\ (Once(r.ready) /\ (h.id # Main => ~In(r.ready, h.id))) => Once(s.ready)
      /\ Cardinality(MainIn(s.ready)) <= One(h.id = Main) + Cardinality(MainIn(r.ready))
  <2>1. /\ \A t : In(<<e>>, t) <=> t = e.id
        /\ Once(<<e>>) /\ Cardinality(MainIn(<<e>>)) = One(e.id = Main)
    BY SingleIds
  <2>2. /\ \A t : In(<<e>> \o r.ready, t) <=> In(<<e>>, t) \/ In(r.ready, t)
        /\ Once(<<e>>) /\ Once(r.ready) /\ (\A t : t # Main => ~(In(<<e>>, t) /\ In(r.ready, t)))
             => Once(<<e>> \o r.ready)
        /\ Cardinality(MainIn(<<e>> \o r.ready))
             <= Cardinality(MainIn(<<e>>)) + Cardinality(MainIn(r.ready))
    BY <1>1, <1>6, ConcatIds
  <2> QED BY <1>3, <1>4, <2>1, <2>2
<1>9. /\ Once(Tail(q))
      /\ \A t : t # Main => (In(Tail(q), t) <=> In(q, t) /\ t # h.id)
  <2>1. Once(q)
    BY DEF RescueOK, RescuePlaced
  <2> DEFINE q2 == Tail(q)
  <2>2. q2 \in Seq(MatchedWaiter) /\ Without(q2, q, 1) /\ q \in Seq(MatchedWaiter) /\ 1 \in DOMAIN q
    BY <1>1, <1>2
  <2> HIDE DEF q, q2
  <2>3. /\ Once(q) => Once(q2)
        /\ Once(q) => \A t : t # Main => (In(q2, t) <=> In(q, t) /\ t # q[1].id)
    BY <2>2, WithoutIds
  <2> QED BY <1>2, <2>1, <2>3 DEF q2
<1>10. In(q, h.id)
  BY <1>2 DEF In
<1>11. ASSUME NEW d \in Conds, NEW t, In(r.waiters[d], t) PROVE In(waiters[d], t)
  <2>1. \E w \in ToSet(r.waiters[d]) : w.id = t
    BY <1>11 DEF In, ToSet
  <2>2. ToSet(r.waiters[d]) \subseteq ToSet(waiters[d])
    BY DEF RescueOK, RescuePlaced
  <2> QED BY <2>1, <2>2 DEF In, ToSet
<1>12. h.id # Main => h.id \in Children
  BY <1>3 DEF Children
\* Where the other threads are, and what the rescue has to prove of them.
<1>13. /\ \A d \in Conds : /\ Once(r.waiters[d])
                           /\ ToSet(r.waiters[d]) \subseteq ToSet(waiters[d])
       /\ Once(r.ready)
       /\ \A t \in Children : /\ In(r.ready, t) => /\ \E d \in Conds : In(waiters[d], t)
                                                   /\ \A d \in Conds : ~In(r.waiters[d], t)
                              /\ \A d \in Conds : In(waiters[d], t) => In(r.ready, t) \/ In(r.waiters[d], t)
  BY DEF RescueOK, RescuePlaced
<1>14. ASSUME NEW d \in Conds, NEW t \in Children
       PROVE  In(s.waiters[d], t) <=> In(r.waiters[d], t) /\ ~(d = c /\ t = h.id)
  BY <1>5, <1>9 DEF Children
<1>15. RescuePlaced(s)
  <2>1. Once(s.ready)
    BY <1>8, <1>10, <1>12, <1>13
  <2>2. \A d \in Conds : Once(s.waiters[d]) /\ ToSet(s.waiters[d]) \subseteq ToSet(waiters[d])
    BY <1>2, <1>5, <1>9, <1>13
  <2>3. ASSUME NEW t \in Children, In(s.ready, t)
        PROVE  (\E d \in Conds : In(waiters[d], t)) /\ \A d \in Conds : ~In(s.waiters[d], t)
    <3>1. CASE In(r.ready, t)
      BY <1>13, <1>14, <3>1
    <3>2. CASE t = h.id
      <4>1. In(waiters[c], t)
        BY <1>10, <1>11, <3>2
      <4>2. ASSUME NEW d \in Conds, In(s.waiters[d], t) PROVE FALSE
        <5>1. In(r.waiters[d], t) /\ d # c
          BY <1>14, <3>2, <4>2
        <5>2. In(waiters[d], t)
          BY <1>11, <5>1
        <5> QED BY <4>1, <5>1, <5>2 DEF PInv, PlacesOK, Placed
      <4> QED BY <4>1, <4>2
    <3> QED BY <1>8, <2>3, <3>1, <3>2
  <2>4. ASSUME NEW t \in Children, NEW d \in Conds, In(waiters[d], t)
        PROVE  In(s.ready, t) \/ In(s.waiters[d], t)
    BY <1>8, <1>13, <1>14, <2>4
  <2> QED BY <2>1, <2>2, <2>3, <2>4 DEF RescuePlaced
<1>16. RescueCounted(s)
  <2>1. /\ IsFiniteSet(MainWaits(r.waiters))
        /\ Cardinality(MainWaits(r.waiters)) + Cardinality(MainIn(r.ready))
             <= Cardinality(MainWaits(waiters))
    BY DEF RescueOK, RescueCounted
  <2>2. /\ IsFiniteSet(MainWaits(s.waiters))
        /\ Cardinality(MainWaits(s.waiters)) + One(h.id = Main) <= Cardinality(MainWaits(r.waiters))
    BY <1>1, <1>4, <2>1, WaitsTaken DEF h
  <2>3. /\ Cardinality(MainWaits(s.waiters)) \in Nat /\ Cardinality(MainWaits(r.waiters)) \in Nat
        /\ Cardinality(MainIn(s.ready)) \in Nat /\ Cardinality(MainIn(r.ready)) \in Nat
        /\ Cardinality(MainWaits(waiters)) \in Nat /\ One(h.id = Main) \in Nat
    BY <1>1, <1>6, <2>1, <2>2, FS_CardinalityType, MainCounted DEF PInv, CountOK, One
  <2> QED BY <1>8, <2>1, <2>2, <2>3, SMTT(30) DEF RescueCounted
<1>17. RescueHanded(s)
  <2>1. ASSUME NEW d \in Conds, NEW m \in Mutexes, NEW t, m # h.mutex
        PROVE  StillWaits(s, d, m, t) <=> StillWaits(r, d, m, t)
    BY <1>2, <1>5, <2>1 DEF StillWaits
  <2>2. ASSUME NEW d \in Conds, NEW m \in Mutexes, NEW t, StillWaits(s, d, m, t)
        PROVE  StillWaits(r, d, m, t)
    BY <1>2, <1>5, <2>2 DEF StillWaits
  <2> SUFFICES ASSUME NEW d \in Conds, NEW m \in Mutexes, NEW t \in Children,
                      Waits(d, m, t), ~StillWaits(s, d, m, t)
               PROVE  \E u \in Tids, b \in Conds :
                        /\ s.owner[m] = u /\ Waits(b, m, u)
                        /\ u # Main => ~StillWaits(s, b, m, u)
    BY DEF RescueHanded
  <2>3. CASE m # h.mutex
    <3>1. s.owner[m] = r.owner[m]
      BY <1>1, <1>4, <2>3
    <3>2. ~StillWaits(r, d, m, t)
      BY <2>1, <2>3
    <3>3. PICK u \in Tids, b \in Conds : /\ r.owner[m] = u /\ Waits(b, m, u)
                                         /\ u # Main => ~StillWaits(r, b, m, u)
      BY <3>2 DEF RescueOK, RescueHanded
    <3> QED BY <2>2, <3>1, <3>3
  <2>4. CASE m = h.mutex
    <3>1. s.owner[m] = h.id
      BY <1>1, <1>4, <2>4
    <3>2. Waits(c, m, h.id)
      BY <1>2, <1>13, <2>4 DEF Waits
    <3>3. h.id # Main => ~StillWaits(s, c, m, h.id)
      <4>1. h.id # Main => ~In(Tail(q), h.id)
        BY <1>9
      <4> QED BY <1>5, <4>1 DEF StillWaits, ToSet, In
    <3> QED BY <1>3, <3>1, <3>2, <3>3
  <2> QED BY <2>3, <2>4
<1> QED BY <1>7, <1>15, <1>16, <1>17 DEF RescueOK, s

\* The number of wakes done so far has a least value among those that break something.
LEMMA LeastNumber ==
  ASSUME NEW T, T \subseteq Nat, T # {}
  PROVE  \E n \in T : \A m \in T : n <= m
<1> DEFINE R == OpToRel(<, Nat)
<1>1. \A x, y \in T : <<y, x>> \in R <=> y < x
  BY LessThan
<1>2. IsWellFoundedOn(R, Nat)
  BY NatLessThanWellFounded
<1> HIDE DEF R
<1>3. PICK n \in T : \A m \in T : ~(<<m, n>> \in R)
  BY <1>2, WFMin
<1>4. \A m \in T : ~(m < n) /\ m \in Nat /\ n \in Nat
  BY <1>1, <1>3
<1> QED BY <1>3, <1>4

\* One turn on every state the turns so far may have led to.
Turn(S) == UNION {WokenOnce(r) : r \in S}
TurnsTo(f, k) == f = [n \in 0..k |-> IF n = 0 THEN {Found} ELSE Turn(f[n - 1])]

\* The turns up to any number of them are defined.
LEMMA TurnsExist == ASSUME NEW k \in Nat PROVE \E f : TurnsTo(f, k)
<1> DEFINE T == {j \in Nat : ~\E f : TurnsTo(f, j)}
<1> SUFFICES T = {}
  OBVIOUS
<1>1. SUFFICES ASSUME T # {} PROVE FALSE
  OBVIOUS
<1>2. PICK n \in T : \A m \in T : n <= m
  BY <1>1, LeastNumber
<1>3. n \in Nat /\ ~\E f : TurnsTo(f, n)
  OBVIOUS
<1>4. CASE n = 0
  <2> DEFINE f == [i \in 0..0 |-> {Found}]
  <2>1. f = [i \in 0..0 |-> IF i = 0 THEN {Found} ELSE Turn(f[i - 1])]
    OBVIOUS
  <2> QED BY <1>3, <1>4, <2>1 DEF TurnsTo
<1>5. CASE n # 0
  <2>1. n - 1 \in Nat /\ n - 1 \notin T
    BY <1>2, <1>3, <1>5
  <2>2. PICK g : TurnsTo(g, n - 1)
    BY <2>1
  <2>3. /\ DOMAIN g = 0..(n - 1)
        /\ \A i \in 0..(n - 1) : g[i] = IF i = 0 THEN {Found} ELSE Turn(g[i - 1])
    BY <2>2 DEF TurnsTo
  <2> DEFINE f == [i \in 0..n |-> IF i = n THEN Turn(g[n - 1]) ELSE g[i]]
  <2>4. ASSUME NEW i \in 0..n PROVE f[i] = IF i = 0 THEN {Found} ELSE Turn(f[i - 1])
    <3>1. CASE i = 0
      <4>1. f[i] = g[i] /\ i \in 0..(n - 1)
        BY <1>3, <1>5, <3>1
      <4> QED BY <2>3, <3>1, <4>1
    <3>2. CASE i # 0
      <4>1. i - 1 \in 0..n /\ i - 1 # n /\ f[i - 1] = g[i - 1]
        BY <1>3, <3>2
      <4>2. CASE i = n
        BY <3>2, <4>1, <4>2
      <4>3. CASE i # n
        <5>1. i \in 0..(n - 1) /\ f[i] = g[i]
          BY <1>3, <4>3
        <5> QED BY <2>3, <3>2, <4>1, <5>1
      <4> QED BY <4>2, <4>3
    <3> QED BY <3>1, <3>2
  <2>5. f = [i \in 0..n |-> f[i]]
    OBVIOUS
  <2> HIDE DEF f
  <2>6. f = [i \in 0..n |-> IF i = 0 THEN {Found} ELSE Turn(f[i - 1])]
    BY <2>4, <2>5
  <2> QED BY <1>3, <2>6 DEF TurnsTo
<1> QED BY <1>4, <1>5

LEMMA WokenIsTurns == TurnsTo(Woken, RescueLimit)
<1>1. RescueLimit \in Nat
  BY DelayAssumption
<1>2. \E f : TurnsTo(f, RescueLimit)
  BY <1>1, TurnsExist
<1>3. Woken = CHOOSE f : TurnsTo(f, RescueLimit)
  BY DEF Woken, TurnsTo, Turn, Found
<1> QED BY <1>2, <1>3

\* So whatever a rescue leads to is sound.
LEMMA WokenOK ==
  ASSUME IInv, PInv, pending = <<>>, NEW r \in Woken[RescueLimit]
  PROVE  RescueOK(r)
<1>1. RescueLimit \in Nat
  BY DelayAssumption
<1>2. \A n \in 0..RescueLimit : Woken[n] = IF n = 0 THEN {Found} ELSE Turn(Woken[n - 1])
  BY WokenIsTurns DEF TurnsTo
<1> DEFINE T == {n \in 0..RescueLimit : \E s \in Woken[n] : ~RescueOK(s)}
<1>3. ASSUME T # {} PROVE FALSE
  <2>1. T \subseteq Nat
    OBVIOUS
  <2>2. PICK n \in T : \A m \in T : n <= m
    BY <1>3, <2>1, LeastNumber
  <2>3. n \in 0..RescueLimit
    OBVIOUS
  <2>4. PICK s \in Woken[n] : ~RescueOK(s)
    OBVIOUS
  <2>5. CASE n = 0
    BY <1>2, <2>3, <2>4, <2>5, FoundOK
  <2>6. CASE n # 0
    <3>1. n - 1 \in 0..RescueLimit /\ n - 1 \notin T
      BY <1>1, <2>2, <2>3, <2>6
    <3>2. PICK p \in Woken[n - 1] : s \in WokenOnce(p)
      <4>1. Woken[n] = Turn(Woken[n - 1])
        BY <1>2, <2>3, <2>6
      <4>2. s \in UNION {WokenOnce(p) : p \in Woken[n - 1]}
        BY <2>4, <4>1 DEF Turn
      <4> QED BY <4>2
    <3>3. RescueOK(p)
      BY <3>1, <3>2
    <3>4. s = p \/ \E c \in Conds : p.waiters[c] # <<>> /\ s = WokenFrom(p, c)
      BY <3>2 DEF WokenOnce
    <3> QED BY <2>4, <3>3, <3>4, WokenFromOK
  <2> QED BY <2>5, <2>6
<1> QED BY <1>1, <1>3

\* The rescue itself: the waker gives way to the woken ones.
LEMMA RescueStep ==
  ASSUME IInv, PInv, InGuest, pending = <<>>, NEW r, RescueOK(r),
         waiters' = r.waiters, owner' = r.owner, Yield(r.ready),
         UNCHANGED <<nextTid, signals, completed, stopped, ghosts>>
  PROVE  IInv' /\ PInv' /\ RescueHandsOver
<1>1. /\ r.ready \in Seq(MatchedEntry) /\ r.waiters \in [Conds -> Seq(MatchedWaiter)]
      /\ r.owner \in [Mutexes -> 0..(MaxThreads + 1)]
  BY DEF RescueOK, RescueTypes
<1>2. /\ \A d \in Conds : /\ Once(r.waiters[d])
                          /\ ToSet(r.waiters[d]) \subseteq ToSet(waiters[d])
      /\ Once(r.ready)
      /\ \A t \in Children : /\ In(r.ready, t) => /\ \E d \in Conds : In(waiters[d], t)
                                                  /\ \A d \in Conds : ~In(r.waiters[d], t)
                             /\ \A d \in Conds : In(waiters[d], t) => In(r.ready, t) \/ In(r.waiters[d], t)
  BY DEF RescueOK, RescuePlaced
<1>3. ASSUME NEW t, NEW d \in Conds, In(r.waiters[d], t) PROVE In(waiters[d], t)
  <2>1. \E w \in ToSet(r.waiters[d]) : w.id = t
    BY <1>3 DEF In, ToSet
  <2>2. ToSet(r.waiters[d]) \subseteq ToSet(waiters[d])
    BY <1>2
  <2> QED BY <2>1, <2>2 DEF In, ToSet
<1>4. IInv'
  <2>1. SchedOK'
    BY <1>1, YieldKeeps DEF IInv, InGuest
  <2>2. \A d \in Conds : waiters[d] = <<>> => r.waiters[d] = <<>>
    <3> SUFFICES ASSUME NEW d \in Conds, waiters[d] = <<>>, r.waiters[d] # <<>> PROVE FALSE
      OBVIOUS
    <3>1. r.waiters[d] \in Seq(MatchedWaiter)
      BY <1>1
    <3>2. Head(r.waiters[d]) \in ToSet(r.waiters[d])
      BY <3>1, HeadAndTail
    <3>3. ToSet(<<>>) = {}
      BY DEF ToSet
    <3> QED BY <1>2, <3>2, <3>3
  <2>3. WaitOK'
    BY <1>1, <2>2 DEF IInv, WaitOK, NoLostWakeup
  <2>4. RestOK'
    BY <1>1, OwnerKeeps DEF IInv
  <2> QED BY <2>1, <2>3, <2>4 DEF IInv
<1>5. /\ \A t \in Children : Placed(t)
      /\ \A d \in Conds : Once(waiters[d])
      /\ CountOK /\ IsFiniteSet(MainWaits(waiters))
  BY DEF PInv, PlacesOK, CountOK
<1>6. active.id \in Children => ~In(r.ready, active.id)
  BY <1>2, <1>5 DEF Placed, Up
<1>7. /\ Once(pending)'
      /\ \A t \in Children : /\ Up(t)' <=> In(r.ready, t) \/ active.id = t
                             /\ ~(In(pending, t) /\ active.id = t)'
      /\ Saved' <= Cardinality(MainIn(r.ready)) + One(active.id = Main) /\ Saved' \in Nat
      /\ active' = NoActive <=> active = NoActive
  BY <1>1, <1>2, <1>4, <1>6, YieldEffect DEF IInv, InGuest
<1>8. PlacesOK'
  <2>1. ASSUME NEW t \in Children PROVE Placed(t)'
    <3>1. /\ Up(t) <=> active.id = t
          /\ Up(t)' <=> In(r.ready, t) \/ active.id = t
          /\ ~(In(pending, t) /\ active.id = t)'
          /\ \A d \in Conds : In(waiters'[d], t) => In(waiters[d], t)
          /\ \A d \in Conds : In(waiters[d], t) => In(r.ready, t) \/ In(waiters'[d], t)
          /\ In(r.ready, t) => /\ \E d \in Conds : In(waiters[d], t)
                               /\ \A d \in Conds : ~In(waiters'[d], t)
      BY <1>2, <1>3, <1>7, NothingIn DEF Up
    <3>2. Placed(t)
      BY <1>5
    <3> HIDE DEF Up
    <3> QED BY <3>1, <3>2 DEF Placed, ghosts
  <2> QED BY <1>2, <1>7, <2>1 DEF PlacesOK
<1>9. CountOK'
  <2>1. /\ IsFiniteSet(MainWaits(waiters'))
        /\ Cardinality(MainWaits(waiters')) + Cardinality(MainIn(r.ready))
             <= Cardinality(MainWaits(waiters))
    BY DEF RescueOK, RescueCounted
  <2>2. /\ Cardinality(MainWaits(waiters)) \in Nat /\ Cardinality(MainWaits(waiters')) \in Nat
        /\ Cardinality(exited \ {Main}) \in Nat /\ Cardinality(MainIn(r.ready)) \in Nat
    BY <1>1, <1>5, <2>1, Finite, FS_CardinalityType, MainCounted DEF IInv
  <2>3. Saved = One(active.id = Main) /\ One(active.id = Main) \in Nat
    BY NothingIn DEF Saved, One
  <2>4. Saved + Cardinality(MainWaits(waiters)) <= Cardinality(exited \ {Main}) + One(Busy)
    BY DEF PInv, CountOK
  <2>5. Busy' <=> Busy
    BY <1>7 DEF Busy
  <2>6. One(Busy)' = One(Busy) /\ One(Busy) \in Nat
    BY <2>5 DEF One
  <2>7. Saved' + Cardinality(MainWaits(waiters')) <= Cardinality(exited \ {Main}) + One(Busy)
    BY <1>7, <2>1, <2>2, <2>3, <2>4, <2>6, SMTT(30)
  <2>8. exited' = exited
    BY DEF ghosts
  <2> QED BY <2>1, <2>6, <2>7, <2>8 DEF CountOK
<1>10. StopOK' /\ ResultDeliveredOnce'
  BY QuietKept DEF PInv, InGuest, ghosts
<1>11. RescueHandsOver
  <2>1. \A t : \A d \in Conds, m \in Mutexes : Waits(d, m, t)' <=> StillWaits(r, d, m, t)
    BY DEF Waits, StillWaits
  <2>2. RescueHanded(r)
    BY DEF RescueOK
  <2> QED BY <2>1, <2>2 DEF RescueHandsOver, RescueHanded
<1> QED BY <1>4, <1>8, <1>9, <1>10, <1>11 DEF PInv

\* The invariant of a run with delay hooks: the one of the scheduler, until an idle
\* stop ends the run.
DInv ==
  /\ IInv /\ IdleStopStrandsOnlyWaiters
  /\ \/ ~idleStop /\ PInv
     \/ idleStop /\ stopped

\* Who is neither ready nor running when nothing is ready.
LEMMA IdleStrands ==
  ASSUME IInv, PInv, pending = <<>>, NEW t \in Children, t < nextTid
  PROVE  \/ t \in exited \cup lost \/ active.id = t
         \/ \E c \in Conds : signals[c] = 0 /\ Holds(c, t)
<1> SUFFICES ASSUME t \notin exited \cup lost, active.id # t
             PROVE  \E c \in Conds : signals[c] = 0 /\ Holds(c, t)
  OBVIOUS
<1>1. ~Up(t)
  BY NothingIn DEF Up
<1>2. PICK c \in Conds : In(waiters[c], t)
  BY <1>1 DEF PInv, PlacesOK, Placed
<1>3. waiters[c] # <<>>
  BY <1>2, NothingIn
<1>4. signals[c] = 0
  BY <1>3, ConstantsAssumption DEF IInv, WaitOK, NoLostWakeup
<1> QED BY <1>2, <1>4, HoldsIsIn

LEMMA SleepOK ==
  ASSUME DInv, ~idleStop, NEW seconds, Sleep(seconds)
  PROVE  DInv' /\ RescueHandsOver
<1>1. IInv /\ PInv /\ InGuest /\ UNCHANGED <<nextTid, waiters, signals, owner, completed, ghosts>>
  BY DEF DInv, Sleep, Delays
<1>2. RescueHandsOver
  BY <1>1 DEF RescueHandsOver, Waits
<1>3. CASE Yield(pending) /\ UNCHANGED <<stopped, idleStop>>
  <2>1. SchedOK'
    BY <1>1, <1>3, YieldKeeps DEF IInv, SchedOK, InGuest
  <2>2. WaitOK'
    BY <1>1, UnchangedWait DEF IInv
  <2>3. RestOK'
    BY <1>1, <1>3 DEF IInv, RestOK, ghosts
  <2>4. PlacesOK' /\ CountOK'
    BY <1>1, <1>3, <2>1, YieldStep DEF PInv, ghosts
  <2>5. StopOK' /\ ResultDeliveredOnce'
    BY <1>1, <1>3, QuietKept DEF PInv, InGuest, ghosts
  <2> QED BY <1>2, <1>3, <2>1, <2>2, <2>3, <2>4, <2>5 DEF DInv, IInv, PInv, IdleStopStrandsOnlyWaiters
<1>4. CASE UNCHANGED sched /\ stopped' = SleepStops(seconds) /\ idleStop' = SleepStops(seconds)
  <2>1. SchedOK' /\ WaitOK'
    BY <1>1, <1>4, UnchangedSched, UnchangedWait DEF IInv
  <2>2. CASE SleepStops(seconds)
    <3>1. stopped' = TRUE /\ idleStop' = TRUE /\ pending = <<>>
      BY <1>4, <2>2, Zenon DEF SleepStops
    <3>2. RestOK'
      BY <1>1, <3>1 DEF IInv, RestOK, ghosts
    <3>3. IdleStopStrandsOnlyWaiters'
      BY <1>1, <1>4, <3>1, IdleStrands DEF IdleStopStrandsOnlyWaiters, Holds, sched, ghosts
    <3> QED BY <1>2, <2>1, <3>1, <3>2, <3>3 DEF DInv, IInv
  <2>3. CASE ~SleepStops(seconds)
    <3>1. stopped' = FALSE /\ idleStop' = FALSE
      BY <1>4, <2>3, Zenon DEF SleepStops
    <3>2. stopped = FALSE
      BY <1>1 DEF InGuest, IInv, RestOK
    <3>3. UNCHANGED vars
      BY <1>1, <1>4, <3>1, <3>2 DEF vars, sched, ghosts
    <3>4. IInv' /\ PInv'
      BY <1>1, <3>3, StutterOK, StepPlaces
    <3> QED BY <1>2, <3>1, <3>4 DEF DInv, IdleStopStrandsOnlyWaiters
  <2> QED BY <2>2, <2>3
<1> QED BY <1>3, <1>4 DEF Sleep

LEMMA UsleepOK ==
  ASSUME DInv, ~idleStop, Usleep
  PROVE  DInv' /\ RescueHandsOver
<1>1. /\ IInv /\ PInv /\ InGuest
      /\ UNCHANGED <<nextTid, signals, completed, stopped, ghosts, idleStop>>
  BY DEF DInv, Usleep, Delays
<1>2. SUFFICES IInv' /\ PInv' /\ RescueHandsOver
  BY <1>1, <1>2 DEF DInv, IdleStopStrandsOnlyWaiters
<1>3. CASE Yield(pending) /\ UNCHANGED <<waiters, owner>>
  <2>1. SchedOK'
    BY <1>1, <1>3, YieldKeeps DEF IInv, SchedOK, InGuest
  <2>2. WaitOK'
    BY <1>1, <1>3, UnchangedWait DEF IInv
  <2>3. RestOK'
    BY <1>1, <1>3 DEF IInv, RestOK, ghosts
  <2>4. PlacesOK' /\ CountOK'
    BY <1>1, <1>3, <2>1, YieldStep DEF PInv, ghosts
  <2>5. StopOK' /\ ResultDeliveredOnce'
    BY <1>1, <1>3, QuietKept DEF PInv, InGuest, ghosts
  <2>6. RescueHandsOver
    BY <1>3 DEF RescueHandsOver, Waits
  <2> QED BY <2>1, <2>2, <2>3, <2>4, <2>5, <2>6 DEF IInv, PInv
<1>4. CASE /\ Rescues
           /\ \E r \in Woken[RescueLimit] : waiters' = r.waiters /\ owner' = r.owner /\ Yield(r.ready)
  <2>1. pending = <<>>
    BY <1>4 DEF Rescues
  <2>2. PICK r \in Woken[RescueLimit] : waiters' = r.waiters /\ owner' = r.owner /\ Yield(r.ready)
    BY <1>4
  <2>3. RescueOK(r)
    BY <1>1, <2>1, WokenOK
  <2> QED BY <1>1, <2>1, <2>2, <2>3, RescueStep
<1>5. CASE UNCHANGED <<sched, waiters, owner>>
  <2>1. UNCHANGED vars
    BY <1>1, <1>5 DEF vars, sched, ghosts
  <2>2. IInv' /\ PInv'
    BY <1>1, <2>1, StutterOK, StepPlaces
  <2> QED BY <1>5, <2>2 DEF RescueHandsOver, Waits
<1> QED BY <1>3, <1>4, <1>5 DEF Usleep

\* A wake of one condition is a special case of a rescue.
LEMMA WakesRescue == WakeHandsOver => RescueHandsOver
BY DEF WakeHandsOver, RescueHandsOver

LEMMA OtherHookOK ==
  ASSUME DInv, ~idleStop, OtherHook
  PROVE  DInv' /\ RescueHandsOver
<1>1. IInv /\ PInv /\ UNCHANGED idleStop /\ (ThreadStep \/ SyncStep)
  BY DEF DInv, OtherHook
<1>2. IInv'
  BY <1>1, ThreadStepOK, SyncStepOK
<1>3. PInv'
  BY <1>1, <1>2, StepPlaces DEF Next
<1>4. WakeHandsOver
  BY <1>1, StepHands DEF IInv, RestOK
<1> QED BY <1>1, <1>2, <1>3, <1>4, WakesRescue DEF DInv, IdleStopStrandsOnlyWaiters

LEMMA DelayStepOK == DInv /\ [DNext]_dvars => DInv' /\ RescueHandsOver
<1> SUFFICES ASSUME DInv, [DNext]_dvars PROVE DInv' /\ RescueHandsOver
  OBVIOUS
<1>1. CASE UNCHANGED dvars
  <2>1. UNCHANGED vars /\ UNCHANGED idleStop
    BY <1>1 DEF dvars
  <2>2. IInv'
    BY <2>1, StutterOK DEF DInv
  <2>3. RescueHandsOver
    BY <2>1 DEF RescueHandsOver, Waits, vars
  <2>4. PInv => PInv'
    BY <2>1, <2>2, StepPlaces DEF DInv
  <2>5. IdleStopStrandsOnlyWaiters' /\ stopped' = stopped
    BY <2>1 DEF DInv, IdleStopStrandsOnlyWaiters, Holds, vars
  <2> QED BY <2>1, <2>2, <2>3, <2>4, <2>5 DEF DInv
<1>2. CASE DNext
  <2>1. ~stopped
    BY <1>2 DEF DNext, OtherHook, Usleep, Sleep, Delays, InGuest, ThreadStep, SyncStep, PthreadCreate,
                PthreadJoin, PthreadDetach, ThreadExit, MainReturns, ExitWithoutActive, DoneAgain,
                MutexInit, MutexLock, MutexUnlock, SetOwner, CondInit, CondSignal, CondBroadcast,
                CondWait, CondTimedWait
  <2>2. ~idleStop
    BY <2>1 DEF DInv
  <2> QED BY <1>2, <2>2, SleepOK, UsleepOK, OtherHookOK DEF DNext
<1> QED BY <1>1, <1>2

\* Counting calls of the delay hooks harms nobody: a rescue gives each mutex to a
\* thread it took out of a wait on that mutex, however many conditions it wakes, and an
\* idle stop cuts off only the sleeping thread and threads no signal was sent to.
THEOREM IdleIsHarmless == DSpec => IdleCountsHarmless
<1>1. DInit => DInv
  <2> SUFFICES ASSUME DInit PROVE DInv
    OBVIOUS
  <2>1. IInv /\ PInv
    BY InitOK, InitPlaces DEF DInit
  <2>2. idleStop = FALSE
    BY DEF DInit
  <2> QED BY <2>1, <2>2 DEF DInv, IdleStopStrandsOnlyWaiters
<1>2. DInv /\ [DNext]_dvars => DInv' /\ RescueHandsOver
  BY DelayStepOK
<1>3. DInv => IdleStopStrandsOnlyWaiters
  BY DEF DInv
<1> QED BY <1>1, <1>2, <1>3, PTL DEF DSpec, IdleCountsHarmless
===============================================================================
