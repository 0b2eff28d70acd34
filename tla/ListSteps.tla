-------------------------------- MODULE ListSteps --------------------------------
(***************************************************************************)
(* Lemmas about lists for the other proofs: what is computed from one      *)
(* element after the other.  The models write such a computation as a      *)
(* recursive function on the indices, which the provers know only as some  *)
(* function that satisfies its equation, if there is one.  That there is   *)
(* one, and that it keeps what each step keeps, follows from the least     *)
(* index at which it would fail.                                           *)
(***************************************************************************)
EXTENDS Naturals, Sequences, SequencesExt, TLAPS, SequenceTheorems, WellFoundedInduction

\* The order of the numbers, as a relation.
LEMMA LessThan == \A x, y \in Nat : <<x, y>> \in OpToRel(<, Nat) <=> x < y
BY DEF OpToRel

\* Some numbers have a least one.
LEMMA LeastOf ==
  ASSUME NEW T, T \subseteq Nat, T # {}
  PROVE  \E n \in T : \A m \in T : n <= m
<1> DEFINE R == OpToRel(<, Nat)
<1>1. \A x, y \in T : <<y, x>> \in R <=> y < x
  BY LessThan, Zenon
<1>2. IsWellFoundedOn(R, Nat)
  BY NatLessThanWellFounded
<1> HIDE DEF R
<1>3. PICK n \in T : \A m \in T : ~(<<m, n>> \in R)
  BY <1>2, WFMin
<1>4. \A m \in T : ~(m < n) /\ m \in Nat /\ n \in Nat
  BY <1>1, <1>3
<1> QED BY <1>3, <1>4

\* What each step keeps holds after all of them.
LEMMA EachStep ==
  ASSUME NEW k \in Nat, NEW f, NEW Good, f[0] \in Good[0],
         \A i \in 1..k : f[i - 1] \in Good[i - 1] => f[i] \in Good[i]
  PROVE  \A i \in 0..k : f[i] \in Good[i]
<1> DEFINE T == {i \in 0..k : f[i] \notin Good[i]}
<1> SUFFICES ASSUME T # {} PROVE FALSE
  OBVIOUS
<1>1. PICK n \in T : \A m \in T : n <= m
  <2>1. T \subseteq Nat
    OBVIOUS
  <2> QED BY <2>1, LeastOf
<1>2. n \in 0..k /\ f[n] \notin Good[n]
  OBVIOUS
<1>3. n # 0
  BY <1>2
<1>4. n - 1 \in 0..k /\ n \in 1..k /\ n - 1 \notin T
  BY <1>1, <1>2, <1>3
<1> QED BY <1>2, <1>4

\* EachStep, of what begins with an element of its own.
LEMMA EachNext ==
  ASSUME NEW k \in Nat, k # 0, NEW f, NEW Good, f[1] \in Good[1],
         \A i \in 2..k : f[i - 1] \in Good[i - 1] => f[i] \in Good[i]
  PROVE  \A i \in 1..k : f[i] \in Good[i]
<1> DEFINE g == [i \in 0..k - 1 |-> f[i + 1]]
           Fine == [i \in 0..k - 1 |-> Good[i + 1]]
<1>1. k - 1 \in Nat /\ 0 \in 0..k - 1 /\ 0 + 1 = 1
  OBVIOUS
<1>2. g[0] \in Fine[0]
  BY <1>1
<1>3. ASSUME NEW i \in 1..k - 1, g[i - 1] \in Fine[i - 1] PROVE g[i] \in Fine[i]
  <2>1. i - 1 \in 0..k - 1 /\ i \in 0..k - 1 /\ i + 1 \in 2..k /\ (i - 1) + 1 = (i + 1) - 1
    OBVIOUS
  <2>2. f[(i + 1) - 1] \in Good[(i + 1) - 1]
    BY <1>3, <2>1
  <2>3. f[i + 1] \in Good[i + 1]
    BY <2>1, <2>2
  <2> QED BY <2>1, <2>3
<1> HIDE DEF g, Fine
<1>4. \A i \in 0..k - 1 : g[i] \in Fine[i]
  BY <1>1, <1>2, <1>3, EachStep
<1>5. ASSUME NEW i \in 1..k PROVE f[i] \in Good[i]
  <2>1. i - 1 \in 0..k - 1 /\ (i - 1) + 1 = i
    OBVIOUS
  <2>2. g[i - 1] = f[(i - 1) + 1] /\ Fine[i - 1] = Good[(i - 1) + 1]
    BY <2>1 DEF g, Fine
  <2> QED BY <1>4, <2>1, <2>2
<1> QED BY <1>5

Stepped(s0, F, k, f) == f = [n \in 0..k |-> IF n = 0 THEN s0 ELSE F[n][f[n - 1]]]

\* Steps that stay among some states can be done one after the other.
LEMMA StepsExist ==
  ASSUME NEW St, NEW s0 \in St, NEW k \in Nat, NEW F \in [1..k -> [St -> St]]
  PROVE  \E f : Stepped(s0, F, k, f) /\ \A n \in 0..k : f[n] \in St
<1> DEFINE Does(f, n) == /\ f \in [0..n -> St] /\ f[0] = s0
                         /\ \A i \in 1..n : f[i] = F[i][f[i - 1]]
           T == {n \in 0..k : ~\E f : Does(f, n)}
<1>1. ASSUME T # {} PROVE FALSE
  <2>1. PICK n \in T : \A m \in T : n <= m
    <3>1. T \subseteq Nat
      OBVIOUS
    <3> QED BY <1>1, <3>1, LeastOf
  <2>2. n \in 0..k /\ ~\E f : Does(f, n)
    OBVIOUS
  <2>3. CASE n = 0
    <3> DEFINE f == [i \in 0..0 |-> s0]
    <3>1. f \in [0..n -> St] /\ f[0] = s0 /\ 1..n = {}
      BY <2>3
    <3> QED BY <2>2, <3>1
  <2>4. CASE n # 0
    <3>1. n - 1 \in 0..k /\ n \in 1..k /\ n - 1 \notin T
      <4>1. n - 1 \in 0..k /\ n \in 1..k /\ ~(n <= n - 1)
        BY <2>2, <2>4
      <4> HIDE DEF T
      <4> QED BY <2>1, <4>1
    <3>2. PICK g : Does(g, n - 1)
      BY <3>1
    <3> DEFINE f == [i \in 0..n |-> IF i = n THEN F[n][g[n - 1]] ELSE g[i]]
    <3>3. g[n - 1] \in St
      BY <3>1, <3>2
    <3>4. F[n][g[n - 1]] \in St
      BY <3>1, <3>3
    <3>5. f \in [0..n -> St]
      BY <2>2, <3>2, <3>4
    <3>6. 0 \in 0..n /\ f[0] = s0
      BY <2>2, <2>4, <3>2
    <3>7. ASSUME NEW i \in 1..n PROVE f[i] = F[i][f[i - 1]]
      <4>1. i - 1 \in 0..n /\ i - 1 # n /\ f[i - 1] = g[i - 1]
        BY <2>2, <3>7
      <4>2. CASE i = n
        BY <4>1, <4>2
      <4>3. CASE i # n
        <5>1. i \in 1..(n - 1) /\ i \in 0..n /\ f[i] = g[i]
          BY <2>2, <4>3
        <5> QED BY <3>2, <4>1, <5>1
      <4> QED BY <4>2, <4>3
    <3> HIDE DEF f
    <3> QED BY <2>2, <3>5, <3>6, <3>7
  <2> QED BY <2>3, <2>4
<1>2. k \in 0..k /\ k \notin T
  BY <1>1
<1>3. PICK f : Does(f, k)
  BY <1>2
<1>4. \A n \in 0..k : n # 0 => n \in 1..k
  OBVIOUS
<1>5. Stepped(s0, F, k, f)
  BY <1>3, <1>4 DEF Stepped
<1> QED BY <1>3, <1>5

-------------------------------------------------------------------------------
\* The members of a sequence.
LEMMA SetOfSeq ==
  ASSUME NEW S, NEW s \in Seq(S)
  PROVE  /\ ToSet(s) = {s[i] : i \in 1..Len(s)} /\ ToSet(s) \subseteq S
         /\ \A x \in S : Append(s, x) \in Seq(S) /\ ToSet(Append(s, x)) = ToSet(s) \cup {x}
<1>1. Len(s) \in Nat /\ DOMAIN s = 1..Len(s) /\ \A i \in 1..Len(s) : s[i] \in S
  BY LenProperties, ElementOfSeq
<1>2. ASSUME NEW x \in S PROVE Append(s, x) \in Seq(S) /\ ToSet(Append(s, x)) = ToSet(s) \cup {x}
  <2> DEFINE t == Append(s, x)
  <2>1. /\ t \in Seq(S) /\ Len(t) = Len(s) + 1
        /\ \A i \in 1..Len(s) : t[i] = s[i]
        /\ t[Len(s) + 1] = x
    BY AppendProperties
  <2>2. DOMAIN t = 1..(Len(s) + 1)
    BY <2>1, LenProperties
  <2>3. Len(s) + 1 \in 1..(Len(s) + 1) /\ \A i \in 1..(Len(s) + 1) : i \in 1..Len(s) \/ i = Len(s) + 1
    BY <1>1
  <2>4. 1..Len(s) \subseteq 1..(Len(s) + 1)
    BY <1>1
  <2> HIDE DEF t
  <2>5. ToSet(t) = {t[i] : i \in 1..(Len(s) + 1)} /\ ToSet(s) = {s[i] : i \in 1..Len(s)}
    BY <1>1, <2>2 DEF ToSet
  <2>6. ToSet(t) = ToSet(s) \cup {x}
    BY <2>1, <2>3, <2>4, <2>5
  <2> QED BY <2>1, <2>6 DEF t
<1> QED BY <1>1, <1>2 DEF ToSet

\* A sequence over a set is one over any larger set.
LEMMA SeqMore == ASSUME NEW S, NEW T, S \subseteq T, NEW s \in Seq(S) PROVE s \in Seq(T)
<1>1. Len(s) \in Nat /\ \A i \in 1..Len(s) : s[i] \in T
  BY LenProperties, ElementOfSeq
<1>2. s \in [1..Len(s) -> T]
  BY <1>1, LenProperties
<1> QED BY <1>1, <1>2

\* What is flattened step by step, and that each step is a sequence.
FlatTo(seqs, f, k) == f = [i \in 1..k |-> IF i = 1 THEN seqs[i] ELSE f[i - 1] \o seqs[i]]

\* There is a function that flattens.
LEMMA FlatExists == ASSUME NEW seqs, NEW k \in Nat PROVE \E f : FlatTo(seqs, f, k)
<1> DEFINE T == {j \in Nat : ~\E f : FlatTo(seqs, f, j)}
<1> SUFFICES ASSUME T # {} PROVE FALSE
  OBVIOUS
<1>1. T \subseteq Nat
  OBVIOUS
<1>2. PICK n \in T : \A m \in T : n <= m
  BY <1>1, LeastOf
<1>3. n \in Nat /\ ~\E f : FlatTo(seqs, f, n)
  OBVIOUS
<1>4. CASE n = 0
  <2> DEFINE f == [i \in 1..0 |-> 0]
  <2>1. 1..0 = {}
    OBVIOUS
  <2>2. FlatTo(seqs, f, n)
    BY <1>4, <2>1 DEF FlatTo
  <2> QED BY <1>3, <2>2
<1>5. CASE n # 0
  <2>1. n - 1 \in Nat /\ n - 1 \notin T
    BY <1>2, <1>3, <1>5
  <2>2. PICK g : FlatTo(seqs, g, n - 1)
    BY <2>1
  <2> DEFINE V(f, i) == IF i = 1 THEN seqs[i] ELSE f[i - 1] \o seqs[i]
             f == [i \in 1..n |-> IF i = n THEN V(g, n) ELSE g[i]]
  <2>3. g = [i \in 1..(n - 1) |-> V(g, i)]
    BY <2>2 DEF FlatTo
  <2>4. ASSUME NEW i \in 1..n PROVE f[i] = V(f, i)
    <3>1. i # 1 => i - 1 \in 1..n /\ i - 1 # n /\ f[i - 1] = g[i - 1]
      BY <1>3
    <3>2. V(f, i) = V(g, i)
      BY <3>1
    <3> HIDE DEF V
    <3>3. \A j \in 1..(n - 1) : g[j] = V(g, j)
      BY <2>3
    <3>4. CASE i = n
      BY <3>2, <3>4
    <3>5. CASE i # n
      <4>1. i \in 1..(n - 1)
        BY <1>3, <3>5
      <4> QED BY <3>2, <3>3, <3>5, <4>1
    <3> QED BY <3>4, <3>5
  <2>5. f = [i \in 1..n |-> f[i]]
    OBVIOUS
  <2> HIDE DEF f, V
  <2>6. f = [i \in 1..n |-> V(f, i)]
    BY <2>4, <2>5
  <2>7. FlatTo(seqs, f, n)
    BY <2>6 DEF FlatTo, V
  <2> QED BY <1>3, <2>7
<1> QED BY <1>4, <1>5

\* What is flattened, step by step.
Flattens(seqs, g, k) == /\ FlattenSeq(seqs) = g[k] /\ g[1] = seqs[1]
                        /\ \A i \in 2..k : g[i] = g[i - 1] \o seqs[i]
LEMMA FlatSteps ==
  ASSUME NEW k \in Nat, k # 0, NEW seqs, Len(seqs) = k
  PROVE  \E g : Flattens(seqs, g, k)
<1> DEFINE g == CHOOSE f : FlatTo(seqs, f, k)
           V(i) == IF i = 1 THEN seqs[i] ELSE g[i - 1] \o seqs[i]
<1>1. seqs # <<>> /\ 1 \in 1..k /\ \A i \in 2..k : i \in 1..k /\ i # 1
  OBVIOUS
<1>2. FlattenSeq(seqs) = g[k]
  BY <1>1 DEF FlattenSeq, FlatTo
<1>3. FlatTo(seqs, g, k)
  BY FlatExists
<1>4. g = [i \in 1..k |-> V(i)]
  BY <1>3 DEF FlatTo
<1> HIDE DEF g, V
<1>5. \A i \in 1..k : g[i] = V(i)
  BY <1>4
<1> QED BY <1>1, <1>2, <1>5 DEF V, Flattens

\* What is flattened is a sequence over the same set.
LEMMA FlatIsSeq ==
  ASSUME NEW S, NEW k \in Nat, NEW seqs, DOMAIN seqs = 1..k, Len(seqs) = k,
         \A i \in 1..k : seqs[i] \in Seq(S), k = 0 => seqs = <<>>
  PROVE  FlattenSeq(seqs) \in Seq(S)
<1>1. CASE k = 0
  BY <1>1, EmptySeq DEF FlattenSeq
<1>2. CASE k # 0
  <2>1. PICK g : Flattens(seqs, g, k)
    BY <1>2, FlatSteps, Zenon
  <2> DEFINE Good == [i \in 1..k |-> Seq(S)]
  <2>2. g[1] \in Good[1]
    <3>1. 1 \in 1..k
      BY <1>2
    <3> QED BY <2>1, <3>1 DEF Flattens
  <2>3. ASSUME NEW i \in 2..k, g[i - 1] \in Good[i - 1] PROVE g[i] \in Good[i]
    <3>1. i \in 1..k /\ i - 1 \in 1..k
      OBVIOUS
    <3>2. g[i - 1] \in Seq(S) /\ seqs[i] \in Seq(S)
      BY <2>3, <3>1
    <3>3. g[i - 1] \o seqs[i] \in Seq(S)
      BY <3>2, ConcatProperties
    <3> QED BY <2>1, <3>1, <3>3 DEF Flattens
  <2> HIDE DEF Good
  <2>4. \A i \in 1..k : g[i] \in Good[i]
    BY <1>2, <2>2, <2>3, EachNext
  <2>5. g[k] \in Seq(S)
    BY <1>2, <2>4 DEF Good
  <2> QED BY <2>1, <2>5 DEF Flattens
<1> QED BY <1>1, <1>2
===============================================================================
