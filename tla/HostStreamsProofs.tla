---------------------------- MODULE HostStreamsProofs ----------------------------
(***************************************************************************)
(* That the tables of HostDescriptors tell the truth of clean pipes, for   *)
(* any number of descriptors, pipes and streams and every capacity.        *)
(*                                                                         *)
(* That the blocks of HostResults are accounted for, for any lists.  That  *)
(* a list can be cut and each part given back needs the links to lead to   *)
(* later blocks (Onward), each list to end and its nodes to share no part  *)
(* (ChainOK); that what is granted is nobody's, the blocks in use to lie   *)
(* below the next one (ResultsTyped).                                      *)
(*                                                                         *)
(* That the transfers of HostTransfers are honest, for any memory, buffers *)
(* and scatter lists: what is left of the stream is its end (StreamIsRest),*)
(* and what a call writes is pairwise apart, so each piece is found where  *)
(* it was written.                                                         *)
(***************************************************************************)
EXTENDS HostStreams, HostResults, HostTransfers, ListSteps, FiniteSetTheorems, TLAPS

\* What the kernel guarantees: pipes are numbered as they are made, a pipe not
\* yet made is empty, and a clean pipe has one read end.
KernelOK ==
  /\ \A f \in Numbers : slot[f].pipe <= made
  /\ \A p \in Pipes : p > made => bytes[p] = 0
  /\ \A f, g \in Numbers : /\ slot[f].end = "read" /\ slot[g].end = "read"
                           /\ slot[f].pipe = slot[g].pipe
                           /\ slot[f].pipe \in clean
                           => f = g

\* The inductive invariant.
IInv == HTypeOK /\ KernelOK /\ CacheExact /\ ClosedForgotten

\* The kinds of slots are told apart by their end, and a pipe's end names it.
LEMMA SlotFacts ==
  ASSUME NEW s \in Slots
  PROVE  /\ s.end \in {"free", "file", "read", "write"}
         /\ s = Free <=> s.end = "free"
         /\ s = File <=> s.end = "file"
         /\ s.end \in {"free", "file"} <=> s.pipe = 0
         /\ s.end \in {"read", "write"} => s.pipe \in Pipes
         /\ s.end = "read" => s = ReadEnd(s.pipe)
         /\ s.end = "write" => s = WriteEnd(s.pipe)
         /\ s.pipe \in Nat
         /\ \A p : s = ReadEnd(p) <=> s.end = "read" /\ s.pipe = p
         /\ \A p : s = WriteEnd(p) <=> s.end = "write" /\ s.pipe = p
  <1>1. CASE s = Free  BY <1>1 DEF Free, File, ReadEnd, WriteEnd
  <1>2. CASE s = File  BY <1>2 DEF Free, File, ReadEnd, WriteEnd
  <1>3. CASE \E p \in Pipes : s = ReadEnd(p)
    BY <1>3, DescriptorConstants DEF Free, File, ReadEnd, WriteEnd, Pipes
  <1>4. CASE \E p \in Pipes : s = WriteEnd(p)
    BY <1>4, DescriptorConstants DEF Free, File, ReadEnd, WriteEnd, Pipes
  <1> QED BY <1>1, <1>2, <1>3, <1>4 DEF Slots

\* What SlotFacts says of every number of a slot function.
Kinds(s) ==
  \A f \in Numbers :
    /\ s[f].end \in {"free", "file", "read", "write"}
    /\ s[f] = Free <=> s[f].end = "free"
    /\ s[f] = File <=> s[f].end = "file"
    /\ s[f].end \in {"free", "file"} <=> s[f].pipe = 0
    /\ s[f].end \in {"read", "write"} => s[f].pipe \in Pipes
    /\ s[f].pipe \in Nat
    /\ \A p : s[f] = ReadEnd(p) <=> s[f].end = "read" /\ s[f].pipe = p
    /\ \A p : s[f] = WriteEnd(p) <=> s[f].end = "write" /\ s[f].pipe = p

\* What SlotFacts says of one slot holds of every number.
LEMMA SlotKinds == ASSUME NEW s \in [Numbers -> Slots] PROVE Kinds(s)
  BY SlotFacts DEF Kinds

\* It holds when nothing is open but the standard numbers.
LEMMA InitInvariant == HInit => IInv
  <1> SUFFICES ASSUME HInit PROVE IInv  OBVIOUS
  <1> USE DescriptorConstants DEF HInit
  <1>1. HTypeOK  BY DEF HTypeOK, Slots
  <1>2. Kinds(slot)  BY <1>1, SlotKinds DEF HTypeOK
  <1>3. KernelOK  BY <1>1, <1>2 DEF KernelOK, Kinds
  <1>4. CacheExact  BY <1>2 DEF CacheExact, Kinds
  <1>5. ClosedForgotten  BY <1>1 DEF ClosedForgotten, None, Numbers
  <1> QED BY <1>1, <1>3, <1>4, <1>5 DEF IInv

\* A file taken from the host is on a number nobody had in the tables.
LEMMA OpenFileKeeps ==
  ASSUME IInv, NEW f \in Numbers, OpenFile(f) PROVE IInv'
  <1> USE DescriptorConstants
  <1>1. HTypeOK'  BY DEF IInv, HTypeOK, OpenFile, cache, Slots
  <1>2. Kinds(slot) /\ Kinds(slot')  BY <1>1, SlotKinds DEF IInv, HTypeOK
  <1>3. slot[f].end = "free"  BY <1>2 DEF OpenFile, Lowest, Open, Kinds
  <1>4. slot'[f].end = "file"  BY <1>2 DEF IInv, HTypeOK, OpenFile, Kinds
  <1>5. slot'[f].pipe = 0  BY <1>2, <1>4 DEF Kinds
  <1>6. \A g \in Numbers : g # f => slot'[g] = slot[g]  BY DEF IInv, HTypeOK, OpenFile
  <1>7. UNCHANGED <<bytes, made, reader, pending, clean, unnoted>>  BY DEF OpenFile, cache
  <1>8. KernelOK'
    BY <1>1, <1>4, <1>5, <1>6, <1>7 DEF IInv, KernelOK, HTypeOK
  <1>9. CacheExact'
    BY <1>2, <1>3, <1>4, <1>6, <1>7 DEF IInv, CacheExact, Kinds
  <1>10. ClosedForgotten'
    BY <1>2, <1>3, <1>4, <1>6, <1>7 DEF IInv, ClosedForgotten, Kinds, Open
  <1> QED BY <1>1, <1>8, <1>9, <1>10 DEF IInv

\* close removes the number as a write end, as a read end and as a counter.
LEMMA CloseKeeps ==
  ASSUME IInv, NEW f \in Numbers, Close(f) PROVE IInv'
  <1> USE DescriptorConstants
  <1>1. HTypeOK'  BY DEF IInv, HTypeOK, Close, NoteClose, Slots
  <1>2. Kinds(slot) /\ Kinds(slot')  BY <1>1, SlotKinds DEF IInv, HTypeOK
  <1>3. slot'[f] = Free /\ slot'[f].end = "free" /\ slot'[f].pipe = 0
    BY <1>2 DEF IInv, HTypeOK, Close, Kinds
  <1>4. \A g \in Numbers : g # f => slot'[g] = slot[g]  BY DEF IInv, HTypeOK, Close
  <1>5. UNCHANGED <<bytes, made, clean>> /\ unnoted' = unnoted \ {f}  BY DEF Close
  <1>6. /\ \A w \in Numbers : reader'[w] = IF w = f \/ reader[w] = f THEN None ELSE reader[w]
        /\ pending'[f] = None /\ \A g \in Numbers : g # f => pending'[g] = pending[g]
    BY DEF IInv, HTypeOK, Close, NoteClose
  <1>7. \A g \in Numbers : g # None  BY DEF Numbers, None
  <1>8. KernelOK'
    BY <1>1, <1>3, <1>4, <1>5 DEF IInv, KernelOK, HTypeOK
  <1>9. CacheExact'
    BY <1>2, <1>3, <1>4, <1>5, <1>6, <1>7 DEF IInv, CacheExact, Kinds
  <1>10. ClosedForgotten'
    BY <1>4, <1>5, <1>6, <1>7 DEF IInv, ClosedForgotten, Open
  <1> QED BY <1>1, <1>8, <1>9, <1>10 DEF IInv

\* A new pipe enters both tables with nothing pending.
LEMMA PipeKeeps ==
  ASSUME IInv, NEW r \in Numbers, NEW w \in Numbers, Pipe(r, w) PROVE IInv'
  <1> USE DescriptorConstants
  <1>1. made + 1 \in Pipes  BY DEF IInv, HTypeOK, Pipe, Pipes
  <1>2. HTypeOK'
    <2>1. slot' \in [Numbers -> Slots]  BY <1>1 DEF IInv, HTypeOK, Pipe, Slots
    <2>2. reader' \in [Numbers -> Numbers \cup {None}]
      BY DEF IInv, HTypeOK, Pipe, NotePipe
    <2>3. OrZero(pending[r]) \in 0..Saturation
      BY DEF IInv, HTypeOK, OrZero, None
    <2>4. pending' \in [Numbers -> (0..Saturation) \cup {None}]
      BY <2>3 DEF IInv, HTypeOK, Pipe, NotePipe
    <2> QED BY <2>1, <2>2, <2>4, <1>1 DEF IInv, HTypeOK, Pipe, Pipes
  <1>3. Kinds(slot) /\ Kinds(slot')  BY <1>2, SlotKinds DEF IInv, HTypeOK
  <1>4. r # w /\ slot[r].end = "free" /\ slot[w].end = "free"
    BY <1>3 DEF Pipe, Lowest, Open, Kinds, Numbers
  <1>5. /\ slot'[r] = ReadEnd(made + 1) /\ slot'[w] = WriteEnd(made + 1)
        /\ \A g \in Numbers : g # r /\ g # w => slot'[g] = slot[g]
    BY <1>4 DEF IInv, HTypeOK, Pipe
  <1>6. /\ slot'[r].end = "read" /\ slot'[r].pipe = made + 1
        /\ slot'[w].end = "write" /\ slot'[w].pipe = made + 1
    BY <1>3, <1>5 DEF Kinds
  <1>7. /\ reader'[w] = r /\ \A g \in Numbers : g # w => reader'[g] = reader[g]
        /\ pending'[r] = OrZero(pending[r])
        /\ \A g \in Numbers : g # r => pending'[g] = pending[g]
    BY DEF IInv, HTypeOK, Pipe, NotePipe
  <1>8. UNCHANGED <<bytes, unnoted>> /\ made' = made + 1
    BY DEF Pipe
  <1>9. clean' = IF r \in unnoted THEN clean ELSE clean \cup {made + 1}
    BY DEF Pipe
  <1>10. made \in Nat /\ \A p \in clean : p <= made
    BY DEF IInv, HTypeOK
  <1>11. KernelOK'
    <2>1. \A f \in Numbers : slot'[f].pipe <= made'
      BY <1>3, <1>5, <1>6, <1>8, <1>10 DEF IInv, KernelOK, Kinds
    <2>2. \A p \in Pipes : p > made' => bytes'[p] = 0
      BY <1>8, <1>10 DEF IInv, KernelOK, Pipes
    <2>3. ASSUME NEW f \in Numbers, NEW g \in Numbers,
                 slot'[f].end = "read", slot'[g].end = "read",
                 slot'[f].pipe = slot'[g].pipe, slot'[f].pipe \in clean'
          PROVE  f = g
      <3>1. \A h \in Numbers \ {r, w} : slot'[h].pipe <= made
        BY <1>5 DEF IInv, KernelOK
      <3>2. CASE f = r \/ g = r
        BY <2>3, <3>1, <3>2, <1>6, <1>10
      <3>3. CASE f # r /\ g # r
        BY <2>3, <3>1, <3>3, <1>5, <1>6, <1>9, <1>10 DEF IInv, KernelOK
      <3> QED BY <3>2, <3>3
    <2> QED BY <2>1, <2>2, <2>3 DEF KernelOK
  <1>12. CacheExact'
    <2> SUFFICES ASSUME NEW q \in Numbers, slot'[q].end = "read", slot'[q].pipe \in clean'
                 PROVE  /\ pending'[q] = bytes'[slot'[q].pipe]
                        /\ \A v \in Numbers : reader'[v] = q
                                              <=> slot'[v] = WriteEnd(slot'[q].pipe)
      BY DEF CacheExact
    <2>1. CASE q = r
      <3>1. r \notin unnoted  BY <2>1, <1>6, <1>9, <1>10
      <3>2. pending[r] = None /\ \A v \in Numbers : reader[v] # r
        BY <3>1, <1>3, <1>4 DEF IInv, ClosedForgotten, Open, Kinds
      <3>3. pending'[r] = bytes'[made + 1]
        BY <3>2, <1>1, <1>7, <1>8, <1>10 DEF OrZero, IInv, KernelOK
      <3>4. \A v \in Numbers \ {w} : slot'[v] # WriteEnd(made + 1)
        BY <1>3, <1>5, <1>6, <1>10 DEF IInv, KernelOK, Kinds
      <3> QED BY <2>1, <3>2, <3>3, <3>4, <1>5, <1>6, <1>7, ZenonT(60)
    <2>2. CASE q # r
      <3>1. q # w /\ slot'[q] = slot[q] /\ slot[q].pipe \in clean
        BY <2>2, <1>5, <1>6, <1>9, <1>10 DEF IInv, KernelOK
      <3>2. pending[q] = bytes[slot[q].pipe]
            /\ \A v \in Numbers : reader[v] = q <=> slot[v] = WriteEnd(slot[q].pipe)
        BY <3>1 DEF IInv, CacheExact
      <3>3. slot[q].pipe # made + 1  BY <3>1, <1>10
      <3>4. ASSUME NEW v \in Numbers
            PROVE  reader'[v] = q <=> slot'[v] = WriteEnd(slot[q].pipe)
        <4>1. CASE v = w  BY <4>1, <2>2, <3>3, <1>3, <1>6, <1>7 DEF Kinds
        <4>2. CASE v = r
          BY <4>2, <3>2, <1>3, <1>4, <1>6, <1>7 DEF Kinds
        <4>3. CASE v # w /\ v # r  BY <4>3, <3>2, <1>5, <1>7
        <4> QED BY <4>1, <4>2, <4>3
      <3> QED BY <2>2, <3>1, <3>2, <3>4, <1>7, <1>8
    <2> QED BY <2>1, <2>2
  <1>13. ClosedForgotten'
    BY <1>3, <1>5, <1>6, <1>7, <1>8 DEF IInv, ClosedForgotten, Open, Kinds
  <1> QED BY <1>2, <1>11, <1>12, <1>13 DEF IInv

\* dup2 copies an entry of the write end, and takes the pipe a duplicated read
\* end or an overwritten end belongs to out of the clean ones.
LEMMA Dup2Keeps ==
  ASSUME IInv, NEW from \in Numbers, NEW to \in Numbers, Dup2(from, to) PROVE IInv'
  <1> USE DescriptorConstants
  <1>1. /\ from # to
        /\ slot' = [slot EXCEPT ![to] = slot[from]]
        /\ UNCHANGED <<bytes, made>>
    BY DEF Dup2
  <1>2. HTypeOK'
    BY <1>1 DEF IInv, HTypeOK, Dup2, NoteDup
  <1>3. Kinds(slot) /\ Kinds(slot')  BY <1>2, SlotKinds DEF IInv, HTypeOK
  <1>4. /\ slot'[to] = slot[from]
        /\ \A g \in Numbers : g # to => slot'[g] = slot[g]
    BY <1>1 DEF IInv, HTypeOK
  <1>5. /\ clean' \subseteq clean /\ 0 \notin clean
        /\ slot[from].end = "read" => slot[from].pipe \notin clean'
        /\ slot[to] # slot[from] => slot[to].pipe \notin clean'
    BY DEF IInv, HTypeOK, Dup2
  <1>6. /\ unnoted \subseteq unnoted' /\ slot[from].end # "free"
    BY <1>3 DEF Dup2, Open, Kinds
  <1>7. /\ reader'[to] = IF reader[from] = None THEN reader[to] ELSE reader[from]
        /\ pending'[to] = IF pending[from] = None THEN pending[to] ELSE pending[from]
        /\ \A g \in Numbers : g # to => reader'[g] = reader[g] /\ pending'[g] = pending[g]
    BY DEF IInv, HTypeOK, Dup2, NoteDup
  <1>8. KernelOK'
    <2>1. \A f \in Numbers : slot'[f].pipe <= made'
      BY <1>1, <1>4 DEF IInv, KernelOK
    <2>2. \A p \in Pipes : p > made' => bytes'[p] = 0
      BY <1>1 DEF IInv, KernelOK
    <2>3. ASSUME NEW f \in Numbers, NEW g \in Numbers,
                 slot'[f].end = "read", slot'[g].end = "read",
                 slot'[f].pipe = slot'[g].pipe, slot'[f].pipe \in clean'
          PROVE  f = g
      BY <2>3, <1>4, <1>5 DEF IInv, KernelOK
    <2> QED BY <2>1, <2>2, <2>3 DEF KernelOK
  <1>9. CacheExact'
    <2> SUFFICES ASSUME NEW q \in Numbers, slot'[q].end = "read", slot'[q].pipe \in clean'
                 PROVE  /\ pending'[q] = bytes'[slot'[q].pipe]
                        /\ \A v \in Numbers : reader'[v] = q
                                              <=> slot'[v] = WriteEnd(slot'[q].pipe)
      BY DEF CacheExact
    <2>1. q # to /\ slot'[q] = slot[q] /\ slot[q].pipe \in clean
      BY <1>4, <1>5
    <2>2. pending[q] = bytes[slot[q].pipe]
          /\ \A v \in Numbers : reader[v] = q <=> slot[v] = WriteEnd(slot[q].pipe)
      BY <2>1 DEF IInv, CacheExact
    <2>3. q # None  BY DEF Numbers, None
    <2>4. slot[to] = WriteEnd(slot[q].pipe) => slot[to] = slot[from]
      BY <2>1, <1>3, <1>5 DEF Kinds
    <2>5. reader'[to] = q <=> slot'[to] = WriteEnd(slot[q].pipe)
      <3>1. CASE reader[from] = None  BY <3>1, <2>2, <2>3, <2>4, <1>4, <1>7
      <3>2. CASE reader[from] # None  BY <3>2, <2>2, <1>4, <1>7
      <3> QED BY <3>1, <3>2
    <2> QED BY <2>1, <2>2, <2>5, <1>1, <1>4, <1>7
  <1>10. ClosedForgotten'
    <2> SUFFICES ASSUME NEW g \in Numbers, ~Open(g)', g \notin unnoted'
                 PROVE  /\ reader'[g] = None /\ pending'[g] = None
                        /\ \A v \in Numbers : reader'[v] # g
      BY DEF ClosedForgotten
    <2>1. g # to /\ ~Open(g) /\ g \notin unnoted
      BY <1>3, <1>4, <1>6 DEF Open, Kinds
    <2>2. /\ reader[g] = None /\ pending[g] = None
          /\ \A v \in Numbers : reader[v] # g
      BY <2>1 DEF IInv, ClosedForgotten
    <2> QED BY <2>1, <2>2, <1>7
  <1> QED BY <1>2, <1>8, <1>9, <1>10 DEF IInv

\* dup is a dup2 onto a number nothing has.
LEMMA DupKeeps ==
  ASSUME IInv, NEW from \in Numbers, NEW to \in Numbers, Dup(from, to) PROVE IInv'
  <1>1. slot[to] = Free /\ slot[from] # Free  BY DEF Dup, Lowest, Open
  <1>2. slot[to].pipe = 0 /\ 0 \notin clean  BY <1>1 DEF Free, IInv, HTypeOK
  <1>3. Dup2(from, to)  BY <1>1, <1>2 DEF Dup, Dup2, Open
  <1> QED BY <1>3, Dup2Keeps

\* What a write adds to the pipe it adds to the counter of its reader.
LEMMA WriteKeeps ==
  ASSUME IInv, NEW f \in Numbers, NEW n \in 1..Capacity, Write(f, n) PROVE IInv'
  <1> USE DescriptorConstants
  <1> DEFINE p == slot[f].pipe
  <1>1. Kinds(slot)  BY SlotKinds DEF IInv, HTypeOK
  <1>2. p \in Pipes /\ slot[f] = WriteEnd(p)  BY <1>1 DEF Write, Kinds
  <1>3. /\ bytes[p] \in 0..Capacity /\ bytes[p] + n <= Capacity
        /\ bytes' = [bytes EXCEPT ![p] = @ + n]
        /\ UNCHANGED <<slot, made, reader, clean, unnoted>>
    BY <1>2 DEF IInv, HTypeOK, Write, NoteWrite
  <1>4. pending' = IF reader[f] = None THEN pending
                   ELSE [pending EXCEPT ![reader[f]] = SatAdd(OrZero(@), n)]
    BY DEF Write, NoteWrite
  <1>5. \A g \in Numbers : OrZero(pending[g]) \in 0..Saturation
    BY DEF IInv, HTypeOK, OrZero, None
  <1>6. \A a \in 0..Saturation : SatAdd(a, n) \in 0..Saturation
                                /\ (a + n <= Saturation => SatAdd(a, n) = a + n)
    BY DEF SatAdd
  <1>7. HTypeOK'
    BY <1>2, <1>3, <1>4, <1>5, <1>6 DEF IInv, HTypeOK
  <1>8. KernelOK'
    <2>1. p <= made  BY DEF IInv, KernelOK
    <2>2. ASSUME NEW q \in Pipes, q > made PROVE bytes'[q] = 0
      <3>1. q # p  BY <2>1, <2>2, <1>2 DEF IInv, HTypeOK, Pipes
      <3> QED BY <3>1, <2>2, <1>3 DEF IInv, KernelOK, HTypeOK
    <2> QED BY <2>2, <1>3 DEF IInv, KernelOK
  <1>9. CacheExact'
    <2> SUFFICES ASSUME NEW q \in Numbers, slot[q].end = "read", slot[q].pipe \in clean
                 PROVE  pending'[q] = bytes'[slot[q].pipe]
      BY <1>3 DEF IInv, CacheExact
    <2>1. pending[q] = bytes[slot[q].pipe]
          /\ \A v \in Numbers : reader[v] = q <=> slot[v] = WriteEnd(slot[q].pipe)
      BY DEF IInv, CacheExact
    <2>2. q # None  BY DEF Numbers, None
    <2>3. CASE slot[q].pipe = p
      <3>1. reader[f] = q  BY <2>1, <2>3, <1>2
      <3>2. pending'[q] = SatAdd(OrZero(pending[q]), n)
        BY <3>1, <2>2, <1>4 DEF IInv, HTypeOK
      <3>3. OrZero(pending[q]) = bytes[p]
        BY <2>1, <2>3, <1>3 DEF OrZero, None
      <3> QED BY <3>2, <3>3, <2>3, <1>2, <1>3, <1>6 DEF IInv, HTypeOK
    <2>4. CASE slot[q].pipe # p
      <3>1. reader[f] # q  BY <2>1, <2>4, <1>1 DEF Kinds
      <3>2. pending'[q] = pending[q]  BY <3>1, <1>4 DEF IInv, HTypeOK
      <3>3. bytes'[slot[q].pipe] = bytes[slot[q].pipe]
        BY <2>4, <1>1, <1>3 DEF Kinds, IInv, HTypeOK
      <3> QED BY <3>2, <3>3, <2>1
    <2> QED BY <2>3, <2>4
  <1>10. ClosedForgotten'
    BY <1>3, <1>4 DEF IInv, ClosedForgotten, HTypeOK, Open
  <1> QED BY <1>7, <1>8, <1>9, <1>10 DEF IInv

\* Bytes of pipes that are no longer clean come and go as they like.
LEMMA DrainKeeps ==
  ASSUME IInv, UNCHANGED <<slot, made, reader, pending, unnoted>>,
         bytes' \in [Pipes -> 0..Capacity], clean' \subseteq clean,
         \A p \in clean' : bytes'[p] = bytes[p],
         \A p \in Pipes : p > made => bytes'[p] = 0
  PROVE  IInv'
  <1>1. HTypeOK'  BY DEF IInv, HTypeOK
  <1>2. KernelOK'  BY DEF IInv, KernelOK
  <1>3. CacheExact'  BY DEF IInv, CacheExact
  <1>4. ClosedForgotten'  BY DEF IInv, ClosedForgotten, Open
  <1> QED BY <1>1, <1>2, <1>3, <1>4 DEF IInv

\* What a read leaves of the bytes of its pipe.
LEMMA ReadKeeps ==
  ASSUME IInv, NEW f \in Numbers, NEW n \in 1..Capacity, Read(f, n) PROVE IInv'
  <1> USE DescriptorConstants
  <1> DEFINE p == slot[f].pipe
  <1>1. Kinds(slot)  BY SlotKinds DEF IInv, HTypeOK
  <1>2. p \in Pipes /\ slot[f].end = "read"  BY <1>1 DEF Read, Kinds
  <1>3. /\ bytes[p] \in 0..Capacity /\ n \in 1..bytes[p]
        /\ bytes' = [bytes EXCEPT ![p] = @ - n]
        /\ UNCHANGED <<slot, made, reader, unnoted>>
    BY <1>2 DEF IInv, HTypeOK, Read, NoteRead, cache
  <1>4. bytes' \in [Pipes -> 0..Capacity]  BY <1>2, <1>3 DEF IInv, HTypeOK
  <1>5. ASSUME NEW q \in Pipes, q > made PROVE bytes'[q] = 0
    <2>1. q # p  BY <1>5, <1>2 DEF IInv, HTypeOK, KernelOK, Pipes
    <2> QED BY <2>1, <1>5, <1>3 DEF IInv, KernelOK, HTypeOK
  <1>6. CASE UNCHANGED cache /\ clean' = clean \ {p}
    <2>1. \A q \in clean' : bytes'[q] = bytes[q]
      BY <1>6, <1>3 DEF IInv, HTypeOK, Pipes
    <2> QED BY <1>6, <2>1, <1>3, <1>4, <1>5, DrainKeeps DEF cache
  <1>7. CASE NoteRead(f, n) /\ UNCHANGED clean
    <2>1. pending' = IF pending[f] = None THEN pending
                     ELSE [pending EXCEPT ![f] = SatSub(@, n)]
      BY <1>7 DEF NoteRead
    <2>2. pending[f] # None => pending[f] \in 0..Saturation
                               /\ SatSub(pending[f], n) \in 0..Saturation
      BY DEF IInv, HTypeOK, SatSub
    <2>3. HTypeOK'  BY <2>1, <2>2, <1>3, <1>4, <1>7 DEF IInv, HTypeOK
    <2>4. KernelOK'  BY <1>3, <1>5, <1>7 DEF IInv, KernelOK
    <2>5. \A g \in Numbers : g # f => pending'[g] = pending[g]
      BY <2>1 DEF IInv, HTypeOK
    <2>6. ASSUME NEW q \in Numbers, slot[q].end = "read", slot[q].pipe \in clean
          PROVE  pending'[q] = bytes'[slot[q].pipe]
      <3>1. pending[q] = bytes[slot[q].pipe]  BY <2>6 DEF IInv, CacheExact
      <3>2. CASE q = f
        <4>1. pending[f] = bytes[p] /\ pending[f] # None
          BY <3>1, <3>2, <1>3 DEF None
        <4>2. pending'[f] = SatSub(pending[f], n)
          BY <4>1, <2>1 DEF IInv, HTypeOK
        <4>3. SatSub(bytes[p], n) = bytes[p] - n  BY <1>3 DEF SatSub
        <4> QED BY <3>2, <4>1, <4>2, <4>3, <1>2, <1>3 DEF IInv, HTypeOK
      <3>3. CASE q # f
        <4>1. slot[q].pipe # p /\ slot[q].pipe \in Pipes
          BY <2>6, <3>3, <1>1, <1>2 DEF IInv, KernelOK, Kinds
        <4> QED BY <4>1, <3>1, <3>3, <2>5, <1>3 DEF IInv, HTypeOK
      <3> QED BY <3>2, <3>3
    <2>7. CacheExact'  BY <2>6, <1>3, <1>7 DEF IInv, CacheExact
    <2>8. ClosedForgotten'
      BY <2>5, <1>1, <1>2, <1>3, <1>7 DEF IInv, ClosedForgotten, Open, Kinds
    <2> QED BY <2>3, <2>4, <2>7, <2>8 DEF IInv
  <1> QED BY <1>6, <1>7 DEF Read

\* A file's number may be in the tables, but not as an end of a clean pipe.
LEMMA FileIoKeeps ==
  ASSUME IInv, NEW f \in Numbers, FileIo(f) PROVE IInv'
  <1> USE DescriptorConstants
  <1>1. Kinds(slot)  BY SlotKinds DEF IInv, HTypeOK
  <1>2. slot[f].end = "file"  BY <1>1 DEF FileIo, Kinds
  <1>3. UNCHANGED <<slot, bytes, made, reader, clean, unnoted>>
    BY DEF FileIo, NoteRead, NoteWrite, kernel
  <1>4. /\ pending' \in [Numbers -> (0..Saturation) \cup {None}]
        /\ \A g \in Numbers : g # f /\ reader[f] # g => pending'[g] = pending[g]
    <2>1. CASE NoteRead(f, 1)
      <3>1. pending[f] # None => SatSub(pending[f], 1) \in 0..Saturation
        BY DEF IInv, HTypeOK, SatSub
      <3> QED BY <2>1, <3>1 DEF NoteRead, IInv, HTypeOK
    <2>2. CASE NoteWrite(f, 1)
      <3>1. \A g \in Numbers : OrZero(pending[g]) \in 0..Saturation
        BY DEF IInv, HTypeOK, OrZero, None
      <3>2. \A a \in 0..Saturation : SatAdd(a, 1) \in 0..Saturation  BY DEF SatAdd
      <3> QED BY <2>2, <3>1, <3>2 DEF NoteWrite, IInv, HTypeOK
    <2> QED BY <2>1, <2>2 DEF FileIo
  <1>5. \A q \in Numbers : slot[q].end = "read" /\ slot[q].pipe \in clean => reader[f] # q
    BY <1>1, <1>2 DEF IInv, CacheExact, Kinds
  <1>6. HTypeOK'  BY <1>3, <1>4 DEF IInv, HTypeOK
  <1>7. KernelOK'  BY <1>3 DEF IInv, KernelOK
  <1>8. CacheExact'  BY <1>2, <1>3, <1>4, <1>5 DEF IInv, CacheExact
  <1>9. ClosedForgotten'
    BY <1>1, <1>2, <1>3, <1>4 DEF IInv, ClosedForgotten, Open, Kinds
  <1> QED BY <1>6, <1>7, <1>8, <1>9 DEF IInv

\* Every call on numbers preserves the invariant.
LEMMA NumbersKeep == ASSUME IInv, HNext PROVE IInv'
  BY OpenFileKeeps, CloseKeeps, PipeKeeps, Dup2Keeps, DupKeeps, ReadKeeps, WriteKeeps,
     FileIoKeeps DEF HNext

\* A number that goes without a note takes its pipe out of the clean ones.
LEMMA SilentKeeps ==
  ASSUME IInv, NEW f \in Numbers, SilentlyClosed(f),
         UNCHANGED <<made, reader, pending>>,
         bytes' \in [Pipes -> 0..Capacity],
         \A p \in clean' : bytes'[p] = bytes[p],
         \A p \in Pipes : p > made => bytes'[p] = 0
  PROVE  IInv'
  <1> USE DescriptorConstants
  <1>1. HTypeOK'  BY DEF IInv, HTypeOK, SilentlyClosed, Slots
  <1>2. Kinds(slot) /\ Kinds(slot')  BY <1>1, SlotKinds DEF IInv, HTypeOK
  <1>3. slot'[f] = Free /\ slot'[f].end = "free" /\ slot'[f].pipe = 0
    BY <1>2 DEF IInv, HTypeOK, SilentlyClosed, Kinds
  <1>4. \A g \in Numbers : g # f => slot'[g] = slot[g]
    BY DEF IInv, HTypeOK, SilentlyClosed
  <1>5. clean' \subseteq clean /\ slot[f].pipe \notin clean'
    BY DEF SilentlyClosed
  <1>6. unnoted \subseteq unnoted' /\ (slot[f] # Free => f \in unnoted')
    BY DEF SilentlyClosed, Open
  <1>7. KernelOK'
    <2>1. \A g \in Numbers : slot'[g].pipe <= made'
      BY <1>3, <1>4 DEF IInv, KernelOK, HTypeOK
    <2>2. \A p \in Pipes : p > made' => bytes'[p] = 0
      OBVIOUS
    <2>3. \A g, h \in Numbers : /\ slot'[g].end = "read" /\ slot'[h].end = "read"
                                /\ slot'[g].pipe = slot'[h].pipe
                                /\ slot'[g].pipe \in clean'
                                => g = h
      BY <1>3, <1>4, <1>5 DEF IInv, KernelOK
    <2> QED BY <2>1, <2>2, <2>3 DEF KernelOK
  <1>8. CacheExact'
    <2> SUFFICES ASSUME NEW q \in Numbers, slot'[q].end = "read", slot'[q].pipe \in clean'
                 PROVE  /\ pending'[q] = bytes'[slot'[q].pipe]
                        /\ \A v \in Numbers : reader'[v] = q
                                              <=> slot'[v] = WriteEnd(slot'[q].pipe)
      BY DEF CacheExact
    <2>1. q # f /\ slot'[q] = slot[q] /\ slot[q].pipe \in clean
      BY <1>3, <1>4, <1>5
    <2>2. pending[q] = bytes[slot[q].pipe]
          /\ \A v \in Numbers : reader[v] = q <=> slot[v] = WriteEnd(slot[q].pipe)
      BY <2>1 DEF IInv, CacheExact
    <2>3. slot[f] # WriteEnd(slot[q].pipe) /\ slot'[f] # WriteEnd(slot[q].pipe)
      BY <2>1, <1>2, <1>3, <1>5 DEF Kinds
    <2> QED BY <2>1, <2>2, <2>3, <1>4
  <1>9. ClosedForgotten'
    BY <1>3, <1>4, <1>6 DEF IInv, ClosedForgotten, Open
  <1> QED BY <1>1, <1>7, <1>8, <1>9 DEF IInv

-----------------------------------------------------------------------------
(* The streams.                                                              *)

\* A registered stream owns a number; its blocks carry its name.
STypeOK ==
  /\ opened \in 0..MaxHandles
  /\ handles \in [1..MaxHandles ->
                    [fd : Numbers \cup {None}, kind : {"none", "file", "dir"},
                     full : BOOLEAN, dirent : BOOLEAN]]
  /\ \A h \in 1..MaxHandles : /\ Live(h) => handles[h].fd \in Numbers
                              /\ h > opened => ~Live(h)

\* The same with what NothingOrphaned says.
SInv == IInv /\ STypeOK /\ NothingOrphaned

\* Flushing changes the bytes only of pipes a full stream writes to.
LEMMA FlushFacts ==
  ASSUME IInv, STypeOK, NEW H \in SUBSET (1..MaxHandles), Flushed(H)
  PROVE  /\ bytes' \in [Pipes -> 0..Capacity]
         /\ \A p \in Pipes : Feeding(H, p) = {} => bytes'[p] = bytes[p]
         /\ \A p \in Pipes : p > made => bytes'[p] = 0
  <1> USE DescriptorConstants, MaxHandlesAssumption
  <1>1. ASSUME NEW p \in Pipes
        PROVE  /\ Cardinality(Feeding(H, p)) \in Nat
               /\ Feeding(H, p) = {} => Cardinality(Feeding(H, p)) = 0
    <2>1. IsFiniteSet(1..MaxHandles)  BY FS_Interval
    <2>2. IsFiniteSet(Feeding(H, p))
      BY <2>1, FS_Subset DEF Feeding
    <2> QED BY <2>2, FS_CardinalityType, FS_EmptySet
  <1>2. bytes' \in [Pipes -> 0..Capacity]
    <2>1. ASSUME NEW p \in Pipes
          PROVE  (IF HasReader(p) THEN bytes[p] + Cardinality(Feeding(H, p)) ELSE bytes[p])
                 \in 0..Capacity
      BY <1>1 DEF Flushed, IInv, HTypeOK
    <2>2. bytes' = [p \in Pipes |-> IF HasReader(p)
                                   THEN bytes[p] + Cardinality(Feeding(H, p)) ELSE bytes[p]]
      BY DEF Flushed
    <2> QED BY <2>1, <2>2
  <1>3. \A p \in Pipes : Feeding(H, p) = {} => bytes'[p] = bytes[p]
    BY <1>1 DEF Flushed, IInv, HTypeOK
  <1>4. ASSUME NEW p \in Pipes, p > made PROVE bytes'[p] = 0
    <2>1. Kinds(slot)  BY SlotKinds DEF IInv, HTypeOK
    <2>2. made \in Nat /\ \A f \in Numbers : slot[f].pipe <= made /\ slot[f].pipe \in Nat
      BY <2>1 DEF IInv, KernelOK, HTypeOK, Kinds
    <2>3. \A f \in Numbers : slot[f].pipe # p  BY <2>2, <1>4 DEF Pipes
    <2>4. ~HasReader(p)  BY <2>1, <2>3 DEF HasReader, Kinds
    <2> QED BY <2>4, <1>4 DEF Flushed, IInv, KernelOK
  <1> QED BY <1>2, <1>3, <1>4

\* Steps that keep numbers and what is registered keep both parts.
LEMMA StreamsSame ==
  ASSUME STypeOK, NothingOrphaned,
         opened' = opened, blocks' = blocks,
         handles' \in [1..MaxHandles ->
                         [fd : Numbers \cup {None}, kind : {"none", "file", "dir"},
                          full : BOOLEAN, dirent : BOOLEAN]],
         \A h \in 1..MaxHandles : /\ handles'[h].fd = handles[h].fd
                                  /\ handles'[h].kind = handles[h].kind
                                  /\ handles'[h].dirent = handles[h].dirent
                                  /\ Live(h)' <=> Live(h),
         \A f \in Numbers : Open(f)' => Open(f) \/ f \in given',
         \A f \in Numbers : Open(f)' /\ f \in given => f \in given'
  PROVE  STypeOK' /\ NothingOrphaned'
  <1>1. STypeOK'  BY DEF STypeOK
  <1>2. \A h \in 1..MaxHandles, f \in Numbers : Names(h, f)' <=> Names(h, f)
    BY DEF Names
  <1>3. \A h \in 1..MaxHandles : BlocksOf(h)' = BlocksOf(h)
    BY DEF BlocksOf
  <1>4. \A f \in Numbers : Open(f)' => f \in given' \/ \E h \in 1..MaxHandles : Names(h, f)'
    BY <1>2 DEF NothingOrphaned
  <1>5. blocks' = UNION {BlocksOf(h)' : h \in {g \in 1..MaxHandles : Live(g)'}}
    BY <1>3 DEF NothingOrphaned
  <1> QED BY <1>1, <1>4, <1>5 DEF NothingOrphaned

\* A new handle brings its key block and nothing else.
LEMMA RegisteredKeeps ==
  ASSUME STypeOK, NothingOrphaned, NEW f \in Numbers, NEW k \in {"file", "dir"},
         Registered(f, k), given' = given,
         \A g \in Numbers : Open(g)' => Open(g) \/ g = f
  PROVE  STypeOK' /\ NothingOrphaned'
  <1> USE MaxHandlesAssumption
  <1>0. PICK n \in 1..MaxHandles : n = opened + 1  BY DEF STypeOK, Registered
  <1>1. ~Live(n)  BY <1>0 DEF STypeOK
  <1>2. /\ handles'[n] = NewHandle(f, k)
        /\ \A h \in 1..MaxHandles : h # n => handles'[h] = handles[h]
        /\ opened' = n /\ blocks' = blocks \cup {<<n, "key">>}
    BY <1>0 DEF STypeOK, Registered
  <1>3. handles'[n].fd = f /\ handles'[n].kind = k /\ handles'[n].dirent = FALSE
    BY <1>2 DEF NewHandle
  <1>4. /\ Live(n)' /\ \A h \in 1..MaxHandles : h # n => (Live(h)' <=> Live(h))
    BY <1>2, <1>3 DEF Live
  <1>5. handles' \in [1..MaxHandles ->
                        [fd : Numbers \cup {None}, kind : {"none", "file", "dir"},
                         full : BOOLEAN, dirent : BOOLEAN]]
    BY DEF STypeOK, Registered, NewHandle
  <1>6. STypeOK'
    <2>1. ASSUME NEW h \in 1..MaxHandles
          PROVE  /\ Live(h)' => handles'[h].fd \in Numbers
                 /\ h > opened' => ~Live(h)'
      <3>1. CASE h = n  BY <3>1, <1>2, <1>3, <1>4
      <3>2. CASE h # n  BY <3>2, <1>0, <1>2, <1>4 DEF STypeOK
      <3> QED BY <3>1, <3>2
    <2>2. opened' \in 0..MaxHandles  BY <1>2
    <2> QED BY <1>5, <2>1, <2>2 DEF STypeOK
  <1>7. \A g \in Numbers : Open(g)' => g \in given' \/ \E h \in 1..MaxHandles : Names(h, g)'
    <2> SUFFICES ASSUME NEW g \in Numbers, Open(g)'
                 PROVE  g \in given' \/ \E h \in 1..MaxHandles : Names(h, g)'
      OBVIOUS
    <2>1. CASE g = f  BY <2>1, <1>1, <1>3, <1>4 DEF Names
    <2>2. CASE g # f
      <3>1. g \in given \/ \E h \in 1..MaxHandles : Names(h, g)
        BY <2>2 DEF NothingOrphaned
      <3>2. \A h \in 1..MaxHandles : Names(h, g) => Names(h, g)'
        BY <1>1, <1>2, <1>4 DEF Names
      <3> QED BY <3>1, <3>2
    <2> QED BY <2>1, <2>2
  <1>8. BlocksOf(n)' = {<<n, "key">>}  BY <1>3 DEF BlocksOf
  <1>9. \A h \in 1..MaxHandles : h # n => BlocksOf(h)' = BlocksOf(h)
    BY <1>2 DEF BlocksOf
  <1>10. blocks' = UNION {BlocksOf(h)' : h \in {g \in 1..MaxHandles : Live(g)'}}
    BY <1>1, <1>2, <1>4, <1>8, <1>9 DEF NothingOrphaned
  <1> QED BY <1>6, <1>7, <1>10 DEF NothingOrphaned

\* A handle that goes takes its blocks with it and no others.
LEMMA UnregisteredKeeps ==
  ASSUME STypeOK, NothingOrphaned, NEW n \in 1..MaxHandles, Live(n),
         SilentlyClosed(handles[n].fd), Unregistered(n), slot \in [Numbers -> Slots]
  PROVE  STypeOK' /\ NothingOrphaned'
  <1> DEFINE f == handles[n].fd
  <1>1. f \in Numbers  BY DEF STypeOK
  <1>2. /\ handles'[n] = NoHandle
        /\ \A h \in 1..MaxHandles : h # n => handles'[h] = handles[h]
        /\ opened' = opened /\ blocks' = blocks \ BlocksOf(n)
    BY DEF STypeOK, Unregistered
  <1>3. ~Live(n)' /\ \A h \in 1..MaxHandles : h # n => (Live(h)' <=> Live(h))
    BY <1>2 DEF Live, NoHandle
  <1>4. handles' \in [1..MaxHandles ->
                        [fd : Numbers \cup {None}, kind : {"none", "file", "dir"},
                         full : BOOLEAN, dirent : BOOLEAN]]
    BY DEF STypeOK, Unregistered, NoHandle
  <1>5. STypeOK'
    BY <1>2, <1>3, <1>4 DEF STypeOK, NoHandle
  <1>6. \A g \in Numbers : Open(g)' => Open(g) /\ g # f
    BY <1>1 DEF SilentlyClosed, Open
  <1>7. \A g \in Numbers : Open(g)' => g \in given' \/ \E h \in 1..MaxHandles : Names(h, g)'
    <2> SUFFICES ASSUME NEW g \in Numbers, Open(g)'
                 PROVE  g \in given' \/ \E h \in 1..MaxHandles : Names(h, g)'
      OBVIOUS
    <2>1. g # f /\ (g \in given \/ \E h \in 1..MaxHandles : Names(h, g))
      BY <1>6 DEF NothingOrphaned
    <2>2. \A h \in 1..MaxHandles : Names(h, g) => h # n /\ Names(h, g)'
      BY <2>1, <1>2, <1>3 DEF Names
    <2> QED BY <2>1, <2>2 DEF SilentlyClosed
  <1>8. \A h \in 1..MaxHandles : h # n => BlocksOf(h)' = BlocksOf(h)
    BY <1>2 DEF BlocksOf
  <1>9. \A h \in 1..MaxHandles : h # n => BlocksOf(h) \cap BlocksOf(n) = {}
    BY DEF BlocksOf
  <1>10. blocks' = UNION {BlocksOf(h)' : h \in {g \in 1..MaxHandles : Live(g)'}}
    BY <1>2, <1>3, <1>8, <1>9 DEF NothingOrphaned
  <1> QED BY <1>5, <1>7, <1>10 DEF NothingOrphaned

-----------------------------------------------------------------------------
(* One lemma per kind of step.                                               *)

\* Opening a stream: as open on numbers, with a handle for it, or nothing.
LEMMA OpensKeeps ==
  ASSUME SInv, NEW f \in Numbers, NEW k \in {"file", "dir"}, Opens(f, k) PROVE SInv'
  <1>1. CASE UNCHANGED <<slot, streams>>
    <2>1. UNCHANGED <<hvars, streams, given>>  BY <1>1 DEF Opens, hvars, cache
    <2>2. IInv'
      BY <2>1 DEF SInv, IInv, hvars, HTypeOK, KernelOK, CacheExact, ClosedForgotten, Open
    <2>3. STypeOK' /\ NothingOrphaned'
      BY <2>1 DEF SInv, STypeOK, NothingOrphaned, hvars, streams, Open, Live, Names, BlocksOf
    <2> QED BY <2>2, <2>3 DEF SInv
  <1>2. CASE Registered(f, k) /\ slot' = [slot EXCEPT ![f] = File]
    <2>1. OpenFile(f)  BY <1>2 DEF Opens, OpenFile
    <2>2. IInv'  BY <2>1, OpenFileKeeps DEF SInv
    <2>3. \A g \in Numbers : Open(g)' => Open(g) \/ g = f
      BY <1>2 DEF Open, SInv, IInv, HTypeOK
    <2>4. given' = given  BY DEF Opens
    <2>5. STypeOK' /\ NothingOrphaned'
      BY <1>2, <2>3, <2>4, RegisteredKeeps DEF SInv
    <2> QED BY <2>2, <2>5 DEF SInv
  <1> QED BY <1>1, <1>2 DEF Opens

\* Wrapping a number of the guest: a handle for it, or the number is closed.
LEMMA WrapsKeeps ==
  ASSUME SInv, NEW f \in Numbers, NEW k \in {"file", "dir"}, Wraps(f, k) PROVE SInv'
  <1>1. CASE Registered(f, k) /\ UNCHANGED <<slot, clean, unnoted, given>>
    <2>1. UNCHANGED hvars /\ given' = given  BY <1>1 DEF Wraps, hvars, cache
    <2>2. IInv'
      BY <2>1 DEF SInv, IInv, hvars, HTypeOK, KernelOK, CacheExact, ClosedForgotten, Open
    <2>3. STypeOK' /\ NothingOrphaned'
      BY <1>1, <2>1, RegisteredKeeps DEF SInv, hvars, Open
    <2> QED BY <2>2, <2>3 DEF SInv
  <1>2. CASE SilentlyClosed(f) /\ UNCHANGED streams
    <2>1. UNCHANGED <<bytes, made, reader, pending>>  BY DEF Wraps, cache
    <2>2. IInv'
      <3>1. \A p \in Pipes : p > made => bytes[p] = 0  BY DEF SInv, IInv, KernelOK
      <3>2. bytes' \in [Pipes -> 0..Capacity]  BY <2>1 DEF SInv, IInv, HTypeOK
      <3> QED BY <1>2, <2>1, <3>1, <3>2, SilentKeeps DEF SInv
    <2>3. /\ \A g \in Numbers : Open(g)' => Open(g) /\ g # f
          /\ given' = given \ {f}
      BY <1>2 DEF SilentlyClosed, Open, SInv, IInv, HTypeOK
    <2>4. STypeOK' /\ NothingOrphaned'
      BY <1>2, <2>3, StreamsSame DEF SInv, STypeOK, streams, Live
    <2> QED BY <2>2, <2>4 DEF SInv
  <1> QED BY <1>1, <1>2 DEF Wraps

\* Closing a stream.
LEMMA ClosingKeeps ==
  ASSUME SInv, NEW h \in 1..MaxHandles, Fclose(h) \/ Closedir(h) PROVE SInv'
  <1>1. /\ Live(h) /\ SilentlyClosed(handles[h].fd) /\ Unregistered(h)
        /\ UNCHANGED <<made, reader, pending>>
    BY DEF Fclose, Closedir, cache
  <1>2. handles[h].fd \in Numbers  BY <1>1 DEF SInv, STypeOK
  <1>3. /\ bytes' \in [Pipes -> 0..Capacity]
        /\ \A p \in clean' : bytes'[p] = bytes[p]
        /\ \A p \in Pipes : p > made => bytes'[p] = 0
    <2>1. CASE Closedir(h)
      BY <2>1 DEF Closedir, SInv, IInv, HTypeOK, KernelOK
    <2>2. CASE Fclose(h)
      <3>1. Flushed({h})  BY <2>2 DEF Fclose
      <3>2. clean' = clean \ {slot[handles[h].fd].pipe} /\ clean \subseteq Pipes
        BY <1>1, DescriptorConstants DEF SilentlyClosed, SInv, IInv, HTypeOK, Pipes
      <3>3. Kinds(slot)  BY SlotKinds DEF SInv, IInv, HTypeOK
      <3>4. \A p \in clean' : Feeding({h}, p) = {}
        BY <1>2, <3>2, <3>3 DEF Feeding, Kinds
      <3> QED BY <3>1, <3>2, <3>4, FlushFacts DEF SInv
    <2> QED BY <2>1, <2>2
  <1>4. IInv'  BY <1>1, <1>2, <1>3, SilentKeeps DEF SInv
  <1>5. STypeOK' /\ NothingOrphaned'
    BY <1>1, UnregisteredKeeps DEF SInv, IInv, HTypeOK
  <1> QED BY <1>4, <1>5 DEF SInv

\* Reading and writing through streams, and past them.
LEMMA InputOutputKeeps ==
  ASSUME SInv,
         \/ \E h \in 1..MaxHandles : Fread(h) \/ Fwrite(h) \/ Fileno(h)
         \/ \E f \in Numbers : FputsStandard(f)
  PROVE  SInv'
  <1> USE DescriptorConstants
  <1>1. Kinds(slot)  BY SlotKinds DEF SInv, IInv, HTypeOK
  <1>2. ASSUME NEW h \in 1..MaxHandles, Fread(h) PROVE SInv'
    <2> DEFINE p == slot[handles[h].fd].pipe
    <2>1. handles[h].fd \in Numbers  BY <1>2 DEF Fread, SInv, STypeOK
    <2>2. p \in Pipes /\ p <= made
      BY <1>1, <1>2, <2>1 DEF Fread, Kinds, SInv, IInv, KernelOK
    <2>3. /\ bytes' = [bytes EXCEPT ![p] = 0] /\ clean' = clean \ {p}
          /\ UNCHANGED <<slot, made, reader, pending, unnoted, streams, given>>
      BY <1>2 DEF Fread, cache
    <2>4. /\ bytes' \in [Pipes -> 0..Capacity] /\ clean' \subseteq clean
          /\ \A q \in clean' : bytes'[q] = bytes[q]
          /\ \A q \in Pipes : q > made => bytes'[q] = 0
      BY <2>2, <2>3 DEF SInv, IInv, HTypeOK, KernelOK, Pipes
    <2>5. IInv'  BY <2>3, <2>4, DrainKeeps DEF SInv
    <2> QED BY <2>3, <2>5, StreamsSame DEF SInv, streams, STypeOK, Live, Open
  <1>3. ASSUME NEW f \in Numbers, FputsStandard(f) PROVE SInv'
    <2> DEFINE p == slot[f].pipe
    <2>1. p \in Pipes /\ p <= made
      BY <1>1, <1>3 DEF FputsStandard, Kinds, SInv, IInv, KernelOK
    <2>2. /\ bytes' = [bytes EXCEPT ![p] = @ + 1] /\ clean' = clean \ {p}
          /\ bytes[p] < Capacity
          /\ UNCHANGED <<slot, made, reader, pending, unnoted, streams, given>>
      BY <1>3 DEF FputsStandard, cache
    <2>3. bytes' \in [Pipes -> 0..Capacity]
      BY <2>1, <2>2 DEF SInv, IInv, HTypeOK
    <2>4. /\ clean' \subseteq clean
          /\ \A q \in clean' : bytes'[q] = bytes[q]
          /\ \A q \in Pipes : q > made => bytes'[q] = 0
      BY <2>1, <2>2 DEF SInv, IInv, HTypeOK, KernelOK, Pipes
    <2>5. IInv'  BY <2>2, <2>3, <2>4, DrainKeeps DEF SInv
    <2> QED BY <2>2, <2>5, StreamsSame DEF SInv, streams, STypeOK, Live, Open
  <1>4. ASSUME NEW h \in 1..MaxHandles, Fwrite(h) \/ Fileno(h) PROVE SInv'
    <2>1. UNCHANGED hvars /\ opened' = opened /\ blocks' = blocks /\ given \subseteq given'
      BY <1>4 DEF Fwrite, Fileno, streams
    <2>2. IInv'
      BY <2>1 DEF SInv, IInv, hvars, HTypeOK, KernelOK, CacheExact, ClosedForgotten, Open
    <2>3. handles' = handles \/ handles' = [handles EXCEPT ![h].full = TRUE]
      BY <1>4 DEF Fwrite, Fileno, streams
    <2>4. handles' \in [1..MaxHandles ->
                          [fd : Numbers \cup {None}, kind : {"none", "file", "dir"},
                           full : BOOLEAN, dirent : BOOLEAN]]
      BY <2>3, ZenonT(60) DEF SInv, STypeOK
    <2>5. \A g \in 1..MaxHandles : /\ handles'[g].fd = handles[g].fd
                                   /\ handles'[g].kind = handles[g].kind
                                   /\ handles'[g].dirent = handles[g].dirent
      <3>1. CASE handles' = handles  BY <3>1
      <3>2. CASE handles' = [handles EXCEPT ![h].full = TRUE]
        <4>1. \A g \in 1..MaxHandles : g # h => handles'[g] = handles[g]
          BY <3>2 DEF SInv, STypeOK
        <4>2. /\ handles'[h].fd = handles[h].fd /\ handles'[h].kind = handles[h].kind
              /\ handles'[h].dirent = handles[h].dirent
          BY <3>2 DEF SInv, STypeOK
        <4> QED BY <4>1, <4>2
      <3> QED BY <3>1, <3>2, <2>3
    <2>6. \A g \in 1..MaxHandles : Live(g)' <=> Live(g)  BY <2>5 DEF Live
    <2>7. STypeOK' /\ NothingOrphaned'
      BY <2>1, <2>4, <2>5, <2>6, StreamsSame DEF SInv, hvars, Open
    <2> QED BY <2>2, <2>7 DEF SInv
  <1> QED BY <1>2, <1>3, <1>4

\* Flushing some streams, known or all of them.
LEMMA FflushKeeps ==
  ASSUME SInv, NEW H \in SUBSET (1..MaxHandles), Fflush(H) PROVE SInv'
  <1>1. /\ bytes' \in [Pipes -> 0..Capacity]
        /\ \A p \in Pipes : Feeding(H, p) = {} => bytes'[p] = bytes[p]
        /\ \A p \in Pipes : p > made => bytes'[p] = 0
    BY FlushFacts DEF Fflush, SInv
  <1>2. /\ UNCHANGED <<slot, made, reader, pending, unnoted, opened, blocks, given>>
        /\ clean' = clean \ {p \in Pipes : Feeding(H, p) # {}}
    BY DEF Fflush, cache
  <1>3. \A p \in clean' : bytes'[p] = bytes[p]
    BY <1>1, <1>2, DescriptorConstants DEF SInv, IInv, HTypeOK, Pipes
  <1>4. IInv'  BY <1>1, <1>2, <1>3, DrainKeeps DEF SInv
  <1>5. \A h \in 1..MaxHandles :
          handles'[h] = IF h \in H THEN [handles[h] EXCEPT !.full = FALSE] ELSE handles[h]
    BY DEF Fflush
  <1>6. handles' \in [1..MaxHandles ->
                        [fd : Numbers \cup {None}, kind : {"none", "file", "dir"},
                         full : BOOLEAN, dirent : BOOLEAN]]
    BY ZenonT(60) DEF Fflush, SInv, STypeOK
  <1>7. \A h \in 1..MaxHandles : /\ handles'[h].fd = handles[h].fd
                                 /\ handles'[h].kind = handles[h].kind
                                 /\ handles'[h].dirent = handles[h].dirent
    BY <1>5 DEF SInv, STypeOK
  <1>8. \A h \in 1..MaxHandles : Live(h)' <=> Live(h)  BY <1>7 DEF Live
  <1>9. STypeOK' /\ NothingOrphaned'
    BY <1>2, <1>6, <1>7, <1>8, StreamsSame DEF SInv, Open
  <1> QED BY <1>4, <1>9 DEF SInv

\* The first entry of a directory brings the handle's second block.
LEMMA ReaddirKeeps ==
  ASSUME SInv, NEW n \in 1..MaxHandles, Readdir(n) PROVE SInv'
  <1>1. UNCHANGED hvars /\ opened' = opened /\ given' = given /\ Live(n)
    BY DEF Readdir
  <1>2. IInv'
    BY <1>1 DEF SInv, IInv, hvars, HTypeOK, KernelOK, CacheExact, ClosedForgotten, Open
  <1>3. CASE handles' = handles /\ blocks' = blocks
    BY <1>1, <1>2, <1>3, StreamsSame DEF SInv, hvars, Open, STypeOK, Live
  <1>4. CASE /\ ~handles[n].dirent
             /\ handles' = [handles EXCEPT ![n].dirent = TRUE]
             /\ blocks' = blocks \cup {<<n, "dirent">>}
    <2>1. handles' \in [1..MaxHandles ->
                          [fd : Numbers \cup {None}, kind : {"none", "file", "dir"},
                           full : BOOLEAN, dirent : BOOLEAN]]
      BY <1>4, ZenonT(60) DEF SInv, STypeOK
    <2>2. /\ handles'[n].dirent /\ handles'[n].fd = handles[n].fd
          /\ handles'[n].kind = handles[n].kind
          /\ \A h \in 1..MaxHandles : h # n => handles'[h] = handles[h]
      BY <1>4 DEF SInv, STypeOK
    <2>3. \A h \in 1..MaxHandles : Live(h)' <=> Live(h)  BY <2>2 DEF Live
    <2>4. STypeOK'
      BY <1>1, <2>1, <2>2, <2>3 DEF SInv, STypeOK
    <2>5. \A h \in 1..MaxHandles, f \in Numbers : Names(h, f)' <=> Names(h, f)
      BY <2>2, <2>3 DEF Names
    <2>6. \A f \in Numbers : Open(f)' => f \in given' \/ \E h \in 1..MaxHandles : Names(h, f)'
      BY <1>1, <2>5 DEF SInv, NothingOrphaned, hvars, Open
    <2>7. BlocksOf(n)' = BlocksOf(n) \cup {<<n, "dirent">>}
      BY <2>2, <1>4 DEF BlocksOf
    <2>8. \A h \in 1..MaxHandles : h # n => BlocksOf(h)' = BlocksOf(h)
      BY <2>2 DEF BlocksOf
    <2>9. blocks' = UNION {BlocksOf(h)' : h \in {g \in 1..MaxHandles : Live(g)'}}
      BY <1>1, <1>4, <2>3, <2>7, <2>8 DEF SInv, NothingOrphaned
    <2> QED BY <1>2, <2>4, <2>6, <2>9 DEF SInv, NothingOrphaned
  <1> QED BY <1>3, <1>4 DEF Readdir

\* A call on numbers.
LEMMA OnNumbersKeeps == ASSUME SInv, OnNumbers PROVE SInv'
  <1>1. IInv'  BY NumbersKeep DEF OnNumbers, SInv
  <1>2. given' = {f \in Numbers : slot'[f] # Free /\ (f \in given \/ slot'[f] # slot[f])}
    BY DEF OnNumbers
  <1>3. /\ \A f \in Numbers : Open(f)' => Open(f) \/ f \in given'
        /\ \A f \in Numbers : Open(f)' /\ f \in given => f \in given'
    BY <1>2 DEF Open
  <1>4. STypeOK' /\ NothingOrphaned'
    BY <1>3, StreamsSame DEF OnNumbers, SInv, STypeOK, streams, Live
  <1> QED BY <1>1, <1>4 DEF SInv

\* The invariant holds at the start and after every step of any guest.
THEOREM StreamsInvariant == SSpec => []SInv
  <1>1. SInit => SInv
    <2> SUFFICES ASSUME SInit PROVE SInv  OBVIOUS
    <2>1. IInv  BY InitInvariant DEF SInit
    <2>2. STypeOK  BY MaxHandlesAssumption DEF SInit, STypeOK, NoHandle, Live
    <2>3. NothingOrphaned
      BY DEF SInit, HInit, NothingOrphaned, Open, Live, NoHandle
    <2> QED BY <2>1, <2>2, <2>3 DEF SInv
  <1>2. SInv /\ [SNext]_svars => SInv'
    <2> SUFFICES ASSUME SInv, [SNext]_svars PROVE SInv'  OBVIOUS
    <2>1. CASE UNCHANGED svars
      BY <2>1 DEF SInv, IInv, svars, hvars, streams, HTypeOK, KernelOK, CacheExact,
                  ClosedForgotten, STypeOK, NothingOrphaned, Open, Live, Names, BlocksOf
    <2>2. CASE SNext
      BY <2>2, OnNumbersKeeps, OpensKeeps, WrapsKeeps, InputOutputKeeps, ReaddirKeeps,
         ClosingKeeps, FflushKeeps
         DEF SNext, Fopen, Popen, Opendir, Fdopen, Fdopendir
    <2> QED BY <2>1, <2>2
  <1> QED BY <1>1, <1>2, PTL DEF SSpec

\* The tables are exact for clean pipes, whatever the guest does with its
\* numbers and streams (CacheExact, ClosedForgotten).
THEOREM TablesExact == SSpec => [](CacheExact /\ ClosedForgotten)
  <1>1. SInv => CacheExact /\ ClosedForgotten  BY DEF SInv, IInv
  <1> QED BY <1>1, StreamsInvariant, PTL

\* Nothing of the host stays open without somebody who can close it, and no
\* block stays on the guest's heap without its stream (NothingOrphaned).
THEOREM OrphansNever == SSpec => []NothingOrphaned
  <1>1. SInv => NothingOrphaned  BY DEF SInv
  <1> QED BY <1>1, StreamsInvariant, PTL

\* select reports exactly what is readable among files and clean pipes
\* (SelectHonest): where the host is silent the tables, being exact, are too.
THEOREM SelectIsHonest == SSpec => []SelectHonest
  <1>1. ASSUME IInv PROVE SelectHonest
    <2>1. Kinds(slot)  BY <1>1, SlotKinds DEF IInv, HTypeOK
    <2>2. ASSUME NEW R \in SUBSET Numbers, Sound(R), {f \in R : Readable(f)} = {}
          PROVE  Tracked(R) = {}
      <3> SUFFICES ASSUME NEW f \in R, pending[f] # None, pending[f] > 0 PROVE FALSE
        BY DEF Tracked
      <3>1. ~Readable(f)  BY <2>2
      <3>2. slot[f].end = "read" /\ slot[f].pipe \in clean
        BY <2>2, <3>1 DEF Sound, Readable
      <3>3. pending[f] = bytes[slot[f].pipe]  BY <1>1, <3>2 DEF IInv, CacheExact
      <3> QED BY <3>1, <3>2, <3>3 DEF Readable
    <2>3. ASSUME NEW R \in SUBSET Numbers, NEW hits \in {0, 1}, Sound(R),
                 {f \in R : Readable(f)} # {} \/ hits = 0
          PROVE  Reported(R, hits) = {{f \in R : Readable(f)}}
      <3>1. CASE {f \in R : Readable(f)} # {}  BY <3>1 DEF Reported
      <3>2. CASE {f \in R : Readable(f)} = {} /\ hits = 0
        <4>1. Tracked(R) = {}  BY <2>2, <2>3, <3>2
        <4>2. IsFiniteSet(Numbers)  BY FS_Interval, DescriptorConstants DEF Numbers
        <4>3. \A S \in SUBSET R : IsFiniteSet(S)  BY <4>2, FS_Subset
        <4>4. IsFiniteSet(R)  BY <4>2, FS_Subset
        <4>5. \A S \in SUBSET R : Cardinality(S) = 0 <=> S = {}
          BY <4>3, FS_EmptySet
        <4>6. Cardinality(R) \in Nat  BY <4>4, FS_CardinalityType
        <4>7. ~(Cardinality(R) < hits)  BY <4>6, <3>2
        <4>8. Reported(R, hits) = {S \in SUBSET R : \/ Cardinality(S) = hits
                                                    \/ Cardinality(R) < hits /\ S = R}
          BY <3>2, <4>1 DEF Reported
        <4>9. Reported(R, hits) = {S \in SUBSET R : S = {}}
          BY <3>2, <4>5, <4>7, <4>8
        <4> QED BY <3>2, <4>9
      <3> QED BY <2>3, <3>1, <3>2
    <2>4. ASSUME NEW f \in Numbers, Sound({f}), ~Readable(f)
          PROVE  ReportedInferred(f) = {}
      <3>1. Tracked({f}) = {}  BY <2>2, <2>4
      <3> QED BY <3>1, <2>4 DEF ReportedInferred
    <2> QED BY <2>3, <2>4 DEF SelectHonest
  <1>2. SInv => SelectHonest  BY <1>1 DEF SInv
  <1> QED BY <1>2, StreamsInvariant, PTL

-------------------------------------------------------------------------------
(***************************************************************************)
(* HostResults.  First, walks along the pointers.                          *)
(***************************************************************************)
Links == [Blocks -> 0..MaxTop]
WalksTo(nx, b, w) == w = [i \in 0..Limit |-> IF i = 0 THEN b ELSE IF w[i - 1] = 0 THEN 0 ELSE nx[w[i - 1]]]
Walk(nx, b) == CHOOSE w : WalksTo(nx, b, w)
\* Links lead to later blocks.
Onward(nx) == \A x \in Blocks : nx[x] = 0 \/ x < nx[x]

LEMMA ResultNumbers == Limit \in Nat /\ MaxTop \in Nat /\ Blocks = 1..MaxTop
BY ResultsAssumption DEF Blocks

LEMMA WalkSteps ==
  ASSUME NEW nx \in Links, NEW b \in 0..MaxTop
  PROVE  /\ Walk(nx, b)[0] = b /\ \A i \in 0..Limit : Walk(nx, b)[i] \in 0..MaxTop
         /\ \A i \in 1..Limit : Walk(nx, b)[i] = IF Walk(nx, b)[i - 1] = 0 THEN 0 ELSE nx[Walk(nx, b)[i - 1]]
<1> DEFINE St == 0..MaxTop
           go == [x \in St |-> IF x = 0 THEN 0 ELSE nx[x]]
           F == [i \in 1..Limit |-> go]
           w == Walk(nx, b)
<1>1. Limit \in Nat /\ \A x \in St : x # 0 => x \in Blocks
  BY ResultNumbers
<1>2. go \in [St -> St]
  BY <1>1, ResultNumbers DEF Links
<1> HIDE DEF go
<1>3. F \in [1..Limit -> [St -> St]] /\ b \in St
  BY <1>2
<1>4. PICK f : Stepped(b, F, Limit, f) /\ \A i \in 0..Limit : f[i] \in St
  <2> HIDE DEF F, St
  <2> QED BY <1>1, <1>3, StepsExist
<1>5. \A i \in 0..Limit : i # 0 => i \in 1..Limit /\ i - 1 \in 0..Limit
  BY <1>1
<1>6. WalksTo(nx, b, f)
  <2>1. f = [i \in 0..Limit |-> IF i = 0 THEN b ELSE F[i][f[i - 1]]]
    BY <1>4 DEF Stepped
  <2>2. \A i \in 0..Limit : i # 0 => F[i][f[i - 1]] = IF f[i - 1] = 0 THEN 0 ELSE nx[f[i - 1]]
    BY <1>4, <1>5 DEF go
  <2> HIDE DEF F
  <2> QED BY <2>1, <2>2 DEF WalksTo
<1>7. WalksTo(nx, b, w)
  BY <1>6 DEF Walk
<1> HIDE DEF w
<1>8. w[0] = b /\ \A i \in 1..Limit : w[i] = IF w[i - 1] = 0 THEN 0 ELSE nx[w[i - 1]]
  <2>1. 0 \in 0..Limit /\ \A i \in 1..Limit : i \in 0..Limit /\ i # 0
    BY <1>1
  <2> QED BY <1>7, <2>1 DEF WalksTo
<1> DEFINE Good == [i \in 0..Limit |-> St]
<1>9. w[0] \in Good[0]
  BY <1>1, <1>8
<1>10. ASSUME NEW i \in 1..Limit, w[i - 1] \in Good[i - 1] PROVE w[i] \in Good[i]
  <2>1. i - 1 \in 0..Limit /\ i \in 0..Limit
    BY <1>1
  <2>2. w[i - 1] \in St
    BY <1>10, <2>1
  <2>3. w[i] \in St
    BY <1>1, <1>8, <2>2, ResultNumbers DEF Links
  <2> QED BY <2>1, <2>3
<1> HIDE DEF Good
<1>11. \A i \in 0..Limit : w[i] \in Good[i]
  BY <1>1, <1>9, <1>10, EachStep
<1>12. \A i \in 0..Limit : w[i] \in St
  BY <1>11 DEF Good
<1> QED BY <1>8, <1>12 DEF w

LEMMA VisitedIs == ASSUME NEW b PROVE Visited(b) = {Walk(next, b)[i] : i \in 0..Limit - 1} \ {0}
BY DEF Visited, Walk, WalksTo

\* Walks that meet the same links are the same.
LEMMA WalkSame ==
  ASSUME NEW nx \in Links, NEW ny \in Links, NEW b \in 0..MaxTop,
         \A i \in 0..Limit - 1 : Walk(nx, b)[i] # 0 => ny[Walk(nx, b)[i]] = nx[Walk(nx, b)[i]]
  PROVE  \A i \in 0..Limit : Walk(ny, b)[i] = Walk(nx, b)[i]
<1> DEFINE w == Walk(nx, b)
           v == Walk(ny, b)
           Good == [i \in 0..Limit |-> {w[i]}]
<1>1. Limit \in Nat
  BY ResultNumbers
<1>2. w[0] = b /\ \A i \in 1..Limit : w[i] = IF w[i - 1] = 0 THEN 0 ELSE nx[w[i - 1]]
  BY WalkSteps
<1>3. v[0] = b /\ \A i \in 1..Limit : v[i] = IF v[i - 1] = 0 THEN 0 ELSE ny[v[i - 1]]
  BY WalkSteps
<1>4. \A i \in 0..Limit - 1 : w[i] # 0 => ny[w[i]] = nx[w[i]]
  OBVIOUS
<1> HIDE DEF w, v
<1>5. v[0] \in Good[0]
  BY <1>1, <1>2, <1>3
<1>6. ASSUME NEW i \in 1..Limit, v[i - 1] \in Good[i - 1] PROVE v[i] \in Good[i]
  <2>1. i - 1 \in 0..Limit - 1 /\ i - 1 \in 0..Limit /\ i \in 0..Limit
    BY <1>1
  <2>2. v[i - 1] = w[i - 1]
    BY <1>6, <2>1
  <2>3. v[i] = w[i]
    BY <1>2, <1>3, <1>4, <2>1, <2>2
  <2> QED BY <2>1, <2>3
<1> HIDE DEF Good
<1>7. \A i \in 0..Limit : v[i] \in Good[i]
  BY <1>1, <1>5, <1>6, EachStep
<1>8. \A i \in 0..Limit : v[i] = w[i]
  BY <1>7 DEF Good
<1> QED BY <1>8 DEF v, w

\* A walk along onward links goes up until it ends.
LEMMA WalkUp ==
  ASSUME NEW nx \in Links, Onward(nx), NEW b \in 0..MaxTop
  PROVE  \A j \in 0..Limit : Walk(nx, b)[j] # 0 =>
           \A i \in 0..j - 1 : Walk(nx, b)[i] # 0 /\ Walk(nx, b)[i] < Walk(nx, b)[j]
<1> DEFINE w == Walk(nx, b)
           Below(j) == {x \in 0..MaxTop : x # 0 => \A i \in 0..j - 1 : w[i] # 0 /\ w[i] < x}
           Good == [j \in 0..Limit |-> Below(j)]
<1>1. Limit \in Nat /\ MaxTop \in Nat /\ Blocks = 1..MaxTop
  BY ResultNumbers
<1>2. /\ w[0] = b /\ (\A i \in 1..Limit : w[i] = IF w[i - 1] = 0 THEN 0 ELSE nx[w[i - 1]])
      /\ \A i \in 0..Limit : w[i] \in 0..MaxTop
  BY WalkSteps
<1> HIDE DEF w
<1>3. w[0] \in Below(0)
  BY <1>1, <1>2
<1>4. ASSUME NEW j \in 1..Limit, w[j - 1] \in Below(j - 1) PROVE w[j] \in Below(j)
  <2>1. j - 1 \in 0..Limit /\ j \in 0..Limit
    BY <1>1
  <2>2. ASSUME w[j] # 0, NEW i \in 0..j - 1 PROVE w[i] # 0 /\ w[i] < w[j]
    <3>1. w[j - 1] # 0 /\ w[j] = nx[w[j - 1]] /\ w[j - 1] \in Blocks
      BY <1>1, <1>2, <2>1, <2>2
    <3>2. w[j - 1] < w[j]
      BY <2>2, <3>1 DEF Onward
    <3>3. CASE i = j - 1
      BY <3>1, <3>2, <3>3
    <3>4. CASE i # j - 1
      <4>1. i \in 0..(j - 1) - 1 /\ i \in 0..Limit
        BY <1>1, <3>4
      <4>2. w[i] # 0 /\ w[i] < w[j - 1]
        BY <1>4, <3>1, <4>1
      <4>3. w[i] \in Nat /\ w[j - 1] \in Nat /\ w[j] \in Nat
        BY <1>1, <1>2, <2>1, <4>1
      <4> QED BY <3>2, <4>2, <4>3
    <3> QED BY <3>3, <3>4
  <2>3. w[j] \in 0..MaxTop
    BY <1>2, <2>1
  <2> QED BY <2>2, <2>3
<1> HIDE DEF Below
<1>5. w[0] \in Good[0] /\ \A j \in 1..Limit : w[j - 1] \in Good[j - 1] => w[j] \in Good[j]
  <2>1. 0 \in 0..Limit /\ \A j \in 1..Limit : j \in 0..Limit /\ j - 1 \in 0..Limit
    BY <1>1
  <2> QED BY <1>3, <1>4, <2>1
<1>6. \A j \in 0..Limit : w[j] \in Good[j]
  <2> HIDE DEF Good
  <2> QED BY <1>1, <1>5, EachStep
<1>7. \A j \in 0..Limit : w[j] \in Below(j)
  BY <1>6
<1> QED BY <1>7 DEF w, Below

\* A walk cut in two behind its m-th node, along links from which that one is taken.
LEMMA WalkCut ==
  ASSUME NEW nx \in Links, NEW ny \in Links, Onward(nx), NEW s \in 0..MaxTop, NEW b \in Blocks,
         NEW c \in Blocks, c = nx[b], ny[b] = 0, \A x \in Blocks : x # b => ny[x] = nx[x],
         NEW m \in 0..Limit - 1, Walk(nx, s)[m] = b, Walk(nx, s)[Limit] = 0
  PROVE  /\ \A i \in 0..Limit : Walk(ny, s)[i] = IF i <= m THEN Walk(nx, s)[i] ELSE 0
         /\ \A i \in 0..Limit : Walk(ny, c)[i] = IF m + 1 + i <= Limit THEN Walk(nx, s)[m + 1 + i] ELSE 0
<1> DEFINE w == Walk(nx, s)
           v == Walk(ny, s)
           u == Walk(ny, c)
<1>1. Limit \in Nat /\ MaxTop \in Nat /\ Blocks = 1..MaxTop /\ m \in Nat /\ m < Limit
  BY ResultNumbers
<1>2. /\ w[0] = s /\ (\A i \in 1..Limit : w[i] = IF w[i - 1] = 0 THEN 0 ELSE nx[w[i - 1]])
      /\ \A i \in 0..Limit : w[i] \in 0..MaxTop
  BY WalkSteps
<1>3. v[0] = s /\ \A i \in 1..Limit : v[i] = IF v[i - 1] = 0 THEN 0 ELSE ny[v[i - 1]]
  BY WalkSteps
<1>4. u[0] = c /\ \A i \in 1..Limit : u[i] = IF u[i - 1] = 0 THEN 0 ELSE ny[u[i - 1]]
  <2>1. c \in 0..MaxTop
    BY <1>1
  <2> QED BY <2>1, WalkSteps
<1>5. \A j \in 0..Limit : w[j] # 0 => \A i \in 0..j - 1 : w[i] # 0 /\ w[i] < w[j]
  BY WalkUp
<1>6. w[m] = b /\ w[Limit] = 0
  OBVIOUS
<1> HIDE DEF w, v, u
<1>7. \A i \in 0..Limit : i # m /\ w[i] # 0 => w[i] # b /\ w[i] \in Blocks
  <2>1. ASSUME NEW i \in 0..Limit, i # m, w[i] # 0 PROVE w[i] # b
    <3>1. CASE i < m
      <4>1. w[i] < w[m]
        <5>1. i \in 0..m - 1 /\ m \in 0..Limit /\ w[m] # 0
          BY <1>1, <1>6, <3>1
        <5> QED BY <1>5, <5>1
      <4>2. w[i] \in Nat /\ w[m] \in Nat
        BY <1>1, <1>2
      <4> QED BY <1>6, <4>1, <4>2
    <3>2. CASE m < i
      <4>1. w[m] < w[i]
        <5>1. m \in 0..i - 1
          BY <1>1, <3>2
        <5> QED BY <1>5, <2>1, <5>1
      <4>2. w[i] \in Nat /\ w[m] \in Nat
        BY <1>1, <1>2
      <4> QED BY <1>6, <4>1, <4>2
    <3> QED BY <1>1, <2>1, <3>1, <3>2
  <2>2. \A i \in 0..Limit : w[i] # 0 => w[i] \in Blocks
    BY <1>1, <1>2
  <2> QED BY <2>1, <2>2
<1>8. \A i \in 0..Limit : v[i] = IF i <= m THEN w[i] ELSE 0
  <2> DEFINE Good == [i \in 0..Limit |-> {IF i <= m THEN w[i] ELSE 0}]
  <2>1. v[0] \in Good[0]
    BY <1>1, <1>2, <1>3
  <2>2. ASSUME NEW i \in 1..Limit, v[i - 1] \in Good[i - 1] PROVE v[i] \in Good[i]
    <3>1. i - 1 \in 0..Limit /\ i \in 0..Limit
      BY <1>1
    <3>2. v[i - 1] = IF i - 1 <= m THEN w[i - 1] ELSE 0
      BY <2>2, <3>1
    <3>3. v[i] = IF v[i - 1] = 0 THEN 0 ELSE ny[v[i - 1]]
      BY <1>3
    <3>4. w[i] = IF w[i - 1] = 0 THEN 0 ELSE nx[w[i - 1]]
      BY <1>2
    <3>5. CASE i <= m
      <4>1. i - 1 <= m /\ i - 1 # m
        BY <1>1, <3>5
      <4>2. w[i - 1] # 0 => ny[w[i - 1]] = nx[w[i - 1]]
        BY <1>7, <3>1, <4>1
      <4>3. v[i] = w[i]
        BY <3>2, <3>3, <3>4, <4>1, <4>2
      <4> QED BY <3>1, <3>5, <4>3
    <3>6. CASE i = m + 1
      <4>1. i - 1 = m /\ ~(i <= m)
        BY <1>1, <3>6
      <4>2. v[i - 1] = b
        BY <1>1, <1>6, <3>2, <4>1
      <4>3. v[i] = 0
        BY <3>3, <4>2
      <4> QED BY <3>1, <4>1, <4>3
    <3>7. CASE i > m + 1
      <4>1. ~(i - 1 <= m) /\ ~(i <= m)
        BY <1>1, <3>7
      <4>2. v[i] = 0
        BY <3>2, <3>3, <4>1
      <4> QED BY <3>1, <4>1, <4>2
    <3> QED BY <1>1, <3>5, <3>6, <3>7
  <2> HIDE DEF Good
  <2>3. \A i \in 0..Limit : v[i] \in Good[i]
    BY <1>1, <2>1, <2>2, EachStep
  <2> QED BY <2>3 DEF Good
<1>9. \A i \in 0..Limit : u[i] = IF m + 1 + i <= Limit THEN w[m + 1 + i] ELSE 0
  <2> DEFINE G(i) == IF m + 1 + i <= Limit THEN w[m + 1 + i] ELSE 0
             Good == [i \in 0..Limit |-> {G(i)}]
  <2>1. u[0] = G(0)
    <3>1. m + 1 \in 1..Limit /\ (m + 1) - 1 = m /\ m + 1 + 0 = m + 1
      BY <1>1
    <3>2. w[m + 1] = nx[b]
      <4>1. w[m] # 0
        BY <1>1, <1>6
      <4> QED BY <1>2, <1>6, <3>1, <4>1
    <3> QED BY <1>1, <1>4, <3>1, <3>2
  <2>2. ASSUME NEW i \in 1..Limit, u[i - 1] = G(i - 1) PROVE u[i] = G(i)
    <3>1. m + 1 + (i - 1) = m + i /\ m + 1 + i = (m + i) + 1 /\ m + i # m
      BY <1>1
    <3>2. u[i] = IF u[i - 1] = 0 THEN 0 ELSE ny[u[i - 1]]
      BY <1>4
    <3>3. u[i - 1] = IF m + i <= Limit THEN w[m + i] ELSE 0
      BY <2>2, <3>1
    <3>4. CASE (m + i) + 1 <= Limit
      <4>1. m + i <= Limit /\ m + i \in 0..Limit /\ (m + i) + 1 \in 1..Limit /\ ((m + i) + 1) - 1 = m + i
        BY <1>1, <3>4
      <4>2. w[(m + i) + 1] = IF w[m + i] = 0 THEN 0 ELSE nx[w[m + i]]
        BY <1>2, <4>1
      <4>3. w[m + i] # 0 => ny[w[m + i]] = nx[w[m + i]]
        BY <1>7, <3>1, <4>1
      <4> QED BY <3>1, <3>2, <3>3, <3>4, <4>1, <4>2, <4>3
    <3>5. CASE ~((m + i) + 1 <= Limit)
      <4>1. u[i - 1] = 0
        <5>1. CASE m + i = Limit
          BY <1>1, <1>6, <3>3, <5>1
        <5>2. CASE ~(m + i <= Limit)
          BY <3>3, <5>2
        <5>3. m + i = Limit \/ ~(m + i <= Limit)
          BY <1>1, <3>5
        <5> QED BY <5>1, <5>2, <5>3
      <4> QED BY <3>1, <3>2, <3>5, <4>1
    <3> QED BY <3>4, <3>5
  <2> HIDE DEF G
  <2>3. u[0] \in Good[0] /\ \A i \in 1..Limit : u[i - 1] \in Good[i - 1] => u[i] \in Good[i]
    <3>1. 0 \in 0..Limit /\ \A i \in 1..Limit : i \in 0..Limit /\ i - 1 \in 0..Limit
      BY <1>1
    <3> QED BY <2>1, <2>2, <3>1
  <2>4. \A i \in 0..Limit : u[i] \in Good[i]
    <3> HIDE DEF Good
    <3> QED BY <1>1, <2>3, EachStep
  <2> QED BY <2>4 DEF G
<1> QED BY <1>8, <1>9 DEF w, v, u

-------------------------------------------------------------------------------
\* What hangs together, of links and parts that need not be those of a state.
NodesOf(nx, b) == {Walk(nx, b)[i] : i \in 0..Limit - 1} \ {0}
With(pt, n) == {n} \cup pt[n]
Chain(pt, nx, b) == UNION {With(pt, n) : n \in NodesOf(nx, b)}
ListKinds == {"addrinfo", "ifaddrs"}
BlocksIn(pt, nx, h) == IF h.kind \in ListKinds THEN Chain(pt, nx, h.at) ELSE With(pt, h.at)
\* A list ends, and its nodes have parts of their own.
ChainOK(pt, nx, b) ==
  /\ Walk(nx, b)[Limit] = 0
  /\ \A n, m \in NodesOf(nx, b) : n # m => With(pt, n) \cap With(pt, m) = {}

LEMMA HeldIs == ASSUME NEW h PROVE BlocksHeld(h) = BlocksIn(parts, next, h)
BY VisitedIs DEF BlocksHeld, BlocksIn, ListKinds, ListBlocks, Chain, NodesOf, WithParts, With

LEMMA NodesAreBlocks ==
  ASSUME NEW nx \in Links, NEW b \in 0..MaxTop
  PROVE  NodesOf(nx, b) \subseteq Blocks /\ (b # 0 /\ Limit # 0 => b \in NodesOf(nx, b))
         /\ \A x \in NodesOf(nx, b) : \E i \in 0..Limit - 1 : x = Walk(nx, b)[i]
<1>1. Limit \in Nat /\ MaxTop \in Nat /\ Blocks = 1..MaxTop
  BY ResultNumbers
<1>2. Walk(nx, b)[0] = b /\ \A i \in 0..Limit : Walk(nx, b)[i] \in 0..MaxTop
  BY WalkSteps
<1>3. \A i \in 0..Limit - 1 : i \in 0..Limit
  BY <1>1
<1>4. Limit # 0 => 0 \in 0..Limit - 1
  BY <1>1
<1> QED BY <1>1, <1>2, <1>3, <1>4 DEF NodesOf

\* Nothing changes for a result whose blocks are left alone.
LEMMA BlocksSame ==
  ASSUME NEW nx \in Links, NEW ny \in Links, NEW pt, NEW qt, NEW h, h.at \in 0..MaxTop,
         h.kind \in ListKinds => /\ \A x \in NodesOf(nx, h.at) : ny[x] = nx[x] /\ qt[x] = pt[x]
                                 /\ ChainOK(pt, nx, h.at),
         h.kind \notin ListKinds => qt[h.at] = pt[h.at]
  PROVE  /\ BlocksIn(qt, ny, h) = BlocksIn(pt, nx, h)
         /\ h.kind \in ListKinds => NodesOf(ny, h.at) = NodesOf(nx, h.at) /\ ChainOK(qt, ny, h.at)
<1>1. CASE h.kind \notin ListKinds
  BY <1>1 DEF BlocksIn, With
<1>2. CASE h.kind \in ListKinds
  <2> DEFINE s == h.at
             w == Walk(nx, s)
             v == Walk(ny, s)
  <2>1. Limit \in Nat
    BY ResultNumbers
  <2>2. \A i \in 0..Limit - 1 : w[i] # 0 => ny[w[i]] = nx[w[i]]
    BY <1>2 DEF NodesOf
  <2>3. \A i \in 0..Limit : v[i] = w[i]
    <3>1. s \in 0..MaxTop
      OBVIOUS
    <3> HIDE DEF s
    <3> QED BY <2>2, <3>1, WalkSame
  <2>4. Limit \in 0..Limit /\ \A i \in 0..Limit - 1 : i \in 0..Limit
    BY <2>1
  <2>5. NodesOf(ny, s) = NodesOf(nx, s)
    <3> HIDE DEF v, w
    <3>1. \A i \in 0..Limit - 1 : v[i] = w[i]
      BY <2>3, <2>4
    <3>2. {v[i] : i \in 0..Limit - 1} = {w[i] : i \in 0..Limit - 1}
      BY <3>1
    <3> QED BY <3>2 DEF NodesOf, v, w
  <2>6. \A x \in NodesOf(nx, s) : With(qt, x) = With(pt, x)
    BY <1>2 DEF With
  <2>7. Chain(qt, ny, s) = Chain(pt, nx, s)
    BY <2>5, <2>6 DEF Chain
  <2>8. ChainOK(qt, ny, s)
    BY <1>2, <2>3, <2>4, <2>5, <2>6 DEF ChainOK
  <2> QED BY <1>2, <2>5, <2>7, <2>8 DEF BlocksIn
<1> QED BY <1>1, <1>2

-------------------------------------------------------------------------------
(***************************************************************************)
(* A list in guest memory.                                                 *)
(***************************************************************************)
LaidAs(list, N) == N = [i \in 1..Len(list) |-> IF i = 1 THEN top + 1 ELSE N[i - 1] + 1 + list[i - 1]]

\* Each node comes right after the parts of the one before.
LEMMA NodesFollow ==
  ASSUME top \in Nat, NEW list \in Seq(Nat), list # <<>>
  PROVE  LET N == NodeOf(list) IN
         /\ Len(list) \in Nat /\ Len(list) # 0 /\ \A i \in 1..Len(list) : list[i] \in Nat
         /\ N[1] = top + 1 /\ \A i \in 1..Len(list) : N[i] \in Nat /\ top < N[i]
         /\ \A i \in 2..Len(list) : N[i] = N[i - 1] + 1 + list[i - 1]
<1> DEFINE N == NodeOf(list)
           n == Len(list)
           St == Nat
           F == [j \in 1..n - 1 |-> [x \in St |-> x + 1 + list[j]]]
<1>1. n \in Nat /\ n # 0 /\ \A i \in 1..n : list[i] \in Nat
  BY LenProperties, ElementOfSeq, EmptySeq
<1>2. N = CHOOSE f : LaidAs(list, f)
  BY DEF NodeOf, LaidAs
<1> HIDE DEF n, N
<1>3. n - 1 \in Nat /\ top + 1 \in St /\ F \in [1..n - 1 -> [St -> St]]
  <2>1. \A j \in 1..n - 1 : list[j] \in Nat
    BY <1>1
  <2> QED BY <1>1, <2>1
<1>4. PICK f : Stepped(top + 1, F, n - 1, f) /\ \A i \in 0..n - 1 : f[i] \in St
  <2> HIDE DEF F, St
  <2> QED BY <1>3, StepsExist
<1> DEFINE g == [i \in 1..n |-> f[i - 1]]
<1>5. LaidAs(list, g)
  <2>1. f = [i \in 0..n - 1 |-> IF i = 0 THEN top + 1 ELSE F[i][f[i - 1]]]
    BY <1>4 DEF Stepped
  <2>2. ASSUME NEW i \in 1..n PROVE g[i] = IF i = 1 THEN top + 1 ELSE g[i - 1] + 1 + list[i - 1]
    <3>1. i - 1 \in 0..n - 1 /\ (i = 1 <=> i - 1 = 0)
      BY <1>1
    <3>2. CASE i = 1
      BY <2>1, <3>1, <3>2
    <3>3. CASE i # 1
      <4>1. i - 1 \in 1..n - 1 /\ i - 1 \in 1..n /\ (i - 1) - 1 \in 0..n - 1 /\ i - 1 # 0
        BY <1>1, <3>3
      <4>2. f[i - 1] = F[i - 1][f[(i - 1) - 1]]
        <5> HIDE DEF F
        <5> QED BY <2>1, <3>1, <4>1
      <4>3. f[i - 1] = f[(i - 1) - 1] + 1 + list[i - 1]
        BY <1>4, <4>1, <4>2
      <4> QED BY <3>3, <4>1, <4>3
    <3> QED BY <3>2, <3>3
  <2>3. g = [i \in 1..n |-> g[i]]
    OBVIOUS
  <2> HIDE DEF g
  <2>4. g = [i \in 1..n |-> IF i = 1 THEN top + 1 ELSE g[i - 1] + 1 + list[i - 1]]
    BY <2>2, <2>3
  <2> QED BY <2>4 DEF LaidAs, n
<1>6. LaidAs(list, N)
  BY <1>2, <1>5
<1>7. \A i \in 1..n : N[i] = IF i = 1 THEN top + 1 ELSE N[i - 1] + 1 + list[i - 1]
  BY <1>6 DEF LaidAs, n
<1> DEFINE Good == [i \in 1..n |-> {x \in Nat : top < x}]
<1>8. N[1] = top + 1 /\ \A i \in 2..n : N[i] = N[i - 1] + 1 + list[i - 1]
  <2>1. 1 \in 1..n /\ \A i \in 2..n : i \in 1..n /\ i # 1
    BY <1>1
  <2> QED BY <1>7, <2>1
<1>9. N[1] \in Good[1]
  <2>1. 1 \in 1..n
    BY <1>1
  <2> QED BY <1>8, <2>1
<1>10. ASSUME NEW i \in 2..n, N[i - 1] \in Good[i - 1] PROVE N[i] \in Good[i]
  <2>1. i - 1 \in 1..n /\ i \in 1..n
    BY <1>1
  <2>2. N[i - 1] \in Nat /\ top < N[i - 1] /\ list[i - 1] \in Nat
    BY <1>1, <1>10, <2>1
  <2>3. N[i] \in Nat /\ top < N[i]
    BY <1>8, <2>2
  <2> QED BY <2>1, <2>3
<1> HIDE DEF Good
<1>11. \A i \in 1..n : N[i] \in Good[i]
  BY <1>1, <1>9, <1>10, EachNext
<1>12. \A i \in 1..n : N[i] \in Nat /\ top < N[i]
  BY <1>11 DEF Good
<1> QED BY <1>1, <1>8, <1>12 DEF n, N

\* Nodes and their parts do not meet, and leave no block out.
LEMMA NodesApart ==
  ASSUME top \in Nat, NEW list \in Seq(Nat), list # <<>>
  PROVE  LET N == NodeOf(list) IN
         /\ \A j \in 1..Len(list) : \A i \in 1..j - 1 : N[i] + list[i] < N[j]
         /\ \A j \in 1..Len(list) : \A x \in top + 1..N[j] + list[j] :
              \E i \in 1..j : x \in N[i]..N[i] + list[i]
<1> DEFINE N == NodeOf(list)
           n == Len(list)
<1>1. /\ n \in Nat /\ n # 0 /\ \A i \in 1..n : list[i] \in Nat
      /\ N[1] = top + 1 /\ \A i \in 1..n : N[i] \in Nat /\ top < N[i]
      /\ \A i \in 2..n : N[i] = N[i - 1] + 1 + list[i - 1]
  BY NodesFollow, Zenon
<1> HIDE DEF N, n
<1> DEFINE Above(j) == {x \in Nat : \A i \in 1..j - 1 : N[i] + list[i] < x}
           Good == [j \in 1..n |-> Above(j)]
<1>2. N[1] \in Good[1]
  <2>1. 1 \in 1..n /\ 1..1 - 1 = {} /\ N[1] \in Nat
    BY <1>1
  <2> QED BY <2>1
<1>3. ASSUME NEW j \in 2..n, N[j - 1] \in Good[j - 1] PROVE N[j] \in Good[j]
  <2>1. j - 1 \in 1..n /\ j \in 1..n /\ list[j - 1] \in Nat /\ N[j - 1] \in Nat /\ N[j] \in Nat
    BY <1>1
  <2>2. N[j] = N[j - 1] + 1 + list[j - 1]
    BY <1>1
  <2>3. \A i \in 1..(j - 1) - 1 : N[i] + list[i] < N[j - 1]
    BY <1>3, <2>1
  <2>4. ASSUME NEW i \in 1..j - 1 PROVE N[i] + list[i] < N[j]
    <3>1. CASE i = j - 1
      BY <2>1, <2>2, <3>1
    <3>2. CASE i # j - 1
      <4>1. i \in 1..(j - 1) - 1 /\ i \in 1..n
        BY <1>1, <3>2
      <4>2. N[i] \in Nat /\ list[i] \in Nat /\ N[i] + list[i] < N[j - 1]
        BY <1>1, <2>3, <4>1
      <4>3. \A a, b, c, d \in Nat : a + b < c => a + b < c + 1 + d
        OBVIOUS
      <4>4. N[i] + list[i] < N[j - 1] + 1 + list[j - 1]
        BY <2>1, <4>2, <4>3
      <4> QED BY <2>2, <4>4
    <3> QED BY <3>1, <3>2
  <2>5. N[j] \in Above(j)
    BY <2>1, <2>4
  <2> HIDE DEF Above
  <2> QED BY <2>1, <2>5
<1>4. \A j \in 1..n : N[j] \in Above(j)
  <2> HIDE DEF Good, Above
  <2>1. \A i \in 1..n : N[i] \in Good[i]
    BY <1>1, <1>2, <1>3, EachNext
  <2> QED BY <2>1 DEF Good
<1> DEFINE Met(j) == {x \in Nat : \E i \in 1..j : x \in N[i]..N[i] + list[i]}
           Full == [j \in 1..n |-> {y \in Nat : \A x \in top + 1..y + list[j] : x \in Met(j)}]
<1>5. N[1] \in Full[1]
  <2>1. 1 \in 1..n /\ N[1] \in Nat /\ 1 \in 1..1
    BY <1>1
  <2>2. \A x \in top + 1..N[1] + list[1] : x \in Met(1)
    BY <1>1, <2>1
  <2> HIDE DEF Met
  <2> QED BY <2>1, <2>2
<1>6. ASSUME NEW j \in 2..n, N[j - 1] \in Full[j - 1] PROVE N[j] \in Full[j]
  <2>1. j - 1 \in 1..n /\ j \in 1..n /\ list[j - 1] \in Nat /\ N[j - 1] \in Nat /\ N[j] \in Nat /\ list[j] \in Nat
    BY <1>1
  <2>2. N[j] = N[j - 1] + 1 + list[j - 1]
    BY <1>1
  <2>3. \A x \in top + 1..N[j - 1] + list[j - 1] : x \in Met(j - 1)
    <3> HIDE DEF Met
    <3> QED BY <1>6, <2>1
  <2>4. ASSUME NEW x \in top + 1..N[j] + list[j] PROVE x \in Met(j)
    <3>1. CASE x < N[j]
      <4>1. x \in Met(j - 1)
        <5>1. x \in top + 1..N[j - 1] + list[j - 1]
          <6>1. \A a, b \in Nat : \A y \in Int : y < a + 1 + b => y <= a + b
            OBVIOUS
          <6>2. x \in Int /\ top + 1 <= x /\ x < N[j - 1] + 1 + list[j - 1]
            BY <2>1, <2>2, <3>1
          <6>3. x <= N[j - 1] + list[j - 1]
            BY <2>1, <6>1, <6>2
          <6> QED BY <2>1, <6>2, <6>3
        <5> HIDE DEF Met
        <5> QED BY <2>3, <5>1
      <4>2. 1..j - 1 \subseteq 1..j
        BY <1>1
      <4> QED BY <4>1, <4>2
    <3>2. CASE ~(x < N[j])
      <4>1. x \in N[j]..N[j] + list[j] /\ x \in Nat /\ j \in 1..j
        BY <2>1, <3>2
      <4> QED BY <4>1
    <3> QED BY <3>1, <3>2
  <2> HIDE DEF Met
  <2> QED BY <2>1, <2>4
<1>7. \A j \in 1..n : \A x \in top + 1..N[j] + list[j] : x \in Met(j)
  <2> HIDE DEF Full, Met
  <2>1. \A i \in 1..n : N[i] \in Full[i]
    BY <1>1, <1>5, <1>6, EachNext
  <2> QED BY <2>1 DEF Full
<1>8. \A j \in 1..n : \A x \in top + 1..N[j] + list[j] : \E i \in 1..j : x \in N[i]..N[i] + list[i]
  BY <1>7
<1>9. \A j \in 1..n : \A i \in 1..j - 1 : N[i] + list[i] < N[j]
  BY <1>4
<1> QED BY <1>8, <1>9 DEF n, N

\* What the guest's memory is once a list has been written.
LinkedAs(list, qt, ny) ==
  LET nodes == {NodeOf(list)[i] : i \in DOMAIN list}
      index(b) == CHOOSE i \in DOMAIN list : NodeOf(list)[i] = b
  IN /\ qt = [b \in Blocks |-> IF b \in nodes THEN PartsOf(list, index(b)) ELSE parts[b]]
     /\ ny = [b \in Blocks |-> IF b \in nodes
                               THEN IF index(b) = Len(list) THEN 0 ELSE NodeOf(list)[index(b) + 1]
                               ELSE next[b]]
Memory == /\ top \in 0..MaxTop /\ parts \in [Blocks -> SUBSET (1..top)] /\ next \in [Blocks -> 0..top]
          /\ Onward(next)
\* What a written list may be.
FitsBelow(list, room) == /\ list \in Seq(Nat) /\ list # <<>> /\ Len(list) <= Limit
                    /\ room = Needed(list) /\ top + room <= MaxTop

\* Where the nodes are.
LEMMA NodesWithin ==
  ASSUME Memory, NEW list, NEW room, FitsBelow(list, room)
  PROVE  LET N == NodeOf(list) IN
         /\ Len(list) \in Nat /\ Len(list) # 0 /\ (\A i \in 1..Len(list) : list[i] \in Nat)
         /\ top \in Nat /\ room \in Nat /\ 0 < room /\ top + room = N[Len(list)] + list[Len(list)]
         /\ \A i \in 1..Len(list) : /\ N[i] \in Blocks /\ top < N[i]
                                    /\ N[i] + list[i] <= top + room
<1> DEFINE N == NodeOf(list)
           n == Len(list)
<1>1. MaxTop \in Nat /\ Blocks = 1..MaxTop /\ top \in Nat /\ top <= MaxTop
  BY ResultNumbers DEF Memory
<1>2. list \in Seq(Nat) /\ list # <<>> /\ top + room <= MaxTop /\ room = N[n] + list[n] - top
  BY DEF FitsBelow, Needed
<1>3. /\ n \in Nat /\ n # 0 /\ (\A i \in 1..n : list[i] \in Nat)
      /\ \A i \in 1..n : N[i] \in Nat /\ top < N[i]
  BY <1>1, <1>2, NodesFollow, Zenon
<1>4. \A j \in 1..n : \A i \in 1..j - 1 : N[i] + list[i] < N[j]
  BY <1>1, <1>2, NodesApart, Zenon
<1> HIDE DEF N, n
<1>5. n \in 1..n /\ N[n] \in Nat /\ top < N[n] /\ list[n] \in Nat
  BY <1>3
<1>6. room \in Nat /\ 0 < room /\ top + room = N[n] + list[n]
  <2>1. \A a, b, c \in Nat : c < a => a + b - c \in Nat /\ 0 < a + b - c /\ c + (a + b - c) = a + b
    OBVIOUS
  <2> QED BY <1>1, <1>2, <1>5, <2>1
<1>7. ASSUME NEW i \in 1..n PROVE N[i] \in Blocks /\ top < N[i] /\ N[i] + list[i] <= top + room
  <2>1. N[i] \in Nat /\ top < N[i] /\ list[i] \in Nat
    BY <1>3
  <2>2. N[i] + list[i] <= N[n] + list[n]
    <3>1. CASE i = n
      BY <2>1, <3>1
    <3>2. CASE i # n
      <4>1. i \in 1..n - 1
        BY <1>3, <3>2
      <4>2. N[i] + list[i] < N[n]
        BY <1>4, <1>5, <4>1
      <4>3. \A a, b, c, d \in Nat : a + b < c => a + b <= c + d
        OBVIOUS
      <4> QED BY <1>5, <2>1, <4>2, <4>3
    <3> QED BY <3>1, <3>2
  <2>3. N[i] + list[i] <= top + room
    BY <1>6, <2>2
  <2>4. N[i] <= MaxTop
    <3>1. \A a, b, c, d \in Nat : a + b <= c /\ c <= d => a <= d
      OBVIOUS
    <3>2. top + room \in Nat
      BY <1>1, <1>6
    <3> QED BY <1>1, <1>2, <2>1, <2>3, <3>1, <3>2
  <2> QED BY <1>1, <2>1, <2>3, <2>4
<1> QED BY <1>1, <1>3, <1>6, <1>7 DEF n, N

\* A node knows its entry.
LEMMA NodeEntry ==
  ASSUME Memory, NEW list, NEW room, FitsBelow(list, room), NEW qt, NEW ny, LinkedAs(list, qt, ny)
  PROVE  LET N == NodeOf(list) IN
         /\ \A i \in 1..Len(list) : /\ qt[N[i]] = N[i] + 1..N[i] + list[i]
                                    /\ ny[N[i]] = IF i = Len(list) THEN 0 ELSE N[i + 1]
         /\ \A x \in Blocks : (\A i \in 1..Len(list) : x # N[i]) => qt[x] = parts[x] /\ ny[x] = next[x]
         /\ \A i, j \in 1..Len(list) : i < j => N[i] < N[j]
         /\ qt = [x \in Blocks |-> qt[x]] /\ ny = [x \in Blocks |-> ny[x]]
<1> DEFINE N == NodeOf(list)
           n == Len(list)
           nodes == {N[i] : i \in 1..n}
           index(b) == CHOOSE i \in 1..n : N[i] = b
<1>1. /\ n \in Nat /\ n # 0 /\ \A i \in 1..n : list[i] \in Nat
      /\ \A i \in 1..n : N[i] \in Blocks
  BY NodesWithin, Zenon
<1>2. list \in Seq(Nat) /\ list # <<>> /\ top \in Nat
  BY NodesWithin DEF FitsBelow
<1>3. \A j \in 1..n : \A i \in 1..j - 1 : N[i] + list[i] < N[j]
  BY <1>2, NodesApart, Zenon
<1>4. DOMAIN list = 1..n
  BY <1>2, LenProperties
<1>5. /\ qt = [b \in Blocks |-> IF b \in nodes THEN PartsOf(list, index(b)) ELSE parts[b]]
      /\ ny = [b \in Blocks |-> IF b \in nodes THEN IF index(b) = n THEN 0 ELSE N[index(b) + 1] ELSE next[b]]
  BY <1>4 DEF LinkedAs
<1>6. \A i \in 1..n : PartsOf(list, i) = N[i] + 1..N[i] + list[i]
  BY DEF PartsOf
<1> HIDE DEF N, n
<1>7. ASSUME NEW i \in 1..n, NEW j \in 1..n, i < j PROVE N[i] < N[j]
  <2>1. i \in 1..j - 1 /\ N[i] \in Nat /\ N[j] \in Nat /\ list[i] \in Nat
    BY <1>1, <1>7, ResultNumbers
  <2>2. N[i] + list[i] < N[j]
    BY <1>3, <2>1
  <2>3. \A a, b, c \in Nat : a + b < c => a < c
    OBVIOUS
  <2> QED BY <2>1, <2>2, <2>3
<1>8. ASSUME NEW i \in 1..n PROVE index(N[i]) = i /\ N[i] \in nodes
  <2>1. ASSUME NEW j \in 1..n, N[j] = N[i] PROVE j = i
    <3>1. i \in Nat /\ j \in Nat /\ N[i] \in Nat
      BY <1>1, ResultNumbers
    <3>2. ~(i < j) /\ ~(j < i)
      BY <1>7, <2>1, <3>1
    <3> QED BY <3>1, <3>2
  <2> QED BY <2>1
<1>9. ASSUME NEW i \in 1..n
      PROVE  qt[N[i]] = N[i] + 1..N[i] + list[i] /\ ny[N[i]] = IF i = n THEN 0 ELSE N[i + 1]
  <2>1. N[i] \in Blocks /\ index(N[i]) = i /\ N[i] \in nodes
    BY <1>1, <1>8
  <2> HIDE DEF nodes, index
  <2>2. qt[N[i]] = PartsOf(list, i) /\ ny[N[i]] = IF i = n THEN 0 ELSE N[i + 1]
    BY <1>5, <2>1
  <2> QED BY <1>6, <2>2
<1>10. \A x \in Blocks : (\A i \in 1..n : x # N[i]) => qt[x] = parts[x] /\ ny[x] = next[x]
  BY <1>5
<1>11. qt = [x \in Blocks |-> qt[x]] /\ ny = [x \in Blocks |-> ny[x]]
  <2> HIDE DEF nodes, index
  <2> QED BY <1>5
<1> QED BY <1>7, <1>9, <1>10, <1>11 DEF n, N

\* A list that was written is a list, of the blocks that were granted for it.
LEMMA ListLaid ==
  ASSUME Memory, NEW list, NEW room, FitsBelow(list, room), NEW qt, NEW ny, LinkedAs(list, qt, ny)
  PROVE  /\ qt \in [Blocks -> SUBSET (1..top + room)] /\ ny \in [Blocks -> 0..top + room] /\ Onward(ny)
         /\ \A x \in Blocks : x <= top => qt[x] = parts[x] /\ ny[x] = next[x]
         /\ ChainOK(qt, ny, top + 1) /\ Chain(qt, ny, top + 1) = NextBlocks(room)
<1> DEFINE N == NodeOf(list)
           n == Len(list)
<1>1. /\ n \in Nat /\ n # 0 /\ \A i \in 1..n : list[i] \in Nat
      /\ top \in Nat /\ room \in Nat /\ 0 < room /\ top + room = N[n] + list[n]
      /\ \A i \in 1..n : N[i] \in Blocks /\ top < N[i] /\ N[i] + list[i] <= top + room
  BY NodesWithin, Zenon
<1>2. /\ \A i \in 1..n : /\ qt[N[i]] = N[i] + 1..N[i] + list[i]
                         /\ ny[N[i]] = IF i = n THEN 0 ELSE N[i + 1]
      /\ \A x \in Blocks : (\A i \in 1..n : x # N[i]) => qt[x] = parts[x] /\ ny[x] = next[x]
      /\ \A i, j \in 1..n : i < j => N[i] < N[j]
      /\ qt = [x \in Blocks |-> qt[x]] /\ ny = [x \in Blocks |-> ny[x]]
  BY NodeEntry
<1>3. list \in Seq(Nat) /\ list # <<>> /\ n <= Limit /\ top + room <= MaxTop
  BY DEF FitsBelow
<1>4. /\ \A j \in 1..n : \A i \in 1..j - 1 : N[i] + list[i] < N[j]
      /\ \A j \in 1..n : \A x \in top + 1..N[j] + list[j] : \E i \in 1..j : x \in N[i]..N[i] + list[i]
  BY <1>1, <1>3, NodesApart, Zenon
<1>5. N[1] = top + 1
  BY <1>1, <1>3, NodesFollow, Zenon
<1>6. Limit \in Nat /\ MaxTop \in Nat /\ Blocks = 1..MaxTop
  BY ResultNumbers
<1>7. parts \in [Blocks -> SUBSET (1..top)] /\ next \in [Blocks -> 0..top] /\ Onward(next)
  BY DEF Memory
<1> HIDE DEF N, n
<1>8. \A i \in 1..n : N[i] \in Nat /\ N[i] \in 1..top + room
  <2>1. \A a, b, c \in Nat : a + b <= c => a <= c
    OBVIOUS
  <2>2. top + room \in Nat /\ \A i \in 1..n : N[i] \in Nat /\ N[i] # 0
    BY <1>1, <1>6
  <2> QED BY <1>1, <2>1, <2>2
<1>9. ASSUME NEW x \in Blocks
      PROVE  /\ qt[x] \in SUBSET (1..top + room) /\ ny[x] \in 0..top + room /\ (ny[x] = 0 \/ x < ny[x])
             /\ x <= top => qt[x] = parts[x] /\ ny[x] = next[x]
  <2>1. CASE \A i \in 1..n : x # N[i]
    <3>1. qt[x] = parts[x] /\ ny[x] = next[x]
      BY <1>2, <2>1
    <3>2. parts[x] \subseteq 1..top /\ next[x] \in 0..top /\ (next[x] = 0 \/ x < next[x])
      BY <1>7 DEF Onward
    <3>3. 1..top \subseteq 1..top + room /\ 0..top \subseteq 0..top + room
      BY <1>1
    <3> QED BY <3>1, <3>2, <3>3
  <2>2. ASSUME NEW i \in 1..n, x = N[i]
        PROVE  /\ qt[x] \in SUBSET (1..top + room) /\ ny[x] \in 0..top + room /\ (ny[x] = 0 \/ x < ny[x])
               /\ ~(x <= top)
    <3>1. qt[x] = N[i] + 1..N[i] + list[i] /\ ny[x] = IF i = n THEN 0 ELSE N[i + 1]
      BY <1>2, <2>2
    <3>2. N[i] \in Nat /\ list[i] \in Nat /\ N[i] + list[i] <= top + room /\ top < N[i]
      BY <1>1, <1>8
    <3>3. qt[x] \in SUBSET (1..top + room)
      <4>1. \A y \in qt[x] : y \in 1..top + room
        BY <1>1, <3>1, <3>2
      <4> QED BY <4>1
    <3>4. CASE i = n
      BY <1>1, <2>2, <3>1, <3>2, <3>3, <3>4
    <3>5. CASE i # n
      <4>1. i + 1 \in 1..n /\ i < i + 1
        BY <1>1, <3>5
      <4>2. N[i] < N[i + 1] /\ N[i + 1] \in 1..top + room
        BY <1>2, <1>8, <4>1
      <4> QED BY <1>1, <2>2, <3>1, <3>2, <3>3, <3>5, <4>2
    <3> QED BY <3>4, <3>5
  <2> QED BY <2>1, <2>2
<1>10. qt \in [Blocks -> SUBSET (1..top + room)] /\ ny \in [Blocks -> 0..top + room] /\ Onward(ny)
  BY <1>2, <1>9 DEF Onward
<1> DEFINE w == Walk(ny, top + 1)
<1>11. /\ w[0] = top + 1 /\ \A i \in 1..Limit : w[i] = IF w[i - 1] = 0 THEN 0 ELSE ny[w[i - 1]]
  <2>1. ny \in Links
    <3>1. 0..top + room \subseteq 0..MaxTop
      BY <1>1, <1>3, <1>6
    <3> QED BY <1>10, <3>1 DEF Links
  <2>2. top + 1 \in 0..MaxTop
    BY <1>1, <1>3, <1>6
  <2> QED BY <2>1, <2>2, WalkSteps
<1> HIDE DEF w
<1>12. \A i \in 0..Limit : w[i] = IF i < n THEN N[i + 1] ELSE 0
  <2> DEFINE Good == [i \in 0..Limit |-> {IF i < n THEN N[i + 1] ELSE 0}]
  <2>1. w[0] \in Good[0]
    <3>1. 0 \in 0..Limit /\ 0 < n /\ 0 + 1 = 1
      BY <1>1, <1>6
    <3> QED BY <1>5, <1>11, <3>1
  <2>2. ASSUME NEW i \in 1..Limit, w[i - 1] \in Good[i - 1] PROVE w[i] \in Good[i]
    <3>1. i - 1 \in 0..Limit /\ i \in 0..Limit /\ (i - 1) + 1 = i
      BY <1>6
    <3>2. w[i - 1] = IF i - 1 < n THEN N[i] ELSE 0
      BY <2>2, <3>1
    <3>3. w[i] = IF w[i - 1] = 0 THEN 0 ELSE ny[w[i - 1]]
      BY <1>11
    <3>4. CASE i <= n
      <4>1. i \in 1..n /\ i - 1 < n /\ (i = n <=> ~(i < n))
        BY <1>1, <3>4
      <4>2. w[i - 1] = N[i] /\ N[i] # 0
        BY <1>8, <3>2, <4>1
      <4>3. w[i] = IF i < n THEN N[i + 1] ELSE 0
        BY <1>2, <3>3, <4>1, <4>2
      <4> QED BY <3>1, <4>3
    <3>5. CASE ~(i <= n)
      <4>1. ~(i - 1 < n) /\ ~(i < n)
        BY <1>1, <3>5
      <4>2. w[i] = 0
        BY <3>2, <3>3, <4>1
      <4> QED BY <3>1, <4>1, <4>2
    <3> QED BY <3>4, <3>5
  <2> HIDE DEF Good
  <2>3. \A i \in 0..Limit : w[i] \in Good[i]
    BY <1>6, <2>1, <2>2, EachStep
  <2> QED BY <2>3 DEF Good
<1>13. w[Limit] = 0
  <2>1. Limit \in 0..Limit /\ ~(Limit < n)
    BY <1>1, <1>3, <1>6
  <2> QED BY <1>12, <2>1
<1>14. NodesOf(ny, top + 1) = {N[i] : i \in 1..n}
  <2>1. NodesOf(ny, top + 1) = {w[i] : i \in 0..Limit - 1} \ {0}
    BY DEF NodesOf, w
  <2>2. ASSUME NEW i \in 1..n PROVE N[i] \in {w[j] : j \in 0..Limit - 1} \ {0}
    <3>1. i - 1 \in 0..Limit - 1 /\ i - 1 \in 0..Limit /\ i - 1 < n /\ (i - 1) + 1 = i
      BY <1>1, <1>3, <1>6
    <3>2. w[i - 1] = N[i] /\ N[i] # 0
      BY <1>8, <1>12, <3>1
    <3> QED BY <3>1, <3>2
  <2>3. ASSUME NEW i \in 0..Limit - 1, w[i] # 0 PROVE w[i] \in {N[j] : j \in 1..n}
    <3>1. i \in 0..Limit /\ i < n
      BY <1>6, <1>12, <2>3
    <3>2. w[i] = N[i + 1] /\ i + 1 \in 1..n
      BY <1>1, <1>12, <3>1
    <3> QED BY <3>2
  <2> QED BY <2>1, <2>2, <2>3
<1>15. \A i \in 1..n : With(qt, N[i]) = N[i]..N[i] + list[i]
  <2>1. ASSUME NEW i \in 1..n PROVE With(qt, N[i]) = N[i]..N[i] + list[i]
    <3>1. With(qt, N[i]) = {N[i]} \cup (N[i] + 1..N[i] + list[i])
      BY <1>2 DEF With
    <3>2. \A a, b \in Nat : {a} \cup (a + 1..a + b) = a..a + b
      OBVIOUS
    <3> QED BY <1>1, <1>8, <3>1, <3>2
  <2> QED BY <2>1
<1>16. ASSUME NEW i \in 1..n, NEW j \in 1..n, i < j PROVE With(qt, N[i]) \cap With(qt, N[j]) = {}
  <2>1. i \in 1..j - 1
    BY <1>16
  <2>2. N[i] + list[i] < N[j]
    BY <1>4, <2>1
  <2>3. N[i] \in Nat /\ N[j] \in Nat /\ list[i] \in Nat /\ list[j] \in Nat
    BY <1>1, <1>8
  <2>4. \A a, b, c, d \in Nat : a + b < c => (a..a + b) \cap (c..c + d) = {}
    OBVIOUS
  <2> QED BY <1>15, <2>2, <2>3, <2>4
<1>17. ChainOK(qt, ny, top + 1)
  <2>1. ASSUME NEW i \in 1..n, NEW j \in 1..n, N[i] # N[j] PROVE With(qt, N[i]) \cap With(qt, N[j]) = {}
    <3>1. i < j \/ j < i
      BY <2>1
    <3> QED BY <1>16, <3>1
  <2> QED BY <1>13, <1>14, <2>1 DEF ChainOK, w
<1>18. Chain(qt, ny, top + 1) = NextBlocks(room)
  <2>1. Chain(qt, ny, top + 1) = UNION {N[i]..N[i] + list[i] : i \in 1..n}
    BY <1>14, <1>15 DEF Chain
  <2>2. ASSUME NEW i \in 1..n, NEW x \in N[i]..N[i] + list[i] PROVE x \in top + 1..top + room
    <3>1. N[i] \in Nat /\ list[i] \in Nat /\ N[i] + list[i] <= top + room /\ top < N[i]
      BY <1>1, <1>8
    <3> QED BY <1>1, <2>2, <3>1
  <2>3. ASSUME NEW x \in top + 1..top + room PROVE \E i \in 1..n : x \in N[i]..N[i] + list[i]
    <3>1. n \in 1..n /\ x \in top + 1..N[n] + list[n]
      BY <1>1
    <3> QED BY <1>4, <3>1
  <2> QED BY <2>1, <2>2, <2>3 DEF NextBlocks
<1> QED BY <1>9, <1>10, <1>17, <1>18

ResultKinds == ListKinds \cup {"names", "passwd"}
Globs(pt, gl) == IF gl = 0 THEN {} ELSE With(pt, gl)
HeldBlocks(pt, nx, hd) == UNION {BlocksIn(pt, nx, h) : h \in hd}
\* ResultsAccounted of any memory; that lists end and their nodes share nothing
\* is what lets the guest cut them.
Accounted(lv, pt, nx, hd, gl, sp) ==
  /\ lv = HeldBlocks(pt, nx, hd) \cup sp \cup Globs(pt, gl)
  /\ \A h, g \in hd : h # g => BlocksIn(pt, nx, h) \cap BlocksIn(pt, nx, g) = {}
  /\ \A h \in hd : BlocksIn(pt, nx, h) \cap (sp \cup Globs(pt, gl)) = {}
  /\ sp \cap Globs(pt, gl) = {}
  /\ \A h \in hd : h.kind \in ListKinds => ChainOK(pt, nx, h.at)

LEMMA HeldHas ==
  \A pt, nx, hd, x : x \in HeldBlocks(pt, nx, hd) <=> \E h \in hd : x \in BlocksIn(pt, nx, h)
BY DEF HeldBlocks

LEMMA InUse ==
  ASSUME NEW lv, NEW pt, NEW nx, NEW hd, NEW gl, NEW sp, Accounted(lv, pt, nx, hd, gl, sp)
  PROVE  /\ sp \subseteq lv /\ Globs(pt, gl) \subseteq lv /\ (gl # 0 => gl \in lv)
         /\ \A h \in hd : BlocksIn(pt, nx, h) \subseteq lv
<1>1. lv = HeldBlocks(pt, nx, hd) \cup sp \cup Globs(pt, gl)
  BY DEF Accounted
<1>2. \A h \in hd : BlocksIn(pt, nx, h) \subseteq lv
  BY <1>1, HeldHas
<1>3. gl # 0 => gl \in Globs(pt, gl)
  BY DEF Globs, With
<1> QED BY <1>1, <1>2, <1>3

\* A list that is held has a node at least.
LEMMA HeadHeld ==
  ASSUME NEW nx \in Links, NEW pt, NEW h, h.at \in Blocks, h.kind \in ListKinds => ChainOK(pt, nx, h.at)
  PROVE  h.at \in BlocksIn(pt, nx, h) /\ (h.kind \in ListKinds => NodesOf(nx, h.at) \subseteq BlocksIn(pt, nx, h))
<1>1. CASE h.kind \notin ListKinds
  BY <1>1 DEF BlocksIn, With
<1>2. CASE h.kind \in ListKinds
  <2>1. h.at \in 0..MaxTop /\ h.at # 0 /\ Limit \in Nat
    BY ResultNumbers
  <2>2. Limit # 0
    <3>1. Walk(nx, h.at)[0] = h.at /\ Walk(nx, h.at)[Limit] = 0
      BY <1>2, <2>1, WalkSteps DEF ChainOK
    <3> QED BY <2>1, <3>1
  <2>3. h.at \in NodesOf(nx, h.at)
    BY <2>1, <2>2, NodesAreBlocks
  <2>4. NodesOf(nx, h.at) \subseteq Chain(pt, nx, h.at)
    BY DEF Chain, With
  <2> QED BY <1>2, <2>3, <2>4 DEF BlocksIn
<1> QED BY <1>1, <1>2

\* Writing to blocks that are not in use changes no account.
LEMMA AccountKept ==
  ASSUME NEW lv, NEW pt, NEW nx \in Links, NEW hd, NEW gl, NEW sp, Accounted(lv, pt, nx, hd, gl, sp),
         \A h \in hd : h.at \in Blocks, NEW qt, NEW ny \in Links,
         \A x \in lv : x \in Blocks => qt[x] = pt[x] /\ ny[x] = nx[x], gl = 0 \/ gl \in Blocks
  PROVE  Accounted(lv, qt, ny, hd, gl, sp)
<1>1. ASSUME NEW h \in hd
      PROVE  /\ BlocksIn(qt, ny, h) = BlocksIn(pt, nx, h)
             /\ h.kind \in ListKinds => ChainOK(qt, ny, h.at)
  <2>1. h.at \in Blocks /\ h.at \in 0..MaxTop /\ (h.kind \in ListKinds => ChainOK(pt, nx, h.at))
    BY ResultNumbers DEF Accounted
  <2>2. BlocksIn(pt, nx, h) \subseteq lv
    BY InUse
  <2>3. h.at \in lv /\ (h.kind \in ListKinds => NodesOf(nx, h.at) \subseteq lv)
    BY <2>1, <2>2, HeadHeld
  <2>4. h.kind \in ListKinds => \A x \in NodesOf(nx, h.at) : ny[x] = nx[x] /\ qt[x] = pt[x]
    BY <2>1, <2>3, NodesAreBlocks
  <2>5. qt[h.at] = pt[h.at]
    BY <2>1, <2>3
  <2> QED BY <2>1, <2>4, <2>5, BlocksSame
<1>2. Globs(qt, gl) = Globs(pt, gl)
  <2>1. gl # 0 => gl \in lv
    BY InUse
  <2> QED BY <2>1 DEF Globs, With
<1>3. HeldBlocks(qt, ny, hd) = HeldBlocks(pt, nx, hd)
  <2>1. \A x : (\E h \in hd : x \in BlocksIn(qt, ny, h)) <=> (\E h \in hd : x \in BlocksIn(pt, nx, h))
    BY <1>1
  <2>2. \A x : x \in HeldBlocks(qt, ny, hd) <=> x \in HeldBlocks(pt, nx, hd)
    BY <2>1, HeldHas
  <2> QED BY <2>2
<1> QED BY <1>1, <1>2, <1>3 DEF Accounted

\* A result is given to the guest.
LEMMA AccountGiven ==
  ASSUME NEW lv, NEW pt, NEW nx, NEW hd, NEW gl, NEW sp, Accounted(lv, pt, nx, hd, gl, sp),
         NEW h, NEW X, X = BlocksIn(pt, nx, h), X \cap lv = {}, h.kind \in ListKinds => ChainOK(pt, nx, h.at)
  PROVE  Accounted(lv \cup X, pt, nx, hd \cup {h}, gl, sp)
<1>1. HeldBlocks(pt, nx, hd \cup {h}) = HeldBlocks(pt, nx, hd) \cup X
  BY HeldHas
<1>2. sp \cup Globs(pt, gl) \subseteq lv /\ \A g \in hd : BlocksIn(pt, nx, g) \subseteq lv
  BY InUse
<1>3. \A g \in hd : BlocksIn(pt, nx, g) \cap X = {}
  BY <1>2
<1>4. X \cap (sp \cup Globs(pt, gl)) = {}
  BY <1>2
<1>5. \A a, g \in hd \cup {h} : a # g => BlocksIn(pt, nx, a) \cap BlocksIn(pt, nx, g) = {}
  BY <1>3 DEF Accounted
<1>6. lv \cup X = HeldBlocks(pt, nx, hd \cup {h}) \cup sp \cup Globs(pt, gl)
  <2>1. lv = HeldBlocks(pt, nx, hd) \cup sp \cup Globs(pt, gl)
    BY DEF Accounted
  <2> QED BY <1>1, <2>1
<1> QED BY <1>4, <1>5, <1>6 DEF Accounted

\* Blocks are left behind.
LEMMA AccountSpilt ==
  ASSUME NEW lv, NEW pt, NEW nx, NEW hd, NEW gl, NEW sp, Accounted(lv, pt, nx, hd, gl, sp),
         NEW X, X \cap lv = {}
  PROVE  Accounted(lv \cup X, pt, nx, hd, gl, sp \cup X)
<1>1. sp \cup Globs(pt, gl) \subseteq lv /\ \A g \in hd : BlocksIn(pt, nx, g) \subseteq lv
  BY InUse
<1>2. lv \cup X = HeldBlocks(pt, nx, hd) \cup (sp \cup X) \cup Globs(pt, gl)
  <2>1. lv = HeldBlocks(pt, nx, hd) \cup sp \cup Globs(pt, gl)
    BY DEF Accounted
  <2> QED BY <2>1
<1>3. \A h \in hd : BlocksIn(pt, nx, h) \cap ((sp \cup X) \cup Globs(pt, gl)) = {}
  <2>1. \A h \in hd : BlocksIn(pt, nx, h) \cap (sp \cup Globs(pt, gl)) = {}
    BY DEF Accounted
  <2> QED BY <1>1, <2>1
<1>4. (sp \cup X) \cap Globs(pt, gl) = {}
  <2>1. sp \cap Globs(pt, gl) = {}
    BY DEF Accounted
  <2> QED BY <1>1, <2>1
<1> QED BY <1>2, <1>3, <1>4 DEF Accounted

\* A result is given back.
LEMMA AccountDropped ==
  ASSUME NEW lv, NEW pt, NEW nx, NEW hd, NEW gl, NEW sp, Accounted(lv, pt, nx, hd, gl, sp), NEW h \in hd
  PROVE  Accounted(lv \ BlocksIn(pt, nx, h), pt, nx, hd \ {h}, gl, sp)
<1> DEFINE X == BlocksIn(pt, nx, h)
<1>1. /\ lv = HeldBlocks(pt, nx, hd) \cup sp \cup Globs(pt, gl)
      /\ X \cap (sp \cup Globs(pt, gl)) = {}
      /\ \A g \in hd \ {h} : BlocksIn(pt, nx, g) \cap X = {}
  BY DEF Accounted
<1>2. HeldBlocks(pt, nx, hd \ {h}) = HeldBlocks(pt, nx, hd) \ X
  <2>1. \A x : x \in HeldBlocks(pt, nx, hd \ {h}) <=> x \in HeldBlocks(pt, nx, hd) \ X
    <3> HIDE DEF X
    <3>1. \A x : x \in HeldBlocks(pt, nx, hd \ {h}) => x \notin X /\ x \in HeldBlocks(pt, nx, hd)
      BY <1>1, HeldHas
    <3>2. ASSUME NEW x \in HeldBlocks(pt, nx, hd), x \notin X PROVE x \in HeldBlocks(pt, nx, hd \ {h})
      <4>1. PICK g \in hd : x \in BlocksIn(pt, nx, g)
        BY HeldHas
      <4>2. g # h
        BY <3>2, <4>1 DEF X
      <4> QED BY <4>1, <4>2, HeldHas
    <3> QED BY <3>1, <3>2
  <2> HIDE DEF X
  <2> QED BY <2>1
<1>3. lv \ X = HeldBlocks(pt, nx, hd \ {h}) \cup sp \cup Globs(pt, gl)
  <2> HIDE DEF X
  <2> QED BY <1>1, <1>2
<1> QED BY <1>3 DEF Accounted

\* A glob_t is filled, and what it held has no pointer left; it is given back.
LEMMA AccountGlobbed ==
  ASSUME NEW lv, NEW pt, NEW nx, NEW hd, NEW gl, NEW sp, Accounted(lv, pt, nx, hd, gl, sp)
  PROVE  /\ \A b : b # 0 /\ With(pt, b) \cap lv = {}
                => Accounted(lv \cup With(pt, b), pt, nx, hd, b, sp \cup Globs(pt, gl))
         /\ Accounted(lv \ Globs(pt, gl), pt, nx, hd, 0, sp)
<1> DEFINE G == Globs(pt, gl)
           H == HeldBlocks(pt, nx, hd)
<1>1. sp \cup G \subseteq lv /\ \A g \in hd : BlocksIn(pt, nx, g) \subseteq lv
  BY InUse
<1>2. /\ lv = H \cup sp \cup G /\ sp \cap G = {}
      /\ \A g \in hd : BlocksIn(pt, nx, g) \cap (sp \cup G) = {}
      /\ \A h, g \in hd : h # g => BlocksIn(pt, nx, h) \cap BlocksIn(pt, nx, g) = {}
      /\ \A h \in hd : h.kind \in ListKinds => ChainOK(pt, nx, h.at)
  BY DEF Accounted
<1>3. ASSUME NEW b, b # 0, With(pt, b) \cap lv = {}
      PROVE  Accounted(lv \cup With(pt, b), pt, nx, hd, b, sp \cup G)
  <2>1. Globs(pt, b) = With(pt, b)
    BY <1>3 DEF Globs
  <2> HIDE DEF G, H
  <2>2. \A g \in hd : BlocksIn(pt, nx, g) \cap ((sp \cup G) \cup With(pt, b)) = {}
    BY <1>1, <1>2, <1>3
  <2>3. (sp \cup G) \cap With(pt, b) = {}
    BY <1>1, <1>3
  <2>4. lv \cup With(pt, b) = H \cup (sp \cup G) \cup With(pt, b)
    BY <1>2
  <2> QED BY <1>2, <2>1, <2>2, <2>3, <2>4 DEF Accounted, H
<1>4. Accounted(lv \ G, pt, nx, hd, 0, sp)
  <2>1. Globs(pt, 0) = {}
    BY DEF Globs
  <2>2. H \cap G = {}
    <3>1. \A x \in H : x \notin G
      BY <1>2, HeldHas
    <3> HIDE DEF G, H
    <3> QED BY <3>1
  <2> HIDE DEF G, H
  <2>3. lv \ G = H \cup sp \cup {}
    BY <1>2, <2>2
  <2>4. \A g \in hd : BlocksIn(pt, nx, g) \cap (sp \cup {}) = {}
    BY <1>2
  <2> QED BY <1>2, <2>1, <2>3, <2>4 DEF Accounted, H
<1> QED BY <1>3, <1>4 DEF G

\* A list is cut in two.
LEMMA AccountCut ==
  ASSUME NEW lv, NEW pt, NEW nx \in Links, Onward(nx), NEW hd, NEW gl, NEW sp, Accounted(lv, pt, nx, hd, gl, sp),
         \A g \in hd : g.at \in Blocks, NEW h \in hd, h.kind \in ListKinds,
         NEW b \in NodesOf(nx, h.at), nx[b] # 0, NEW ny \in Links, ny[b] = 0,
         \A x \in Blocks : x # b => ny[x] = nx[x], NEW k, k.kind = h.kind, k.at = nx[b]
  PROVE  Accounted(lv, pt, ny, hd \cup {k}, gl, sp)
<1> DEFINE s == h.at
           c == nx[b]
           w == Walk(nx, s)
           v == Walk(ny, s)
           u == Walk(ny, c)
<1>1. Limit \in Nat /\ MaxTop \in Nat /\ Blocks = 1..MaxTop
  BY ResultNumbers
<1>2. s \in 0..MaxTop /\ s \in Blocks
  BY <1>1
<1>3. ChainOK(pt, nx, s)
  BY DEF Accounted
<1>4. b \in Blocks /\ c \in Blocks /\ c \in 0..MaxTop
  <2>1. b \in Blocks
    BY <1>2, NodesAreBlocks
  <2> QED BY <1>1, <2>1 DEF Links
<1>5. PICK m \in 0..Limit - 1 : w[m] = b
  <2>1. \E i \in 0..Limit - 1 : b = Walk(nx, s)[i]
    BY <1>2, NodesAreBlocks
  <2> QED BY <2>1
<1>6. w[Limit] = 0
  BY <1>3 DEF ChainOK
<1>7. /\ \A i \in 0..Limit : v[i] = IF i <= m THEN w[i] ELSE 0
      /\ \A i \in 0..Limit : u[i] = IF m + 1 + i <= Limit THEN w[m + 1 + i] ELSE 0
  <2> HIDE DEF s, c
  <2>1. Walk(nx, s)[m] = b /\ Walk(nx, s)[Limit] = 0 /\ c = nx[b]
    BY <1>5, <1>6 DEF c
  <2> QED BY <1>2, <1>4, <2>1, WalkCut
<1>8. \A j \in 0..Limit : w[j] # 0 => \A i \in 0..j - 1 : w[i] # 0 /\ w[i] < w[j]
  BY <1>2, WalkUp
<1>9. \A i \in 0..Limit : w[i] \in Nat
  <2>1. \A i \in 0..Limit : w[i] \in 0..MaxTop
    BY <1>2, WalkSteps
  <2> QED BY <1>1, <2>1
<1> DEFINE A == NodesOf(ny, s)
           D == NodesOf(ny, c)
           M == NodesOf(nx, s)
<1>10. A = {v[i] : i \in 0..Limit - 1} \ {0} /\ D = {u[i] : i \in 0..Limit - 1} \ {0}
       /\ M = {w[i] : i \in 0..Limit - 1} \ {0}
  BY DEF NodesOf
<1>11. v[Limit] = 0 /\ u[Limit] = 0
  <2>1. Limit \in 0..Limit /\ ~(Limit <= m) /\ ~(m + 1 + Limit <= Limit)
    BY <1>1
  <2> HIDE DEF v, u, w
  <2> QED BY <1>7, <2>1
<1> HIDE DEF v, u, w, A, D, M
<1>12. A \cup D = M /\ A \cap D = {}
  <2>1. \A x \in A : \E i \in 0..m : x = w[i] /\ w[i] # 0
    <3>1. \A i \in 0..Limit - 1 : i \in 0..Limit /\ (i <= m => i \in 0..m)
      BY <1>1
    <3> QED BY <1>7, <1>10, <3>1
  <2>2. \A x \in D : \E j \in m + 1..Limit - 1 : x = w[j] /\ w[j] # 0
    <3>1. ASSUME NEW i \in 0..Limit - 1, u[i] # 0 PROVE \E j \in m + 1..Limit - 1 : u[i] = w[j] /\ w[j] # 0
      <4>1. i \in 0..Limit
        BY <1>1
      <4>2. m + 1 + i <= Limit /\ u[i] = w[m + 1 + i]
        BY <1>7, <3>1, <4>1
      <4>3. m + 1 + i # Limit
        BY <1>6, <3>1, <4>2
      <4>4. m + 1 + i \in m + 1..Limit - 1
        BY <1>1, <4>2, <4>3
      <4> QED BY <3>1, <4>2, <4>4
    <3> QED BY <1>10, <3>1
  <2>3. ASSUME NEW i \in 0..m, NEW j \in m + 1..Limit - 1, w[j] # 0 PROVE w[i] # w[j]
    <3>1. i \in 0..j - 1 /\ j \in 0..Limit /\ i \in 0..Limit
      BY <1>1
    <3>2. w[i] < w[j] /\ w[i] \in Nat /\ w[j] \in Nat
      BY <1>8, <1>9, <2>3, <3>1
    <3> QED BY <3>2
  <2>4. \A i \in 0..m : i \in 0..Limit - 1 /\ w[i] # 0 => w[i] \in A
    <3>1. \A i \in 0..m : i \in 0..Limit - 1 /\ i \in 0..Limit /\ i <= m
      BY <1>1
    <3> QED BY <1>7, <1>10, <3>1
  <2>5. ASSUME NEW j \in m + 1..Limit - 1, w[j] # 0 PROVE w[j] \in D
    <3>1. j - (m + 1) \in 0..Limit - 1 /\ j - (m + 1) \in 0..Limit /\ m + 1 + (j - (m + 1)) = j /\ j <= Limit
      BY <1>1
    <3>2. u[j - (m + 1)] = w[j]
      BY <1>7, <3>1
    <3> QED BY <1>10, <2>5, <3>1, <3>2
  <2>6. \A i \in 0..m : i \in 0..Limit - 1
    BY <1>1
  <2>7. \A j \in m + 1..Limit - 1 : j \in 0..Limit - 1
    BY <1>1
  <2>8. \A i \in 0..Limit - 1 : i \in 0..m \/ i \in m + 1..Limit - 1
    BY <1>1
  <2>9. A \cap D = {}
    BY <2>1, <2>2, <2>3
  <2>10. A \subseteq M /\ D \subseteq M
    <3>1. \A i \in 0..Limit - 1 : w[i] # 0 => w[i] \in M
      BY <1>10
    <3>2. \A x \in A : x \in M
      BY <2>1, <2>6, <3>1
    <3>3. \A x \in D : x \in M
      BY <2>2, <2>7, <3>1
    <3> QED BY <3>2, <3>3
  <2>11. M \subseteq A \cup D
    BY <1>10, <2>4, <2>5, <2>6, <2>8
  <2> QED BY <2>9, <2>10, <2>11
<1>13. \A x, y \in M : x # y => With(pt, x) \cap With(pt, y) = {}
  BY <1>3 DEF ChainOK, M
<1>14. ChainOK(pt, ny, s) /\ ChainOK(pt, ny, c)
  BY <1>11, <1>12, <1>13 DEF ChainOK, A, D, u, v
<1> DEFINE P == Chain(pt, ny, s)
           Q == Chain(pt, ny, c)
           R == Chain(pt, nx, s)
<1>15. P \cup Q = R /\ P \cap Q = {}
  <2>1. P = UNION {With(pt, n) : n \in A} /\ Q = UNION {With(pt, n) : n \in D} /\ R = UNION {With(pt, n) : n \in M}
    BY DEF Chain, A, D, M
  <2> HIDE DEF P, Q, R
  <2>2. \A x \in A, y \in D : With(pt, x) \cap With(pt, y) = {}
    BY <1>12, <1>13
  <2>3. P \cap Q = {}
    BY <2>1, <2>2
  <2>4. P \cup Q = R
    BY <1>12, <2>1
  <2> QED BY <2>3, <2>4
<1> DEFINE O(g) == BlocksIn(pt, nx, g)
           V(g) == BlocksIn(pt, ny, g)
<1>16. O(h) = R /\ V(h) = P /\ V(k) = Q
  BY DEF BlocksIn
<1>17. b \in O(h)
  <2>1. NodesOf(nx, h.at) \subseteq BlocksIn(pt, nx, h)
    BY <1>2, <1>3, HeadHeld
  <2> QED BY <2>1
<1>18. ASSUME NEW g \in hd, g # h PROVE V(g) = O(g) /\ (g.kind \in ListKinds => ChainOK(pt, ny, g.at))
  <2>1. g.at \in Blocks /\ g.at \in 0..MaxTop /\ (g.kind \in ListKinds => ChainOK(pt, nx, g.at))
    BY <1>1 DEF Accounted
  <2>2. O(g) \cap O(h) = {}
    BY <1>18 DEF Accounted
  <2>3. g.kind \in ListKinds => NodesOf(nx, g.at) \subseteq O(g) /\ NodesOf(nx, g.at) \subseteq Blocks
    BY <2>1, HeadHeld, NodesAreBlocks
  <2>4. g.kind \in ListKinds => \A x \in NodesOf(nx, g.at) : ny[x] = nx[x] /\ pt[x] = pt[x]
    BY <1>17, <2>2, <2>3
  <2> QED BY <2>1, <2>4, BlocksSame
<1> HIDE DEF O, V, P, Q, R, s, c
<1>19. /\ lv = HeldBlocks(pt, nx, hd) \cup sp \cup Globs(pt, gl)
       /\ \A g, f \in hd : g # f => O(g) \cap O(f) = {}
       /\ \A g \in hd : O(g) \cap (sp \cup Globs(pt, gl)) = {}
       /\ sp \cap Globs(pt, gl) = {}
  BY DEF Accounted, O
<1>20. HeldBlocks(pt, ny, hd \cup {k}) = HeldBlocks(pt, nx, hd)
  <2>1. ASSUME NEW g \in hd \cup {k} PROVE \A x \in V(g) : \E f \in hd : x \in O(f)
    <3>1. CASE g = k
      BY <1>15, <1>16, <3>1
    <3>2. CASE g = h
      BY <1>15, <1>16, <3>2
    <3>3. CASE g \in hd /\ g # h
      BY <1>18, <3>3
    <3> QED BY <3>1, <3>2, <3>3
  <2>2. ASSUME NEW f \in hd PROVE \A x \in O(f) : \E g \in hd \cup {k} : x \in V(g)
    <3>1. CASE f = h
      BY <1>15, <1>16, <3>1
    <3>2. CASE f # h
      BY <1>18, <3>2
    <3> QED BY <3>1, <3>2
  <2>3. \A x : (\E g \in hd \cup {k} : x \in V(g)) <=> (\E f \in hd : x \in O(f))
    BY <2>1, <2>2
  <2>4. \A x : x \in HeldBlocks(pt, ny, hd \cup {k}) <=> x \in HeldBlocks(pt, nx, hd)
    BY <2>3, HeldHas DEF V, O
  <2> QED BY <2>4
<1>21. ASSUME NEW g \in hd, NEW f \in hd, g # f PROVE V(g) \cap V(f) = {}
  <2>1. O(g) \cap O(f) = {}
    BY <1>19, <1>21
  <2>2. V(g) \subseteq O(g) /\ V(f) \subseteq O(f)
    BY <1>15, <1>16, <1>18
  <2> QED BY <2>1, <2>2
<1>22. ASSUME NEW g \in hd, g # k PROVE V(g) \cap V(k) = {}
  <2>1. CASE g = h
    BY <1>15, <1>16, <2>1
  <2>2. CASE g # h
    <3>1. O(g) \cap O(h) = {} /\ V(g) = O(g) /\ V(k) \subseteq O(h)
      BY <1>15, <1>16, <1>18, <1>19, <2>2
    <3> QED BY <3>1
  <2> QED BY <2>1, <2>2
<1>23. \A g, f \in hd \cup {k} : g # f => V(g) \cap V(f) = {}
  BY <1>21, <1>22
<1>24. \A g \in hd \cup {k} : V(g) \cap (sp \cup Globs(pt, gl)) = {}
  <2>1. \A g \in hd : V(g) \subseteq O(g)
    BY <1>15, <1>16, <1>18
  <2>2. V(k) \subseteq O(h)
    BY <1>15, <1>16
  <2> QED BY <1>19, <2>1, <2>2
<1>25. \A g \in hd \cup {k} : g.kind \in ListKinds => ChainOK(pt, ny, g.at)
  BY <1>14, <1>18 DEF s, c
<1> QED BY <1>19, <1>20, <1>23, <1>24, <1>25 DEF Accounted, V

ResultsTyped == /\ Memory /\ live \subseteq 1..top /\ held \subseteq [kind : ResultKinds, at : 1..top]
                /\ globbed \in 0..top /\ spilt \subseteq 1..top
RInv == ResultsTyped /\ Accounted(live, parts, next, held, globbed, spilt)

\* What a step leaves is accounted for if its blocks are those granted.
Lands(tp, lv, qt, ny, hd, gl, sp) ==
  /\ tp \in 0..MaxTop /\ qt \in [Blocks -> SUBSET (1..tp)] /\ ny \in [Blocks -> 0..tp] /\ Onward(ny)
  /\ lv \subseteq 1..tp /\ hd \subseteq [kind : ResultKinds, at : 1..tp] /\ gl \in 0..tp /\ sp \subseteq 1..tp
  /\ Accounted(lv, qt, ny, hd, gl, sp)

LEMMA RInvIs == RInv = Lands(top, live, parts, next, held, globbed, spilt)
BY DEF RInv, ResultsTyped, Memory, Lands

LEMMA ResultsNumbers ==
  ASSUME RInv
  PROVE  /\ MaxTop \in Nat /\ Blocks = 1..MaxTop /\ top \in Nat /\ top <= MaxTop
         /\ next \in Links /\ (\A h \in held : h.at \in Blocks) /\ (globbed = 0 \/ globbed \in Blocks)
         /\ Memory /\ Onward(next) /\ Accounted(live, parts, next, held, globbed, spilt)
         /\ live \subseteq 1..top
<1>1. MaxTop \in Nat /\ Blocks = 1..MaxTop /\ top \in Nat /\ top <= MaxTop
  BY ResultNumbers DEF RInv, ResultsTyped, Memory
<1>2. 0..top \subseteq 0..MaxTop /\ 1..top \subseteq Blocks
  BY <1>1
<1>3. next \in Links
  BY <1>2 DEF RInv, ResultsTyped, Memory, Links
<1>4. \A h \in held : h.at \in Blocks
  BY <1>2 DEF RInv, ResultsTyped
<1>5. globbed = 0 \/ globbed \in Blocks
  BY <1>1 DEF RInv, ResultsTyped
<1> QED BY <1>1, <1>3, <1>4, <1>5 DEF RInv, ResultsTyped, Memory

\* Granted blocks are in no account yet.
LEMMA GrantedFresh ==
  ASSUME RInv, NEW room \in Nat
  PROVE  NextBlocks(room) \cap live = {} /\ NextBlocks(room) \subseteq 1..top + room
         /\ 1..top \subseteq 1..top + room /\ 0..top \subseteq 0..top + room
BY ResultsNumbers DEF NextBlocks

\* What was granted is left behind, or nothing is kept of it.
LEMMA LandsSpilt ==
  ASSUME RInv, NEW room \in Nat, top + room <= MaxTop
  PROVE  /\ Lands(top + room, live \cup NextBlocks(room), parts, next, held, globbed, spilt \cup NextBlocks(room))
         /\ Lands(top + room, live, parts, next, held, globbed, spilt)
<1>1. /\ top \in Nat /\ MaxTop \in Nat /\ top + room \in 0..MaxTop
      /\ Onward(next) /\ Accounted(live, parts, next, held, globbed, spilt)
  BY ResultsNumbers
<1>2. NextBlocks(room) \cap live = {} /\ NextBlocks(room) \subseteq 1..top + room
         /\ 1..top \subseteq 1..top + room /\ 0..top \subseteq 0..top + room
  BY GrantedFresh
<1>3. Accounted(live \cup NextBlocks(room), parts, next, held, globbed, spilt \cup NextBlocks(room))
  BY <1>1, <1>2, AccountSpilt
<1>4. parts \in [Blocks -> SUBSET (1..top)] /\ next \in [Blocks -> 0..top] /\ live \subseteq 1..top
      /\ held \subseteq [kind : ResultKinds, at : 1..top] /\ globbed \in 0..top /\ spilt \subseteq 1..top
  BY DEF RInv, ResultsTyped, Memory
<1>5. /\ parts \in [Blocks -> SUBSET (1..top + room)] /\ next \in [Blocks -> 0..top + room]
      /\ held \subseteq [kind : ResultKinds, at : 1..top + room] /\ globbed \in 0..top + room
      /\ live \cup NextBlocks(room) \subseteq 1..top + room /\ spilt \cup NextBlocks(room) \subseteq 1..top + room
  BY <1>2, <1>4
<1> QED BY <1>1, <1>3, <1>5 DEF Lands

\* A result of the granted blocks is given to the guest, or to its glob_t.
LEMMA LandsGiven ==
  ASSUME RInv, NEW room \in Nat, top + room <= MaxTop, NEW qt \in [Blocks -> SUBSET (1..top + room)],
         NEW ny \in [Blocks -> 0..top + room], Onward(ny),
         \A x \in Blocks : x <= top => qt[x] = parts[x] /\ ny[x] = next[x]
  PROVE  /\ \A h \in [kind : ResultKinds, at : 1..top + room] :
              BlocksIn(qt, ny, h) = NextBlocks(room) /\ (h.kind \in ListKinds => ChainOK(qt, ny, h.at))
              => Lands(top + room, live \cup NextBlocks(room), qt, ny, held \cup {h}, globbed, spilt)
         /\ \A b \in 1..top + room : With(qt, b) = NextBlocks(room)
              => Lands(top + room, live \cup NextBlocks(room), qt, ny, held, b,
                       spilt \cup Globs(parts, globbed))
<1>1. /\ top \in Nat /\ MaxTop \in Nat /\ top + room \in 0..MaxTop /\ Blocks = 1..MaxTop /\ next \in Links
      /\ (\A h \in held : h.at \in Blocks) /\ (globbed = 0 \/ globbed \in Blocks)
      /\ Accounted(live, parts, next, held, globbed, spilt) /\ live \subseteq 1..top
  BY ResultsNumbers
<1>2. NextBlocks(room) \cap live = {} /\ NextBlocks(room) \subseteq 1..top + room
         /\ 1..top \subseteq 1..top + room /\ 0..top \subseteq 0..top + room
  BY GrantedFresh
<1>3. ny \in Links
  <2>1. 0..top + room \subseteq 0..MaxTop
    BY <1>1
  <2> QED BY <2>1 DEF Links
<1>4. Accounted(live, qt, ny, held, globbed, spilt)
  <2>1. \A x \in live : x <= top
    <3>1. live \subseteq 1..top /\ top \in Nat
      BY <1>1
    <3> QED BY <3>1
  <2>2. \A x \in live : x \in Blocks => qt[x] = parts[x] /\ ny[x] = next[x]
    BY <2>1
  <2> QED BY <1>1, <1>3, <2>2, AccountKept
<1>5. held \subseteq [kind : ResultKinds, at : 1..top] /\ globbed \in 0..top /\ spilt \subseteq 1..top
  BY DEF RInv, ResultsTyped
<1>6. /\ held \subseteq [kind : ResultKinds, at : 1..top + room] /\ globbed \in 0..top + room
      /\ live \cup NextBlocks(room) \subseteq 1..top + room /\ spilt \subseteq 1..top + room
  BY <1>1, <1>2, <1>5
<1>7. ASSUME NEW h \in [kind : ResultKinds, at : 1..top + room],
             BlocksIn(qt, ny, h) = NextBlocks(room), h.kind \in ListKinds => ChainOK(qt, ny, h.at)
      PROVE  Lands(top + room, live \cup NextBlocks(room), qt, ny, held \cup {h}, globbed, spilt)
  <2>1. Accounted(live \cup NextBlocks(room), qt, ny, held \cup {h}, globbed, spilt)
    BY <1>2, <1>4, <1>7, AccountGiven
  <2> QED BY <1>1, <1>6, <2>1 DEF Lands
<1>8. ASSUME NEW b \in 1..top + room, With(qt, b) = NextBlocks(room)
      PROVE  Lands(top + room, live \cup NextBlocks(room), qt, ny, held, b, spilt \cup Globs(parts, globbed))
  <2>1. Globs(qt, globbed) = Globs(parts, globbed)
    <3>1. globbed # 0 => globbed \in Blocks /\ globbed <= top
      BY <1>1, <1>5
    <3> QED BY <3>1 DEF Globs, With
  <2>2. b # 0 /\ With(qt, b) \cap live = {}
    BY <1>2, <1>8
  <2>3. Accounted(live \cup NextBlocks(room), qt, ny, held, b, spilt \cup Globs(parts, globbed))
    BY <1>4, <1>8, <2>1, <2>2, AccountGlobbed
  <2>4. Globs(parts, globbed) \subseteq 1..top
    BY <1>1, InUse
  <2>5. spilt \cup Globs(parts, globbed) \subseteq 1..top + room /\ b \in 0..top + room
    <3>1. \A a \in Nat : 1..a \subseteq 0..a
      OBVIOUS
    <3>2. top + room \in Nat
      BY <1>1
    <3>3. b \in 0..top + room
      BY <3>1, <3>2
    <3> QED BY <1>2, <1>6, <2>4, <3>3
  <2> QED BY <1>1, <1>6, <2>3, <2>5 DEF Lands
<1> QED BY <1>7, <1>8

-------------------------------------------------------------------------------
\* A list copied to the guest.
LEMMA CopiedFits ==
  ASSUME RInv, NEW hostList \in HostLists, NEW room \in 0..MaxTop,
         room \in Refusals(Needed(Copied(hostList)))
  PROVE  /\ Copied(hostList) \in Seq(Nat) /\ Len(Copied(hostList)) <= Limit
         /\ room \in Nat /\ top + room <= MaxTop
         /\ room = Needed(Copied(hostList)) /\ Copied(hostList) # <<>> => FitsBelow(Copied(hostList), room)
<1>1. hostList \in Seq(Nat) /\ Limit \in Nat
  BY ResultsAssumption
<1> DEFINE m == IF Len(hostList) < Limit THEN Len(hostList) ELSE Limit
<1>2. Len(hostList) \in Nat /\ m \in 0..Len(hostList) /\ m <= Limit
  BY <1>1, LenProperties
<1>3. \A i \in 1..m : hostList[i] \in Nat
  <2>1. \A i \in 1..m : i \in 1..Len(hostList)
    BY <1>2
  <2> QED BY <1>1, <2>1, ElementOfSeq
<1>4. Copied(hostList) = SubSeq(hostList, 1, m)
  BY DEF Copied
<1> HIDE DEF m
<1>5. Copied(hostList) \in Seq(Nat) /\ Len(Copied(hostList)) = m
  <2>1. SubSeq(hostList, 1, m) \in Seq(Nat) /\ Len(SubSeq(hostList, 1, m)) = IF 1 <= m THEN m - 1 + 1 ELSE 0
    BY <1>1, <1>2, <1>3, SubSeqProperties
  <2> QED BY <1>2, <1>4, <2>1
<1>6. room \in Nat /\ top + room <= MaxTop
  BY ResultNumbers DEF Refusals
<1> QED BY <1>2, <1>5, <1>6 DEF FitsBelow

\* getifaddrs finds every block that was granted for a list again.
LEMMA EntriesAreGranted ==
  ASSUME top \in Nat, NEW list \in Seq(Nat), NEW room \in 0..Needed(list), room \in Nat
  PROVE  EntryBlocks(Entries(list, room)) = NextBlocks(room)
<1>1. CASE list = <<>>
  <2>1. room = 0 /\ NextBlocks(room) = {}
    BY <1>1 DEF Needed, NextBlocks
  <2>2. \A e \in Entries(list, room) : e.node \in {} /\ e.with \subseteq {}
    BY <2>1 DEF Entries
  <2>3. Entries(list, room) = {}
    BY <2>2
  <2> QED BY <2>1, <2>3 DEF EntryBlocks
<1>2. CASE list # <<>>
  <2> DEFINE N == NodeOf(list)
             n == Len(list)
  <2>1. n \in Nat /\ n # 0 /\ (\A i \in 1..n : list[i] \in Nat) /\ \A i \in 1..n : N[i] \in Nat /\ top < N[i]
    BY <1>2, NodesFollow, Zenon
  <2>2. \A j \in 1..n : \A x \in top + 1..N[j] + list[j] : \E i \in 1..j : x \in N[i]..N[i] + list[i]
    BY <1>2, NodesApart, Zenon
  <2>3. room <= N[n] + list[n] - top
    BY <1>2 DEF Needed
  <2>4. DOMAIN list = 1..n
    BY LenProperties
  <2>5. \A e : e \in Entries(list, room) <=>
                 \E i \in 1..n : /\ N[i] \in NextBlocks(room)
                                 /\ e = [node |-> N[i], with |-> PartsOf(list, i) \cap NextBlocks(room)]
    BY <2>4 DEF Entries
  <2>6. \A i \in 1..n : PartsOf(list, i) = N[i] + 1..N[i] + list[i]
    BY DEF PartsOf
  <2> HIDE DEF N, n
  <2>7. \A e \in Entries(list, room) : {e.node} \cup e.with \subseteq NextBlocks(room)
    BY <2>5
  <2>8. ASSUME NEW x \in NextBlocks(room) PROVE \E e \in Entries(list, room) : x \in {e.node} \cup e.with
    <3>1. x \in top + 1..top + room
      BY DEF NextBlocks
    <3>2. n \in 1..n /\ N[n] \in Nat /\ list[n] \in Nat /\ top < N[n]
      BY <2>1
    <3>3. top + room <= N[n] + list[n]
      <4>1. \A a, b, c, r \in Nat : c < a /\ r <= a + b - c => c + r <= a + b
        OBVIOUS
      <4> QED BY <2>3, <3>2, <4>1
    <3>4. x \in top + 1..N[n] + list[n]
      BY <3>1, <3>2, <3>3
    <3>5. PICK i \in 1..n : x \in N[i]..N[i] + list[i]
      BY <2>2, <3>2, <3>4
    <3>6. N[i] \in Nat /\ list[i] \in Nat /\ top < N[i]
      BY <2>1
    <3>7. N[i] \in NextBlocks(room)
      BY <3>1, <3>5, <3>6 DEF NextBlocks
    <3> DEFINE e == [node |-> N[i], with |-> PartsOf(list, i) \cap NextBlocks(room)]
    <3>8. e \in Entries(list, room)
      BY <2>5, <3>7
    <3>9. x = N[i] \/ x \in PartsOf(list, i)
      <4>1. x = N[i] \/ x \in N[i] + 1..N[i] + list[i]
        BY <3>5, <3>6
      <4> QED BY <2>6, <4>1
    <3> QED BY <3>8, <3>9
  <2>9. EntryBlocks(Entries(list, room)) = UNION {{e.node} \cup e.with : e \in Entries(list, room)}
    BY DEF EntryBlocks
  <2> QED BY <2>7, <2>8, <2>9
<1> QED BY <1>1, <1>2

\* Linked, of a copied list: it is all there, or there is nothing.
LEMMA CopiedGiven ==
  ASSUME RInv, NEW hostList \in HostLists, NEW room \in 0..MaxTop, NEW list, list = Copied(hostList),
         room = Needed(list), room \in Refusals(Needed(list)), NEW kind \in ListKinds,
         NEW qt, NEW ny, LinkedAs(list, qt, ny)
  PROVE  Lands(top + room, live \cup NextBlocks(room), qt, ny,
               held \cup (IF list = <<>> THEN {} ELSE {Handle(kind, top + 1)}), globbed, spilt)
<1>1. list \in Seq(Nat) /\ room \in Nat /\ top + room <= MaxTop /\ (list # <<>> => FitsBelow(list, room))
  BY CopiedFits
<1>2. top \in Nat /\ Blocks = 1..MaxTop /\ MaxTop \in Nat /\ Memory
  BY ResultsNumbers
<1>3. CASE list = <<>>
  <2>1. room = 0 /\ NextBlocks(room) = {} /\ top + room = top
    BY <1>2, <1>3 DEF Needed, NextBlocks
  <2>2. DOMAIN list = {}
    BY <1>3
  <2>3. qt = [b \in Blocks |-> parts[b]] /\ ny = [b \in Blocks |-> next[b]]
    BY <2>2 DEF LinkedAs
  <2>4. qt = parts /\ ny = next
    BY <1>2, <2>3 DEF Memory
  <2> QED BY <1>3, <2>1, <2>4, RInvIs
<1>4. CASE list # <<>>
  <2> DEFINE h == Handle(kind, top + 1)
  <2>1. FitsBelow(list, room)
    BY <1>1, <1>4
  <2>2. /\ qt \in [Blocks -> SUBSET (1..top + room)] /\ ny \in [Blocks -> 0..top + room] /\ Onward(ny)
        /\ \A x \in Blocks : x <= top => qt[x] = parts[x] /\ ny[x] = next[x]
        /\ ChainOK(qt, ny, top + 1) /\ Chain(qt, ny, top + 1) = NextBlocks(room)
    BY <1>2, <2>1, ListLaid
  <2>3. room # 0
    BY <1>2, <2>1, NodesWithin
  <2>4. h.kind = kind /\ h.at = top + 1 /\ h \in [kind : ResultKinds, at : 1..top + room]
    <3>1. top + 1 \in 1..top + room /\ kind \in ResultKinds
      BY <1>1, <1>2, <2>3 DEF ResultKinds
    <3> QED BY <3>1 DEF Handle
  <2> HIDE DEF h
  <2>5. BlocksIn(qt, ny, h) = NextBlocks(room) /\ ChainOK(qt, ny, h.at)
    BY <2>2, <2>4 DEF BlocksIn
  <2>6. Lands(top + room, live \cup NextBlocks(room), qt, ny, held \cup {h}, globbed, spilt)
    BY <1>1, <2>2, <2>4, <2>5, LandsGiven
  <2> QED BY <1>4, <2>6 DEF h
<1> QED BY <1>3, <1>4

LandsNext == Lands(top', live', parts', next', held', globbed', spilt')

LEMMA GetaddrinfoLands ==
  ASSUME RInv, NEW l \in HostLists, NEW room \in 0..MaxTop, NEW writable \in BOOLEAN, Getaddrinfo(l, room, writable)
  PROVE  LandsNext
<1> PICK list : list = Copied(l)
  OBVIOUS
<1> PICK qt, ny : qt = parts' /\ ny = next'
  OBVIOUS
<1>1. room \in Refusals(Needed(list)) /\ top' = top + room /\ live' = live \cup NextBlocks(room) /\ globbed' = globbed
  BY DEF Getaddrinfo
<1>2. room \in Nat /\ top + room <= MaxTop
  BY <1>1, CopiedFits
<1>3. CASE room = Needed(list) /\ writable
  <2>1. LinkedAs(list, qt, ny) /\ spilt' = spilt
        /\ held' = held \cup (IF list = <<>> THEN {} ELSE {Handle("addrinfo", top + 1)})
    BY <1>3 DEF Getaddrinfo, Linked, LinkedAs, Given
  <2>2. "addrinfo" \in ListKinds
    BY DEF ListKinds
  <2>3. Lands(top + room, live \cup NextBlocks(room), qt, ny,
              held \cup (IF list = <<>> THEN {} ELSE {Handle("addrinfo", top + 1)}), globbed, spilt)
    BY <1>1, <1>3, <2>1, <2>2, CopiedGiven
  <2> QED BY <1>1, <2>1, <2>3 DEF LandsNext
<1>4. CASE ~(room = Needed(list) /\ writable)
  <2>1. spilt' = spilt \cup NextBlocks(room) /\ parts' = parts /\ next' = next /\ held' = held
    BY <1>4 DEF Getaddrinfo
  <2> QED BY <1>1, <1>2, <2>1, LandsSpilt DEF LandsNext
<1> QED BY <1>3, <1>4

LEMMA GetifaddrsLands ==
  ASSUME RInv, NEW l \in HostLists, NEW room \in 0..MaxTop, NEW writable \in BOOLEAN, Getifaddrs(l, room, writable)
  PROVE  LandsNext
<1> PICK list : list = Copied(l)
  OBVIOUS
<1> PICK qt, ny : qt = parts' /\ ny = next'
  OBVIOUS
<1>1. room \in Refusals(Needed(list)) /\ top' = top + room /\ globbed' = globbed /\ spilt' = spilt
  BY DEF Getifaddrs
<1>2. room \in Nat /\ top + room <= MaxTop /\ list \in Seq(Nat)
  BY <1>1, CopiedFits
<1>3. CASE room = Needed(list) /\ writable
  <2>1. LinkedAs(list, qt, ny) /\ live' = live \cup NextBlocks(room)
        /\ held' = held \cup (IF list = <<>> THEN {} ELSE {Handle("ifaddrs", top + 1)})
    BY <1>3 DEF Getifaddrs, Linked, LinkedAs, Given
  <2>2. "ifaddrs" \in ListKinds
    BY DEF ListKinds
  <2>3. Lands(top + room, live \cup NextBlocks(room), qt, ny,
              held \cup (IF list = <<>> THEN {} ELSE {Handle("ifaddrs", top + 1)}), globbed, spilt)
    BY <1>1, <1>3, <2>1, <2>2, CopiedGiven
  <2> QED BY <1>1, <2>1, <2>3 DEF LandsNext
<1>4. CASE ~(room = Needed(list) /\ writable)
  <2>1. /\ live' = (live \cup NextBlocks(room)) \ EntryBlocks(Entries(list, room))
        /\ parts' = parts /\ next' = next /\ held' = held
    BY <1>4 DEF Getifaddrs
  <2>2. EntryBlocks(Entries(list, room)) = NextBlocks(room)
    <3>1. room \in 0..Needed(list)
      BY <1>1 DEF Refusals
    <3>2. top \in Nat
      BY ResultsNumbers
    <3> QED BY <1>2, <3>1, <3>2, EntriesAreGranted
  <2>3. NextBlocks(room) \cap live = {}
    BY <1>2, GrantedFresh
  <2>4. live' = live
    BY <2>1, <2>2, <2>3
  <2> QED BY <1>1, <1>2, <2>1, <2>4, LandsSpilt DEF LandsNext
<1> QED BY <1>3, <1>4

\* What is given back, leaving the memory as it is.
LEMMA GivenBackLands ==
  ASSUME RInv, NEW h \in held
  PROVE  /\ Lands(top, live \ BlocksIn(parts, next, h), parts, next, held \ {h}, globbed, spilt)
         /\ Lands(top, live \ Globs(parts, globbed), parts, next, held, 0, spilt)
<1>1. Accounted(live, parts, next, held, globbed, spilt)
  BY DEF RInv
<1>2. Accounted(live \ BlocksIn(parts, next, h), parts, next, held \ {h}, globbed, spilt)
  BY <1>1, AccountDropped
<1>3. Accounted(live \ Globs(parts, globbed), parts, next, held, 0, spilt)
  BY <1>1, AccountGlobbed
<1>4. 0 \in 0..top
  BY ResultsNumbers
<1> QED BY <1>2, <1>3, <1>4 DEF Lands, RInv, ResultsTyped, Memory

LEMMA FreeLands ==
  ASSUME RInv, NEW h \in held, FreeList(h) \/ FreeNames(h)
  PROVE  LandsNext
<1>1. top' = top /\ parts' = parts /\ next' = next /\ globbed' = globbed /\ spilt' = spilt /\ held' = held \ {h}
  BY DEF FreeList, FreeNames
<1>2. live' = live \ BlocksHeld(h)
  <2>1. CASE FreeList(h)
    BY <2>1 DEF FreeList, BlocksHeld
  <2>2. CASE FreeNames(h)
    <3>1. h.kind = "names" /\ live' = live \ WithParts(h.at)
      BY <2>2 DEF FreeNames
    <3>2. h.kind \notin {"addrinfo", "ifaddrs"}
      BY <3>1
    <3> QED BY <3>1, <3>2 DEF BlocksHeld
  <2> QED BY <2>1, <2>2
<1> QED BY <1>1, <1>2, GivenBackLands, HeldIs DEF LandsNext

LEMMA CutLands ==
  ASSUME RInv, NEW h \in held, NEW b \in Blocks, Cut(h, b)
  PROVE  LandsNext
<1> PICK ny : ny = [next EXCEPT ![b] = 0]
  OBVIOUS
<1> DEFINE k == Handle(h.kind, next[b])
<1>1. /\ h.kind \in ListKinds /\ b \in Visited(h.at) /\ next[b] # 0
      /\ next' = ny /\ held' = held \cup {k}
      /\ live' = live /\ top' = top /\ parts' = parts /\ globbed' = globbed /\ spilt' = spilt
  BY DEF Cut, ListKinds
<1>2. b \in NodesOf(next, h.at)
  BY <1>1, VisitedIs DEF NodesOf
<1>3. /\ MaxTop \in Nat /\ Blocks = 1..MaxTop /\ top \in Nat /\ top <= MaxTop
      /\ next \in Links /\ (\A g \in held : g.at \in Blocks)
      /\ Onward(next) /\ Accounted(live, parts, next, held, globbed, spilt)
  BY ResultsNumbers
<1>4. next \in [Blocks -> 0..top] /\ held \subseteq [kind : ResultKinds, at : 1..top]
      /\ parts \in [Blocks -> SUBSET (1..top)] /\ live \subseteq 1..top /\ globbed \in 0..top /\ spilt \subseteq 1..top
  BY DEF RInv, ResultsTyped, Memory
<1>5. /\ ny \in [Blocks -> 0..top] /\ ny[b] = 0 /\ (\A x \in Blocks : x # b => ny[x] = next[x])
  <2>1. 0 \in 0..top
    BY <1>3
  <2> QED BY <1>4, <2>1
<1>6. Onward(ny)
  BY <1>3, <1>5 DEF Onward
<1>7. ny \in Links
  <2>1. 0..top \subseteq 0..MaxTop
    BY <1>3
  <2> QED BY <1>5, <2>1 DEF Links
<1>8. k.kind = h.kind /\ k.at = next[b] /\ k \in [kind : ResultKinds, at : 1..top]
  <2>1. next[b] \in 1..top /\ h.kind \in ResultKinds
    BY <1>1, <1>3, <1>4 DEF ResultKinds
  <2> QED BY <2>1 DEF Handle
<1> HIDE DEF k
<1>9. Accounted(live, parts, ny, held \cup {k}, globbed, spilt)
  <2>1. h.kind \in ListKinds /\ next[b] # 0 /\ k.kind = h.kind /\ k.at = next[b]
    BY <1>1, <1>8
  <2>2. ny[b] = 0 /\ \A x \in Blocks : x # b => ny[x] = next[x]
    BY <1>5
  <2> QED BY <1>2, <1>3, <1>7, <2>1, <2>2, AccountCut
<1>10. Lands(top, live, parts, ny, held \cup {k}, globbed, spilt)
  <2>1. top \in 0..MaxTop /\ held \cup {k} \subseteq [kind : ResultKinds, at : 1..top]
    BY <1>3, <1>4, <1>8
  <2> QED BY <1>4, <1>5, <1>6, <1>9, <2>1 DEF Lands
<1> QED BY <1>1, <1>10 DEF LandsNext

\* A block that points to the blocks before it.
LEMMA TableLaid ==
  ASSUME RInv, NEW n \in Nat, top + (n + 1) <= MaxTop, NEW qt, qt = [parts EXCEPT ![Table(n)] = NextBlocks(n)]
  PROVE  /\ qt \in [Blocks -> SUBSET (1..top + (n + 1))] /\ next \in [Blocks -> 0..top + (n + 1)] /\ Onward(next)
         /\ \A x \in Blocks : x <= top => qt[x] = parts[x] /\ next[x] = next[x]
         /\ With(qt, Table(n)) = NextBlocks(n + 1) /\ Table(n) \in 1..top + (n + 1) /\ Table(n) # 0
<1>1. MaxTop \in Nat /\ Blocks = 1..MaxTop /\ top \in Nat /\ Onward(next)
  BY ResultsNumbers
<1>2. parts \in [Blocks -> SUBSET (1..top)] /\ next \in [Blocks -> 0..top]
  BY DEF RInv, ResultsTyped, Memory
<1>3. Table(n) = top + (n + 1) /\ Table(n) \in Blocks /\ Table(n) \in 1..top + (n + 1) /\ ~(Table(n) <= top)
  BY <1>1 DEF Table
<1>4. NextBlocks(n) \subseteq 1..top + (n + 1) /\ NextBlocks(n + 1) = {top + (n + 1)} \cup NextBlocks(n)
  BY <1>1 DEF NextBlocks
<1>5. 1..top \subseteq 1..top + (n + 1) /\ 0..top \subseteq 0..top + (n + 1)
  BY <1>1
<1>6. qt[Table(n)] = NextBlocks(n) /\ \A x \in Blocks : x # Table(n) => qt[x] = parts[x]
  BY <1>2, <1>3
<1>7. qt \in [Blocks -> SUBSET (1..top + (n + 1))]
  BY <1>2, <1>3, <1>4, <1>5
<1>8. Table(n) # 0
  BY <1>1, <1>3
<1> HIDE DEF Table
<1> QED BY <1>1, <1>2, <1>3, <1>4, <1>5, <1>6, <1>7, <1>8 DEF With

\* The table is the guest's: as a result, or in its glob_t.
LEMMA TableLands ==
  ASSUME RInv, NEW n \in Nat, NEW room, room = n + 1, top + room <= MaxTop,
         NEW qt, qt = [parts EXCEPT ![Table(n)] = NextBlocks(n)], NEW kind \in ResultKinds \ ListKinds
  PROVE  /\ Lands(top + room, live \cup NextBlocks(room), qt, next, held \cup {Handle(kind, Table(n))}, globbed, spilt)
         /\ Lands(top + room, live \cup NextBlocks(room), qt, next, held, Table(n), spilt \cup Globs(parts, globbed))
<1>1. /\ qt \in [Blocks -> SUBSET (1..top + room)] /\ next \in [Blocks -> 0..top + room] /\ Onward(next)
      /\ \A x \in Blocks : x <= top => qt[x] = parts[x] /\ next[x] = next[x]
      /\ With(qt, Table(n)) = NextBlocks(room) /\ Table(n) \in 1..top + room /\ Table(n) # 0
  BY TableLaid
<1>2. room \in Nat
  OBVIOUS
<1> DEFINE h == Handle(kind, Table(n))
<1>3. h \in [kind : ResultKinds, at : 1..top + room] /\ h.kind = kind /\ h.at = Table(n)
  BY <1>1 DEF Handle
<1> HIDE DEF h
<1>4. BlocksIn(qt, next, h) = NextBlocks(room) /\ h.kind \notin ListKinds
  BY <1>1, <1>3 DEF BlocksIn
<1>5. Lands(top + room, live \cup NextBlocks(room), qt, next, held \cup {h}, globbed, spilt)
  BY <1>1, <1>2, <1>3, <1>4, LandsGiven
<1>6. Lands(top + room, live \cup NextBlocks(room), qt, next, held, Table(n), spilt \cup Globs(parts, globbed))
  BY <1>1, <1>2, LandsGiven
<1> QED BY <1>5, <1>6 DEF h

LEMMA ScandirLands ==
  ASSUME RInv, NEW n \in NameCounts, NEW room \in 0..MaxTop, NEW writable \in BOOLEAN, Scandir(n, room, writable)
  PROVE  LandsNext
<1> PICK qt : qt = parts'
  OBVIOUS
<1>1. top' = top + room /\ globbed' = globbed /\ spilt' = spilt /\ room \in Nat /\ top + room <= MaxTop /\ n \in Nat
  BY ResultNumbers, ResultsAssumption DEF Scandir, Refusals
<1>2. CASE room = n + 1 /\ writable
  <2>1. /\ live' = live \cup NextBlocks(room) /\ qt = [parts EXCEPT ![Table(n)] = NextBlocks(n)] /\ next' = next
        /\ held' = held \cup {Handle("names", Table(n))}
    BY <1>2 DEF Scandir, TableWritten
  <2>2. "names" \in ResultKinds \ ListKinds
    BY DEF ResultKinds, ListKinds
  <2> QED BY <1>1, <1>2, <2>1, <2>2, TableLands DEF LandsNext
<1>3. CASE ~(room = n + 1 /\ writable)
  <2>1. live' = live /\ parts' = parts /\ next' = next /\ held' = held
    BY <1>3 DEF Scandir
  <2> QED BY <1>1, <2>1, LandsSpilt DEF LandsNext
<1> QED BY <1>2, <1>3

LEMMA GlobLands ==
  ASSUME RInv, NEW n \in NameCounts, NEW room \in 0..MaxTop, Glob(n, room)
  PROVE  LandsNext
<1> PICK qt : qt = parts'
  OBVIOUS
<1>1. top' = top + room /\ held' = held /\ room \in Nat /\ top + room <= MaxTop /\ n \in Nat
  BY ResultNumbers, ResultsAssumption DEF Glob, Refusals
<1>2. CASE room = n + 1
  <2>1. /\ live' = live \cup NextBlocks(room) /\ qt = [parts EXCEPT ![Table(n)] = NextBlocks(n)] /\ next' = next
        /\ globbed' = Table(n) /\ spilt' = spilt \cup Globs(parts, globbed)
    BY <1>2 DEF Glob, TableWritten, Globs, WithParts, With
  <2>2. "names" \in ResultKinds \ ListKinds
    BY DEF ResultKinds, ListKinds
  <2> QED BY <1>1, <1>2, <2>1, <2>2, TableLands DEF LandsNext
<1>3. CASE room # n + 1
  <2>1. live' = live /\ parts' = parts /\ next' = next /\ globbed' = globbed /\ spilt' = spilt
    BY <1>3 DEF Glob
  <2> QED BY <1>1, <2>1, LandsSpilt DEF LandsNext
<1> QED BY <1>2, <1>3

LEMMA GlobfreeLands ==
  ASSUME RInv, Globfree
  PROVE  LandsNext
<1>1. /\ top' = top /\ parts' = parts /\ next' = next /\ held' = held /\ spilt' = spilt /\ globbed' = 0
      /\ live' = IF globbed \in live THEN live \ WithParts(globbed) ELSE live
  BY DEF Globfree, GlobfreeBlocks
<1>2. Accounted(live, parts, next, held, globbed, spilt)
  BY DEF RInv
<1>3. (globbed # 0 => globbed \in live) /\ 0 \notin live /\ 0 \in 0..top
  BY <1>2, InUse, ResultsNumbers
<1>4. live' = live \ Globs(parts, globbed)
  BY <1>1, <1>3 DEF Globs, WithParts, With
<1>5. Accounted(live \ Globs(parts, globbed), parts, next, held, 0, spilt)
  BY <1>2, AccountGlobbed
<1>6. Lands(top, live \ Globs(parts, globbed), parts, next, held, 0, spilt)
  BY <1>3, <1>5 DEF Lands, RInv, ResultsTyped, Memory
<1> QED BY <1>1, <1>4, <1>6 DEF LandsNext

LEMMA PasswdLands ==
  ASSUME RInv, NEW n \in NameCounts, NEW room \in 0..MaxTop, Passwd(n, room)
  PROVE  LandsNext
<1> PICK qt : qt = parts'
  OBVIOUS
<1>1. top' = top + room /\ live' = live \cup NextBlocks(room) /\ globbed' = globbed
      /\ room \in Nat /\ top + room <= MaxTop /\ n \in Nat
  BY ResultNumbers, ResultsAssumption DEF Passwd, Refusals
<1>2. CASE room = n + 1
  <2>1. /\ qt = [parts EXCEPT ![Table(n)] = NextBlocks(n)] /\ next' = next
        /\ held' = held \cup {Handle("passwd", Table(n))} /\ spilt' = spilt
    BY <1>2 DEF Passwd, TableWritten
  <2>2. "passwd" \in ResultKinds \ ListKinds
    BY DEF ResultKinds, ListKinds
  <2> QED BY <1>1, <1>2, <2>1, <2>2, TableLands DEF LandsNext
<1>3. CASE room # n + 1
  <2>1. parts' = parts /\ next' = next /\ held' = held /\ spilt' = spilt \cup NextBlocks(room)
    BY <1>3 DEF Passwd
  <2> QED BY <1>1, <2>1, LandsSpilt DEF LandsNext
<1> QED BY <1>2, <1>3

\* The invariant: the guest's memory and what it holds are of the right kind;
\* blocks are in one account each; links lead onward, lists end, and the nodes of
\* a list share no part.
THEOREM ResultsInvariant == RSpec => []RInv
<1>1. RInit => RInv
  <2> SUFFICES ASSUME RInit PROVE RInv
    OBVIOUS
  <2>1. MaxTop \in Nat /\ top = 0 /\ live = {} /\ held = {} /\ globbed = 0 /\ spilt = {}
        /\ parts = [b \in Blocks |-> {}] /\ next = [b \in Blocks |-> 0]
    BY ResultNumbers DEF RInit
  <2>2. 0 \in 0..MaxTop /\ 0 \in 0..top
    BY <2>1
  <2>3. ResultsTyped
    BY <2>1, <2>2 DEF ResultsTyped, Memory, Onward
  <2>4. HeldBlocks(parts, next, {}) = {}
    <3>1. \A x : x \notin HeldBlocks(parts, next, {})
      BY HeldHas
    <3> QED BY <3>1
  <2>5. Accounted(live, parts, next, held, globbed, spilt)
    BY <2>1, <2>4 DEF Accounted, Globs
  <2> QED BY <2>3, <2>5 DEF RInv
<1>2. RInv /\ [RNext]_resultvars => RInv'
  <2> SUFFICES ASSUME RInv, [RNext]_resultvars PROVE RInv'
    OBVIOUS
  <2>1. CASE UNCHANGED resultvars
    BY <2>1 DEF resultvars, RInv, ResultsTyped, Memory
  <2>2. CASE RNext
    <3>1. ASSUME NEW l \in HostLists, NEW room \in 0..MaxTop, NEW writable \in BOOLEAN,
                 Getaddrinfo(l, room, writable) \/ Getifaddrs(l, room, writable)
          PROVE  LandsNext
      BY <3>1, GetaddrinfoLands, GetifaddrsLands
    <3>2. ASSUME NEW h \in held, FreeList(h) \/ FreeNames(h) \/ \E b \in Blocks : Cut(h, b)
          PROVE  LandsNext
      BY <3>2, FreeLands, CutLands
    <3>3. ASSUME NEW n \in NameCounts, NEW room \in 0..MaxTop, NEW writable \in BOOLEAN, Scandir(n, room, writable)
          PROVE  LandsNext
      BY <3>3, ScandirLands
    <3>4. ASSUME NEW n \in NameCounts, NEW room \in 0..MaxTop, Glob(n, room) \/ Passwd(n, room)
          PROVE  LandsNext
      BY <3>4, GlobLands, PasswdLands
    <3>5. LandsNext
      BY <2>2, <3>1, <3>2, <3>3, <3>4, GlobfreeLands DEF RNext
    <3> QED BY <3>5 DEF LandsNext, Lands, RInv, ResultsTyped, Memory
  <2> QED BY <2>1, <2>2
<1> QED BY <1>1, <1>2, PTL DEF RSpec

\* Host results: whatever the heap refused and however the guest cut its lists,
\* each block in use belongs to one result the guest can give back, to its
\* glob_t or to those spilt, and nothing it can reach was given back.
THEOREM ResultsAreAccounted == RSpec => []ResultsAccounted
<1>1. RInv => ResultsAccounted
  <2> SUFFICES ASSUME RInv PROVE ResultsAccounted
    OBVIOUS
  <2>1. Accounted(live, parts, next, held, globbed, spilt)
    BY DEF RInv
  <2>2. \A h : BlocksHeld(h) = BlocksIn(parts, next, h)
    BY HeldIs
  <2>3. UNION {BlocksHeld(h) : h \in held} = HeldBlocks(parts, next, held)
    BY <2>2 DEF HeldBlocks
  <2>4. Globs(parts, globbed) = IF globbed = 0 THEN {} ELSE WithParts(globbed)
    BY DEF Globs, With, WithParts
  <2>5. /\ live = HeldBlocks(parts, next, held) \cup spilt \cup Globs(parts, globbed)
        /\ \A h, g \in held : h # g => BlocksIn(parts, next, h) \cap BlocksIn(parts, next, g) = {}
        /\ \A h \in held : BlocksIn(parts, next, h) \cap spilt = {}
    BY <2>1 DEF Accounted
  <2>6. live = (UNION {BlocksHeld(h) : h \in held}) \cup spilt
                 \cup IF globbed = 0 THEN {} ELSE WithParts(globbed)
    BY <2>3, <2>4, <2>5
  <2>7. /\ \A h, g \in held : h # g => BlocksHeld(h) \cap BlocksHeld(g) = {}
        /\ \A h \in held : BlocksHeld(h) \cap spilt = {}
    BY <2>2, <2>5
  <2> QED BY <2>6, <2>7 DEF ResultsAccounted
<1> QED BY <1>1, ResultsInvariant, PTL

-------------------------------------------------------------------------------
(***************************************************************************)
(* Transfers: bytes pass through in order, answers hold.                   *)
(***************************************************************************)
SpanSet == [at : Nat, len : Nat]

\* The first so many lists, flattened, are what was flattened by then.
LEMMA FlatOfPrefix ==
  ASSUME NEW k \in Nat, NEW s, NEW t, Len(s) = k, NEW m \in 1..k, Len(t) = m,
         \A i \in 1..m : t[i] = s[i], NEW g, Flattens(s, g, k)
  PROVE  FlattenSeq(t) = g[m]
<1>1. m \in Nat /\ m # 0 /\ 1 \in 1..m /\ m \in 1..m
  OBVIOUS
<1>2. PICK h : Flattens(t, h, m)
  BY <1>1, FlatSteps, Zenon
<1> DEFINE Good == [i \in 1..m |-> {x \in {h[i]} : x = g[i]}]
<1>3. h[1] \in Good[1]
  BY <1>1, <1>2 DEF Flattens
<1>4. ASSUME NEW i \in 2..m, h[i - 1] \in Good[i - 1] PROVE h[i] \in Good[i]
  <2>1. i \in 1..m /\ i - 1 \in 1..m /\ i \in 2..k
    OBVIOUS
  <2>2. h[i - 1] = g[i - 1]
    BY <1>4, <2>1
  <2>3. h[i] = h[i - 1] \o t[i] /\ g[i] = g[i - 1] \o s[i]
    BY <1>2, <2>1 DEF Flattens
  <2> QED BY <2>1, <2>2, <2>3
<1> HIDE DEF Good
<1>5. \A i \in 1..m : h[i] \in Good[i]
  BY <1>1, <1>3, <1>4, EachNext
<1>6. h[m] = g[m]
  BY <1>1, <1>5 DEF Good
<1> QED BY <1>2, <1>6 DEF Flattens

\* The cells of one buffer in order.
Row(s) == [j \in 1..s.len |-> s.at + j - 1]
LEMMA RowIs ==
  ASSUME NEW s \in SpanSet
  PROVE  Row(s) \in Seq(Nat) /\ Len(Row(s)) = s.len /\ \A j \in 1..s.len : Row(s)[j] = s.at + j - 1
<1>1. s.at \in Nat /\ s.len \in Nat
  BY DEF SpanSet
<1>2. \A j \in 1..s.len : s.at + j - 1 \in Nat
  BY <1>1
<1>3. Row(s) \in [1..s.len -> Nat]
  BY <1>2 DEF Row
<1>4. Row(s) \in Seq(Nat) /\ Len(Row(s)) = s.len
  BY <1>1, <1>3
<1> QED BY <1>4 DEF Row

\* Where the buffers of a list begin in the order of its cells.
Begins(iov, B) ==
  /\ B \in [1..Len(iov) + 1 -> Nat] /\ B[1] = 0
  /\ \A i \in 1..Len(iov) : B[i + 1] = B[i] + iov[i].len
  /\ Flat(iov) \in Seq(Nat) /\ Total(iov) = B[Len(iov) + 1]
  /\ \A i \in 1..Len(iov) : B[i] = Before(iov, i)
  /\ \A i \in 1..Len(iov) : \A j \in 1..iov[i].len : Flat(iov)[B[i] + j] = iov[i].at + j - 1

LEMMA BeginsIs ==
  ASSUME NEW iov \in Seq(SpanSet)
  PROVE  \E B : Begins(iov, B)
<1> DEFINE n == Len(iov)
           seqs == [i \in DOMAIN iov |-> Row(iov[i])]
<1>1. n \in Nat /\ DOMAIN iov = 1..n /\ \A i \in 1..n : iov[i] \in SpanSet
  BY LenProperties, ElementOfSeq
<1>2. seqs \in Seq(Seq(Nat)) /\ Len(seqs) = n /\ \A i \in 1..n : seqs[i] = Row(iov[i]) /\ seqs[i] \in Seq(Nat)
  <2>1. \A i \in 1..n : Row(iov[i]) \in Seq(Nat)
    BY <1>1, RowIs
  <2>2. seqs \in [1..n -> Seq(Nat)]
    BY <1>1, <2>1
  <2>3. seqs \in Seq(Seq(Nat)) /\ Len(seqs) = n
    BY <1>1, <2>2
  <2> QED BY <1>1, <2>1, <2>3
<1>3. Flat(iov) = FlattenSeq(seqs)
  BY DEF Flat, Row
<1>4. CASE n = 0
  <2> DEFINE B == [i \in 1..1 |-> 0]
  <2>1. seqs = <<>>
    BY <1>2, <1>4, EmptySeq
  <2>2. Flat(iov) = <<>>
    <3> HIDE DEF seqs
    <3> QED BY <1>3, <2>1 DEF FlattenSeq
  <2>3. Begins(iov, B)
    BY <1>4, <2>2, EmptySeq DEF Begins, Total
  <2> QED BY <2>3
<1>5. CASE n # 0
  <2>1. PICK g : Flattens(seqs, g, n)
    <3> HIDE DEF seqs
    <3> QED BY <1>1, <1>2, <1>5, FlatSteps, Zenon
  <2> HIDE DEF seqs
  <2> DEFINE B == [i \in 1..n + 1 |-> IF i = 1 THEN 0 ELSE Len(g[i - 1])]
             Good == [i \in 1..n |-> {x \in Seq(Nat) :
                        /\ Len(x) = B[i] + iov[i].len
                        /\ \A k \in 1..i : /\ B[k] \in Nat /\ B[k] + iov[k].len <= Len(x)
                                           /\ \A j \in 1..iov[k].len : x[B[k] + j] = iov[k].at + j - 1}]
  <2>2. \A i \in 1..n : iov[i].len \in Nat /\ Len(seqs[i]) = iov[i].len
                        /\ \A j \in 1..iov[i].len : seqs[i][j] = iov[i].at + j - 1
    BY <1>1, <1>2, RowIs DEF SpanSet
  <2>3. 1 \in 1..n + 1 /\ B[1] = 0 /\ \A i \in 1..n : i + 1 \in 1..n + 1 /\ B[i + 1] = Len(g[i]) /\ i \in 1..n + 1
    <3>1. \A i \in 1..n : i + 1 \in 1..n + 1 /\ i + 1 # 1 /\ (i + 1) - 1 = i /\ i \in 1..n + 1
      BY <1>1
    <3>2. 1 \in 1..n + 1
      BY <1>1
    <3> QED BY <3>1, <3>2
  <2> HIDE DEF B
  <2>4. g[1] \in Good[1]
    <3>1. 1 \in 1..n /\ \A k \in 1..1 : k = 1
      BY <1>1, <1>5
    <3>2. g[1] = seqs[1] /\ seqs[1] \in Seq(Nat)
      BY <1>2, <2>1, <3>1 DEF Flattens
    <3>3. iov[1].len \in Nat /\ Len(g[1]) = iov[1].len /\ B[1] = 0
          /\ \A j \in 1..iov[1].len : g[1][j] = iov[1].at + j - 1
      BY <2>2, <2>3, <3>1, <3>2
    <3>4. \A j \in 1..iov[1].len : 0 + j = j
      BY <3>3
    <3>5. \A k \in 1..1 : /\ B[k] \in Nat /\ B[k] + iov[k].len <= Len(g[1])
                          /\ \A j \in 1..iov[k].len : g[1][B[k] + j] = iov[k].at + j - 1
      BY <3>1, <3>3, <3>4
    <3>6. Len(g[1]) = B[1] + iov[1].len
      BY <3>3
    <3> QED BY <3>1, <3>2, <3>5, <3>6
  <2>5. ASSUME NEW i \in 2..n, g[i - 1] \in Good[i - 1] PROVE g[i] \in Good[i]
    <3> DEFINE x == g[i - 1]
               y == seqs[i]
               z == x \o y
    <3>1. i \in 1..n /\ i - 1 \in 1..n /\ (i - 1) + 1 = i
      BY <1>1
    <3>2. /\ x \in Seq(Nat) /\ Len(x) = B[i - 1] + iov[i - 1].len
          /\ \A k \in 1..i - 1 : /\ B[k] \in Nat /\ B[k] + iov[k].len <= Len(x)
                                 /\ \A j \in 1..iov[k].len : x[B[k] + j] = iov[k].at + j - 1
      BY <2>5, <3>1
    <3>3. g[i] = z /\ B[i] = Len(x) /\ y \in Seq(Nat) /\ Len(y) = iov[i].len /\ iov[i].len \in Nat
      BY <1>2, <2>1, <2>2, <2>3, <3>1 DEF Flattens
    <3>4. Len(x) \in Nat
      BY <3>2, LenProperties
    <3> HIDE DEF x, y
    <3>5. z \in Seq(Nat) /\ Len(z) = Len(x) + Len(y)
          /\ \A l \in 1..Len(x) + Len(y) : z[l] = IF l <= Len(x) THEN x[l] ELSE y[l - Len(x)]
      <4>1. x \in Seq(Nat) /\ y \in Seq(Nat)
        BY <3>2, <3>3
      <4> QED BY <4>1, ConcatProperties
    <3> HIDE DEF z
    <3>6. ASSUME NEW k \in 1..i
          PROVE  /\ B[k] \in Nat /\ B[k] + iov[k].len <= Len(z)
                 /\ \A j \in 1..iov[k].len : z[B[k] + j] = iov[k].at + j - 1
      <4>1. CASE k = i
        <5>1. ASSUME NEW j \in 1..iov[i].len PROVE z[B[i] + j] = iov[i].at + j - 1
          <6>1. B[i] + j \in 1..Len(x) + Len(y) /\ ~(B[i] + j <= Len(x)) /\ (B[i] + j) - Len(x) = j
            BY <3>3, <3>4
          <6> QED BY <2>2, <3>1, <3>5, <6>1 DEF y
        <5>2. B[i] \in Nat /\ B[i] + iov[i].len = Len(z)
          BY <3>3, <3>4, <3>5
        <5>3. B[i] + iov[i].len <= Len(z)
          BY <3>3, <5>2
        <5> QED BY <4>1, <5>1, <5>2, <5>3
      <4>2. CASE k # i
        <5>1. k \in 1..i - 1 /\ k \in 1..n
          BY <3>1, <4>2
        <5>2. B[k] \in Nat /\ iov[k].len \in Nat /\ B[k] + iov[k].len <= Len(x)
          BY <2>2, <3>2, <5>1
        <5>3. ASSUME NEW j \in 1..iov[k].len PROVE z[B[k] + j] = iov[k].at + j - 1
          <6>1. \A a, b, c, d \in Nat : a + b <= c /\ j \in 1..b => a + j \in 1..c + d /\ a + j <= c
            OBVIOUS
          <6>2. B[k] + j \in 1..Len(x) + Len(y) /\ B[k] + j <= Len(x)
            BY <3>3, <3>4, <5>2, <6>1
          <6> QED BY <3>2, <3>5, <5>1, <6>2
        <5>4. B[k] + iov[k].len <= Len(z)
          <6>1. \A a, c, d \in Nat : a <= c => a <= c + d
            OBVIOUS
          <6>2. B[k] + iov[k].len \in Nat
            BY <5>2
          <6> QED BY <3>3, <3>4, <3>5, <5>2, <6>1, <6>2
        <5> QED BY <5>2, <5>3, <5>4
      <4> QED BY <4>1, <4>2
    <3> QED BY <3>1, <3>3, <3>5, <3>6
  <2> HIDE DEF Good
  <2>6. \A i \in 1..n : g[i] \in Good[i]
    <3> HIDE DEF n
    <3> QED BY <1>1, <1>5, <2>4, <2>5, EachNext
  <2>7. \A i \in 1..n : /\ g[i] \in Seq(Nat) /\ Len(g[i]) \in Nat /\ Len(g[i]) = B[i] + iov[i].len /\ B[i] \in Nat
                        /\ \A j \in 1..iov[i].len : g[n][B[i] + j] = iov[i].at + j - 1
    <3>1. n \in 1..n /\ \A i \in 1..n : i \in 1..i
      BY <1>1, <1>5
    <3>2. \A i \in 1..n : g[i] \in Seq(Nat) /\ Len(g[i]) = B[i] + iov[i].len /\ B[i] \in Nat
      BY <2>6, <3>1 DEF Good
    <3>3. \A i \in 1..n : \A j \in 1..iov[i].len : g[n][B[i] + j] = iov[i].at + j - 1
      BY <2>6, <3>1 DEF Good
    <3> QED BY <3>2, <3>3, LenProperties
  <2>8. n \in 1..n
    BY <1>1, <1>5
  <2>9. Flat(iov) = g[n]
    BY <1>3, <2>1 DEF Flattens
  <2>10. B \in [1..n + 1 -> Nat]
    <3>1. \A i \in 1..n + 1 : i = 1 \/ i - 1 \in 1..n
      BY <1>1
    <3> QED BY <2>7, <3>1 DEF B
  <2>11. \A i \in 1..n : B[i + 1] = B[i] + iov[i].len
    BY <2>3, <2>7
  <2>12. ASSUME NEW i \in 1..n PROVE B[i] = Before(iov, i)
    <3> DEFINE v == SubSeq(iov, 1, i - 1)
               t == [k \in DOMAIN v |-> Row(v[k])]
    <3>1. i - 1 \in Nat /\ i - 1 <= n
      BY <1>1
    <3>2. v \in Seq(SpanSet) /\ Len(v) = i - 1 /\ \A k \in 1..i - 1 : v[k] = iov[k]
      BY <1>1, <3>1, SubSeqProperties
    <3>3. DOMAIN v = 1..i - 1
      BY <3>2, LenProperties
    <3> HIDE DEF v
    <3>4. \A k \in 1..i - 1 : t[k] = seqs[k] /\ t[k] \in Seq(Nat)
      <4>1. \A k \in 1..i - 1 : k \in 1..n
        BY <1>1
      <4> QED BY <1>2, <3>2, <3>3, <4>1
    <3>5. t \in Seq(Seq(Nat)) /\ Len(t) = i - 1
      <4>1. t \in [1..i - 1 -> Seq(Nat)]
        BY <3>3, <3>4
      <4> HIDE DEF t
      <4> QED BY <3>1, <4>1
    <3>6. Before(iov, i) = Len(FlattenSeq(t))
      BY DEF Before, Total, Flat, Row, v
    <3> HIDE DEF t
    <3>7. CASE i = 1
      <4>1. t = <<>>
        BY <3>5, <3>7, EmptySeq
      <4>2. FlattenSeq(t) = <<>>
        BY <4>1 DEF FlattenSeq
      <4> QED BY <2>3, <3>6, <3>7, <4>2
    <3>8. CASE i # 1
      <4>1. i - 1 \in 1..n /\ (i - 1) + 1 = i
        BY <1>1, <3>8
      <4>2. Len(seqs) = n /\ Len(t) = i - 1 /\ \A k \in 1..i - 1 : t[k] = seqs[k]
        BY <1>2, <3>4, <3>5
      <4>3. FlattenSeq(t) = g[i - 1]
        <5> HIDE DEF n
        <5> QED BY <1>1, <2>1, <4>1, <4>2, FlatOfPrefix
      <4> QED BY <2>3, <3>6, <4>1, <4>3
    <3> QED BY <3>7, <3>8
  <2>13. Total(iov) = B[n + 1]
    BY <2>3, <2>8, <2>9 DEF Total
  <2>14. Begins(iov, B)
    BY <2>3, <2>7, <2>8, <2>9, <2>10, <2>11, <2>12, <2>13 DEF Begins
  <2> QED BY <2>14
<1> QED BY <1>4, <1>5

LEMMA CellsAre ==
  ASSUME NEW s \in SpanSet
  PROVE  \A c : c \in CellsOf(s) <=> \E j \in 1..s.len : c = s.at + j - 1
<1>1. s.at \in Nat /\ s.len \in Nat
  BY DEF SpanSet
<1>2. \A c \in CellsOf(s) : c - s.at + 1 \in 1..s.len /\ c = s.at + (c - s.at + 1) - 1
  BY <1>1 DEF CellsOf
<1>3. \A j \in 1..s.len : s.at + j - 1 \in CellsOf(s)
  BY <1>1 DEF CellsOf
<1> QED BY <1>2, <1>3

\* Every place in the order is in one of the buffers, and their places rise.
LEMMA BeginsReach ==
  ASSUME NEW iov \in Seq(SpanSet), NEW B, Begins(iov, B)
  PROVE  /\ Total(iov) \in Nat
         /\ \A i \in 1..Len(iov) : B[i] \in Nat /\ iov[i].len \in Nat /\ B[i] + iov[i].len <= Total(iov)
         /\ \A i, k \in 1..Len(iov) : i < k => B[i] + iov[i].len <= B[k]
         /\ \A x \in 1..Total(iov) : \E i \in 1..Len(iov) : \E j \in 1..iov[i].len : x = B[i] + j
<1> DEFINE n == Len(iov)
<1>1. /\ n \in Nat /\ B \in [1..n + 1 -> Nat] /\ B[1] = 0 /\ Total(iov) = B[n + 1]
      /\ \A i \in 1..n : B[i + 1] = B[i] + iov[i].len
      /\ \A i \in 1..n : iov[i].len \in Nat
  <2>1. n \in Nat /\ \A i \in 1..n : iov[i] \in SpanSet
    BY LenProperties, ElementOfSeq
  <2>2. \A i \in 1..n : iov[i].len \in Nat
    BY <2>1 DEF SpanSet
  <2> QED BY <2>1, <2>2 DEF Begins
<1> HIDE DEF n
<1> DEFINE Good == [k \in 1..n + 1 |-> {b \in Nat : \A i \in 1..k - 1 : B[i + 1] <= b}]
<1>2. \A k \in 1..n + 1 : B[k] \in Good[k]
  <2>1. n + 1 \in Nat /\ n + 1 # 0 /\ 1 \in 1..n + 1 /\ 1..1 - 1 = {}
    BY <1>1
  <2>2. B[1] \in Good[1]
    BY <1>1, <2>1
  <2>3. ASSUME NEW k \in 2..n + 1, B[k - 1] \in Good[k - 1] PROVE B[k] \in Good[k]
    <3>1. k - 1 \in 1..n /\ k - 1 \in 1..n + 1 /\ k \in 1..n + 1 /\ (k - 1) + 1 = k
      BY <1>1
    <3>2. B[k - 1] \in Nat /\ B[k] \in Nat /\ B[k] = B[k - 1] + iov[k - 1].len /\ iov[k - 1].len \in Nat
          /\ B[k - 1] <= B[k]
      <4>1. B[k - 1] \in Nat /\ B[k] \in Nat /\ B[k] = B[k - 1] + iov[k - 1].len /\ iov[k - 1].len \in Nat
        BY <1>1, <3>1
      <4> QED BY <4>1
    <3>3. \A i \in 1..(k - 1) - 1 : B[i + 1] <= B[k - 1] /\ B[i + 1] \in Nat
      <4>1. \A i \in 1..(k - 1) - 1 : i + 1 \in 1..n + 1
        BY <1>1
      <4> QED BY <1>1, <2>3, <3>1, <4>1
    <3>4. ASSUME NEW i \in 1..k - 1 PROVE B[i + 1] <= B[k]
      <4>1. i = k - 1 \/ i \in 1..(k - 1) - 1
        OBVIOUS
      <4>2. CASE i = k - 1
        BY <3>1, <3>2, <4>2
      <4>3. CASE i \in 1..(k - 1) - 1
        BY <3>2, <3>3, <4>3
      <4> QED BY <4>1, <4>2, <4>3
    <3> QED BY <3>1, <3>2, <3>4
  <2> HIDE DEF Good
  <2> QED BY <2>1, <2>2, <2>3, EachNext
<1>3. \A k \in 1..n + 1 : \A i \in 1..k - 1 : B[i + 1] <= B[k]
  BY <1>2
<1> HIDE DEF Good
<1>4. ASSUME NEW i \in 1..n
      PROVE  B[i] \in Nat /\ B[i] + iov[i].len <= B[n + 1] /\ \A k \in 1..n : i < k => B[i] + iov[i].len <= B[k]
  <2>1. i \in 1..n + 1 /\ n + 1 \in 1..n + 1 /\ i \in 1..(n + 1) - 1
    BY <1>1
  <2>2. \A k \in 1..n : k \in 1..n + 1 /\ (i < k => i \in 1..k - 1)
    BY <1>1
  <2> QED BY <1>1, <1>3, <2>1, <2>2
<1>5. ASSUME NEW x \in 1..B[n + 1] PROVE \E i \in 1..n : \E j \in 1..iov[i].len : x = B[i] + j
  <2> DEFINE T == {i \in 1..n : x <= B[i + 1]}
  <2>1. n + 1 \in 1..n + 1 /\ B[n + 1] \in Nat
    BY <1>1
  <2>2. x \in Nat /\ 1 <= x /\ x <= B[n + 1]
    BY <2>1
  <2>3. n # 0
    BY <1>1, <2>2
  <2>4. n \in T /\ T \subseteq Nat
    BY <1>1, <2>2, <2>3
  <2>5. PICK i \in T : \A m \in T : i <= m
    BY <2>4, LeastOf
  <2>6. i \in 1..n /\ x <= B[i + 1] /\ B[i + 1] = B[i] + iov[i].len /\ B[i] \in Nat /\ iov[i].len \in Nat
    BY <1>1, <1>4
  <2>7. B[i] < x
    <3>1. CASE i = 1
      BY <1>1, <2>2, <3>1
    <3>2. CASE i # 1
      <4>1. i - 1 \in 1..n /\ ~(i <= i - 1) /\ (i - 1) + 1 = i
        BY <1>1, <2>6, <3>2
      <4>2. i - 1 \notin T
        <5> HIDE DEF T
        <5> QED BY <2>5, <4>1
      <4>3. ~(x <= B[i])
        BY <4>1, <4>2
      <4> QED BY <2>2, <2>6, <4>3
    <3> QED BY <3>1, <3>2
  <2>8. x - B[i] \in 1..iov[i].len /\ x = B[i] + (x - B[i])
    BY <2>2, <2>6, <2>7
  <2> QED BY <2>6, <2>8
<1>6. B[n + 1] \in Nat
  BY <1>1
<1> QED BY <1>1, <1>4, <1>5, <1>6 DEF n

\* The cells of a list are those of its buffers.
LEMMA OfIovecsAre ==
  ASSUME NEW iov \in Seq(SpanSet)
  PROVE  \A c : c \in OfIovecs(iov) <=> \E i \in 1..Len(iov) : c \in CellsOf(iov[i])
<1>1. PICK B : Begins(iov, B)
  BY BeginsIs
<1>2. \A i \in 1..Len(iov) : iov[i] \in SpanSet
  BY ElementOfSeq
<1>3. /\ Total(iov) \in Nat
      /\ \A i \in 1..Len(iov) : B[i] \in Nat /\ iov[i].len \in Nat /\ B[i] + iov[i].len <= Total(iov)
      /\ \A x \in 1..Total(iov) : \E i \in 1..Len(iov) : \E j \in 1..iov[i].len : x = B[i] + j
  <2>1. Total(iov) \in Nat
    BY <1>1, BeginsReach
  <2>2. \A i \in 1..Len(iov) : B[i] \in Nat /\ iov[i].len \in Nat /\ B[i] + iov[i].len <= Total(iov)
    BY <1>1, BeginsReach
  <2>3. \A x \in 1..Total(iov) : \E i \in 1..Len(iov) : \E j \in 1..iov[i].len : x = B[i] + j
    BY <1>1, BeginsReach
  <2> QED BY <2>1, <2>2, <2>3
<1>4. /\ Flat(iov) \in Seq(Nat) /\ Len(Flat(iov)) = Total(iov)
      /\ \A i \in 1..Len(iov) : \A j \in 1..iov[i].len : Flat(iov)[B[i] + j] = iov[i].at + j - 1
  BY <1>1 DEF Begins, Total
<1>5. \A c : c \in OfIovecs(iov) <=> \E x \in 1..Total(iov) : c = Flat(iov)[x]
  BY <1>4, SetOfSeq DEF OfIovecs
<1>6. ASSUME NEW c, c \in OfIovecs(iov) PROVE \E i \in 1..Len(iov) : c \in CellsOf(iov[i])
  <2>1. PICK x \in 1..Total(iov) : c = Flat(iov)[x]
    BY <1>5, <1>6
  <2>2. PICK i \in 1..Len(iov) : \E j \in 1..iov[i].len : x = B[i] + j
    BY <1>3
  <2>3. PICK j \in 1..iov[i].len : x = B[i] + j
    BY <2>2
  <2>4. c = iov[i].at + j - 1
    BY <1>4, <2>1, <2>3
  <2> QED BY <1>2, <2>4, CellsAre
<1>7. ASSUME NEW c, NEW i \in 1..Len(iov), c \in CellsOf(iov[i]) PROVE c \in OfIovecs(iov)
  <2>1. PICK j \in 1..iov[i].len : c = iov[i].at + j - 1
    BY <1>2, <1>7, CellsAre
  <2>2. B[i] + j \in 1..Total(iov)
    BY <1>3
  <2> QED BY <1>4, <1>5, <2>1, <2>2
<1> QED BY <1>6, <1>7

\* As many cells as places: no cell is twice in the list.
LEMMA DisjointIs ==
  ASSUME NEW iov \in Seq(SpanSet), Disjoint(iov)
  PROVE  \A i, k \in 1..Len(iov) : i # k => \A c \in CellsOf(iov[i]) : c \notin CellsOf(iov[k])
<1> DEFINE f == Flat(iov)
           N == Total(iov)
<1>1. PICK B : Begins(iov, B)
  BY BeginsIs
<1>2. \A i \in 1..Len(iov) : iov[i] \in SpanSet
  BY ElementOfSeq
<1>3. /\ N \in Nat
      /\ \A i \in 1..Len(iov) : B[i] \in Nat /\ iov[i].len \in Nat /\ B[i] + iov[i].len <= N
      /\ \A i, k \in 1..Len(iov) : i < k => B[i] + iov[i].len <= B[k]
  BY <1>1, BeginsReach
<1>4. /\ f \in Seq(Nat) /\ Len(f) = N
      /\ \A i \in 1..Len(iov) : \A j \in 1..iov[i].len : f[B[i] + j] = iov[i].at + j - 1
  BY <1>1 DEF Begins, Total
<1>5. DOMAIN f = 1..N /\ f \in [1..N -> Nat] /\ ToSet(f) = {f[i] : i \in 1..N}
  BY <1>4, LenProperties, SetOfSeq
<1>6. Cardinality(ToSet(f)) = N
  BY DEF Disjoint, OfIovecs
<1> HIDE DEF f, N
<1>7. f \in Surjection(1..N, ToSet(f))
  BY <1>5 DEF Surjection
<1>8. IsFiniteSet(1..N) /\ Cardinality(1..N) = N
  <2>1. 1 \in Int /\ N \in Int
    BY <1>3
  <2>2. IsFiniteSet(1..N) /\ Cardinality(1..N) = IF 1 > N THEN 0 ELSE N - 1 + 1
    BY <2>1, FS_Interval
  <2> QED BY <1>3, <2>2
<1>9. f \in Injection(1..N, ToSet(f))
  BY <1>6, <1>7, <1>8, FS_Surjection
<1>10. \A x, y \in 1..N : f[x] = f[y] => x = y
  BY <1>9 DEF Injection, IsInjective
<1>11. ASSUME NEW i \in 1..Len(iov), NEW k \in 1..Len(iov), i # k, NEW c, c \in CellsOf(iov[i]), c \in CellsOf(iov[k])
       PROVE  FALSE
  <2>1. PICK a \in 1..iov[i].len : c = iov[i].at + a - 1
    BY <1>2, <1>11, CellsAre
  <2>2. PICK b \in 1..iov[k].len : c = iov[k].at + b - 1
    BY <1>2, <1>11, CellsAre
  <2>3. B[i] + a \in 1..N /\ B[k] + b \in 1..N
    <3>1. \A x, l \in Nat : x + l <= N => \A y \in 1..l : x + y \in 1..N
      BY <1>3
    <3> QED BY <1>3, <3>1
  <2>4. B[i] + a = B[k] + b
    <3>1. f[B[i] + a] = c /\ f[B[k] + b] = c
      BY <1>4, <2>1, <2>2
    <3> QED BY <1>10, <2>3, <3>1
  <2>5. Len(iov) \in Nat
    BY LenProperties
  <2>6. CASE i < k
    <3>1. B[i] + iov[i].len <= B[k]
      BY <1>3, <2>6
    <3> QED BY <1>3, <2>4, <3>1
  <2>7. CASE k < i
    <3>1. B[k] + iov[k].len <= B[i]
      BY <1>3, <2>7
    <3> QED BY <1>3, <2>4, <3>1
  <2> QED BY <1>11, <2>5, <2>6, <2>7
<1> QED BY <1>11

Mems == [Cells -> Int]
PieceSet == [at : Nat, bytes : Seq(Int)]
Covers(p) == p.at..(p.at + Len(p.bytes) - 1)
Says(m, p) == \A j \in 1..Len(p.bytes) : m[p.at + j - 1] = p.bytes[j]
AllApart(ps) == \A p, q \in ps : p = q \/ Covers(p) \cap Covers(q) = {}

LEMMA PieceFacts ==
  ASSUME NEW p \in PieceSet
  PROVE  /\ p.at \in Nat /\ p.bytes \in Seq(Int) /\ Len(p.bytes) \in Nat
         /\ \A j \in 1..Len(p.bytes) : p.bytes[j] \in Int /\ p.at + j - 1 \in Covers(p) /\ (p.at + j - 1) - p.at + 1 = j
         /\ \A c \in Covers(p) : c - p.at + 1 \in 1..Len(p.bytes) /\ c = p.at + (c - p.at + 1) - 1 /\ c \in Nat
<1>1. p.at \in Nat /\ p.bytes \in Seq(Int)
  BY DEF PieceSet
<1>2. Len(p.bytes) \in Nat /\ \A j \in 1..Len(p.bytes) : p.bytes[j] \in Int
  BY <1>1, LenProperties, ElementOfSeq
<1>3. \A j \in 1..Len(p.bytes) : p.at + j - 1 \in Covers(p) /\ (p.at + j - 1) - p.at + 1 = j
  BY <1>1, <1>2 DEF Covers
<1>4. \A c \in Covers(p) : c - p.at + 1 \in 1..Len(p.bytes) /\ c = p.at + (c - p.at + 1) - 1 /\ c \in Nat
  BY <1>1, <1>2 DEF Covers
<1> QED BY <1>1, <1>2, <1>3, <1>4

\* One piece: what it covers, and nothing else.
LEMMA WroteIs ==
  ASSUME NEW m \in Mems, NEW p \in PieceSet
  PROVE  /\ Wrote(m, p) \in Mems
         /\ \A c \in Cells : c \notin Covers(p) => Wrote(m, p)[c] = m[c]
         /\ Covers(p) \subseteq Cells => Says(Wrote(m, p), p)
         /\ \A q \in PieceSet : Covers(p) \cap Covers(q) = {} /\ Covers(q) \subseteq Cells /\ Says(m, q) => Says(Wrote(m, p), q)
<1> DEFINE w == Wrote(m, p)
<1>1. w = [c \in Cells |-> IF c \in Covers(p) THEN p.bytes[c - p.at + 1] ELSE m[c]]
  BY DEF Wrote, Covers
<1>2. \A c \in Cells : w[c] = IF c \in Covers(p) THEN p.bytes[c - p.at + 1] ELSE m[c]
  BY <1>1
<1>3. \A c \in Cells : (IF c \in Covers(p) THEN p.bytes[c - p.at + 1] ELSE m[c]) \in Int
  <2>1. \A c \in Cells : m[c] \in Int
    BY DEF Mems
  <2>2. \A c \in Covers(p) : p.bytes[c - p.at + 1] \in Int
    BY PieceFacts
  <2> QED BY <2>1, <2>2
<1>4. w \in Mems
  BY <1>1, <1>3 DEF Mems
<1> HIDE DEF w
<1>5. ASSUME Covers(p) \subseteq Cells PROVE Says(w, p)
  BY <1>2, <1>5, PieceFacts DEF Says
<1>6. ASSUME NEW q \in PieceSet, Covers(p) \cap Covers(q) = {}, Covers(q) \subseteq Cells, Says(m, q)
      PROVE  Says(w, q)
  <2>1. \A j \in 1..Len(q.bytes) : q.at + j - 1 \in Covers(q)
    BY PieceFacts
  <2> QED BY <1>2, <1>6, <2>1 DEF Says
<1> QED BY <1>2, <1>4, <1>5, <1>6 DEF w

LEMMA FitsIs ==
  ASSUME NEW p \in PieceSet, Fits(p)
  PROVE  Covers(p) \subseteq Cells
BY DEF Fits, Mapped, Covers

\* The state of a write of many pieces after so many of them.
Results == [mem : Mems, ok : BOOLEAN]
WStep(r, p) == IF r.ok /\ Fits(p) THEN [mem |-> Wrote(r.mem, p), ok |-> TRUE]
               ELSE [mem |-> r.mem, ok |-> FALSE]
WritesTo(m, pieces, f) ==
  f = [k \in 0..Len(pieces) |->
         IF k = 0 THEN [mem |-> m, ok |-> TRUE] ELSE WStep(f[k - 1], pieces[k])]
Frame(m, r, ps) == \A c \in Cells : r[c] # m[c] => \E p \in ps : c \in Covers(p)

LEMMA WrittenIs ==
  ASSUME NEW m \in Mems, NEW pieces \in Seq(PieceSet)
  PROVE  /\ Written(m, pieces) \in Results
         /\ Frame(m, Written(m, pieces).mem, ToSet(pieces))
         /\ AllApart(ToSet(pieces)) /\ Written(m, pieces).ok =>
              \A p \in ToSet(pieces) : Covers(p) \subseteq Cells /\ Says(Written(m, pieces).mem, p)
<1> DEFINE k == Len(pieces)
           start == [mem |-> m, ok |-> TRUE]
           F == [i \in 1..k |-> [r \in Results |-> WStep(r, pieces[i])]]
           g == CHOOSE f : WritesTo(m, pieces, f)
<1>1. k \in Nat /\ \A i \in 1..k : pieces[i] \in PieceSet
  BY LenProperties, ElementOfSeq
<1>2. \A r \in Results, p \in PieceSet : WStep(r, p) \in Results
  BY WroteIs DEF WStep, Results
<1>3. start \in Results
  BY DEF Results
<1>4. F \in [1..k -> [Results -> Results]]
  BY <1>1, <1>2
<1>5. PICK f : Stepped(start, F, k, f) /\ \A i \in 0..k : f[i] \in Results
  <2> HIDE DEF F, k, start
  <2> QED BY <1>1, <1>3, <1>4, StepsExist
<1>6. WritesTo(m, pieces, f)
  <2>1. ASSUME NEW i \in 0..k, i # 0 PROVE F[i][f[i - 1]] = WStep(f[i - 1], pieces[i])
    <3>1. i \in 1..k /\ i - 1 \in 0..k
      BY <1>1, <2>1
    <3> QED BY <1>5, <3>1
  <2> HIDE DEF F, start
  <2>2. f = [i \in 0..k |-> IF i = 0 THEN start ELSE WStep(f[i - 1], pieces[i])]
    BY <1>5, <2>1 DEF Stepped
  <2> QED BY <2>2 DEF WritesTo, start
<1>7. WritesTo(m, pieces, g)
  BY <1>6
<1>8. Written(m, pieces) = g[k]
  BY DEF Written, WritesTo, WStep
<1> HIDE DEF g
<1>9. g[0] = start /\ \A i \in 1..k : g[i] = WStep(g[i - 1], pieces[i])
  <2> DEFINE V(i) == IF i = 0 THEN start ELSE WStep(g[i - 1], pieces[i])
  <2>1. g = [i \in 0..k |-> V(i)]
    BY <1>7 DEF WritesTo
  <2> HIDE DEF V, k
  <2>2. \A i \in 0..k : g[i] = V(i)
    BY <2>1
  <2>3. 0 \in 0..k /\ \A i \in 1..k : i \in 0..k /\ i # 0
    BY <1>1
  <2> QED BY <2>2, <2>3 DEF V
<1>10. ToSet(pieces) = {pieces[i] : i \in 1..k} /\ ToSet(pieces) \subseteq PieceSet
  BY SetOfSeq
<1> DEFINE Fine(i, r) == /\ r \in Results
                         /\ Frame(m, r.mem, ToSet(pieces))
                         /\ AllApart(ToSet(pieces)) /\ r.ok =>
                              \A j \in 1..i : Covers(pieces[j]) \subseteq Cells /\ Says(r.mem, pieces[j])
           Good == [i \in 0..k |-> {r \in Results : Fine(i, r)}]
<1>11. g[0] \in Good[0]
  <2>1. 0 \in 0..k /\ 1..0 = {}
    BY <1>1
  <2>2. Fine(0, start)
    BY <1>3, <2>1 DEF Frame
  <2> QED BY <1>3, <1>9, <2>1, <2>2
<1>12. ASSUME NEW i \in 1..k, g[i - 1] \in Good[i - 1] PROVE g[i] \in Good[i]
  <2> DEFINE r == g[i - 1]
             p == pieces[i]
  <2>1. i - 1 \in 0..k /\ i \in 0..k /\ \A j \in 1..i : j \in 1..(i - 1) \/ j = i
    BY <1>1
  <2>2. r \in Results /\ Fine(i - 1, r)
    BY <1>12, <2>1
  <2>3. p \in PieceSet /\ p \in ToSet(pieces) /\ r.mem \in Mems
    BY <1>1, <1>10, <2>2 DEF Results
  <2>4. g[i] = WStep(r, p)
    BY <1>9
  <2> HIDE DEF r
  <2>5. CASE r.ok /\ Fits(p)
    <3>1. g[i].mem = Wrote(r.mem, p) /\ g[i].ok = TRUE
      BY <2>4, <2>5 DEF WStep
    <3>2. g[i] \in Results
      BY <1>2, <2>2, <2>3, <2>4
    <3>3. Frame(m, g[i].mem, ToSet(pieces))
      <4>1. \A c \in Cells : c \notin Covers(p) => Wrote(r.mem, p)[c] = r.mem[c]
        BY <2>3, WroteIs
      <4> QED BY <2>2, <2>3, <3>1, <4>1 DEF Frame
    <3>4. ASSUME AllApart(ToSet(pieces)), NEW j \in 1..i
          PROVE  Covers(pieces[j]) \subseteq Cells /\ Says(g[i].mem, pieces[j])
      <4>1. Covers(p) \subseteq Cells /\ Says(Wrote(r.mem, p), p)
        BY <2>3, <2>5, FitsIs, WroteIs
      <4>2. CASE pieces[j] = p
        BY <3>1, <4>1, <4>2
      <4>3. CASE pieces[j] # p
        <5>1. j \in 1..(i - 1) /\ j \in 1..k
          BY <1>1, <2>1, <4>3
        <5>2. pieces[j] \in ToSet(pieces) /\ pieces[j] \in PieceSet
          BY <1>1, <1>10, <5>1
        <5>3. Covers(p) \cap Covers(pieces[j]) = {}
          BY <2>3, <3>4, <4>3, <5>2 DEF AllApart
        <5>4. Covers(pieces[j]) \subseteq Cells /\ Says(r.mem, pieces[j])
          BY <2>2, <2>5, <3>4, <5>1
        <5> HIDE DEF p
        <5>5. Says(Wrote(r.mem, p), pieces[j])
          BY <2>3, <5>2, <5>3, <5>4, WroteIs
        <5> QED BY <3>1, <5>4, <5>5
      <4> QED BY <4>2, <4>3
    <3> QED BY <2>1, <3>2, <3>3, <3>4
  <2>6. CASE ~(r.ok /\ Fits(p))
    <3>1. g[i].mem = r.mem /\ g[i].ok = FALSE
      BY <2>4, <2>6 DEF WStep
    <3>2. g[i] \in Results
      BY <1>2, <2>2, <2>3, <2>4
    <3>3. Fine(i, g[i])
      BY <2>2, <3>1, <3>2
    <3> QED BY <2>1, <3>2, <3>3
  <2> QED BY <2>5, <2>6
<1> HIDE DEF Good
<1>13. \A i \in 0..k : g[i] \in Good[i]
  <2> HIDE DEF k
  <2> QED BY <1>1, <1>11, <1>12, EachStep
<1>14. k \in 0..k /\ Fine(k, g[k])
  BY <1>1, <1>13 DEF Good
<1> QED BY <1>8, <1>10, <1>14

\* The same for pieces that are written each on its own.
BStep(r, p) == IF Fits(p) THEN Wrote(r, p) ELSE r
WritesBlindlyTo(m, pieces, f) ==
  f = [k \in 0..Len(pieces) |-> IF k = 0 THEN m ELSE BStep(f[k - 1], pieces[k])]

LEMMA WrittenBlindlyIs ==
  ASSUME NEW m \in Mems, NEW pieces \in Seq(PieceSet)
  PROVE  /\ WrittenBlindly(m, pieces) \in Mems
         /\ Frame(m, WrittenBlindly(m, pieces), ToSet(pieces))
         /\ AllApart(ToSet(pieces)) => \A p \in ToSet(pieces) : Fits(p) => Says(WrittenBlindly(m, pieces), p)
<1> DEFINE k == Len(pieces)
           F == [i \in 1..k |-> [r \in Mems |-> BStep(r, pieces[i])]]
           g == CHOOSE f : WritesBlindlyTo(m, pieces, f)
<1>1. k \in Nat /\ \A i \in 1..k : pieces[i] \in PieceSet
  BY LenProperties, ElementOfSeq
<1>2. \A r \in Mems, p \in PieceSet : BStep(r, p) \in Mems
  BY WroteIs DEF BStep
<1>4. F \in [1..k -> [Mems -> Mems]]
  BY <1>1, <1>2
<1>5. PICK f : Stepped(m, F, k, f) /\ \A i \in 0..k : f[i] \in Mems
  <2> HIDE DEF F, k
  <2> QED BY <1>1, <1>4, StepsExist
<1>6. WritesBlindlyTo(m, pieces, f)
  <2>1. ASSUME NEW i \in 0..k, i # 0 PROVE F[i][f[i - 1]] = BStep(f[i - 1], pieces[i])
    <3>1. i \in 1..k /\ i - 1 \in 0..k
      BY <1>1, <2>1
    <3> QED BY <1>5, <3>1
  <2> HIDE DEF F
  <2>2. f = [i \in 0..k |-> IF i = 0 THEN m ELSE BStep(f[i - 1], pieces[i])]
    BY <1>5, <2>1 DEF Stepped
  <2> QED BY <2>2 DEF WritesBlindlyTo
<1>7. WritesBlindlyTo(m, pieces, g)
  BY <1>6
<1>8. WrittenBlindly(m, pieces) = g[k]
  BY DEF WrittenBlindly, WritesBlindlyTo, BStep
<1> HIDE DEF g
<1>9. g[0] = m /\ \A i \in 1..k : g[i] = BStep(g[i - 1], pieces[i])
  <2> DEFINE V(i) == IF i = 0 THEN m ELSE BStep(g[i - 1], pieces[i])
  <2>1. g = [i \in 0..k |-> V(i)]
    BY <1>7 DEF WritesBlindlyTo
  <2> HIDE DEF V, k
  <2>2. \A i \in 0..k : g[i] = V(i)
    BY <2>1
  <2>3. 0 \in 0..k /\ \A i \in 1..k : i \in 0..k /\ i # 0
    BY <1>1
  <2> QED BY <2>2, <2>3 DEF V
<1>10. ToSet(pieces) = {pieces[i] : i \in 1..k} /\ ToSet(pieces) \subseteq PieceSet
  BY SetOfSeq
<1> DEFINE Fine(i, r) == /\ Frame(m, r, ToSet(pieces))
                         /\ AllApart(ToSet(pieces)) => \A j \in 1..i : Fits(pieces[j]) => Says(r, pieces[j])
           Good == [i \in 0..k |-> {r \in Mems : Fine(i, r)}]
<1>11. g[0] \in Good[0]
  <2>1. 0 \in 0..k /\ 1..0 = {}
    BY <1>1
  <2>2. Fine(0, m)
    BY <2>1 DEF Frame
  <2> QED BY <1>9, <2>1, <2>2
<1>12. ASSUME NEW i \in 1..k, g[i - 1] \in Good[i - 1] PROVE g[i] \in Good[i]
  <2> DEFINE r == g[i - 1]
             p == pieces[i]
  <2>1. i - 1 \in 0..k /\ i \in 0..k /\ \A j \in 1..i : j \in 1..(i - 1) \/ j = i
    BY <1>1
  <2>2. r \in Mems /\ Fine(i - 1, r)
    BY <1>12, <2>1
  <2>3. p \in PieceSet /\ p \in ToSet(pieces)
    BY <1>1, <1>10
  <2>4. g[i] = BStep(r, p)
    BY <1>9
  <2> HIDE DEF r
  <2>5. CASE Fits(p)
    <3>1. g[i] = Wrote(r, p) /\ g[i] \in Mems
      BY <1>2, <2>2, <2>3, <2>4, <2>5 DEF BStep
    <3>3. Frame(m, g[i], ToSet(pieces))
      <4>1. \A c \in Cells : c \notin Covers(p) => Wrote(r, p)[c] = r[c]
        BY <2>2, <2>3, WroteIs
      <4> QED BY <2>2, <2>3, <3>1, <4>1 DEF Frame
    <3>4. ASSUME AllApart(ToSet(pieces)), NEW j \in 1..i, Fits(pieces[j]) PROVE Says(g[i], pieces[j])
      <4>1. Says(Wrote(r, p), p)
        BY <2>2, <2>3, <2>5, FitsIs, WroteIs
      <4>2. CASE pieces[j] = p
        BY <3>1, <4>1, <4>2
      <4>3. CASE pieces[j] # p
        <5>1. j \in 1..(i - 1) /\ j \in 1..k
          BY <1>1, <2>1, <4>3
        <5>2. pieces[j] \in ToSet(pieces) /\ pieces[j] \in PieceSet
          BY <1>1, <1>10, <5>1
        <5>3. Covers(p) \cap Covers(pieces[j]) = {}
          BY <2>3, <3>4, <4>3, <5>2 DEF AllApart
        <5>4. Covers(pieces[j]) \subseteq Cells /\ Says(r, pieces[j])
          BY <2>2, <3>4, <5>1, <5>2, FitsIs
        <5> HIDE DEF p
        <5> QED BY <2>2, <2>3, <3>1, <5>2, <5>3, <5>4, WroteIs
      <4> QED BY <4>2, <4>3
    <3> QED BY <2>1, <3>1, <3>3, <3>4
  <2>6. CASE ~Fits(p)
    <3>1. g[i] = r
      BY <2>4, <2>6 DEF BStep
    <3>3. Fine(i, g[i])
      <4>1. ASSUME AllApart(ToSet(pieces)), NEW j \in 1..i, Fits(pieces[j]) PROVE Says(g[i], pieces[j])
        <5>1. j \in 1..(i - 1)
          BY <2>1, <2>6, <4>1
        <5> QED BY <2>2, <3>1, <4>1, <5>1
      <4> QED BY <2>2, <3>1, <4>1
    <3> QED BY <2>1, <2>2, <3>1, <3>3
  <2> QED BY <2>5, <2>6
<1> HIDE DEF Good
<1>13. \A i \in 0..k : g[i] \in Good[i]
  <2> HIDE DEF k
  <2> QED BY <1>1, <1>11, <1>12, EachStep
<1>14. k \in 0..k /\ g[k] \in Mems /\ Fine(k, g[k])
  BY <1>1, <1>13 DEF Good
<1> QED BY <1>8, <1>10, <1>14

\* What is read list by list is what is read along all of them.
ReadAlong(v, a, b) == Len(b) = Len(a) /\ \A j \in 1..Len(a) : b[j] = v[a[j]]
LEMMA FlatRead ==
  ASSUME NEW S, NEW T, NEW k \in Nat, NEW v, NEW s \in Seq(Seq(S)), NEW t \in Seq(Seq(T)),
         Len(s) = k, Len(t) = k, \A i \in 1..k : ReadAlong(v, s[i], t[i])
  PROVE  /\ FlattenSeq(t) \in Seq(T) /\ FlattenSeq(s) \in Seq(S)
         /\ ReadAlong(v, FlattenSeq(s), FlattenSeq(t))
<1>1. /\ DOMAIN s = 1..k /\ DOMAIN t = 1..k
      /\ \A i \in 1..k : s[i] \in Seq(S) /\ t[i] \in Seq(T)
  BY LenProperties, ElementOfSeq
<1>2. CASE k = 0
  <2>1. s = <<>> /\ t = <<>>
    BY <1>2, EmptySeq
  <2>2. FlattenSeq(s) = <<>> /\ FlattenSeq(t) = <<>>
    BY <2>1 DEF FlattenSeq
  <2>3. Len(<<>>) = 0 /\ 1..0 = {} /\ <<>> \in Seq(S) /\ <<>> \in Seq(T)
    OBVIOUS
  <2> QED BY <2>2, <2>3 DEF ReadAlong
<1>3. CASE k # 0
  <2>1. PICK g : Flattens(s, g, k)
    BY <1>3, FlatSteps, Zenon
  <2>2. PICK h : Flattens(t, h, k)
    BY <1>3, FlatSteps, Zenon
  <2> DEFINE Reads(a, b) == a \in Seq(S) /\ b \in Seq(T) /\ ReadAlong(v, a, b)
             Good == [i \in 1..k |-> {b \in Seq(T) : Reads(g[i], b)}]
  <2>3. 1 \in 1..k /\ k \in 1..k
    BY <1>3
  <2>4. h[1] \in Good[1]
    BY <1>1, <2>1, <2>2, <2>3 DEF Flattens
  <2>5. ASSUME NEW i \in 2..k, h[i - 1] \in Good[i - 1] PROVE h[i] \in Good[i]
    <3>1. i \in 1..k /\ i - 1 \in 1..k
      OBVIOUS
    <3> DEFINE a == g[i - 1]
               b == h[i - 1]
               c == s[i]
               d == t[i]
    <3>2. Reads(a, b) /\ Reads(c, d)
      BY <1>1, <2>5, <3>1
    <3>3. g[i] = a \o c /\ h[i] = b \o d
      BY <2>1, <2>2 DEF Flattens
    <3> HIDE DEF a, b, c, d
    <3>4. Reads(a \o c, b \o d)
      <4>1. /\ a \in Seq(S) /\ c \in Seq(S) /\ b \in Seq(T) /\ d \in Seq(T)
            /\ Len(b) = Len(a) /\ Len(d) = Len(c) /\ Len(a) \in Nat /\ Len(c) \in Nat
        BY <3>2, LenProperties DEF ReadAlong
      <4>2. a \o c \in Seq(S) /\ b \o d \in Seq(T)
        BY <4>1, ConcatProperties
      <4>3. /\ Len(a \o c) = Len(a) + Len(c)
            /\ \A x \in 1..Len(a) + Len(c) : (a \o c)[x] = IF x <= Len(a) THEN a[x] ELSE c[x - Len(a)]
        BY <4>1, ConcatProperties
      <4>4. /\ Len(b \o d) = Len(b) + Len(d)
            /\ \A x \in 1..Len(b) + Len(d) : (b \o d)[x] = IF x <= Len(b) THEN b[x] ELSE d[x - Len(b)]
        BY <4>1, ConcatProperties
      <4>5. \A x \in 1..Len(a) + Len(c) : IF x <= Len(a) THEN x \in 1..Len(a) ELSE x - Len(a) \in 1..Len(c)
        BY <4>1
      <4>6. ASSUME NEW x \in 1..Len(a) + Len(c) PROVE (b \o d)[x] = v[(a \o c)[x]]
        <5>1. CASE x <= Len(a)
          <6>1. x \in 1..Len(a) /\ x <= Len(b)
            BY <4>1, <4>5, <5>1
          <6>2. b[x] = v[a[x]]
            BY <3>2, <6>1 DEF ReadAlong
          <6> QED BY <4>1, <4>3, <4>4, <5>1, <6>1, <6>2
        <5>2. CASE ~(x <= Len(a))
          <6>1. x - Len(a) \in 1..Len(c) /\ ~(x <= Len(b))
            BY <4>1, <4>5, <5>2
          <6>2. d[x - Len(a)] = v[c[x - Len(a)]]
            BY <3>2, <6>1 DEF ReadAlong
          <6> QED BY <4>1, <4>3, <4>4, <5>2, <6>1, <6>2
        <5> QED BY <5>1, <5>2
      <4> QED BY <4>1, <4>2, <4>3, <4>4, <4>6 DEF ReadAlong
    <3> QED BY <3>1, <3>3, <3>4
  <2> HIDE DEF Good
  <2>6. \A i \in 1..k : h[i] \in Good[i]
    BY <1>3, <2>4, <2>5, EachNext
  <2>7. Reads(g[k], h[k])
    BY <2>3, <2>6 DEF Good
  <2> QED BY <2>1, <2>2, <2>7 DEF Flattens
<1> QED BY <1>2, <1>3

\* The bytes of a list are those of its cells, in order.
Gathered(iov) == FlattenSeq([i \in DOMAIN iov |-> BytesAt(iov[i].at, iov[i].len)])
LEMMA GatheredIs ==
  ASSUME mem \in Mems, NEW iov \in Seq(SpanSet), Gatherable(iov)
  PROVE  /\ Gathered(iov) \in Seq(Int) /\ Flat(iov) \in Seq(Nat) /\ Len(Gathered(iov)) = Total(iov)
         /\ \A x \in 1..Total(iov) : Gathered(iov)[x] = mem[Flat(iov)[x]]
<1> DEFINE k == Len(iov)
           s == [i \in DOMAIN iov |-> Row(iov[i])]
           t == [i \in DOMAIN iov |-> BytesAt(iov[i].at, iov[i].len)]
<1>1. k \in Nat /\ DOMAIN iov = 1..k /\ \A i \in 1..k : iov[i] \in SpanSet
  BY LenProperties, ElementOfSeq
<1>2. ASSUME NEW i \in 1..k
      PROVE  /\ Row(iov[i]) \in Seq(Nat) /\ Len(Row(iov[i])) = iov[i].len
             /\ BytesAt(iov[i].at, iov[i].len) \in Seq(Int)
             /\ Len(BytesAt(iov[i].at, iov[i].len)) = iov[i].len
             /\ \A j \in 1..iov[i].len : BytesAt(iov[i].at, iov[i].len)[j] = mem[Row(iov[i])[j]]
  <2> DEFINE b == BytesAt(iov[i].at, iov[i].len)
  <2>1. iov[i].at \in Nat /\ iov[i].len \in Nat
    BY <1>1 DEF SpanSet
  <2>2. Row(iov[i]) \in Seq(Nat) /\ Len(Row(iov[i])) = iov[i].len
        /\ \A j \in 1..iov[i].len : Row(iov[i])[j] = iov[i].at + j - 1
    BY <1>1, RowIs
  <2>3. \A j \in 1..iov[i].len : mem[iov[i].at + j - 1] \in Int
    <3>1. Mapped(iov[i].at, iov[i].len)
      BY <1>1 DEF Gatherable
    <3>2. \A j \in 1..iov[i].len : iov[i].at + j - 1 \in iov[i].at..(iov[i].at + iov[i].len - 1)
      BY <2>1
    <3> QED BY <3>1, <3>2 DEF Mapped, Mems
  <2>4. b \in [1..iov[i].len -> Int]
    BY <2>3 DEF BytesAt
  <2>5. b \in Seq(Int) /\ Len(b) = iov[i].len
    <3> HIDE DEF b
    <3> QED BY <2>1, <2>4
  <2>6. \A j \in 1..iov[i].len : b[j] = mem[iov[i].at + j - 1]
    BY DEF BytesAt
  <2> QED BY <2>2, <2>5, <2>6
<1>3. s \in Seq(Seq(Nat)) /\ Len(s) = k /\ \A i \in 1..k : s[i] = Row(iov[i])
  <2>1. s \in [1..k -> Seq(Nat)]
    BY <1>1, <1>2
  <2>2. \A i \in 1..k : s[i] = Row(iov[i])
    BY <1>1
  <2> HIDE DEF s
  <2> QED BY <1>1, <2>1, <2>2
<1>4. t \in Seq(Seq(Int)) /\ Len(t) = k /\ \A i \in 1..k : t[i] = BytesAt(iov[i].at, iov[i].len)
  <2>1. t \in [1..k -> Seq(Int)]
    BY <1>1, <1>2
  <2>2. \A i \in 1..k : t[i] = BytesAt(iov[i].at, iov[i].len)
    BY <1>1
  <2> HIDE DEF t
  <2> QED BY <1>1, <2>1, <2>2
<1>5. Flat(iov) = FlattenSeq(s) /\ Gathered(iov) = FlattenSeq(t)
  BY DEF Flat, Row, Gathered
<1> HIDE DEF s, t, k
<1>6. \A i \in 1..k : ReadAlong(mem, s[i], t[i])
  <2> TAKE i \in 1..k
  <2>1. ReadAlong(mem, Row(iov[i]), BytesAt(iov[i].at, iov[i].len))
    BY <1>2 DEF ReadAlong
  <2> QED BY <1>3, <1>4, <2>1
<1>7. FlattenSeq(t) \in Seq(Int) /\ FlattenSeq(s) \in Seq(Nat) /\ ReadAlong(mem, FlattenSeq(s), FlattenSeq(t))
  BY <1>1, <1>3, <1>4, <1>6, FlatRead
<1> QED BY <1>5, <1>7 DEF Total, ReadAlong

Reached(iov, B) == \A x \in 1..Total(iov) : \E i \in 1..Len(iov) : \E j \in 1..iov[i].len : x = B[i] + j
LEMMA AllReached ==
  ASSUME NEW iov \in Seq(SpanSet), NEW B, Begins(iov, B)
  PROVE  Reached(iov, B)
<1>1. \A x \in 1..Total(iov) : \E i \in 1..Len(iov) : \E j \in 1..iov[i].len : x = B[i] + j
  BY BeginsReach
<1> QED BY <1>1 DEF Reached

\* The pieces of a scatter lie in the buffers and lay the bytes along the list.
LEMMA ScatteredIs ==
  ASSUME NEW iov \in Seq(SpanSet), NEW data \in Seq(Int), Len(data) <= Total(iov)
  PROVE  /\ Scattered(iov, data) \in Seq(PieceSet)
         /\ \A p \in ToSet(Scattered(iov, data)) : \E i \in 1..Len(iov) :
              p = Scattered(iov, data)[i] /\ Covers(p) \subseteq CellsOf(iov[i])
         /\ \A m : (\A p \in ToSet(Scattered(iov, data)) : Says(m, p))
                      => \A x \in 1..Len(data) : m[Flat(iov)[x]] = data[x]
<1> DEFINE k == Len(iov)
           l == Len(data)
           ps == Scattered(iov, data)
<1>1. k \in Nat /\ DOMAIN iov = 1..k /\ (\A i \in 1..k : iov[i] \in SpanSet) /\ l \in Nat
      /\ \A i \in 1..k : iov[i].at \in Nat /\ iov[i].len \in Nat
  <2>1. k \in Nat /\ DOMAIN iov = 1..k /\ (\A i \in 1..k : iov[i] \in SpanSet) /\ l \in Nat
    BY LenProperties, ElementOfSeq
  <2>2. \A i \in 1..k : iov[i].at \in Nat /\ iov[i].len \in Nat
    BY <2>1 DEF SpanSet
  <2> QED BY <2>1, <2>2
<1>2. PICK B : Begins(iov, B)
  BY BeginsIs
<1>3. /\ Total(iov) \in Nat
      /\ \A i \in 1..k : B[i] \in Nat
      /\ \A x \in 1..Total(iov) : \E i \in 1..k : \E j \in 1..iov[i].len : x = B[i] + j
  <2>1. Total(iov) \in Nat
    BY <1>2, BeginsReach
  <2>2. \A i \in 1..k : B[i] \in Nat /\ iov[i].len \in Nat /\ B[i] + iov[i].len <= Total(iov)
    BY <1>2, BeginsReach
  <2>3. \A x \in 1..Total(iov) : \E i \in 1..Len(iov) : \E j \in 1..iov[i].len : x = B[i] + j
    BY <1>2, AllReached DEF Reached
  <2> QED BY <2>1, <2>2, <2>3
<1>4. /\ \A i \in 1..k : B[i] = Before(iov, i)
      /\ \A i \in 1..k : \A j \in 1..iov[i].len : Flat(iov)[B[i] + j] = iov[i].at + j - 1
  BY <1>2 DEF Begins
<1> HIDE DEF k, l
<1>5. ASSUME NEW i \in 1..k
      PROVE  /\ Share(iov, data, i) \in Seq(Int)
             /\ Len(Share(iov, data, i)) <= iov[i].len /\ Len(Share(iov, data, i)) \in Nat
             /\ \A j \in 1..iov[i].len : B[i] + j <= l =>
                  j \in 1..Len(Share(iov, data, i)) /\ Share(iov, data, i)[j] = data[B[i] + j]
  <2> DEFINE b == B[i]
             n == iov[i].len
             e == Least(b + n, l)
             h == SubSeq(data, b + 1, e)
  <2>1. Share(iov, data, i) = h
    BY <1>4 DEF Share, l
  <2>2. b \in Nat /\ n \in Nat
    BY <1>1, <1>3
  <2> HIDE DEF b, n
  <2>3. e \in Nat /\ e <= b + n /\ e <= l /\ (e = b + n \/ e = l)
    BY <1>1, <2>2 DEF Least
  <2> HIDE DEF e
  <2>4. \A j \in (b + 1)..e : data[j] \in Int
    <3>1. \A j \in (b + 1)..e : j \in 1..l
      BY <1>1, <2>2, <2>3
    <3> QED BY <3>1, ElementOfSeq DEF l
  <2>5. /\ h \in Seq(Int) /\ Len(h) = (IF b + 1 <= e THEN e - (b + 1) + 1 ELSE 0)
        /\ \A j \in 1..e - (b + 1) + 1 : h[j] = data[(b + 1) + j - 1]
    <3>1. b + 1 \in Int /\ e \in Int
      BY <2>2, <2>3
    <3> QED BY <2>4, <3>1, SubSeqProperties
  <2> HIDE DEF h
  <2>6. Len(h) <= n /\ Len(h) \in Nat
    BY <2>2, <2>3, <2>5
  <2>7. ASSUME NEW j \in 1..n, b + j <= l PROVE j \in 1..Len(h) /\ h[j] = data[b + j]
    <3>1. \A x, y, z, w, v \in Nat : /\ v \in 1..y /\ x + v <= w
                                     /\ z = x + y \/ z = w
                                     => /\ v <= z - (x + 1) + 1 /\ x + 1 <= z /\ 1 <= v
                                        /\ (x + 1) + v - 1 = x + v
      OBVIOUS
    <3>2. j \in Nat /\ l \in Nat
      BY <1>1, <2>2
    <3>3. /\ j <= e - (b + 1) + 1 /\ b + 1 <= e /\ 1 <= j
          /\ (b + 1) + j - 1 = b + j
      BY <2>2, <2>3, <2>7, <3>1, <3>2
    <3>4. j \in 1..Len(h) /\ j \in 1..e - (b + 1) + 1
      BY <2>2, <2>3, <2>5, <3>2, <3>3
    <3> QED BY <2>5, <3>3, <3>4
  <2> QED BY <2>1, <2>5, <2>6, <2>7 DEF b, n
<1>6. \A i \in 1..k : ps[i] = Piece(iov[i].at, Share(iov, data, i)) /\ ps[i] \in PieceSet
  BY <1>1, <1>5 DEF Scattered, Piece, PieceSet
<1>7. ps \in Seq(PieceSet) /\ Len(ps) = k
  <2>1. ps = [i \in 1..k |-> ps[i]]
    BY <1>1 DEF Scattered
  <2>2. ps \in [1..k -> PieceSet]
    <3> HIDE DEF ps
    <3> QED BY <1>6, <2>1
  <2> HIDE DEF ps
  <2> QED BY <1>1, <2>2
<1>8. ToSet(ps) = {ps[i] : i \in 1..k}
  <2> HIDE DEF ps
  <2> QED BY <1>7, SetOfSeq
<1> HIDE DEF ps
<1>9. \A i \in 1..k : ps[i].at = iov[i].at /\ ps[i].bytes = Share(iov, data, i)
  <2> TAKE i \in 1..k
  <2>1. ps[i] = [at |-> iov[i].at, bytes |-> Share(iov, data, i)]
    BY <1>6 DEF Piece
  <2> QED BY <2>1
<1>10. \A i \in 1..k : Covers(ps[i]) \subseteq CellsOf(iov[i])
  <2> TAKE i \in 1..k
  <2>1. iov[i].at \in Nat /\ iov[i].len \in Nat
        /\ Len(Share(iov, data, i)) <= iov[i].len /\ Len(Share(iov, data, i)) \in Nat
    BY <1>1, <1>5
  <2>2. \A a, b, c \in Nat : c <= b => a..(a + c - 1) \subseteq a..(a + b - 1)
    OBVIOUS
  <2>3. Covers(ps[i]) = iov[i].at..(iov[i].at + Len(Share(iov, data, i)) - 1)
    BY <1>9 DEF Covers
  <2>4. Covers(ps[i]) \subseteq iov[i].at..(iov[i].at + iov[i].len - 1)
    BY <2>1, <2>2, <2>3
  <2> QED BY <2>4 DEF CellsOf
<1>11. ASSUME NEW m, \A p \in ToSet(ps) : Says(m, p), NEW x \in 1..l
       PROVE  m[Flat(iov)[x]] = data[x]
  <2>1. x \in 1..Total(iov) /\ x <= l
    BY <1>1, <1>3 DEF l
  <2>2. PICK i \in 1..k : \E j \in 1..iov[i].len : x = B[i] + j
    BY <1>3, <2>1
  <2>3. PICK j \in 1..iov[i].len : x = B[i] + j
    BY <2>2
  <2>4. j \in 1..Len(Share(iov, data, i)) /\ Share(iov, data, i)[j] = data[x]
    BY <1>5, <2>1, <2>3
  <2>5. Says(m, ps[i])
    BY <1>8, <1>11
  <2>6. m[iov[i].at + j - 1] = data[x]
    BY <1>9, <2>4, <2>5 DEF Says
  <2> QED BY <1>4, <2>3, <2>6
<1> QED BY <1>7, <1>8, <1>10, <1>11 DEF ps, k, l

\* What is left of the stream is its end.
StreamIsRest ==
  /\ stream \in Seq(Nat) /\ Len(stream) <= StreamLen
  /\ \A i \in 1..Len(stream) : stream[i] = StreamLen - Len(stream) + i
TInv == mem \in Mems /\ StreamIsRest /\ ThroughInOrder /\ AnswersHold
TStep == TInv' /\ WithinGiven

LEMMA TransferNumbers == {MaxCell, StreamLen, Room, MaxIov, MaxSide} \subseteq Nat
BY TransferAssumption

LEMMA CountOn ==
  ASSUME NEW a \in Nat, NEW b \in Nat
  PROVE  [i \in 1..a |-> i] \o [i \in 1..b |-> a + i] = [i \in 1..a + b |-> i]
<1> DEFINE f == [i \in 1..a |-> i]
           g == [i \in 1..b |-> a + i]
           h == [i \in 1..a + b |-> i]
<1>1. f \in Seq(Nat) /\ Len(f) = a
  <2>1. f \in [1..a -> Nat]
    OBVIOUS
  <2> HIDE DEF f
  <2> QED BY <2>1
<1>2. g \in Seq(Nat) /\ Len(g) = b
  <2>1. g \in [1..b -> Nat]
    OBVIOUS
  <2> HIDE DEF g
  <2> QED BY <2>1
<1>3. h \in Seq(Nat) /\ Len(h) = a + b
  <2>1. h \in [1..a + b -> Nat]
    OBVIOUS
  <2>2. a + b \in Nat
    OBVIOUS
  <2> HIDE DEF h
  <2> QED BY <2>1, <2>2
<1>4. /\ \A i \in 1..a : f[i] = i
      /\ \A i \in 1..b : g[i] = a + i
      /\ \A i \in 1..a + b : h[i] = i
  OBVIOUS
<1> HIDE DEF f, g, h
<1>5. f \o g \in Seq(Nat) /\ Len(f \o g) = a + b
      /\ \A i \in 1..a + b : (f \o g)[i] = IF i <= a THEN f[i] ELSE g[i - a]
  BY <1>1, <1>2, ConcatProperties
<1>6. \A i \in 1..a + b : (f \o g)[i] = h[i]
  <2> TAKE i \in 1..a + b
  <2>1. CASE i <= a
    <3>1. i \in 1..a
      BY <2>1
    <3> QED BY <1>4, <1>5, <2>1, <3>1
  <2>2. CASE ~(i <= a)
    <3>1. i - a \in 1..b /\ a + (i - a) = i
      BY <2>2
    <3> QED BY <1>4, <1>5, <2>2, <3>1
  <2> QED BY <2>1, <2>2
<1>7. f \o g = h
  BY <1>3, <1>5, <1>6, SeqEqual
<1> QED BY <1>7 DEF f, g, h

\* What is left after some bytes were taken.
LEMMA RestIsRest ==
  ASSUME StreamIsRest, NEW used \in 0..Len(stream), stream' = SubSeq(stream, used + 1, Len(stream))
  PROVE  /\ StreamIsRest' /\ Len(stream') = Len(stream) - used /\ Len(stream) \in Nat
         /\ \A i \in 1..used : stream[i] = (StreamLen - Len(stream)) + i
         /\ StreamLen - Len(stream) \in Nat
         /\ StreamLen - Len(stream') = (StreamLen - Len(stream)) + used
<1> DEFINE l == Len(stream)
           t == SubSeq(stream, used + 1, l)
<1>1. StreamLen \in Nat
  BY TransferNumbers
<1>2. /\ stream \in Seq(Nat) /\ l \in Nat /\ l <= StreamLen
      /\ \A i \in 1..l : stream[i] = StreamLen - l + i
  BY LenProperties DEF StreamIsRest
<1> HIDE DEF l
<1>3. used \in Nat /\ used <= l
  BY <1>2 DEF l
<1>4. \A j \in (used + 1)..l : j \in 1..l /\ stream[j] \in Nat
  <2>1. \A j \in (used + 1)..l : j \in 1..l
    BY <1>3
  <2> QED BY <1>2, <2>1, ElementOfSeq DEF l
<1>5. /\ t \in Seq(Nat) /\ Len(t) = (IF used + 1 <= l THEN l - (used + 1) + 1 ELSE 0)
      /\ \A i \in 1..l - (used + 1) + 1 : t[i] = stream[(used + 1) + i - 1]
  <2>1. used + 1 \in Int /\ l \in Int
    BY <1>2, <1>3
  <2> QED BY <1>4, <2>1, SubSeqProperties
<1>6. stream' = t
  BY DEF l
<1> HIDE DEF t
<1>7. Len(t) = l - used
  BY <1>2, <1>3, <1>5
<1>8. \A i \in 1..l - used : t[i] = StreamLen - (l - used) + i
  <2> TAKE i \in 1..l - used
  <2>1. i \in 1..l - (used + 1) + 1 /\ (used + 1) + i - 1 \in 1..l
    BY <1>2, <1>3
  <2>2. t[i] = StreamLen - l + ((used + 1) + i - 1)
    BY <1>2, <1>5, <2>1
  <2> QED BY <1>1, <1>2, <1>3, <2>2
<1>9. l - used <= StreamLen /\ l - used \in Nat
  BY <1>1, <1>2, <1>3
<1>10. StreamIsRest'
  BY <1>5, <1>6, <1>7, <1>8, <1>9 DEF StreamIsRest
<1>11. \A i \in 1..used : stream[i] = (StreamLen - l) + i
  <2>1. \A i \in 1..used : i \in 1..l
    BY <1>2, <1>3
  <2> QED BY <1>1, <1>2, <2>1
<1>12. StreamLen - l \in Nat /\ StreamLen - (l - used) = (StreamLen - l) + used
  BY <1>1, <1>2, <1>3
<1> QED BY <1>2, <1>6, <1>7, <1>10, <1>11, <1>12 DEF l

\* A claim that one of the pieces makes true.
Backed(ps, claim) == \E p \in ps : \E j \in 1..Len(p.bytes) : claim[1] = p.at + j - 1 /\ claim[2] = p.bytes[j]
Lays(ps, cells, used) == \A m : (\A p \in ps : Says(m, p)) => \A x \in 1..used : m[cells[x]] = stream[x]
InGiven(m, ps, granted) == /\ \A c \in Cells : m[c] # mem[c] => c \in granted
                         /\ \A p \in ps : Covers(p) \subseteq granted

LEMMA DeliveredKeeps ==
  ASSUME TInv, NEW m \in Mems, NEW ret, NEW pieces \in Seq(PieceSet), NEW used \in 0..Len(stream),
         NEW cells, NEW granted, NEW claims,
         InGiven(m, ToSet(pieces), granted), AllApart(ToSet(pieces)),
         ret >= 0 => \A claim \in claims : Backed(ToSet(pieces), claim),
         used > 0 => ret = used /\ Lays(ToSet(pieces), cells, used),
         Delivered(m, ret, pieces, used, cells, granted, claims)
  PROVE  TStep
<1> DEFINE r == Written(m, pieces)
           ps == ToSet(pieces)
<1>1. /\ r \in Results /\ Frame(m, r.mem, ps)
      /\ r.ok => \A p \in ps : Covers(p) \subseteq Cells /\ Says(r.mem, p)
  BY WrittenIs
<1>2. /\ mem' = r.mem
      /\ stream' = SubSeq(stream, used + 1, Len(stream))
      /\ answer' = [ret |-> IF r.ok THEN ret ELSE -1, given |-> granted, claims |-> claims]
      /\ lost' = (lost \/ (~r.ok /\ used > 0))
      /\ got' = IF r.ok /\ used > 0 THEN got \o [i \in 1..ret |-> r.mem[cells[i]]] ELSE got
      /\ sent' = sent /\ meant' = meant
  BY DEF Delivered
<1> HIDE DEF r, ps
<1>3. mem' \in Mems
  BY <1>1, <1>2 DEF Results
<1>4. /\ StreamIsRest' /\ Len(stream) \in Nat
      /\ \A i \in 1..used : stream[i] = (StreamLen - Len(stream)) + i
      /\ StreamLen - Len(stream) \in Nat
      /\ StreamLen - Len(stream') = (StreamLen - Len(stream)) + used
  BY <1>2, RestIsRest DEF TInv
<1>5. ThroughInOrder'
  <2>1. sent' = meant'
    BY <1>2 DEF TInv, ThroughInOrder
  <2>2. ASSUME ~lost' PROVE got' = [i \in 1..(StreamLen - Len(stream')) |-> i]
    <3> DEFINE a == StreamLen - Len(stream)
    <3>1. ~lost /\ (r.ok \/ ~(used > 0))
      BY <1>2, <2>2
    <3>2. got = [i \in 1..a |-> i]
      BY <3>1 DEF TInv, ThroughInOrder
    <3>3. CASE r.ok /\ used > 0
      <4>1. ret = used /\ \A x \in 1..used : r.mem[cells[x]] = stream[x]
        BY <1>1, <3>3 DEF Lays, ps
      <4>2. got' = got \o [i \in 1..used |-> r.mem[cells[i]]]
        BY <1>2, <3>3, <4>1
      <4>3. \A x \in 1..used : r.mem[cells[x]] = a + x
        BY <1>4, <4>1
      <4>4. [i \in 1..used |-> r.mem[cells[i]]] = [i \in 1..used |-> a + i]
        BY <4>3
      <4>5. a \in Nat /\ used \in Nat
        BY <1>4
      <4> HIDE DEF a
      <4>6. got' = [i \in 1..a + used |-> i]
        BY <3>2, <4>2, <4>4, <4>5, CountOn
      <4> QED BY <1>4, <4>6 DEF a
    <3>4. CASE ~(r.ok /\ used > 0)
      <4>1. used = 0
        BY <1>4, <3>1, <3>4
      <4>2. StreamLen - Len(stream') = a
        BY <1>4, <4>1
      <4> QED BY <1>2, <3>2, <3>4, <4>2
    <3> QED BY <3>3, <3>4
  <2> QED BY <2>1, <2>2 DEF ThroughInOrder
<1>6. AnswersHold'
  <2>1. ASSUME answer'.ret >= 0, NEW claim \in answer'.claims PROVE mem'[claim[1]] = claim[2]
    <3>1. answer'.ret = (IF r.ok THEN ret ELSE -1) /\ answer'.claims = claims
      BY <1>2
    <3>2. r.ok /\ ret >= 0
      BY <2>1, <3>1
    <3>3. Backed(ps, claim)
      BY <2>1, <3>1, <3>2 DEF ps
    <3>4. PICK p \in ps : \E j \in 1..Len(p.bytes) : claim[1] = p.at + j - 1 /\ claim[2] = p.bytes[j]
      BY <3>3 DEF Backed
    <3>5. PICK j \in 1..Len(p.bytes) : claim[1] = p.at + j - 1 /\ claim[2] = p.bytes[j]
      BY <3>4
    <3>6. Says(r.mem, p)
      BY <1>1, <3>2
    <3> QED BY <1>2, <3>5, <3>6 DEF Says
  <2> QED BY <2>1 DEF AnswersHold
<1>7. WithinGiven
  <2>1. answer'.given = granted
    BY <1>2
  <2>2. ASSUME NEW c \in Cells, mem'[c] # mem[c] PROVE c \in granted
    <3>1. CASE r.mem[c] # m[c]
      BY <1>1, <3>1 DEF Frame, InGiven, ps
    <3>2. CASE r.mem[c] = m[c]
      BY <1>2, <2>2, <3>2 DEF InGiven
    <3> QED BY <3>1, <3>2
  <2> QED BY <2>1, <2>2 DEF WithinGiven
<1> QED BY <1>3, <1>4, <1>5, <1>6, <1>7 DEF TStep, TInv

LEMMA ToldKeeps ==
  ASSUME TInv, NEW m \in Mems, NEW ret, NEW pieces \in Seq(PieceSet), NEW granted, NEW claims,
         InGiven(m, ToSet(pieces), granted), AllApart(ToSet(pieces)),
         ret >= 0 => \A claim \in claims : Backed(ToSet(pieces), claim),
         Told(m, ret, pieces, granted, claims)
  PROVE  TStep
<1>1. 0 \in 0..Len(stream) /\ ~(0 > 0)
  BY LenProperties DEF TInv, StreamIsRest
<1>2. Delivered(m, ret, pieces, 0, <<>>, granted, claims)
  BY DEF Told
<1> QED BY <1>1, <1>2, DeliveredKeeps

LEMMA ToldBlindlyKeeps ==
  ASSUME TInv, NEW m \in Mems, NEW ret, NEW pieces \in Seq(PieceSet), NEW granted,
         InGiven(m, ToSet(pieces), granted), AllApart(ToSet(pieces)),
         ToldBlindly(m, ret, pieces, granted)
  PROVE  TStep
<1> DEFINE r == WrittenBlindly(m, pieces)
           ps == ToSet(pieces)
<1>1. r \in Mems /\ Frame(m, r, ps) /\ \A p \in ps : Fits(p) => Says(r, p)
  BY WrittenBlindlyIs
<1>2. /\ mem' = r
      /\ answer' = [ret |-> ret, given |-> granted,
                    claims |-> UNION {Claims(p.at, p.bytes) : p \in {q \in ps : Fits(q)}}]
      /\ stream' = stream /\ sent' = sent /\ meant' = meant /\ got' = got /\ lost' = lost
  BY DEF ToldBlindly
<1>3. ps \subseteq PieceSet
  BY SetOfSeq
<1> HIDE DEF r, ps
<1>4. AnswersHold'
  <2>1. ASSUME NEW claim \in answer'.claims PROVE mem'[claim[1]] = claim[2]
    <3>1. PICK p \in ps : Fits(p) /\ claim \in Claims(p.at, p.bytes)
      BY <1>2, <2>1
    <3>2. DOMAIN p.bytes = 1..Len(p.bytes)
      <4>1. p.bytes \in Seq(Int)
        BY <1>3 DEF PieceSet
      <4> QED BY <4>1, LenProperties
    <3>3. PICK j \in 1..Len(p.bytes) : claim = <<p.at + j - 1, p.bytes[j]>>
      BY <3>1, <3>2 DEF Claims
    <3>4. Says(r, p)
      BY <1>1, <3>1
    <3> QED BY <1>2, <3>3, <3>4 DEF Says
  <2> QED BY <2>1 DEF AnswersHold
<1>5. WithinGiven
  <2>1. answer'.given = granted
    BY <1>2
  <2>2. ASSUME NEW c \in Cells, mem'[c] # mem[c] PROVE c \in granted
    <3>1. CASE r[c] # m[c]
      BY <1>1, <3>1 DEF Frame, InGiven, ps
    <3>2. CASE r[c] = m[c]
      BY <1>2, <2>2, <3>2 DEF InGiven
    <3> QED BY <3>1, <3>2
  <2> QED BY <2>1, <2>2 DEF WithinGiven
<1>6. StreamIsRest' /\ ThroughInOrder' /\ mem' \in Mems
  BY <1>1, <1>2 DEF TInv, StreamIsRest, ThroughInOrder
<1> QED BY <1>4, <1>5, <1>6 DEF TStep, TInv

LEMMA UnchangedKeeps == ASSUME TInv, NEW ret, Unchanged(ret) \/ Refused PROVE TStep
<1>1. /\ answer'.claims = {}
      /\ mem' = mem /\ stream' = stream /\ sent' = sent /\ meant' = meant /\ got' = got /\ lost' = lost
  BY DEF Unchanged, Refused
<1> QED BY <1>1 DEF TStep, TInv, StreamIsRest, ThroughInOrder, AnswersHold, WithinGiven

LEMMA SentKeeps ==
  ASSUME TInv, NEW cells, NEW data \in Seq(Int),
         \A x \in 1..Len(data) : data[x] = mem[cells[x]], Sent(cells, data)
  PROVE  TStep
<1>1. PICK k \in 0..Len(data) :
        /\ sent' = sent \o SubSeq(data, 1, k)
        /\ meant' = meant \o [i \in 1..k |-> mem[cells[i]]]
        /\ answer' = [ret |-> k, given |-> {}, claims |-> {}]
        /\ mem' = mem /\ stream' = stream /\ got' = got /\ lost' = lost
  BY DEF Sent
<1> DEFINE t == SubSeq(data, 1, k)
           u == [i \in 1..k |-> mem[cells[i]]]
<1>2. Len(data) \in Nat /\ k \in Nat /\ \A x \in 1..k : x \in 1..Len(data) /\ data[x] \in Int
  BY LenProperties, ElementOfSeq
<1>3. t \in Seq(Int) /\ Len(t) = k /\ \A i \in 1..k : t[i] = data[i]
  <2>1. k - 1 + 1 = k /\ (1 <= k \/ k = 0) /\ 1 \in Int /\ k \in Int /\ \A i \in 1..k : 1 + i - 1 = i
    BY <1>2
  <2>2. /\ t \in Seq(Int) /\ Len(t) = (IF 1 <= k THEN k - 1 + 1 ELSE 0)
        /\ \A i \in 1..k - 1 + 1 : t[i] = data[1 + i - 1]
    BY <1>2, <2>1, SubSeqProperties
  <2> HIDE DEF t
  <2> QED BY <2>1, <2>2
<1>4. u \in Seq(Int) /\ Len(u) = k /\ \A i \in 1..k : u[i] = mem[cells[i]]
  <2>1. \A i \in 1..k : mem[cells[i]] \in Int
    BY <1>2
  <2>2. u \in [1..k -> Int] /\ \A i \in 1..k : u[i] = mem[cells[i]]
    BY <2>1
  <2> HIDE DEF u
  <2> QED BY <1>2, <2>2
<1> HIDE DEF t, u
<1>5. \A i \in 1..k : t[i] = u[i]
  BY <1>2, <1>3, <1>4
<1>6. t = u
  BY <1>3, <1>4, <1>5, SeqEqual
<1>7. sent' = meant'
  BY <1>1, <1>6 DEF TInv, ThroughInOrder, t, u
<1> QED BY <1>1, <1>7 DEF TStep, TInv, StreamIsRest, ThroughInOrder, AnswersHold, WithinGiven

\* The values the host has for the guest.
LEMMA HostIs == ASSUME NEW n \in Nat PROVE Host(n) \in Seq(Int) /\ Len(Host(n)) = n /\ \A i \in 1..n : Host(n)[i] = 50 + i
<1>1. Host(n) \in [1..n -> Int] /\ \A i \in 1..n : Host(n)[i] = 50 + i
  BY DEF Host
<1> QED BY <1>1

LEMMA TerminatedIs ==
  ASSUME NEW n \in Nat
  PROVE  /\ Terminated(n) \in Seq(Int) /\ Len(Terminated(n)) = n + 1
         /\ Terminated(n)[n + 1] = 0 /\ \A i \in 1..n : Terminated(n)[i] = 50 + i
<1>1. Host(n) \in Seq(Int) /\ Len(Host(n)) = n /\ \A i \in 1..n : Host(n)[i] = 50 + i
  BY HostIs
<1>2. /\ Append(Host(n), 0) \in Seq(Int) /\ Len(Append(Host(n), 0)) = Len(Host(n)) + 1
      /\ \A i \in 1..Len(Host(n)) : Append(Host(n), 0)[i] = Host(n)[i]
      /\ Append(Host(n), 0)[Len(Host(n)) + 1] = 0
  BY <1>1, AppendProperties
<1> QED BY <1>1, <1>2 DEF Terminated

LEMMA PaddedIs ==
  ASSUME NEW n \in Int, NEW size \in Nat
  PROVE  /\ Padded(n, size) \in Seq(Int) /\ Len(Padded(n, size)) = size
         /\ \A i \in 1..size : Padded(n, size)[i] = IF i <= n THEN 50 + i ELSE 0
<1>1. Padded(n, size) \in [1..size -> Int]
  BY DEF Padded
<1>2. \A i \in 1..size : Padded(n, size)[i] = IF i <= n THEN 50 + i ELSE 0
  BY DEF Padded
<1> QED BY <1>1, <1>2

LEMMA FewIs ==
  ASSUME NEW x \in Int, NEW y \in Int
  PROVE  /\ <<x>> \in Seq(Int) /\ Len(<<x>>) = 1 /\ <<x>>[1] = x
         /\ <<x, y>> \in Seq(Int) /\ Len(<<x, y>>) = 2 /\ <<x, y>>[1] = x /\ <<x, y>>[2] = y
         /\ <<>> \in Seq(Int) /\ Len(<<>>) = 0
OBVIOUS

LEMMA TakenIs ==
  ASSUME StreamIsRest, NEW k \in 0..Len(stream)
  PROVE  /\ SubSeq(stream, 1, k) \in Seq(Int) /\ Len(SubSeq(stream, 1, k)) = k /\ k \in Nat
         /\ \A i \in 1..k : SubSeq(stream, 1, k)[i] = stream[i]
<1>1. stream \in Seq(Nat) /\ Len(stream) \in Nat
  BY LenProperties DEF StreamIsRest
<1>2. k \in Nat /\ k <= Len(stream) /\ k - 1 + 1 = k /\ 1 \in Int /\ k \in Int /\ (1 <= k \/ k = 0)
  BY <1>1
<1>3. \A i \in 1..k : stream[i] \in Int /\ 1 + i - 1 = i
  <2>1. \A i \in 1..k : i \in 1..Len(stream) /\ 1 + i - 1 = i
    BY <1>1, <1>2
  <2> QED BY <1>1, <2>1, ElementOfSeq
<1> DEFINE t == SubSeq(stream, 1, k)
<1>4. /\ t \in Seq(Int) /\ Len(t) = (IF 1 <= k THEN k - 1 + 1 ELSE 0)
      /\ \A i \in 1..k - 1 + 1 : t[i] = stream[1 + i - 1]
  BY <1>2, <1>3, SubSeqProperties
<1> HIDE DEF t
<1>5. t \in Seq(Int) /\ Len(t) = k /\ \A i \in 1..k : t[i] = stream[i]
  BY <1>2, <1>3, <1>4
<1> QED BY <1>2, <1>5 DEF t

\* A piece, and the pieces of a call.
LEMMA PieceIs ==
  ASSUME NEW at \in Nat, NEW b \in Seq(Int)
  PROVE  /\ Piece(at, b) \in PieceSet /\ Piece(at, b).at = at /\ Piece(at, b).bytes = b
         /\ Covers(Piece(at, b)) = at..(at + Len(b) - 1)
BY DEF Piece, PieceSet, Covers

LEMMA InSpan ==
  ASSUME NEW s \in SpanSet, NEW b \in Seq(Int), Len(b) <= s.len
  PROVE  Covers(Piece(s.at, b)) \subseteq CellsOf(s)
<1>1. s.at \in Nat /\ s.len \in Nat /\ Len(b) \in Nat
  BY LenProperties DEF SpanSet
<1>2. \A x, y, z \in Nat : z <= y => x..(x + z - 1) \subseteq x..(x + y - 1)
  OBVIOUS
<1>3. Covers(Piece(s.at, b)) = s.at..(s.at + Len(b) - 1)
  BY <1>1, PieceIs
<1> QED BY <1>1, <1>2, <1>3 DEF CellsOf

OneCell(at) == [at |-> at, len |-> 1]
LEMMA OneCellIs ==
  ASSUME NEW at \in Nat
  PROVE  /\ OneCell(at) \in SpanSet /\ OneCell(at).at = at /\ OneCell(at).len = 1 /\ CellsOf(OneCell(at)) = {at}
         /\ \A x \in Int : Covers(Piece(at, <<x>>)) = {at}
<1>1. OneCell(at) \in SpanSet /\ OneCell(at).at = at /\ OneCell(at).len = 1
  BY DEF OneCell, SpanSet
<1>2. at..(at + 1 - 1) = {at}
  OBVIOUS
<1>3. \A x \in Int : Covers(Piece(at, <<x>>)) = {at}
  BY <1>2, PieceIs, FewIs
<1> QED BY <1>1, <1>2, <1>3 DEF CellsOf

LEMMA Listed ==
  /\ <<>> \in Seq(PieceSet) /\ ToSet(<<>>) = {}
  /\ \A p \in PieceSet : <<p>> \in Seq(PieceSet) /\ ToSet(<<p>>) = {p}
  /\ \A a, b \in Seq(PieceSet) : a \o b \in Seq(PieceSet) /\ ToSet(a \o b) = ToSet(a) \cup ToSet(b)
<1>1. <<>> \in Seq(PieceSet) /\ ToSet(<<>>) = {}
  BY DEF ToSet
<1>2. ASSUME NEW p \in PieceSet PROVE <<p>> \in Seq(PieceSet) /\ ToSet(<<p>>) = {p}
  <2> DEFINE t == <<p>>
  <2>1. t \in Seq(PieceSet) /\ Len(t) = 1 /\ t[1] = p /\ 1..1 = {1}
    OBVIOUS
  <2> HIDE DEF t
  <2>2. ToSet(t) = {t[i] : i \in 1..Len(t)}
    BY <2>1, SetOfSeq
  <2>3. ToSet(t) = {p}
    BY <2>1, <2>2
  <2> QED BY <2>1, <2>3 DEF t
<1>3. ASSUME NEW a \in Seq(PieceSet), NEW b \in Seq(PieceSet)
      PROVE  a \o b \in Seq(PieceSet) /\ ToSet(a \o b) = ToSet(a) \cup ToSet(b)
  <2> DEFINE t == a \o b
  <2>1. /\ t \in Seq(PieceSet) /\ Len(t) = Len(a) + Len(b)
        /\ \A i \in 1..Len(a) + Len(b) : t[i] = IF i <= Len(a) THEN a[i] ELSE b[i - Len(a)]
    BY ConcatProperties
  <2>2. Len(a) \in Nat /\ Len(b) \in Nat
    BY LenProperties
  <2> HIDE DEF t
  <2>3. /\ ToSet(t) = {t[i] : i \in 1..Len(t)}
        /\ ToSet(a) = {a[i] : i \in 1..Len(a)} /\ ToSet(b) = {b[i] : i \in 1..Len(b)}
    BY <2>1, SetOfSeq
  <2>4. ASSUME NEW i \in 1..Len(t) PROVE t[i] \in ToSet(a) \cup ToSet(b)
    <3>1. i <= Len(a) => i \in 1..Len(a)
      BY <2>1, <2>2
    <3>2. ~(i <= Len(a)) => i - Len(a) \in 1..Len(b)
      BY <2>1, <2>2
    <3> QED BY <2>1, <2>3, <3>1, <3>2
  <2>5. ASSUME NEW i \in 1..Len(a) PROVE a[i] \in ToSet(t)
    <3>1. i \in 1..Len(a) + Len(b) /\ i <= Len(a)
      BY <2>2
    <3>2. t[i] = a[i] /\ i \in 1..Len(t)
      BY <2>1, <3>1
    <3> QED BY <2>3, <3>2
  <2>6. ASSUME NEW i \in 1..Len(b) PROVE b[i] \in ToSet(t)
    <3>1. Len(a) + i \in 1..Len(a) + Len(b) /\ ~(Len(a) + i <= Len(a)) /\ (Len(a) + i) - Len(a) = i
      BY <2>2
    <3>2. t[Len(a) + i] = b[i] /\ Len(a) + i \in 1..Len(t)
      BY <2>1, <3>1
    <3> QED BY <2>3, <3>2
  <2>7. ToSet(t) = ToSet(a) \cup ToSet(b)
    BY <2>3, <2>4, <2>5, <2>6
  <2> QED BY <2>1, <2>7 DEF t
<1> QED BY <1>1, <1>2, <1>3

\* What a piece says, a claim may rely on.
LEMMA BackedBy ==
  ASSUME NEW at \in Nat, NEW b \in Seq(Int), NEW ps, b = <<>> \/ Piece(at, b) \in ps
  PROVE  \A claim \in Claims(at, b) : Backed(ps, claim)
<1>1. DOMAIN b = 1..Len(b)
  BY LenProperties
<1>2. ASSUME NEW claim \in Claims(at, b) PROVE Backed(ps, claim)
  <2>1. PICK j \in 1..Len(b) : claim = <<at + j - 1, b[j]>>
    BY <1>1 DEF Claims
  <2>2. b # <<>>
    BY <2>1
  <2>3. claim[1] = at + j - 1 /\ claim[2] = b[j]
    BY <2>1
  <2>4. Piece(at, b).at = at /\ Piece(at, b).bytes = b
    BY PieceIs
  <2> DEFINE p == Piece(at, b)
  <2> HIDE DEF p
  <2>5. p \in ps /\ p.at = at /\ p.bytes = b
    BY <2>2, <2>4 DEF p
  <2>6. j \in 1..Len(p.bytes) /\ claim[1] = p.at + j - 1 /\ claim[2] = p.bytes[j]
    BY <2>3, <2>5
  <2> QED BY <2>5, <2>6 DEF Backed
<1> QED BY <1>2

\* A value that may have no bytes, and then is not written.
Maybe(at, b) == IF b = <<>> THEN <<>> ELSE <<Piece(at, b)>>
LEMMA MaybeIs ==
  ASSUME NEW at \in Nat, NEW b \in Seq(Int)
  PROVE  /\ Maybe(at, b) \in Seq(PieceSet) /\ ToSet(Maybe(at, b)) \subseteq {Piece(at, b)}
         /\ b = <<>> \/ Piece(at, b) \in ToSet(Maybe(at, b))
<1>1. Piece(at, b) \in PieceSet
  BY PieceIs
<1>2. CASE b = <<>>
  BY <1>2, Listed DEF Maybe
<1>3. CASE b # <<>>
  BY <1>1, <1>3, Listed DEF Maybe
<1> QED BY <1>2, <1>3

\* Each piece in a buffer of its own, and the buffers apart.
LEMMA EachOwn ==
  ASSUME NEW L \in Seq(SpanSet), Disjoint(L), NEW P, NEW ps,
         \A p \in ps : \E i \in 1..Len(L) : p = P[i] /\ Covers(p) \subseteq CellsOf(L[i])
  PROVE  AllApart(ps)
<1>1. \A i, k \in 1..Len(L) : i # k => \A c \in CellsOf(L[i]) : c \notin CellsOf(L[k])
  BY DisjointIs
<1>2. ASSUME NEW p \in ps, NEW q \in ps, p # q PROVE Covers(p) \cap Covers(q) = {}
  <2>1. PICK i \in 1..Len(L) : p = P[i] /\ Covers(p) \subseteq CellsOf(L[i])
    OBVIOUS
  <2>2. PICK k \in 1..Len(L) : q = P[k] /\ Covers(q) \subseteq CellsOf(L[k])
    OBVIOUS
  <2>3. i # k
    BY <1>2, <2>1, <2>2
  <2> QED BY <1>1, <2>1, <2>2, <2>3
<1> QED BY <1>2 DEF AllApart

LEMMA TwoOwn ==
  ASSUME NEW a \in SpanSet, NEW b \in SpanSet, Disjoint(<<a, b>>), NEW p, NEW q, NEW ps,
         ps \subseteq {p, q}, Covers(p) \subseteq CellsOf(a), Covers(q) \subseteq CellsOf(b)
  PROVE  AllApart(ps)
<1> DEFINE L == <<a, b>>
           P == <<p, q>>
<1>1. L \in Seq(SpanSet) /\ Len(L) = 2 /\ 1..2 = {1, 2} /\ L[1] = a /\ L[2] = b /\ P[1] = p /\ P[2] = q
  OBVIOUS
<1>2. Disjoint(L)
  OBVIOUS
<1> HIDE DEF L, P
<1>3. \A x \in ps : \E i \in 1..Len(L) : x = P[i] /\ Covers(x) \subseteq CellsOf(L[i])
  BY <1>1
<1> QED BY <1>1, <1>2, <1>3, EachOwn

LEMMA ThreeOwn ==
  ASSUME NEW a \in SpanSet, NEW b \in SpanSet, NEW c \in SpanSet, Disjoint(<<a, b, c>>),
         NEW p, NEW q, NEW r, NEW ps, ps \subseteq {p, q, r},
         Covers(p) \subseteq CellsOf(a), Covers(q) \subseteq CellsOf(b), Covers(r) \subseteq CellsOf(c)
  PROVE  AllApart(ps)
<1> DEFINE L == <<a, b, c>>
           P == <<p, q, r>>
<1>1. L \in Seq(SpanSet) /\ Len(L) = 3 /\ 1..3 = {1, 2, 3} /\ L[1] = a /\ L[2] = b /\ L[3] = c
      /\ P[1] = p /\ P[2] = q /\ P[3] = r
  OBVIOUS
<1>2. Disjoint(L)
  OBVIOUS
<1> HIDE DEF L, P
<1>3. \A x \in ps : \E i \in 1..Len(L) : x = P[i] /\ Covers(x) \subseteq CellsOf(L[i])
  BY <1>1
<1> QED BY <1>1, <1>2, <1>3, EachOwn

\* What the guest names, and what it prepares.
LEMMA SpanFacts ==
  /\ \A s \in Spans : s \in SpanSet /\ s.at \in Nat /\ s.len \in Nat
  /\ NameSpans \subseteq Spans /\ Pointers \subseteq Nat /\ Lengths \subseteq Nat
  /\ \A n \in Lengths : n <= Room
  /\ Iovecs \subseteq Seq(SpanSet)
<1>1. \A s \in Spans : s \in SpanSet /\ s.at \in Nat /\ s.len \in Nat
  BY TransferAssumption DEF SpanSet
<1>2. Iovecs \subseteq Seq(SpanSet)
  <2>1. Spans \subseteq SpanSet /\ Iovecs \subseteq Seq(Spans)
    BY <1>1, TransferAssumption
  <2> QED BY <2>1, SeqMore
<1>3. Pointers \subseteq Nat /\ Lengths \subseteq Nat /\ \A n \in Lengths : n <= Room
  BY TransferAssumption
<1> QED BY <1>1, <1>2, <1>3, TransferAssumption

LEMMA PreparedIs ==
  ASSUME mem \in Mems, NEW at, NEW n \in Int, NEW granted, at \in granted, NEW ps, \A p \in ps : Covers(p) \subseteq granted
  PROVE  Prepared(at, n) \in Mems /\ InGiven(Prepared(at, n), ps, granted)
BY DEF Mems, Prepared, InGiven

LEMMA AsIs ==
  ASSUME mem \in Mems, NEW granted, NEW ps, \A p \in ps : Covers(p) \subseteq granted
  PROVE  InGiven(mem, ps, granted)
BY DEF InGiven

LEMMA FlatOne ==
  ASSUME NEW s \in SpanSet
  PROVE  /\ Total(<<s>>) = s.len /\ s.len \in Nat /\ s.at \in Nat
         /\ \A j \in 1..s.len : Flat(<<s>>)[j] = s.at + j - 1
<1> DEFINE L == <<s>>
<1>1. L \in Seq(SpanSet) /\ Len(L) = 1 /\ L[1] = s
  OBVIOUS
<1>2. s.len \in Nat /\ s.at \in Nat
  BY DEF SpanSet
<1> HIDE DEF L
<1>3. PICK B : Begins(L, B)
  BY <1>1, BeginsIs
<1>4. /\ B[1] = 0 /\ B[1 + 1] = B[1] + s.len /\ Total(L) = B[1 + 1]
      /\ \A j \in 1..s.len : Flat(L)[0 + j] = s.at + j - 1
  BY <1>1, <1>3 DEF Begins
<1>5. \A j \in 1..s.len : 0 + j = j
  BY <1>2
<1> QED BY <1>2, <1>4, <1>5 DEF L

LEMMA CountsIs ==
  ASSUME StreamIsRest, NEW n \in Nat, NEW k \in Counts(n)
  PROVE  k \in Nat /\ k <= n /\ k \in 0..Len(stream)
<1>1. Len(stream) \in Nat
  BY LenProperties DEF StreamIsRest
<1> QED BY <1>1 DEF Counts, Least

Taken(k) == SubSeq(stream, 1, k)
LEMMA SpanLays ==
  ASSUME StreamIsRest, NEW s \in SpanSet, NEW k \in 0..Len(stream), k <= s.len, NEW ps,
         k > 0 => Piece(s.at, Taken(k)) \in ps, NEW used \in {0, k}
  PROVE  used > 0 => used = k /\ Lays(ps, Flat(<<s>>), used)
<1>1. Taken(k) \in Seq(Int) /\ Len(Taken(k)) = k /\ k \in Nat /\ \A i \in 1..k : Taken(k)[i] = stream[i]
  BY TakenIs DEF Taken
<1>2. s.at \in Nat /\ s.len \in Nat /\ \A j \in 1..s.len : Flat(<<s>>)[j] = s.at + j - 1
  BY FlatOne
<1>3. Piece(s.at, Taken(k)).at = s.at /\ Piece(s.at, Taken(k)).bytes = Taken(k)
  BY <1>1, <1>2, PieceIs
<1>4. ASSUME used > 0 PROVE used = k /\ Lays(ps, Flat(<<s>>), used)
  <2> DEFINE p == Piece(s.at, Taken(k))
  <2>1. used = k /\ p \in ps
    BY <1>4
  <2>2. p.at = s.at /\ p.bytes = Taken(k)
    BY <1>3
  <2> HIDE DEF p
  <2>3. ASSUME NEW m, \A q \in ps : Says(m, q), NEW x \in 1..used PROVE m[Flat(<<s>>)[x]] = stream[x]
    <3>1. Says(m, p)
      BY <2>1, <2>3
    <3>2. x \in 1..k /\ x \in 1..s.len
      BY <1>1, <1>2, <2>1
    <3>3. x \in 1..Len(p.bytes) /\ p.bytes[x] = stream[x] /\ Flat(<<s>>)[x] = p.at + x - 1
      BY <1>1, <1>2, <2>2, <3>2
    <3> QED BY <3>1, <3>3 DEF Says
  <2> QED BY <2>1, <2>3 DEF Lays
<1> QED BY <1>4

LEMMA RecvKeeps ==
  ASSUME TInv, NEW s \in Spans, NEW peek \in BOOLEAN, Recv(s, peek)
  PROVE  TStep
<1>1. PICK k \in Counts(s.len) :
        Delivered(mem, k, IF k > 0 THEN <<Piece(s.at, Taken(k))>> ELSE <<>>, IF peek THEN 0 ELSE k,
                  Flat(<<s>>), CellsOf(s), Claims(s.at, Taken(k)))
  BY DEF Recv, Taken
<1>2. s \in SpanSet /\ s.at \in Nat /\ s.len \in Nat /\ StreamIsRest /\ mem \in Mems
  BY SpanFacts DEF TInv
<1>3. k \in Nat /\ k <= s.len /\ k \in 0..Len(stream)
  BY <1>2, CountsIs
<1> DEFINE b == Taken(k)
           pieces == Maybe(s.at, b)
           ps == ToSet(pieces)
           used == IF peek THEN 0 ELSE k
<1>4. b \in Seq(Int) /\ Len(b) = k
  BY <1>2, <1>3, TakenIs DEF Taken
<1>5. b = <<>> <=> ~(k > 0)
  BY <1>3, <1>4
<1> HIDE DEF b
<1>6. pieces = IF k > 0 THEN <<Piece(s.at, b)>> ELSE <<>>
  BY <1>5 DEF Maybe
<1>7. Delivered(mem, k, pieces, used, Flat(<<s>>), CellsOf(s), Claims(s.at, b))
  BY <1>1, <1>6 DEF b
<1>8. pieces \in Seq(PieceSet) /\ ps \subseteq {Piece(s.at, b)} /\ (b = <<>> \/ Piece(s.at, b) \in ps)
  BY <1>2, <1>4, MaybeIs
<1> HIDE DEF pieces, ps
<1>9. \A p \in ps : Covers(p) \subseteq CellsOf(s)
  BY <1>2, <1>3, <1>4, <1>8, InSpan
<1>10. InGiven(mem, ps, CellsOf(s)) /\ AllApart(ps)
  BY <1>2, <1>8, <1>9, AsIs DEF AllApart
<1>11. \A claim \in Claims(s.at, b) : Backed(ps, claim)
  BY <1>2, <1>4, <1>8, BackedBy
<1>12. used \in {0, k} /\ used \in 0..Len(stream)
  BY <1>3
<1> HIDE DEF used
<1>13. used > 0 => k = used /\ Lays(ps, Flat(<<s>>), used)
  <2>1. k > 0 => Piece(s.at, Taken(k)) \in ps
    BY <1>5, <1>8 DEF b
  <2> QED BY <1>2, <1>3, <1>12, <2>1, SpanLays
<1> QED BY <1>2, <1>7, <1>8, <1>10, <1>11, <1>12, <1>13, DeliveredKeeps DEF ps

LEMMA AskedIs == ASSUME NEW lp, NEW n \in Nat PROVE Asked(lp, n) \in Nat
BY TransferNumbers DEF Asked, Least

Resized(s, n) == [s EXCEPT !.len = n]
LEMMA ResizedIs ==
  ASSUME NEW s \in SpanSet, NEW n \in Nat
  PROVE  Resized(s, n) \in SpanSet /\ Resized(s, n).at = s.at /\ Resized(s, n).len = n
BY DEF Resized, SpanSet

LeastIs(a, b) == Least(a, b) \in Nat /\ Least(a, b) <= a /\ Least(a, b) <= b
LEMMA LeastBounds == ASSUME NEW a \in Nat, NEW b \in Nat PROVE LeastIs(a, b)
BY DEF Least, LeastIs

LEMMA RecvfromKeeps ==
  ASSUME TInv, NEW s \in Spans, NEW peek \in BOOLEAN, NEW name \in NameSpans, NEW lp \in Pointers,
         Recvfrom(s, peek, name, lp)
  PROVE  TStep
<1>1. CASE name.at = 0 \/ lp = 0
  BY <1>1, RecvKeeps DEF Recvfrom
<1>2. CASE ~(name.at = 0 \/ lp = 0)
  <2> DEFINE asked == Asked(lp, name.len)
             buffer == Resized(name, asked)
             granted == CellsOf(s) \cup CellsOf(buffer) \cup {lp}
             used(k) == IF peek THEN 0 ELSE k
             address(actual) == Host(Least(actual, asked))
             out(k, actual) == IF k = 0 THEN <<>> ELSE
                (<<Piece(s.at, Taken(k))>> \o Maybe(name.at, address(actual))) \o <<Piece(lp, <<actual>>)>>
             claims(k, actual) == Claims(s.at, Taken(k)) \cup
                (IF k = 0 THEN {} ELSE Claims(name.at, address(actual)) \cup {<<lp, actual>>})
  <2>1. \E k \in Counts(s.len), actual \in Lengths :
           /\ Disjoint(<<s, buffer, OneCell(lp)>>)
           /\ Delivered(Prepared(lp, name.len), k, out(k, actual), used(k), Flat(<<s>>), granted, claims(k, actual))
    BY <1>2 DEF Recvfrom, Resized, OneCell, Taken, Maybe
  <2>2. PICK k \in Counts(s.len) : \E actual \in Lengths :
           /\ Disjoint(<<s, buffer, OneCell(lp)>>)
           /\ Delivered(Prepared(lp, name.len), k, out(k, actual), used(k), Flat(<<s>>), granted, claims(k, actual))
    BY <2>1
  <2>3. PICK actual \in Lengths :
           /\ Disjoint(<<s, buffer, OneCell(lp)>>)
           /\ Delivered(Prepared(lp, name.len), k, out(k, actual), used(k), Flat(<<s>>), granted, claims(k, actual))
    BY <2>2
  <2>4. /\ s \in SpanSet /\ s.at \in Nat /\ s.len \in Nat /\ name \in SpanSet /\ name.at \in Nat /\ name.len \in Nat
        /\ lp \in Nat /\ actual \in Nat /\ StreamIsRest /\ mem \in Mems
    BY SpanFacts DEF TInv
  <2>5. k \in Nat /\ k <= s.len /\ k \in 0..Len(stream)
    BY <2>4, CountsIs
  <2>6. asked \in Nat
    BY <2>4, AskedIs
  <2> DEFINE b == Taken(k)
             a == address(actual)
             A == Piece(s.at, b)
             M == Piece(name.at, a)
             H == Piece(lp, <<actual>>)
             pieces == out(k, actual)
             ps == ToSet(pieces)
  <2>7. b \in Seq(Int) /\ Len(b) = k
    BY <2>4, <2>5, TakenIs DEF Taken
  <2>8. a \in Seq(Int) /\ Len(a) <= asked
    <3> HIDE DEF asked
    <3>1. LeastIs(actual, asked)
      BY <2>4, <2>6, LeastBounds
    <3> QED BY <3>1, HostIs DEF LeastIs
  <2>9. buffer \in SpanSet /\ buffer.at = name.at /\ buffer.len = asked
    <3> HIDE DEF asked
    <3> QED BY <2>4, <2>6, ResizedIs
  <2>10. OneCell(lp) \in SpanSet /\ CellsOf(OneCell(lp)) = {lp} /\ Covers(H) = {lp} /\ <<actual>> \in Seq(Int)
    <3>1. <<actual>> \in Seq(Int)
      BY <2>4
    <3> QED BY <2>4, <3>1, OneCellIs
  <2> HIDE DEF b, a, buffer, asked
  <2>11. Covers(A) \subseteq CellsOf(s) /\ Covers(M) \subseteq CellsOf(buffer)
    <3>1. Covers(A) \subseteq CellsOf(s)
      BY <2>4, <2>5, <2>7, InSpan
    <3>2. Covers(M) \subseteq CellsOf(buffer)
      BY <2>4, <2>8, <2>9, InSpan
    <3> QED BY <3>1, <3>2
  <2>12. A \in PieceSet /\ H \in PieceSet
    BY <2>4, <2>7, <2>10, PieceIs
  <2>13. Maybe(name.at, a) \in Seq(PieceSet) /\ ToSet(Maybe(name.at, a)) \subseteq {M}
         /\ (a = <<>> \/ M \in ToSet(Maybe(name.at, a)))
    BY <2>4, <2>8, MaybeIs
  <2>14. pieces = IF k = 0 THEN <<>> ELSE (<<A>> \o Maybe(name.at, a)) \o <<H>>
    BY DEF b, a
  <2> HIDE DEF A, M, H, pieces
  <2>15. /\ pieces \in Seq(PieceSet) /\ ps \subseteq {A, M, H}
         /\ k # 0 => A \in ps /\ H \in ps /\ (a = <<>> \/ M \in ps)
    <3>1. CASE k = 0
      BY <2>14, <3>1, Listed
    <3>2. CASE k # 0
      <4>1. <<A>> \in Seq(PieceSet) /\ ToSet(<<A>>) = {A} /\ <<H>> \in Seq(PieceSet) /\ ToSet(<<H>>) = {H}
        BY <2>12, Listed
      <4> DEFINE u == <<A>>
                 v == Maybe(name.at, a)
                 w == <<H>>
      <4> HIDE DEF u, v, w
      <4>2. u \in Seq(PieceSet) /\ v \in Seq(PieceSet) /\ w \in Seq(PieceSet) /\ pieces = (u \o v) \o w
        BY <2>13, <2>14, <3>2, <4>1 DEF u, v, w
      <4>3. u \o v \in Seq(PieceSet) /\ ToSet(u \o v) = ToSet(u) \cup ToSet(v)
        BY <4>2, Listed
      <4>4. pieces \in Seq(PieceSet) /\ ps = ToSet(u) \cup ToSet(v) \cup ToSet(w)
        BY <4>2, <4>3, Listed
      <4> QED BY <2>13, <4>1, <4>4 DEF u, v, w
    <3> QED BY <3>1, <3>2
  <2> HIDE DEF ps
  <2>16. AllApart(ps)
    BY <2>3, <2>4, <2>9, <2>10, <2>11, <2>15, ThreeOwn
  <2>17. \A p \in ps : Covers(p) \subseteq granted
    BY <2>10, <2>11, <2>15
  <2>18. lp \in granted
    OBVIOUS
  <2> HIDE DEF granted
  <2>19. Prepared(lp, name.len) \in Mems /\ InGiven(Prepared(lp, name.len), ps, granted)
    BY <2>4, <2>17, <2>18, PreparedIs
  <2>20. \A claim \in claims(k, actual) : Backed(ps, claim)
    <3>1. k = 0 => b = <<>>
      BY <2>7
    <3>2. \A claim \in Claims(s.at, b) : Backed(ps, claim)
      BY <2>4, <2>7, <2>15, <3>1, BackedBy DEF A
    <3>3. k # 0 => \A claim \in Claims(name.at, a) : Backed(ps, claim)
      BY <2>4, <2>8, <2>15, BackedBy DEF M
    <3>4. k # 0 => \A claim \in Claims(lp, <<actual>>) : Backed(ps, claim)
      BY <2>4, <2>10, <2>15, BackedBy DEF H
    <3>5. <<lp, actual>> \in Claims(lp, <<actual>>)
      <4>1. 1 \in DOMAIN <<actual>> /\ <<actual>>[1] = actual /\ lp + 1 - 1 = lp
        BY <2>4
      <4> QED BY <4>1 DEF Claims
    <3>6. claims(k, actual) = Claims(s.at, b) \cup (IF k = 0 THEN {} ELSE Claims(name.at, a) \cup {<<lp, actual>>})
      BY DEF b, a
    <3> HIDE DEF claims
    <3> QED BY <3>2, <3>3, <3>4, <3>5, <3>6
  <2>21. used(k) \in {0, k} /\ used(k) \in 0..Len(stream)
    BY <2>5
  <2> HIDE DEF used, claims
  <2>22. used(k) > 0 => k = used(k) /\ Lays(ps, Flat(<<s>>), used(k))
    <3>1. k > 0 => Piece(s.at, Taken(k)) \in ps
      BY <2>15 DEF A, b
    <3> QED BY <2>4, <2>5, <2>21, <3>1, SpanLays
  <2>23. Delivered(Prepared(lp, name.len), k, pieces, used(k), Flat(<<s>>), granted, claims(k, actual))
    BY <2>3 DEF pieces
  <2> HIDE DEF out
  <2> QED BY <2>15, <2>16, <2>19, <2>20, <2>21, <2>22, <2>23, DeliveredKeeps DEF ps
<1> QED BY <1>1, <1>2

LEMMA IovLays ==
  ASSUME StreamIsRest, NEW iov \in Seq(SpanSet), NEW k \in 0..Len(stream), k <= Total(iov), NEW ps,
         ToSet(Scattered(iov, Taken(k))) \subseteq ps, NEW used \in {0, k}
  PROVE  used > 0 => used = k /\ Lays(ps, Flat(iov), used)
<1>1. Taken(k) \in Seq(Int) /\ Len(Taken(k)) = k /\ k \in Nat /\ \A i \in 1..k : Taken(k)[i] = stream[i]
  BY TakenIs DEF Taken
<1>2. Len(Taken(k)) <= Total(iov)
  BY <1>1
<1>3. ASSUME NEW m, \A p \in ps : Says(m, p) PROVE \A x \in 1..k : m[Flat(iov)[x]] = stream[x]
  <2>1. \A p \in ToSet(Scattered(iov, Taken(k))) : Says(m, p)
    BY <1>3
  <2> DEFINE b == Taken(k)
             Laid(v) == \A x \in 1..Len(b) : v[Flat(iov)[x]] = b[x]
  <2> HIDE DEF b
  <2>2. b \in Seq(Int) /\ Len(b) <= Total(iov)
    BY <1>1, <1>2 DEF b
  <2>3. \A v : (\A p \in ToSet(Scattered(iov, b)) : Says(v, p)) => Laid(v)
    BY <2>2, ScatteredIs
  <2> HIDE DEF Laid
  <2>4. Laid(m)
    BY <2>1, <2>3 DEF b
  <2> QED BY <1>1, <2>4 DEF b, Laid
<1>4. Lays(ps, Flat(iov), k)
  BY <1>3 DEF Lays
<1> QED BY <1>1, <1>4

\* The pieces of a scatter are over the cells of the list.
LEMMA ScatteredIn ==
  ASSUME NEW iov \in Seq(SpanSet), NEW data \in Seq(Int), Len(data) <= Total(iov)
  PROVE  \A p \in ToSet(Scattered(iov, data)) : Covers(p) \subseteq OfIovecs(iov)
<1> TAKE p \in ToSet(Scattered(iov, data))
<1>1. PICK i \in 1..Len(iov) : Covers(p) \subseteq CellsOf(iov[i])
  BY ScatteredIs
<1> QED BY <1>1, OfIovecsAre

LEMMA ReadvKeeps ==
  ASSUME TInv, NEW iov \in Iovecs, Readv(iov)
  PROVE  TStep
<1>1. CASE ~IovecsOk(iov)
  BY <1>1, UnchangedKeeps DEF Readv
<1>2. CASE IovecsOk(iov)
  <2>1. PICK k \in Counts(Total(iov)) :
          Disjoint(iov) /\ Delivered(mem, k, Scattered(iov, Taken(k)), k, Flat(iov), OfIovecs(iov), {})
    BY <1>2 DEF Readv, Taken
  <2>2. iov \in Seq(SpanSet) /\ StreamIsRest /\ mem \in Mems
    BY SpanFacts DEF TInv
  <2>3. Total(iov) \in Nat
    <3>1. PICK B : Begins(iov, B)
      BY <2>2, BeginsIs
    <3> QED BY <2>2, <3>1, BeginsReach
  <2>4. k \in Nat /\ k <= Total(iov) /\ k \in 0..Len(stream)
    BY <2>2, <2>3, CountsIs
  <2> DEFINE b == Taken(k)
             pieces == Scattered(iov, b)
             ps == ToSet(pieces)
  <2>5. b \in Seq(Int) /\ Len(b) <= Total(iov)
    BY <2>2, <2>4, TakenIs DEF Taken
  <2> HIDE DEF b
  <2>6. /\ pieces \in Seq(PieceSet)
        /\ \A p \in ps : \E i \in 1..Len(iov) : p = pieces[i] /\ Covers(p) \subseteq CellsOf(iov[i])
    BY <2>2, <2>5, ScatteredIs
  <2>7. \A p \in ps : Covers(p) \subseteq OfIovecs(iov)
    BY <2>2, <2>5, ScatteredIn
  <2>8. k > 0 => k = k /\ Lays(ps, Flat(iov), k)
    BY <2>2, <2>4, IovLays DEF b
  <2>9. Delivered(mem, k, pieces, k, Flat(iov), OfIovecs(iov), {})
    BY <2>1 DEF b
  <2> HIDE DEF pieces, ps
  <2>10. AllApart(ps)
    BY <2>1, <2>2, <2>6, EachOwn
  <2>11. InGiven(mem, ps, OfIovecs(iov))
    BY <2>2, <2>7, AsIs
  <2> DEFINE none == {}
             granted == OfIovecs(iov)
             cells == Flat(iov)
  <2>12. k >= 0 => \A claim \in none : Backed(ps, claim)
    OBVIOUS
  <2>13. Delivered(mem, k, pieces, k, cells, granted, none) /\ (k > 0 => k = k /\ Lays(ps, cells, k))
         /\ InGiven(mem, ps, granted)
    BY <2>8, <2>9, <2>11
  <2> HIDE DEF none, granted, cells
  <2> QED BY <2>2, <2>4, <2>6, <2>10, <2>12, <2>13, DeliveredKeeps DEF ps
<1> QED BY <1>1, <1>2

LEMMA SendKeeps ==
  ASSUME TInv, NEW s \in Spans, Mapped(s.at, s.len), Sent(Flat(<<s>>), BytesAt(s.at, s.len))
  PROVE  TStep
<1>1. s \in SpanSet /\ mem \in Mems
  BY SpanFacts DEF TInv
<1>2. s.at \in Nat /\ s.len \in Nat /\ \A j \in 1..s.len : Flat(<<s>>)[j] = s.at + j - 1
  BY <1>1, FlatOne
<1> DEFINE b == BytesAt(s.at, s.len)
<1>3. \A j \in 1..s.len : mem[s.at + j - 1] \in Int
  <2>1. \A j \in 1..s.len : s.at + j - 1 \in s.at..(s.at + s.len - 1)
    BY <1>2
  <2> QED BY <1>1, <2>1 DEF Mapped, Mems
<1>4. b \in [1..s.len -> Int] /\ \A j \in 1..s.len : b[j] = mem[s.at + j - 1]
  BY <1>3 DEF BytesAt
<1>5. b \in Seq(Int) /\ Len(b) = s.len
  <2>1. \A n \in Nat : \A f \in [1..n -> Int] : f \in Seq(Int) /\ Len(f) = n
    OBVIOUS
  <2> HIDE DEF b
  <2> QED BY <1>2, <1>4, <2>1
<1>6. \A x \in 1..Len(b) : b[x] = mem[Flat(<<s>>)[x]]
  <2> HIDE DEF b
  <2> QED BY <1>2, <1>4, <1>5
<1>7. Sent(Flat(<<s>>), b)
  OBVIOUS
<1> HIDE DEF b
<1> QED BY <1>5, <1>6, <1>7, SentKeeps

LEMMA SendtoKeeps ==
  ASSUME TInv, NEW s \in Spans, NEW name, Send(s) \/ Sendto(s, name)
  PROVE  TStep
<1>1. CASE Send(s)
  BY <1>1, UnchangedKeeps, SendKeeps DEF Send
<1>2. CASE Sendto(s, name)
  BY <1>1, <1>2, UnchangedKeeps, SendKeeps DEF Sendto
<1> QED BY <1>1, <1>2

LEMMA WritevKeeps ==
  ASSUME TInv, NEW iov \in Iovecs, Writev(iov)
  PROVE  TStep
<1>1. CASE ~IovecsOk(iov) \/ ~Gatherable(iov)
  BY <1>1, UnchangedKeeps DEF Writev
<1>2. CASE ~(~IovecsOk(iov) \/ ~Gatherable(iov))
  <2>1. Sent(Flat(iov), Gathered(iov))
    BY <1>2 DEF Writev, Gathered
  <2>2. iov \in Seq(SpanSet) /\ mem \in Mems /\ Gatherable(iov)
    BY <1>2, SpanFacts DEF TInv
  <2>3. Gathered(iov) \in Seq(Int) /\ \A x \in 1..Len(Gathered(iov)) : Gathered(iov)[x] = mem[Flat(iov)[x]]
    BY <2>2, GatheredIs
  <2> QED BY <2>1, <2>3, SentKeeps
<1> QED BY <1>1, <1>2

LEMMA SendmsgKeeps ==
  ASSUME TInv, NEW iov \in Iovecs, NEW name, NEW control, NEW hp, Sendmsg(iov, name, control, hp)
  PROVE  TStep
BY UnchangedKeeps, WritevKeeps DEF Sendmsg

\* The list of a message: its buffers, the name, the control data and the header.
Message(iov, name, control, header) == iov \o <<name, control, header>>
LEMMA MessageIs ==
  ASSUME NEW iov \in Seq(SpanSet), NEW a \in SpanSet, NEW b \in SpanSet, NEW c \in SpanSet
  PROVE  LET L == Message(iov, a, b, c)
             k == Len(iov)
         IN /\ L \in Seq(SpanSet) /\ k \in Nat /\ Len(L) = k + 3
            /\ \A i \in 1..k : i \in 1..Len(L) /\ L[i] = iov[i]
            /\ k + 1 \in 1..Len(L) /\ k + 2 \in 1..Len(L) /\ k + 3 \in 1..Len(L)
            /\ L[k + 1] = a /\ L[k + 2] = b /\ L[k + 3] = c
<1> DEFINE k == Len(iov)
           t == <<a, b, c>>
           L == iov \o t
<1>1. k \in Nat
  BY LenProperties
<1>2. t \in Seq(SpanSet) /\ Len(t) = 3 /\ t[1] = a /\ t[2] = b /\ t[3] = c
  OBVIOUS
<1> HIDE DEF t
<1>3. L \in Seq(SpanSet) /\ Len(L) = k + 3 /\ \A i \in 1..k + 3 : L[i] = IF i <= k THEN iov[i] ELSE t[i - k]
  <2>1. /\ L \in Seq(SpanSet) /\ Len(L) = Len(iov) + Len(t)
        /\ \A i \in 1..Len(iov) + Len(t) : L[i] = IF i <= Len(iov) THEN iov[i] ELSE t[i - Len(iov)]
    BY <1>2, ConcatProperties
  <2> QED BY <1>2, <2>1
<1> HIDE DEF L
<1>4. \A i \in 1..k : i \in 1..k + 3 /\ i <= k
  BY <1>1
<1>5. /\ k + 1 \in 1..k + 3 /\ k + 2 \in 1..k + 3 /\ k + 3 \in 1..k + 3
      /\ ~(k + 1 <= k) /\ ~(k + 2 <= k) /\ ~(k + 3 <= k)
      /\ (k + 1) - k = 1 /\ (k + 2) - k = 2 /\ (k + 3) - k = 3
  BY <1>1
<1> HIDE DEF k
<1>6. L[k + 1] = a /\ L[k + 2] = b /\ L[k + 3] = c /\ \A i \in 1..k : L[i] = iov[i]
  BY <1>2, <1>3, <1>4, <1>5
<1>7. \A i \in 1..k : i \in 1..Len(L)
  BY <1>3, <1>4
<1>8. L = Message(iov, a, b, c)
  BY DEF L, t, Message
<1> QED BY <1>1, <1>3, <1>5, <1>6, <1>7, <1>8 DEF k

SideOut(s, n) == IF s.at = 0 \/ s.len = 0 THEN <<>> ELSE <<Piece(s.at, Host(Least(n, s.len)))>>
SidePiece(s, n) == Piece(s.at, Host(Least(n, s.len)))
LEMMA SideOutIs ==
  ASSUME NEW s \in SpanSet, NEW n \in Nat
  PROVE  /\ SideOut(s, n) \in Seq(PieceSet) /\ ToSet(SideOut(s, n)) \subseteq {SidePiece(s, n)}
         /\ Covers(SidePiece(s, n)) \subseteq CellsOf(s)
<1>1. s.at \in Nat /\ s.len \in Nat
  BY DEF SpanSet
<1>2. LeastIs(n, s.len)
  BY <1>1, LeastBounds
<1>3. Host(Least(n, s.len)) \in Seq(Int) /\ Len(Host(Least(n, s.len))) <= s.len
  BY <1>2, HostIs DEF LeastIs
<1>4. SidePiece(s, n) \in PieceSet /\ Covers(SidePiece(s, n)) \subseteq CellsOf(s)
  BY <1>1, <1>3, PieceIs, InSpan DEF SidePiece
<1>5. SideOut(s, n) = IF s.at = 0 \/ s.len = 0 THEN <<>> ELSE <<SidePiece(s, n)>>
  BY DEF SideOut, SidePiece
<1> QED BY <1>4, <1>5, Listed

Headed(hp, x, y) == [mem EXCEPT ![hp] = x, ![hp + 1] = y]
HeaderAt(hp) == [at |-> hp, len |-> 2]
HeadedOK(hp, x, y) == /\ Headed(hp, x, y) \in Mems
                      /\ \A c \in Cells : Headed(hp, x, y)[c] # mem[c] => c \in {hp, hp + 1}
LEMMA HeadedIs ==
  ASSUME mem \in Mems, NEW hp \in Nat, Mapped(hp, 2), NEW x \in Int, NEW y \in Int
  PROVE  HeadedOK(hp, x, y)
<1>1. hp..(hp + 2 - 1) = {hp, hp + 1}
  OBVIOUS
<1>2. hp \in Cells /\ hp + 1 \in Cells
  BY <1>1 DEF Mapped
<1>3. Headed(hp, x, y) \in Mems
  BY <1>2 DEF Headed, Mems
<1>4. \A c \in Cells : Headed(hp, x, y)[c] # mem[c] => c \in {hp, hp + 1}
  BY <1>2 DEF Headed, Mems
<1> QED BY <1>3, <1>4 DEF HeadedOK

\* What a message writes, in order.
MessageOut(iov, b, name, control, hp, n, m) ==
  Scattered(iov, b) \o SideOut(name, n) \o SideOut(control, m) \o <<Piece(hp, <<n, m>>)>>

LaidOut(pieces, scatter, granted, hp, claims) ==
  /\ pieces \in Seq(PieceSet) /\ AllApart(ToSet(pieces))
  /\ \A p \in ToSet(pieces) : Covers(p) \subseteq granted
  /\ {hp, hp + 1} \subseteq granted /\ ToSet(scatter) \subseteq ToSet(pieces)
  /\ \A claim \in claims : Backed(ToSet(pieces), claim)

LEMMA MessageOutIs ==
  ASSUME NEW iov \in Seq(SpanSet), NEW b \in Seq(Int), Len(b) <= Total(iov),
         NEW name \in SpanSet, NEW control \in SpanSet, NEW hp \in Nat, NEW n \in Nat, NEW m \in Nat,
         Disjoint(Message(iov, name, control, HeaderAt(hp)))
  PROVE  LaidOut(MessageOut(iov, b, name, control, hp, n, m), Scattered(iov, b),
                 OfIovecs(Message(iov, name, control, HeaderAt(hp))), hp, {<<hp, n>>, <<hp + 1, m>>})
<1> DEFINE L == Message(iov, name, control, HeaderAt(hp))
           k == Len(iov)
           S == Scattered(iov, b)
           N == SideOut(name, n)
           C == SideOut(control, m)
           h == Piece(hp, <<n, m>>)
           pieces == MessageOut(iov, b, name, control, hp, n, m)
           ps == ToSet(pieces)
<1>1. <<n, m>> \in Seq(Int) /\ Len(<<n, m>>) = 2 /\ <<n, m>>[1] = n /\ <<n, m>>[2] = m
  BY FewIs
<1>2. HeaderAt(hp) \in SpanSet /\ CellsOf(HeaderAt(hp)) = {hp, hp + 1}
  <2>1. hp..(hp + 2 - 1) = {hp, hp + 1}
    OBVIOUS
  <2> QED BY <2>1 DEF HeaderAt, SpanSet, CellsOf
<1>3. h \in PieceSet /\ Covers(h) = {hp, hp + 1} /\ h.at = hp /\ h.bytes = <<n, m>>
  <2>1. hp..(hp + 2 - 1) = {hp, hp + 1}
    OBVIOUS
  <2> QED BY <1>1, <2>1, PieceIs
<1>4. /\ L \in Seq(SpanSet) /\ k \in Nat /\ Len(L) = k + 3
      /\ \A i \in 1..k : i \in 1..Len(L) /\ L[i] = iov[i]
      /\ k + 1 \in 1..Len(L) /\ k + 2 \in 1..Len(L) /\ k + 3 \in 1..Len(L)
      /\ L[k + 1] = name /\ L[k + 2] = control /\ L[k + 3] = HeaderAt(hp)
  BY <1>2, MessageIs
<1>5. S \in Seq(PieceSet) /\ \A p \in ToSet(S) : \E i \in 1..k : p = S[i] /\ Covers(p) \subseteq CellsOf(iov[i])
  BY ScatteredIs
<1>6. N \in Seq(PieceSet) /\ ToSet(N) \subseteq {SidePiece(name, n)} /\ Covers(SidePiece(name, n)) \subseteq CellsOf(name)
  BY SideOutIs
<1>7. C \in Seq(PieceSet) /\ ToSet(C) \subseteq {SidePiece(control, m)}
      /\ Covers(SidePiece(control, m)) \subseteq CellsOf(control)
  BY SideOutIs
<1>8. <<h>> \in Seq(PieceSet) /\ ToSet(<<h>>) = {h}
  BY <1>3, Listed
<1>9. pieces = ((S \o N) \o C) \o <<h>>
  BY DEF MessageOut
<1> HIDE DEF L, S, N, C, h, pieces
<1>10. S \o N \in Seq(PieceSet) /\ ToSet(S \o N) = ToSet(S) \cup ToSet(N)
  BY <1>5, <1>6, Listed
<1>11. (S \o N) \o C \in Seq(PieceSet) /\ ToSet((S \o N) \o C) = ToSet(S) \cup ToSet(N) \cup ToSet(C)
  BY <1>7, <1>10, Listed
<1>12. pieces \in Seq(PieceSet) /\ ps = ToSet(S) \cup ToSet(N) \cup ToSet(C) \cup {h}
  <2> DEFINE u == (S \o N) \o C
             w == <<h>>
  <2>1. u \in Seq(PieceSet) /\ w \in Seq(PieceSet) /\ pieces = u \o w
    BY <1>8, <1>9, <1>11
  <2> HIDE DEF u, w
  <2>2. u \o w \in Seq(PieceSet) /\ ToSet(u \o w) = ToSet(u) \cup ToSet(w)
    BY <2>1, Listed
  <2>3. ToSet(u) = ToSet(S) \cup ToSet(N) \cup ToSet(C) /\ ToSet(w) = {h}
    BY <1>8, <1>11 DEF u, w
  <2> QED BY <2>1, <2>2, <2>3
<1> HIDE DEF ps
<1> DEFINE P == [i \in 1..k + 3 |-> IF i <= k THEN S[i]
                                     ELSE IF i = k + 1 THEN SidePiece(name, n)
                                     ELSE IF i = k + 2 THEN SidePiece(control, m) ELSE h]
<1>13. /\ \A i \in 1..k : P[i] = S[i]
       /\ P[k + 1] = SidePiece(name, n) /\ P[k + 2] = SidePiece(control, m) /\ P[k + 3] = h
  <2> HIDE DEF k
  <2>1. k \in Nat
    BY <1>4
  <2>2. \A i \in 1..k : i \in 1..k + 3 /\ i <= k
    BY <2>1
  <2>3. /\ k + 1 \in 1..k + 3 /\ k + 2 \in 1..k + 3 /\ k + 3 \in 1..k + 3
        /\ ~(k + 1 <= k) /\ ~(k + 2 <= k) /\ ~(k + 3 <= k)
        /\ k + 2 # k + 1 /\ k + 3 # k + 1 /\ k + 3 # k + 2
    BY <2>1
  <2> QED BY <2>2, <2>3
<1> HIDE DEF P, k
<1>14. ASSUME NEW p \in ps PROVE \E i \in 1..Len(L) : p = P[i] /\ Covers(p) \subseteq CellsOf(L[i])
  <2>1. CASE p \in ToSet(S)
    BY <1>4, <1>5, <1>13, <2>1
  <2>2. CASE p \in ToSet(N)
    BY <1>4, <1>6, <1>13, <2>2
  <2>3. CASE p \in ToSet(C)
    BY <1>4, <1>7, <1>13, <2>3
  <2>4. CASE p = h
    BY <1>2, <1>3, <1>4, <1>13, <2>4
  <2> QED BY <1>12, <2>1, <2>2, <2>3, <2>4
<1>15. AllApart(ps)
  <2>1. Disjoint(L)
    BY DEF L
  <2> QED BY <1>4, <1>14, <2>1, EachOwn
<1>16. \A p \in ps : Covers(p) \subseteq OfIovecs(L)
  <2> TAKE p \in ps
  <2>1. PICK i \in 1..Len(L) : Covers(p) \subseteq CellsOf(L[i])
    BY <1>14
  <2> QED BY <1>4, <2>1, OfIovecsAre
<1>17. {hp, hp + 1} \subseteq OfIovecs(L)
  BY <1>3, <1>12, <1>16
<1>18. \A claim \in {<<hp, n>>, <<hp + 1, m>>} : Backed(ps, claim)
  <2>1. h \in ps /\ 1 \in 1..Len(h.bytes) /\ 2 \in 1..Len(h.bytes) /\ h.bytes[1] = n /\ h.bytes[2] = m
    BY <1>1, <1>3, <1>12
  <2>2. hp = h.at + 1 - 1 /\ hp + 1 = h.at + 2 - 1
    BY <1>3
  <2>3. Backed(ps, <<hp, n>>)
    <3>1. <<hp, n>>[1] = h.at + 1 - 1 /\ <<hp, n>>[2] = h.bytes[1]
      BY <2>1, <2>2
    <3> QED BY <2>1, <3>1 DEF Backed
  <2>4. Backed(ps, <<hp + 1, m>>)
    <3>1. <<hp + 1, m>>[1] = h.at + 2 - 1 /\ <<hp + 1, m>>[2] = h.bytes[2]
      BY <2>1, <2>2
    <3> QED BY <2>1, <3>1 DEF Backed
  <2> QED BY <2>3, <2>4
<1>19. ToSet(S) \subseteq ps
  BY <1>12
<1> QED BY <1>12, <1>15, <1>16, <1>17, <1>18, <1>19 DEF ps, pieces, L, S, LaidOut

LEMMA RecvmsgKeeps ==
  ASSUME TInv, NEW iov \in Iovecs, NEW peek \in BOOLEAN, NEW name \in NameSpans, NEW control \in NameSpans,
         NEW hp \in Pointers, Recvmsg(iov, peek, name, control, hp)
  PROVE  TStep
<1> DEFINE bad == ~Mapped(hp, 2) \/ ~IovecsOk(iov) \/ name.len > MaxSide \/ control.len > MaxSide
           L == Message(iov, name, control, HeaderAt(hp))
           Told2(k, n, m) ==
             /\ Disjoint(L)
             /\ Delivered(Headed(hp, name.len, control.len), k,
                          MessageOut(iov, Taken(k), name, control, hp, n, m),
                          IF peek THEN 0 ELSE k, Flat(iov), OfIovecs(L), {<<hp, n>>, <<hp + 1, m>>})
<1>1. CASE bad
  BY <1>1, UnchangedKeeps DEF Recvmsg
<1>2. CASE ~bad
  <2>1. \E k \in Counts(Total(iov)), n, m \in Lengths : Told2(k, n, m)
    BY <1>2 DEF Recvmsg, Message, HeaderAt, Headed, MessageOut, SideOut, Taken
  <2>2. PICK k \in Counts(Total(iov)) : \E n, m \in Lengths : Told2(k, n, m)
    BY <2>1
  <2>3. PICK n \in Lengths, m \in Lengths : Told2(k, n, m)
    BY <2>2
  <2>4. /\ iov \in Seq(SpanSet) /\ StreamIsRest /\ mem \in Mems /\ hp \in Nat /\ Mapped(hp, 2)
        /\ name \in SpanSet /\ control \in SpanSet /\ name.len \in Int /\ control.len \in Int
        /\ n \in Nat /\ m \in Nat
    BY <1>2, SpanFacts DEF TInv
  <2>5. Total(iov) \in Nat
    <3>1. PICK B : Begins(iov, B)
      BY <2>4, BeginsIs
    <3> QED BY <2>4, <3>1, BeginsReach
  <2>6. k \in Nat /\ k <= Total(iov) /\ k \in 0..Len(stream)
    BY <2>4, <2>5, CountsIs
  <2> DEFINE b == Taken(k)
             pieces == MessageOut(iov, b, name, control, hp, n, m)
             ps == ToSet(pieces)
             granted == OfIovecs(L)
             cells == Flat(iov)
             claims == {<<hp, n>>, <<hp + 1, m>>}
             used == IF peek THEN 0 ELSE k
             start == Headed(hp, name.len, control.len)
  <2>7. b \in Seq(Int) /\ Len(b) <= Total(iov)
    BY <2>4, <2>6, TakenIs DEF Taken
  <2> HIDE DEF b
  <2>8. /\ pieces \in Seq(PieceSet) /\ AllApart(ps)
        /\ \A p \in ps : Covers(p) \subseteq granted
        /\ {hp, hp + 1} \subseteq granted
        /\ ToSet(Scattered(iov, b)) \subseteq ps
        /\ \A claim \in claims : Backed(ps, claim)
    <3>1. Disjoint(Message(iov, name, control, HeaderAt(hp)))
      BY <2>3
    <3>2. LaidOut(MessageOut(iov, b, name, control, hp, n, m), Scattered(iov, b),
                  OfIovecs(Message(iov, name, control, HeaderAt(hp))), hp, {<<hp, n>>, <<hp + 1, m>>})
      BY <2>4, <2>7, <3>1, MessageOutIs
    <3>3. LaidOut(pieces, Scattered(iov, b), granted, hp, claims)
      BY <3>2
    <3> HIDE DEF pieces, granted, claims
    <3> QED BY <3>3 DEF LaidOut
  <2>9. start \in Mems /\ \A c \in Cells : start[c] # mem[c] => c \in {hp, hp + 1}
    <3>1. HeadedOK(hp, name.len, control.len)
      BY <2>4, HeadedIs
    <3> QED BY <3>1 DEF HeadedOK
  <2>10. Delivered(start, k, pieces, used, cells, granted, claims)
    BY <2>3 DEF b
  <2>11. used \in {0, k} /\ used \in 0..Len(stream)
    BY <2>6
  <2> HIDE DEF pieces, ps, granted, claims, used, start
  <2>12. used > 0 => k = used /\ Lays(ps, cells, used)
    BY <2>4, <2>6, <2>8, <2>11, IovLays DEF b
  <2>13. InGiven(start, ps, granted)
    BY <2>8, <2>9 DEF InGiven
  <2> HIDE DEF cells
  <2> QED BY <2>8, <2>9, <2>10, <2>11, <2>12, <2>13, DeliveredKeeps DEF ps
<1> QED BY <1>1, <1>2

LEMMA ListedTwo ==
  ASSUME NEW p \in PieceSet, NEW q \in PieceSet
  PROVE  <<p, q>> \in Seq(PieceSet) /\ ToSet(<<p, q>>) = {p, q}
<1> DEFINE t == <<p, q>>
<1>1. t \in Seq(PieceSet) /\ Len(t) = 2 /\ t[1] = p /\ t[2] = q /\ 1..2 = {1, 2}
  OBVIOUS
<1> HIDE DEF t
<1>2. ToSet(t) = {t[i] : i \in 1..Len(t)}
  BY <1>1, SetOfSeq
<1>3. ToSet(t) = {p, q}
  BY <1>1, <1>2
<1> QED BY <1>1, <1>3 DEF t

\* A call that writes one value, if it has bytes.
LEMMA OneTold ==
  ASSUME TInv, NEW at \in Nat, NEW b \in Seq(Int), NEW ret, NEW granted, NEW claims,
         Covers(Piece(at, b)) \subseteq granted,
         ret >= 0 => \A claim \in claims : b # <<>> /\ Backed({Piece(at, b)}, claim),
         Told(mem, ret, Maybe(at, b), granted, claims)
  PROVE  TStep
<1> DEFINE p == Piece(at, b)
           pieces == Maybe(at, b)
           ps == ToSet(pieces)
<1>1. pieces \in Seq(PieceSet) /\ ps \subseteq {p} /\ (b = <<>> \/ p \in ps)
  BY MaybeIs
<1>2. \A q \in ps : Covers(q) \subseteq granted
  BY <1>1
<1> HIDE DEF p, pieces, ps
<1>3. mem \in Mems
  BY DEF TInv
<1>4. InGiven(mem, ps, granted) /\ AllApart(ps)
  BY <1>1, <1>2, <1>3, AsIs DEF AllApart
<1>5. ASSUME ret >= 0, NEW claim \in claims PROVE Backed(ps, claim)
  <2>1. p \in ps /\ Backed({p}, claim)
    BY <1>1, <1>5 DEF p
  <2> QED BY <2>1 DEF Backed
<1>6. Told(mem, ret, pieces, granted, claims)
  BY DEF pieces
<1>7. ret >= 0 => \A claim \in claims : Backed(ps, claim)
  BY <1>5
<1> QED BY <1>1, <1>3, <1>4, <1>6, <1>7, ToldKeeps DEF ps

\* The same of a value that one relies on as it is, in a buffer of its size or larger.
LEMMA ValueTold ==
  ASSUME TInv, NEW s \in SpanSet, NEW b \in Seq(Int), Len(b) <= s.len, NEW ret,
         Told(mem, ret, Maybe(s.at, b), CellsOf(s), Claims(s.at, b))
  PROVE  TStep
<1>1. s.at \in Nat
  BY DEF SpanSet
<1>2. Covers(Piece(s.at, b)) \subseteq CellsOf(s)
  BY InSpan
<1>3. \A claim \in Claims(s.at, b) : Backed({Piece(s.at, b)}, claim)
  BY <1>1, BackedBy
<1>4. \A claim \in Claims(s.at, b) : b # <<>>
  BY DEF Claims
<1> DEFINE claims == Claims(s.at, b)
           granted == CellsOf(s)
<1> HIDE DEF claims, granted
<1>5. Told(mem, ret, Maybe(s.at, b), granted, claims) /\ Covers(Piece(s.at, b)) \subseteq granted
  BY <1>2 DEF claims, granted
<1>6. ret >= 0 => \A claim \in claims : b # <<>> /\ Backed({Piece(s.at, b)}, claim)
  BY <1>3, <1>4 DEF claims
<1> QED BY <1>1, <1>5, <1>6, OneTold

LEMMA MaybeSome ==
  ASSUME NEW at, NEW b \in Seq(Int)
  PROVE  /\ Len(b) > 0 => Maybe(at, b) = <<Piece(at, b)>>
         /\ Len(b) = 0 => Maybe(at, b) = <<>>
         /\ Len(b) \in Nat
<1>1. Len(b) \in Nat /\ (Len(b) = 0 <=> b = <<>>)
  OBVIOUS
<1> QED BY <1>1 DEF Maybe

LEMMA CellTold ==
  ASSUME TInv, NEW at \in Nat, NEW x \in Int, NEW ret, Told(mem, ret, <<Piece(at, <<x>>)>>, {at}, {<<at, x>>})
  PROVE  TStep
<1> DEFINE b == <<x>>
           s == OneCell(at)
<1>1. b \in Seq(Int) /\ Len(b) = 1 /\ b[1] = x
  BY FewIs
<1>2. s \in SpanSet /\ s.at = at /\ s.len = 1 /\ CellsOf(s) = {at}
  BY OneCellIs
<1>3. {<<at, x>>} = Claims(at, b)
  <2>1. at + 1 - 1 = at /\ DOMAIN b = {1}
    OBVIOUS
  <2> QED BY <1>1, <2>1 DEF Claims
<1> HIDE DEF b, s
<1>4. Maybe(at, b) = <<Piece(at, b)>>
  BY <1>1, MaybeSome
<1>5. Told(mem, ret, Maybe(s.at, b), CellsOf(s), Claims(s.at, b))
  BY <1>2, <1>3, <1>4 DEF b
<1>6. Len(b) <= s.len
  BY <1>1, <1>2
<1> QED BY <1>1, <1>2, <1>5, <1>6, ValueTold

LEMMA NumberKeeps ==
  ASSUME TInv, NEW at \in Pointers, NEW size \in Int, Ioctl(at) \/ Fstat(at, size)
  PROVE  TStep
<1>1. at \in Nat /\ Len(stream) \in Int
  BY SpanFacts, LenProperties DEF TInv, StreamIsRest
<1>2. CASE at = 0
  BY <1>2, UnchangedKeeps DEF Ioctl, Fstat
<1>3. CASE at # 0 /\ Ioctl(at)
  <2>1. Told(mem, 0, <<Piece(at, <<Len(stream)>>)>>, {at}, {<<at, Len(stream)>>})
    BY <1>3 DEF Ioctl
  <2> QED BY <1>1, <2>1, CellTold
<1>4. CASE at # 0 /\ Fstat(at, size)
  <2>1. Told(mem, 0, <<Piece(at, <<size>>)>>, {at}, {<<at, size>>})
    BY <1>4 DEF Fstat
  <2> QED BY <1>1, <2>1, CellTold
<1> QED BY <1>2, <1>3, <1>4

LEMMA PreadKeeps ==
  ASSUME TInv, NEW s \in Spans, NEW offset \in 0..1, Pread(s, offset)
  PROVE  TStep
<1> DEFINE data(k) == SubSeq(Host(Room), offset + 1, offset + k)
<1>1. PICK k \in 0..Least(s.len, Room - offset) :
        Told(mem, k, IF k > 0 THEN <<Piece(s.at, data(k))>> ELSE <<>>, CellsOf(s), Claims(s.at, data(k)))
  BY DEF Pread
<1>2. s \in SpanSet /\ s.len \in Nat /\ Room \in Nat
  BY SpanFacts, TransferNumbers
<1>3. k \in Nat /\ k <= s.len /\ offset + k <= Room /\ offset \in Nat
  BY <1>2 DEF Least
<1> DEFINE b == data(k)
<1>4. b \in Seq(Int) /\ Len(b) = k
  <2>1. Host(Room) \in Seq(Int) /\ Len(Host(Room)) = Room
    BY <1>2, HostIs
  <2>2. \A i \in (offset + 1)..(offset + k) : i \in 1..Room
    BY <1>2, <1>3
  <2>3. \A i \in (offset + 1)..(offset + k) : Host(Room)[i] \in Int
    BY <2>1, <2>2, ElementOfSeq
  <2>4. offset + 1 \in Int /\ offset + k \in Int
    BY <1>3
  <2>5. b \in Seq(Int) /\ Len(b) = IF offset + 1 <= offset + k THEN (offset + k) - (offset + 1) + 1 ELSE 0
    BY <2>3, <2>4, SubSeqProperties
  <2> HIDE DEF b
  <2> QED BY <1>3, <2>5
<1> HIDE DEF b
<1>5. Maybe(s.at, b) = IF k > 0 THEN <<Piece(s.at, b)>> ELSE <<>>
  BY <1>3, <1>4, MaybeSome
<1>6. Told(mem, k, Maybe(s.at, b), CellsOf(s), Claims(s.at, b))
  BY <1>1, <1>5 DEF b
<1> QED BY <1>2, <1>3, <1>4, <1>6, ValueTold

LEMMA GetxattrKeeps ==
  ASSUME TInv, NEW s \in Spans, Getxattr(s)
  PROVE  TStep
<1>1. CASE s.len > 0 /\ s.at = 0
  BY <1>1, UnchangedKeeps DEF Getxattr
<1>2. CASE ~(s.len > 0 /\ s.at = 0)
  <2>1. PICK n \in Lengths :
          IF s.len = 0 THEN Unchanged(n)
          ELSE IF s.len < n THEN Refused
          ELSE Told(mem, n, IF n = 0 THEN <<>> ELSE <<Piece(s.at, Host(n))>>, CellsOf(s), Claims(s.at, Host(n)))
    BY <1>2 DEF Getxattr
  <2>2. CASE s.len = 0 \/ s.len < n
    BY <2>1, <2>2, UnchangedKeeps
  <2>3. CASE ~(s.len = 0 \/ s.len < n)
    <3> DEFINE b == Host(n)
    <3>1. s \in SpanSet /\ s.len \in Nat /\ n \in Nat /\ b \in Seq(Int) /\ Len(b) = n
      BY SpanFacts, HostIs
    <3> HIDE DEF b
    <3>2. Maybe(s.at, b) = IF n = 0 THEN <<>> ELSE <<Piece(s.at, b)>>
      BY <3>1, MaybeSome
    <3>3. Told(mem, n, Maybe(s.at, b), CellsOf(s), Claims(s.at, b)) /\ Len(b) <= s.len
      BY <2>1, <2>3, <3>1, <3>2 DEF b
    <3> QED BY <3>1, <3>3, ValueTold
  <2> QED BY <2>2, <2>3
<1> QED BY <1>1, <1>2

LEMMA ReadlinkKeeps ==
  ASSUME TInv, NEW s \in Spans, Readlink(s)
  PROVE  TStep
<1>1. PICK n \in Lengths \ {0} :
        Told(mem, Len(Host(Least(n, s.len))), Maybe(s.at, Host(Least(n, s.len))),
             CellsOf(s), Claims(s.at, Host(Least(n, s.len))))
  BY DEF Readlink, Maybe
<1>2. s \in SpanSet /\ s.len \in Nat /\ n \in Nat
  BY SpanFacts
<1>3. LeastIs(n, s.len)
  BY <1>2, LeastBounds
<1> DEFINE b == Host(Least(n, s.len))
<1>4. b \in Seq(Int) /\ Len(b) <= s.len
  BY <1>3, HostIs DEF LeastIs
<1>5. Told(mem, Len(b), Maybe(s.at, b), CellsOf(s), Claims(s.at, b))
  BY <1>1
<1> HIDE DEF b
<1> QED BY <1>2, <1>4, <1>5, ValueTold

LEMMA GetcwdKeeps ==
  ASSUME TInv, NEW s \in Spans, Getcwd(s)
  PROVE  TStep
<1>1. PICK n \in Lengths \ {0} :
        IF (s.at # 0 /\ s.len = 0) \/ (s.len > 0 /\ n + 1 > s.len) THEN Refused
        ELSE IF s.at = 0 THEN Unchanged(1)
        ELSE Told(mem, s.at, <<Piece(s.at, Terminated(n))>>, CellsOf(s), Claims(s.at, Terminated(n)))
  BY DEF Getcwd
<1>2. s \in SpanSet /\ s.len \in Nat /\ n \in Nat
  BY SpanFacts
<1> DEFINE b == Terminated(n)
<1>3. b \in Seq(Int) /\ Len(b) = n + 1
  BY <1>2, TerminatedIs
<1> HIDE DEF b
<1>4. CASE (s.at # 0 /\ s.len = 0) \/ (s.len > 0 /\ n + 1 > s.len) \/ s.at = 0
  BY <1>1, <1>4, UnchangedKeeps
<1>5. CASE ~((s.at # 0 /\ s.len = 0) \/ (s.len > 0 /\ n + 1 > s.len) \/ s.at = 0)
  <2>1. Len(b) <= s.len /\ Len(b) > 0
    BY <1>2, <1>3, <1>5
  <2>2. Maybe(s.at, b) = <<Piece(s.at, b)>>
    BY <1>3, <2>1, MaybeSome
  <2>3. Told(mem, s.at, Maybe(s.at, b), CellsOf(s), Claims(s.at, b))
    BY <1>1, <1>5, <2>2 DEF b
  <2> QED BY <1>2, <1>3, <2>1, <2>3, ValueTold
<1> QED BY <1>4, <1>5

LEMMA RealpathKeeps ==
  ASSUME TInv, NEW at \in Pointers, Realpath(at)
  PROVE  TStep
<1>1. PICK n \in Lengths \ {0, Room} :
        IF at = 0 THEN Unchanged(1)
        ELSE Told(mem, at, <<Piece(at, Terminated(n))>>, at..(at + Room - 1), Claims(at, Terminated(n)))
  BY DEF Realpath
<1>2. at \in Nat /\ n \in Nat /\ n <= Room /\ n # Room /\ Room \in Nat
  BY SpanFacts, TransferNumbers
<1> DEFINE b == Terminated(n)
           s == [at |-> at, len |-> Room]
<1>3. b \in Seq(Int) /\ Len(b) = n + 1
  BY <1>2, TerminatedIs
<1>4. s \in SpanSet /\ s.at = at /\ s.len = Room /\ CellsOf(s) = at..(at + Room - 1)
  BY <1>2 DEF SpanSet, CellsOf
<1> HIDE DEF b, s
<1>5. CASE at = 0
  BY <1>1, <1>5, UnchangedKeeps
<1>6. CASE at # 0
  <2>1. Len(b) <= s.len /\ Len(b) > 0
    BY <1>2, <1>3, <1>4
  <2>2. Maybe(at, b) = <<Piece(at, b)>>
    BY <1>3, <2>1, MaybeSome
  <2>3. Told(mem, at, Maybe(s.at, b), CellsOf(s), Claims(s.at, b))
    BY <1>1, <1>4, <1>6, <2>2 DEF b
  <2> QED BY <1>3, <1>4, <2>1, <2>3, ValueTold
<1> QED BY <1>5, <1>6

LEMMA InetNtopKeeps ==
  ASSUME TInv, NEW s \in Spans, NEW from, InetNtop(s, from)
  PROVE  TStep
<1>1. CASE ~Mapped(from.at, from.len) \/ s.len <= Room
  BY <1>1, UnchangedKeeps DEF InetNtop
<1>2. CASE ~(~Mapped(from.at, from.len) \/ s.len <= Room)
  <2> DEFINE b == Padded(Room, s.len)
             t == Terminated(Room)
             p == Piece(s.at, b)
             granted == CellsOf(s)
             claims == Claims(s.at, t)
  <2>1. Told(mem, s.at, <<p>>, granted, claims)
    BY <1>2 DEF InetNtop
  <2>2. s \in SpanSet /\ s.at \in Nat /\ s.len \in Nat /\ Room \in Nat /\ Room + 1 <= s.len
    BY <1>2, SpanFacts, TransferNumbers
  <2>3. b \in Seq(Int) /\ Len(b) = s.len /\ \A i \in 1..s.len : b[i] = IF i <= Room THEN 50 + i ELSE 0
    <3>1. Room \in Int
      BY <2>2
    <3> QED BY <2>2, <3>1, PaddedIs
  <2>4. t \in Seq(Int) /\ Len(t) = Room + 1 /\ t[Room + 1] = 0 /\ \A i \in 1..Room : t[i] = 50 + i
    BY <2>2, TerminatedIs
  <2> HIDE DEF b, t
  <2>5. p.at = s.at /\ p.bytes = b
    BY <2>2, <2>3, PieceIs
  <2>6. Covers(p) \subseteq granted
    BY <2>2, <2>3, InSpan
  <2> HIDE DEF p
  <2>7. ASSUME NEW claim \in claims PROVE Backed({p}, claim)
    <3>1. PICK i \in 1..Room + 1 : claim = <<s.at + i - 1, t[i]>>
      <4>1. DOMAIN t = 1..Room + 1
        BY <2>4, LenProperties
      <4> QED BY <2>7, <4>1 DEF Claims
    <3>2. i \in 1..s.len /\ (i <= Room => i \in 1..Room) /\ (~(i <= Room) => i = Room + 1)
      BY <2>2
    <3>3. t[i] = b[i]
      BY <2>3, <2>4, <3>2
    <3>4. i \in 1..Len(p.bytes) /\ claim[1] = p.at + i - 1 /\ claim[2] = p.bytes[i]
      BY <2>3, <2>5, <3>1, <3>2, <3>3
    <3> QED BY <3>4 DEF Backed
  <2>8. Len(b) > 0
    BY <2>2, <2>3
  <2>9. Maybe(s.at, b) = <<p>> /\ b # <<>>
    BY <2>3, <2>8, MaybeSome DEF p
  <2> HIDE DEF granted, claims
  <2>10. Told(mem, s.at, Maybe(s.at, b), granted, claims)
    BY <2>1, <2>9
  <2>11. Covers(Piece(s.at, b)) \subseteq granted /\ \A claim \in claims : b # <<>> /\ Backed({Piece(s.at, b)}, claim)
    BY <2>6, <2>7, <2>9 DEF p
  <2> QED BY <2>2, <2>3, <2>10, <2>11, OneTold
<1> QED BY <1>1, <1>2

\* A call that writes a value and its length, each where the guest wants it.
LEMMA TwoTold ==
  ASSUME TInv, NEW buffer \in SpanSet, NEW b \in Seq(Int), Len(b) <= buffer.len, NEW lp \in Nat, NEW x \in Int,
         Disjoint(<<buffer, OneCell(lp)>>), NEW n \in Int, NEW ret, NEW pieces \in Seq(PieceSet), NEW claims,
         ToSet(pieces) \subseteq {Piece(buffer.at, b), Piece(lp, <<x>>)},
         b = <<>> \/ Piece(buffer.at, b) \in ToSet(pieces),
         \A claim \in claims : claim \in Claims(buffer.at, b)
                               \/ (claim = <<lp, x>> /\ Piece(lp, <<x>>) \in ToSet(pieces)),
         Told(Prepared(lp, n), ret, pieces, CellsOf(buffer) \cup {lp}, claims)
  PROVE  TStep
<1> DEFINE ps == ToSet(pieces)
           p == Piece(buffer.at, b)
           q == Piece(lp, <<x>>)
           granted == CellsOf(buffer) \cup {lp}
<1>1. buffer.at \in Nat /\ <<x>> \in Seq(Int) /\ mem \in Mems
  BY FewIs DEF SpanSet, TInv
<1>2. OneCell(lp) \in SpanSet /\ CellsOf(OneCell(lp)) = {lp} /\ Covers(q) = {lp} /\ Covers(p) \subseteq CellsOf(buffer)
  BY OneCellIs, InSpan
<1>3. \A claim \in Claims(buffer.at, b) : Backed(ps, claim)
  BY <1>1, BackedBy
<1>4. q \in ps => \A claim \in Claims(lp, <<x>>) : Backed(ps, claim)
  BY <1>1, BackedBy
<1>5. <<lp, x>> \in Claims(lp, <<x>>)
  <2>1. 1 \in DOMAIN <<x>> /\ <<x>>[1] = x /\ lp + 1 - 1 = lp
    OBVIOUS
  <2> QED BY <2>1 DEF Claims
<1>6. ps \subseteq {p, q}
  OBVIOUS
<1> HIDE DEF p, q, ps
<1>7. AllApart(ps)
  BY <1>2, <1>6, TwoOwn
<1>8. \A r \in ps : Covers(r) \subseteq granted
  BY <1>2, <1>6
<1>9. lp \in granted
  OBVIOUS
<1> HIDE DEF granted
<1>10. Prepared(lp, n) \in Mems /\ InGiven(Prepared(lp, n), ps, granted)
  BY <1>1, <1>8, <1>9, PreparedIs
<1>11. ret >= 0 => \A claim \in claims : Backed(ps, claim)
  BY <1>3, <1>4, <1>5 DEF ps, q
<1>12. Told(Prepared(lp, n), ret, pieces, granted, claims)
  BY DEF granted
<1> QED BY <1>7, <1>10, <1>11, <1>12, ToldKeeps DEF ps

LEMMA GetsockoptKeeps ==
  ASSUME TInv, NEW s \in Spans, NEW lp \in Pointers, Getsockopt(s, lp)
  PROVE  TStep
<1>1. CASE ~Mapped(lp, 1) \/ (s.at = 0 /\ s.len > 0)
  BY <1>1, UnchangedKeeps DEF Getsockopt
<1>2. CASE ~(~Mapped(lp, 1) \/ (s.at = 0 /\ s.len > 0))
  <2> DEFINE value(n) == Host(Least(n, s.len))
             out(n) == Maybe(s.at, value(n)) \o <<Piece(lp, <<n>>)>>
  <2>1. PICK n \in Lengths :
          /\ Disjoint(<<s, OneCell(lp)>>)
          /\ Told(Prepared(lp, s.len), 0, out(n), CellsOf(s) \cup {lp}, Claims(s.at, value(n)) \cup {<<lp, n>>})
    BY <1>2 DEF Getsockopt, Maybe, OneCell
  <2>2. s \in SpanSet /\ s.at \in Nat /\ s.len \in Nat /\ lp \in Nat /\ n \in Nat /\ n \in Int /\ s.len \in Int
    BY SpanFacts
  <2> DEFINE b == value(n)
             pieces == out(n)
             claims == Claims(s.at, b) \cup {<<lp, n>>}
             H == Piece(lp, <<n>>)
             p == Piece(s.at, b)
  <2>3. b \in Seq(Int) /\ Len(b) <= s.len
    <3>1. LeastIs(n, s.len)
      BY <2>2, LeastBounds
    <3> QED BY <3>1, HostIs DEF LeastIs
  <2> HIDE DEF b
  <2>4. H \in PieceSet
    <3>1. <<n>> \in Seq(Int)
      BY <2>2, FewIs
    <3> QED BY <2>2, <3>1, PieceIs
  <2>5. Maybe(s.at, b) \in Seq(PieceSet) /\ ToSet(Maybe(s.at, b)) \subseteq {p} /\ (b = <<>> \/ p \in ToSet(Maybe(s.at, b)))
    BY <2>2, <2>3, MaybeIs
  <2>6. pieces \in Seq(PieceSet) /\ ToSet(pieces) = ToSet(Maybe(s.at, b)) \cup {H}
    <3> DEFINE u == Maybe(s.at, b)
               w == <<H>>
    <3>1. w \in Seq(PieceSet) /\ ToSet(w) = {H}
      BY <2>4, Listed
    <3>2. pieces = u \o w
      BY DEF b
    <3> HIDE DEF u, w, pieces
    <3>3. u \in Seq(PieceSet)
      BY <2>5 DEF u
    <3>4. u \o w \in Seq(PieceSet) /\ ToSet(u \o w) = ToSet(u) \cup ToSet(w)
      BY <3>1, <3>3, Listed
    <3> QED BY <3>1, <3>2, <3>4 DEF u
  <2>7. Told(Prepared(lp, s.len), 0, pieces, CellsOf(s) \cup {lp}, claims)
    BY <2>1 DEF b
  <2>8. \A claim \in claims : claim \in Claims(s.at, b) \/ (claim = <<lp, n>> /\ H \in ToSet(pieces))
    BY <2>6
  <2>9. ToSet(pieces) \subseteq {p, H} /\ (b = <<>> \/ p \in ToSet(pieces))
    BY <2>5, <2>6
  <2> HIDE DEF pieces, claims
  <2>10. /\ ToSet(pieces) \subseteq {Piece(s.at, b), Piece(lp, <<n>>)}
         /\ (b = <<>> \/ Piece(s.at, b) \in ToSet(pieces))
         /\ \A claim \in claims : claim \in Claims(s.at, b) \/ (claim = <<lp, n>> /\ Piece(lp, <<n>>) \in ToSet(pieces))
    BY <2>8, <2>9
  <2>11. Disjoint(<<s, OneCell(lp)>>)
    BY <2>1
  <2> DEFINE ret == 0
             granted == CellsOf(s) \cup {lp}
             start == s.len
             x == n
  <2>12. Told(Prepared(lp, start), ret, pieces, CellsOf(s) \cup {lp}, claims) /\ start \in Int /\ x \in Int
    BY <2>2, <2>7
  <2>13. /\ ToSet(pieces) \subseteq {Piece(s.at, b), Piece(lp, <<x>>)}
         /\ \A claim \in claims : claim \in Claims(s.at, b) \/ (claim = <<lp, x>> /\ Piece(lp, <<x>>) \in ToSet(pieces))
    BY <2>10
  <2> HIDE DEF p, H, ret, start, x
  <2> QED BY <2>2, <2>3, <2>6, <2>10, <2>11, <2>12, <2>13, TwoTold
<1> QED BY <1>1, <1>2

\* The length first, then the value.
LEMMA SysctlKeeps ==
  ASSUME TInv, NEW s \in Spans, NEW lp \in Pointers, NEW identity \in BOOLEAN, Sysctl(s, lp, identity)
  PROVE  TStep
<1>1. CASE s.at # 0 /\ ~Mapped(lp, 1)
  BY <1>1, UnchangedKeeps DEF Sysctl
<1>2. CASE ~(s.at # 0 /\ ~Mapped(lp, 1))
  <2> DEFINE short(n) == s.at # 0 /\ ~identity /\ n > s.len
             value(n) == IF s.at = 0 THEN <<>> ELSE Host(IF short(n) THEN s.len ELSE n)
             length(n) == IF short(n) THEN s.len ELSE n
             room(n) == IF identity THEN Resized(s, n) ELSE s
             head(n) == IF lp = 0 THEN <<>> ELSE <<Piece(lp, <<length(n)>>)>>
             ret(n) == IF short(n) THEN -1 ELSE 0
             said(n) == Claims(s.at, value(n)) \cup (IF lp = 0 THEN {} ELSE {<<lp, length(n)>>})
  <2>1. PICK n \in Lengths :
          /\ Disjoint(<<room(n), OneCell(lp)>>)
          /\ Told(Prepared(lp, s.len), ret(n), head(n) \o Maybe(s.at, value(n)), CellsOf(room(n)) \cup {lp}, said(n))
    BY <1>2 DEF Sysctl, Maybe, OneCell, Resized
  <2>2. s \in SpanSet /\ s.at \in Nat /\ s.len \in Nat /\ lp \in Nat /\ n \in Nat /\ s.len \in Int
    BY SpanFacts
  <2> DEFINE buffer == room(n)
             b == value(n)
             x == length(n)
             p == Piece(s.at, b)
             H == Piece(lp, <<x>>)
             pieces == head(n) \o Maybe(s.at, value(n))
             claims == said(n)
  <2>3. x \in Nat /\ x \in Int
    BY <2>2
  <2>4. buffer \in SpanSet /\ buffer.at = s.at /\ buffer.len \in Nat /\ buffer.len = IF identity THEN n ELSE s.len
    BY <2>2, ResizedIs
  <2>5. b \in Seq(Int) /\ Len(b) <= buffer.len
    <3>1. CASE s.at = 0
      BY <2>4, <3>1, FewIs
    <3>2. CASE s.at # 0
      <4>1. b = Host(x)
        BY <3>2
      <4>2. x <= (IF identity THEN n ELSE s.len)
        BY <2>2, <3>2
      <4> HIDE DEF x, buffer, b
      <4> QED BY <2>3, <2>4, <4>1, <4>2, HostIs
    <3> QED BY <3>1, <3>2
  <2>6. pieces = (IF lp = 0 THEN <<>> ELSE <<H>>) \o Maybe(s.at, b)
    OBVIOUS
  <2>7. claims = Claims(s.at, b) \cup (IF lp = 0 THEN {} ELSE {<<lp, x>>})
    OBVIOUS
  <2>8. Told(Prepared(lp, s.len), ret(n), pieces, CellsOf(buffer) \cup {lp}, claims) /\ Disjoint(<<buffer, OneCell(lp)>>)
    BY <2>1
  <2> HIDE DEF buffer, b, x, pieces, claims, ret
  <2>9. H \in PieceSet
    <3>1. <<x>> \in Seq(Int)
      BY <2>3, FewIs
    <3> QED BY <2>2, <3>1, PieceIs
  <2>10. Maybe(s.at, b) \in Seq(PieceSet) /\ ToSet(Maybe(s.at, b)) \subseteq {p} /\ (b = <<>> \/ p \in ToSet(Maybe(s.at, b)))
    BY <2>2, <2>5, MaybeIs
  <2> HIDE DEF p, H
  <2>11. pieces \in Seq(PieceSet) /\ ToSet(pieces) = (IF lp = 0 THEN {} ELSE {H}) \cup ToSet(Maybe(s.at, b))
    <3> DEFINE u == IF lp = 0 THEN <<>> ELSE <<H>>
               w == Maybe(s.at, b)
    <3>1. u \in Seq(PieceSet) /\ ToSet(u) = IF lp = 0 THEN {} ELSE {H}
      BY <2>9, Listed
    <3>2. pieces = u \o w
      BY <2>6
    <3> HIDE DEF u, w
    <3>3. w \in Seq(PieceSet)
      BY <2>10 DEF w
    <3>4. u \o w \in Seq(PieceSet) /\ ToSet(u \o w) = ToSet(u) \cup ToSet(w)
      BY <3>1, <3>3, Listed
    <3> QED BY <3>1, <3>2, <3>4 DEF w
  <2>12. \A claim \in claims : claim \in Claims(s.at, b) \/ (claim = <<lp, x>> /\ H \in ToSet(pieces))
    <3>1. lp # 0 => H \in ToSet(pieces)
      BY <2>11
    <3>2. \A claim \in claims : claim \in Claims(s.at, b) \/ (claim = <<lp, x>> /\ lp # 0)
      BY <2>7
    <3> QED BY <3>1, <3>2
  <2>13. ToSet(pieces) \subseteq {p, H} /\ (b = <<>> \/ p \in ToSet(pieces))
    BY <2>10, <2>11
  <2>14. /\ ToSet(pieces) \subseteq {Piece(buffer.at, b), Piece(lp, <<x>>)}
         /\ (b = <<>> \/ Piece(buffer.at, b) \in ToSet(pieces))
         /\ \A claim \in claims : claim \in Claims(buffer.at, b) \/ (claim = <<lp, x>> /\ Piece(lp, <<x>>) \in ToSet(pieces))
    BY <2>4, <2>12, <2>13 DEF p, H
  <2> QED BY <2>2, <2>3, <2>4, <2>5, <2>8, <2>11, <2>14, TwoTold
<1> QED BY <1>1, <1>2

LEMMA AddressToldKeeps ==
  ASSUME TInv, NEW name \in Spans, NEW lp \in Pointers, AddressTold(name, lp)
  PROVE  TStep
<1> DEFINE asked == Asked(lp, name.len)
           buffer == Resized(name, asked)
           granted == CellsOf(buffer) \cup {lp}
<1>1. PICK n \in Lengths :
        /\ Disjoint(<<buffer, OneCell(lp)>>)
        /\ ToldBlindly(Prepared(lp, name.len), 0, AddressOut(name, lp, asked, n), granted)
  BY DEF AddressTold, OneCell, Resized
<1>2. name \in SpanSet /\ name.at \in Nat /\ name.len \in Nat /\ name.len \in Int /\ lp \in Nat /\ n \in Nat /\ n \in Int
      /\ mem \in Mems
  BY SpanFacts DEF TInv
<1>3. asked \in Nat
  BY <1>2, AskedIs
<1> HIDE DEF asked
<1>4. buffer \in SpanSet /\ buffer.at = name.at /\ buffer.len = asked
  BY <1>2, <1>3, ResizedIs
<1> DEFINE b == Host(Least(n, asked))
           p == Piece(name.at, b)
           H == Piece(lp, <<n>>)
           pieces == AddressOut(name, lp, asked, n)
           ps == ToSet(pieces)
<1>5. b \in Seq(Int) /\ Len(b) <= asked
  <2>1. LeastIs(n, asked)
    BY <1>2, <1>3, LeastBounds
  <2> QED BY <2>1, HostIs DEF LeastIs
<1>6. pieces = IF name.at = 0 \/ asked = 0 THEN <<H>> ELSE <<p, H>>
  BY DEF AddressOut
<1> HIDE DEF b, buffer
<1>7. p \in PieceSet /\ H \in PieceSet
  <2>1. <<n>> \in Seq(Int)
    BY <1>2, FewIs
  <2> QED BY <1>2, <1>5, <2>1, PieceIs
<1>8. Covers(p) \subseteq CellsOf(buffer)
  <2>1. Len(b) <= buffer.len
    BY <1>4, <1>5
  <2>2. Covers(Piece(buffer.at, b)) \subseteq CellsOf(buffer)
    BY <1>4, <1>5, <2>1, InSpan
  <2> QED BY <1>4, <2>2
<1>9. OneCell(lp) \in SpanSet /\ CellsOf(OneCell(lp)) = {lp} /\ Covers(H) = {lp}
  BY <1>2, OneCellIs
<1> HIDE DEF p, H, pieces
<1>10. pieces \in Seq(PieceSet) /\ ps \subseteq {p, H}
  BY <1>6, <1>7, Listed, ListedTwo
<1> HIDE DEF ps
<1>11. AllApart(ps)
  BY <1>1, <1>4, <1>8, <1>9, <1>10, TwoOwn
<1>12. (\A q \in ps : Covers(q) \subseteq granted) /\ lp \in granted
  BY <1>8, <1>9, <1>10
<1>13. ToldBlindly(Prepared(lp, name.len), 0, pieces, granted)
  BY <1>1 DEF pieces
<1> HIDE DEF granted
<1>14. Prepared(lp, name.len) \in Mems /\ InGiven(Prepared(lp, name.len), ps, granted)
  BY <1>2, <1>12, PreparedIs
<1> QED BY <1>10, <1>11, <1>13, <1>14, ToldBlindlyKeeps DEF ps

LEMMA NamesKeep ==
  ASSUME TInv, NEW s \in Spans, NEW lp \in Pointers, SocketName(s, lp) \/ Accept(s, lp)
  PROVE  TStep
<1>1. CASE s.at = 0 \/ lp = 0
  BY <1>1, UnchangedKeeps DEF SocketName, Accept
<1>2. CASE ~(s.at = 0 \/ lp = 0)
  BY <1>2, AddressToldKeeps DEF SocketName, Accept
<1> QED BY <1>1, <1>2

LEMMA SocketpairKeeps ==
  ASSUME TInv, NEW at \in Pointers, Socketpair(at)
  PROVE  TStep
<1>1. CASE at = 0
  BY <1>1, UnchangedKeeps DEF Socketpair
<1>2. CASE at # 0
  <2> DEFINE p == Piece(at, <<3>>)
             q == Piece(at + 1, <<4>>)
             pieces == <<p, q>>
             ps == ToSet(pieces)
             granted == {at, at + 1}
  <2>1. ToldBlindly(mem, 0, pieces, granted)
    BY <1>2 DEF Socketpair
  <2>2. at \in Nat /\ at + 1 \in Nat /\ at # at + 1 /\ mem \in Mems /\ <<3>> \in Seq(Int) /\ <<4>> \in Seq(Int)
    BY SpanFacts DEF TInv
  <2>3. p \in PieceSet /\ q \in PieceSet /\ Covers(p) = {at} /\ Covers(q) = {at + 1}
    <3>1. p \in PieceSet /\ q \in PieceSet
      BY <2>2, PieceIs
    <3>2. Covers(p) = {at}
      BY <2>2, OneCellIs
    <3>3. Covers(q) = {at + 1}
      BY <2>2, OneCellIs
    <3> QED BY <3>1, <3>2, <3>3
  <2> HIDE DEF p, q
  <2>4. pieces \in Seq(PieceSet) /\ ps = {p, q}
    BY <2>3, ListedTwo
  <2> HIDE DEF pieces, ps
  <2>5. AllApart(ps) /\ \A r \in ps : Covers(r) \subseteq granted
    BY <2>2, <2>3, <2>4 DEF AllApart
  <2>6. InGiven(mem, ps, granted)
    BY <2>2, <2>5, AsIs
  <2> HIDE DEF granted
  <2> QED BY <2>1, <2>2, <2>4, <2>5, <2>6, ToldBlindlyKeeps DEF ps
<1> QED BY <1>1, <1>2

LEMMA GetnameinfoKeeps ==
  ASSUME TInv, NEW name, NEW host \in Spans, NEW service \in Spans, Getnameinfo(name, host, service)
  PROVE  TStep
<1>1. CASE ~Address(name)
  BY <1>1, UnchangedKeeps DEF Getnameinfo
<1>2. CASE Address(name)
  <2> DEFINE a == Padded(host.len - 1, host.len)
             b == Padded(service.len - 1, service.len)
             p == Piece(host.at, a)
             q == Piece(service.at, b)
             pieces == <<p, q>>
             ps == ToSet(pieces)
             L == <<host, service>>
             granted == OfIovecs(L)
  <2>1. Disjoint(L) /\ ToldBlindly(mem, 0, pieces, granted)
    BY <1>2 DEF Getnameinfo
  <2>2. /\ host \in SpanSet /\ service \in SpanSet /\ host.at \in Nat /\ service.at \in Nat
        /\ host.len \in Nat /\ service.len \in Nat /\ mem \in Mems
    BY SpanFacts DEF TInv
  <2>3. a \in Seq(Int) /\ Len(a) = host.len /\ b \in Seq(Int) /\ Len(b) = service.len
    <3>1. host.len - 1 \in Int /\ service.len - 1 \in Int
      BY <2>2
    <3> QED BY <2>2, <3>1, PaddedIs
  <2> HIDE DEF a, b
  <2>4. p \in PieceSet /\ q \in PieceSet /\ Covers(p) \subseteq CellsOf(host) /\ Covers(q) \subseteq CellsOf(service)
    <3>1. p \in PieceSet /\ q \in PieceSet
      BY <2>2, <2>3, PieceIs
    <3>2. Len(a) <= host.len /\ Len(b) <= service.len
      BY <2>2, <2>3
    <3>3. Covers(p) \subseteq CellsOf(host)
      BY <2>2, <2>3, <3>2, InSpan
    <3>4. Covers(q) \subseteq CellsOf(service)
      BY <2>2, <2>3, <3>2, InSpan
    <3> QED BY <3>1, <3>3, <3>4
  <2> HIDE DEF p, q
  <2>5. pieces \in Seq(PieceSet) /\ ps = {p, q}
    BY <2>4, ListedTwo
  <2>6. CellsOf(host) \subseteq granted /\ CellsOf(service) \subseteq granted
    <3>1. L \in Seq(SpanSet) /\ Len(L) = 2 /\ 1 \in 1..2 /\ 2 \in 1..2 /\ L[1] = host /\ L[2] = service
      BY <2>2
    <3> HIDE DEF L
    <3>2. \A c : c \in OfIovecs(L) <=> \E i \in 1..Len(L) : c \in CellsOf(L[i])
      BY <3>1, OfIovecsAre
    <3> QED BY <3>1, <3>2
  <2> HIDE DEF ps, pieces, granted
  <2>7. AllApart(ps)
    BY <2>1, <2>2, <2>4, <2>5, TwoOwn
  <2>8. \A r \in ps : Covers(r) \subseteq granted
    BY <2>4, <2>5, <2>6
  <2>9. InGiven(mem, ps, granted)
    BY <2>2, <2>8, AsIs
  <2>10. ToldBlindly(mem, 0, pieces, granted)
    BY <2>1
  <2> QED BY <2>2, <2>5, <2>7, <2>9, <2>10, ToldBlindlyKeeps DEF ps
<1> QED BY <1>1, <1>2

LEMMA PollKeeps ==
  ASSUME TInv, NEW s \in Spans, Poll(s)
  PROVE  TStep
<1>1. CASE ~Mapped(s.at, s.len)
  BY <1>1, UnchangedKeeps DEF Poll
<1>2. CASE Mapped(s.at, s.len)
  <2>1. PICK ready \in 0..s.len :
          ToldBlindly(mem, ready, IF s.len = 0 THEN <<>> ELSE <<Piece(s.at, Padded(ready, s.len))>>, CellsOf(s))
    BY <1>2 DEF Poll
  <2>2. s \in SpanSet /\ s.at \in Nat /\ s.len \in Nat /\ mem \in Mems /\ ready \in Int
    BY SpanFacts DEF TInv
  <2> DEFINE b == Padded(ready, s.len)
             pieces == Maybe(s.at, b)
             ps == ToSet(pieces)
             granted == CellsOf(s)
  <2>3. b \in Seq(Int) /\ Len(b) = s.len
    BY <2>2, PaddedIs
  <2> HIDE DEF b
  <2>4. pieces = IF s.len = 0 THEN <<>> ELSE <<Piece(s.at, b)>>
    BY <2>2, <2>3, MaybeSome
  <2>5. pieces \in Seq(PieceSet) /\ ps \subseteq {Piece(s.at, b)}
    BY <2>2, <2>3, MaybeIs
  <2>6. Covers(Piece(s.at, b)) \subseteq granted
    <3>1. Len(b) <= s.len
      BY <2>2, <2>3
    <3> QED BY <2>2, <2>3, <3>1, InSpan
  <2>7. ToldBlindly(mem, ready, pieces, granted)
    BY <2>1, <2>4 DEF b
  <2> HIDE DEF pieces, ps, granted
  <2>8. AllApart(ps) /\ \A r \in ps : Covers(r) \subseteq granted
    BY <2>5, <2>6 DEF AllApart
  <2>9. InGiven(mem, ps, granted)
    BY <2>2, <2>8, AsIs
  <2> QED BY <2>2, <2>5, <2>7, <2>8, <2>9, ToldBlindlyKeeps DEF ps
<1> QED BY <1>1, <1>2

AttrOK(b, fixed) ==
  b \in Seq(Int) /\ Len(b) = 4 + fixed /\ b[1] = 4 + fixed /\ b[2] = 2 + fixed /\ b[4 + fixed] = 7
LEMMA AttrBufferIs ==
  ASSUME NEW fixed \in 0..1
  PROVE  AttrOK(AttrBuffer(fixed, << 7 >>), fixed)
<1> DEFINE first == <<0, 2 + fixed, Len(<< 7 >>)>>
           values == [i \in 1..fixed |-> 90]
           head == first \o values
           last == << 7 >>
           whole == head \o last
           b == [whole EXCEPT ![1] = Len(whole)]
<1>1. AttrBuffer(fixed, << 7 >>) = b
  BY DEF AttrBuffer
<1>2. first \in Seq(Int) /\ Len(first) = 3 /\ first[2] = 2 + fixed
  OBVIOUS
<1>3. values \in Seq(Int) /\ Len(values) = fixed /\ fixed \in Nat
  <2>1. values \in [1..fixed -> Int] /\ fixed \in Nat
    OBVIOUS
  <2> HIDE DEF values
  <2> QED BY <2>1
<1>4. last \in Seq(Int) /\ Len(last) = 1 /\ last[1] = 7
  OBVIOUS
<1> HIDE DEF first, values, last
<1>5. /\ head \in Seq(Int) /\ Len(head) = Len(first) + Len(values)
      /\ \A i \in 1..Len(first) + Len(values) : head[i] = IF i <= Len(first) THEN first[i] ELSE values[i - Len(first)]
  BY <1>2, <1>3, ConcatProperties
<1> HIDE DEF head
<1>6. Len(head) = 3 + fixed /\ head[2] = 2 + fixed
  <2>1. 2 \in 1..3 + fixed /\ 2 <= 3
    BY <1>3
  <2> QED BY <1>2, <1>3, <1>5, <2>1
<1>7. /\ whole \in Seq(Int) /\ Len(whole) = Len(head) + Len(last)
      /\ \A i \in 1..Len(head) + Len(last) : whole[i] = IF i <= Len(head) THEN head[i] ELSE last[i - Len(head)]
  <2>1. head \in Seq(Int) /\ last \in Seq(Int)
    BY <1>4, <1>5
  <2> QED BY <2>1, ConcatProperties
<1> HIDE DEF whole
<1>8. Len(whole) = 4 + fixed /\ whole[2] = 2 + fixed /\ whole[4 + fixed] = 7
  <2>1. /\ (3 + fixed) + 1 = 4 + fixed /\ 2 \in 1..4 + fixed /\ 2 <= 3 + fixed /\ 4 + fixed \in 1..4 + fixed
        /\ ~(4 + fixed <= 3 + fixed) /\ (4 + fixed) - (3 + fixed) = 1
    BY <1>3
  <2> QED BY <1>4, <1>6, <1>7, <2>1
<1>9. 1 \in 1..Len(whole) /\ 2 \in 1..Len(whole) /\ 4 + fixed \in 1..Len(whole) /\ 4 + fixed # 1 /\ Len(whole) \in Int
  BY <1>3, <1>8
<1>10. /\ b \in Seq(Int) /\ Len(b) = Len(whole)
       /\ \A i \in 1..Len(whole) : b[i] = IF i = 1 THEN Len(whole) ELSE whole[i]
  BY <1>7, <1>9, ExceptSeq
<1> HIDE DEF b
<1>11. AttrOK(b, fixed)
  BY <1>8, <1>9, <1>10 DEF AttrOK
<1> QED BY <1>1, <1>11

LEMMA GetattrlistKeeps ==
  ASSUME TInv, NEW s \in Spans, NEW fixed \in 0..1, Getattrlist(s, fixed, << 7 >>)
  PROVE  TStep
<1> DEFINE b == AttrBuffer(fixed, << 7 >>)
           p == Piece(s.at, b)
           claims == Claims(s.at + NameRef - 1 + b[NameRef], << 7 >>) \cup {<<s.at, Len(b)>>}
           granted == CellsOf(s)
<1>1. CASE s.at = 0 \/ Len(b) > s.len
  BY <1>1, UnchangedKeeps DEF Getattrlist
<1>2. CASE ~(s.at = 0 \/ Len(b) > s.len)
  <2>1. Told(mem, 0, <<p>>, granted, claims)
    BY <1>2 DEF Getattrlist
  <2>2. s \in SpanSet /\ s.at \in Nat /\ s.len \in Nat
    BY SpanFacts
  <2>3. b \in Seq(Int) /\ Len(b) = 4 + fixed /\ b[1] = 4 + fixed /\ b[2] = 2 + fixed /\ b[4 + fixed] = 7
    BY AttrBufferIs DEF AttrOK
  <2> HIDE DEF b
  <2>4. Len(b) <= s.len /\ Len(b) > 0
    BY <1>2, <2>2, <2>3
  <2>5. p.at = s.at /\ p.bytes = b /\ Covers(p) \subseteq granted
    BY <2>2, <2>3, <2>4, PieceIs, InSpan
  <2>6. claims = {<<s.at + 3 + fixed, 7>>, <<s.at, 4 + fixed>>}
    <3>1. \A x : Claims(x, << 7 >>) = {<<x + 1 - 1, 7>>}
      <4>1. DOMAIN << 7 >> = {1} /\ << 7 >>[1] = 7
        OBVIOUS
      <4> QED BY <4>1 DEF Claims
    <3>2. (s.at + NameRef - 1 + b[NameRef]) + 1 - 1 = s.at + 3 + fixed
      BY <2>2, <2>3 DEF NameRef
    <3> QED BY <2>3, <3>1, <3>2
  <2>7. Maybe(s.at, b) = <<p>> /\ b # <<>>
    BY <2>3, <2>4, MaybeSome
  <2> HIDE DEF p, claims, granted
  <2>8. ASSUME NEW claim \in claims PROVE Backed({p}, claim)
    <3>1. CASE claim = <<s.at + 3 + fixed, 7>>
      <4>1. 4 + fixed \in 1..Len(p.bytes) /\ claim[1] = p.at + (4 + fixed) - 1 /\ claim[2] = p.bytes[4 + fixed]
        BY <2>2, <2>3, <2>5, <3>1
      <4> QED BY <4>1 DEF Backed
    <3>2. CASE claim = <<s.at, 4 + fixed>>
      <4>1. 1 \in 1..Len(p.bytes) /\ claim[1] = p.at + 1 - 1 /\ claim[2] = p.bytes[1]
        BY <2>2, <2>3, <2>5, <3>2
      <4> QED BY <4>1 DEF Backed
    <3> QED BY <2>6, <2>8, <3>1, <3>2
  <2>9. Told(mem, 0, Maybe(s.at, b), granted, claims)
    BY <2>1, <2>7
  <2>10. Covers(Piece(s.at, b)) \subseteq granted /\ \A claim \in claims : b # <<>> /\ Backed({Piece(s.at, b)}, claim)
    BY <2>5, <2>7, <2>8 DEF p
  <2> QED BY <2>2, <2>3, <2>9, <2>10, OneTold
<1> QED BY <1>1, <1>2

-------------------------------------------------------------------------------
LEMMA TransferSteps == ASSUME TInv, [TransferNext]_transfervars PROVE TStep
<1>1. CASE UNCHANGED transfervars
  BY <1>1 DEF transfervars, TStep, TInv, StreamIsRest, ThroughInOrder, AnswersHold, WithinGiven
<1>2. CASE StreamCalls
  <2>1. ASSUME NEW s \in Spans, NEW peek \in BOOLEAN, Recv(s, peek) PROVE TStep
    BY <2>1, RecvKeeps
  <2>2. ASSUME NEW s \in Spans, NEW name \in NameSpans, NEW lp \in Pointers, NEW peek \in BOOLEAN,
               Recvfrom(s, peek, name, lp)
        PROVE  TStep
    BY <2>2, RecvfromKeeps
  <2>3. ASSUME NEW iov \in Iovecs, Readv(iov) \/ Writev(iov) PROVE TStep
    BY <2>3, ReadvKeeps, WritevKeeps
  <2>4. ASSUME NEW iov \in Iovecs, NEW name \in NameSpans, NEW control \in NameSpans, NEW hp \in Pointers,
               NEW peek \in BOOLEAN, Recvmsg(iov, peek, name, control, hp)
        PROVE  TStep
    BY <2>4, RecvmsgKeeps
  <2>5. ASSUME NEW iov \in Iovecs, NEW name \in NameSpans, NEW control \in NameSpans, NEW hp \in Pointers,
               Sendmsg(iov, name, control, hp)
        PROVE  TStep
    BY <2>5, SendmsgKeeps
  <2>6. ASSUME NEW s \in Spans, Send(s) \/ \E name \in NameSpans : Sendto(s, name) PROVE TStep
    BY <2>6, SendtoKeeps
  <2>7. ASSUME NEW at \in Pointers, Ioctl(at) PROVE TStep
    BY <2>7, NumberKeeps
  <2> QED BY <1>2, <2>1, <2>2, <2>3, <2>4, <2>5, <2>6, <2>7 DEF StreamCalls
<1>3. CASE ValueCalls
  <2>1. ASSUME NEW s \in Spans,
               \/ Setsockopt(s) \/ Setxattr(s) \/ Connect(s) \/ Getxattr(s) \/ Readlink(s) \/ Getcwd(s) \/ Poll(s)
               \/ \E offset \in 0..1 : Pread(s, offset)
               \/ \E fixed \in 0..1 : Getattrlist(s, fixed, << 7 >>)
        PROVE  TStep
    <3>1. CASE Setsockopt(s) \/ Setxattr(s) \/ Connect(s)
      BY <3>1, UnchangedKeeps DEF Setsockopt, Setxattr, Connect
    <3> QED BY <2>1, <3>1, GetxattrKeeps, ReadlinkKeeps, GetcwdKeeps, PollKeeps, PreadKeeps, GetattrlistKeeps
  <2>2. ASSUME NEW s \in Spans, NEW t \in Spans, InetNtop(s, t) PROVE TStep
    BY <2>2, InetNtopKeeps
  <2>3. ASSUME NEW s \in Spans, NEW t \in Spans, NEW u \in Spans, Getnameinfo(s, t, u) PROVE TStep
    BY <2>3, GetnameinfoKeeps
  <2>4. ASSUME NEW s \in Spans, NEW lp \in Pointers,
               \/ Getsockopt(s, lp) \/ SocketName(s, lp) \/ Accept(s, lp)
               \/ \E identity \in BOOLEAN : Sysctl(s, lp, identity)
        PROVE  TStep
    BY <2>4, GetsockoptKeeps, NamesKeep, SysctlKeeps
  <2>5. ASSUME NEW at \in Pointers, Realpath(at) \/ Socketpair(at) \/ Fstat(at, 9) PROVE TStep
    BY <2>5, RealpathKeeps, SocketpairKeeps, NumberKeeps
  <2> QED BY <1>3, <2>1, <2>2, <2>3, <2>4, <2>5 DEF ValueCalls
<1> QED BY <1>1, <1>2, <1>3 DEF TransferNext

LEMMA TransferStart == ASSUME TransferInit PROVE TInv
<1>1. StreamLen \in Nat
  BY TransferNumbers
<1>2. mem \in Mems
  <2>1. PICK hole \in Holes : mem = [c \in Cells |-> IF c \in hole THEN NoCell ELSE 20 + c]
    BY DEF TransferInit
  <2>2. \A c \in Cells : 20 + c \in Int /\ NoCell \in Int
    BY DEF Cells, NoCell
  <2> QED BY <2>1, <2>2 DEF Mems
<1>3. stream \in Seq(Nat) /\ Len(stream) = StreamLen /\ \A i \in 1..StreamLen : stream[i] = i
  <2>1. stream \in [1..StreamLen -> Nat] /\ \A i \in 1..StreamLen : stream[i] = i
    BY DEF TransferInit
  <2> QED BY <1>1, <2>1
<1>4. StreamIsRest
  BY <1>1, <1>3 DEF StreamIsRest
<1>5. ThroughInOrder /\ AnswersHold
  <2>1. StreamLen - StreamLen = 0 /\ [i \in 1..0 |-> i] = <<>>
    BY <1>1
  <2> QED BY <1>3, <2>1 DEF TransferInit, ThroughInOrder, AnswersHold
<1> QED BY <1>2, <1>4, <1>5 DEF TInv

\* What is left of the stream is its end, so that what the next call takes follows on
\* what the guest has; and memory keeps numbers, whichever pieces fit.
THEOREM TransfersInvariant == TransferSpec => []TInv
<1>1. TransferInit => TInv
  BY TransferStart
<1>2. TInv /\ [TransferNext]_transfervars => TInv'
  BY TransferSteps DEF TStep
<1> QED BY <1>1, <1>2, PTL DEF TransferSpec

\* Bytes pass in order through lists and partial results, a call that succeeds told the
\* truth, and none changes a cell that the guest did not give for it.
THEOREM TransfersAreHonest == TransferSpec => TransfersHonest
<1>1. TInv => ThroughInOrder /\ AnswersHold
  BY DEF TInv
<1>2. TInv /\ [TransferNext]_transfervars => [WithinGiven]_transfervars
  BY TransferSteps DEF TStep
<1> QED BY <1>1, <1>2, TransfersInvariant, PTL DEF TransferSpec, TransfersHonest
==================================================================================
