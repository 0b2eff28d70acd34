------------------------------ MODULE CxxObjects ------------------------------
(***************************************************************************)
(* std::string and std::vector<char> of an arm64 guest, whose members the  *)
(* compat layer runs on the objects in guest memory: a string is short,    *)
(* with its bytes in the object, or long, with a block on the heap; a      *)
(* vector has three pointers into its block.  The block of an object is    *)
(* changed by calls on it, by the guest's own inlined members (move, swap) *)
(* and by allocations the heap refuses.                                    *)
(*                                                                         *)
(* The layer holds at most Longest bytes of a text: what a call would make *)
(* longer it cuts without a word, and a push_back on a full vector does    *)
(* nothing.  C++ knows no such limit; the history follows C++.             *)
(*                                                                         *)
(* Abstracted: addresses, the bits that tell short from long, searches and *)
(* comparisons, which change nothing.                                      *)
(***************************************************************************)
EXTENDS Naturals, Sequences

CONSTANTS Strings, Vectors,     \* objects
          Texts,                \* what the guest passes as a C string
          Bytes,                \* what it pushes or fills with
          Short,                \* LIBCPP_SHORT_MAX
          Longest,              \* MAX_COMPAT_STRING_LEN, MAX_COMPAT_VECTOR_LEN
          Align,                \* what the length of a string's block is rounded to
          MaxStores             \* bound on blocks

ASSUME CxxAssumption ==
  /\ Short \in Nat /\ Longest \in Nat /\ Short < Longest
  /\ Align \in Nat \ {0} /\ MaxStores \in Nat /\ Strings \cap Vectors = {}
  /\ Texts \subseteq Seq(Bytes)

VARIABLES header,       \* the 24 bytes of each object
          store,        \* the bytes of each block
          allocs,       \* malloc_allocations
          last,         \* blocks granted so far: none is granted twice
          alive,        \* objects between constructor and destructor
          value         \* history: what C++ says each object holds, as far as one can say

cxxvars == <<header, store, alive, allocs, last, value>>

Objects == Strings \cup Vectors
AsShort(text) == [text |-> text, data |-> 0, len |-> 0, room |-> 0]
AsLong(b, len, room) == [text |-> <<>>, data |-> b, len |-> len, room |-> room]
Nothing == AsLong(0, 0, 0)

\* The text of an object in C++, and whether that is still sure: once bytes are
\* removed from a text that is longer than Longest, the layer and C++ go apart.
Sure(text) == [text |-> text, sure |-> TRUE]

CInit == /\ header = [o \in Objects |-> Nothing]
         /\ store = [b \in 1..MaxStores |-> <<>>]
         /\ alive = {} /\ allocs = {} /\ last = 0
         /\ value = [o \in Objects |-> Sure(<<>>)]

Least(a, b) == IF a < b THEN a ELSE b
Most(a, b) == IF a > b THEN a ELSE b
First(text, n) == SubSeq(text, 1, n)
Sized(text, n, c) == [i \in 1..n |-> IF i <= Len(text) THEN text[i] ELSE c]

\* The heap grants the next block, holding these bytes.
Grant(bytes) == /\ last' = last + 1 /\ allocs' = allocs \cup {last + 1}
                /\ store' = [store EXCEPT ![last + 1] = bytes]
SameHeap == UNCHANGED <<store, allocs, last>>
Becomes(o, h) == header' = [header EXCEPT ![o] = h]
Means(o, meant) == value' = [value EXCEPT ![o] = meant]

\* The bytes of an object (decode_basic_string, decode_basic_vector).
Text(o) == IF header[o].data = 0 THEN header[o].text
           ELSE First(store[header[o].data], header[o].len)

\* What the layer takes of a text the guest passes (capped_bytes, read_capped_cstring).
Capped(text) == First(text, Least(Len(text), Longest))

\* What the calls make of a text.
Appended(text, suffix) == text \o First(suffix, Least(Len(suffix), Most(Longest, Len(text)) - Len(text)))
Erased(text, pos, n) ==
  LET from == Least(pos, Len(text))
  IN First(text, from) \o SubSeq(text, Least(from + n, Len(text)) + 1, Len(text))
Resized(text, n, c) == Sized(text, Least(n, Longest), c)

\* What the calls make of it in C++.
MeantAppended(s, meant) ==
  [text |-> value[s].text \o meant.text, sure |-> value[s].sure /\ meant.sure]
MeantResized(o, n, c) == [value[o] EXCEPT !.text = Sized(@, n, c)]
Shorter(o, text) == [text |-> text, sure |-> value[o].sure /\ Len(value[o].text) <= Longest]
MeantErased(s, pos, n) == Shorter(s, Erased(value[s].text, pos, n))
MeantPushed(v, c) == [value[v] EXCEPT !.text = Append(@, c)]
MeantPopped(v) == Shorter(v, First(value[v].text, Most(Len(value[v].text), 1) - 1))

-------------------------------------------------------------------------------
(***************************************************************************)
(* Strings.                                                                *)
(***************************************************************************)

Capacity(s) == IF header[s].data = 0 THEN Short
               ELSE Most(header[s].room - 1, header[s].len)
RoundedUp(n) == ((n + Align - 1) \div Align) * Align
Wanted(text, capacity) == Most(Least(capacity, Longest), Len(text))
BlockLength(text, capacity) == RoundedUp(Wanted(text, capacity) + 1)
Fits(text, capacity) == Wanted(text, capacity) <= Short

\* write_basic_string_with_capacity: a long string gets a new block each time,
\* and the block it had stays on the heap.
Written(s, text, capacity) ==
  IF Fits(text, capacity)
  THEN Becomes(s, AsShort(text)) /\ SameHeap
  ELSE /\ Grant(Sized(text, BlockLength(text, capacity), "nul"))
       /\ Becomes(s, AsLong(last + 1, Len(text), BlockLength(text, capacity)))
\* A call on s that leaves it with text: what it means, unless a block is refused.
StringCall(s, text, meant, capacity, granted) ==
  /\ IF Fits(text, capacity) \/ granted
     THEN Written(s, text, capacity) /\ Means(s, meant)
     ELSE UNCHANGED <<header, store, allocs, last, value>>
  /\ UNCHANGED alive

\* __init and the constructors.
StringCtor(s, text, meant, granted) ==
  /\ s \notin alive /\ (Fits(text, Len(text)) \/ granted)
  /\ Written(s, text, Len(text)) /\ Means(s, meant) /\ alive' = alive \cup {s}

StringAssign(s, text, meant, granted) == StringCall(s, text, meant, Len(text), granted)
StringAppend(s, suffix, meant, granted) ==
  StringCall(s, Appended(Text(s), suffix), MeantAppended(s, meant), Capacity(s), granted)
StringErase(s, pos, n, granted) ==
  StringCall(s, Erased(Text(s), pos, n), MeantErased(s, pos, n), Capacity(s), granted)
StringClear(s, granted) == StringCall(s, <<>>, Sure(<<>>), Capacity(s), granted)
StringReserve(s, n, granted) ==
  StringCall(s, Text(s), value[s], Most(Least(n, Longest), Capacity(s)), granted)
StringResize(s, n, c, granted) ==
  StringCall(s, Resized(Text(s), n, c), MeantResized(s, n, c), Capacity(s), granted)

StringDtor(s) ==
  /\ allocs' = allocs \ {header[s].data} /\ alive' = alive \ {s}
  /\ UNCHANGED <<header, store, last, value>>

-------------------------------------------------------------------------------
(***************************************************************************)
(* Vectors.                                                                *)
(***************************************************************************)

\* reserve_basic_vector: where the bytes are afterwards.
Reserved(v, n) == LET capacity == Most(Least(n, Longest), header[v].room)
                  IN IF capacity = header[v].room THEN header[v]
                     ELSE AsLong(last + 1, header[v].len, Most(capacity, 1))
Moves(v, n) == Reserved(v, n).data # header[v].data

\* Mutant: what grows inside the block keeps the bytes that were there.
ExtendedStale(v, to, c, capacity) ==
  LET at == Reserved(v, capacity)
      bytes == Sized(Text(v), at.room, c)
  IN /\ IF Moves(v, capacity) THEN Grant(bytes) ELSE SameHeap
     /\ Becomes(v, [at EXCEPT !.len = to])
\* The bytes behind the last one become c, in the block or in a new one.
Extended(v, to, c, capacity) ==
  LET at == Reserved(v, capacity)
      bytes == IF Moves(v, capacity) THEN Sized(Text(v), at.room, "nul")
               ELSE IF at.data = 0 THEN <<>> ELSE store[at.data]
      filled == [i \in DOMAIN bytes |-> IF header[v].len < i /\ i <= to THEN c ELSE bytes[i]]
  IN /\ IF Moves(v, capacity) THEN Grant(filled)
        ELSE IF at.data = 0 THEN SameHeap
        ELSE store' = [store EXCEPT ![at.data] = filled] /\ UNCHANGED <<allocs, last>>
     /\ Becomes(v, [at EXCEPT !.len = to])

VectorCall(v, to, c, capacity, meant, granted) ==
  /\ IF Moves(v, capacity) /\ ~granted
     THEN UNCHANGED <<header, store, allocs, last, value>>
     ELSE Extended(v, to, c, capacity) /\ Means(v, meant)
  /\ UNCHANGED alive

VectorReserve(v, n, granted) == VectorCall(v, header[v].len, "nul", n, value[v], granted)
VectorResize(v, n, c, granted) ==
  LET to == Least(n, Longest)
  IN VectorCall(v, to, c, IF to > header[v].room THEN to ELSE 0,
                MeantResized(v, n, c), granted)
\* A full vector doubles, and one of Longest bytes takes no more.
VectorPushBack(v, c, granted) ==
  IF header[v].len + 1 > Longest
  THEN Means(v, MeantPushed(v, c)) /\ UNCHANGED <<header, store, allocs, last, alive>>
  ELSE VectorCall(v, header[v].len + 1, c,
                  IF header[v].len < header[v].room THEN 0
                  ELSE Most(2 * header[v].room, header[v].len + 1),
                  MeantPushed(v, c), granted)
VectorPopBack(v) ==
  /\ Becomes(v, [header[v] EXCEPT !.len = IF @ = 0 THEN 0 ELSE @ - 1])
  /\ Means(v, MeantPopped(v))
  /\ SameHeap /\ UNCHANGED alive
VectorClear(v) ==
  Becomes(v, [header[v] EXCEPT !.len = 0]) /\ Means(v, Sure(<<>>)) /\ SameHeap /\ UNCHANGED alive

\* copy_basic_vector
CopyNeeds(v) == header[v].len > 0
VectorCopied(v, source) ==
  IF CopyNeeds(source)
  THEN Grant(Text(source)) /\ Becomes(v, AsLong(last + 1, header[source].len, header[source].len))
  ELSE SameHeap /\ Becomes(v, Nothing)

VectorDefaultCtor(v) ==
  /\ v \notin alive /\ Becomes(v, Nothing) /\ Means(v, Sure(<<>>))
  /\ SameHeap /\ alive' = alive \cup {v}
VectorCopy(v, source, granted) ==
  /\ v \notin alive /\ (CopyNeeds(source) => granted)
  /\ VectorCopied(v, source) /\ Means(v, value[source]) /\ alive' = alive \cup {v}

\* destroy_basic_vector: the header it leaves.
\* Mutant: the pointers stay.
DestroyedKept(v) == header[v]
Destroyed(v) == Nothing
VectorDtor(v) ==
  /\ Becomes(v, Destroyed(v)) /\ allocs' = allocs \ {header[v].data} /\ alive' = alive \ {v}
  /\ UNCHANGED <<store, last, value>>
\* operator=: the vector is destroyed before the copy is granted its block.
VectorAssign(v, source, granted) ==
  /\ v # source
  /\ IF CopyNeeds(source) /\ ~granted
     THEN /\ Becomes(v, Destroyed(v)) /\ Means(v, Sure(<<>>))
          /\ allocs' = allocs \ {header[v].data} /\ UNCHANGED <<store, last>>
     ELSE /\ Means(v, value[source])
          /\ allocs' = (allocs \ {header[v].data}) \cup (IF CopyNeeds(source) THEN {last + 1} ELSE {})
          /\ IF CopyNeeds(source)
             THEN /\ last' = last + 1 /\ store' = [store EXCEPT ![last + 1] = Text(source)]
                  /\ Becomes(v, AsLong(last + 1, header[source].len, header[source].len))
             ELSE Becomes(v, Nothing) /\ UNCHANGED <<store, last>>
  /\ UNCHANGED alive

-------------------------------------------------------------------------------
(***************************************************************************)
(* The guest's own code, inlined by its compiler, copies headers.          *)
(***************************************************************************)

Empty(o) == IF o \in Strings THEN AsShort(<<>>) ELSE Nothing
SameKind(o, p) == (o \in Strings) <=> (p \in Strings)
MoveCtor(o, from) ==
  /\ o \notin alive /\ SameKind(o, from)
  /\ header' = [header EXCEPT ![o] = header[from], ![from] = Empty(from)]
  /\ value' = [value EXCEPT ![o] = value[from], ![from] = Sure(<<>>)]
  /\ alive' = alive \cup {o} /\ SameHeap
Swap(o, p) ==
  /\ o # p /\ SameKind(o, p)
  /\ header' = [header EXCEPT ![o] = header[p], ![p] = header[o]]
  /\ value' = [value EXCEPT ![o] = value[p], ![p] = value[o]]
  /\ UNCHANGED alive /\ SameHeap

Sizes == 0..Longest + 1
StringStep(granted) ==
  \/ \E s \in Strings, text \in Texts : StringCtor(s, Capped(text), Sure(text), granted)
  \/ \E s \in Strings, t \in Strings \cap alive : StringCtor(s, Text(t), value[t], granted)
  \/ \E s \in Strings \cap alive :
       \/ \E text \in Texts : \/ StringAssign(s, Capped(text), Sure(text), granted)
                              \/ StringAppend(s, Capped(text), Sure(text), granted)
       \/ \E t \in Strings \cap alive : \/ StringAssign(s, Text(t), value[t], granted)
                                        \/ StringAppend(s, Text(t), value[t], granted)
       \/ \E pos, n \in Sizes : StringErase(s, pos, n, granted)
       \/ \E n \in Sizes, c \in Bytes : StringResize(s, n, c, granted)
       \/ \E n \in Sizes : StringReserve(s, n, granted)
       \/ StringClear(s, granted)
       \/ StringDtor(s)
VectorStep(granted) ==
  \/ \E v \in Vectors : VectorDefaultCtor(v)
  \/ \E v \in Vectors, w \in Vectors \cap alive : VectorCopy(v, w, granted)
  \/ \E v \in Vectors \cap alive :
       \/ \E n \in Sizes, c \in Bytes : VectorResize(v, n, c, granted)
       \/ \E n \in Sizes : VectorReserve(v, n, granted)
       \/ \E c \in Bytes : VectorPushBack(v, c, granted)
       \/ \E w \in Vectors \cap alive : VectorAssign(v, w, granted)
       \/ VectorPopBack(v) \/ VectorClear(v) \/ VectorDtor(v)
GuestStep == \E o \in Objects, p \in alive : MoveCtor(o, p) \/ (o \in alive /\ Swap(o, p))

\* Whether the heap grants a block; a bound of the model refuses the last.
Grants == {granted \in BOOLEAN : granted => last < MaxStores}
CNext == \/ \E granted \in Grants : StringStep(granted) \/ VectorStep(granted)
         \/ GuestStep
CSpec == CInit /\ [][CNext]_cxxvars

-------------------------------------------------------------------------------
\* What is left of a text beyond which everything is dropped.
Beginning(text) == First(text, Least(Len(text), Longest))

\* Every object reads as what C++ says it holds, in whichever block it is, whatever
\* bytes an earlier longer text left there and whatever its compiler moved or swapped:
\* all of it, or its first Longest bytes, for what was appended, assigned or resized
\* beyond that is dropped in silence.  A refused block leaves the object as it was, or
\* empty after an assignment.  Nothing is said once bytes were removed from a text that
\* was cut, and of what was copied from it: the layer then has others than C++.
ValuesKept == \A o \in alive : value[o].sure => Text(o) = Beginning(value[o].text)

\* The block of an object is on the heap and no other object has it: no destructor
\* takes the bytes of another object, and no call writes into them.
StorageOwned ==
  \A o \in alive : header[o].data # 0 =>
    /\ header[o].data \in allocs
    /\ \A p \in alive : header[p].data = header[o].data => p = o

\* What C++ relies on for its strings and vectors, up to Longest bytes of each.
ContainersSound == ValuesKept /\ StorageOwned
===============================================================================
