------------------------- MODULE GuestLibraryProofs -------------------------
(***************************************************************************)
(* Parts of the library that hooks give a guest, each on its own and for   *)
(* any number of its objects, as MCGuestLibrary runs them on a few:        *)
(*                                                                         *)
(* ThreadStorage.  StorageOwn does not carry itself: that a fresh page is  *)
(* nobody's needs the numbers of the pages given out (PagesOK), and that a *)
(* semaphore counts what it let through needs handles that were released   *)
(* and are used again, which StorageOwn leaves aside (HandlesOK).          *)
(*                                                                         *)
(* GuestCallbacks.  That a return finds its call needs where the one       *)
(* trampoline is (FramesOK), that a routine begins once what is remembered *)
(* of it (OnceOK), and the order of the exit handlers that those left are  *)
(* in the order of their registration and none of them ran (HandlersOK).   *)
(*                                                                         *)
(* CxxObjects.  That an object reads as it should needs the length to lie  *)
(* in its block, and that a vector grows in place needs the room to (both  *)
(* InBlock); that no call writes into the block of another, blocks that    *)
(* lie below the next one (CxxTyped).                                      *)
(*                                                                         *)
(* GuestMemory.  That blocks are mapped needs them to end in the mapping   *)
(* of the heap and behind nothing but its pointer (BlocksOK), and all of   *)
(* that mapping to be mapped or torn out (HeapOK); that a page has what    *)
(* its region has, the first region that holds it, as calls cut others     *)
(* (Mapped).                                                               *)
(***************************************************************************)
EXTENDS ThreadStorage, GuestCallbacks, CxxObjects, ChildOutput, SyscallTable, GuestMemory,
        ListSteps, FiniteSetTheorems

-------------------------------------------------------------------------------
(***************************************************************************)
(* ThreadStorage.                                                          *)
(***************************************************************************)
Accounts == [waits : Nat, due : Nat]

\* The pages given out lie below the next one, each for one thread and variable.
PagesOK ==
  /\ tlvNext \in Nat \ {0}
  /\ DOMAIN wrote = DOMAIN storage
  /\ \A p \in DOMAIN storage : storage[p] \in 1..(tlvNext - 1) /\ storage[p] \in DOMAIN page
  /\ \A p, q \in DOMAIN storage : storage[p] = storage[q] => p = q
  /\ heapStored # <<>> => TlvPages + 1 \in DOMAIN page

\* Handles are numbered in the order they are made.  What a semaphore let through
\* and what it still has is what it was given; a released one has nothing.
HandlesOK ==
  /\ handed \in Nat
  /\ queues \subseteq 1..handed
  /\ passed \in [DOMAIN passed -> Accounts] /\ DOMAIN passed \subseteq 1..handed
  /\ semaphores \in [DOMAIN semaphores -> Nat] /\ DOMAIN semaphores \subseteq DOMAIN passed
  /\ queues \cap DOMAIN passed = {}
  /\ \A h \in DOMAIN passed : passed[h].waits + Value(h) = passed[h].due

StorageInv == PagesOK /\ VariablesOwn /\ HandlesOK


\* An insertion keeps the type of the values.
LEMMA PutTyped ==
  ASSUME NEW S, NEW f, f \in [DOMAIN f -> S], NEW k, NEW v \in S
  PROVE  Put(f, k, v) \in [DOMAIN Put(f, k, v) -> S]
BY DEF Put

LEMMA ValueType == ASSUME HandlesOK, NEW h PROVE Value(h) \in Nat
BY DEF HandlesOK, Value

LEMMA InitStorage == StorageInit => StorageInv
<1> SUFFICES ASSUME StorageInit PROVE StorageInv
  OBVIOUS
<1>1. DOMAIN storage = {} /\ DOMAIN wrote = {} /\ DOMAIN passed = {} /\ DOMAIN semaphores = {}
  BY DEF StorageInit
<1>2. PagesOK /\ VariablesOwn
  BY <1>1 DEF StorageInit, PagesOK, VariablesOwn
<1>3. passed \in [DOMAIN passed -> Accounts] /\ semaphores \in [DOMAIN semaphores -> Nat]
  BY <1>1
<1>4. HandlesOK
  BY <1>1, <1>3 DEF StorageInit, HandlesOK
<1> QED BY <1>2, <1>4 DEF StorageInv

LEMMA SamePages == PagesOK /\ VariablesOwn /\ UNCHANGED tlvvars => (PagesOK /\ VariablesOwn)'
BY DEF PagesOK, VariablesOwn, Lasts, tlvvars

LEMMA SameHandles == HandlesOK /\ UNCHANGED dispatchvars => HandlesOK'
BY DEF HandlesOK, Value, dispatchvars


\* Variables.

LEMMA BootstrapStep ==
  ASSUME StorageInv, NEW t, NEW d, TlvBootstrap(t, d)
  PROVE  StorageInv'
<1> DEFINE k == <<t, d>>
           s == Seed(t, d)
<1>1. /\ k \notin DOMAIN storage
      /\ storage' = Put(storage, k, tlvNext) /\ page' = Put(page, tlvNext, s)
      /\ wrote' = Put(wrote, k, s) /\ tlvNext' = tlvNext + 1
      /\ UNCHANGED <<heapStored, dispatchvars>>
  BY DEF TlvBootstrap, PageFor
<1> HIDE DEF k, s
<1>2. /\ DOMAIN storage' = DOMAIN storage \cup {k} /\ storage'[k] = tlvNext
      /\ \A p \in DOMAIN storage : storage'[p] = storage[p]
  BY <1>1 DEF Put
<1>3. /\ DOMAIN wrote' = DOMAIN wrote \cup {k} /\ wrote'[k] = s
      /\ \A p \in DOMAIN storage : wrote'[p] = wrote[p]
  BY <1>1 DEF Put, StorageInv, PagesOK
<1>4. /\ DOMAIN page' = DOMAIN page \cup {tlvNext} /\ page'[tlvNext] = s
      /\ \A x \in DOMAIN page : x # tlvNext => page'[x] = page[x]
  BY <1>1 DEF Put
<1>5. \A p \in DOMAIN storage : storage[p] # tlvNext
  BY DEF StorageInv, PagesOK
<1>6. PagesOK'
  BY <1>1, <1>2, <1>3, <1>4, <1>5 DEF StorageInv, PagesOK
<1>7. VariablesOwn'
  <2> SUFFICES ASSUME tlvNext + 1 <= TlvPages + 1
               PROVE  /\ \A p \in DOMAIN storage' : page'[storage'[p]] = wrote'[p]
                      /\ heapStored # <<>> => page'[TlvPages + 1] = heapStored[1]
    BY <1>1 DEF VariablesOwn, Lasts
  <2>1. Lasts /\ tlvNext # TlvPages + 1
    BY StorageAssumption DEF StorageInv, PagesOK, Lasts
  <2>2. heapStored # <<>> => page'[TlvPages + 1] = heapStored[1]
    BY <2>1, <1>4 DEF StorageInv, PagesOK, VariablesOwn
  <2>3. \A p \in DOMAIN storage : page'[storage'[p]] = wrote'[p]
    BY <2>1, <1>2, <1>3, <1>4, <1>5 DEF StorageInv, PagesOK, VariablesOwn
  <2> QED BY <2>2, <2>3, <1>2, <1>3, <1>4
<1> QED BY <1>1, <1>6, <1>7, SameHandles DEF StorageInv

LEMMA StoreStep ==
  ASSUME StorageInv, NEW t, NEW d, NEW v, Store(t, d, v)
  PROVE  StorageInv'
<1> DEFINE k == <<t, d>>
<1>1. /\ k \in DOMAIN storage
      /\ page' = [page EXCEPT ![storage[k]] = v] /\ wrote' = [wrote EXCEPT ![k] = v]
      /\ UNCHANGED <<storage, tlvNext, heapStored, dispatchvars>>
  BY DEF Store
<1> HIDE DEF k
<1>2. /\ DOMAIN page' = DOMAIN page /\ page'[storage[k]] = v
      /\ \A x \in DOMAIN page : x # storage[k] => page'[x] = page[x]
  BY <1>1 DEF StorageInv, PagesOK
<1>3. /\ DOMAIN wrote' = DOMAIN wrote /\ wrote'[k] = v
      /\ \A p \in DOMAIN wrote : p # k => wrote'[p] = wrote[p]
  BY <1>1 DEF StorageInv, PagesOK
<1>4. PagesOK'
  BY <1>1, <1>2, <1>3 DEF StorageInv, PagesOK
<1>5. VariablesOwn'
  <2> SUFFICES ASSUME Lasts
               PROVE  /\ \A p \in DOMAIN storage : page'[storage[p]] = wrote'[p]
                      /\ heapStored # <<>> => page'[TlvPages + 1] = heapStored[1]
    BY <1>1 DEF VariablesOwn, Lasts
  <2>1. storage[k] # TlvPages + 1
    BY <1>1, StorageAssumption DEF StorageInv, PagesOK, Lasts
  <2>2. heapStored # <<>> => page'[TlvPages + 1] = heapStored[1]
    BY <2>1, <1>2 DEF StorageInv, PagesOK, VariablesOwn
  <2>3. \A p \in DOMAIN storage : p # k => page'[storage[p]] = wrote'[p]
    BY <1>1, <1>2, <1>3 DEF StorageInv, PagesOK, VariablesOwn
  <2> QED BY <2>2, <2>3, <1>2, <1>3
<1> QED BY <1>1, <1>4, <1>5, SameHandles DEF StorageInv

LEMMA HeapStoreStep == ASSUME StorageInv, NEW v, HeapStore(v) PROVE StorageInv'
<1>1. /\ page' = Put(page, TlvPages + 1, v) /\ heapStored' = <<v>>
      /\ UNCHANGED <<storage, tlvNext, wrote, dispatchvars>>
  BY DEF HeapStore
<1>2. /\ DOMAIN page' = DOMAIN page \cup {TlvPages + 1} /\ page'[TlvPages + 1] = v
      /\ \A x \in DOMAIN page : x # TlvPages + 1 => page'[x] = page[x]
  BY <1>1 DEF Put
<1>3. PagesOK'
  BY <1>1, <1>2 DEF StorageInv, PagesOK
<1>4. VariablesOwn'
  <2> SUFFICES ASSUME Lasts
               PROVE  /\ \A p \in DOMAIN storage : page'[storage[p]] = wrote[p]
                      /\ page'[TlvPages + 1] = heapStored'[1]
    BY <1>1 DEF VariablesOwn, Lasts
  <2>1. \A p \in DOMAIN storage : storage[p] # TlvPages + 1
    BY StorageAssumption DEF StorageInv, PagesOK, Lasts
  <2> QED BY <2>1, <1>1, <1>2 DEF StorageInv, PagesOK, VariablesOwn
<1> QED BY <1>1, <1>3, <1>4, SameHandles DEF StorageInv


\* Semaphores and queues.

LEMMA QueueStep == HandlesOK /\ QueueCreate => HandlesOK'
<1> SUFFICES ASSUME HandlesOK, QueueCreate PROVE HandlesOK'
  OBVIOUS
<1>1. handed' = handed + 1 /\ queues' = queues \cup {handed + 1} /\ UNCHANGED <<semaphores, passed>>
  BY DEF QueueCreate, Made
<1> QED BY <1>1 DEF HandlesOK, Value

LEMMA SemaphoreStep ==
  ASSUME HandlesOK, NEW v \in StoredValues, SemaphoreCreate(v)
  PROVE  HandlesOK'
<1> DEFINE n == handed + 1
           r == [waits |-> 0, due |-> v]
<1>1. /\ handed' = n /\ UNCHANGED queues
      /\ semaphores' = Put(semaphores, n, v) /\ passed' = Put(passed, n, r)
  BY DEF SemaphoreCreate, Made
<1>2. n \in Nat /\ n \notin 1..handed /\ v \in Nat /\ r \in Accounts
      /\ 1..n = 1..handed \cup {n}
  BY StorageAssumption DEF HandlesOK, Accounts
<1>3. r.waits = 0 /\ r.due = v
  OBVIOUS
<1> HIDE DEF n, r
<1>4. /\ DOMAIN semaphores' = DOMAIN semaphores \cup {n} /\ semaphores'[n] = v
      /\ \A h \in DOMAIN semaphores : h # n => semaphores'[h] = semaphores[h]
      /\ DOMAIN passed' = DOMAIN passed \cup {n} /\ passed'[n] = r
      /\ \A h \in DOMAIN passed : h # n => passed'[h] = passed[h]
  BY <1>1 DEF Put
<1>5. /\ semaphores' \in [DOMAIN semaphores' -> Nat]
      /\ passed' \in [DOMAIN passed' -> Accounts]
  BY <1>1, <1>2, PutTyped DEF HandlesOK
<1>6. /\ queues' \subseteq 1..n /\ DOMAIN passed' \subseteq 1..n
      /\ DOMAIN semaphores' \subseteq DOMAIN passed' /\ queues' \cap DOMAIN passed' = {}
  BY <1>1, <1>2, <1>4 DEF HandlesOK
<1>7. \A h \in DOMAIN passed' : passed'[h].waits + Value(h)' = passed'[h].due
  <2> TAKE h \in DOMAIN passed'
  <2>1. CASE h = n
    BY <2>1, <1>2, <1>3, <1>4 DEF Value
  <2>2. CASE h # n
    BY <2>2, <1>4 DEF HandlesOK, Value
  <2> QED BY <2>1, <2>2
<1> QED BY <1>1, <1>2, <1>5, <1>6, <1>7 DEF HandlesOK

\* A wait or a signal: the value and the account of h change alike.
LEMMA CountedStep ==
  ASSUME HandlesOK, NEW h \in DOMAIN passed, NEW v \in Nat, NEW r \in Accounts,
         r.waits + v = r.due,
         semaphores' = Put(semaphores, h, v), passed' = [passed EXCEPT ![h] = r],
         UNCHANGED <<handed, queues>>
  PROVE  HandlesOK'
<1>1. /\ DOMAIN semaphores' = DOMAIN semaphores \cup {h} /\ semaphores'[h] = v
      /\ \A g \in DOMAIN semaphores : g # h => semaphores'[g] = semaphores[g]
  BY DEF Put
<1>2. /\ DOMAIN passed' = DOMAIN passed /\ passed'[h] = r
      /\ \A g \in DOMAIN passed : g # h => passed'[g] = passed[g]
  OBVIOUS
<1>3. /\ semaphores' \in [DOMAIN semaphores' -> Nat]
      /\ passed' \in [DOMAIN passed' -> Accounts]
  BY PutTyped DEF HandlesOK
<1>4. \A g \in DOMAIN passed' : passed'[g].waits + Value(g)' = passed'[g].due
  BY <1>1, <1>2 DEF HandlesOK, Value
<1> QED BY <1>1, <1>2, <1>3, <1>4 DEF HandlesOK

LEMMA WaitStep == ASSUME HandlesOK, NEW h \in DOMAIN passed, SemaphoreWait(h) PROVE HandlesOK'
<1> DEFINE w == IF Value(h) > 0 THEN 1 ELSE 0
           r == [passed[h] EXCEPT !.waits = @ + w]
<1>1. passed[h] \in Accounts /\ Value(h) \in Nat /\ passed[h].waits + Value(h) = passed[h].due
  BY ValueType DEF HandlesOK
<1>2. Lowered(Value(h)) \in Nat /\ Lowered(Value(h)) + w = Value(h) /\ w \in Nat
  BY <1>1 DEF Lowered
<1>3. r \in Accounts /\ r.waits = passed[h].waits + w /\ r.due = passed[h].due
  BY <1>1, <1>2 DEF Accounts
<1>4. r.waits + Lowered(Value(h)) = r.due
  BY <1>1, <1>2, <1>3 DEF Accounts
<1>5. /\ semaphores' = Put(semaphores, h, Lowered(Value(h))) /\ passed' = [passed EXCEPT ![h] = r]
      /\ UNCHANGED <<handed, queues>>
  BY DEF SemaphoreWait
<1> HIDE DEF w, r
<1> QED BY <1>2, <1>3, <1>4, <1>5, CountedStep

LEMMA SignalStep == ASSUME HandlesOK, NEW h \in DOMAIN passed, SemaphoreSignal(h) PROVE HandlesOK'
<1> DEFINE r == [passed[h] EXCEPT !.due = @ + 1]
<1>1. passed[h] \in Accounts /\ Value(h) \in Nat /\ passed[h].waits + Value(h) = passed[h].due
  BY ValueType DEF HandlesOK
<1>2. r \in Accounts /\ r.waits + (Value(h) + 1) = r.due
  BY <1>1 DEF Accounts
<1>3. /\ semaphores' = Put(semaphores, h, Value(h) + 1) /\ passed' = [passed EXCEPT ![h] = r]
      /\ UNCHANGED <<handed, queues>>
  BY DEF SemaphoreSignal
<1>4. Value(h) + 1 \in Nat
  BY <1>1
<1> HIDE DEF r
<1> QED BY <1>2, <1>3, <1>4, CountedStep

LEMMA ReleaseStep ==
  ASSUME HandlesOK, NEW h, NEW linked \in BOOLEAN, Release(h, linked)
  PROVE  HandlesOK'
<1> DEFINE z == [waits |-> 0, due |-> 0]
<1>1. /\ semaphores' = [g \in DOMAIN semaphores \ {h} |-> semaphores[g]]
      /\ passed' = [g \in DOMAIN passed |-> IF g = h THEN z ELSE passed[g]]
      /\ queues' \subseteq queues /\ UNCHANGED handed
  BY DEF Release
<1>2. z \in Accounts /\ z.waits = 0 /\ z.due = 0
  BY DEF Accounts
<1> HIDE DEF z
<1>3. /\ DOMAIN semaphores' = DOMAIN semaphores \ {h} /\ DOMAIN passed' = DOMAIN passed
      /\ semaphores' \in [DOMAIN semaphores' -> Nat]
      /\ passed' \in [DOMAIN passed' -> Accounts]
  BY <1>1, <1>2 DEF HandlesOK
<1>4. \A g \in DOMAIN passed' : passed'[g].waits + Value(g)' = passed'[g].due
  BY <1>1, <1>2 DEF HandlesOK, Value
<1> QED BY <1>1, <1>3, <1>4 DEF HandlesOK


LEMMA NextStorage == StorageInv /\ [StorageNext]_storagevars => StorageInv'
<1> SUFFICES ASSUME StorageInv, [StorageNext]_storagevars PROVE StorageInv'
  OBVIOUS
<1>1. CASE UNCHANGED storagevars
  BY <1>1, SamePages, SameHandles DEF StorageInv, storagevars, tlvvars, dispatchvars
<1>2. CASE NewThread \/ KeyCreate \/ \E k \in 1..keys, v \in StoredValues : SetSpecific(k, v)
  BY <1>2, SamePages, SameHandles DEF StorageInv, NewThread, KeyCreate, SetSpecific
<1>3. CASE QueueCreate
  BY <1>3, SamePages, QueueStep DEF StorageInv, QueueCreate, Made, Unused
<1>4. ASSUME NEW t \in Living, NEW d \in Variables,
             TlvBootstrap(t, d) \/ \E v \in StoredValues : Store(t, d, v)
      PROVE  StorageInv'
  BY <1>4, BootstrapStep, StoreStep
<1>5. ASSUME NEW v \in StoredValues, HeapStore(v) PROVE StorageInv'
  BY <1>5, HeapStoreStep
<1>6. ASSUME NEW v \in StoredValues, SemaphoreCreate(v) PROVE StorageInv'
  BY <1>6, SamePages, SemaphoreStep DEF StorageInv, SemaphoreCreate, Made, Unused
<1>7. ASSUME NEW h \in DOMAIN passed, SemaphoreWait(h) \/ SemaphoreSignal(h) PROVE StorageInv'
  BY <1>7, SamePages, WaitStep, SignalStep DEF StorageInv, SemaphoreWait, SemaphoreSignal, Unused
<1>8. ASSUME NEW h \in 1..handed, NEW linked \in BOOLEAN, Release(h, linked) PROVE StorageInv'
  BY <1>8, SamePages, ReleaseStep DEF StorageInv, Release, Unused
<1> QED BY <1>1, <1>2, <1>3, <1>4, <1>5, <1>6, <1>7, <1>8 DEF StorageNext

\* Pages given out are each one thread's for one variable and lie below the next
\* one, and each semaphore's account is exact, whatever is released and used again.
THEOREM StorageInvariant == StorageSpec => []StorageInv
BY InitStorage, NextStorage, PTL DEF StorageSpec

\* While the pages below the heap last, a thread finds in a variable what it stored
\* or was seeded with, the heap keeps what is its own, a wait passes only against a
\* signal or an initial unit, and no handle is both a semaphore and a queue.
THEOREM StorageIsOwn == StorageSpec => []StorageOwn
<1>1. StorageInv => StorageOwn
  <2> SUFFICES ASSUME StorageInv PROVE HandlesOwn
    BY DEF StorageInv, StorageOwn
  <2>1. \A h \in DOMAIN semaphores : semaphores[h] \in Nat /\ Value(h) = semaphores[h]
    BY DEF StorageInv, HandlesOK, Value
  <2> QED BY <2>1 DEF StorageInv, HandlesOK, HandlesOwn
<1> QED BY <1>1, StorageInvariant, PTL

-------------------------------------------------------------------------------
(***************************************************************************)
(* GuestCallbacks.                                                         *)
(***************************************************************************)
Backs == {"trampoline", "caller", "parked", "done"}
Records == [handler : Nat, among : Nat]

\* The slot of the trampoline names the frame that is to return through it.
Back(fr, s) ==
  \A t \in Threads : \A i \in DOMAIN fr[t] :
    fr[t][i] = "trampoline" => s = [thread |-> t, depth |-> i - 1]

FramesOK ==
  /\ onCpu \in Threads /\ ready \subseteq Workers
  /\ frames \in [Threads -> Seq(Backs)]
  /\ overlapped \in BOOLEAN /\ astray \in BOOLEAN
  /\ ~overlapped => Back(frames, slot)
  /\ astray => overlapped

\* A word that is not done, or a token nobody noted, has begun no routine.
OnceOK ==
  /\ word \in [Controls \cup Tokens -> {"fresh", "done"}]
  /\ started \in [Controls \cup Tokens -> Nat]
  /\ \A c \in Readable : started[c] <= 1 /\ (word[c] # "done" => started[c] = 0)
  /\ \A c \in Tokens \ Readable : started[c] <= 1 /\ (c \notin tokens => started[c] = 0)

Past == Outran(Len(ran) + 1)
Silent(h) == h \in DOMAIN ModTerms /\ ModTerms[h] = 0
\* The handlers that are left, in the order of their registration.
HandlersOK ==
  /\ handlers \in Seq(Nat) /\ registered \in Nat /\ ran \in Seq(Records)
  /\ \A i, j \in 1..Len(handlers) :
       i < j /\ handlers[i] # 0 /\ handlers[j] # 0 => handlers[i] < handlers[j]
  /\ \A i \in 1..Len(handlers) :
       handlers[i] # 0 => handlers[i] <= registered /\ handlers[i] \notin Past
  /\ \A h \in 1..registered :
       h \in Past \/ Silent(h) \/ \E i \in 1..Len(handlers) : handlers[i] = h
  /\ \A h \in Past : h <= registered
  /\ HandlersRan

CallbacksInv == FramesOK /\ OnceOK /\ HandlersOK

\* The greatest of some of the first n numbers.
LEMMA GreatestOne ==
  ASSUME NEW n \in Nat, NEW T, T \subseteq 1..n, T # {}
  PROVE  Max(T) \in T /\ \A y \in T : y <= Max(T)
<1> DEFINE R == OpToRel(<, Nat)
           D == {d \in 0..n : n - d \in T}
<1>1. D \subseteq Nat
  OBVIOUS
<1>2. D # {}
  <2>1. PICK x \in T : TRUE
    OBVIOUS
  <2>2. x \in 1..n
    BY <2>1
  <2>3. n - (n - x) = x /\ n - x \in 0..n
    BY <2>2
  <2> QED BY <2>1, <2>3
<1>3. IsWellFoundedOn(R, Nat)
  BY NatLessThanWellFounded
<1>4. \A x, y \in D : <<y, x>> \in R <=> y < x
  BY <1>1, LessThan
<1>5. \A y \in T : n - y \in D
  <2> SUFFICES ASSUME NEW y \in T PROVE n - y \in D
    OBVIOUS
  <2>1. y \in 1..n
    OBVIOUS
  <2>2. n - (n - y) = y /\ n - y \in 0..n
    BY <2>1
  <2> QED BY <2>2
<1>6. \A d \in D : d \in 0..n /\ n - d \in T
  OBVIOUS
<1> HIDE DEF R, D
<1>7. PICK d \in D : \A e \in D : ~(<<e, d>> \in R)
  BY <1>1, <1>2, <1>3, WFMin
<1>8. n - d \in T /\ \A e \in D : ~(e < d)
  BY <1>4, <1>6, <1>7
<1>9. \A y \in T : n - d >= y
  BY <1>5, <1>6, <1>8
<1>10. Max(T) = CHOOSE m \in T : \A y \in T : m >= y
  BY DEF Max
<1>11. (CHOOSE m \in T : \A y \in T : m >= y) \in T
       /\ \A y \in T : (CHOOSE m \in T : \A z \in T : m >= z) >= y
  BY <1>8, <1>9, Zenon
<1> QED BY <1>10, <1>11

LEMMA NextHandlerIs ==
  ASSUME handlers \in Seq(Nat)
  PROVE  /\ NextHandler # 0 => /\ NextHandler \in 1..Len(handlers)
                               /\ handlers[NextHandler] # 0
                               /\ \A i \in 1..Len(handlers) : handlers[i] # 0 => i <= NextHandler
         /\ NextHandler = 0 => \A i \in 1..Len(handlers) : handlers[i] = 0
<1> DEFINE I == {i \in 1..Len(handlers) : handlers[i] # 0}
<1>1. NextHandler = IF I # {} THEN Max(I) ELSE 0
  BY DEF NextHandler, SelectLastInSeq
<1>2. Len(handlers) \in Nat
  BY LenProperties
<1>3. I \subseteq 1..Len(handlers)
  OBVIOUS
<1>4. \A i : i \in I <=> i \in 1..Len(handlers) /\ handlers[i] # 0
  OBVIOUS
<1> HIDE DEF I
<1>5. I # {} => Max(I) \in I /\ \A y \in I : y <= Max(I)
  BY <1>2, <1>3, GreatestOne
<1>6. Max(I) \in I => Max(I) # 0
  BY <1>2, <1>3
<1> QED BY <1>1, <1>4, <1>5, <1>6

LEMMA RemoveAtFacts ==
  ASSUME NEW S, NEW s \in Seq(S), NEW k \in 1..Len(s)
  PROVE  /\ RemoveAt(s, k) \in Seq(S) /\ Len(RemoveAt(s, k)) = Len(s) - 1
         /\ \A i \in 1..(Len(s) - 1) : RemoveAt(s, k)[i] = IF i < k THEN s[i] ELSE s[i + 1]
<1> DEFINE a == SubSeq(s, 1, k - 1)
           b == SubSeq(s, k + 1, Len(s))
           n == Len(s)
<1>1. n \in Nat /\ k \in 1..n /\ \A i \in 1..n : s[i] \in S
  BY LenProperties, ElementOfSeq
<1>2. \A i \in 1..(k - 1) : s[i] \in S
  BY <1>1
<1>3. \A i \in (k + 1)..n : s[i] \in S
  BY <1>1
<1>4. a \in Seq(S) /\ Len(a) = k - 1 /\ \A i \in 1..(k - 1) : a[i] = s[i]
  <2>1. /\ SubSeq(s, 1, k - 1) \in Seq(S)
        /\ Len(SubSeq(s, 1, k - 1)) = IF 1 <= k - 1 THEN k - 1 - 1 + 1 ELSE 0
        /\ \A i \in 1..(k - 1 - 1 + 1) : SubSeq(s, 1, k - 1)[i] = s[1 + i - 1]
    BY <1>1, <1>2, SubSeqProperties, SMTT(30)
  <2> QED BY <1>1, <2>1
<1>5. b \in Seq(S) /\ Len(b) = n - k /\ \A i \in 1..(n - k) : b[i] = s[k + i]
  <2>1. /\ SubSeq(s, k + 1, n) \in Seq(S)
        /\ Len(SubSeq(s, k + 1, n)) = IF k + 1 <= n THEN n - (k + 1) + 1 ELSE 0
        /\ \A i \in 1..(n - (k + 1) + 1) : SubSeq(s, k + 1, n)[i] = s[(k + 1) + i - 1]
    BY <1>1, <1>3, SubSeqProperties, SMTT(30)
  <2> QED BY <1>1, <2>1
<1>6. RemoveAt(s, k) = a \o b
  BY DEF RemoveAt
<1> HIDE DEF a, b, n
<1>7. /\ a \o b \in Seq(S) /\ Len(a \o b) = Len(a) + Len(b)
      /\ \A i \in 1..(Len(a) + Len(b)) : (a \o b)[i] = IF i <= Len(a) THEN a[i] ELSE b[i - Len(a)]
  BY <1>4, <1>5, ConcatProperties
<1>8. \A i \in 1..(n - 1) : (a \o b)[i] = IF i < k THEN s[i] ELSE s[i + 1]
  <2> TAKE i \in 1..(n - 1)
  <2>1. CASE i < k
    BY <2>1, <1>1, <1>4, <1>5, <1>7
  <2>2. CASE ~(i < k)
    <3>1. i - (k - 1) \in 1..(n - k) /\ k + (i - (k - 1)) = i + 1 /\ ~(i <= k - 1)
      BY <2>2, <1>1
    <3>2. i \in 1..(Len(a) + Len(b)) /\ ~(i <= Len(a)) /\ Len(a) = k - 1
      BY <3>1, <1>1, <1>4, <1>5
    <3>3. (a \o b)[i] = b[i - (k - 1)]
      BY <3>2, <1>7
    <3>4. b[i - (k - 1)] = s[i + 1]
      BY <3>1, <1>5
    <3> QED BY <2>2, <3>3, <3>4
  <2> QED BY <2>1, <2>2
<1>9. Len(a \o b) = n - 1
  BY <1>1, <1>4, <1>5, <1>7
<1> QED BY <1>6, <1>7, <1>8, <1>9 DEF n

\* Calls in progress.

LEMMA Pushed ==
  ASSUME NEW q \in Seq(Backs), NEW b \in Backs
  PROVE  /\ Append(q, b) \in Seq(Backs)
         /\ \A i \in DOMAIN Append(q, b) :
              \/ i \in DOMAIN q /\ Append(q, b)[i] = q[i]
              \/ i = Len(q) + 1 /\ Append(q, b)[i] = b
<1>1. /\ Append(q, b) \in Seq(Backs) /\ Len(Append(q, b)) = Len(q) + 1 /\ Len(q) \in Nat
      /\ \A i \in 1..Len(q) : Append(q, b)[i] = q[i]
      /\ Append(q, b)[Len(q) + 1] = b
  BY AppendProperties, LenProperties
<1>2. DOMAIN Append(q, b) = 1..(Len(q) + 1) /\ DOMAIN q = 1..Len(q)
  BY <1>1, LenProperties
<1> QED BY <1>1, <1>2

LEMMA Popped ==
  ASSUME NEW q \in Seq(Backs), q # <<>>
  PROVE  /\ Front(q) \in Seq(Backs) /\ Len(Front(q)) = Len(q) - 1 /\ Len(q) \in Nat \ {0}
         /\ Len(q) \in DOMAIN q
         /\ \A i \in DOMAIN Front(q) : i \in DOMAIN q /\ Front(q)[i] = q[i]
<1> DEFINE n == Len(q)
<1>1. n \in Nat \ {0} /\ DOMAIN q = 1..n /\ \A i \in 1..n : q[i] \in Backs
  BY EmptySeq, LenProperties, ElementOfSeq
<1>2. \A i \in 1..(n - 1) : q[i] \in Backs
  BY <1>1
<1>3. /\ SubSeq(q, 1, n - 1) \in Seq(Backs)
      /\ Len(SubSeq(q, 1, n - 1)) = IF 1 <= n - 1 THEN n - 1 - 1 + 1 ELSE 0
      /\ \A i \in 1..(n - 1 - 1 + 1) : SubSeq(q, 1, n - 1)[i] = q[1 + i - 1]
  BY <1>1, <1>2, SubSeqProperties, SMTT(30)
<1>4. Front(q) = SubSeq(q, 1, n - 1)
  BY DEF Front
<1> HIDE DEF n
<1>5. Front(q) \in Seq(Backs) /\ Len(Front(q)) = n - 1 /\ \A i \in 1..(n - 1) : Front(q)[i] = q[i]
  BY <1>1, <1>3, <1>4
<1>6. DOMAIN Front(q) = 1..(n - 1)
  BY <1>5, LenProperties
<1> QED BY <1>1, <1>5, <1>6 DEF n

\* What is left of the calls of the running thread: none, or all but the youngest.
LEMMA BaseFacts ==
  ASSUME FramesOK, NEW base,
         base = <<>> \/ (frames[onCpu] # <<>> /\ base = Front(frames[onCpu]))
  PROVE  base \in Seq(Backs) /\ \A i \in DOMAIN base : i \in DOMAIN frames[onCpu] /\ base[i] = frames[onCpu][i]
<1>1. frames[onCpu] \in Seq(Backs)
  BY DEF FramesOK
<1>2. CASE base = <<>>
  <2>1. <<>> \in Seq(Backs) /\ DOMAIN <<>> = {}
    BY EmptySeq
  <2> QED BY <1>2, <2>1
<1>3. CASE frames[onCpu] # <<>> /\ base = Front(frames[onCpu])
  BY <1>1, <1>3, Popped
<1> QED BY <1>2, <1>3

\* The running thread's calls become others without a new trampoline.
LEMMA FramesReplaced ==
  ASSUME FramesOK, NEW q \in Seq(Backs),
         \A i \in DOMAIN q :
           q[i] = "trampoline" => i \in DOMAIN frames[onCpu] /\ frames[onCpu][i] = "trampoline",
         frames' = [frames EXCEPT ![onCpu] = q],
         onCpu' \in Threads, ready' \subseteq Workers, slot' = slot, overlapped' = overlapped,
         astray' \in BOOLEAN, astray' => overlapped
  PROVE  FramesOK'
<1>1. onCpu \in Threads /\ frames \in [Threads -> Seq(Backs)]
  BY DEF FramesOK
<1>2. frames' \in [Threads -> Seq(Backs)]
  BY <1>1
<1>3. Back(frames, slot) => Back(frames', slot)
  BY <1>1, <1>2 DEF Back
<1>4. ~overlapped' => Back(frames', slot')
  BY <1>3 DEF FramesOK
<1> QED BY <1>2, <1>4 DEF FramesOK, Back

LEMMA FramesSame ==
  ASSUME FramesOK, UNCHANGED <<frames, slot, overlapped, astray>>,
         onCpu' \in Threads, ready' \subseteq Workers
  PROVE  FramesOK'
BY DEF FramesOK, Back

LEMMA OnceSame == OnceOK /\ UNCHANGED oncevars => OnceOK'
BY DEF OnceOK, oncevars

LEMMA HandlersSame == HandlersOK /\ UNCHANGED exitvars => HandlersOK'
<1> SUFFICES ASSUME HandlersOK, UNCHANGED exitvars PROVE HandlersOK'
  OBVIOUS
<1>1. handlers' = handlers /\ registered' = registered /\ ran' = ran /\ over' = over
  BY DEF exitvars
<1>2. Past' = Past
  BY <1>1 DEF Past, Outran
<1>3. HandlersRan'
  BY <1>1 DEF HandlersOK, HandlersRan, Outran
<1> QED BY <1>1, <1>2, <1>3 DEF HandlersOK, Silent


LEMMA EnterStep ==
  ASSUME FramesOK, Enter("caller"), UNCHANGED <<threadvars, slot, overlapped, astray>>
  PROVE  FramesOK'
<1>1. /\ onCpu \in Threads /\ ready \subseteq Workers /\ frames[onCpu] \in Seq(Backs)
      /\ astray \in BOOLEAN /\ (astray => overlapped)
  BY DEF FramesOK
<1>2. frames' = [frames EXCEPT ![onCpu] = Append(frames[onCpu], "caller")]
  BY DEF Enter
<1>3. "caller" \in Backs /\ "caller" # "trampoline"
  BY DEF Backs
<1> DEFINE q == Append(frames[onCpu], "caller")
<1>4. q \in Seq(Backs) /\ \A i \in DOMAIN q :
        q[i] = "trampoline" => i \in DOMAIN frames[onCpu] /\ frames[onCpu][i] = "trampoline"
  BY <1>1, <1>3, Pushed
<1>5. frames' = [frames EXCEPT ![onCpu] = q]
  BY <1>2
<1>6. /\ onCpu' = onCpu /\ ready' = ready /\ slot' = slot
      /\ overlapped' = overlapped /\ astray' = astray
  BY DEF threadvars
<1>7. astray' \in BOOLEAN /\ (astray' => overlapped)
  BY <1>1, <1>6
<1> HIDE DEF q
<1>8. PICK r \in Seq(Backs) : r = q
  BY <1>4
<1>9. /\ r \in Seq(Backs)
      /\ \A i \in DOMAIN r :
           r[i] = "trampoline" => i \in DOMAIN frames[onCpu] /\ frames[onCpu][i] = "trampoline"
      /\ frames' = [frames EXCEPT ![onCpu] = r]
  BY <1>4, <1>5, <1>8
<1> QED BY <1>1, <1>6, <1>7, <1>9, FramesReplaced, Zenon

\* Once.

LEMMA InitCallbacks == CallbacksInit => CallbacksInv
<1> SUFFICES ASSUME CallbacksInit PROVE CallbacksInv
  OBVIOUS
<1>1. <<>> \in Seq(Backs) /\ <<>> \in Seq(Records) /\ DOMAIN <<>> = {} /\ Len(<<>>) = 0
  BY EmptySeq
<1>2. FramesOK
  BY <1>1 DEF CallbacksInit, FramesOK, Back, Threads
<1>3. OnceOK
  BY CallbacksAssumption DEF CallbacksInit, OnceOK
<1>4. Past = {}
  BY <1>1 DEF CallbacksInit, Past, Outran
<1>5. /\ handlers = ModTerms /\ ModTerms \in Seq(Nat) /\ Len(ModTerms) \in Nat
      /\ registered = Len(ModTerms) /\ ran = <<>> /\ over = FALSE
      /\ DOMAIN ModTerms = 1..Len(ModTerms)
      /\ \A i \in 1..Len(ModTerms) : ModTerms[i] = 0 \/ ModTerms[i] = i
  BY CallbacksAssumption, LenProperties DEF CallbacksInit
<1>6. HandlersRan
  BY <1>1, <1>5 DEF HandlersRan
<1>7. HandlersOK
  BY <1>1, <1>4, <1>5, <1>6 DEF HandlersOK, Silent
<1> QED BY <1>2, <1>3, <1>7 DEF CallbacksInv

LEMMA MarkedWords ==
  ASSUME OnceOK, NEW c \in Controls \cup Tokens, word' = Marked(c)
  PROVE  /\ word' \in [Controls \cup Tokens -> {"fresh", "done"}]
         /\ c \in Readable => word'[c] = "done"
         /\ \A e \in Controls \cup Tokens : e # c => word'[e] = word[e]
BY DEF OnceOK, Marked

\* A routine begins for a word that was not done, and that is noted from then on.
LEMMA BegunOnce ==
  ASSUME OnceOK, NEW c \in Controls \cup Tokens, word' = Marked(c),
         c \in Readable => word[c] # "done",
         c \in Tokens \ Readable => c \notin tokens /\ tokens' = tokens \cup {c},
         c \notin Tokens \ Readable => UNCHANGED tokens,
         started' = [started EXCEPT ![c] = @ + 1] \/ UNCHANGED started
  PROVE  OnceOK'
<1>1. /\ word' \in [Controls \cup Tokens -> {"fresh", "done"}]
      /\ c \in Readable => word'[c] = "done"
      /\ \A e \in Controls \cup Tokens : e # c => word'[e] = word[e]
  BY MarkedWords
<1>2. started' \in [Controls \cup Tokens -> Nat]
  BY DEF OnceOK
<1>3. started'[c] = started[c] + 1 \/ started'[c] = started[c]
  BY DEF OnceOK
<1>4. \A e \in Controls \cup Tokens : e # c => started'[e] = started[e]
  BY DEF OnceOK
<1>5. c \in Readable \cup Tokens => started[c] = 0
  BY DEF OnceOK
<1>6. \A e \in Readable : started'[e] <= 1 /\ (word'[e] # "done" => started'[e] = 0)
  <2> TAKE e \in Readable
  <2>1. e \in Controls \cup Tokens
    BY CallbacksAssumption
  <2>2. CASE e = c
    BY <2>2, <1>1, <1>3, <1>5
  <2>3. CASE e # c
    BY <2>1, <2>3, <1>1, <1>4 DEF OnceOK
  <2> QED BY <2>2, <2>3
<1>7. \A e \in Tokens \ Readable : started'[e] <= 1 /\ (e \notin tokens' => started'[e] = 0)
  <2> TAKE e \in Tokens \ Readable
  <2>1. CASE e = c
    BY <2>1, <1>3, <1>5
  <2>2. CASE e # c
    BY <2>2, <1>4 DEF OnceOK
  <2> QED BY <2>1, <2>2
<1> QED BY <1>1, <1>2, <1>6, <1>7 DEF OnceOK

LEMMA PthreadOnceStep ==
  ASSUME CallbacksInv, NEW c \in Controls, NEW routine \in BOOLEAN, PthreadOnce(c, routine)
  PROVE  CallbacksInv'
<1>1. c \notin Tokens \ Readable
  BY CallbacksAssumption
<1>2. /\ word[c] # "done" /\ word' = Marked(c) /\ UNCHANGED tokens
      /\ started' = [started EXCEPT ![c] = @ + 1] \/ UNCHANGED started
      /\ UNCHANGED threadvars /\ UNCHANGED exitvars /\ UNCHANGED astray
  BY DEF PthreadOnce, Imported
<1>3. OnceOK'
  BY <1>1, <1>2, BegunOnce DEF CallbacksInv
<1>4. HandlersOK'
  BY <1>2, HandlersSame DEF CallbacksInv
<1>5. FramesOK'
  <2>1. CASE ~routine
    BY <2>1, FramesSame DEF CallbacksInv, FramesOK, PthreadOnce, Imported, threadvars
  <2>2. CASE routine
    <3> DEFINE q == Append(frames[onCpu], "trampoline")
    <3>1. /\ frames' = [frames EXCEPT ![onCpu] = q]
          /\ slot' = [thread |-> onCpu, depth |-> Len(frames[onCpu])]
          /\ overlapped' = (overlapped \/ InOnce)
      BY <2>2 DEF PthreadOnce, Enter, HereNow
    <3>2. /\ onCpu \in Threads /\ frames \in [Threads -> Seq(Backs)]
          /\ frames[onCpu] \in Seq(Backs) /\ "trampoline" \in Backs
      BY DEF CallbacksInv, FramesOK, Backs
    <3>3. /\ q \in Seq(Backs) /\ Len(frames[onCpu]) \in Nat
          /\ \A i \in DOMAIN q : \/ i \in DOMAIN frames[onCpu] /\ q[i] = frames[onCpu][i]
                                 \/ i = Len(frames[onCpu]) + 1
      BY <3>2, Pushed, LenProperties
    <3> HIDE DEF q
    <3>4. frames' \in [Threads -> Seq(Backs)]
      BY <3>1, <3>2, <3>3
    <3>5. ~overlapped' => Back(frames', slot')
      <4> SUFFICES ASSUME ~InOnce, NEW t \in Threads, NEW i \in DOMAIN frames'[t],
                          frames'[t][i] = "trampoline"
                   PROVE  slot' = [thread |-> t, depth |-> i - 1]
        BY <3>1 DEF Back
      <4>1. \A u \in Threads : \A j \in DOMAIN frames[u] : frames[u][j] # "trampoline"
        BY DEF InOnce
      <4>2. t = onCpu
        BY <3>1, <3>2, <4>1
      <4>3. frames'[t] = q
        BY <3>1, <3>2, <4>2
      <4>4. i = Len(frames[onCpu]) + 1
        BY <3>2, <3>3, <4>1, <4>3
      <4>5. i - 1 = Len(frames[onCpu])
        BY <3>3, <4>4
      <4> QED BY <3>1, <4>2, <4>5
    <3>6. overlapped' \in BOOLEAN /\ (overlapped => overlapped')
      BY <3>1 DEF CallbacksInv, FramesOK
    <3> QED BY <1>2, <3>4, <3>5, <3>6 DEF CallbacksInv, FramesOK, Back, threadvars
  <2> QED BY <2>1, <2>2
<1> QED BY <1>3, <1>4, <1>5 DEF CallbacksInv

LEMMA DispatchOnceStep ==
  ASSUME CallbacksInv, NEW c \in Tokens, NEW function \in BOOLEAN, DispatchOnce(c, function)
  PROVE  CallbacksInv'
<1>1. /\ ShouldCall(c) /\ word' = Marked(c)
      /\ tokens' = IF c \in Readable THEN tokens ELSE tokens \cup {c}
      /\ started' = [started EXCEPT ![c] = @ + 1] \/ UNCHANGED started
      /\ UNCHANGED <<threadvars, slot, overlapped, astray>> /\ UNCHANGED exitvars
      /\ Enter("caller") \/ UNCHANGED frames
  BY DEF DispatchOnce, Imported
<1>2. OnceOK'
  BY <1>1, BegunOnce DEF CallbacksInv, ShouldCall
<1>3. HandlersOK'
  BY <1>1, HandlersSame DEF CallbacksInv
<1>4. FramesOK'
  BY <1>1, EnterStep, FramesSame DEF CallbacksInv, FramesOK, threadvars
<1> QED BY <1>2, <1>3, <1>4 DEF CallbacksInv

LEMMA ReuseStep ==
  ASSUME CallbacksInv, NEW c \in Controls \cup Tokens, Reuse(c) PROVE CallbacksInv'
<1>1. /\ c \in Readable
      /\ word' = [word EXCEPT ![c] = "fresh"] /\ started' = [started EXCEPT ![c] = 0]
      /\ UNCHANGED <<threadvars, frames, tokens, slot, overlapped, astray>> /\ UNCHANGED exitvars
  BY DEF Reuse, Imported
<1>2. FramesOK'
  BY <1>1, FramesSame DEF CallbacksInv, FramesOK, threadvars
<1>3. OnceOK'
  BY <1>1, CallbacksAssumption DEF CallbacksInv, OnceOK
<1> QED BY <1>1, <1>2, <1>3, HandlersSame DEF CallbacksInv

\* Exit handlers.

LEMMA AtexitStep == ASSUME CallbacksInv, Atexit PROVE CallbacksInv'
<1> DEFINE n == Len(handlers)
           q == Append(handlers, registered + 1)
<1>1. /\ registered' = registered + 1 /\ handlers' = q /\ ~over
      /\ UNCHANGED <<threadvars, frames, slot, overlapped, astray>> /\ UNCHANGED oncevars
      /\ UNCHANGED <<ran, over>>
  BY DEF Atexit, Imported, Runs, oncevars
<1>2. FramesOK' /\ OnceOK'
  BY <1>1, FramesSame, OnceSame DEF CallbacksInv, FramesOK, threadvars
<1>3. /\ handlers \in Seq(Nat) /\ n \in Nat /\ registered \in Nat
      /\ \A i \in 1..n : handlers[i] \in Nat
  BY LenProperties, ElementOfSeq DEF CallbacksInv, HandlersOK
<1>4. registered + 1 \in Nat
  BY <1>3
<1>5. /\ q \in Seq(Nat) /\ Len(q) = n + 1
      /\ \A i \in 1..n : q[i] = handlers[i]
      /\ q[n + 1] = registered + 1
  BY <1>3, <1>4, AppendProperties
<1> HIDE DEF n, q
<1>6. \A i \in 1..(n + 1) : i \in 1..n \/ i = n + 1
  BY <1>3
<1>7. Past' = Past /\ HandlersRan'
  BY <1>1 DEF CallbacksInv, HandlersOK, HandlersRan, Past, Outran
<1>8. \A i, j \in 1..Len(q) : i < j /\ q[i] # 0 /\ q[j] # 0 => q[i] < q[j]
  <2> SUFFICES ASSUME NEW i \in 1..(n + 1), NEW j \in 1..(n + 1), i < j, q[i] # 0, q[j] # 0
               PROVE  q[i] < q[j]
    BY <1>5
  <2>1. i \in 1..n /\ q[i] = handlers[i] /\ handlers[i] <= registered
    BY <1>3, <1>5 DEF CallbacksInv, HandlersOK, n
  <2>2. CASE j \in 1..n
    BY <2>1, <2>2, <1>5 DEF CallbacksInv, HandlersOK, n
  <2>3. CASE j = n + 1
    BY <2>1, <2>3, <1>3, <1>5
  <2> QED BY <2>2, <2>3, <1>6
<1>9. \A i \in 1..Len(q) : q[i] # 0 => q[i] <= registered + 1 /\ q[i] \notin Past
  <2> SUFFICES ASSUME NEW i \in 1..(n + 1), q[i] # 0
               PROVE  q[i] <= registered + 1 /\ q[i] \notin Past
    BY <1>5
  <2>1. CASE i \in 1..n
    <3>1. q[i] = handlers[i] /\ handlers[i] <= registered /\ handlers[i] \notin Past
      BY <2>1, <1>5 DEF CallbacksInv, HandlersOK, n
    <3> QED BY <3>1, <2>1, <1>3
  <2>2. CASE i = n + 1
    <3>1. \A h \in Past : h <= registered
      BY DEF CallbacksInv, HandlersOK
    <3> QED BY <3>1, <2>2, <1>3, <1>5
  <2> QED BY <2>1, <2>2, <1>6
<1>10. \A h \in 1..(registered + 1) :
         h \in Past \/ Silent(h) \/ \E i \in 1..Len(q) : q[i] = h
  <2> TAKE h \in 1..(registered + 1)
  <2>1. CASE h = registered + 1
    BY <2>1, <1>3, <1>5
  <2>2. CASE h \in 1..registered
    <3>1. h \in Past \/ Silent(h) \/ \E i \in 1..n : handlers[i] = h
      BY <2>2 DEF CallbacksInv, HandlersOK, n
    <3>2. \A i \in 1..n : i \in 1..Len(q)
      BY <1>3, <1>5
    <3> QED BY <3>1, <3>2, <1>5
  <2> QED BY <2>1, <2>2, <1>3
<1>11. \A h \in Past : h <= registered + 1
  <2>1. \A h \in Past : h <= registered /\ h \in Nat
    <3>1. \A i \in 1..Len(ran) : ran[i] \in Records
      BY ElementOfSeq DEF CallbacksInv, HandlersOK
    <3>2. Len(ran) \in Nat
      BY LenProperties DEF CallbacksInv, HandlersOK
    <3>3. Past \subseteq Nat
      BY <3>1, <3>2 DEF Past, Outran, Records
    <3> QED BY <3>3 DEF CallbacksInv, HandlersOK
  <2> QED BY <2>1, <1>3
<1>12. HandlersOK'
  <2>1. handlers' = q /\ registered' = registered + 1 /\ ran' = ran
    BY <1>1
  <2>2. ran \in Seq(Records)
    BY DEF CallbacksInv, HandlersOK
  <2> QED BY <2>1, <2>2, <1>4, <1>5, <1>7, <1>8, <1>9, <1>10, <1>11 DEF HandlersOK, Silent
<1> QED BY <1>2, <1>12 DEF CallbacksInv

\* done_addr runs the youngest handler that is left: those registered after it have run.
LEMMA HandlerRuns ==
  ASSUME HandlersOK, NextHandler # 0,
         ran' = Append(ran, [handler |-> handlers[NextHandler], among |-> registered]),
         handlers' = RemoveAt(handlers, NextHandler),
         UNCHANGED <<registered, over>>, ~over
  PROVE  HandlersOK'
<1> DEFINE n == Len(handlers)
           m == Len(ran)
           q == RemoveAt(handlers, NextHandler)
           e == [handler |-> handlers[NextHandler], among |-> registered]
           r == Append(ran, e)
<1>1. PICK k \in 1..n : /\ k = NextHandler /\ handlers[k] # 0
                        /\ \A i \in 1..n : handlers[i] # 0 => i <= k
  BY NextHandlerIs DEF HandlersOK
<1>2. /\ n \in Nat /\ m \in Nat /\ registered \in Nat
      /\ \A i \in 1..n : handlers[i] \in Nat
      /\ \A i \in 1..m : ran[i] \in Records
  BY LenProperties, ElementOfSeq DEF HandlersOK
<1>3. e \in Records /\ e.handler = handlers[k] /\ e.among = registered
  BY <1>1, <1>2 DEF Records
<1>4. /\ q \in Seq(Nat) /\ Len(q) = n - 1
      /\ \A i \in 1..(n - 1) : q[i] = IF i < k THEN handlers[i] ELSE handlers[i + 1]
  <2>1. q = RemoveAt(handlers, k)
    BY <1>1
  <2>2. handlers \in Seq(Nat)
    BY DEF HandlersOK
  <2> HIDE DEF q
  <2> QED BY <2>1, <2>2, RemoveAtFacts
<1> HIDE DEF e
<1>5. /\ r \in Seq(Records) /\ Len(r) = m + 1
      /\ \A i \in 1..m : r[i] = ran[i]
      /\ r[m + 1] = e
  BY <1>3, AppendProperties DEF HandlersOK
<1> HIDE DEF q, r
<1>6. handlers' = q /\ ran' = r /\ registered' = registered /\ over' = over
  BY DEF q, r, e
<1>7. Past = {ran[j].handler : j \in 1..m}
  BY <1>2 DEF Past, Outran
<1>8. \A i \in 1..(m + 1) : Outran(i)' = Outran(i)
  <2> TAKE i \in 1..(m + 1)
  <2>1. \A j \in 1..(i - 1) : r[j] = ran[j]
    BY <1>2, <1>5
  <2> QED BY <2>1, <1>6 DEF Outran
<1>9. \A i \in 1..(m + 1) : i = m + 1 => Outran(i) = Past
  BY DEF Past
<1>10. Past' = Past \cup {handlers[k]}
  <2>1. Past' = {r[j].handler : j \in 1..(m + 1)}
    <3>1. Past' = {ran'[j].handler : j \in 1..(Len(ran') + 1 - 1)}
      BY DEF Past, Outran
    <3>2. Len(ran') + 1 - 1 = m + 1
      BY <1>2, <1>5, <1>6
    <3>3. Past' = {ran'[j].handler : j \in 1..(m + 1)}
      BY <3>1, <3>2
    <3> QED BY <1>6, <3>3, Zenon
  <2>2. \A j \in 1..m : r[j].handler = ran[j].handler
    BY <1>5
  <2>3. \A j \in 1..(m + 1) : j \in 1..m \/ j = m + 1
    BY <1>2
  <2>4. \A j \in 1..m : j \in 1..(m + 1)
    BY <1>2
  <2>5. m + 1 \in 1..(m + 1)
    BY <1>2
  <2> QED BY <2>1, <2>2, <2>3, <2>4, <2>5, <1>3, <1>5, <1>7
<1>11. /\ handlers[k] \notin Past /\ handlers[k] <= registered
       /\ handlers[k] \in Nat \ {0}
  BY <1>1, <1>2 DEF HandlersOK, n
\* where each handler that stays was
<1>12. \A i \in 1..Len(q) : \E j \in 1..n : j # k /\ q[i] = handlers[j] /\ (i < k => j = i) /\ (~(i < k) => j = i + 1)
  <2> TAKE i \in 1..Len(q)
  <2>1. i \in 1..(n - 1) /\ k \in Nat
    BY <1>1, <1>2, <1>4
  <2>2. CASE i < k
    <3>1. i \in 1..n /\ i # k /\ q[i] = handlers[i]
      BY <2>1, <2>2, <1>2, <1>4
    <3> QED BY <3>1, <2>2
  <2>3. CASE ~(i < k)
    <3>1. i + 1 \in 1..n /\ i + 1 # k /\ q[i] = handlers[i + 1]
      BY <2>1, <2>3, <1>2, <1>4
    <3> QED BY <3>1, <2>3
  <2> QED BY <2>2, <2>3
<1>13. \A i, j \in 1..Len(q) : i < j /\ q[i] # 0 /\ q[j] # 0 => q[i] < q[j]
  <2> SUFFICES ASSUME NEW i \in 1..Len(q), NEW j \in 1..Len(q), i < j, q[i] # 0, q[j] # 0
               PROVE  q[i] < q[j]
    OBVIOUS
  <2>1. PICK a \in 1..n : q[i] = handlers[a] /\ (i < k => a = i) /\ (~(i < k) => a = i + 1)
    BY <1>12
  <2>2. PICK b \in 1..n : q[j] = handlers[b] /\ (j < k => b = j) /\ (~(j < k) => b = j + 1)
    BY <1>12
  <2>3. a < b
    <3>1. i \in Nat /\ j \in Nat /\ k \in Nat /\ (i < k \/ ~(j < k))
      BY <1>1, <1>2, <1>4
    <3> QED BY <3>1, <2>1, <2>2
  <2> QED BY <2>1, <2>2, <2>3 DEF HandlersOK, n
\* no two handlers have the same number
<1>14. \A j \in 1..n : j # k /\ handlers[j] # 0 => handlers[j] # handlers[k]
  <2> SUFFICES ASSUME NEW j \in 1..n, j # k, handlers[j] # 0 PROVE handlers[j] # handlers[k]
    OBVIOUS
  <2>1. j < k \/ k < j
    BY <1>1, <1>2
  <2>2. handlers[j] < handlers[k] \/ handlers[k] < handlers[j]
    BY <2>1, <1>1 DEF HandlersOK, n
  <2> QED BY <2>2, <1>2
<1>15. \A i \in 1..Len(q) : q[i] # 0 => q[i] <= registered /\ q[i] \notin Past'
  <2> SUFFICES ASSUME NEW i \in 1..Len(q), q[i] # 0
               PROVE  q[i] <= registered /\ q[i] \notin Past'
    OBVIOUS
  <2>1. PICK j \in 1..n : j # k /\ q[i] = handlers[j]
    BY <1>12
  <2>2. handlers[j] <= registered /\ handlers[j] \notin Past
    BY <2>1 DEF HandlersOK, n
  <2> QED BY <2>1, <2>2, <1>10, <1>14
<1>16. \A h \in 1..registered : h \in Past' \/ Silent(h) \/ \E i \in 1..Len(q) : q[i] = h
  <2> TAKE h \in 1..registered
  <2>1. h \in Past \/ Silent(h) \/ \E j \in 1..n : handlers[j] = h
    BY DEF HandlersOK, n
  <2>2. ASSUME NEW j \in 1..n, handlers[j] = h PROVE h \in Past' \/ \E i \in 1..Len(q) : q[i] = h
    <3>1. CASE j = k
      BY <3>1, <2>2, <1>10
    <3>2. CASE j < k
      <4>1. j \in 1..Len(q) /\ q[j] = handlers[j]
        BY <3>2, <1>1, <1>2, <1>4
      <4> QED BY <4>1, <2>2
    <3>3. CASE k < j
      <4>1. j - 1 \in 1..(n - 1) /\ ~(j - 1 < k) /\ (j - 1) + 1 = j
        BY <3>3, <1>1, <1>2
      <4>2. q[j - 1] = handlers[j] /\ j - 1 \in 1..Len(q)
        BY <4>1, <1>4
      <4> QED BY <4>2, <2>2
    <3> QED BY <3>1, <3>2, <3>3, <1>1, <1>2
  <2> QED BY <2>1, <2>2, <1>10
<1>17. \A h \in Past' : h <= registered
  BY <1>10, <1>11 DEF HandlersOK
\* the handlers registered after the one that runs have run
<1>18. \A h \in (handlers[k] + 1)..registered : h \in Past \/ Silent(h)
  <2> TAKE h \in (handlers[k] + 1)..registered
  <2>1. h \in 1..registered /\ handlers[k] < h
    BY <1>2, <1>11
  <2>2. ASSUME NEW j \in 1..n, handlers[j] = h PROVE FALSE
    <3>1. h # 0 /\ h # handlers[k]
      BY <2>1, <1>2
    <3>2. j < k
      BY <3>1, <2>2, <1>1, <1>2
    <3>3. handlers[j] < handlers[k]
      BY <3>1, <3>2, <2>2, <1>1 DEF HandlersOK, n
    <3> QED BY <3>3, <2>1, <2>2, <1>2
  <2> QED BY <2>1, <2>2 DEF HandlersOK, n
<1>19. HandlersRan'
  <2>1. \A i \in DOMAIN r :
          /\ r[i].handler \notin Outran(i)'
          /\ \A h \in (r[i].handler + 1)..r[i].among : h \in Outran(i)' \/ Silent(h)
    <3> TAKE i \in DOMAIN r
    <3>1. i \in 1..(m + 1) /\ DOMAIN ran = 1..m
      BY <1>5, LenProperties DEF HandlersOK, m
    <3>2. CASE i = m + 1
      BY <3>1, <3>2, <1>3, <1>5, <1>8, <1>9, <1>11, <1>18
    <3>3. CASE i \in 1..m
      <4>1. /\ ran[i].handler \notin Outran(i)
            /\ \A h \in (ran[i].handler + 1)..ran[i].among : h \in Outran(i) \/ Silent(h)
        BY <3>1, <3>3 DEF HandlersOK, HandlersRan, Silent
      <4> QED BY <4>1, <3>1, <3>3, <1>5, <1>8
    <3> QED BY <3>1, <3>2, <3>3, <1>2
  <2>2. ~over'
    BY <1>6
  <2> QED BY <2>1, <2>2, <1>6 DEF HandlersRan, Silent
<1> QED BY <1>2, <1>4, <1>5, <1>6, <1>13, <1>15, <1>16, <1>17, <1>19, ZenonT(60) DEF HandlersOK, Silent

\* The last handler has run: nothing is left of them.
LEMMA HandlersOver ==
  ASSUME HandlersOK, NextHandler = 0, over' = TRUE, handlers' = <<>>,
         registered' = registered, ran' = ran
  PROVE  HandlersOK'
<1>1. <<>> \in Seq(Nat) /\ Len(<<>>) = 0
  BY EmptySeq
<1>2. \A i \in 1..Len(handlers) : handlers[i] = 0
  BY NextHandlerIs DEF HandlersOK
<1>3. \A h \in 1..registered : h \in Past \/ Silent(h)
  BY <1>2 DEF HandlersOK
<1>4. Past' = Past
  BY DEF Past, Outran
<1>5. HandlersRan'
  BY <1>3 DEF HandlersOK, HandlersRan, Past, Outran, Silent
<1> QED BY <1>1, <1>3, <1>4, <1>5 DEF HandlersOK, Silent

\* What is left of the calls, with a frame that is no trampoline on top.
LEMMA TopReplaced ==
  ASSUME FramesOK, NEW base,
         base = <<>> \/ (frames[onCpu] # <<>> /\ base = Front(frames[onCpu])),
         NEW top \in {"parked", "done"}
  PROVE  /\ Append(base, top) \in Seq(Backs)
         /\ \A i \in DOMAIN Append(base, top) : Append(base, top)[i] = "trampoline" =>
              i \in DOMAIN frames[onCpu] /\ frames[onCpu][i] = "trampoline"
<1>1. base \in Seq(Backs) /\ \A i \in DOMAIN base : i \in DOMAIN frames[onCpu] /\ base[i] = frames[onCpu][i]
  BY BaseFacts
<1>2. top \in Backs /\ top # "trampoline"
  BY DEF Backs
<1> QED BY <1>1, <1>2, Pushed

LEMMA DoneAddrStep ==
  ASSUME CallbacksInv, NEW base,
         base = <<>> \/ (frames[onCpu] # <<>> /\ base = Front(frames[onCpu])),
         DoneAddr(base), ~over, UNCHANGED oncevars, UNCHANGED astray
  PROVE  CallbacksInv'
<1>1. /\ onCpu \in Threads /\ ready \subseteq Workers /\ Workers \subseteq Threads
      /\ astray \in BOOLEAN /\ (astray => overlapped)
      /\ FramesOK /\ HandlersOK
  BY DEF CallbacksInv, FramesOK, Threads
<1>2. slot' = slot /\ overlapped' = overlapped /\ astray' = astray
  BY DEF oncevars
<1>3. astray' \in BOOLEAN /\ (astray' => overlapped)
  BY <1>1, <1>2
<1>4. OnceOK'
  BY OnceSame DEF CallbacksInv
<1>5. ASSUME NEW top \in {"parked", "done"}, frames' = [frames EXCEPT ![onCpu] = Append(base, top)],
             onCpu' \in Threads, ready' \subseteq Workers
      PROVE  FramesOK'
  <2>1. /\ Append(base, top) \in Seq(Backs)
        /\ \A i \in DOMAIN Append(base, top) : Append(base, top)[i] = "trampoline" =>
             i \in DOMAIN frames[onCpu] /\ frames[onCpu][i] = "trampoline"
    BY <1>1, TopReplaced
  <2> QED BY <2>1, <1>1, <1>2, <1>3, <1>5, FramesReplaced, Zenon
<1>6. CASE /\ ready # {} /\ frames' = [frames EXCEPT ![onCpu] = Append(base, "parked")]
           /\ \E w \in ready : onCpu' = w /\ ready' = ready \ {w}
           /\ UNCHANGED <<born, exitvars>>
  <2>1. onCpu' \in Threads /\ ready' \subseteq Workers
    BY <1>1, <1>6
  <2>2. FramesOK'
    BY <1>5, <1>6, <2>1
  <2> QED BY <2>2, <1>1, <1>4, <1>6, HandlersSame DEF CallbacksInv
<1>7. CASE /\ NextHandler # 0
           /\ frames' = [frames EXCEPT ![onCpu] = Append(base, "done")]
           /\ ran' = Append(ran, [handler |-> handlers[NextHandler], among |-> registered])
           /\ handlers' = RemoveAt(handlers, NextHandler)
           /\ UNCHANGED <<threadvars, registered, over>>
  <2>1. onCpu' = onCpu /\ ready' = ready /\ registered' = registered /\ over' = over
    BY <1>7 DEF threadvars
  <2>2. FramesOK'
    BY <1>1, <1>5, <1>7, <2>1
  <2>3. HandlersOK'
    BY <1>1, <1>7, <2>1, HandlerRuns
  <2> QED BY <2>2, <2>3, <1>4 DEF CallbacksInv
<1>8. CASE /\ NextHandler = 0
           /\ over' = TRUE /\ handlers' = <<>> /\ frames' = [frames EXCEPT ![onCpu] = base]
           /\ UNCHANGED <<threadvars, registered, ran>>
  <2>1. /\ onCpu' = onCpu /\ ready' = ready /\ registered' = registered /\ ran' = ran
        /\ frames' = [frames EXCEPT ![onCpu] = base]
    BY <1>8 DEF threadvars
  <2>2. /\ base \in Seq(Backs)
        /\ \A i \in DOMAIN base : base[i] = "trampoline" =>
             i \in DOMAIN frames[onCpu] /\ frames[onCpu][i] = "trampoline"
    BY <1>1, BaseFacts
  <2>3. onCpu' \in Threads /\ ready' \subseteq Workers
    BY <1>1, <2>1
  <2>4. FramesOK'
    BY <2>1, <2>2, <2>3, <1>1, <1>2, <1>3, FramesReplaced, Zenon
  <2>5. HandlersOK'
    BY <1>1, <1>8, <2>1, HandlersOver
  <2> QED BY <2>4, <2>5, <1>4 DEF CallbacksInv
<1> QED BY <1>6, <1>7, <1>8 DEF DoneAddr

\* A return through the trampoline finds its call unless two overlapped.
LEMMA ReturnStep == ASSUME CallbacksInv, Return PROVE CallbacksInv'
<1>1. /\ ~over /\ ~astray /\ frames[onCpu] # <<>> /\ UNCHANGED oncevars
      /\ frames[onCpu] \in Seq(Backs) /\ onCpu \in Threads /\ FramesOK
  BY DEF Return, Runs, CallbacksInv, FramesOK
<1>2. PICK base : base = Front(frames[onCpu])
  OBVIOUS
<1>3. CASE Last(frames[onCpu]) = "done"
  <2>1. DoneAddr(base) /\ UNCHANGED astray
    BY <1>2, <1>3 DEF Return
  <2> QED BY <1>1, <1>2, <2>1, DoneAddrStep
<1>4. CASE Last(frames[onCpu]) # "done"
  <2>1. /\ frames' = [frames EXCEPT ![onCpu] = base]
        /\ astray' = (/\ Last(frames[onCpu]) = "trampoline"
                      /\ slot # [thread |-> onCpu, depth |-> Len(base)])
        /\ UNCHANGED <<threadvars, exitvars>>
    BY <1>2, <1>4 DEF Return
  <2>2. /\ base \in Seq(Backs) /\ Len(base) = Len(frames[onCpu]) - 1
        /\ Len(frames[onCpu]) \in DOMAIN frames[onCpu] /\ Len(frames[onCpu]) \in Nat
        /\ \A i \in DOMAIN base : i \in DOMAIN frames[onCpu] /\ base[i] = frames[onCpu][i]
    BY <1>1, <1>2, Popped
  <2>3. astray' => overlapped
    <3> SUFFICES ASSUME ~overlapped, Last(frames[onCpu]) = "trampoline"
                 PROVE  slot = [thread |-> onCpu, depth |-> Len(base)]
      BY <1>1, <2>1 DEF FramesOK
    <3>1. Back(frames, slot)
      BY <1>1 DEF FramesOK
    <3>2. slot = [thread |-> onCpu, depth |-> Len(frames[onCpu]) - 1]
      BY <3>1, <1>1, <2>2 DEF Back, Last
    <3> QED BY <3>2, <2>2
  <2>4. astray' \in BOOLEAN
    BY <2>1
  <2>5. /\ slot' = slot /\ overlapped' = overlapped /\ onCpu' \in Threads /\ ready' \subseteq Workers
    BY <1>1, <2>1 DEF oncevars, threadvars, FramesOK
  <2>6. \A i \in DOMAIN base : base[i] = "trampoline" =>
          i \in DOMAIN frames[onCpu] /\ frames[onCpu][i] = "trampoline"
    BY <2>2
  <2>7. FramesOK'
    BY <1>1, <2>1, <2>2, <2>3, <2>4, <2>5, <2>6, FramesReplaced, Zenon
  <2> QED BY <1>1, <2>1, <2>7, OnceSame, HandlersSame DEF CallbacksInv
<1> QED BY <1>3, <1>4

LEMMA NextCallbacks == CallbacksInv /\ [CallbacksNext]_callbackvars => CallbacksInv'
<1> SUFFICES ASSUME CallbacksInv, [CallbacksNext]_callbackvars PROVE CallbacksInv'
  OBVIOUS
<1>1. /\ onCpu \in Threads /\ ready \subseteq Workers
      /\ FramesOK /\ OnceOK /\ HandlersOK /\ 1 \in Threads /\ Workers \subseteq Threads
  BY DEF CallbacksInv, FramesOK, Threads
<1>2. ASSUME UNCHANGED <<frames, slot, overlapped, astray>>, UNCHANGED oncevars, UNCHANGED exitvars,
             onCpu' \in Threads, ready' \subseteq Workers
      PROVE  CallbacksInv'
  BY <1>1, <1>2, FramesSame, OnceSame, HandlersSame DEF CallbacksInv
<1>3. CASE UNCHANGED callbackvars
  BY <1>1, <1>2, <1>3 DEF callbackvars, oncevars, exitvars
<1>4. ASSUME NEW c \in Controls, NEW routine \in BOOLEAN, PthreadOnce(c, routine) PROVE CallbacksInv'
  BY <1>4, PthreadOnceStep
<1>5. ASSUME NEW c \in Tokens, NEW function \in BOOLEAN, DispatchOnce(c, function) PROVE CallbacksInv'
  BY <1>5, DispatchOnceStep
<1>6. ASSUME NEW c \in Controls \cup Tokens, Reuse(c) PROVE CallbacksInv'
  BY <1>6, ReuseStep
<1>7. CASE DispatchWork
  <2>1. Enter("caller") /\ UNCHANGED <<threadvars, slot, overlapped, astray>>
        /\ UNCHANGED oncevars /\ UNCHANGED exitvars
    BY <1>7 DEF DispatchWork, Imported, oncevars
  <2> QED BY <1>1, <2>1, EnterStep, OnceSame, HandlersSame DEF CallbacksInv
<1>8. CASE Atexit
  BY <1>8, AtexitStep
<1>9. CASE Exit \/ MainReturns
  <2>1. PICK base : base = <<>>
    OBVIOUS
  <2>2. DoneAddr(base) /\ ~over /\ UNCHANGED oncevars /\ UNCHANGED astray
    BY <1>9, <2>1 DEF Exit, MainReturns, Imported, Runs
  <2> QED BY <2>1, <2>2, DoneAddrStep
<1>10. CASE DoneAgain
  <2>1. PICK base : base = Front(frames[onCpu])
    OBVIOUS
  <2>2. DoneAddr(base) /\ ~over /\ UNCHANGED oncevars /\ UNCHANGED astray /\ frames[onCpu] # <<>>
    BY <1>10, <2>1 DEF DoneAgain, Parked
  <2> QED BY <2>1, <2>2, DoneAddrStep
<1>11. CASE Return
  BY <1>11, ReturnStep
<1>12. CASE WorkerReturns
  BY <1>1, <1>2, <1>12 DEF WorkerReturns, oncevars
<1>13. ASSUME NEW w \in Workers, PthreadCreate(w) PROVE CallbacksInv'
  BY <1>1, <1>2, <1>13 DEF PthreadCreate, Imported, oncevars
<1>14. ASSUME NEW w \in Workers, Switch(w) PROVE CallbacksInv'
  <2>1. {onCpu} \ {1} \subseteq Workers
    BY <1>1 DEF Threads
  <2> QED BY <1>1, <1>2, <1>14, <2>1 DEF Switch, oncevars
<1> QED BY <1>3, <1>4, <1>5, <1>6, <1>7, <1>8, <1>9, <1>10, <1>11, <1>12, <1>13, <1>14
        DEF CallbacksNext

\* The slot names the one call the trampoline is to return to, what began is noted,
\* and the handlers that are left are in order and have not run.
THEOREM CallbacksInvariant == CallbacksSpec => []CallbacksInv
BY InitCallbacks, NextCallbacks, PTL DEF CallbacksSpec

\* A once routine begins once while its word is not made fresh, the trampoline
\* returns to its call unless two routines of pthread_once overlapped, and when the
\* run stops each exit handler has run once, the youngest first.
THEOREM CallbacksAreHonest == CallbacksSpec => []CallbacksHonest
<1>1. CallbacksInv => CallbacksHonest
  <2> SUFFICES ASSUME CallbacksInv PROVE OnceBegins /\ OnceReturns /\ HandlersRan
    BY DEF CallbacksHonest
  <2>1. OnceBegins
    BY DEF CallbacksInv, OnceOK, OnceBegins
  <2>2. OnceReturns /\ HandlersRan
    BY DEF CallbacksInv, FramesOK, HandlersOK, OnceReturns
  <2> QED BY <2>1, <2>2
<1> QED BY <1>1, CallbacksInvariant, PTL

-------------------------------------------------------------------------------
(***************************************************************************)
(* CxxObjects.                                                             *)
(***************************************************************************)
Char == Bytes \cup {"nul"}
Headers == [text : Seq(Char), data : Nat, len : Nat, room : Nat]

\* A text, and whether it is what C++ says: all of it or its first bytes.
Meanings == [text : Seq(Char), sure : BOOLEAN]
Agrees(text, meant) == meant.sure => text = Beginning(meant.text)

CxxTyped ==
  /\ header \in [Objects -> Headers] /\ value \in [Objects -> Meanings]
  /\ store \in [1..MaxStores -> Seq(Char)]
  /\ last \in 0..MaxStores /\ allocs \subseteq 1..last
  /\ alive \subseteq Objects

\* The length of an object lies in its block; so does the room of a vector, and a vector
\* without a block has none.
InBlock(o) ==
  IF header[o].data = 0
  THEN o \in Vectors => header[o].room = 0 /\ header[o].len = 0 /\ header[o].text = <<>>
  ELSE /\ header[o].data \in allocs
       /\ header[o].len <= Len(store[header[o].data])
       /\ o \in Vectors => header[o].len <= header[o].room /\ header[o].room <= Len(store[header[o].data])

CxxInv == CxxTyped /\ (\A o \in alive : InBlock(o)) /\ ContainersSound


\* Texts.

LEMMA EmptyText == <<>> \in Seq(Char)
OBVIOUS

LEMMA SameTexts ==
  ASSUME NEW S, NEW s \in Seq(S), NEW t \in Seq(S), Len(s) = Len(t), \A i \in 1..Len(s) : s[i] = t[i]
  PROVE  s = t
OBVIOUS

LEMMA FirstFacts ==
  ASSUME NEW S, NEW s \in Seq(S), NEW n \in 0..Len(s)
  PROVE  First(s, n) \in Seq(S) /\ Len(First(s, n)) = n /\ \A i \in 1..n : First(s, n)[i] = s[i]
<1>1. n \in Nat /\ \A i \in 1..n : s[i] \in S
  OBVIOUS
<1>2. First(s, n) = [i \in 1..n |-> s[i]]
  BY <1>1 DEF First
<1> QED BY <1>1, <1>2

LEMMA SizedFacts ==
  ASSUME NEW S, NEW s \in Seq(S), NEW n \in Nat, NEW c \in S
  PROVE  /\ Sized(s, n, c) \in Seq(S) /\ Len(Sized(s, n, c)) = n
         /\ \A i \in 1..n : Sized(s, n, c)[i] = IF i <= Len(s) THEN s[i] ELSE c
<1>1. Sized(s, n, c) = [i \in 1..n |-> IF i <= Len(s) THEN s[i] ELSE c]
  BY DEF Sized
<1>2. \A i \in 1..n : (IF i <= Len(s) THEN s[i] ELSE c) \in S
  OBVIOUS
<1> QED BY <1>1, <1>2

LEMMA SizedIs ==
  ASSUME NEW S, NEW s \in Seq(S), NEW n \in Nat, NEW c \in S, NEW t \in Seq(S), Len(t) = n,
         \A i \in 1..n : t[i] = IF i <= Len(s) THEN s[i] ELSE c
  PROVE  Sized(s, n, c) = t
<1>1. Sized(s, n, c) = [i \in 1..n |-> IF i <= Len(s) THEN s[i] ELSE c]
  BY DEF Sized
<1> QED BY <1>1

LEMMA SizedSame == ASSUME NEW S, NEW s \in Seq(S), NEW c \in S PROVE Sized(s, Len(s), c) = s
<1>1. Len(s) \in Nat /\ \A i \in 1..Len(s) : s[i] = IF i <= Len(s) THEN s[i] ELSE c
  OBVIOUS
<1> QED BY <1>1, SizedIs

LEMMA SizedAppend == ASSUME NEW S, NEW s \in Seq(S), NEW c \in S PROVE Sized(s, Len(s) + 1, c) = Append(s, c)
<1>1. /\ Append(s, c) \in Seq(S) /\ Len(Append(s, c)) = Len(s) + 1 /\ Len(s) + 1 \in Nat
      /\ \A i \in 1..Len(s) + 1 : Append(s, c)[i] = IF i <= Len(s) THEN s[i] ELSE c
  OBVIOUS
<1> QED BY <1>1, SizedIs

\* The first bytes of what a text was put in front of.
LEMMA FirstOfSized ==
  ASSUME NEW S, NEW s \in Seq(S), NEW n \in Nat, NEW c \in S, Len(s) <= n
  PROVE  First(Sized(s, n, c), Len(s)) = s
<1>1. /\ Sized(s, n, c) \in Seq(S) /\ Len(Sized(s, n, c)) = n
      /\ \A i \in 1..n : Sized(s, n, c)[i] = IF i <= Len(s) THEN s[i] ELSE c
  <2>1. Sized(s, n, c) \in Seq(S) /\ Len(Sized(s, n, c)) = n
    BY SizedFacts
  <2>2. \A i \in 1..n : Sized(s, n, c)[i] = IF i <= Len(s) THEN s[i] ELSE c
    BY DEF Sized
  <2> QED BY <2>1, <2>2
<1>2. Len(s) \in 0..Len(Sized(s, n, c)) /\ Len(s) \in Nat
  BY <1>1
<1>3. /\ First(Sized(s, n, c), Len(s)) \in Seq(S) /\ Len(First(Sized(s, n, c), Len(s))) = Len(s)
      /\ \A i \in 1..Len(s) : First(Sized(s, n, c), Len(s))[i] = Sized(s, n, c)[i]
  BY <1>1, <1>2, FirstFacts
<1>4. \A i \in 1..Len(s) : First(Sized(s, n, c), Len(s))[i] = s[i]
  BY <1>1, <1>2, <1>3
<1> QED BY <1>3, <1>4, SameTexts

LEMMA LeastMost ==
  ASSUME NEW a \in Int, NEW b \in Int
  PROVE  /\ Least(a, b) \in Int /\ Least(a, b) <= a /\ Least(a, b) <= b /\ Least(a, b) \in {a, b}
         /\ Most(a, b) \in Int /\ Most(a, b) >= a /\ Most(a, b) >= b /\ Most(a, b) \in {a, b}
BY DEF Least, Most

LEMMA SureFacts == ASSUME NEW text \in Seq(Char) PROVE Sure(text) \in Meanings
BY DEF Sure, Meanings

\* A text up to the limit.
LEMMA BeginningFacts ==
  ASSUME NEW S, NEW s \in Seq(S)
  PROVE  /\ Beginning(s) \in Seq(S) /\ Len(Beginning(s)) = Least(Len(s), Longest)
         /\ \A i \in 1..Least(Len(s), Longest) : Beginning(s)[i] = s[i]
         /\ Len(s) <= Longest => Beginning(s) = s
<1>1. Least(Len(s), Longest) \in 0..Len(s) /\ Len(s) \in Nat
  BY CxxAssumption DEF Least
<1>2. PICK n \in 0..Len(s) : n = Least(Len(s), Longest)
  BY <1>1
<1>3. First(s, n) \in Seq(S) /\ Len(First(s, n)) = n /\ \A i \in 1..n : First(s, n)[i] = s[i]
  BY FirstFacts
<1>4. Beginning(s) = First(s, n)
  BY <1>2 DEF Beginning
<1>5. ASSUME Len(s) <= Longest PROVE Beginning(s) = s
  <2>1. n = Len(s)
    BY <1>1, <1>2, <1>5, CxxAssumption DEF Least
  <2> QED BY <1>3, <1>4, <2>1, SameTexts
<1> QED BY <1>2, <1>3, <1>4, <1>5

LEMMA EmptyAgrees == Agrees(<<>>, Sure(<<>>))
<1>1. <<>> \in Seq(Char) /\ Len(<<>>) <= Longest
  BY CxxAssumption
<1>2. Beginning(<<>>) = <<>>
  BY <1>1, BeginningFacts
<1> QED BY <1>2 DEF Agrees, Sure

\* What the layer takes of a text of the guest.
LEMMA CappedAgrees ==
  ASSUME NEW text \in Seq(Char)
  PROVE  Capped(text) \in Seq(Char) /\ Agrees(Capped(text), Sure(text))
BY BeginningFacts DEF Agrees, Sure, Capped, Beginning

LEMMA ClippedSum ==
  ASSUME NEW a \in Nat, NEW b \in Nat, NEW most \in Nat, NEW x \in Nat, x = Least(a, most),
         NEW m \in Nat, m = Least(Least(b, most), Most(most, x) - x)
  PROVE  x + m = Least(a + b, most) /\ (m > 0 => x = a)
BY DEF Least, Most

\* What is appended up to the limit is what the whole begins with, up to the limit.
LEMMA AppendedFacts ==
  ASSUME NEW s \in Seq(Char), NEW t \in Seq(Char)
  PROVE  /\ Appended(s, t) \in Seq(Char)
         /\ \A v, w \in Seq(Char) : s = Beginning(v) /\ t = Beginning(w) => Appended(s, t) = Beginning(v \o w)
<1> DEFINE n == Least(Len(t), Most(Longest, Len(s)) - Len(s))
<1>1. Len(s) \in Nat /\ Len(t) \in Nat /\ Longest \in Nat /\ n \in 0..Len(t)
  BY CxxAssumption DEF Least, Most
<1>2. PICK m \in 0..Len(t) : m = n
  BY <1>1
<1>3. First(t, m) \in Seq(Char) /\ Len(First(t, m)) = m /\ \A i \in 1..m : First(t, m)[i] = t[i]
  BY FirstFacts
<1>4. PICK u \in Seq(Char) : u = First(t, m)
  BY <1>3
<1>5. Appended(s, t) = s \o u
  BY <1>2, <1>4 DEF Appended
<1>6. s \o u \in Seq(Char) /\ Len(s \o u) = Len(s) + m
  BY <1>3, <1>4
<1>7. ASSUME NEW v \in Seq(Char), NEW w \in Seq(Char), s = Beginning(v), t = Beginning(w)
      PROVE  s \o u = Beginning(v \o w)
  <2>1. /\ Len(s) = Least(Len(v), Longest) /\ Len(t) = Least(Len(w), Longest)
        /\ \A i \in 1..Len(s) : s[i] = v[i]
        /\ \A i \in 1..Len(t) : t[i] = w[i]
        /\ Len(v) \in Nat /\ Len(w) \in Nat
    BY <1>7, BeginningFacts
  <2>8. v \o w \in Seq(Char)
    OBVIOUS
  <2>2. PICK all \in Seq(Char) : all = v \o w
    BY <2>8
  <2>3. /\ Len(all) = Len(v) + Len(w)
        /\ \A i \in 1..Len(v) : all[i] = v[i]
        /\ \A i \in 1..Len(w) : all[Len(v) + i] = w[i]
    BY <2>2
  <2>4. /\ Beginning(all) \in Seq(Char) /\ Len(Beginning(all)) = Least(Len(all), Longest)
        /\ \A i \in 1..Least(Len(all), Longest) : Beginning(all)[i] = all[i]
    BY BeginningFacts
  <2>9. m \in Nat /\ m = Least(Least(Len(w), Longest), Most(Longest, Len(s)) - Len(s))
    BY <1>1, <1>2, <2>1
  <2>5. Len(s) + m = Least(Len(all), Longest) /\ (m > 0 => Len(s) = Len(v))
    <3>1. Len(s) + m = Least(Len(v) + Len(w), Longest) /\ (m > 0 => Len(s) = Len(v))
      BY <1>1, <2>1, <2>9, ClippedSum
    <3> QED BY <2>3, <3>1
  <2>6. ASSUME NEW i \in 1..Len(s) + m PROVE (s \o u)[i] = all[i]
    <3>1. CASE i <= Len(s)
      <4>1. i \in 1..Len(s) /\ (s \o u)[i] = s[i]
        BY <1>1, <1>4, <1>3, <3>1
      <4>2. i \in 1..Len(v)
        BY <1>1, <2>1, <4>1 DEF Least
      <4> QED BY <2>1, <2>3, <4>1, <4>2
    <3>2. CASE i > Len(s)
      <4>1. PICK k \in 1..m : i = Len(s) + k
        <5>1. i - Len(s) \in 1..m /\ i = Len(s) + (i - Len(s))
          BY <1>1, <3>2
        <5> QED BY <5>1
      <4>2. (s \o u)[i] = u[k]
        BY <1>1, <1>3, <1>4, <4>1
      <4>3. u[k] = t[k]
        BY <1>3, <1>4
      <4>4. k \in 1..Len(t) /\ k \in 1..Len(w) /\ Len(s) = Len(v)
        <5>1. k \in 1..Len(t) /\ m > 0
          BY <1>1, <1>2, <4>1
        <5>2. Len(t) <= Len(w)
          BY <1>1, <2>1 DEF Least
        <5> QED BY <1>1, <2>1, <2>5, <5>1, <5>2
      <4>6. i = Len(v) + k
        BY <4>1, <4>4
      <4>5. all[i] = w[k] /\ t[k] = w[k]
        BY <2>1, <2>3, <4>4, <4>6
      <4>7. u[k] = all[i]
        BY <4>3, <4>5
      <4> QED BY <4>2, <4>7
    <3>3. i \in Nat /\ Len(s) \in Nat
      BY <1>1, <2>9
    <3>4. i <= Len(s) \/ i > Len(s)
      BY <3>3
    <3> QED BY <3>1, <3>2, <3>4
  <2>7. s \o u = Beginning(all)
    BY <1>6, <2>4, <2>5, <2>6, SameTexts
  <2> QED BY <2>2, <2>7
<1> QED BY <1>5, <1>6, <1>7

LEMMA AppendedAgrees ==
  ASSUME NEW s \in Seq(Char), NEW t \in Seq(Char), NEW o, value[o] \in Meanings, Agrees(s, value[o]),
         NEW meant \in Meanings, Agrees(t, meant)
  PROVE  MeantAppended(o, meant) \in Meanings /\ Agrees(Appended(s, t), MeantAppended(o, meant))
<1> DEFINE v == value[o].text
           w == meant.text
<1>1. v \in Seq(Char) /\ w \in Seq(Char) /\ v \o w \in Seq(Char) /\ value[o].sure \in BOOLEAN /\ meant.sure \in BOOLEAN
  BY DEF Meanings
<1>2. MeantAppended(o, meant) = [text |-> v \o w, sure |-> value[o].sure /\ meant.sure]
  BY DEF MeantAppended
<1>3. MeantAppended(o, meant) \in Meanings
  BY <1>1, <1>2 DEF Meanings
<1> HIDE DEF v, w
<1>4. value[o].sure /\ meant.sure => s = Beginning(v) /\ t = Beginning(w)
  BY DEF Agrees, v, w
<1>5. value[o].sure /\ meant.sure => Appended(s, t) = Beginning(v \o w)
  BY <1>1, <1>4, AppendedFacts
<1>6. /\ MeantAppended(o, meant).text = v \o w
      /\ MeantAppended(o, meant).sure => value[o].sure /\ meant.sure
  BY <1>1, <1>2
<1> QED BY <1>3, <1>5, <1>6 DEF Agrees

LEMMA ErasedType ==
  ASSUME NEW s \in Seq(Char), NEW pos \in Nat, NEW n \in Nat
  PROVE  Erased(s, pos, n) \in Seq(Char) /\ Len(Erased(s, pos, n)) <= Len(s)
<1> DEFINE from == Least(pos, Len(s))
           to == Least(from + n, Len(s)) + 1
<1>1. Len(s) \in Nat /\ from \in 0..Len(s) /\ to \in 1..Len(s) + 1
  BY DEF Least
<1> HIDE DEF from, to
<1>5. from < to
  BY <1>1 DEF from, to, Least
<1>2. First(s, from) \in Seq(Char) /\ Len(First(s, from)) = from
  BY <1>1, FirstFacts
<1>3. SubSeq(s, to, Len(s)) \in Seq(Char) /\ Len(SubSeq(s, to, Len(s))) = Len(s) - to + 1
  BY <1>1
<1>4. /\ First(s, from) \o SubSeq(s, to, Len(s)) \in Seq(Char)
      /\ Len(First(s, from) \o SubSeq(s, to, Len(s))) <= Len(s)
  BY <1>1, <1>2, <1>3, <1>5
<1> QED BY <1>4 DEF Erased, from, to

\* Bytes are removed: from the whole text only as long as the layer has all of it.
LEMMA ShorterAgrees ==
  ASSUME NEW o, value[o] \in Meanings, NEW text \in Seq(Char), NEW s \in Seq(Char),
         Len(value[o].text) <= Longest /\ value[o].sure => s = text /\ Len(text) <= Longest
  PROVE  Shorter(o, text) \in Meanings /\ Agrees(s, Shorter(o, text))
<1>1. Shorter(o, text) = [text |-> text, sure |-> value[o].sure /\ Len(value[o].text) <= Longest]
  BY DEF Shorter
<1>2. Shorter(o, text) \in Meanings
  BY <1>1 DEF Meanings
<1>3. Len(text) <= Longest => Beginning(text) = text
  BY BeginningFacts
<1>4. /\ Shorter(o, text).text = text
      /\ Shorter(o, text).sure => value[o].sure /\ Len(value[o].text) <= Longest
  <2>1. PICK b \in BOOLEAN : b <=> value[o].sure /\ Len(value[o].text) <= Longest
    OBVIOUS
  <2>2. Shorter(o, text) = [text |-> text, sure |-> b]
    BY <1>1, <2>1
  <2> QED BY <2>1, <2>2
<1>5. Shorter(o, text).sure => s = Beginning(Shorter(o, text).text)
  BY <1>3, <1>4
<1> QED BY <1>2, <1>5 DEF Agrees

\* A text the layer has all of.
LEMMA WholeAgrees ==
  ASSUME NEW o, value[o] \in Meanings, NEW s \in Seq(Char), Agrees(s, value[o]),
         Len(value[o].text) <= Longest, value[o].sure
  PROVE  s = value[o].text
<1>1. value[o].text \in Seq(Char)
  BY DEF Meanings
<1> QED BY <1>1, BeginningFacts DEF Agrees

LEMMA ErasedAgrees ==
  ASSUME NEW o, value[o] \in Meanings, NEW s \in Seq(Char), Agrees(s, value[o]), NEW pos \in Nat, NEW n \in Nat
  PROVE  /\ Erased(s, pos, n) \in Seq(Char)
         /\ MeantErased(o, pos, n) \in Meanings /\ Agrees(Erased(s, pos, n), MeantErased(o, pos, n))
<1>1. PICK v \in Seq(Char) : v = value[o].text
  BY DEF Meanings
<1>2. PICK whole \in Seq(Char) : whole = Erased(v, pos, n) /\ Len(whole) <= Len(v)
  BY ErasedType
<1>3. PICK left \in Seq(Char) : left = Erased(s, pos, n)
  BY ErasedType
<1>4. Len(value[o].text) <= Longest /\ value[o].sure => left = whole /\ Len(whole) <= Longest
  <2>1. SUFFICES ASSUME Len(value[o].text) <= Longest /\ value[o].sure PROVE left = whole /\ Len(whole) <= Longest
    OBVIOUS
  <2>2. s = v
    BY <1>1, <2>1, WholeAgrees
  <2>3. Len(whole) \in Nat /\ Len(v) \in Nat /\ Longest \in Nat /\ Len(v) <= Longest
    BY <1>1, <2>1, CxxAssumption
  <2> QED BY <1>2, <1>3, <2>2, <2>3
<1>5. MeantErased(o, pos, n) = Shorter(o, whole)
  BY <1>1, <1>2 DEF MeantErased
<1> QED BY <1>3, <1>4, <1>5, ShorterAgrees

\* A resized text is the beginning of the text resized without a limit.
LEMMA ResizedAgrees ==
  ASSUME NEW o, value[o] \in Meanings, NEW s \in Seq(Char), Agrees(s, value[o]), NEW n \in Nat, NEW c \in Char
  PROVE  /\ Resized(s, n, c) \in Seq(Char) /\ Resized(s, n, c) = Sized(s, Least(n, Longest), c)
         /\ MeantResized(o, n, c) \in Meanings /\ Agrees(Resized(s, n, c), MeantResized(o, n, c))
<1>1. PICK m \in Nat : m = Least(n, Longest)
  BY CxxAssumption DEF Least
<1>2. PICK v \in Seq(Char) : v = value[o].text
  BY DEF Meanings
<1>3. PICK whole \in Seq(Char) : whole = Sized(v, n, c)
  BY SizedFacts
<1>4. /\ Len(whole) = n
      /\ \A i \in 1..n : whole[i] = IF i <= Len(v) THEN v[i] ELSE c
  <2>1. Len(whole) = n
    BY <1>3, SizedFacts
  <2>2. \A i \in 1..n : whole[i] = IF i <= Len(v) THEN v[i] ELSE c
    BY <1>3 DEF Sized
  <2> QED BY <2>1, <2>2
<1>5. PICK small \in Seq(Char) : small = Sized(s, m, c)
  BY SizedFacts
<1>6. Len(small) = m /\ \A i \in 1..m : small[i] = IF i <= Len(s) THEN s[i] ELSE c
  <2>1. Len(small) = m
    BY <1>5, SizedFacts
  <2>2. \A i \in 1..m : small[i] = IF i <= Len(s) THEN s[i] ELSE c
    BY <1>5 DEF Sized
  <2> QED BY <2>1, <2>2
<1>7. ASSUME s = Beginning(v) PROVE small = Beginning(whole)
  <2>1. /\ Len(s) = Least(Len(v), Longest) /\ Len(s) \in Nat /\ Len(v) \in Nat /\ Longest \in Nat
        /\ \A i \in 1..Len(s) : s[i] = v[i]
    BY <1>7, BeginningFacts, CxxAssumption
  <2>2. /\ Beginning(whole) \in Seq(Char) /\ Len(Beginning(whole)) = m
        /\ \A i \in 1..m : Beginning(whole)[i] = whole[i]
    BY <1>1, <1>4, BeginningFacts
  <2>3. ASSUME NEW i \in 1..m PROVE small[i] = Beginning(whole)[i]
    <3>1. i \in 1..n /\ i <= Longest
      BY <1>1, <2>1 DEF Least
    <3>2. i <= Len(v) <=> i <= Len(s)
      BY <2>1, <3>1 DEF Least
    <3> QED BY <1>4, <1>6, <2>1, <2>2, <3>1, <3>2
  <2> QED BY <1>6, <2>2, <2>3, SameTexts
<1>8. MeantResized(o, n, c) = [value[o] EXCEPT !.text = whole]
  BY <1>2, <1>3 DEF MeantResized
<1>9. /\ MeantResized(o, n, c) \in Meanings /\ MeantResized(o, n, c).text = whole
      /\ MeantResized(o, n, c).sure = value[o].sure
  BY <1>8 DEF Meanings
<1>10. Resized(s, n, c) = small
  BY <1>1, <1>5 DEF Resized
<1> QED BY <1>1, <1>2, <1>5, <1>7, <1>9, <1>10 DEF Agrees

\* A byte more, or none where the layer has no room left.
LEMMA PushedAgrees ==
  ASSUME NEW o, value[o] \in Meanings, NEW s \in Seq(Char), Agrees(s, value[o]), NEW c \in Char
  PROVE  /\ MeantPushed(o, c) \in Meanings
         /\ Len(s) + 1 <= Longest => Agrees(Append(s, c), MeantPushed(o, c))
         /\ Len(s) + 1 > Longest => Agrees(s, MeantPushed(o, c))
<1>1. PICK v \in Seq(Char) : v = value[o].text
  BY DEF Meanings
<1>6. Append(v, c) \in Seq(Char)
  OBVIOUS
<1>2. PICK whole \in Seq(Char) : whole = Append(v, c)
  BY <1>6
<1>3. MeantPushed(o, c) = [value[o] EXCEPT !.text = whole]
  BY <1>1, <1>2 DEF MeantPushed
<1>4. MeantPushed(o, c) \in Meanings /\ MeantPushed(o, c).text = whole /\ MeantPushed(o, c).sure = value[o].sure
  BY <1>3 DEF Meanings
<1>5. ASSUME s = Beginning(v)
      PROVE  /\ Len(s) + 1 <= Longest => Append(s, c) = Beginning(whole)
             /\ Len(s) + 1 > Longest => s = Beginning(whole)
  <2>1. /\ Len(s) = Least(Len(v), Longest) /\ Len(s) \in Nat /\ Len(v) \in Nat /\ Longest \in Nat
        /\ Len(v) <= Longest => s = v
        /\ \A i \in 1..Len(s) : s[i] = v[i]
    BY <1>5, BeginningFacts, CxxAssumption
  <2>2. Len(whole) = Len(v) + 1 /\ \A i \in 1..Len(v) : whole[i] = v[i]
    BY <1>2
  <2>3. /\ Beginning(whole) \in Seq(Char) /\ Len(Beginning(whole)) = Least(Len(whole), Longest)
        /\ \A i \in 1..Least(Len(whole), Longest) : Beginning(whole)[i] = whole[i]
        /\ Len(whole) <= Longest => Beginning(whole) = whole
    BY BeginningFacts
  <2>4. ASSUME Len(s) + 1 <= Longest PROVE Append(s, c) = Beginning(whole)
    <3>1. Len(v) + 1 <= Longest /\ Len(v) <= Longest
      BY <2>1, <2>4 DEF Least
    <3> QED BY <1>2, <2>1, <2>2, <2>3, <3>1
  <2>5. ASSUME Len(s) + 1 > Longest PROVE s = Beginning(whole)
    <3>1. Len(s) = Longest /\ Least(Len(whole), Longest) = Longest /\ Longest <= Len(v)
      BY <2>1, <2>2, <2>5 DEF Least
    <3>2. ASSUME NEW i \in 1..Len(s) PROVE s[i] = Beginning(whole)[i]
      <4>1. i \in 1..Least(Len(whole), Longest) /\ i \in 1..Len(v)
        BY <2>1, <3>1
      <4> QED BY <2>1, <2>2, <2>3, <4>1
    <3> QED BY <2>3, <3>1, <3>2, SameTexts
  <2> QED BY <2>4, <2>5
<1> QED BY <1>1, <1>4, <1>5 DEF Agrees

\* A byte less.
LEMMA PoppedAgrees ==
  ASSUME NEW o, value[o] \in Meanings, NEW s \in Seq(Char), Agrees(s, value[o])
  PROVE  /\ MeantPopped(o) \in Meanings
         /\ Agrees(First(s, Most(Len(s), 1) - 1), MeantPopped(o))
<1>1. PICK v \in Seq(Char) : v = value[o].text
  BY DEF Meanings
<1>2. ASSUME NEW t \in Seq(Char)
      PROVE  First(t, Most(Len(t), 1) - 1) \in Seq(Char) /\ Len(First(t, Most(Len(t), 1) - 1)) <= Len(t)
  <2>3. Len(t) \in Nat /\ Most(Len(t), 1) - 1 \in 0..Len(t)
    BY DEF Most
  <2>1. PICK k \in 0..Len(t) : k = Most(Len(t), 1) - 1
    BY <2>3
  <2>2. First(t, k) \in Seq(Char) /\ Len(First(t, k)) = k
    BY FirstFacts
  <2> QED BY <2>1, <2>2
<1>3. PICK whole \in Seq(Char) : whole = First(v, Most(Len(v), 1) - 1) /\ Len(whole) <= Len(v)
  BY <1>2
<1>4. PICK left \in Seq(Char) : left = First(s, Most(Len(s), 1) - 1)
  BY <1>2
<1>5. Len(value[o].text) <= Longest /\ value[o].sure => left = whole /\ Len(whole) <= Longest
  <2>1. SUFFICES ASSUME Len(value[o].text) <= Longest /\ value[o].sure PROVE left = whole /\ Len(whole) <= Longest
    OBVIOUS
  <2>2. s = v
    BY <1>1, <2>1, WholeAgrees
  <2>3. Len(whole) \in Nat /\ Len(v) \in Nat /\ Longest \in Nat /\ Len(v) <= Longest
    BY <1>1, <2>1, CxxAssumption
  <2> QED BY <1>3, <1>4, <2>2, <2>3
<1>6. MeantPopped(o) = Shorter(o, whole)
  BY <1>1, <1>3 DEF MeantPopped
<1> QED BY <1>4, <1>5, <1>6, ShorterAgrees



\* Blocks.

\* Of the division only that it leaves less than the divisor.
LEMMA RoundedUpGrows == ASSUME NEW n \in Nat PROVE RoundedUp(n) \in Nat /\ RoundedUp(n) >= n
<1>1. PICK a \in Nat : a = Align /\ a > 0
  BY CxxAssumption
<1>2. PICK x \in Nat : x = n + a - 1
  BY <1>1
<1>3. x \div a \in Int /\ x - a < (x \div a) * a
  BY <1>1
<1>4. (x \div a) * a \in Nat /\ (x \div a) * a >= n
  BY <1>1, <1>2, <1>3
<1> QED BY <1>1, <1>2, <1>4 DEF RoundedUp

LEMMA BlockHolds ==
  ASSUME NEW text \in Seq(Char), NEW capacity \in Int
  PROVE  BlockLength(text, capacity) \in Nat /\ Len(text) <= BlockLength(text, capacity)
<1>1. Len(text) \in Nat /\ Wanted(text, capacity) \in Nat /\ Wanted(text, capacity) >= Len(text)
  BY CxxAssumption DEF Wanted, Least, Most
<1>2. PICK n \in Nat : n = Wanted(text, capacity) + 1
  BY <1>1
<1> QED BY <1>1, <1>2, RoundedUpGrows DEF BlockLength

\* One object changes, and with it blocks that no other living object has.
LEMMA OneChanges ==
  ASSUME CxxInv, NEW o \in Objects, NEW h \in Headers, NEW meant \in Meanings,
         header' = [header EXCEPT ![o] = h], value' = [value EXCEPT ![o] = meant],
         alive' \subseteq alive \cup {o},
         store' \in [1..MaxStores -> Seq(Char)], last' \in 0..MaxStores, last <= last', allocs' \subseteq 1..last',
         \A p \in alive' \ {o} : header[p].data # 0 =>
           /\ header[p].data \in allocs' /\ store'[header[p].data] = store[header[p].data]
           /\ header[p].data # h.data,
         o \in alive' => InBlock(o)' /\ Agrees(Text(o)', meant)
  PROVE  CxxInv'
<1>1. header'[o] = h /\ value'[o] = meant /\ \A p \in Objects \ {o} : header'[p] = header[p] /\ value'[p] = value[p]
  BY DEF CxxInv, CxxTyped
<1>2. CxxTyped'
  BY DEF CxxInv, CxxTyped
<1>3. ASSUME NEW p \in alive', p # o
      PROVE  p \in alive /\ p \in Objects /\ InBlock(p)' /\ Agrees(Text(p)', value'[p]) /\ header'[p] = header[p]
  <2>1. p \in alive /\ p \in Objects /\ header'[p] = header[p] /\ value'[p] = value[p]
    BY <1>1, <1>3 DEF CxxInv, CxxTyped
  <2>2. InBlock(p) /\ Agrees(Text(p), value[p])
    BY <2>1 DEF CxxInv, ContainersSound, ValuesKept, Agrees
  <2>3. InBlock(p)'
    BY <1>3, <2>1, <2>2 DEF InBlock
  <2>4. Text(p)' = Text(p)
    BY <1>3, <2>1 DEF Text
  <2> QED BY <2>1, <2>2, <2>3, <2>4
<1>4. \A p \in alive' : InBlock(p)'
  BY <1>3
<1>5. ValuesKept'
  <2>1. \A p \in alive' : Agrees(Text(p)', value'[p])
    BY <1>1, <1>3
  <2> QED BY <2>1 DEF ValuesKept, Agrees, Beginning
<1>6. StorageOwned'
  <2> SUFFICES ASSUME NEW p \in alive', header'[p].data # 0
               PROVE  /\ header'[p].data \in allocs'
                      /\ \A q \in alive' : header'[q].data = header'[p].data => q = p
    BY DEF StorageOwned
  <2>1. header'[p].data \in allocs'
    BY <1>4 DEF InBlock
  <2>2. ASSUME NEW q \in alive', header'[q].data = header'[p].data PROVE q = p
    <3>1. CASE p # o /\ q # o
      BY <2>2, <3>1, <1>3 DEF CxxInv, ContainersSound, StorageOwned
    <3>2. CASE p = o /\ q # o
      BY <2>2, <3>2, <1>1, <1>3
    <3>3. CASE p # o /\ q = o
      BY <2>2, <3>3, <1>1, <1>3
    <3> QED BY <3>1, <3>2, <3>3
  <2> QED BY <2>1, <2>2
<1> QED BY <1>2, <1>4, <1>5, <1>6 DEF CxxInv, ContainersSound

LEMMA LiveObject ==
  ASSUME CxxInv, NEW o \in alive
  PROVE  /\ o \in Objects /\ header[o] \in Headers /\ value[o] \in Meanings /\ Agrees(Text(o), value[o])
         /\ InBlock(o) /\ Text(o) \in Seq(Char)
         /\ header[o].data # 0 => /\ header[o].data \in 1..last /\ header[o].data \in 1..MaxStores
                                  /\ store[header[o].data] \in Seq(Char)
<1>1. o \in Objects /\ header[o] \in Headers /\ value[o] \in Meanings /\ Agrees(Text(o), value[o]) /\ InBlock(o)
  BY DEF CxxInv, CxxTyped, ContainersSound, ValuesKept, Agrees
<1>2. ASSUME header[o].data # 0
      PROVE  header[o].data \in 1..last /\ header[o].data \in 1..MaxStores /\ store[header[o].data] \in Seq(Char)
  <2>1. header[o].data \in allocs
    BY <1>1, <1>2 DEF InBlock
  <2>2. last \in 0..MaxStores /\ MaxStores \in Nat /\ allocs \subseteq 1..last
    BY CxxAssumption DEF CxxInv, CxxTyped
  <2>3. header[o].data \in 1..MaxStores /\ header[o].data \in 1..last
    <3>1. header[o].data \in 1..last
      BY <2>1, <2>2
    <3>2. last \in Nat /\ last <= MaxStores
      BY <2>2
    <3> QED BY <3>1, <3>2, <2>2
  <2> QED BY <2>3 DEF CxxInv, CxxTyped
<1>3. Text(o) \in Seq(Char)
  <2>1. CASE header[o].data = 0
    BY <1>1, <2>1 DEF Text, Headers
  <2>2. CASE header[o].data # 0
    <3> DEFINE whole == store[header[o].data]
    <3>1. whole \in Seq(Char) /\ header[o].len \in 0..Len(whole) /\ Text(o) = First(whole, header[o].len)
      BY <1>1, <1>2, <2>2 DEF InBlock, Text, Headers
    <3> HIDE DEF whole
    <3> QED BY <3>1, FirstFacts
  <2> QED BY <2>1, <2>2
<1> QED BY <1>1, <1>2, <1>3

\* An object without a block.
LEMMA BlockLost ==
  ASSUME CxxInv, NEW o \in Objects, NEW text \in Seq(Char), o \in Vectors => text = <<>>,
         NEW meant \in Meanings, Agrees(text, meant),
         header' = [header EXCEPT ![o] = AsShort(text)], value' = [value EXCEPT ![o] = meant],
         alive' \subseteq alive \cup {o}, UNCHANGED <<store, last>>, allocs' \subseteq allocs,
         allocs' = allocs \/ (o \in alive /\ allocs' = allocs \ {header[o].data})
  PROVE  CxxInv'
<1> DEFINE h == AsShort(text)
<1>1. h \in Headers /\ h.data = 0 /\ h.text = text /\ h.len = 0 /\ h.room = 0
  BY DEF AsShort, Headers
<1>2. header'[o] = h
  BY DEF CxxInv, CxxTyped
<1>3. InBlock(o)' /\ Text(o)' = text
  BY <1>1, <1>2 DEF InBlock, Text
<1>4. /\ store' \in [1..MaxStores -> Seq(Char)] /\ last' \in 0..MaxStores /\ last <= last'
      /\ allocs' \subseteq 1..last'
  BY CxxAssumption DEF CxxInv, CxxTyped
<1>5. ASSUME NEW p \in alive' \ {o}, header[p].data # 0
      PROVE  header[p].data \in allocs' /\ store'[header[p].data] = store[header[p].data] /\ header[p].data # h.data
  BY <1>1, <1>5 DEF CxxInv, ContainersSound, StorageOwned
<1> HIDE DEF h
<1>6. header' = [header EXCEPT ![o] = h]
  BY DEF h
<1>7. o \in alive' => InBlock(o)' /\ Agrees(Text(o)', meant)
  BY <1>3
<1> QED BY <1>1, <1>4, <1>5, <1>6, <1>7, OneChanges

\* An object with the block that the heap granted last.
LEMMA BlockGranted ==
  ASSUME CxxInv, NEW o \in Objects, NEW bytes \in Seq(Char), NEW len \in 0..Len(bytes), NEW room \in Nat,
         o \in Vectors => len <= room /\ room <= Len(bytes),
         last < MaxStores, last' = last + 1, store' = [store EXCEPT ![last + 1] = bytes],
         header' = [header EXCEPT ![o] = AsLong(last + 1, len, room)],
         NEW meant \in Meanings, Agrees(First(bytes, len), meant), value' = [value EXCEPT ![o] = meant],
         alive' \subseteq alive \cup {o},
         \/ allocs' = allocs \cup {last + 1}
         \/ o \in alive /\ allocs' = (allocs \ {header[o].data}) \cup {last + 1}
  PROVE  CxxInv'
<1> DEFINE h == AsLong(last + 1, len, room)
<1>1. last \in Nat /\ last + 1 \in 1..MaxStores /\ MaxStores \in Nat /\ len \in Nat
  BY CxxAssumption DEF CxxInv, CxxTyped
<1>2. h \in Headers /\ h.data = last + 1 /\ h.len = len /\ h.room = room /\ h.data # 0
  BY <1>1 DEF AsLong, Headers
<1>3. header'[o] = h
  BY DEF CxxInv, CxxTyped
<1>4. store' \in [1..MaxStores -> Seq(Char)] /\ store'[last + 1] = bytes /\ \A b \in 1..last : store'[b] = store[b]
  BY <1>1 DEF CxxInv, CxxTyped
<1>5. last' \in 0..MaxStores /\ last <= last' /\ allocs' \subseteq 1..last' /\ last + 1 \in allocs'
  <2>1. last' \in 0..MaxStores /\ last <= last' /\ last + 1 \in allocs'
    BY <1>1
  <2>2. allocs \subseteq 1..last
    BY DEF CxxInv, CxxTyped
  <2>3. allocs' \subseteq allocs \cup {last + 1}
    OBVIOUS
  <2>4. allocs' \subseteq 1..last'
    BY <1>1, <2>2, <2>3
  <2> QED BY <2>1, <2>4
<1>6. InBlock(o)'
  BY <1>2, <1>3, <1>4, <1>5 DEF InBlock
<1>7. Agrees(Text(o)', meant)
  BY <1>2, <1>3, <1>4 DEF Text
<1>8. ASSUME NEW p \in alive' \ {o}, header[p].data # 0
      PROVE  header[p].data \in allocs' /\ store'[header[p].data] = store[header[p].data] /\ header[p].data # h.data
  <2>1. p \in alive /\ header[p].data \in 1..last /\ header[p].data \in allocs
    BY <1>8, LiveObject DEF InBlock
  <2>2. o \in alive => header[p].data # header[o].data
    BY <1>8, <2>1 DEF CxxInv, ContainersSound, StorageOwned
  <2> QED BY <1>1, <1>2, <1>4, <2>1, <2>2
<1> HIDE DEF h
<1>9. header' = [header EXCEPT ![o] = h]
  BY DEF h
<1> QED BY <1>2, <1>4, <1>5, <1>6, <1>7, <1>8, <1>9, OneChanges

LEMMA SameObjects == CxxInv /\ UNCHANGED cxxvars => CxxInv'
BY DEF CxxInv, CxxTyped, InBlock, ContainersSound, ValuesKept, StorageOwned, Text, Beginning, cxxvars

\* A call that changes nothing of the object, though C++ says otherwise.
LEMMA OnlyMeant ==
  ASSUME CxxInv, NEW o \in alive, NEW meant \in Meanings, Agrees(Text(o), meant),
         value' = [value EXCEPT ![o] = meant], UNCHANGED <<header, store, allocs, last, alive>>
  PROVE  CxxInv'
<1>1. CxxTyped'
  BY DEF CxxInv, CxxTyped
<1>2. (\A p \in alive : InBlock(p))' /\ StorageOwned'
  BY DEF CxxInv, InBlock, ContainersSound, StorageOwned
<1>3. \A p : Text(p)' = Text(p)
  BY DEF Text
<1>4. ASSUME NEW p \in alive PROVE Agrees(Text(p), value'[p])
  <2>1. value'[p] = IF p = o THEN meant ELSE value[p]
    BY DEF CxxInv, CxxTyped
  <2> QED BY <2>1, LiveObject
<1>5. ValuesKept'
  BY <1>3, <1>4 DEF ValuesKept, Agrees, Beginning
<1> QED BY <1>1, <1>2, <1>5 DEF CxxInv, ContainersSound

LEMMA InitCxx == CInit => CxxInv
<1> SUFFICES ASSUME CInit PROVE CxxInv
  OBVIOUS
<1>1. Nothing \in Headers
  BY DEF Nothing, AsLong, Headers
<1>2. header \in [Objects -> Headers]
  BY <1>1 DEF CInit
<1>4. /\ Sure(<<>>) \in Meanings /\ <<>> \in Seq(Char) /\ MaxStores \in Nat
  BY SureFacts, EmptyText, CxxAssumption
<1>5. value \in [Objects -> Meanings] /\ store \in [1..MaxStores -> Seq(Char)]
  BY <1>4 DEF CInit
<1>3. CxxTyped
  BY <1>2, <1>4, <1>5 DEF CInit, CxxTyped
<1> QED BY <1>3 DEF CInit, CxxInv, ContainersSound, ValuesKept, StorageOwned


\* Strings.

LEMMA StringWritten ==
  ASSUME CxxInv, NEW s \in Strings, NEW text \in Seq(Char), NEW capacity \in Int,
         Fits(text, capacity) \/ last < MaxStores,
         NEW meant \in Meanings, Agrees(text, meant),
         Written(s, text, capacity), Means(s, meant), alive' \subseteq alive \cup {s}
  PROVE  CxxInv'
<1>1. s \in Objects /\ s \notin Vectors /\ value' = [value EXCEPT ![s] = meant]
  BY CxxAssumption DEF Objects, Means
<1>2. CASE Fits(text, capacity)
  <2>1. header' = [header EXCEPT ![s] = AsShort(text)] /\ UNCHANGED <<store, last>> /\ allocs' = allocs
    BY <1>2 DEF Written, Becomes, SameHeap
  <2> QED BY <1>1, <2>1, BlockLost
<1>3. CASE ~Fits(text, capacity)
  <2> DEFINE n == BlockLength(text, capacity)
             bytes == Sized(text, n, "nul")
  <2>1. n \in Nat /\ Len(text) <= n /\ Len(text) \in Nat /\ "nul" \in Char
    BY BlockHolds DEF Char
  <2>2. /\ last' = last + 1 /\ store' = [store EXCEPT ![last + 1] = bytes] /\ allocs' = allocs \cup {last + 1}
        /\ header' = [header EXCEPT ![s] = AsLong(last + 1, Len(text), n)]
    BY <1>3 DEF Written, Becomes, Grant
  <2> HIDE DEF n
  <2>3. bytes \in Seq(Char) /\ Len(bytes) = n /\ First(bytes, Len(text)) = text
    BY <2>1, SizedFacts, FirstOfSized
  <2> HIDE DEF bytes
  <2>4. Len(text) \in 0..Len(bytes) /\ last < MaxStores
    BY <1>3, <2>1, <2>3
  <2>5. Agrees(First(bytes, Len(text)), meant)
    BY <2>3
  <2>6. PICK len \in 0..Len(bytes) : len = Len(text)
    BY <2>4
  <2> QED BY <1>1, <2>1, <2>2, <2>3, <2>4, <2>5, <2>6, BlockGranted
<1> QED BY <1>2, <1>3

LEMMA StringCalled ==
  ASSUME CxxInv, NEW s \in Strings, NEW text \in Seq(Char), NEW meant \in Meanings, Agrees(text, meant),
         NEW capacity \in Int, NEW granted \in Grants, StringCall(s, text, meant, capacity, granted)
  PROVE  CxxInv'
<1>1. CASE Fits(text, capacity) \/ granted
  <2>1. Written(s, text, capacity) /\ Means(s, meant) /\ alive' = alive
    BY <1>1 DEF StringCall
  <2>2. Fits(text, capacity) \/ last < MaxStores
    BY <1>1 DEF Grants
  <2> QED BY <2>1, <2>2, StringWritten
<1>2. CASE ~(Fits(text, capacity) \/ granted)
  BY <1>2, SameObjects DEF StringCall, cxxvars
<1> QED BY <1>1, <1>2

LEMMA StringMade ==
  ASSUME CxxInv, NEW s \in Strings, NEW text \in Seq(Char), NEW meant \in Meanings, Agrees(text, meant),
         NEW granted \in Grants, StringCtor(s, text, meant, granted)
  PROVE  CxxInv'
<1>1. /\ Fits(text, Len(text)) \/ last < MaxStores
      /\ Written(s, text, Len(text)) /\ Means(s, meant) /\ alive' \subseteq alive \cup {s}
  BY DEF StringCtor, Grants
<1>2. PICK capacity \in Int : capacity = Len(text)
  OBVIOUS
<1> QED BY <1>1, <1>2, StringWritten

LEMMA CapacityType == ASSUME CxxInv, NEW s \in alive PROVE Capacity(s) \in Int
<1>1. header[s].room \in Nat /\ header[s].len \in Nat
  BY LiveObject DEF Headers
<1> QED BY <1>1, CxxAssumption DEF Capacity, Most

\* The block goes with the object, and nobody else had it.
LEMMA Destroys ==
  ASSUME CxxInv, NEW o \in alive, NEW h \in Headers, header' = [header EXCEPT ![o] = h],
         h.data \in {0, header[o].data},
         allocs' = allocs \ {header[o].data}, alive' = alive \ {o}, UNCHANGED <<store, last, value>>
  PROVE  CxxInv'
<1>1. o \in Objects /\ header \in [Objects -> Headers] /\ alive \subseteq Objects
  BY DEF CxxInv, CxxTyped
<1>2. CxxTyped'
  BY <1>1 DEF CxxInv, CxxTyped
<1>3. ASSUME NEW p \in alive'
      PROVE  /\ p \in alive /\ p # o /\ header'[p] = header[p]
             /\ header[p].data # 0 => header[p].data \in allocs'
  <2>1. p \in alive /\ p # o /\ p \in Objects
    BY <1>1
  <2>2. header'[p] = header[p]
    BY <1>1, <2>1
  <2>3. header[p].data # 0 => header[p].data \in allocs /\ header[p].data # header[o].data
    BY <2>1 DEF CxxInv, ContainersSound, StorageOwned
  <2> QED BY <2>1, <2>2, <2>3
<1>4. \A p \in alive' : InBlock(p)'
  <2> SUFFICES ASSUME NEW p \in alive' PROVE InBlock(p)'
    OBVIOUS
  <2>1. InBlock(p)
    BY <1>3 DEF CxxInv
  <2> QED BY <1>3, <2>1 DEF InBlock
<1>5. ValuesKept'
  <2>1. ASSUME NEW p \in alive' PROVE Text(p)' = Text(p) /\ value'[p] = value[p] /\ p \in alive
    BY <1>3 DEF Text
  <2>2. \A p \in alive : Agrees(Text(p), value[p])
    BY LiveObject
  <2>3. \A p \in alive' : Agrees(Text(p)', value'[p])
    BY <2>1, <2>2
  <2> QED BY <2>3 DEF ValuesKept, Agrees, Beginning
<1>6. StorageOwned'
  BY <1>3 DEF CxxInv, ContainersSound, StorageOwned
<1> QED BY <1>2, <1>4, <1>5, <1>6 DEF CxxInv, ContainersSound

LEMMA StringStepKeeps == ASSUME CxxInv, NEW granted \in Grants, StringStep(granted) PROVE CxxInv'
<1>1. \A text \in Texts : /\ Capped(text) \in Seq(Char) /\ Sure(text) \in Meanings
                          /\ Agrees(Capped(text), Sure(text))
  <2>1. \A text \in Texts : text \in Seq(Char)
    BY CxxAssumption DEF Char
  <2> QED BY <2>1, CappedAgrees, SureFacts
<1>2. \A c \in Bytes : c \in Char
  BY DEF Char
<1>3. \A s \in alive : Text(s) \in Seq(Char) /\ value[s] \in Meanings /\ Agrees(Text(s), value[s]) /\ Capacity(s) \in Int
  BY LiveObject, CapacityType
<1>4. ASSUME NEW s \in Strings, NEW text \in Texts, StringCtor(s, Capped(text), Sure(text), granted) PROVE CxxInv'
  BY <1>1, <1>4, StringMade
<1>5. ASSUME NEW s \in Strings, NEW t \in Strings \cap alive, StringCtor(s, Text(t), value[t], granted) PROVE CxxInv'
  BY <1>3, <1>5, StringMade
<1>6. ASSUME NEW s \in Strings \cap alive, NEW text \in Seq(Char), NEW meant \in Meanings, Agrees(text, meant),
             StringAssign(s, text, meant, granted) \/ StringAppend(s, text, meant, granted)
      PROVE  CxxInv'
  <2>1. CASE StringAssign(s, text, meant, granted)
    <3>1. PICK capacity \in Int : capacity = Len(text)
      OBVIOUS
    <3> QED BY <1>6, <2>1, <3>1, StringCalled DEF StringAssign
  <2>2. CASE StringAppend(s, text, meant, granted)
    <3>1. PICK whole \in Seq(Char) : whole = Appended(Text(s), text)
      BY <1>3, AppendedFacts
    <3>2. PICK both \in Meanings : both = MeantAppended(s, meant) /\ Agrees(whole, both)
      BY <1>3, <1>6, <3>1, AppendedAgrees
    <3>3. PICK capacity \in Int : capacity = Capacity(s)
      BY <1>3
    <3> QED BY <2>2, <3>1, <3>2, <3>3, StringCalled DEF StringAppend
  <2> QED BY <1>6, <2>1, <2>2
<1>7. ASSUME NEW s \in Strings \cap alive, NEW text \in Texts,
             \/ StringAssign(s, Capped(text), Sure(text), granted)
             \/ StringAppend(s, Capped(text), Sure(text), granted)
      PROVE  CxxInv'
  BY <1>1, <1>6, <1>7
<1>8. ASSUME NEW s \in Strings \cap alive, NEW t \in Strings \cap alive,
             StringAssign(s, Text(t), value[t], granted) \/ StringAppend(s, Text(t), value[t], granted)
      PROVE  CxxInv'
  BY <1>3, <1>6, <1>8
<1>9. ASSUME NEW s \in Strings \cap alive, NEW pos \in Sizes, NEW n \in Sizes, StringErase(s, pos, n, granted)
      PROVE  CxxInv'
  <2>1. pos \in Nat /\ n \in Nat
    BY CxxAssumption DEF Sizes
  <2>2. PICK text \in Seq(Char) : text = Erased(Text(s), pos, n)
    BY <1>3, <2>1, ErasedType
  <2>4. PICK meant \in Meanings : meant = MeantErased(s, pos, n) /\ Agrees(text, meant)
    BY <1>3, <2>1, <2>2, ErasedAgrees
  <2>3. PICK capacity \in Int : capacity = Capacity(s)
    BY <1>3
  <2> QED BY <1>9, <2>2, <2>3, <2>4, StringCalled DEF StringErase
<1>10. ASSUME NEW s \in Strings \cap alive, NEW n \in Sizes, NEW c \in Bytes, StringResize(s, n, c, granted)
       PROVE  CxxInv'
  <2>1. n \in Nat /\ c \in Char
    BY <1>2, CxxAssumption DEF Sizes
  <2>2. PICK text \in Seq(Char) : text = Resized(Text(s), n, c)
    BY <1>3, <2>1, ResizedAgrees
  <2>4. PICK meant \in Meanings : meant = MeantResized(s, n, c) /\ Agrees(text, meant)
    BY <1>3, <2>1, <2>2, ResizedAgrees
  <2>3. PICK capacity \in Int : capacity = Capacity(s)
    BY <1>3
  <2> QED BY <1>10, <2>2, <2>3, <2>4, StringCalled DEF StringResize
<1>11. ASSUME NEW s \in Strings \cap alive, NEW n \in Sizes, StringReserve(s, n, granted) PROVE CxxInv'
  <2>1. PICK text \in Seq(Char) : text = Text(s)
    BY <1>3
  <2>3. PICK meant \in Meanings : meant = value[s] /\ Agrees(text, meant)
    BY <1>3, <2>1
  <2>2. PICK capacity \in Int : capacity = Most(Least(n, Longest), Capacity(s))
    BY <1>3, CxxAssumption DEF Sizes, Most, Least
  <2> QED BY <1>11, <2>1, <2>2, <2>3, StringCalled DEF StringReserve
<1>12. ASSUME NEW s \in Strings \cap alive, StringClear(s, granted) PROVE CxxInv'
  <2>1. PICK text \in Seq(Char) : text = <<>>
    BY EmptyText
  <2>3. PICK meant \in Meanings : meant = Sure(<<>>) /\ Agrees(text, meant)
    BY <2>1, EmptyText, SureFacts, EmptyAgrees
  <2>2. PICK capacity \in Int : capacity = Capacity(s)
    BY <1>3
  <2> QED BY <1>12, <2>1, <2>2, <2>3, StringCalled DEF StringClear
<1>13. ASSUME NEW s \in Strings \cap alive, StringDtor(s) PROVE CxxInv'
  <2>1. PICK h \in Headers : h = header[s]
    BY LiveObject
  <2>2. header' = [header EXCEPT ![s] = h] /\ h.data \in {0, header[s].data}
    BY <1>13, <2>1 DEF StringDtor, CxxInv, CxxTyped
  <2>3. allocs' = allocs \ {header[s].data} /\ alive' = alive \ {s} /\ UNCHANGED <<store, last, value>>
    BY <1>13 DEF StringDtor
  <2> QED BY <2>2, <2>3, Destroys
<1> QED BY <1>4, <1>5, <1>7, <1>8, <1>9, <1>10, <1>11, <1>12, <1>13 DEF StringStep


\* Vectors.

LEMMA NothingIs == Nothing = AsShort(<<>>) /\ Nothing \in Headers /\ Nothing.data = 0
BY DEF Nothing, AsLong, AsShort, Headers

\* A living vector, and the bytes it has.
LEMMA LiveVector ==
  ASSUME CxxInv, NEW v \in Vectors \cap alive
  PROVE  /\ v \in Objects /\ header[v] \in Headers /\ value[v] \in Meanings /\ Agrees(Text(v), value[v])
         /\ Text(v) \in Seq(Char)
         /\ header[v].len \in Nat /\ header[v].room \in Nat /\ header[v].data \in Nat
         /\ header[v].len <= header[v].room /\ Len(Text(v)) = header[v].len
         /\ header[v].data = 0 => header[v].room = 0 /\ header[v].text = <<>> /\ Text(v) = <<>>
         /\ header[v].data # 0 =>
              /\ header[v].data \in 1..last /\ header[v].data \in 1..MaxStores /\ header[v].data \in allocs
              /\ store[header[v].data] \in Seq(Char) /\ header[v].room <= Len(store[header[v].data])
              /\ Text(v) = First(store[header[v].data], header[v].len)
<1>1. /\ v \in Objects /\ header[v] \in Headers /\ value[v] \in Meanings /\ Agrees(Text(v), value[v])
      /\ Text(v) \in Seq(Char) /\ InBlock(v)
      /\ header[v].data # 0 => /\ header[v].data \in 1..last /\ header[v].data \in 1..MaxStores
                               /\ store[header[v].data] \in Seq(Char)
  BY LiveObject
<1>2. header[v].len \in Nat /\ header[v].room \in Nat /\ header[v].data \in Nat
  BY <1>1 DEF Headers
<1>3. CASE header[v].data = 0
  BY <1>1, <1>2, <1>3 DEF InBlock, Text
<1>4. CASE header[v].data # 0
  <2>1. /\ header[v].data \in allocs /\ header[v].len <= header[v].room
        /\ header[v].room <= Len(store[header[v].data])
    BY <1>1, <1>4 DEF InBlock
  <2>2. Text(v) = First(store[header[v].data], header[v].len)
    BY <1>1, <1>4 DEF Text
  <2>3. store[header[v].data] \in Seq(Char) /\ header[v].len \in 0..Len(store[header[v].data])
    BY <1>1, <1>2, <1>4, <2>1
  <2>4. Len(Text(v)) = header[v].len
    BY <2>2, <2>3, FirstFacts
  <2> QED BY <1>1, <1>2, <1>4, <2>1, <2>2, <2>4
<1> QED BY <1>3, <1>4

Filled(bytes, len, to, c) == [i \in DOMAIN bytes |-> IF len < i /\ i <= to THEN c ELSE bytes[i]]
LEMMA FilledFacts ==
  ASSUME NEW bytes \in Seq(Char), NEW text \in Seq(Char), NEW to \in 0..Len(bytes), NEW c \in Char,
         \A i \in 1..to : i <= Len(text) => bytes[i] = text[i]
  PROVE  /\ Filled(bytes, Len(text), to, c) \in Seq(Char)
         /\ Len(Filled(bytes, Len(text), to, c)) = Len(bytes)
         /\ First(Filled(bytes, Len(text), to, c), to) = Sized(text, to, c)
<1> DEFINE filled == Filled(bytes, Len(text), to, c)
<1>1. /\ DOMAIN bytes = 1..Len(bytes) /\ Len(bytes) \in Nat
      /\ filled = [i \in 1..Len(bytes) |-> IF Len(text) < i /\ i <= to THEN c ELSE bytes[i]]
  BY DEF Filled
<1>2. \A i \in 1..Len(bytes) : filled[i] \in Char
  BY <1>1
<1>3. filled \in Seq(Char) /\ Len(filled) = Len(bytes)
  BY <1>1, <1>2
<1>4. \A i \in 1..Len(bytes) : filled[i] = IF Len(text) < i /\ i <= to THEN c ELSE bytes[i]
  BY <1>1
<1> HIDE DEF filled
<1>5. to \in Nat /\ to \in 0..Len(filled)
  BY <1>3
<1>6. /\ First(filled, to) \in Seq(Char) /\ Len(First(filled, to)) = to
      /\ \A i \in 1..to : First(filled, to)[i] = filled[i]
  BY <1>3, <1>5, FirstFacts
<1>7. /\ Sized(text, to, c) \in Seq(Char) /\ Len(Sized(text, to, c)) = to
      /\ \A i \in 1..to : Sized(text, to, c)[i] = IF i <= Len(text) THEN text[i] ELSE c
  BY <1>5, SizedFacts
<1>8. \A i \in 1..to : filled[i] = IF i <= Len(text) THEN text[i] ELSE c
  BY <1>1, <1>5, <1>4
<1>9. First(filled, to) = Sized(text, to, c)
  BY <1>6, <1>7, <1>8, SameTexts
<1> QED BY <1>3, <1>9 DEF filled

LEMMA VectorCalled ==
  ASSUME CxxInv, NEW v \in Vectors \cap alive, NEW to \in Nat, NEW c \in Char, NEW capacity \in Nat,
         to <= Reserved(v, capacity).room, NEW meant \in Meanings, Agrees(Sized(Text(v), to, c), meant),
         NEW granted \in Grants, VectorCall(v, to, c, capacity, meant, granted)
  PROVE  CxxInv'
<1> DEFINE x == header[v]
           R == Most(Least(capacity, Longest), x.room)
           at == Reserved(v, capacity)
           bytes == IF Moves(v, capacity) THEN Sized(Text(v), at.room, "nul")
                    ELSE IF at.data = 0 THEN <<>> ELSE store[at.data]
           filled == [i \in DOMAIN bytes |-> IF x.len < i /\ i <= to THEN c ELSE bytes[i]]
<1>1. /\ v \in Objects /\ x \in Headers /\ Text(v) \in Seq(Char)
      /\ x.len \in Nat /\ x.room \in Nat /\ x.data \in Nat /\ x.len <= x.room /\ Len(Text(v)) = x.len
      /\ x.data = 0 => x.room = 0 /\ x.text = <<>> /\ Text(v) = <<>>
      /\ x.data # 0 => /\ x.data \in 1..last /\ x.data \in 1..MaxStores /\ x.data \in allocs
                       /\ store[x.data] \in Seq(Char) /\ x.room <= Len(store[x.data])
                       /\ Text(v) = First(store[x.data], x.len)
  BY LiveVector
<1>2. R \in Nat /\ x.room <= R /\ last \in Nat
  BY <1>1, CxxAssumption DEF Least, Most, CxxInv, CxxTyped
<1>3. at = IF R = x.room THEN x ELSE AsLong(last + 1, x.len, Most(R, 1))
  BY DEF Reserved
<1>6. PICK text \in Seq(Char) : text = Text(v)
  BY <1>1
<1>7. Len(text) = x.len /\ Agrees(Sized(text, to, c), meant) /\ Text(v) = text
  BY <1>1, <1>6
<1>4. CASE Moves(v, capacity) /\ ~granted
  BY <1>4, SameObjects DEF VectorCall, cxxvars
<1>5. CASE ~(Moves(v, capacity) /\ ~granted)
  <2>1. /\ IF Moves(v, capacity) THEN Grant(filled)
           ELSE IF at.data = 0 THEN SameHeap
           ELSE store' = [store EXCEPT ![at.data] = filled] /\ UNCHANGED <<allocs, last>>
        /\ header' = [header EXCEPT ![v] = [at EXCEPT !.len = to]]
        /\ value' = [value EXCEPT ![v] = meant] /\ alive' = alive
    BY <1>5 DEF VectorCall, Extended, Means, Becomes
  <2>2. CASE Moves(v, capacity)
    <3>1. R # x.room
      BY <2>2, <1>3 DEF Moves
    <3> DEFINE room == Most(R, 1)
    <3>2. at = AsLong(last + 1, x.len, room) /\ room \in Nat /\ x.len <= room /\ at.room = room /\ to <= room
      BY <1>1, <1>2, <1>3, <3>1 DEF Most, AsLong
    <3>3. [at EXCEPT !.len = to] = AsLong(last + 1, to, room)
      BY <3>2 DEF AsLong
    <3> HIDE DEF room, R
    <3>4. bytes = Sized(text, room, "nul") /\ "nul" \in Char
      BY <2>2, <3>2, <1>7 DEF Char
    <3>6. filled = [i \in DOMAIN bytes |-> IF Len(text) < i /\ i <= to THEN c ELSE bytes[i]]
      BY <1>7
    <3> HIDE DEF bytes, filled, x
    <3>5. /\ bytes \in Seq(Char) /\ Len(bytes) = room
          /\ \A i \in 1..room : bytes[i] = IF i <= Len(text) THEN text[i] ELSE "nul"
      <4>1. PICK n \in Nat : n = room
        BY <3>2
      <4>2. Sized(text, n, "nul") \in Seq(Char)
        BY <3>4, SizedFacts
      <4>3. Len(Sized(text, n, "nul")) = n
        BY <3>4, SizedFacts
      <4>4. \A i \in 1..n : Sized(text, n, "nul")[i] = IF i <= Len(text) THEN text[i] ELSE "nul"
        BY <3>4, SizedFacts
      <4>5. bytes = Sized(text, n, "nul")
        BY <3>4, <4>1
      <4> QED BY <4>1, <4>2, <4>3, <4>4, <4>5
    <3>7. to \in 0..Len(bytes) /\ \A i \in 1..to : i <= Len(text) => bytes[i] = text[i]
      BY <3>2, <3>5
    <3>8. filled \in Seq(Char) /\ Len(filled) = room /\ First(filled, to) = Sized(text, to, c)
      <4>1. PICK b \in Seq(Char) : b = bytes
        BY <3>5
      <4>2. PICK f : f = Filled(b, Len(text), to, c)
        OBVIOUS
      <4>3. to \in 0..Len(b) /\ \A i \in 1..to : i <= Len(text) => b[i] = text[i]
        BY <3>7, <4>1
      <4>4. f \in Seq(Char) /\ Len(f) = Len(b) /\ First(f, to) = Sized(text, to, c)
        BY <4>2, <4>3, FilledFacts
      <4>5. f = filled
        BY <3>6, <4>1, <4>2 DEF Filled
      <4> QED BY <1>7, <3>5, <4>1, <4>4, <4>5
    <3>9. /\ last < MaxStores /\ last' = last + 1 /\ store' = [store EXCEPT ![last + 1] = filled]
          /\ allocs' = allocs \cup {last + 1}
      BY <1>5, <2>1, <2>2 DEF Grants, Grant
    <3>10. /\ header' = [header EXCEPT ![v] = AsLong(last + 1, to, room)]
           /\ value' = [value EXCEPT ![v] = meant] /\ alive' \subseteq alive \cup {v}
      BY <2>1, <3>3
    <3>12. Agrees(First(filled, to), meant)
      BY <1>7, <3>8
    <3>11. to \in 0..Len(filled) /\ to <= room /\ room <= Len(filled) /\ room \in Nat
      BY <3>2, <3>8
    <3> QED BY <1>1, <3>8, <3>9, <3>10, <3>11, <3>12, BlockGranted
  <2>3. CASE ~Moves(v, capacity) /\ x.data = 0
    <3>1. at = x /\ to = 0
      BY <1>1, <1>2, <1>3, <2>3 DEF Moves, AsLong
    <3>2. UNCHANGED <<store, allocs, last>> /\ header' = [header EXCEPT ![v] = [x EXCEPT !.len = 0]]
      BY <2>1, <2>3, <3>1 DEF SameHeap
    <3>3. [x EXCEPT !.len = 0] = AsShort(<<>>)
      BY <1>1, <2>3 DEF Headers, AsShort
    <3>6. Sized(text, to, c) = <<>>
      BY <3>1 DEF Sized
    <3>4. Agrees(<<>>, meant)
      BY <1>7, <3>6
    <3>5. header' = [header EXCEPT ![v] = AsShort(<<>>)] /\ value' = [value EXCEPT ![v] = meant]
      BY <2>1, <3>2, <3>3
    <3> QED BY <1>1, <2>1, <3>2, <3>4, <3>5, EmptyText, BlockLost
  <2>4. CASE ~Moves(v, capacity) /\ x.data # 0
    <3>1. x.data # last + 1
      BY <1>1, <1>2, <2>4
    <3>2. at = x
      BY <1>3, <2>4, <3>1 DEF Moves, AsLong
    <3>3. to <= x.room
      BY <3>2
    <3>4. bytes = store[x.data]
      BY <2>4, <3>2
    <3>5. filled = [i \in DOMAIN bytes |-> IF Len(text) < i /\ i <= to THEN c ELSE bytes[i]]
      BY <1>7
    <3>6. /\ store' = [store EXCEPT ![x.data] = filled] /\ UNCHANGED <<allocs, last>>
          /\ header' = [header EXCEPT ![v] = [x EXCEPT !.len = to]]
      BY <2>1, <2>4, <3>2
    <3> HIDE DEF bytes, filled, at
    <3>7. /\ x.len \in 0..Len(bytes) /\ bytes \in Seq(Char) /\ x.room <= Len(bytes) /\ Len(bytes) \in Nat
          /\ text = First(bytes, x.len)
      BY <1>1, <1>6, <2>4, <3>4
    <3>8. \A i \in 1..x.len : text[i] = bytes[i]
      BY <3>7, FirstFacts
    <3>9. to \in 0..Len(bytes) /\ \A i \in 1..to : i <= Len(text) => bytes[i] = text[i]
      BY <1>1, <1>7, <3>3, <3>7, <3>8
    <3>10. filled \in Seq(Char) /\ Len(filled) = Len(bytes) /\ First(filled, to) = Sized(text, to, c)
      <4>1. PICK b \in Seq(Char) : b = bytes
        BY <3>7
      <4>2. PICK f : f = Filled(b, Len(text), to, c)
        OBVIOUS
      <4>3. to \in 0..Len(b) /\ \A i \in 1..to : i <= Len(text) => b[i] = text[i]
        BY <3>9, <4>1
      <4>4. f \in Seq(Char) /\ Len(f) = Len(b) /\ First(f, to) = Sized(text, to, c)
        BY <4>2, <4>3, FilledFacts
      <4>5. f = filled
        BY <3>5, <4>1, <4>2 DEF Filled
      <4> QED BY <1>7, <4>1, <4>4, <4>5
    <3> DEFINE h == [x EXCEPT !.len = to]
    <3>11. h \in Headers /\ h.data = x.data /\ h.len = to /\ h.room = x.room
      BY <1>1 DEF Headers
    <3>12. /\ store' \in [1..MaxStores -> Seq(Char)] /\ store'[x.data] = filled
           /\ \A b \in 1..MaxStores : b # x.data => store'[b] = store[b]
      BY <1>1, <2>4, <3>6, <3>10 DEF CxxInv, CxxTyped
    <3>13. header'[v] = h
      BY <1>1, <3>6 DEF CxxInv, CxxTyped
    <3> HIDE DEF h, x
    <3>14. InBlock(v)'
      BY <1>1, <2>4, <3>3, <3>6, <3>7, <3>10, <3>11, <3>12, <3>13 DEF InBlock
    <3>15. Agrees(Text(v)', meant)
      BY <1>7, <2>4, <3>10, <3>11, <3>12, <3>13 DEF Text
    <3>16. ASSUME NEW p \in alive' \ {v}, header[p].data # 0
           PROVE  /\ header[p].data \in allocs' /\ store'[header[p].data] = store[header[p].data]
                  /\ header[p].data # h.data
      <4>1. p \in alive /\ header[p].data \in 1..MaxStores /\ header[p].data \in allocs
        BY <2>1, <3>16, LiveObject DEF InBlock
      <4>2. header[p].data # x.data
        BY <3>16, <4>1 DEF CxxInv, ContainersSound, StorageOwned, x
      <4> QED BY <3>6, <3>11, <3>12, <4>1, <4>2
    <3>17. last' \in 0..MaxStores /\ last <= last' /\ allocs' \subseteq 1..last' /\ alive' \subseteq alive \cup {v}
      BY <1>2, <2>1, <3>6 DEF CxxInv, CxxTyped
    <3>19. header' = [header EXCEPT ![v] = h]
      BY <3>6 DEF h
    <3> QED BY <1>1, <2>1, <3>11, <3>12, <3>14, <3>15, <3>16, <3>17, <3>19, OneChanges
  <2> QED BY <2>2, <2>3, <2>4
<1> QED BY <1>4, <1>5

\* A vector that only gets shorter.
LEMMA Shortened ==
  ASSUME CxxInv, NEW v \in Vectors \cap alive, NEW k \in 0..header[v].len,
         header' = [header EXCEPT ![v] = [header[v] EXCEPT !.len = k]],
         NEW meant \in Meanings, Agrees(First(Text(v), k), meant), value' = [value EXCEPT ![v] = meant],
         UNCHANGED <<store, allocs, last, alive>>
  PROVE  CxxInv'
<1> DEFINE x == header[v]
           h == [x EXCEPT !.len = k]
           text == First(Text(v), k)
<1>1. /\ v \in Objects /\ x \in Headers /\ Text(v) \in Seq(Char)
      /\ x.len \in Nat /\ x.room \in Nat /\ x.data \in Nat /\ x.len <= x.room /\ Len(Text(v)) = x.len
      /\ x.data = 0 => x.room = 0 /\ x.text = <<>> /\ Text(v) = <<>>
      /\ x.data # 0 => /\ x.data \in 1..MaxStores /\ x.data \in allocs
                       /\ store[x.data] \in Seq(Char) /\ x.room <= Len(store[x.data])
                       /\ Text(v) = First(store[x.data], x.len)
  BY LiveVector
<1>2. k \in Nat /\ k <= x.len /\ k \in 0..Len(Text(v))
  BY <1>1
<1>3. h \in Headers /\ h.data = x.data /\ h.len = k /\ h.room = x.room /\ h.text = x.text
  BY <1>1, <1>2 DEF Headers
<1>4. header'[v] = h
  BY DEF CxxInv, CxxTyped
<1>5. text \in Seq(Char) /\ Len(text) = k /\ \A i \in 1..k : text[i] = Text(v)[i]
  BY <1>1, <1>2, FirstFacts
<1>6. header' = [header EXCEPT ![v] = h] /\ Agrees(text, meant)
  OBVIOUS
<1>7. ASSUME NEW p \in alive' \ {v}, header[p].data # 0
      PROVE  /\ header[p].data \in allocs' /\ store'[header[p].data] = store[header[p].data]
             /\ header[p].data # h.data
  BY <1>3, <1>7 DEF CxxInv, ContainersSound, StorageOwned
<1>8. /\ store' \in [1..MaxStores -> Seq(Char)] /\ last' \in 0..MaxStores /\ last <= last'
      /\ alive' \subseteq alive \cup {v}
  BY CxxAssumption DEF CxxInv, CxxTyped
<1>9. allocs' \subseteq 1..last'
  BY DEF CxxInv, CxxTyped
<1> HIDE DEF h, text, x
<1>10. InBlock(v)'
  <2>1. CASE x.data = 0
    <3>1. k = 0
      BY <1>1, <1>2, <2>1
    <3> QED BY <1>1, <1>3, <1>4, <2>1, <3>1 DEF InBlock
  <2>2. CASE x.data # 0
    <3>1. x.room \in Nat /\ Len(store[x.data]) \in Nat /\ x.data \in allocs /\ x.room <= Len(store[x.data])
      BY <1>1, <2>2
    <3>2. k <= x.room /\ k <= Len(store[x.data])
      BY <1>1, <1>2, <3>1
    <3>3. /\ header'[v].data = x.data /\ header'[v].len = k /\ header'[v].room = x.room
          /\ store' = store /\ allocs' = allocs
      BY <1>3, <1>4
    <3> QED BY <2>2, <3>1, <3>2, <3>3 DEF InBlock
  <2> QED BY <2>1, <2>2
<1>11. Text(v)' = text
  <2>1. CASE x.data = 0
    <3>1. Len(text) = 0
      BY <1>1, <1>2, <1>5, <2>1
    <3>2. text = <<>>
      BY <1>5, <3>1
    <3> QED BY <1>1, <1>3, <1>4, <2>1, <3>2 DEF Text
  <2>2. CASE x.data # 0
    <3> DEFINE whole == store[x.data]
    <3>1. whole \in Seq(Char) /\ x.len \in 0..Len(whole) /\ Text(v) = First(whole, x.len)
      BY <1>1, <2>2
    <3> HIDE DEF whole
    <3>2. k \in 0..Len(whole) /\ \A i \in 1..x.len : Text(v)[i] = whole[i]
      BY <1>1, <1>2, <3>1, FirstFacts
    <3>3. First(whole, k) \in Seq(Char) /\ Len(First(whole, k)) = k /\ \A i \in 1..k : First(whole, k)[i] = whole[i]
      BY <3>1, <3>2, FirstFacts
    <3>4. \A i \in 1..k : First(whole, k)[i] = text[i]
      BY <1>1, <1>2, <1>5, <3>2, <3>3
    <3>5. First(whole, k) = text
      BY <1>5, <3>3, <3>4, SameTexts
    <3>6. Text(v)' = First(whole, k)
      BY <1>3, <1>4, <2>2 DEF Text, whole
    <3> QED BY <3>5, <3>6
  <2> QED BY <2>1, <2>2
<1>12. Agrees(Text(v)', meant)
  BY <1>6, <1>11
<1> QED BY <1>1, <1>3, <1>6, <1>7, <1>8, <1>9, <1>10, <1>12, OneChanges

\* A vector that is filled with a copy of another.
LEMMA Copied ==
  ASSUME CxxInv, NEW v \in Vectors, NEW source \in Vectors \cap alive, alive' \subseteq alive \cup {v},
         Means(v, value[source]), CopyNeeds(source), last < MaxStores,
         last' = last + 1, store' = [store EXCEPT ![last + 1] = Text(source)],
         Becomes(v, AsLong(last + 1, header[source].len, header[source].len)),
         \/ allocs' = allocs \cup {last + 1}
         \/ v \in alive /\ allocs' = (allocs \ {header[v].data}) \cup {last + 1}
  PROVE  CxxInv'
<1>1. PICK bytes \in Seq(Char) :
        bytes = Text(source) /\ Agrees(bytes, value[source]) /\ Len(bytes) = header[source].len
  BY LiveVector
<1>7. PICK meant \in Meanings : meant = value[source]
  BY LiveVector
<1>2. PICK len \in 0..Len(bytes) : len = Len(bytes) /\ len \in Nat
  BY <1>1
<1>3. First(bytes, len) = bytes
  <2>1. First(bytes, len) \in Seq(Char) /\ Len(First(bytes, len)) = len /\ \A i \in 1..len : First(bytes, len)[i] = bytes[i]
    BY <1>2, FirstFacts
  <2> QED BY <1>2, <2>1, SameTexts
<1>5. PICK room \in Nat : room = len
  BY <1>2
<1>4. /\ v \in Objects /\ store' = [store EXCEPT ![last + 1] = bytes]
      /\ header' = [header EXCEPT ![v] = AsLong(last + 1, len, room)]
      /\ value' = [value EXCEPT ![v] = meant] /\ Agrees(First(bytes, len), meant)
  BY <1>1, <1>2, <1>3, <1>5, <1>7 DEF Objects, Means, Becomes
<1>6. len <= room /\ room <= Len(bytes)
  BY <1>2, <1>5
<1> QED BY <1>1, <1>4, <1>5, <1>6, BlockGranted

LEMMA NothingToCopy ==
  ASSUME CxxInv, NEW v \in Vectors \cap alive, ~CopyNeeds(v)
  PROVE  value[v] \in Meanings /\ Agrees(<<>>, value[v])
<1>1. Text(v) \in Seq(Char) /\ Len(Text(v)) = 0 /\ value[v] \in Meanings /\ Agrees(Text(v), value[v])
  BY LiveVector DEF CopyNeeds
<1>2. Text(v) = <<>>
  BY <1>1
<1> QED BY <1>1, <1>2

LEMMA Emptied ==
  ASSUME CxxInv, NEW v \in Vectors, NEW meant \in Meanings, Agrees(<<>>, meant),
         Becomes(v, Nothing), Means(v, meant), alive' \subseteq alive \cup {v},
         UNCHANGED <<store, last>>,
         allocs' = allocs \/ (v \in alive /\ allocs' = allocs \ {header[v].data})
  PROVE  CxxInv'
<1>1. /\ v \in Objects /\ header' = [header EXCEPT ![v] = AsShort(<<>>)] /\ value' = [value EXCEPT ![v] = meant]
      /\ allocs' \subseteq allocs
  BY NothingIs DEF Becomes, Means, Objects
<1> QED BY <1>1, EmptyText, BlockLost

LEMMA VectorStepKeeps == ASSUME CxxInv, NEW granted \in Grants, VectorStep(granted) PROVE CxxInv'
<1>1. \A c \in Bytes : c \in Char
  BY DEF Char
<1>2. \A n \in Sizes : n \in Nat
  BY CxxAssumption DEF Sizes
<1>3. granted => last < MaxStores
  BY DEF Grants
<1>20. Sure(<<>>) \in Meanings /\ Agrees(<<>>, Sure(<<>>))
  BY EmptyText, SureFacts, EmptyAgrees
<1>4. ASSUME NEW v \in Vectors, VectorDefaultCtor(v) PROVE CxxInv'
  <2>1. /\ Becomes(v, Nothing) /\ Means(v, Sure(<<>>)) /\ alive' \subseteq alive \cup {v}
        /\ UNCHANGED <<store, last>> /\ allocs' = allocs
    BY <1>4 DEF VectorDefaultCtor, SameHeap
  <2> QED BY <1>20, <2>1, Emptied
<1>5. ASSUME NEW v \in Vectors, NEW w \in Vectors \cap alive, VectorCopy(v, w, granted) PROVE CxxInv'
  <2>1. Means(v, value[w]) /\ alive' \subseteq alive \cup {v} /\ VectorCopied(v, w) /\ (CopyNeeds(w) => granted)
    BY <1>5 DEF VectorCopy
  <2>2. CASE CopyNeeds(w)
    BY <1>3, <2>1, <2>2, Copied DEF VectorCopied, Grant
  <2>3. CASE ~CopyNeeds(w)
    <3>1. Becomes(v, Nothing) /\ UNCHANGED <<store, last>> /\ allocs' = allocs
      BY <2>1, <2>3 DEF VectorCopied, SameHeap
    <3>2. value[w] \in Meanings /\ Agrees(<<>>, value[w])
      BY <2>3, NothingToCopy
    <3> QED BY <2>1, <3>1, <3>2, Emptied
  <2> QED BY <2>2, <2>3
<1>6. ASSUME NEW v \in Vectors \cap alive, NEW n \in Sizes, NEW c \in Bytes, VectorResize(v, n, c, granted)
      PROVE  CxxInv'
  <2>1. PICK to \in Nat : to = Least(n, Longest)
    BY <1>2, <1>6, CxxAssumption DEF Least
  <2>2. PICK capacity \in Nat : capacity = IF to > header[v].room THEN to ELSE 0
    BY <2>1
  <2>4. /\ header[v].room \in Nat /\ Text(v) \in Seq(Char) /\ n \in Nat /\ c \in Char /\ to <= Longest
        /\ Longest \in Nat /\ value[v] \in Meanings /\ Agrees(Text(v), value[v])
    BY <1>1, <1>2, <2>1, LiveVector, CxxAssumption DEF Least
  <2>3. PICK meant \in Meanings : meant = MeantResized(v, n, c) /\ Agrees(Sized(Text(v), to, c), meant)
    BY <2>1, <2>4, ResizedAgrees
  <2>6. to <= Reserved(v, capacity).room
    BY <2>1, <2>2, <2>4 DEF Reserved, Most, Least, AsLong
  <2>7. VectorCall(v, to, c, capacity, meant, granted)
    BY <1>6, <2>1, <2>2, <2>3 DEF VectorResize
  <2> QED BY <2>3, <2>4, <2>6, <2>7, VectorCalled
<1>7. ASSUME NEW v \in Vectors \cap alive, NEW n \in Sizes, VectorReserve(v, n, granted) PROVE CxxInv'
  <2>1. /\ header[v].room \in Nat /\ header[v].len \in Nat /\ header[v].len <= header[v].room
        /\ Text(v) \in Seq(Char) /\ Len(Text(v)) = header[v].len /\ n \in Nat /\ Longest \in Nat
        /\ value[v] \in Meanings /\ Agrees(Text(v), value[v])
    BY <1>2, LiveVector, CxxAssumption
  <2>2. PICK to \in Nat : to = header[v].len
    BY <2>1
  <2>3. PICK c \in Char : c = "nul"
    BY DEF Char
  <2>4. PICK meant \in Meanings : meant = value[v] /\ Agrees(Text(v), meant)
    BY <2>1
  <2>5. Agrees(Sized(Text(v), to, c), meant)
    <3>1. PICK text \in Seq(Char) : text = Text(v) /\ Len(text) = to
      BY <2>1, <2>2
    <3>2. Sized(text, Len(text), c) = text
      BY SizedSame
    <3> QED BY <2>4, <3>1, <3>2
  <2>6. to <= Reserved(v, n).room
    BY <2>1, <2>2 DEF Reserved, Most, Least, AsLong
  <2>7. VectorCall(v, to, c, n, meant, granted)
    BY <1>7, <2>2, <2>3, <2>4 DEF VectorReserve
  <2> QED BY <2>1, <2>5, <2>6, <2>7, VectorCalled
<1>8. ASSUME NEW v \in Vectors \cap alive, NEW c \in Bytes, VectorPushBack(v, c, granted) PROVE CxxInv'
  <2>1. /\ header[v].room \in Nat /\ header[v].len \in Nat /\ header[v].len <= header[v].room
        /\ Text(v) \in Seq(Char) /\ Len(Text(v)) = header[v].len /\ c \in Char /\ Longest \in Nat
        /\ value[v] \in Meanings /\ Agrees(Text(v), value[v])
    BY <1>1, <1>8, LiveVector, CxxAssumption
  <2>2. PICK text \in Seq(Char) : text = Text(v)
    BY <2>1
  <2>3. PICK meant \in Meanings :
          /\ meant = MeantPushed(v, c)
          /\ Len(text) + 1 <= Longest => Agrees(Append(text, c), meant)
          /\ Len(text) + 1 > Longest => Agrees(text, meant)
    BY <2>1, <2>2, PushedAgrees
  <2>4. CASE header[v].len + 1 > Longest
    <3>1. Means(v, meant) /\ UNCHANGED <<header, store, allocs, last, alive>>
      BY <1>8, <2>3, <2>4 DEF VectorPushBack
    <3>2. Agrees(Text(v), meant)
      BY <2>1, <2>2, <2>3, <2>4
    <3> QED BY <3>1, <3>2, OnlyMeant DEF Means
  <2>5. CASE header[v].len + 1 <= Longest
    <3>2. PICK to \in Nat : to = header[v].len + 1
      BY <2>1
    <3>3. PICK capacity \in Nat :
            capacity = IF header[v].len < header[v].room THEN 0 ELSE Most(2 * header[v].room, header[v].len + 1)
      BY <2>1 DEF Most
    <3>6. Agrees(Sized(Text(v), to, c), meant)
      <4>1. Sized(text, Len(text) + 1, c) = Append(text, c)
        BY <2>1, SizedAppend
      <4>2. Len(text) + 1 = to
        BY <2>1, <2>2, <3>2
      <4> QED BY <2>2, <2>3, <2>5, <3>2, <4>1, <4>2
    <3>7. to <= Reserved(v, capacity).room
      BY <2>1, <2>5, <3>2, <3>3, SMTT(30) DEF Reserved, Most, Least, AsLong
    <3>8. VectorCall(v, to, c, capacity, meant, granted)
      <4>1. ~(header[v].len + 1 > Longest)
        BY <2>1, <2>5
      <4> QED BY <1>8, <2>3, <3>2, <3>3, <4>1 DEF VectorPushBack
    <3> QED BY <2>1, <3>6, <3>7, <3>8, VectorCalled
  <2> QED BY <2>1, <2>4, <2>5
<1>9. ASSUME NEW v \in Vectors \cap alive, NEW w \in Vectors \cap alive, VectorAssign(v, w, granted) PROVE CxxInv'
  <2>1. alive' = alive
    BY <1>9 DEF VectorAssign
  <2>2. CASE CopyNeeds(w) /\ ~granted
    <3>1. /\ Becomes(v, Nothing) /\ Means(v, Sure(<<>>)) /\ allocs' = allocs \ {header[v].data}
          /\ UNCHANGED <<store, last>>
      BY <1>9, <2>2 DEF VectorAssign, Destroyed
    <3> QED BY <1>20, <2>1, <3>1, Emptied
  <2>3. CASE CopyNeeds(w) /\ granted
    <3>1. /\ Means(v, value[w]) /\ allocs' = (allocs \ {header[v].data}) \cup {last + 1}
          /\ last' = last + 1 /\ store' = [store EXCEPT ![last + 1] = Text(w)]
          /\ Becomes(v, AsLong(last + 1, header[w].len, header[w].len))
      BY <1>9, <2>3 DEF VectorAssign
    <3> QED BY <1>3, <2>1, <2>3, <3>1, Copied
  <2>4. CASE ~CopyNeeds(w)
    <3>1. Means(v, value[w]) /\ allocs' = allocs \ {header[v].data} /\ Becomes(v, Nothing) /\ UNCHANGED <<store, last>>
      BY <1>9, <2>4 DEF VectorAssign
    <3>2. value[w] \in Meanings /\ Agrees(<<>>, value[w])
      BY <2>4, NothingToCopy
    <3> QED BY <2>1, <3>1, <3>2, Emptied
  <2> QED BY <2>2, <2>3, <2>4
<1>10. ASSUME NEW v \in Vectors \cap alive, VectorPopBack(v) PROVE CxxInv'
  <2>1. /\ header[v].len \in Nat /\ Len(Text(v)) = header[v].len /\ Text(v) \in Seq(Char)
        /\ value[v] \in Meanings /\ Agrees(Text(v), value[v])
    BY LiveVector
  <2>2. PICK k \in 0..header[v].len : k = IF header[v].len = 0 THEN 0 ELSE header[v].len - 1
    BY <2>1
  <2>3. k = Most(Len(Text(v)), 1) - 1
    BY <2>1, <2>2 DEF Most
  <2>4. header' = [header EXCEPT ![v] = [header[v] EXCEPT !.len = k]]
    BY <1>10, <2>2 DEF VectorPopBack, Becomes
  <2>6. PICK meant \in Meanings : meant = MeantPopped(v) /\ Agrees(First(Text(v), k), meant)
    BY <2>1, <2>3, PoppedAgrees
  <2>5. value' = [value EXCEPT ![v] = meant] /\ UNCHANGED <<store, allocs, last, alive>>
    BY <1>10, <2>6 DEF VectorPopBack, Means, SameHeap
  <2> QED BY <2>4, <2>5, <2>6, Shortened
<1>11. ASSUME NEW v \in Vectors \cap alive, VectorClear(v) PROVE CxxInv'
  <2>1. PICK k \in 0..header[v].len : k = 0
    BY LiveVector
  <2>2. First(Text(v), 0) = <<>>
    <3>1. First(Text(v), 0) \in Seq(Char) /\ Len(First(Text(v), 0)) = 0
      BY LiveVector, FirstFacts
    <3> QED BY <3>1
  <2>3. header' = [header EXCEPT ![v] = [header[v] EXCEPT !.len = k]]
    BY <1>11, <2>1 DEF VectorClear, Becomes
  <2>5. PICK meant \in Meanings : meant = Sure(<<>>) /\ Agrees(First(Text(v), k), meant)
    BY <1>20, <2>1, <2>2
  <2>4. value' = [value EXCEPT ![v] = meant] /\ UNCHANGED <<store, allocs, last, alive>>
    BY <1>11, <2>5 DEF VectorClear, Means, SameHeap
  <2> QED BY <2>3, <2>4, <2>5, Shortened
<1>12. ASSUME NEW v \in Vectors \cap alive, VectorDtor(v) PROVE CxxInv'
  <2>1. PICK h \in Headers : h = Nothing /\ h.data = 0
    BY NothingIs
  <2>2. header' = [header EXCEPT ![v] = h] /\ h.data \in {0, header[v].data}
    BY <1>12, <2>1 DEF VectorDtor, Becomes, Destroyed
  <2>3. allocs' = allocs \ {header[v].data} /\ alive' = alive \ {v} /\ UNCHANGED <<store, last, value>>
    BY <1>12 DEF VectorDtor
  <2> QED BY <2>2, <2>3, Destroys
<1> QED BY <1>4, <1>5, <1>6, <1>7, <1>8, <1>9, <1>10, <1>11, <1>12 DEF VectorStep


\* The guest's own code.

\* Headers that go round: each living object has the header and the value of one that
\* lived, of its own kind, and no two have those of the same; or it is empty.
LEMMA HeadersMoved ==
  ASSUME CxxInv, UNCHANGED <<store, allocs, last>>, alive' \subseteq Objects,
         header' \in [Objects -> Headers], value' \in [Objects -> Meanings],
         NEW From, \A p \in alive' : \/ header'[p] = AsShort(<<>>) /\ Agrees(<<>>, value'[p])
                                     \/ /\ From[p] \in alive /\ (p \in Vectors => From[p] \in Vectors)
                                        /\ header'[p] = header[From[p]] /\ value'[p] = value[From[p]],
         \A p, q \in alive' : From[p] = From[q] => p = q
  PROVE  CxxInv'
<1>1. CxxTyped'
  BY DEF CxxInv, CxxTyped
<1>2. ASSUME NEW p \in alive', header'[p] = AsShort(<<>>), Agrees(<<>>, value'[p])
      PROVE  InBlock(p)' /\ Agrees(Text(p)', value'[p]) /\ header'[p].data = 0
  <2>1. InBlock(p)' /\ Text(p)' = <<>> /\ header'[p].data = 0
    BY <1>2 DEF AsShort, InBlock, Text
  <2> QED BY <1>2, <2>1
<1>3. ASSUME NEW p \in alive', From[p] \in alive, p \in Vectors => From[p] \in Vectors,
             header'[p] = header[From[p]], value'[p] = value[From[p]]
      PROVE  InBlock(p)' /\ Agrees(Text(p)', value'[p])
  <2>1. InBlock(From[p]) /\ Agrees(Text(From[p]), value[From[p]])
    BY <1>3, LiveObject
  <2>2. InBlock(p)' /\ Text(p)' = Text(From[p])
    BY <1>3, <2>1 DEF InBlock, Text
  <2> QED BY <1>3, <2>1, <2>2
<1>4. \A p \in alive' : InBlock(p)' /\ Agrees(Text(p)', value'[p])
  BY <1>2, <1>3
<1>6. ValuesKept'
  BY <1>4 DEF ValuesKept, Agrees, Beginning
<1>5. StorageOwned'
  <2> SUFFICES ASSUME NEW p \in alive', header'[p].data # 0
               PROVE  /\ header'[p].data \in allocs'
                      /\ \A q \in alive' : header'[q].data = header'[p].data => q = p
    BY DEF StorageOwned
  <2>1. From[p] \in alive /\ header'[p] = header[From[p]]
    BY <1>2
  <2>2. header[From[p]].data \in allocs
    BY <2>1 DEF CxxInv, ContainersSound, StorageOwned
  <2>3. ASSUME NEW q \in alive', header'[q].data = header'[p].data PROVE q = p
    <3>1. From[q] \in alive /\ header'[q] = header[From[q]]
      BY <2>3, <1>2
    <3>2. From[q] = From[p]
      BY <2>1, <2>3, <3>1 DEF CxxInv, ContainersSound, StorageOwned
    <3> QED BY <3>2
  <2> QED BY <2>1, <2>2, <2>3
<1> QED BY <1>1, <1>4, <1>5, <1>6 DEF CxxInv, ContainersSound

LEMMA EmptyIs == \A o : Empty(o) = AsShort(<<>>) /\ Empty(o) \in Headers
BY NothingIs DEF Empty

LEMMA MoveStep ==
  ASSUME CxxInv, NEW o \in Objects, NEW from \in alive, MoveCtor(o, from)
  PROVE  CxxInv'
<1>1. /\ o \notin alive /\ o # from /\ from \in Objects
      /\ header' = [header EXCEPT ![o] = header[from], ![from] = Empty(from)]
      /\ value' = [value EXCEPT ![o] = value[from], ![from] = Sure(<<>>)]
      /\ alive' = alive \cup {o} /\ UNCHANGED <<store, allocs, last>>
  BY DEF MoveCtor, SameHeap, CxxInv, CxxTyped
<1>2. o \in Vectors => from \in Vectors
  BY <1>1, CxxAssumption DEF MoveCtor, SameKind, Objects
<1>3. header' \in [Objects -> Headers] /\ value' \in [Objects -> Meanings]
  BY <1>1, EmptyIs, EmptyText, SureFacts DEF CxxInv, CxxTyped
<1>4. /\ header'[o] = header[from] /\ value'[o] = value[from]
      /\ header'[from] = AsShort(<<>>) /\ Agrees(<<>>, value'[from])
      /\ \A p \in Objects \ {o, from} : header'[p] = header[p] /\ value'[p] = value[p]
  BY <1>1, EmptyIs, EmptyAgrees DEF CxxInv, CxxTyped
<1>5. PICK From : From = [p \in Objects |-> IF p = o THEN from ELSE IF p = from THEN o ELSE p]
  OBVIOUS
<1>6. alive' \subseteq Objects /\ alive \subseteq Objects
  BY <1>1 DEF CxxInv, CxxTyped
<1>7. \A p, q \in alive' : From[p] = From[q] => p = q
  BY <1>1, <1>5, <1>6
<1>8. \A p \in alive' : \/ header'[p] = AsShort(<<>>) /\ Agrees(<<>>, value'[p])
                        \/ /\ From[p] \in alive /\ (p \in Vectors => From[p] \in Vectors)
                           /\ header'[p] = header[From[p]] /\ value'[p] = value[From[p]]
  BY <1>1, <1>2, <1>4, <1>5, <1>6
<1> QED BY <1>1, <1>3, <1>6, <1>7, <1>8, HeadersMoved

LEMMA SwapStep == ASSUME CxxInv, NEW o \in alive, NEW p \in alive, Swap(o, p) PROVE CxxInv'
<1>1. /\ o # p /\ o \in Objects /\ p \in Objects
      /\ header' = [header EXCEPT ![o] = header[p], ![p] = header[o]]
      /\ value' = [value EXCEPT ![o] = value[p], ![p] = value[o]]
      /\ alive' = alive /\ UNCHANGED <<store, allocs, last>>
  BY DEF Swap, SameHeap, CxxInv, CxxTyped
<1>2. o \in Vectors <=> p \in Vectors
  BY <1>1, CxxAssumption DEF Swap, SameKind, Objects
<1>3. header' \in [Objects -> Headers] /\ value' \in [Objects -> Meanings]
  BY <1>1 DEF CxxInv, CxxTyped
<1>4. /\ header'[o] = header[p] /\ value'[o] = value[p] /\ header'[p] = header[o] /\ value'[p] = value[o]
      /\ \A q \in Objects \ {o, p} : header'[q] = header[q] /\ value'[q] = value[q]
  BY <1>1 DEF CxxInv, CxxTyped
<1>5. PICK From : From = [q \in Objects |-> IF q = o THEN p ELSE IF q = p THEN o ELSE q]
  OBVIOUS
<1>6. alive' \subseteq Objects /\ alive \subseteq Objects
  BY <1>1 DEF CxxInv, CxxTyped
<1>7. \A q, r \in alive' : From[q] = From[r] => q = r
  BY <1>1, <1>5, <1>6
<1>8. \A q \in alive' : /\ From[q] \in alive /\ (q \in Vectors => From[q] \in Vectors)
                        /\ header'[q] = header[From[q]] /\ value'[q] = value[From[q]]
  BY <1>1, <1>2, <1>4, <1>5, <1>6, ZenonT(60)
<1> QED BY <1>1, <1>3, <1>6, <1>7, <1>8, HeadersMoved

LEMMA NextCxx == CxxInv /\ [CNext]_cxxvars => CxxInv'
<1> SUFFICES ASSUME CxxInv, [CNext]_cxxvars PROVE CxxInv'
  OBVIOUS
<1>1. ASSUME NEW granted \in Grants, StringStep(granted) \/ VectorStep(granted) PROVE CxxInv'
  BY <1>1, StringStepKeeps, VectorStepKeeps
<1>2. ASSUME NEW o \in Objects, NEW p \in alive, MoveCtor(o, p) \/ (o \in alive /\ Swap(o, p)) PROVE CxxInv'
  BY <1>2, MoveStep, SwapStep
<1> QED BY <1>1, <1>2, SameObjects DEF CNext, GuestStep

\* For any objects, texts, lengths and blocks, whatever is granted or refused: each
\* living object lies in its block, which no other has, and reads as the text of C++ or
\* as its first Longest bytes, unless bytes were removed from a text that was cut.
THEOREM ContainersInvariant == CSpec => []CxxInv
BY InitCxx, NextCxx, PTL DEF CSpec

\* Strings and vectors of C++ have a block of their own each, and keep of what was put
\* in them all up to the limit of the layer, in order.
THEOREM ContainersAreSound == CSpec => []ContainersSound
<1>1. CxxInv => ContainersSound
  BY DEF CxxInv
<1> QED BY <1>1, ContainersInvariant, PTL

-------------------------------------------------------------------------------
(***************************************************************************)
(* ChildOutput.                                                            *)
(***************************************************************************)
PopenStreams == [output : Seq({"x", "n"}), offset : Nat, eof : BOOLEAN]
Dup2 == (Pipes \cup {1, 2}) \X {1, 2}

OutputTyped ==
  /\ opened \in Nat
  /\ DOMAIN told = 1..opened /\ DOMAIN lossy = 1..opened /\ DOMAIN item = 1..opened
  /\ DOMAIN streams \subseteq 1..opened
  /\ \A s \in DOMAIN streams : /\ streams[s] \in PopenStreams
                               /\ streams[s].offset <= Len(streams[s].output)
                               /\ \A i \in DOMAIN told[s] : told[s][i] <= streams[s].offset
  /\ \A s \in DOMAIN told : /\ told[s] \in Seq(Nat \ {0}) /\ lossy[s] \subseteq Nat
                            /\ item[s] \in Nat \ {0}

\* The parts of StreamsTold, of the bytes told of one stream.
InOrder(q) == \A i, j \in DOMAIN q : i < j => q[i] < q[j]
NoGap(q, marks) == \A i \in DOMAIN q : \/ q[i] = IF i = 1 THEN 1 ELSE q[i - 1] + 1
                                       \/ \E e \in marks : q[i] = e + 1
Within(q, most) == \A i \in DOMAIN q : q[i] <= most
Promised(at, counted) == [i \in 1..counted |-> at + i]
LastTold(q) == IF q = <<>> THEN 0 ELSE q[Len(q)]
Arrived(q, marks, offset, rest, size) ==
  \/ offset \in {LastTold(q)} \cup marks
  \/ rest = 0 /\ \E e \in {LastTold(q)} \cup marks : offset < e + size
StreamTold(s) ==
  /\ InOrder(told[s]) /\ NoGap(told[s], lossy[s])
  /\ s \in DOMAIN streams => /\ Arrived(told[s], lossy[s], streams[s].offset, Rest(s), item[s])
                             /\ streams[s].eof => Rest(s) = 0

LEMMA EachStream == StreamsTold <=> \A s \in DOMAIN told : StreamTold(s)
BY DEF StreamsTold, StreamTold, InOrder, NoGap, Arrived, LastTold, Known

LEMMA EachStreamNext == StreamsTold' <=> \A s \in DOMAIN told' : StreamTold(s)'
BY DEF StreamsTold, StreamTold, InOrder, NoGap, Arrived, LastTold, Known

\* The pipe p is put on 1 or 2 by the i-th of some actions.
Puts(acts, i, p) == acts[i][2] \in {1, 2} /\ acts[i][1] \in Pipes /\ acts[i][1] = p
LogOK ==
  /\ actions \in Seq(Dup2) /\ spawned.actions \in Seq(Dup2)
  /\ \A p \in Pipes :
       spawned.fed[p] = Cardinality({i \in DOMAIN spawned.actions : Puts(spawned.actions, i, p)})

OutputInv == OutputTyped /\ StreamsTold /\ LogOK

LEMMA SameStreams == OutputTyped /\ StreamsTold /\ UNCHANGED streamvars => (OutputTyped /\ StreamsTold)'
BY DEF OutputTyped, StreamsTold, streamvars, historyvars, Rest, Known

LEMMA SameLog == LogOK /\ UNCHANGED <<actions, spawned>> => LogOK'
BY DEF LogOK, Puts

LEMMA RestType ==
  ASSUME OutputTyped, NEW s \in DOMAIN streams
  PROVE  /\ Rest(s) \in Nat /\ Rest(s) = Len(streams[s].output) - streams[s].offset
         /\ Len(streams[s].output) \in Nat /\ streams[s].offset \in Nat
<1>1. streams[s].output \in Seq({"x", "n"}) /\ streams[s].offset \in Nat
      /\ streams[s].offset <= Len(streams[s].output)
  BY DEF OutputTyped, PopenStreams
<1>2. Len(streams[s].output) \in Nat
  BY <1>1, LenProperties
<1> QED BY <1>1, <1>2 DEF Rest

LEMMA LineFits ==
  ASSUME OutputTyped, NEW s \in DOMAIN streams, NEW capacity \in Nat, capacity > 1
  PROVE  LineRead(s, capacity) \in 0..Rest(s)
<1> DEFINE most == SmallerOf(Rest(s), capacity - 1)
           window == {i \in 1..most : streams[s].output[streams[s].offset + i] = "n"}
<1>1. most \in Nat /\ most <= Rest(s) /\ Rest(s) \in Nat
  BY RestType DEF SmallerOf
<1>2. LineRead(s, capacity) = IF window = {} THEN most
                              ELSE CHOOSE i \in window : \A j \in window : i <= j
  BY DEF LineRead
<1>3. window \subseteq 1..most
  OBVIOUS
<1> HIDE DEF window, most
<1>4. CASE window = {}
  BY <1>1, <1>2, <1>4
<1>5. CASE window # {}
  <2>1. window \subseteq Nat
    BY <1>1, <1>3
  <2>2. \E i \in window : \A j \in window : i <= j
    BY <1>5, <2>1, LeastOf
  <2>3. LineRead(s, capacity) \in window
    BY <1>2, <1>5, <2>2
  <2>4. LineRead(s, capacity) \in 1..most
    BY <1>3, <2>3
  <2> QED BY <1>1, <2>4
<1> QED BY <1>4, <1>5

LEMMA ItemsFit ==
  ASSUME NEW n \in Nat, NEW size \in Nat, size > 0
  PROVE  (n \div size) * size \in 0..n /\ n - (n \div size) * size < size
OBVIOUS

LEMMA WholeItems ==
  ASSUME NEW n \in Nat, NEW size \in Nat, size > 0
  PROVE  size * n = n * size /\ ((n * size) \div size) * size = n * size
<1>1. size * n = n * size
  OBVIOUS
<1>2. (n * size) \div size = n
  OBVIOUS
<1> QED BY <1>1, <1>2

\* What is promised next goes on behind what the guest knows.
LEMMA PromiseMore ==
  ASSUME NEW at \in Nat, NEW counted \in Nat, NEW before \in Seq(Nat \ {0}),
         NEW marks, NEW more, marks \subseteq more,
         InOrder(before), NoGap(before, marks), Within(before, at),
         counted > 0 => at \in {LastTold(before)} \cup marks,
         NEW after, after = before \o Promised(at, counted)
  PROVE  /\ after \in Seq(Nat \ {0}) /\ Within(after, at + counted)
         /\ InOrder(after) /\ NoGap(after, more)
         /\ LastTold(after) = IF counted = 0 THEN LastTold(before) ELSE at + counted
<1> DEFINE next == Promised(at, counted)
<1>1. next \in Seq(Nat \ {0}) /\ Len(next) = counted /\ \A i \in 1..counted : next[i] = at + i
  <2>1. next = [i \in 1..counted |-> at + i]
    BY DEF Promised
  <2> HIDE DEF next
  <2>2. next \in [1..counted -> Nat \ {0}]
    BY <2>1
  <2> QED BY <2>1, <2>2, SeqDef, LenProperties
<1>2. after = before \o next
  OBVIOUS
<1> HIDE DEF next
<1>3. /\ after \in Seq(Nat \ {0}) /\ Len(before) \in Nat /\ DOMAIN before = 1..Len(before)
      /\ Len(after) = Len(before) + counted /\ DOMAIN after = 1..(Len(before) + counted)
      /\ \A i \in DOMAIN after : after[i] = IF i <= Len(before) THEN before[i]
                                            ELSE at + (i - Len(before))
  <2>0. PICK S : S = Nat \ {0}
    OBVIOUS
  <2>4. before \in Seq(S) /\ next \in Seq(S)
    BY <1>1, <2>0
  <2>5. /\ after \in Seq(S) /\ Len(after) = Len(before) + Len(next)
        /\ \A i \in 1..(Len(before) + Len(next)) :
             after[i] = IF i <= Len(before) THEN before[i] ELSE next[i - Len(before)]
    BY <1>2, <2>4, ConcatProperties
  <2>1. /\ after \in Seq(Nat \ {0}) /\ Len(after) = Len(before) + Len(next)
        /\ \A i \in 1..(Len(before) + Len(next)) :
             after[i] = IF i <= Len(before) THEN before[i] ELSE next[i - Len(before)]
    BY <2>0, <2>5
  <2>2. Len(before) \in Nat /\ DOMAIN before = 1..Len(before) /\ DOMAIN after = 1..Len(after)
    BY <2>1, LenProperties
  <2>3. ASSUME NEW i \in 1..(Len(before) + counted), ~(i <= Len(before))
        PROVE  i - Len(before) \in 1..counted
    BY <2>2, <2>3
  <2> QED BY <1>1, <2>1, <2>2, <2>3
<1>4. \A i \in DOMAIN before : before[i] \in Nat /\ before[i] <= at
  BY <1>3, ElementOfSeq DEF Within
<1>5. Within(after, at + counted)
  BY <1>3, <1>4 DEF Within
<1>6. InOrder(after)
  <2> SUFFICES ASSUME NEW i \in DOMAIN after, NEW j \in DOMAIN after, i < j
               PROVE  after[i] < after[j]
    BY DEF InOrder
  <2>1. CASE j <= Len(before)
    <3>1. i \in DOMAIN before /\ j \in DOMAIN before /\ after[i] = before[i] /\ after[j] = before[j]
      BY <1>3, <2>1
    <3> QED BY <3>1 DEF InOrder
  <2>2. CASE i <= Len(before) /\ ~(j <= Len(before))
    <3>1. i \in DOMAIN before /\ after[i] = before[i] /\ after[j] = at + (j - Len(before))
      BY <1>3, <2>2
    <3> QED BY <1>3, <1>4, <2>2, <3>1
  <2>3. CASE ~(i <= Len(before))
    <3>2. ~(j <= Len(before))
      BY <1>3, <2>3
    <3>1. after[i] = at + (i - Len(before)) /\ after[j] = at + (j - Len(before))
      BY <1>3, <2>3, <3>2
    <3> QED BY <1>3, <2>3, <3>1
  <2> QED BY <2>1, <2>2, <2>3
<1>7. ASSUME NEW q \in Seq(Nat \ {0})
      PROVE  LastTold(q) = IF Len(q) = 0 THEN 0 ELSE q[Len(q)]
  BY EmptySeq DEF LastTold
<1>8. NoGap(after, more)
  <2> SUFFICES ASSUME NEW i \in DOMAIN after
               PROVE  \/ after[i] = IF i = 1 THEN 1 ELSE after[i - 1] + 1
                      \/ \E e \in more : after[i] = e + 1
    BY DEF NoGap
  <2>1. CASE i <= Len(before)
    <3>1. i \in DOMAIN before /\ after[i] = before[i]
      BY <1>3, <2>1
    <3>2. i # 1 => after[i - 1] = before[i - 1]
      <4>1. i # 1 => i - 1 \in DOMAIN after /\ i - 1 <= Len(before)
        BY <1>3, <2>1
      <4> QED BY <1>3, <4>1
    <3> QED BY <3>1, <3>2 DEF NoGap
  <2>2. CASE i = Len(before) + 1
    <3>4. ~(i <= Len(before)) /\ at + (i - Len(before)) = at + 1 /\ counted > 0
      BY <1>3, <2>2
    <3>1. after[i] = at + 1 /\ counted > 0
      BY <1>3, <3>4
    <3>2. CASE at \in marks
      BY <3>1, <3>2
    <3>3. CASE at = LastTold(before)
      <4>1. CASE Len(before) = 0
        <5>1. LastTold(before) = 0
          BY <1>7, <4>1
        <5>2. i = 1 /\ after[i] = 1
          BY <2>2, <3>1, <3>3, <4>1, <5>1
        <5> QED BY <5>2
      <4>2. CASE Len(before) # 0
        <5>1. at = before[Len(before)]
          BY <1>7, <3>3, <4>2
        <5>2. i # 1 /\ i - 1 = Len(before) /\ i - 1 \in DOMAIN after
          BY <1>3, <2>2, <4>2
        <5>3. after[i - 1] = before[Len(before)]
          BY <1>3, <5>2
        <5> QED BY <3>1, <5>1, <5>2, <5>3
      <4> QED BY <4>1, <4>2
    <3> QED BY <3>1, <3>2, <3>3
  <2>3. CASE i > Len(before) + 1
    <3>1. i - 1 \in DOMAIN after /\ ~(i - 1 <= Len(before)) /\ i # 1 /\ ~(i <= Len(before))
      BY <1>3, <2>3
    <3>2. after[i] = at + (i - Len(before)) /\ after[i - 1] = at + ((i - 1) - Len(before))
      BY <1>3, <3>1
    <3>3. i \in Nat /\ Len(before) \in Nat
      BY <1>3
    <3>4. at + (i - Len(before)) = (at + ((i - 1) - Len(before))) + 1
      BY <3>3
    <3>5. after[i] = after[i - 1] + 1
      <4> HIDE DEF next
      <4> QED BY <3>2, <3>4
    <3> QED BY <3>1, <3>5
  <2>4. i <= Len(before) \/ i = Len(before) + 1 \/ i > Len(before) + 1
    BY <1>3
  <2> QED BY <2>1, <2>2, <2>3, <2>4
<1>9. LastTold(after) = IF counted = 0 THEN LastTold(before) ELSE at + counted
  <2>1. LastTold(after) = IF Len(after) = 0 THEN 0 ELSE after[Len(after)]
    BY <1>3, <1>7
  <2>2. CASE counted = 0
    <3>4. Len(before) \in Nat
      BY <1>3
    <3>3. Len(before) + counted = Len(before) /\ Len(before) \in Nat
      BY <2>2, <3>4
    <3>2. /\ Len(after) = Len(before) /\ Len(before) <= Len(before)
          /\ Len(before) # 0 => Len(before) \in DOMAIN after
      <4>1. Len(after) = Len(before) /\ DOMAIN after = 1..Len(before)
        BY <1>3, <3>3
      <4> QED BY <3>3, <4>1
    <3>1. Len(after) = Len(before) /\ (Len(before) # 0 => after[Len(before)] = before[Len(before)])
      BY <1>3, <3>2
    <3> QED BY <1>7, <2>1, <2>2, <3>1
  <2>3. CASE counted # 0
    <3>1. /\ Len(after) # 0 /\ Len(after) \in DOMAIN after
          /\ ~(Len(after) <= Len(before)) /\ Len(after) - Len(before) = counted
      BY <1>3, <2>3
    <3> QED BY <1>3, <2>1, <2>3, <3>1
  <2> QED BY <2>2, <2>3
<1> QED BY <1>3, <1>5, <1>6, <1>8, <1>9

\* A read of n bytes, the first of which are promised: it promises them all, leaves a
\* mark, or uses the output up in less than an item.
LEMMA AdvancedStep ==
  ASSUME OutputTyped, StreamsTold, NEW s \in DOMAIN streams, NEW n \in 0..Rest(s),
         NEW counted \in 0..n, NEW size \in Nat, size > 0, NEW reason \in BOOLEAN,
         Advanced(s, n, counted, size), Marks(s, n, counted, reason),
         counted < n => (reason \/ (n = Rest(s) /\ n - counted < size))
  PROVE  (OutputTyped /\ StreamsTold)'
<1> DEFINE at == streams[s].offset
           before == told[s]
           after == before \o Promised(at, counted)
           marks == lossy[s]
           all == IF reason /\ counted < n THEN marks \cup {at + n} ELSE marks
           unit == IF n > 0 THEN size ELSE item[s]
           rest == Rest(s)
<1>1. /\ rest = Len(streams[s].output) - at /\ at \in Nat
      /\ Len(streams[s].output) \in Nat /\ rest \in Nat
      /\ n \in Nat /\ counted \in Nat /\ counted <= n /\ at + n <= Len(streams[s].output)
      /\ n <= rest
  BY RestType
<1>2. /\ streams' = [streams EXCEPT ![s].offset = at + n,
                                    ![s].eof = at + n >= Len(streams[s].output)]
      /\ told' = [told EXCEPT ![s] = after]
      /\ item' = IF n > 0 THEN [item EXCEPT ![s] = size] ELSE item
      /\ lossy' = IF reason /\ counted < n THEN [lossy EXCEPT ![s] = marks \cup {at + n}] ELSE lossy
      /\ UNCHANGED opened
  BY DEF Advanced, Marks, Promised
<1>3. /\ DOMAIN streams' = DOMAIN streams /\ DOMAIN told' = DOMAIN told
      /\ DOMAIN lossy' = DOMAIN lossy /\ DOMAIN item' = DOMAIN item
      /\ s \in DOMAIN told /\ s \in DOMAIN lossy /\ s \in DOMAIN item
      /\ \A t \in DOMAIN streams : t # s => streams'[t] = streams[t]
      /\ \A t \in DOMAIN told : t # s => told'[t] = told[t] /\ lossy'[t] = lossy[t] /\ item'[t] = item[t]
      /\ told'[s] = after /\ lossy'[s] = all /\ item'[s] = unit
  <2> HIDE DEF after
  <2>1. DOMAIN told = DOMAIN lossy /\ DOMAIN told = DOMAIN item /\ s \in DOMAIN told
    BY DEF OutputTyped
  <2>2. /\ DOMAIN lossy' = DOMAIN lossy /\ lossy'[s] = all
        /\ \A t \in DOMAIN told : t # s => lossy'[t] = lossy[t]
    BY <1>2, <2>1
  <2>3. /\ DOMAIN item' = DOMAIN item /\ item'[s] = unit
        /\ \A t \in DOMAIN told : t # s => item'[t] = item[t]
    BY <1>2, <2>1
  <2> QED BY <1>2, <2>1, <2>2, <2>3
<1>4. streams'[s] = [streams[s] EXCEPT !.offset = at + n, !.eof = at + n >= Len(streams[s].output)]
  BY <1>2
<1>5. /\ streams[s] \in PopenStreams /\ before \in Seq(Nat \ {0}) /\ marks \subseteq Nat
      /\ item[s] \in Nat \ {0} /\ Within(before, at)
  BY <1>3 DEF OutputTyped, Within
<1>6. /\ streams'[s] \in PopenStreams /\ streams'[s].offset = at + n
      /\ streams'[s].output = streams[s].output
      /\ streams'[s].eof <=> at + n >= Len(streams[s].output)
  <2>1. at + n \in Nat /\ (at + n >= Len(streams[s].output)) \in BOOLEAN
    BY <1>1
  <2> HIDE DEF at
  <2> QED BY <1>4, <1>5, <2>1 DEF PopenStreams
<1>7. /\ InOrder(before) /\ NoGap(before, marks)
      /\ Arrived(before, marks, at, rest, item[s])
  BY <1>3, EachStream DEF StreamTold
<1>8. marks \subseteq all /\ all \subseteq Nat /\ unit \in Nat \ {0}
  BY <1>1, <1>5
<1>9. after = before \o Promised(at, counted)
  OBVIOUS
<1>10. Rest(s)' = rest - n
  BY <1>1, <1>6 DEF Rest
<1> HIDE DEF before, at, after, marks, rest
<1>11. n > 0 => at \in {LastTold(before)} \cup marks
  BY <1>1, <1>7 DEF Arrived
<1>12. /\ after \in Seq(Nat \ {0}) /\ Within(after, at + counted)
       /\ InOrder(after) /\ NoGap(after, all)
       /\ LastTold(after) = IF counted = 0 THEN LastTold(before) ELSE at + counted
  <2>1. counted > 0 => at \in {LastTold(before)} \cup marks
    BY <1>1, <1>11
  <2>2. at \in Nat /\ counted \in Nat /\ before \in Seq(Nat \ {0}) /\ marks \subseteq all
    BY <1>1, <1>5, <1>8
  <2>3. InOrder(before) /\ NoGap(before, marks) /\ Within(before, at)
    BY <1>5, <1>7
  <2> HIDE DEF all
  <2> QED BY <1>9, <2>1, <2>2, <2>3, PromiseMore
<1>13. Arrived(after, all, at + n, rest - n, unit)
  <2>1. CASE n = 0
    <3>1. /\ counted = 0 /\ at + n = at /\ rest - n = rest /\ all = marks /\ unit = item[s]
          /\ LastTold(after) = LastTold(before)
      BY <1>1, <1>12, <2>1
    <3> QED BY <1>7, <3>1 DEF Arrived
  <2>2. CASE n > 0 /\ counted = n
    <3>1. LastTold(after) = at + n
      BY <1>12, <2>2
    <3> QED BY <3>1 DEF Arrived
  <2>3. CASE counted < n /\ reason
    BY <2>3 DEF Arrived
  <2>4. CASE counted < n /\ ~reason
    <3>1. /\ n = rest /\ n - counted < size /\ all = marks /\ unit = size /\ rest - n = 0 /\ n > 0
      BY <1>1, <2>4 DEF rest
    <3>2. CASE counted = 0
      <4>1. LastTold(after) = LastTold(before) /\ at \in {LastTold(after)} \cup all
        BY <1>11, <1>12, <3>1, <3>2
      <4>2. at + n < at + unit
        BY <1>1, <3>1, <3>2
      <4> QED BY <3>1, <4>1, <4>2 DEF Arrived
    <3>3. CASE counted # 0
      <4>1. LastTold(after) = at + counted
        BY <1>12, <3>3
      <4>2. at + n < (at + counted) + unit
        BY <1>1, <3>1
      <4> QED BY <3>1, <4>1, <4>2 DEF Arrived
    <3> QED BY <3>2, <3>3
  <2> QED BY <1>1, <2>1, <2>2, <2>3, <2>4
<1> HIDE DEF all, unit
<1>14. OutputTyped'
  <2>1. at + n <= Len(streams[s].output) /\ \A i \in DOMAIN after : after[i] <= at + n
    <3>1. \A i \in DOMAIN after : after[i] \in Nat
      BY <1>12, ElementOfSeq, LenProperties
    <3> QED BY <1>1, <1>12, <3>1 DEF Within
  <2>2. ASSUME NEW t \in DOMAIN streams'
        PROVE  /\ streams'[t] \in PopenStreams
               /\ streams'[t].offset <= Len(streams'[t].output)
               /\ \A i \in DOMAIN told'[t] : told'[t][i] <= streams'[t].offset
    <3>1. CASE t = s
      BY <1>3, <1>6, <2>1, <3>1
    <3>2. CASE t # s
      <4>1. t \in DOMAIN streams /\ t \in DOMAIN told /\ streams'[t] = streams[t] /\ told'[t] = told[t]
        BY <1>3, <3>2 DEF OutputTyped
      <4> QED BY <4>1 DEF OutputTyped
    <3> QED BY <3>1, <3>2
  <2>3. ASSUME NEW t \in DOMAIN told'
        PROVE  told'[t] \in Seq(Nat \ {0}) /\ lossy'[t] \subseteq Nat /\ item'[t] \in Nat \ {0}
    <3>1. CASE t = s
      BY <1>3, <1>8, <1>12, <3>1
    <3>2. CASE t # s
      BY <1>3, <3>2 DEF OutputTyped
    <3> QED BY <3>1, <3>2
  <2> QED BY <1>2, <1>3, <2>2, <2>3 DEF OutputTyped
<1>15. StreamsTold'
  <2>1. ASSUME NEW t \in DOMAIN told', t # s PROVE StreamTold(t)'
    <3>1. StreamTold(t) /\ t \in DOMAIN told
      BY <1>3, <2>1, EachStream
    <3>2. told'[t] = told[t] /\ lossy'[t] = lossy[t] /\ item'[t] = item[t]
      BY <1>3, <2>1, <3>1
    <3>3. t \in DOMAIN streams' => t \in DOMAIN streams /\ streams'[t] = streams[t]
      BY <1>3, <2>1
    <3> QED BY <3>1, <3>2, <3>3 DEF StreamTold, Rest
  <2>2. StreamTold(s)'
    <3>1. streams'[s].eof => Rest(s)' = 0
      BY <1>1, <1>6, <1>10
    <3> QED BY <1>3, <1>6, <1>10, <1>12, <1>13, <3>1 DEF StreamTold
  <2>3. \A t \in DOMAIN told' : StreamTold(t)'
    BY <2>1, <2>2
  <2> QED BY <2>3, EachStreamNext
<1> QED BY <1>14, <1>15

LEMMA PopenStep ==
  ASSUME OutputTyped, StreamsTold, NEW output \in Outputs, Popen(output)
  PROVE  (OutputTyped /\ StreamsTold)'
<1>0. PICK k : k = opened + 1
  OBVIOUS
<1> DEFINE new == [output |-> output, offset |-> 0, eof |-> output = <<>>]
<1>1. /\ opened \in Nat /\ k \in Nat /\ opened' = k
      /\ streams' = WithNext(streams, new)
      /\ told' = WithNext(told, <<>>) /\ lossy' = WithNext(lossy, {}) /\ item' = WithNext(item, 1)
  BY <1>0 DEF OutputTyped, Popen
<1>2. /\ output \in Seq({"x", "n"}) /\ new \in PopenStreams /\ new.offset = 0
      /\ new.output = output /\ (new.eof <=> output = <<>>)
  BY OutputAssumption DEF PopenStreams
<1> HIDE DEF new
<1>3. k \notin 1..opened /\ 1..k = 1..opened \cup {k}
  BY <1>0, <1>1
<1>4. /\ DOMAIN told' = 1..k /\ DOMAIN lossy' = 1..k /\ DOMAIN item' = 1..k
      /\ DOMAIN streams' = DOMAIN streams \cup {k}
      /\ DOMAIN streams' \subseteq 1..k
      /\ streams'[k] = new /\ told'[k] = <<>> /\ lossy'[k] = {} /\ item'[k] = 1
      /\ \A s \in DOMAIN streams : streams'[s] = streams[s]
      /\ \A s \in DOMAIN told : told'[s] = told[s] /\ lossy'[s] = lossy[s] /\ item'[s] = item[s]
  BY <1>0, <1>1, <1>3 DEF OutputTyped, WithNext
<1>5. Len(output) \in Nat /\ (output = <<>> => Len(output) = 0)
  BY <1>2, LenProperties
<1>9. DOMAIN <<>> = {}
  OBVIOUS
<1>6. OutputTyped'
  <2>1. ASSUME NEW s \in DOMAIN streams'
        PROVE  /\ streams'[s] \in PopenStreams
               /\ streams'[s].offset <= Len(streams'[s].output)
               /\ \A i \in DOMAIN told'[s] : told'[s][i] <= streams'[s].offset
    <3>1. CASE s = k
      BY <1>2, <1>4, <1>5, <1>9, <3>1
    <3>2. CASE s # k
      <4>1. s \in DOMAIN streams /\ s \in DOMAIN told /\ streams'[s] = streams[s] /\ told'[s] = told[s]
        BY <1>4, <3>2 DEF OutputTyped
      <4> QED BY <4>1 DEF OutputTyped
    <3> QED BY <3>1, <3>2
  <2>2. ASSUME NEW s \in DOMAIN told'
        PROVE  told'[s] \in Seq(Nat \ {0}) /\ lossy'[s] \subseteq Nat /\ item'[s] \in Nat \ {0}
    <3>1. CASE s = k
      BY <1>4, <3>1, EmptySeq
    <3>2. CASE s # k
      <4>1. s \in DOMAIN told
        BY <1>3, <1>4, <3>2 DEF OutputTyped
      <4> QED BY <1>4, <4>1 DEF OutputTyped
    <3> QED BY <3>1, <3>2
  <2> QED BY <1>1, <1>4, <2>1, <2>2 DEF OutputTyped
<1>7. StreamsTold'
  <2>1. ASSUME NEW s \in DOMAIN told', s # k PROVE StreamTold(s)'
    <3>1. s \in DOMAIN told
      BY <1>3, <1>4, <2>1 DEF OutputTyped
    <3>2. s \in DOMAIN streams' => s \in DOMAIN streams /\ streams'[s] = streams[s]
      BY <1>4, <2>1
    <3>3. told'[s] = told[s] /\ lossy'[s] = lossy[s] /\ item'[s] = item[s] /\ StreamTold(s)
      BY <1>4, <3>1, EachStream
    <3> QED BY <3>1, <3>2, <3>3 DEF StreamTold, Rest
  <2>2. StreamTold(k)'
    <3>1. streams'[k].output = output /\ streams'[k].offset = 0 /\ (streams'[k].eof <=> output = <<>>)
      BY <1>2, <1>4
    <3>2. Rest(k)' = Len(output) - 0
      BY <3>1 DEF Rest
    <3>3. streams'[k].eof => Rest(k)' = 0
      BY <1>5, <3>1, <3>2
    <3>4. InOrder(<<>>) /\ NoGap(<<>>, {}) /\ LastTold(<<>>) = 0
      BY <1>9 DEF InOrder, NoGap, LastTold
    <3>5. \A rest : Arrived(<<>>, {}, 0, rest, 1)
      BY <3>4 DEF Arrived
    <3> QED BY <1>4, <3>1, <3>3, <3>4, <3>5 DEF StreamTold
  <2>3. \A s \in DOMAIN told' : StreamTold(s)'
    BY <2>1, <2>2
  <2> QED BY <2>3, EachStreamNext
<1> QED BY <1>6, <1>7

LEMMA StreamStep ==
  ASSUME OutputTyped, StreamsTold, NEW s \in DOMAIN streams, Pclose(s) \/ Clearerr(s)
  PROVE  (OutputTyped /\ StreamsTold)'
<1>1. CASE Pclose(s)
  <2>1. /\ DOMAIN streams' = DOMAIN streams \ {s} /\ UNCHANGED <<historyvars, opened>>
        /\ \A t \in DOMAIN streams' : streams'[t] = streams[t]
    BY <1>1 DEF Pclose
  <2>2. told' = told /\ lossy' = lossy /\ item' = item /\ opened' = opened
    BY <2>1 DEF historyvars
  <2>3. OutputTyped'
    BY <2>1, <2>2 DEF OutputTyped
  <2>4. ASSUME NEW t \in DOMAIN told' PROVE StreamTold(t)'
    <3>1. t \in DOMAIN streams' => t \in DOMAIN streams /\ streams'[t] = streams[t]
      BY <2>1
    <3> QED BY <2>2, <3>1, EachStream DEF StreamTold, Rest
  <2> QED BY <2>3, <2>4, EachStreamNext
<1>2. CASE Clearerr(s)
  <2>1. streams' = [streams EXCEPT ![s].eof = FALSE] /\ UNCHANGED <<historyvars, opened>>
    BY <1>2 DEF Clearerr
  <2>2. /\ DOMAIN streams' = DOMAIN streams
        /\ \A t \in DOMAIN streams : t # s => streams'[t] = streams[t]
        /\ streams'[s] = [streams[s] EXCEPT !.eof = FALSE]
    BY <2>1
  <2>3. streams[s] \in PopenStreams
    BY DEF OutputTyped
  <2>4. /\ streams'[s] \in PopenStreams /\ streams'[s].offset = streams[s].offset
        /\ streams'[s].output = streams[s].output /\ streams'[s].eof = FALSE
    BY <2>2, <2>3 DEF PopenStreams
  <2>5. OutputTyped'
    BY <2>1, <2>2, <2>4 DEF OutputTyped, historyvars
  <2>6. StreamsTold'
    BY <2>1, <2>2, <2>4 DEF StreamsTold, Rest, Known, historyvars
  <2> QED BY <2>5, <2>6
<1> QED BY <1>1, <1>2

LEMMA ReadStep ==
  ASSUME OutputTyped, StreamsTold, NEW s \in DOMAIN streams, NEW writable \in BOOLEAN,
         NEW n \in ItemSizes, NEW size \in ItemSizes,
         Fgets(s, n, writable) \/ Fread(s, size, n, writable)
  PROVE  (OutputTyped /\ StreamsTold)'
<1>1. n \in Nat /\ size \in Nat
  BY OutputAssumption
<1>2. CASE Fgets(s, n, writable)
  <2>1. LineRead(s, n) \in 0..Rest(s)
    BY <1>1, <1>2, LineFits DEF Fgets
  <2> DEFINE k == LineRead(s, n)
             counted == IF writable THEN k ELSE 0
  <2>2. Advanced(s, k, counted, 1) /\ Marks(s, k, counted, ~writable)
    BY <1>2 DEF Fgets
  <2>3. k \in 0..Rest(s) /\ Rest(s) \in Nat
    BY <2>1, RestType
  <2> HIDE DEF k
  <2>4. k \in Nat /\ counted \in 0..k /\ (counted < k => ~writable)
    BY <2>3
  <2>5. (~writable) \in BOOLEAN /\ 1 \in Nat /\ 1 > 0
    OBVIOUS
  <2> HIDE DEF counted
  <2> QED BY <2>2, <2>3, <2>4, <2>5, AdvancedStep
<1>3. CASE Fread(s, size, n, writable)
  <2> DEFINE w == size * n
             m == ByteCount(size, n)
             k == BytesRead(s, m)
             counted == IF writable THEN Items(k, size) * size ELSE 0
             reason == ~writable \/ (k = MostBytes /\ MostBytes < w)
  <2>1. w \in Nat /\ w > 0
    BY <1>1, <1>3 DEF Fread
  <2>2. size > 0
    BY <1>1, <2>1
  <2>3. Advanced(s, k, counted, size) /\ Marks(s, k, counted, reason)
    BY <1>3 DEF Fread
  <2>4. MostBytes \in Nat /\ Rest(s) \in Nat
    BY OutputAssumption, RestType
  <2>5. counted = IF writable THEN (k \div size) * size ELSE 0
    BY DEF Items
  <2>6. m = SmallerOf(w, MostBytes)
    BY DEF ByteCount
  <2>7. k = SmallerOf(m, Rest(s))
    BY DEF BytesRead
  <2> HIDE DEF w
  <2>8. m \in Nat /\ m <= w /\ (m = w \/ (m = MostBytes /\ MostBytes < w))
    BY <2>1, <2>4, <2>6 DEF SmallerOf
  <2> HIDE DEF m
  <2>9. k \in 0..Rest(s) /\ k \in Nat /\ (k = m \/ k = Rest(s))
    BY <2>4, <2>7, <2>8 DEF SmallerOf
  <2> HIDE DEF k
  <2>10. (k \div size) * size \in 0..k /\ k - (k \div size) * size < size
    BY <1>1, <2>2, <2>9, ItemsFit
  <2>11. w = n * size /\ (k = w => (k \div size) * size = k)
    BY <1>1, <2>2, WholeItems DEF w
  <2>12. counted \in 0..k /\ reason \in BOOLEAN
    BY <2>5, <2>9, <2>10
  <2>13. counted < k => (reason \/ (k = Rest(s) /\ k - counted < size))
    <3> SUFFICES ASSUME counted < k, ~reason PROVE k = Rest(s) /\ k - counted < size
      OBVIOUS
    <3>1. writable /\ counted = (k \div size) * size
      BY <2>5
    <3>2. k # w
      BY <2>9, <2>11, <3>1
    <3>3. k = m => k = MostBytes /\ MostBytes < w
      BY <2>8, <3>2
    <3> QED BY <2>9, <2>10, <3>1, <3>3
  <2> HIDE DEF counted, reason
  <2> QED BY <1>1, <2>2, <2>3, <2>9, <2>12, <2>13, AdvancedStep
<1> QED BY <1>2, <1>3

\* Which descriptors the child has after so many of its actions.
DupsTo(acts, f, k) ==
  f = [n \in 0..k |-> IF n = 0 THEN [fd \in Pipes \cup {1, 2} |-> IF fd \in Pipes THEN fd ELSE 0]
                      ELSE [f[n - 1] EXCEPT ![acts[n][2]] = f[n - 1][acts[n][1]]]]

LEMMA DupsExist == ASSUME NEW acts, NEW k \in Nat PROVE \E f : DupsTo(acts, f, k)
<1> DEFINE T == {j \in Nat : ~\E f : DupsTo(acts, f, j)}
           start == [fd \in Pipes \cup {1, 2} |-> IF fd \in Pipes THEN fd ELSE 0]
           next(g, n) == [g EXCEPT ![acts[n][2]] = g[acts[n][1]]]
<1> SUFFICES ASSUME T # {} PROVE FALSE
  OBVIOUS
<1>1. T \subseteq Nat
  OBVIOUS
<1>2. PICK n \in T : \A m \in T : n <= m
  BY <1>1, LeastOf
<1>3. n \in Nat /\ ~\E f : DupsTo(acts, f, n)
  OBVIOUS
<1>4. ASSUME NEW f, f = [i \in 0..n |-> IF i = 0 THEN start ELSE next(f[i - 1], i)]
      PROVE  FALSE
  BY <1>3, <1>4 DEF DupsTo
<1> HIDE DEF start, next
<1>5. CASE n = 0
  <2> DEFINE f == [i \in 0..0 |-> start]
  <2>1. f = [i \in 0..0 |-> IF i = 0 THEN start ELSE next(f[i - 1], i)]
    OBVIOUS
  <2> QED BY <1>4, <1>5, <2>1
<1>6. CASE n # 0
  <2>1. n - 1 \in Nat /\ n - 1 \notin T
    BY <1>2, <1>3, <1>6
  <2>2. PICK g : DupsTo(acts, g, n - 1)
    BY <2>1
  <2>3. \A i \in 0..(n - 1) : g[i] = IF i = 0 THEN start ELSE next(g[i - 1], i)
    BY <2>2 DEF DupsTo, start, next
  <2> DEFINE f == [i \in 0..n |-> IF i = n THEN next(g[n - 1], n) ELSE g[i]]
  <2>4. ASSUME NEW i \in 0..n PROVE f[i] = IF i = 0 THEN start ELSE next(f[i - 1], i)
    <3>1. CASE i = 0
      <4>1. f[i] = g[i] /\ i \in 0..(n - 1)
        BY <1>3, <1>6, <3>1
      <4> QED BY <2>3, <3>1, <4>1
    <3>2. CASE i # 0
      <4>1. i - 1 \in 0..n /\ i - 1 # n /\ f[i - 1] = g[i - 1]
        BY <1>3, <3>2
      <4>2. CASE i = n
        BY <3>2, <4>1, <4>2
      <4>3. CASE i # n
        <5>1. i \in 0..(n - 1) /\ f[i] = g[i]
          BY <1>3, <4>3
        <5> QED BY <2>3, <3>2, <4>1, <5>1
      <4> QED BY <4>2, <4>3
    <3> QED BY <3>1, <3>2
  <2>5. f = [i \in 0..n |-> f[i]]
    OBVIOUS
  <2> HIDE DEF f
  <2>6. f = [i \in 0..n |-> IF i = 0 THEN start ELSE next(f[i - 1], i)]
    BY <2>4, <2>5
  <2> QED BY <1>4, <2>6
<1> QED BY <1>5, <1>6

LEMMA DoneIsDups ==
  ASSUME NEW S, NEW acts \in Seq(S)
  PROVE  \E f : DupsTo(acts, f, Len(acts)) /\ Done(acts) = f[Len(acts)]
<1>1. Len(acts) \in Nat
  BY LenProperties
<1>2. \E f : DupsTo(acts, f, Len(acts))
  BY <1>1, DupsExist
<1> DEFINE g == CHOOSE f : DupsTo(acts, f, Len(acts))
<1>3. Done(acts) = g[Len(acts)]
  BY DEF Done, DupsTo
<1>4. DupsTo(acts, g, Len(acts))
  BY <1>2
<1> QED BY <1>3, <1>4

\* Until an action takes up what an earlier one put there, 1 and 2 hold what was put on
\* them, the descriptors of the parent keep what they are, and the rest is closed.
LEMMA DupsHold ==
  ASSUME NEW acts \in Seq(Dup2), Simple(acts), NEW f, DupsTo(acts, f, Len(acts)),
         NEW n \in 0..Len(acts)
  PROVE  /\ DOMAIN f[n] = Pipes \cup {1, 2}
         /\ \A p \in Pipes : f[n][p] = p
         /\ \A i \in 1..n : f[n][acts[i][2]] = IF acts[i][1] \in Pipes THEN acts[i][1] ELSE 0
         /\ \A fd \in {1, 2} : (\A i \in 1..n : acts[i][2] # fd) => f[n][fd] = 0
<1> DEFINE Good(m) ==
             /\ DOMAIN f[m] = Pipes \cup {1, 2}
             /\ \A p \in Pipes : f[m][p] = p
             /\ \A i \in 1..m : f[m][acts[i][2]] = IF acts[i][1] \in Pipes THEN acts[i][1] ELSE 0
             /\ \A fd \in {1, 2} : (\A i \in 1..m : acts[i][2] # fd) => f[m][fd] = 0
           T == {m \in 0..Len(acts) : ~Good(m)}
<1>1. /\ Len(acts) \in Nat /\ DOMAIN acts = 1..Len(acts)
      /\ \A i \in 1..Len(acts) : acts[i] \in Dup2
  BY LenProperties, ElementOfSeq
<1>2. \A i \in 1..Len(acts) : acts[i][1] \in Pipes \cup {1, 2} /\ acts[i][2] \in {1, 2}
  BY <1>1 DEF Dup2
<1>3. /\ f[0] = [fd \in Pipes \cup {1, 2} |-> IF fd \in Pipes THEN fd ELSE 0]
      /\ \A m \in 1..Len(acts) : f[m] = [f[m - 1] EXCEPT ![acts[m][2]] = f[m - 1][acts[m][1]]]
  <2> DEFINE V(m) == IF m = 0 THEN [fd \in Pipes \cup {1, 2} |-> IF fd \in Pipes THEN fd ELSE 0]
                     ELSE [f[m - 1] EXCEPT ![acts[m][2]] = f[m - 1][acts[m][1]]]
  <2>1. f = [m \in 0..Len(acts) |-> V(m)]
    BY DEF DupsTo
  <2> HIDE DEF V
  <2>2. \A m \in 0..Len(acts) : f[m] = V(m)
    BY <2>1
  <2>3. 0 \in 0..Len(acts) /\ \A m \in 1..Len(acts) : m \in 0..Len(acts) /\ m # 0
    BY <1>1
  <2>4. f[0] = V(0) /\ \A m \in 1..Len(acts) : f[m] = V(m)
    BY <2>2, <2>3
  <2>5. ASSUME NEW m \in 1..Len(acts) PROVE V(m) = [f[m - 1] EXCEPT ![acts[m][2]] = f[m - 1][acts[m][1]]]
    BY <2>3 DEF V
  <2> QED BY <2>4, <2>5 DEF V
<1>4. Good(0)
  <2>1. 1..0 = {}
    OBVIOUS
  <2>2. \A fd \in {1, 2} : fd \notin Pipes
    BY OutputAssumption
  <2>3. /\ DOMAIN f[0] = Pipes \cup {1, 2}
        /\ \A fd \in Pipes \cup {1, 2} : f[0][fd] = IF fd \in Pipes THEN fd ELSE 0
    BY <1>3
  <2>4. (\A p \in Pipes : f[0][p] = p) /\ \A fd \in {1, 2} : f[0][fd] = 0
    BY <2>2, <2>3
  <2> QED BY <2>1, <2>3, <2>4
<1>5. ASSUME NEW m \in 1..Len(acts), Good(m - 1) PROVE Good(m)
  <2> DEFINE g == f[m - 1]
             a == acts[m][1]
             b == acts[m][2]
  <2>1. /\ DOMAIN g = Pipes \cup {1, 2}
        /\ \A p \in Pipes : g[p] = p
        /\ \A i \in 1..(m - 1) : g[acts[i][2]] = IF acts[i][1] \in Pipes THEN acts[i][1] ELSE 0
        /\ \A fd \in {1, 2} : (\A i \in 1..(m - 1) : acts[i][2] # fd) => g[fd] = 0
    BY <1>5
  <2>2. a \in Pipes \cup {1, 2} /\ b \in {1, 2} /\ b \notin Pipes
    BY <1>2, OutputAssumption
  <2>3. \A i \in 1..(m - 1) : a # acts[i][2] /\ acts[i][2] # b /\ i \in 1..Len(acts)
    BY <1>1 DEF Simple
  <2>4. f[m] = [g EXCEPT ![b] = g[a]]
    BY <1>3
  <2>5. g[a] = IF a \in Pipes THEN a ELSE 0
    BY <2>1, <2>2, <2>3
  <2> HIDE DEF g
  <2>6. DOMAIN f[m] = Pipes \cup {1, 2} /\ f[m][b] = g[a] /\ \A x \in DOMAIN g : x # b => f[m][x] = g[x]
    BY <2>1, <2>2, <2>4
  <2>7. \A p \in Pipes : f[m][p] = p
    BY <2>1, <2>2, <2>6
  <2>8. ASSUME NEW i \in 1..m
        PROVE  f[m][acts[i][2]] = IF acts[i][1] \in Pipes THEN acts[i][1] ELSE 0
    <3>1. CASE i = m
      BY <2>5, <2>6, <3>1
    <3>2. CASE i # m
      <4>1. i \in 1..(m - 1) /\ i \in 1..Len(acts)
        BY <1>1, <3>2
      <4>2. acts[i][2] # b /\ acts[i][2] \in DOMAIN g
        BY <1>2, <2>1, <2>3, <4>1
      <4> QED BY <2>1, <2>6, <4>1, <4>2
    <3> QED BY <3>1, <3>2
  <2>9. ASSUME NEW fd \in {1, 2}, \A i \in 1..m : acts[i][2] # fd PROVE f[m][fd] = 0
    <3>1. m \in 1..m /\ \A i \in 1..(m - 1) : i \in 1..m
      BY <1>1
    <3>2. fd # b /\ g[fd] = 0
      BY <2>1, <2>9, <3>1
    <3> QED BY <2>1, <2>6, <3>2
  <2> QED BY <2>6, <2>7, <2>8, <2>9
<1> HIDE DEF Good
<1>6. ASSUME T # {} PROVE FALSE
  <2>1. T \subseteq Nat
    BY <1>1
  <2>2. PICK m \in T : \A k \in T : m <= k
    BY <1>6, <2>1, LeastOf
  <2>3. m \in 0..Len(acts) /\ ~Good(m)
    OBVIOUS
  <2>4. m # 0
    BY <1>4, <2>3
  <2>5. m - 1 \in 0..Len(acts) /\ m \in 1..Len(acts) /\ m - 1 \notin T
    BY <1>1, <2>2, <2>3, <2>4
  <2> QED BY <1>5, <2>3, <2>5
<1>7. Good(n)
  BY <1>6
<1> QED BY <1>7 DEF Good

LEMMA LogMeaning == ASSUME LogOK PROVE LogReaches
<1> DEFINE acts == spawned.actions
<1>1. acts \in Seq(Dup2)
  BY DEF LogOK
<1>2. /\ Len(acts) \in Nat /\ DOMAIN acts = 1..Len(acts)
      /\ \A i \in 1..Len(acts) : acts[i] \in Dup2
  BY <1>1, LenProperties, ElementOfSeq
<1> SUFFICES ASSUME Simple(acts), NEW p \in Pipes
             PROVE  spawned.fed[p] = Cardinality({fd \in {1, 2} : Done(acts)[fd] = p})
  BY DEF LogReaches
<1> DEFINE T == {i \in DOMAIN acts : Puts(acts, i, p)}
           D == {fd \in {1, 2} : Done(acts)[fd] = p}
           put == [i \in T |-> acts[i][2]]
<1>3. spawned.fed[p] = Cardinality(T)
  BY DEF LogOK
<1> HIDE DEF acts
<1>4. IsFiniteSet(T)
  <2>1. IsFiniteSet(1..Len(acts)) /\ T \in SUBSET (1..Len(acts))
    BY <1>2, FS_Interval
  <2> QED BY <2>1, FS_Subset
<1>5. PICK f : DupsTo(acts, f, Len(acts)) /\ Done(acts) = f[Len(acts)]
  BY <1>1, DoneIsDups
<1>6. Len(acts) \in 0..Len(acts)
  BY <1>2
<1>7. /\ \A i \in 1..Len(acts) : Done(acts)[acts[i][2]] = IF acts[i][1] \in Pipes THEN acts[i][1] ELSE 0
      /\ \A fd \in {1, 2} : (\A i \in 1..Len(acts) : acts[i][2] # fd) => Done(acts)[fd] = 0
  BY <1>1, <1>5, <1>6, DupsHold
<1>8. p # 0
  BY OutputAssumption
<1>9. \A i \in T : put[i] \in D
  BY <1>2, <1>7 DEF Puts
<1>10. ASSUME NEW fd \in D PROVE \E i \in T : put[i] = fd
  <2>1. PICK i \in 1..Len(acts) : acts[i][2] = fd
    BY <1>7, <1>8, <1>10
  <2>2. acts[i][1] \in Pipes /\ acts[i][1] = p
    BY <1>7, <1>8, <1>10, <2>1
  <2>3. i \in T
    BY <1>2, <2>1, <2>2 DEF Puts
  <2> QED BY <2>1, <2>3
\* No later action replaces what an earlier one put.
<1>11. ASSUME NEW i \in T, NEW j \in T, put[i] = put[j] PROVE i = j
  <2>1. i \in 1..Len(acts) /\ j \in 1..Len(acts) /\ acts[i][2] = acts[j][2]
    BY <1>2, <1>11
  <2>2. ~(i < j) /\ ~(j < i)
    BY <1>2, <2>1 DEF Simple
  <2> QED BY <1>2, <2>1, <2>2
<1>12. put \in Bijection(T, D)
  <2> HIDE DEF T, D
  <2>1. put \in [T -> D]
    BY <1>9
  <2>2. put \in Injection(T, D)
    BY <1>11, <2>1 DEF Injection, IsInjective
  <2>3. put \in Surjection(T, D)
    BY <1>10, <2>1 DEF Surjection
  <2> QED BY <2>2, <2>3 DEF Bijection
<1>13. ExistsBijection(T, D)
  BY <1>12 DEF ExistsBijection
<1> HIDE DEF T, D
<1>14. Cardinality(D) = Cardinality(T)
  BY <1>4, <1>13, FS_Bijection
<1> QED BY <1>3, <1>14 DEF D

LEMMA SpawnStep == ASSUME LogOK, PosixSpawn PROVE LogOK'
<1>1. /\ actions' = actions /\ spawned' = [actions |-> actions, fed |-> [p \in Pipes |-> Fed(p)]]
  BY DEF PosixSpawn
<1>2. \A p \in Pipes : Fed(p) = Cardinality({i \in DOMAIN actions : Puts(actions, i, p)})
  BY DEF Fed, Feeds, Puts
<1>3. spawned'.actions = actions /\ \A p \in Pipes : spawned'.fed[p] = Fed(p)
  BY <1>1
<1>4. \A p \in Pipes :
        spawned'.fed[p] = Cardinality({i \in DOMAIN spawned'.actions : Puts(spawned'.actions, i, p)})
  BY <1>2, <1>3
<1> QED BY <1>1, <1>3, <1>4 DEF LogOK, Puts

LEMMA ActionsStep ==
  ASSUME LogOK, actions' \in Seq(Dup2), UNCHANGED spawned
  PROVE  LogOK'
BY DEF LogOK, Puts

LEMMA InitOutput == OutputInit => OutputInv
<1> SUFFICES ASSUME OutputInit PROVE OutputInv
  OBVIOUS
<1>1. DOMAIN <<>> = {} /\ 1..0 = {}
  OBVIOUS
<1>2. OutputTyped /\ StreamsTold
  BY <1>1 DEF OutputInit, OutputTyped, StreamsTold
<1>3. spawned.actions = <<>> /\ actions = <<>> /\ \A p \in Pipes : spawned.fed[p] = 0
  BY DEF OutputInit
<1>4. \A p \in Pipes : {i \in DOMAIN <<>> : Puts(<<>>, i, p)} = {}
  BY <1>1
<1>5. LogOK
  BY <1>3, <1>4, EmptySeq, FS_EmptySet DEF LogOK
<1> QED BY <1>2, <1>5 DEF OutputInv

LEMMA NextOutput == OutputInv /\ [OutputNext]_outputvars => OutputInv'
<1> SUFFICES ASSUME OutputInv, [OutputNext]_outputvars PROVE OutputInv'
  OBVIOUS
<1>0. OutputTyped /\ StreamsTold /\ LogOK
  BY DEF OutputInv
<1>1. ASSUME NEW output \in Outputs, Popen(output) PROVE OutputInv'
  BY <1>0, <1>1, PopenStep, SameLog DEF Popen, OutputInv
<1>2. ASSUME NEW s \in DOMAIN streams, Pclose(s) \/ Clearerr(s) PROVE OutputInv'
  BY <1>0, <1>2, StreamStep, SameLog DEF Pclose, Clearerr, OutputInv
<1>3. ASSUME NEW s \in DOMAIN streams, NEW writable \in BOOLEAN, NEW n \in ItemSizes, NEW size \in ItemSizes,
             Fgets(s, n, writable) \/ Fread(s, size, n, writable)
      PROVE  OutputInv'
  <2>1. UNCHANGED <<actions, spawned>>
    BY <1>3 DEF Fgets, Fread, Advanced
  <2> QED BY <1>0, <1>3, <2>1, ReadStep, SameLog DEF OutputInv
<1>4. CASE ActionsInit \/ ActionsDestroy
  BY <1>0, <1>4, SameStreams, ActionsStep, EmptySeq DEF ActionsInit, ActionsDestroy, OutputInv
<1>5. CASE PosixSpawn
  BY <1>0, <1>5, SameStreams, SpawnStep DEF PosixSpawn, OutputInv
<1>6. ASSUME NEW fd \in Pipes \cup {1, 2}, NEW newfd \in {1, 2}, Adddup2(fd, newfd) PROVE OutputInv'
  <2>1. <<fd, newfd>> \in Dup2 /\ actions \in Seq(Dup2)
    BY <1>0 DEF Dup2, LogOK
  <2>2. actions' \in Seq(Dup2)
    BY <1>6, <2>1, AppendProperties DEF Adddup2
  <2> QED BY <1>0, <1>6, <2>2, SameStreams, ActionsStep DEF Adddup2, OutputInv
<1>7. CASE UNCHANGED outputvars
  BY <1>0, <1>7, SameStreams, SameLog DEF outputvars, streamvars, OutputInv
<1> QED BY <1>1, <1>2, <1>3, <1>4, <1>5, <1>6, <1>7 DEF OutputNext

\* Streams and actions are as the history says, for any commands, sizes and pipes.
THEOREM OutputInvariant == OutputSpec => []OutputInv
<1> QED BY InitOutput, NextOutput, PTL DEF OutputSpec

\* Lines and items, in any mixture, promise the output of a command in order, no byte
\* twice and none passed over but by a read that could not be stored, met the limit of
\* one read in an item, or used the output up in one; and the log of a child goes once
\* to each of 1 and 2 that is a pipe of the parent, twice to a pipe on both.
THEOREM OutputIsHonest == OutputSpec => []OutputHonest
<1>1. OutputInv => OutputHonest
  BY LogMeaning DEF OutputInv, OutputHonest
<1> QED BY <1>1, OutputInvariant, PTL

-------------------------------------------------------------------------------
(***************************************************************************)
(* SyscallTable, for any numbers the host hands out, any names and any     *)
(* sizes mapped, in each of the modes.                                     *)
(*                                                                         *)
(* SyscallsHonest does not carry itself.  That a new number of the table   *)
(* stands for nothing else needs every number of it to lie below the next  *)
(* one (EntriesOK); that a read that reaches the right object gets a byte  *)
(* needs places that never pass the ends (ObjectsOK); that a number means  *)
(* one thing, tables without a number in common (MeantOK); and that new    *)
(* regions lie apart from old ones, that those end below the next one and  *)
(* that the next one has not wrapped (ArenaOK).                            *)
(***************************************************************************)

Object == [size : Nat, offset : Nat]
InMode == mode \in {"analysis", "compat", "bare"} /\ collided \in BOOLEAN /\ early \in BOOLEAN

\* A number of the table has been given out, one of the host is the host's, and what
\* a number stands for has been made.
EntriesOK ==
  /\ nextFd \in Nat \ 0..2
  /\ \A fd \in DOMAIN table : fd \in Nat \ 0..2 /\ fd < nextFd
  /\ DOMAIN hostFds \subseteq Numbers
  /\ DOMAIN holds \subseteq Nat
  /\ \A fd \in DOMAIN table : table[fd] \in DOMAIN objects
  /\ \A fd \in DOMAIN hostFds : hostFds[fd] \in DOMAIN objects

ObjectsOK == objects \in Seq(Object) /\ \A o \in DOMAIN objects : objects[o].offset <= objects[o].size

\* Without a collision no number is in both tables, and what is held under it is what
\* a call reaches.
MeantOK ==
  ~collided => /\ DOMAIN table \cap DOMAIN hostFds = {}
               /\ ~early
               /\ \A fd \in Nat : Held(fd) = Reached(fd)

\* What was placed lies below the next region.
ArenaOK ==
  /\ asked \in Nat /\ nextRegion \in Nat
  /\ placed \subseteq [at : Nat, size : Nat]
  /\ ArenaBase + asked < Span =>
       /\ ArenaBase <= nextRegion /\ nextRegion <= ArenaBase + asked
       /\ \A a \in placed : /\ a.at >= ArenaBase /\ a.at + a.size <= ArenaEnd
                            /\ a.at + a.size <= nextRegion
                            /\ \A b \in placed : a = b \/ Apart(a, b)

SyscallInv == InMode /\ EntriesOK /\ ObjectsOK /\ MeantOK /\ Isolated /\ ArenaOK
\* The part that the tables are in.
TablesInv == InMode /\ EntriesOK /\ ObjectsOK /\ MeantOK /\ (~Proxied => hostFds = <<>>)

LEMMA InitSyscalls == SyscallInit => SyscallInv
<1> SUFFICES ASSUME SyscallInit PROVE SyscallInv
  OBVIOUS
<1>1. DOMAIN table = {} /\ DOMAIN hostFds = {} /\ DOMAIN holds = {} /\ DOMAIN objects = {}
  BY DEF SyscallInit
<1>2. InMode
  BY DEF SyscallInit, InMode
<1>7. nextFd \in Nat \ 0..2
  BY DEF SyscallInit
<1>8. EntriesOK
  BY <1>1, <1>7 DEF EntriesOK
<1>3. ObjectsOK
  BY <1>1 DEF SyscallInit, ObjectsOK
<1>4. MeantOK
  BY <1>1 DEF SyscallInit, MeantOK, Held, Reached, HostEntry
<1>5. Isolated
  BY DEF SyscallInit, Isolated
<1>6. ArenaOK
  BY SyscallAssumption DEF SyscallInit, ArenaOK
<1> QED BY <1>2, <1>3, <1>4, <1>5, <1>6, <1>8 DEF SyscallInv


\* Tables.

\* Objects are made at the end.
LEMMA AppendFacts ==
  ASSUME ObjectsOK, NEW n \in Nat, objects' = Append(objects, Fresh(n))
  PROVE  /\ ObjectsOK'
         /\ DOMAIN objects \subseteq DOMAIN objects'
         /\ NewObject \in DOMAIN objects'
<1>1. Fresh(n) \in Object
  BY DEF Fresh, Object
<1>2. /\ objects' \in Seq(Object) /\ Len(objects') = Len(objects) + 1
      /\ \A i \in 1..Len(objects) : objects'[i] = objects[i]
      /\ objects'[Len(objects) + 1] = Fresh(n)
  BY <1>1, AppendProperties DEF ObjectsOK
<1>3. DOMAIN objects = 1..Len(objects) /\ DOMAIN objects' = 1..Len(objects') /\ Len(objects) \in Nat
  BY <1>2 DEF ObjectsOK
<1>4. \A o \in DOMAIN objects' : objects'[o].offset <= objects'[o].size
  BY <1>2, <1>3 DEF ObjectsOK, Fresh
<1> QED BY <1>2, <1>3, <1>4 DEF ObjectsOK, NewObject

LEMMA AppendTwoFacts ==
  ASSUME ObjectsOK, objects' = objects \o <<Fresh(0), Fresh(0)>>
  PROVE  /\ ObjectsOK'
         /\ DOMAIN objects \subseteq DOMAIN objects'
         /\ NewObject \in DOMAIN objects' /\ NewObject + 1 \in DOMAIN objects'
<1>1. Fresh(0) \in Object
  BY DEF Fresh, Object
<1>2. <<Fresh(0), Fresh(0)>> \in Seq(Object)
  BY <1>1
<1>3. /\ objects' \in Seq(Object) /\ Len(objects') = Len(objects) + 2
      /\ \A i \in 1..Len(objects) : objects'[i] = objects[i]
      /\ \A i \in Len(objects) + 1..Len(objects) + 2 : objects'[i] = Fresh(0)
  BY <1>2, SMTT(30) DEF ObjectsOK
<1>4. DOMAIN objects = 1..Len(objects) /\ DOMAIN objects' = 1..Len(objects') /\ Len(objects) \in Nat
  BY <1>3 DEF ObjectsOK
<1>5. \A o \in DOMAIN objects' : objects'[o].offset <= objects'[o].size
  BY <1>3, <1>4 DEF ObjectsOK, Fresh
<1> QED BY <1>3, <1>4, <1>5 DEF ObjectsOK, NewObject

\* The table takes a number that nothing is held under.
LEMMA EnteredStep ==
  ASSUME TablesInv, NEW n \in Nat, Entered(n), UNCHANGED mode
  PROVE  TablesInv'
<1>1. /\ table' = With(table, nextFd, NewObject) /\ nextFd' = nextFd + 1
      /\ objects' = Append(objects, Fresh(n)) /\ holds' = With(holds, nextFd, Held(nextFd) \cup {NewObject})
      /\ UNCHANGED <<hostFds, early>> /\ collided' = (collided \/ DOMAIN table' \cap DOMAIN hostFds' # {})
  BY DEF Entered, Gets, Collides
<1>2. ObjectsOK' /\ DOMAIN objects \subseteq DOMAIN objects' /\ NewObject \in DOMAIN objects'
  BY <1>1, AppendFacts DEF TablesInv
<1>3. /\ DOMAIN table' = DOMAIN table \cup {nextFd} /\ table'[nextFd] = NewObject
      /\ \A x \in DOMAIN table : x # nextFd => table'[x] = table[x]
  BY <1>1 DEF With
<1>4. /\ DOMAIN holds' = DOMAIN holds \cup {nextFd} /\ holds'[nextFd] = Held(nextFd) \cup {NewObject}
      /\ \A x \in DOMAIN holds : x # nextFd => holds'[x] = holds[x]
  BY <1>1 DEF With
<1>5. InMode'
  BY <1>1 DEF InMode, TablesInv
<1>6. EntriesOK'
  <2>1. nextFd \in Nat \ 0..2 /\ nextFd' \in Nat \ 0..2 /\ nextFd < nextFd'
    BY <1>1 DEF TablesInv, EntriesOK
  <2>2. \A fd \in DOMAIN table' : fd \in Nat \ 0..2 /\ fd < nextFd' /\ table'[fd] \in DOMAIN objects'
    BY <2>1, <1>1, <1>2, <1>3 DEF TablesInv, EntriesOK
  <2>3. DOMAIN hostFds' \subseteq Numbers /\ \A fd \in DOMAIN hostFds' : hostFds'[fd] \in DOMAIN objects'
    BY <1>1, <1>2 DEF TablesInv, EntriesOK
  <2>4. DOMAIN holds' \subseteq Nat
    BY <2>1, <1>4 DEF TablesInv, EntriesOK
  <2> QED BY <2>1, <2>2, <2>3, <2>4 DEF EntriesOK
<1>7. MeantOK'
  <2> SUFFICES ASSUME ~collided'
               PROVE  /\ DOMAIN table' \cap DOMAIN hostFds' = {} /\ ~early'
                      /\ \A fd \in Nat : Held(fd)' = Reached(fd)'
    BY DEF MeantOK
  <2>1. ~collided /\ DOMAIN table' \cap DOMAIN hostFds' = {}
    BY <1>1
  <2>2. ~early /\ \A fd \in Nat : Held(fd) = Reached(fd)
    BY <2>1 DEF TablesInv, MeantOK
  <2>3. nextFd \notin DOMAIN table /\ nextFd \notin DOMAIN hostFds /\ nextFd \in Nat
    BY <1>1, <1>3, <2>1 DEF TablesInv, EntriesOK
  <2>4. Held(nextFd) = {}
    BY <2>2, <2>3 DEF Reached, HostEntry
  <2>5. ASSUME NEW fd \in Nat PROVE Held(fd)' = Reached(fd)'
    <3>1. CASE fd = nextFd
      BY <3>1, <2>4, <1>3, <1>4 DEF Held, Reached, Entry
    <3>2. CASE fd # nextFd
      <4>1. Held(fd)' = Held(fd)
        BY <3>2, <1>4 DEF Held
      <4>2. Reached(fd)' = Reached(fd)
        BY <3>2, <1>1, <1>3 DEF Reached, Entry, HostEntry, Proxied
      <4> QED BY <4>1, <4>2, <2>2
    <3> QED BY <3>1, <3>2
  <2> QED BY <1>1, <2>1, <2>2, <2>5
<1>8. (~Proxied => hostFds = <<>>)'
  BY <1>1 DEF TablesInv, Proxied
<1> QED BY <1>2, <1>5, <1>6, <1>7, <1>8 DEF TablesInv

\* The host's table takes o under fd, in place of what the host had there.
LEMMA HostTakes ==
  ASSUME TablesInv, Proxied, NEW fd \in Numbers, NEW o, o \in DOMAIN objects', UNCHANGED mode,
         ObjectsOK', DOMAIN objects \subseteq DOMAIN objects',
         hostFds' = With(hostFds, fd, o),
         holds' = With(holds, fd, (Held(fd) \ HostEntry(fd)) \cup {o}),
         UNCHANGED <<table, nextFd, early>>, Collides
  PROVE  TablesInv'
<1>1. /\ DOMAIN hostFds' = DOMAIN hostFds \cup {fd} /\ hostFds'[fd] = o
      /\ \A x \in DOMAIN hostFds : x # fd => hostFds'[x] = hostFds[x]
  BY DEF With
<1>2. /\ DOMAIN holds' = DOMAIN holds \cup {fd} /\ holds'[fd] = (Held(fd) \ HostEntry(fd)) \cup {o}
      /\ \A x \in DOMAIN holds : x # fd => holds'[x] = holds[x]
  BY DEF With
<1>3. fd \in Nat /\ fd > 2
  BY SyscallAssumption
<1>4. InMode'
  BY DEF InMode, TablesInv, Collides
<1>5. EntriesOK'
  BY <1>1, <1>2, <1>3 DEF TablesInv, EntriesOK
<1>6. MeantOK'
  <2> SUFFICES ASSUME ~collided'
               PROVE  /\ DOMAIN table' \cap DOMAIN hostFds' = {} /\ ~early'
                      /\ \A x \in Nat : Held(x)' = Reached(x)'
    BY DEF MeantOK
  <2>1. ~collided /\ DOMAIN table' \cap DOMAIN hostFds' = {}
    BY DEF Collides
  <2>2. ~early /\ \A x \in Nat : Held(x) = Reached(x)
    BY <2>1 DEF TablesInv, MeantOK
  <2>3. fd \notin DOMAIN table
    BY <1>1, <2>1
  <2>4. Held(fd) \ HostEntry(fd) = {}
    BY <2>2, <2>3, <1>3 DEF Reached
  <2>5. ASSUME NEW x \in Nat PROVE Held(x)' = Reached(x)'
    <3>1. CASE x = fd
      BY <3>1, <2>3, <2>4, <1>1, <1>2, <1>3 DEF Held, Reached, HostEntry, Proxied
    <3>2. CASE x # fd
      <4>1. Held(x)' = Held(x)
        BY <3>2, <1>2 DEF Held
      <4>2. Reached(x)' = Reached(x)
        BY <3>2, <1>1 DEF Reached, Entry, HostEntry, Proxied
      <4> QED BY <4>1, <4>2, <2>2
    <3> QED BY <3>1, <3>2
  <2> QED BY <2>1, <2>2, <2>5
<1>7. (~Proxied => hostFds = <<>>)'
  BY DEF Proxied
<1> QED BY <1>4, <1>5, <1>6, <1>7 DEF TablesInv

LEMMA HostHandsStep ==
  ASSUME TablesInv, Proxied, NEW fd, NEW o, HostHands(fd, o), o \in DOMAIN objects', UNCHANGED mode,
         ObjectsOK', DOMAIN objects \subseteq DOMAIN objects'
  PROVE  TablesInv'
<1>1. fd \in Numbers /\ HostEntry(fd) = {}
  BY DEF HostHands, HostEntry
<1>2. (Held(fd) \ HostEntry(fd)) \cup {o} = Held(fd) \cup {o}
  BY <1>1
<1>3. /\ hostFds' = With(hostFds, fd, o)
      /\ holds' = With(holds, fd, (Held(fd) \ HostEntry(fd)) \cup {o})
      /\ UNCHANGED <<table, nextFd, early>> /\ Collides
  BY <1>2 DEF HostHands, Gets
<1> QED BY <1>1, <1>3, HostTakes

\* Only objects change, and not what there is of them.
LEMMA OnlyObjects ==
  ASSUME TablesInv, UNCHANGED <<mode, table, nextFd, hostFds, holds, collided, early>>,
         ObjectsOK', DOMAIN objects \subseteq DOMAIN objects'
  PROVE  TablesInv'
<1>1. InMode'
  BY DEF InMode, TablesInv
<1>2. EntriesOK'
  BY DEF TablesInv, EntriesOK
<1>3. MeantOK'
  BY DEF TablesInv, MeantOK, Held, Reached, Entry, HostEntry, Proxied
<1>4. (~Proxied => hostFds = <<>>)'
  BY DEF TablesInv, Proxied
<1> QED BY <1>1, <1>2, <1>3, <1>4 DEF TablesInv

LEMMA SameTables ==
  ASSUME TablesInv, UNCHANGED <<mode, tablevars, hostFds>>
  PROVE  TablesInv'
<1>1. UNCHANGED <<mode, table, nextFd, hostFds, holds, collided, early>> /\ objects' = objects
  BY DEF tablevars
<1>2. ObjectsOK' /\ DOMAIN objects \subseteq DOMAIN objects'
  BY <1>1 DEF ObjectsOK, TablesInv
<1> QED BY <1>1, <1>2, OnlyObjects

\* An object of another place and size.
LEMMA ObjectReplaced ==
  ASSUME ObjectsOK, NEW r \in DOMAIN objects, NEW v \in Object, v.offset <= v.size,
         objects' = [objects EXCEPT ![r] = v]
  PROVE  ObjectsOK' /\ DOMAIN objects \subseteq DOMAIN objects'
<1>1. objects' \in Seq(Object) /\ DOMAIN objects' = DOMAIN objects
  BY DEF ObjectsOK
<1>2. objects'[r] = v /\ \A o \in DOMAIN objects : o # r => objects'[o] = objects[o]
  BY DEF ObjectsOK
<1> QED BY <1>1, <1>2 DEF ObjectsOK


\* Calls that make descriptors.

LEMMA SameArena == ArenaOK /\ UNCHANGED arenavars => ArenaOK'
BY DEF ArenaOK, arenavars

\* Without the proxy the host's table and disk stay.
LEMMA SameHost == Isolated /\ UNCHANGED <<mode, hostFds, disk, settings>> => Isolated'
BY DEF Isolated
LEMMA ProxiedHost == Proxied /\ UNCHANGED mode => Isolated'
BY DEF Isolated, Proxied

LEMMA HasTables == SyscallInv => TablesInv
BY DEF SyscallInv, TablesInv, Isolated, Proxied
LEMMA FromTables == TablesInv' /\ Isolated' /\ ArenaOK' => SyscallInv'
BY DEF SyscallInv, TablesInv

LEMMA GuestOpenStep == ASSUME SyscallInv, NEW p, NEW creating \in BOOLEAN, GuestOpen(p, creating) PROVE SyscallInv'
<1>1. ArenaOK' /\ Isolated' /\ UNCHANGED mode
  <2>1. UNCHANGED <<mode, hostFds, disk, settings>> /\ UNCHANGED arenavars
    BY DEF GuestOpen, Trap, Entered
  <2> QED BY <2>1, SameArena, SameHost DEF SyscallInv
<1>2. CASE p \in Rooted \/ creating \/ mode = "analysis"
  <2> DEFINE n == IF p \in Rooted \/ ~creating THEN FileSize ELSE 0
  <2>1. n \in Nat
    BY SyscallAssumption
  <2>2. Entered(n)
    BY <1>2 DEF GuestOpen
  <2> HIDE DEF n
  <2>3. TablesInv'
    BY <1>1, <2>1, <2>2, HasTables, EnteredStep
  <2> QED BY <1>1, <2>3, FromTables
<1>3. CASE ~(p \in Rooted \/ creating \/ mode = "analysis")
  <2>1. nextFd' = nextFd + 1 /\ UNCHANGED <<table, objects, holds, collided, early, hostFds, mode>>
    BY <1>1, <1>3 DEF GuestOpen
  <2>2. InMode' /\ ObjectsOK'
    BY <2>1 DEF SyscallInv, InMode, ObjectsOK
  <2>3. EntriesOK'
    BY <2>1 DEF SyscallInv, EntriesOK
  <2>4. MeantOK'
    BY <2>1 DEF SyscallInv, MeantOK, Held, Reached, Entry, HostEntry, Proxied
  <2> QED BY <1>1, <2>2, <2>3, <2>4 DEF SyscallInv
<1> QED BY <1>2, <1>3

LEMMA HostOpenStep ==
  ASSUME SyscallInv, NEW p, NEW creating \in BOOLEAN, NEW fd, HostOpen(p, creating, fd)
  PROVE  SyscallInv'
<1> DEFINE n == IF p \in disk THEN FileSize ELSE 0
<1>1. n \in Nat
  BY SyscallAssumption
<1>2. /\ Proxied /\ UNCHANGED mode /\ UNCHANGED arenavars
      /\ objects' = Append(objects, Fresh(n)) /\ HostHands(fd, NewObject)
  BY DEF HostOpen, Trap
<1> HIDE DEF n
<1>3. ObjectsOK' /\ DOMAIN objects \subseteq DOMAIN objects' /\ NewObject \in DOMAIN objects'
  BY <1>1, <1>2, AppendFacts DEF SyscallInv
<1>4. TablesInv'
  BY <1>2, <1>3, HasTables, HostHandsStep
<1> QED BY <1>2, <1>4, SameArena, ProxiedHost, FromTables DEF SyscallInv

LEMMA SocketStep == ASSUME SyscallInv, NEW fd, SysSocket(fd) PROVE SyscallInv'
<1>1. /\ Proxied /\ UNCHANGED mode /\ UNCHANGED arenavars
      /\ objects' = Append(objects, Fresh(0)) /\ HostHands(fd, NewObject)
  BY DEF SysSocket, Trap
<1>2. ObjectsOK' /\ DOMAIN objects \subseteq DOMAIN objects' /\ NewObject \in DOMAIN objects'
  BY <1>1, AppendFacts DEF SyscallInv
<1>3. TablesInv'
  BY <1>1, <1>2, HasTables, HostHandsStep
<1> QED BY <1>1, <1>3, SameArena, ProxiedHost, FromTables DEF SyscallInv

LEMMA KqueueStep == ASSUME SyscallInv, SysKqueue PROVE SyscallInv'
<1>1. Entered(0) /\ UNCHANGED <<mode, hostFds, disk, settings>> /\ UNCHANGED arenavars
  BY DEF SysKqueue, Trap, Entered
<1>2. TablesInv'
  BY <1>1, HasTables, EnteredStep
<1> QED BY <1>1, <1>2, SameArena, SameHost, FromTables DEF SyscallInv

\* Both numbers of a pipe are new, and there is no table of the host.
LEMMA PipeStep == ASSUME SyscallInv, SysPipe PROVE SyscallInv'
<1>1. /\ ~Proxied
      /\ table' = With(With(table, SecondEnd, NewObject + 1), nextFd, NewObject)
      /\ nextFd' = nextFd + 2
      /\ objects' = objects \o <<Fresh(0), Fresh(0)>>
      /\ holds' = With(With(holds, nextFd + 1, {NewObject + 1}), nextFd, {NewObject})
      /\ UNCHANGED <<mode, hostFds, disk, settings, collided, early>> /\ UNCHANGED arenavars
  BY DEF SysPipe, Trap, hostvars
<1>2. SecondEnd = nextFd + 1 /\ nextFd \in Nat \ 0..2
  BY DEF SecondEnd, SyscallInv, EntriesOK
<1>3. /\ ObjectsOK' /\ DOMAIN objects \subseteq DOMAIN objects'
      /\ NewObject \in DOMAIN objects' /\ NewObject + 1 \in DOMAIN objects'
  BY <1>1, AppendTwoFacts DEF SyscallInv
<1>4. /\ DOMAIN table' = DOMAIN table \cup {nextFd, nextFd + 1}
      /\ table'[nextFd] = NewObject /\ table'[nextFd + 1] = NewObject + 1
      /\ \A x \in DOMAIN table : x # nextFd /\ x # nextFd + 1 => table'[x] = table[x]
  BY <1>1, <1>2 DEF With
<1>5. /\ DOMAIN holds' = DOMAIN holds \cup {nextFd, nextFd + 1}
      /\ holds'[nextFd] = {NewObject} /\ holds'[nextFd + 1] = {NewObject + 1}
      /\ \A x \in DOMAIN holds : x # nextFd /\ x # nextFd + 1 => holds'[x] = holds[x]
  BY <1>1, <1>2 DEF With
<1>6. DOMAIN hostFds' = {}
  BY <1>1, HasTables DEF TablesInv
<1>7. InMode'
  BY <1>1 DEF SyscallInv, InMode
<1>8. EntriesOK'
  <2>1. nextFd' \in Nat \ 0..2
    BY <1>1, <1>2
  <2>2. \A fd \in DOMAIN table' : fd \in Nat \ 0..2 /\ fd < nextFd' /\ table'[fd] \in DOMAIN objects'
    <3> SUFFICES ASSUME NEW fd \in DOMAIN table'
                 PROVE  fd \in Nat \ 0..2 /\ fd < nextFd' /\ table'[fd] \in DOMAIN objects'
      OBVIOUS
    <3>1. CASE fd \in {nextFd, nextFd + 1}
      BY <3>1, <1>1, <1>2, <1>3, <1>4
    <3>2. CASE fd \notin {nextFd, nextFd + 1}
      <4>1. fd \in DOMAIN table /\ table'[fd] = table[fd]
        BY <3>2, <1>4
      <4>2. fd \in Nat \ 0..2 /\ fd < nextFd /\ table[fd] \in DOMAIN objects
        BY <4>1 DEF SyscallInv, EntriesOK
      <4> QED BY <4>1, <4>2, <1>1, <1>2, <1>3
    <3> QED BY <3>1, <3>2
  <2>3. DOMAIN holds' \subseteq Nat
    BY <1>2, <1>5 DEF SyscallInv, EntriesOK
  <2> QED BY <1>6, <2>1, <2>2, <2>3 DEF EntriesOK
<1>9. MeantOK'
  <2> SUFFICES ASSUME ~collided'
               PROVE  ~early' /\ \A fd \in Nat : Held(fd)' = Reached(fd)'
    BY <1>6 DEF MeantOK
  <2>1. ~early /\ \A fd \in Nat : Held(fd) = Reached(fd)
    BY <1>1 DEF SyscallInv, MeantOK
  <2>2. ASSUME NEW fd \in Nat PROVE Held(fd)' = Reached(fd)'
    <3>1. CASE fd \in {nextFd, nextFd + 1}
      BY <3>1, <1>2, <1>4, <1>5 DEF Held, Reached, Entry
    <3>2. CASE fd \notin {nextFd, nextFd + 1}
      <4>1. Held(fd)' = Held(fd)
        BY <3>2, <1>5 DEF Held
      <4>2. Reached(fd)' = Reached(fd)
        BY <3>2, <1>1, <1>4 DEF Reached, Entry, HostEntry, Proxied
      <4> QED BY <4>1, <4>2, <2>1
    <3> QED BY <3>1, <3>2
  <2> QED BY <1>1, <2>1, <2>2
<1> QED BY <1>1, <1>3, <1>7, <1>8, <1>9, SameArena, SameHost DEF SyscallInv

LEMMA SocketpairStep ==
  ASSUME SyscallInv, NEW fd \in Numbers, NEW other \in Numbers, SysSocketpair(fd, other)
  PROVE  SyscallInv'
<1>1. /\ Proxied /\ fd # other /\ fd \notin DOMAIN hostFds /\ other \notin DOMAIN hostFds
      /\ hostFds' = With(With(hostFds, other, NewObject + 1), fd, NewObject)
      /\ objects' = objects \o <<Fresh(0), Fresh(0)>>
      /\ holds' = With(With(holds, other, Held(other) \cup {NewObject + 1}), fd, Held(fd) \cup {NewObject})
      /\ UNCHANGED <<mode, table, nextFd, early>> /\ UNCHANGED arenavars /\ Collides
  BY DEF SysSocketpair, Trap
<1>2. fd \in Nat /\ fd > 2 /\ other \in Nat /\ other > 2
  BY SyscallAssumption
<1>3. /\ ObjectsOK' /\ DOMAIN objects \subseteq DOMAIN objects'
      /\ NewObject \in DOMAIN objects' /\ NewObject + 1 \in DOMAIN objects'
  BY <1>1, AppendTwoFacts DEF SyscallInv
<1>4. /\ DOMAIN hostFds' = DOMAIN hostFds \cup {fd, other}
      /\ hostFds'[fd] = NewObject /\ hostFds'[other] = NewObject + 1
      /\ \A x \in DOMAIN hostFds : x # fd /\ x # other => hostFds'[x] = hostFds[x]
  BY <1>1 DEF With
<1>5. /\ DOMAIN holds' = DOMAIN holds \cup {fd, other}
      /\ holds'[fd] = Held(fd) \cup {NewObject} /\ holds'[other] = Held(other) \cup {NewObject + 1}
      /\ \A x \in DOMAIN holds : x # fd /\ x # other => holds'[x] = holds[x]
  BY <1>1 DEF With
<1>6. InMode'
  BY <1>1 DEF SyscallInv, InMode, Collides
<1>7. EntriesOK'
  <2>1. nextFd' \in Nat \ 0..2
    BY <1>1 DEF SyscallInv, EntriesOK
  <2>2. \A x \in DOMAIN table' : x \in Nat \ 0..2 /\ x < nextFd' /\ table'[x] \in DOMAIN objects'
    BY <1>1, <1>3 DEF SyscallInv, EntriesOK
  <2>3. DOMAIN holds' \subseteq Nat
    BY <1>2, <1>5 DEF SyscallInv, EntriesOK
  <2>4. DOMAIN hostFds' \subseteq Numbers /\ \A x \in DOMAIN hostFds' : hostFds'[x] \in DOMAIN objects'
    BY <1>3, <1>4 DEF SyscallInv, EntriesOK
  <2> QED BY <2>1, <2>2, <2>3, <2>4 DEF EntriesOK
<1>8. MeantOK'
  <2> SUFFICES ASSUME ~collided'
               PROVE  /\ DOMAIN table' \cap DOMAIN hostFds' = {} /\ ~early'
                      /\ \A x \in Nat : Held(x)' = Reached(x)'
    BY DEF MeantOK
  <2>1. ~collided /\ DOMAIN table' \cap DOMAIN hostFds' = {}
    BY <1>1 DEF Collides
  <2>2. ~early /\ \A x \in Nat : Held(x) = Reached(x)
    BY <2>1 DEF SyscallInv, MeantOK
  <2>3. fd \notin DOMAIN table /\ other \notin DOMAIN table
    BY <1>1, <1>4, <2>1
  <2>4. Held(fd) = {} /\ Held(other) = {}
    BY <2>2, <2>3, <1>1, <1>2 DEF Reached, HostEntry
  <2>5. ASSUME NEW x \in Nat PROVE Held(x)' = Reached(x)'
    <3>1. CASE x = fd
      BY <3>1, <2>3, <2>4, <1>1, <1>2, <1>4, <1>5 DEF Held, Reached, HostEntry, Proxied
    <3>2. CASE x = other
      BY <3>2, <2>3, <2>4, <1>1, <1>2, <1>4, <1>5 DEF Held, Reached, HostEntry, Proxied
    <3>3. CASE x # fd /\ x # other
      <4>1. Held(x)' = Held(x)
        BY <3>3, <1>5 DEF Held
      <4>2. Reached(x)' = Reached(x)
        BY <3>3, <1>1, <1>4 DEF Reached, Entry, HostEntry, Proxied
      <4> QED BY <4>1, <4>2, <2>2
    <3> QED BY <3>1, <3>2, <3>3
  <2> QED BY <1>1, <2>1, <2>2, <2>5
<1> QED BY <1>1, <1>3, <1>6, <1>7, <1>8, SameArena, ProxiedHost DEF SyscallInv

LEMMA DupStep == ASSUME SyscallInv, NEW from, NEW fd, SysDup(from, fd) PROVE SyscallInv'
<1>1. UNCHANGED <<mode, objects, disk, settings>> /\ UNCHANGED arenavars
  BY DEF SysDup, Trap
<1>2. ObjectsOK' /\ DOMAIN objects \subseteq DOMAIN objects'
  BY <1>1 DEF SyscallInv, ObjectsOK
<1>3. CASE HostEntry(from) = {}
  <2>1. UNCHANGED <<mode, table, nextFd, hostFds, holds, collided, early>>
    BY <1>1, <1>3 DEF SysDup
  <2>2. TablesInv'
    BY <2>1, <1>2, HasTables, OnlyObjects
  <2> QED BY <1>1, <2>1, <2>2, SameArena, SameHost, FromTables DEF SyscallInv
<1>4. CASE HostEntry(from) # {}
  <2>1. Proxied /\ from \in DOMAIN hostFds /\ HostHands(fd, hostFds[from])
    BY <1>4 DEF SysDup, HostEntry
  <2>2. hostFds[from] \in DOMAIN objects'
    BY <1>2, <2>1 DEF SyscallInv, EntriesOK
  <2> DEFINE o == hostFds[from]
  <2>3. HostHands(fd, o) /\ o \in DOMAIN objects'
    BY <2>1, <2>2
  <2> HIDE DEF o
  <2>4. TablesInv'
    BY <1>1, <1>2, <2>1, <2>3, HasTables, HostHandsStep
  <2> QED BY <1>1, <2>1, <2>4, SameArena, ProxiedHost, FromTables DEF SyscallInv
<1> QED BY <1>3, <1>4

LEMMA Dup2Step == ASSUME SyscallInv, NEW from, NEW to \in Numbers, SysDup2(from, to) PROVE SyscallInv'
<1> DEFINE o == hostFds[from]
<1>1. /\ UNCHANGED <<mode, objects, table, nextFd, early>> /\ UNCHANGED arenavars
      /\ Proxied /\ from \in DOMAIN hostFds /\ Collides
      /\ hostFds' = With(hostFds, to, o)
      /\ holds' = With(holds, to, (Held(to) \ HostEntry(to)) \cup {o})
  BY DEF SysDup2, Trap, HostEntry
<1>2. ObjectsOK' /\ DOMAIN objects \subseteq DOMAIN objects' /\ o \in DOMAIN objects'
  BY <1>1 DEF SyscallInv, ObjectsOK, EntriesOK
<1> HIDE DEF o
<1>3. TablesInv'
  BY <1>1, <1>2, HasTables, HostTakes
<1> QED BY <1>1, <1>3, SameArena, ProxiedHost, FromTables DEF SyscallInv


\* Calls on descriptors.

\* What is left of an object that exists.
LEMMA LeftType == ASSUME ObjectsOK, NEW o \in DOMAIN objects PROVE Left(o) \in Nat /\ objects[o] \in Object
<1>1. objects[o] \in Object
  BY DEF ObjectsOK
<1>2. objects[o].offset <= objects[o].size
  BY DEF ObjectsOK
<1> QED BY <1>1, <1>2 DEF Left, Object

\* Moving the place in an object by no more than is left of it.
LEMMA Moved ==
  ASSUME ObjectsOK, NEW r \in DOMAIN objects, NEW n \in Nat, n <= Left(r),
         objects' = [objects EXCEPT ![r].offset = @ + n]
  PROVE  ObjectsOK' /\ DOMAIN objects \subseteq DOMAIN objects'
<1> DEFINE v == [objects[r] EXCEPT !.offset = objects[r].offset + n]
<1>1. objects[r] \in Object /\ Left(r) = objects[r].size - objects[r].offset
  BY LeftType DEF Left
<1>2. v \in Object /\ v.offset <= v.size
  BY <1>1 DEF Object
<1>3. objects' = [objects EXCEPT ![r] = v]
  BY <1>1 DEF Object
<1> HIDE DEF v
<1> QED BY <1>2, <1>3, ObjectReplaced

LEMMA HostEntryIs == ASSUME EntriesOK, NEW fd, NEW r \in HostEntry(fd) PROVE r \in DOMAIN objects
BY DEF EntriesOK, HostEntry

\* A call that only moves in an object, or changes it.
LEMMA MovesOnly ==
  ASSUME SyscallInv, UNCHANGED <<mode, table, nextFd, holds, collided, early>>,
         UNCHANGED hostvars, UNCHANGED arenavars, ObjectsOK', DOMAIN objects \subseteq DOMAIN objects'
  PROVE  SyscallInv'
<1>1. UNCHANGED <<hostFds, disk, settings>>
  BY DEF hostvars
<1>2. TablesInv'
  BY <1>1, HasTables, OnlyObjects
<1> QED BY <1>1, <1>2, SameArena, SameHost, FromTables DEF SyscallInv

LEMMA LseekStep == ASSUME SyscallInv, NEW fd, NEW at \in Nat, SysLseek(fd, at) PROVE SyscallInv'
<1>1. /\ UNCHANGED <<mode, table, nextFd, holds, collided, early>> /\ UNCHANGED hostvars /\ UNCHANGED arenavars
      /\ \E r \in HostEntry(fd) : at <= objects[r].size /\ objects' = [objects EXCEPT ![r].offset = at]
  BY DEF SysLseek, Trap
<1>2. PICK r \in HostEntry(fd) : at <= objects[r].size /\ objects' = [objects EXCEPT ![r].offset = at]
  BY <1>1
<1> DEFINE v == [objects[r] EXCEPT !.offset = at]
<1>3. r \in DOMAIN objects /\ objects[r] \in Object
  BY HostEntryIs, LeftType DEF SyscallInv
<1>4. v \in Object /\ v.offset <= v.size
  BY <1>2, <1>3 DEF Object
<1>5. objects' = [objects EXCEPT ![r] = v]
  BY <1>2, <1>3 DEF Object
<1> HIDE DEF v
<1>6. ObjectsOK' /\ DOMAIN objects \subseteq DOMAIN objects'
  BY <1>3, <1>4, <1>5, ObjectReplaced DEF SyscallInv
<1> QED BY <1>1, <1>6, MovesOnly

LEMMA ReadvStep == ASSUME SyscallInv, NEW fd, NEW count \in Nat, SysReadv(fd, count) PROVE SyscallInv'
<1>1. /\ UNCHANGED <<mode, table, nextFd, holds, collided, early>> /\ UNCHANGED hostvars /\ UNCHANGED arenavars
      /\ \E r \in HostEntry(fd) : count <= Left(r) /\ objects' = [objects EXCEPT ![r].offset = @ + count]
  BY DEF SysReadv, Trap
<1>2. PICK r \in HostEntry(fd) : count <= Left(r) /\ objects' = [objects EXCEPT ![r].offset = @ + count]
  BY <1>1
<1>3. r \in DOMAIN objects
  BY HostEntryIs DEF SyscallInv
<1>4. ObjectsOK' /\ DOMAIN objects \subseteq DOMAIN objects'
  BY <1>2, <1>3, Moved DEF SyscallInv
<1> QED BY <1>1, <1>4, MovesOnly

\* At the end the object grows by what is written.
LEMMA WriteStep == ASSUME SyscallInv, NEW fd, SysWrite(fd) PROVE SyscallInv'
<1>1. /\ UNCHANGED <<mode, table, nextFd, holds, collided, early>> /\ UNCHANGED hostvars /\ UNCHANGED arenavars
      /\ \E r \in HostEntry(fd) :
           objects' = [objects EXCEPT ![r] = [size |-> IF @.offset = @.size THEN @.size + 1 ELSE @.size,
                                              offset |-> @.offset + 1]]
  BY DEF SysWrite, Trap
<1>2. PICK r \in HostEntry(fd) :
        objects' = [objects EXCEPT ![r] = [size |-> IF @.offset = @.size THEN @.size + 1 ELSE @.size,
                                           offset |-> @.offset + 1]]
  BY <1>1
<1>3. r \in DOMAIN objects /\ objects[r] \in Object /\ objects[r].offset <= objects[r].size
  BY HostEntryIs, LeftType DEF SyscallInv, ObjectsOK
<1> DEFINE x == objects[r]
           v == [size |-> IF x.offset = x.size THEN x.size + 1 ELSE x.size, offset |-> x.offset + 1]
<1>4. v \in Object /\ v.offset <= v.size
  BY <1>3 DEF Object
<1>5. objects' = [objects EXCEPT ![r] = v]
  BY <1>2, <1>3
<1> HIDE DEF v
<1>6. ObjectsOK' /\ DOMAIN objects \subseteq DOMAIN objects'
  BY <1>3, <1>4, <1>5, ObjectReplaced DEF SyscallInv
<1> QED BY <1>1, <1>6, MovesOnly

\* Without a collision a read reaches the object that is meant, and gets a byte if one is left.
LEMMA SysReadStep ==
  ASSUME SyscallInv, NEW fd \in DOMAIN holds, NEW o \in holds[fd], NEW count \in 1..FileSize, SysRead(fd, o, count)
  PROVE  SyscallInv'
<1> DEFINE got(r) == IF count < Left(r) THEN count ELSE Left(r)
<1>1. /\ UNCHANGED <<mode, table, nextFd, holds, collided>> /\ UNCHANGED hostvars /\ UNCHANGED arenavars
      /\ o \in Held(fd)
      /\ IF Reached(fd) = {} THEN UNCHANGED objects
         ELSE \E r \in Reached(fd) : objects' = [objects EXCEPT ![r].offset = @ + got(r)]
      /\ early' = (early \/ (Left(o) > 0 /\ \A r \in Reached(fd) : got(r) = 0))
  BY DEF SysRead, Trap
<1>2. count \in Nat /\ count > 0
  BY SyscallAssumption
<1>3. ASSUME NEW r \in Reached(fd)
      PROVE  r \in DOMAIN objects /\ Left(r) \in Nat /\ got(r) \in Nat /\ got(r) <= Left(r)
  <2>1. r \in DOMAIN objects
    BY DEF Reached, Entry, HostEntry, SyscallInv, EntriesOK
  <2> QED BY <1>2, <2>1, LeftType DEF SyscallInv
<1>4. ObjectsOK' /\ DOMAIN objects \subseteq DOMAIN objects'
  <2>1. CASE Reached(fd) = {}
    BY <1>1, <2>1 DEF SyscallInv, ObjectsOK
  <2>2. CASE Reached(fd) # {}
    <3>1. PICK r \in Reached(fd) : objects' = [objects EXCEPT ![r].offset = @ + got(r)]
      BY <1>1, <2>2
    <3>2. r \in DOMAIN objects /\ got(r) \in Nat /\ got(r) <= Left(r)
      BY <1>3
    <3>3. PICK n \in Nat : n = got(r)
      BY <3>2
    <3> HIDE DEF got
    <3> QED BY <3>1, <3>2, <3>3, Moved DEF SyscallInv
  <2> QED BY <2>1, <2>2
<1>5. InMode'
  BY <1>1 DEF SyscallInv, InMode
<1>6. UNCHANGED <<hostFds, disk, settings>>
  BY <1>1 DEF hostvars
<1>7. EntriesOK'
  BY <1>1, <1>4, <1>6 DEF SyscallInv, EntriesOK
<1>8. MeantOK'
  <2> SUFFICES ASSUME ~collided
               PROVE  /\ DOMAIN table \cap DOMAIN hostFds = {} /\ ~early'
                      /\ \A x \in Nat : Held(x)' = Reached(x)'
    BY <1>1, <1>6 DEF MeantOK
  <2>1. DOMAIN table \cap DOMAIN hostFds = {} /\ ~early /\ \A x \in Nat : Held(x) = Reached(x)
    BY DEF SyscallInv, MeantOK
  <2>2. o \in Reached(fd)
    BY <1>1, <2>1 DEF SyscallInv, EntriesOK
  <2>3. Left(o) > 0 => got(o) # 0
    BY <1>2, <1>3, <2>2
  <2>4. ~early'
    BY <1>1, <2>1, <2>2, <2>3
  <2>5. \A x \in Nat : Held(x)' = Held(x) /\ Reached(x)' = Reached(x)
    BY <1>1, <1>6 DEF Held, Reached, Entry, HostEntry, Proxied
  <2> QED BY <2>1, <2>4, <2>5
<1> QED BY <1>1, <1>4, <1>5, <1>6, <1>7, <1>8, SameArena, SameHost DEF SyscallInv

\* One table loses a number, and with it the one object that is held.
LEMMA CloseStep ==
  ASSUME SyscallInv, NEW fd \in DOMAIN holds, NEW o \in holds[fd], SysClose(fd, o)
  PROVE  SyscallInv'
<1>1. /\ UNCHANGED <<mode, nextFd, objects, collided, early, disk, settings>> /\ UNCHANGED arenavars
      /\ o \in Held(fd) /\ holds' = [holds EXCEPT ![fd] = @ \ {o}]
      /\ IF fd \in DOMAIN table
         THEN table' = Dropped(table, fd) /\ UNCHANGED hostFds
         ELSE hostFds' = (IF HostEntry(fd) = {} THEN hostFds ELSE Dropped(hostFds, fd)) /\ UNCHANGED table
  BY DEF SysClose, Trap
<1>2. fd \in Nat
  BY DEF SyscallInv, EntriesOK
<1>3. DOMAIN holds' = DOMAIN holds /\ \A x \in Nat : Held(x)' = IF x = fd THEN Held(fd) \ {o} ELSE Held(x)
  BY <1>1 DEF Held
<1>4. /\ DOMAIN table' = IF fd \in DOMAIN table THEN DOMAIN table \ {fd} ELSE DOMAIN table
      /\ \A x \in DOMAIN table' : table'[x] = table[x]
  BY <1>1 DEF Dropped
<1>5. /\ DOMAIN hostFds' \subseteq DOMAIN hostFds /\ DOMAIN hostFds \ {fd} \subseteq DOMAIN hostFds'
      /\ \A x \in DOMAIN hostFds' : hostFds'[x] = hostFds[x]
      /\ fd \notin DOMAIN table /\ HostEntry(fd) # {} => fd \notin DOMAIN hostFds'
  BY <1>1 DEF Dropped
<1>6. ~Proxied => hostFds' = hostFds
  BY <1>1 DEF HostEntry
<1>7. InMode' /\ ObjectsOK'
  BY <1>1 DEF SyscallInv, InMode, ObjectsOK
<1>8. EntriesOK'
  BY <1>1, <1>3, <1>4, <1>5 DEF SyscallInv, EntriesOK
<1>9. MeantOK'
  <2> SUFFICES ASSUME ~collided
               PROVE  /\ DOMAIN table' \cap DOMAIN hostFds' = {} /\ ~early'
                      /\ \A x \in Nat : Held(x)' = Reached(x)'
    BY <1>1 DEF MeantOK
  <2>1. DOMAIN table \cap DOMAIN hostFds = {} /\ ~early /\ \A x \in Nat : Held(x) = Reached(x)
    BY DEF SyscallInv, MeantOK
  <2>2. ASSUME NEW x \in Nat, x # fd PROVE Reached(x)' = Reached(x)
    BY <1>1, <1>4, <1>5, <2>2 DEF Reached, Entry, HostEntry, Proxied
  <2>3. Held(fd)' = {}
    BY <1>1, <1>2, <1>3, <2>1 DEF Reached, Entry, HostEntry
  <2>4. fd \notin DOMAIN table'
    BY <1>4
  <2>5. Reached(fd)' = {}
    <3>1. CASE fd \in DOMAIN table
      BY <3>1, <1>1, <2>1, <2>4 DEF Reached, HostEntry
    <3>2. CASE fd \notin DOMAIN table
      BY <3>2, <1>1, <1>5, <2>4 DEF Reached, HostEntry, Proxied
    <3> QED BY <3>1, <3>2
  <2>6. \A x \in Nat : Held(x)' = Reached(x)'
    BY <1>3, <2>1, <2>2, <2>3, <2>5
  <2> QED BY <1>1, <1>4, <1>5, <2>1, <2>6
<1>10. Isolated'
  BY <1>1, <1>6 DEF SyscallInv, Isolated, Proxied
<1> QED BY <1>1, <1>7, <1>8, <1>9, <1>10, SameArena DEF SyscallInv


\* Calls on names and on the process, and mmap.

\* The tables and the arena stay, and the host unless the proxy is there.
LEMMA NamesStep ==
  ASSUME SyscallInv, UNCHANGED <<mode, tablevars, hostFds>>, UNCHANGED arenavars,
         ~Proxied => UNCHANGED <<disk, settings>>
  PROVE  SyscallInv'
<1>1. TablesInv'
  BY HasTables, SameTables
<1>2. Isolated'
  BY DEF SyscallInv, Isolated, Proxied
<1> QED BY <1>1, <1>2, SameArena, FromTables DEF SyscallInv

LEMMA OnDiskStep == ASSUME SyscallInv, NEW d, OnDisk(d) PROVE SyscallInv'
<1>1. UNCHANGED <<mode, tablevars, hostFds>> /\ UNCHANGED arenavars /\ (~Proxied => UNCHANGED <<disk, settings>>)
  BY DEF OnDisk, Trap
<1> QED BY <1>1, NamesStep

LEMMA SetsStep == ASSUME SyscallInv, NEW what, Sets(what) PROVE SyscallInv'
<1>1. UNCHANGED <<mode, tablevars, hostFds>> /\ UNCHANGED arenavars /\ (~Proxied => UNCHANGED <<disk, settings>>)
  BY DEF Sets, Trap
<1> QED BY <1>1, NamesStep

LEMMA AnsweredStep == ASSUME SyscallInv, Answered \/ SysExit PROVE SyscallInv'
<1>1. UNCHANGED <<mode, tablevars, hostFds>> /\ UNCHANGED arenavars /\ (~Proxied => UNCHANGED <<disk, settings>>)
  BY DEF Answered, SysExit, Trap, hostvars
<1> QED BY <1>1, NamesStep

\* Below Span nothing wraps.
LEMMA Unwrapped == ASSUME NEW x \in Nat, NEW m \in Nat, x < m PROVE x % m = x
OBVIOUS
LEMMA Wrapped == ASSUME NEW x \in Nat, NEW m \in Nat, m > 0 PROVE x % m \in Nat
OBVIOUS

LEMMA MmapStep ==
  ASSUME SyscallInv, NEW hint, NEW n \in MapSizes, SysMmap(hint, n)
  PROVE  SyscallInv'
<1>1. /\ UNCHANGED <<mode, tablevars, hostFds, disk, settings>> /\ asked' = asked + n
      /\ UNCHANGED <<nextRegion, placed>> \/ Chosen(n)
  BY DEF SysMmap, Trap, hostvars
<1>2. n \in Nat /\ n > 0 /\ Span \in Nat /\ Span > 0 /\ ArenaBase \in Nat /\ ArenaEnd \in Nat
  BY SyscallAssumption
<1>3. TablesInv' /\ Isolated'
  BY <1>1, HasTables, SameTables, SameHost DEF SyscallInv
<1> DEFINE fresh == [at |-> nextRegion, size |-> n]
<1>4. asked \in Nat /\ nextRegion \in Nat /\ placed \subseteq [at : Nat, size : Nat] /\ nextRegion + n \in Nat
  BY <1>2 DEF SyscallInv, ArenaOK
<1>5. nextRegion' \in Nat
  <2>1. CASE UNCHANGED nextRegion
    BY <2>1, <1>4
  <2>2. CASE Chosen(n)
    BY <2>2, <1>2, <1>4, Wrapped DEF Chosen
  <2> QED BY <1>1, <2>1, <2>2
<1>6. placed' \subseteq placed \cup {fresh} /\ fresh \in [at : Nat, size : Nat]
  BY <1>1, <1>2, <1>4 DEF Chosen
<1>7. ASSUME ArenaBase + asked' < Span
      PROVE  /\ ArenaBase <= nextRegion' /\ nextRegion' <= ArenaBase + asked'
             /\ \A a \in placed' : /\ a.at >= ArenaBase /\ a.at + a.size <= ArenaEnd
                                   /\ a.at + a.size <= nextRegion'
                                   /\ \A b \in placed' : a = b \/ Apart(a, b)
  <2>1. /\ ArenaBase + asked < Span /\ ArenaBase <= nextRegion /\ nextRegion <= ArenaBase + asked
        /\ \A a \in placed : /\ a.at >= ArenaBase /\ a.at + a.size <= ArenaEnd
                             /\ a.at + a.size <= nextRegion
                             /\ \A b \in placed : a = b \/ Apart(a, b)
    BY <1>1, <1>2, <1>4, <1>7 DEF SyscallInv, ArenaOK
  <2>2. CASE UNCHANGED <<nextRegion, placed>>
    BY <1>1, <1>2, <1>4, <2>1, <2>2
  <2>3. CASE Chosen(n)
    <3>1. (nextRegion + n) % Span = nextRegion + n
      BY <1>1, <1>2, <1>4, <1>7, <2>1, Unwrapped
    <3>2. nextRegion' = nextRegion + n
          /\ (placed' = placed \/ (placed' = placed \cup {fresh} /\ nextRegion + n <= ArenaEnd))
      BY <2>3, <3>1 DEF Chosen, RegionFits
    <3>3. \A a \in placed : a.at \in Nat /\ a.size \in Nat /\ a.at + a.size <= nextRegion'
      BY <1>2, <1>4, <2>1, <3>2
    <3>4. \A a \in placed : Apart(a, fresh) /\ Apart(fresh, a)
      BY <2>1 DEF Apart
    <3>5. fresh.at >= ArenaBase /\ fresh.at + fresh.size = nextRegion'
      BY <2>1, <3>2
    <3> HIDE DEF fresh
    <3>6. ArenaBase <= nextRegion' /\ nextRegion' <= ArenaBase + asked'
      BY <1>1, <1>2, <1>4, <2>1, <3>2
    <3>7. CASE placed' = placed
      BY <2>1, <3>3, <3>6, <3>7
    <3>8. CASE placed' = placed \cup {fresh} /\ nextRegion + n <= ArenaEnd
      <4>1. ASSUME NEW a \in placed'
            PROVE  a.at >= ArenaBase /\ a.at + a.size <= ArenaEnd /\ a.at + a.size <= nextRegion'
        BY <1>5, <2>1, <3>2, <3>3, <3>5, <3>8
      <4>2. \A a, b \in placed' : a = b \/ Apart(a, b)
        BY <2>1, <3>4, <3>8
      <4> QED BY <3>6, <4>1, <4>2
    <3> QED BY <3>2, <3>7, <3>8
  <2> QED BY <1>1, <2>2, <2>3
<1>8. ArenaOK'
  <2>1. asked' \in Nat
    BY <1>1, <1>2, <1>4
  <2>2. placed' \subseteq [at : Nat, size : Nat]
    BY <1>4, <1>6
  <2> QED BY <2>1, <2>2, <1>5, <1>7 DEF ArenaOK
<1> QED BY <1>3, <1>8, FromTables

LEMMA NextSyscall == SyscallInv /\ [SyscallNext]_syscallvars => SyscallInv'
<1> SUFFICES ASSUME SyscallInv, [SyscallNext]_syscallvars PROVE SyscallInv'
  OBVIOUS
<1> USE SyscallAssumption
<1>1. ASSUME NEW p \in Paths, NEW creating \in BOOLEAN, GuestOpen(p, creating) PROVE SyscallInv'
  BY <1>1, GuestOpenStep
<1>2. ASSUME NEW p \in Paths, NEW creating \in BOOLEAN, NEW fd \in Numbers, HostOpen(p, creating, fd) PROVE SyscallInv'
  BY <1>2, HostOpenStep
<1>3. CASE SysPipe \/ SysKqueue
  BY <1>3, PipeStep, KqueueStep
<1>4. ASSUME NEW fd \in Numbers, NEW from \in Numbers,
             SysSocket(fd) \/ SysDup(from, fd) \/ SysDup2(from, fd) \/ SysSocketpair(from, fd)
      PROVE  SyscallInv'
  BY <1>4, SocketStep, DupStep, Dup2Step, SocketpairStep
<1>5. ASSUME NEW fd \in DOMAIN holds, NEW o \in holds[fd], SysClose(fd, o) PROVE SyscallInv'
  BY <1>5, CloseStep
<1>6. ASSUME NEW fd \in DOMAIN holds, NEW o \in holds[fd], NEW count \in 1..FileSize, SysRead(fd, o, count)
      PROVE  SyscallInv'
  BY <1>6, SysReadStep
<1>7. ASSUME NEW fd \in Numbers, SysWrite(fd) PROVE SyscallInv'
  BY <1>7, WriteStep
<1>8. ASSUME NEW fd \in Numbers, NEW n \in 0..FileSize, SysLseek(fd, n) \/ SysReadv(fd, n) PROVE SyscallInv'
  BY <1>8, LseekStep, ReadvStep
<1>9. ASSUME NEW p \in Paths, NEW q \in Paths, SysMkdir(p) \/ SysSymlink(p) \/ SysUnlink(p) \/ SysRename(p, q)
      PROVE  SyscallInv'
  BY <1>9, OnDiskStep DEF SysMkdir, SysSymlink, SysUnlink, SysRename
<1>10. CASE \/ SysChmod \/ SysTruncate \/ SysChdir \/ SysUmask \/ SysSetrlimit
            \/ SysConnect \/ SysSendmsg \/ SysSetsockopt
  BY <1>10, SetsStep
     DEF SysChmod, SysTruncate, SysChdir, SysUmask, SysSetrlimit, SysConnect, SysSendmsg, SysSetsockopt
<1>11. CASE \/ SysGetpid \/ SysGettimeofday \/ SysAccess \/ SysStat \/ SysStatfs \/ SysReadlink
            \/ SysSysctl \/ SysGetattrlist \/ SysGetsockname \/ SysGetsockopt \/ SysSelect \/ SysPoll \/ SysIoctl
  BY <1>11, SetsStep
     DEF SysGetpid, SysGettimeofday, SysAccess, SysStat, SysStatfs, SysReadlink, SysSysctl, SysGetattrlist,
         SysGetsockname, SysGetsockopt, SysSelect, SysPoll, SysIoctl, Looks
<1>12. CASE SysWait4 \/ SysGetdirentries \/ SysKevent \/ SysMprotect \/ SysExit
  BY <1>12, AnsweredStep DEF SysWait4, SysGetdirentries, SysKevent, SysMprotect
<1>13. ASSUME NEW hint, NEW n \in MapSizes, SysMmap(hint, n) PROVE SyscallInv'
  BY <1>13, MmapStep
<1>14. CASE UNCHANGED syscallvars
  <2>1. UNCHANGED <<mode, tablevars, hostFds>> /\ UNCHANGED arenavars /\ UNCHANGED <<disk, settings>>
    BY <1>14 DEF syscallvars, hostvars
  <2> QED BY <2>1, NamesStep
<1> QED BY <1>1, <1>2, <1>3, <1>4, <1>5, <1>6, <1>7, <1>8, <1>9, <1>10, <1>11, <1>12, <1>13, <1>14 DEF SyscallNext

\* Whatever the guest calls, in whatever mode: until a kqueue and the host share a
\* number, the two tables have no number in common and each number reaches the object
\* that is held under it; without the proxy the host stays as it is; and while less is
\* mapped than there is, what was placed lies below the next region.
THEOREM SyscallInvariant == SyscallSpec => []SyscallInv
<1>1. SyscallInv /\ [SyscallNext]_syscallvars => SyscallInv'
  BY NextSyscall
<1> QED BY InitSyscalls, <1>1, PTL DEF SyscallSpec

\* What a system call is told is so: a number means what is held under it, a read does
\* not say end of file early, nothing leaks without the proxy, regions lie apart.
THEOREM SyscallsAreHonest == SyscallSpec => []SyscallsHonest
<1>1. SyscallInv => SyscallsHonest
  <2> SUFFICES ASSUME SyscallInv PROVE NumbersMean /\ RegionsApart
    BY DEF SyscallInv, SyscallsHonest
  <2>1. DOMAIN table \subseteq Nat /\ DOMAIN hostFds \subseteq Nat /\ DOMAIN holds \subseteq Nat
    BY SyscallAssumption DEF SyscallInv, EntriesOK
  <2>2. NumbersMean
    BY <2>1 DEF SyscallInv, MeantOK, NumbersMean
  <2>3. RegionsApart
    BY DEF SyscallInv, ArenaOK, RegionsApart
  <2> QED BY <2>2, <2>3
<1> QED BY <1>1, SyscallInvariant, PTL

-------------------------------------------------------------------------------
(***************************************************************************)
(* GuestMemory.  First, rounding.                                          *)
(***************************************************************************)
LEMMA MemoryNumbers ==
  /\ Word \in Nat /\ Page \in Nat /\ Chunk \in Nat /\ HeapBase \in Nat /\ MmapBase \in Nat /\ MmapEnd \in Nat
  /\ MaxMaps \in Nat /\ MaxBlocks \in Nat
  /\ Page > 1 /\ HeapBase > 0 /\ HeapBase < Word /\ MmapBase < Word /\ HeapBase % Page = 0
  /\ Lengths \subseteq 0..Word - 1 /\ Alignments \subseteq 1..Word - 1
<1>1. /\ Word \in Nat /\ Page \in Nat /\ Chunk \in Nat /\ HeapBase \in Nat /\ MmapBase \in Nat /\ MmapEnd \in Nat
      /\ MaxMaps \in Nat /\ MaxBlocks \in Nat
  BY MemoryAssumption
<1>2. MmapBase < Word
  BY <1>1, MemoryAssumption
<1> QED BY <1>1, <1>2, MemoryAssumption

\* What a quotient is.
LEMMA Quotient ==
  ASSUME NEW n \in Nat, NEW d \in Nat, d > 0
  PROVE  n \div d \in Nat /\ (n \div d) * d \in Nat /\ (n \div d) * d <= n /\ n < (n \div d) * d + d
<1>1. n \div d \in Nat
  OBVIOUS
<1>2. (n \div d) * d <= n /\ n < (n \div d) * d + d
  OBVIOUS
<1>3. \A a, b \in Nat : a * b \in Nat
  OBVIOUS
<1> QED BY <1>1, <1>2, <1>3

LEMMA Remainder ==
  ASSUME NEW x \in Nat, NEW w \in Nat, w > 0
  PROVE  /\ x % w \in 0..w - 1 /\ (x < w => x % w = x) /\ (w <= x /\ x < w + w => x % w = x - w)
<1>1. x % w \in 0..w - 1
  OBVIOUS
<1>2. x < w => x % w = x
  OBVIOUS
<1>3. w <= x /\ x < w + w => x % w = x - w
  OBVIOUS
<1> QED BY <1>1, <1>2, <1>3

\* Rounding up stays in the word, and rounds up unless the sum wraps.
LEMMA RoundsUp ==
  ASSUME NEW v \in Nat, NEW a \in Nat, a > 0
  PROVE  /\ AlignUp(v, a) \in 0..Word - 1
         /\ ~Wraps(v, a) => v <= AlignUp(v, a)
<1> DEFINE x == (v + a - 1) % Word
           q == x \div a
<1>1. Word \in Nat /\ Word > 0 /\ v + a - 1 \in Nat
  BY MemoryNumbers
<1>2. x \in 0..Word - 1 /\ (v + a - 1 < Word => x = v + a - 1)
  <2>1. \A y \in Nat : y % Word \in 0..Word - 1 /\ (y < Word => y % Word = y)
    BY <1>1, Remainder
  <2> HIDE DEF x
  <2>2. (v + a - 1) % Word \in 0..Word - 1 /\ (v + a - 1 < Word => (v + a - 1) % Word = v + a - 1)
    BY <1>1, <2>1
  <2> QED BY <2>2 DEF x
<1> HIDE DEF x
<1>3. x \in Nat /\ x <= Word - 1
  BY <1>1, <1>2
<1>4. q \in Nat /\ q * a \in Nat /\ q * a <= x /\ x < q * a + a
  BY <1>3, Quotient
<1>5. AlignUp(v, a) = q * a
  BY DEF AlignUp, x
<1> HIDE DEF q
<1>6. AlignUp(v, a) \in 0..Word - 1
  BY <1>1, <1>3, <1>4, <1>5
<1>7. ASSUME ~Wraps(v, a) PROVE v <= AlignUp(v, a)
  <2>1. x = v + a - 1
    BY <1>1, <1>2, <1>7 DEF Wraps
  <2>2. \A y, z \in Nat : y = v + a - 1 /\ y < z + a => v <= z
    OBVIOUS
  <2> QED BY <1>3, <1>4, <1>5, <2>1, <2>2
<1> QED BY <1>6, <1>7

\* Past the end of the word it is 0.
LEMMA RoundsOver ==
  ASSUME NEW v \in 0..Word - 1, Wraps(v, Page)
  PROVE  AlignUp(v, Page) = 0
<1> DEFINE x == (v + Page - 1) % Word
<1>1. Word \in Nat /\ Page \in Nat /\ Page > 1 /\ HeapBase \in Nat /\ HeapBase > 0 /\ HeapBase < Word /\ HeapBase % Page = 0
  BY MemoryNumbers
<1>2. Page <= Word
  <2>1. HeapBase < Page => HeapBase % Page = HeapBase
    BY <1>1, Remainder
  <2>2. ~(HeapBase < Page)
    BY <1>1, <2>1
  <2> QED BY <1>1, <2>2
<1>3. x = v + Page - 1 - Word
  <2>1. PICK y \in Nat : y = v + Page - 1
    BY <1>1
  <2>2. Word <= y /\ y < Word + Word
    BY <1>1, <1>2, <2>1 DEF Wraps
  <2>3. y % Word = y - Word
    BY <1>1, <2>2, Remainder
  <2>4. x = y % Word
    BY <2>1
  <2> HIDE DEF x
  <2> QED BY <1>1, <2>1, <2>3, <2>4
<1>4. x \in Nat /\ x < Page
  <2>1. v \in Nat /\ v <= Word - 1 /\ v + Page - 1 >= Word
    BY <1>1 DEF Wraps
  <2> HIDE DEF x
  <2> QED BY <1>1, <1>3, <2>1
<1>5. AlignUp(v, Page) = (x \div Page) * Page
  BY DEF AlignUp
<1> HIDE DEF x
<1>6. x \div Page = 0
  BY <1>1, <1>4
<1>7. 0 * Page = 0
  BY <1>1
<1> QED BY <1>5, <1>6, <1>7

LEMMA Saturates ==
  ASSUME NEW a \in Nat, NEW b \in Nat
  PROVE  Sat(a, b) \in 0..Word - 1 /\ (a + b < Word => Sat(a, b) = a + b) /\ (a < Word => a <= Sat(a, b))
<1>1. Word \in Nat /\ Word > 0
  BY MemoryNumbers
<1> QED BY <1>1 DEF Sat, Smaller

LEMMA LargerIs == ASSUME NEW a \in Nat, NEW b \in Nat PROVE Larger(a, b) \in {a, b} /\ a <= Larger(a, b) /\ b <= Larger(a, b)
BY DEF Larger

\* Pages count up; the pages of a range lie in it.
LEMMA PageOfIs ==
  ASSUME NEW x \in 0..Word - 1
  PROVE  /\ PageOf(x) \in Pages /\ PageOf(x) \in Nat
         /\ \A p \in Nat : p <= PageOf(x) => p \in Pages /\ p * Page \in Nat /\ p * Page <= x
         /\ HeapBase <= x => \A p \in Nat : PageOf(x) <= p => HeapBase <= p * Page
<1>1. Word \in Nat /\ Page \in Nat /\ Page > 1 /\ HeapBase \in Nat /\ HeapBase % Page = 0 /\ x \in Nat /\ Word - 1 \in Nat
  BY MemoryNumbers
<1>2. PageOf(x) \in Nat /\ PageOf(Word - 1) \in Nat /\ PageOf(HeapBase) \in Nat /\ PageOf(x) * Page <= x
  BY <1>1, Quotient DEF PageOf
<1>3. \A n, m \in Nat : n <= m => n \div Page <= m \div Page
  BY <1>1
<1>4. PageOf(x) <= PageOf(Word - 1)
  BY <1>1, <1>3 DEF PageOf
<1>5. \A a, b \in Nat : a <= b => a * Page <= b * Page /\ a * Page \in Nat /\ b * Page \in Nat
  BY <1>1
<1>6. ASSUME NEW p \in Nat, p <= PageOf(x) PROVE p \in Pages /\ p * Page \in Nat /\ p * Page <= x
  <2>1. p * Page <= PageOf(x) * Page /\ p * Page \in Nat /\ PageOf(x) * Page \in Nat
    BY <1>2, <1>5, <1>6
  <2>2. p \in Pages
    BY <1>2, <1>4, <1>6 DEF Pages
  <2> QED BY <1>1, <1>2, <2>1, <2>2
<1>7. ASSUME HeapBase <= x, NEW p \in Nat, PageOf(x) <= p PROVE HeapBase <= p * Page
  <2>1. HeapBase = PageOf(HeapBase) * Page
    BY <1>1 DEF PageOf
  <2>2. PageOf(HeapBase) <= PageOf(x)
    BY <1>1, <1>3, <1>7 DEF PageOf
  <2>3. PageOf(HeapBase) <= p
    BY <1>2, <1>7, <2>2
  <2> QED BY <1>2, <1>5, <2>1, <2>3
<1> QED BY <1>2, <1>6, <1>7

\* The numbers of pages and their addresses.
LEMMA PagesAre ==
  /\ \A p \in Pages : p \in Nat /\ p * Page \in Nat
  /\ \A p, a, b : p \in PagesIn(a, b) <=> p \in Pages /\ a <= p * Page /\ p * Page < b
<1>1. Page \in Nat /\ \A p \in Pages : p \in Nat
  BY MemoryNumbers DEF Pages
<1>2. \A a, b \in Nat : a * b \in Nat
  OBVIOUS
<1> QED BY <1>1, <1>2 DEF PagesIn

(***************************************************************************)
(* The heap.                                                               *)
(***************************************************************************)
Protections == {"none", "rw", "ro"}
BlocksIn == [at : 0..Word - 1, size : 0..Word - 1]
Heaps == [next : 0..Word - 1, until : 0..Word - 1, blocks : SUBSET BlocksIn, over : BOOLEAN]
\* A block lies behind the base and ends before the pointer and in the mapping.
BlockOK(h, b) == HeapBase <= b.at /\ 1 <= b.size /\ b.at + b.size <= h.next /\ b.at + b.size <= h.until
TwoApart(b, c) == b = c \/ b.at + b.size <= c.at \/ c.at + c.size <= b.at
BlocksOK(h) == /\ HeapBase <= h.next /\ \A b \in h.blocks : BlockOK(h, b)
               /\ \A b, c \in h.blocks : TwoApart(b, c)
HeapPages(h) == PagesIn(HeapBase, h.until)
\* The first of some regions that holds a page has a protection; none holds it.
FirstHas(s, p, q) == \E i \in 1..Len(s) : /\ Holds(s[i], p) /\ s[i].prot = q
                                       /\ \A j \in 1..i - 1 : ~Holds(s[j], p)
NoneHolds(s, p) == \A i \in 1..Len(s) : ~Holds(s[i], p)
Mapped(h, pg, rg) == \A p \in Pages : pg[p] # "none" => p \in HeapPages(h) \/ FirstHas(rg, p, pg[p])
HeapOK(h, pg, tn) == /\ h \in Heaps /\ pg \in [Pages -> Protections] /\ HeapBase <= h.until
                     /\ \A p \in HeapPages(h) : pg[p] # "none" \/ p \in tn
                     /\ ~h.over => BlocksOK(h)

\* What hooks ask the heap for.
Asks == {a \in [align : 1..Word - 1, take : 0..Word - 1, size : 0..Word - 1, fill : BOOLEAN, over : BOOLEAN] :
           ~a.over => 1 <= a.size /\ a.size <= a.take}

LEMMA AsksAre ==
  ASSUME NEW n \in Lengths \cup {0}
  PROVE  /\ \A al \in Alignments \cup {1} : Rounded(n, al) \in Asks /\ Rounded(n, al).align = al
         /\ \A f \in BOOLEAN : Plain(n, f) \in Asks /\ Plain(n, f).align = 1 /\ Plain(n, f).size = Larger(n, 1)
<1>1. Word \in Nat /\ Page \in Nat /\ Page > 1 /\ 1 < Word /\ n \in Nat /\ n <= Word - 1
  BY MemoryNumbers
<1>2. Larger(n, 1) \in Nat /\ 1 <= Larger(n, 1) /\ Larger(n, 1) \in 0..Word - 1
  BY <1>1 DEF Larger
<1>3. ASSUME NEW al \in Alignments \cup {1} PROVE Rounded(n, al) \in Asks /\ Rounded(n, al).align = al
  <2> DEFINE s == AlignUp(Larger(n, 1), al)
             t == AlignUp(s, Page)
             v == Wraps(Larger(n, 1), al) \/ Wraps(s, Page)
  <2>1. al \in 1..Word - 1 /\ al \in Nat /\ al > 0
    BY <1>1, MemoryNumbers
  <2>2. s \in 0..Word - 1 /\ (~Wraps(Larger(n, 1), al) => Larger(n, 1) <= s)
    BY <1>2, <2>1, RoundsUp
  <2>3. s \in Nat
    BY <1>1, <2>2
  <2> HIDE DEF s
  <2>4. t \in 0..Word - 1 /\ (~Wraps(s, Page) => s <= t)
    BY <1>1, <2>3, RoundsUp
  <2>5. v \in BOOLEAN
    BY DEF Wraps
  <2>6. Rounded(n, al) = [align |-> al, take |-> t, size |-> s, fill |-> TRUE, over |-> v]
    BY DEF Rounded, s
  <2>7. ~v => 1 <= s /\ s <= t
    BY <1>2, <2>2, <2>3, <2>4
  <2> HIDE DEF t, v
  <2> QED BY <2>1, <2>2, <2>4, <2>5, <2>6, <2>7 DEF Asks
<1>4. ASSUME NEW f \in BOOLEAN
      PROVE  Plain(n, f) \in Asks /\ Plain(n, f).align = 1 /\ Plain(n, f).size = Larger(n, 1)
  <2> DEFINE s == Larger(n, 1)
             t == AlignUp(s, Page)
             v == Wraps(s, Page)
  <2>1. t \in 0..Word - 1 /\ (~Wraps(s, Page) => s <= t)
    BY <1>1, <1>2, RoundsUp
  <2>2. v \in BOOLEAN
    BY DEF Wraps
  <2>3. Plain(n, f) = [align |-> 1, take |-> t, size |-> s, fill |-> f, over |-> v]
    BY DEF Plain
  <2>4. ~v => 1 <= s /\ s <= t
    BY <1>2, <2>1
  <2>5. 1 \in 1..Word - 1 /\ s \in 0..Word - 1
    BY <1>1, <1>2
  <2> HIDE DEF s, t, v
  <2>6. Plain(n, f) \in Asks /\ Plain(n, f).align = 1 /\ Plain(n, f).size = s
    BY <2>1, <2>2, <2>3, <2>4, <2>5 DEF Asks
  <2> QED BY <2>6 DEF s
<1> QED BY <1>3, <1>4

\* Where the mapping ends once it succeeds: no earlier than it did, and behind
\* what was asked for unless that is at the end of the word.
LEMMA MapEndIs ==
  ASSUME NEW h \in Heaps, NEW pg, NEW at \in 0..Word - 1, NEW take \in 0..Word - 1, Mappable(h, pg, at, take)
  PROVE  /\ MapEnd(h, at, take) \in 0..Word - 1 /\ h.until <= MapEnd(h, at, take)
         /\ at + take < Word - Page => at + take <= MapEnd(h, at, take)
<1> DEFINE e == AlignUp(Sat(at, take), Page)
           v == Larger(e, Sat(h.until, Chunk))
           to == MapEnd(h, at, take)
<1>1. Word \in Nat /\ Page \in Nat /\ Page > 1 /\ Chunk \in Nat /\ at \in Nat /\ take \in Nat
      /\ h.until \in Nat /\ h.until \in 0..Word - 1
  BY MemoryNumbers DEF Heaps
<1>2. Sat(at, take) \in 0..Word - 1 /\ (at + take < Word => Sat(at, take) = at + take)
      /\ Sat(h.until, Chunk) \in 0..Word - 1
  BY <1>1, Saturates
<1>3. e \in 0..Word - 1 /\ (at + take < Word - Page => at + take <= e)
  <2>1. Sat(at, take) \in Nat
    BY <1>1, <1>2
  <2>2. e \in 0..Word - 1 /\ (~Wraps(Sat(at, take), Page) => Sat(at, take) <= e)
    BY <1>1, <2>1, RoundsUp
  <2>3. at + take < Word - Page => Sat(at, take) = at + take /\ ~Wraps(Sat(at, take), Page)
    <3>1. at + take < Word - Page => Sat(at, take) = at + take
      BY <1>1, <1>2
    <3>2. at + take < Word - Page => ~(at + take + Page - 1 >= Word)
      BY <1>1
    <3> QED BY <3>1, <3>2 DEF Wraps
  <2> HIDE DEF e
  <2> QED BY <2>2, <2>3
<1>4. h.until >= e => to = h.until
  BY DEF MapEnd
<1>5. ~(h.until >= e) => to = AlignUp(v, Page) /\ h.until < to
  BY DEF MapEnd, Mappable
<1> HIDE DEF e, to
<1>6. v \in 0..Word - 1 /\ v \in Nat /\ e <= v
  <2>1. e \in Nat /\ Sat(h.until, Chunk) \in Nat
    BY <1>1, <1>2, <1>3
  <2>2. v \in {e, Sat(h.until, Chunk)} /\ e <= v
    BY <2>1, LargerIs
  <2> QED BY <1>1, <1>2, <1>3, <2>1, <2>2
<1> HIDE DEF v
<1>7. CASE h.until >= e
  <2>1. at + take < Word - Page => at + take <= h.until
    <3>1. e \in Nat /\ at + take \in Nat
      BY <1>1, <1>3
    <3> QED BY <1>1, <1>3, <1>7, <3>1
  <2> QED BY <1>1, <1>4, <1>7, <2>1 DEF to
<1>8. CASE ~(h.until >= e)
  <2>1. AlignUp(v, Page) \in 0..Word - 1 /\ (~Wraps(v, Page) => v <= AlignUp(v, Page))
    BY <1>1, <1>6, RoundsUp
  <2>2. to \in 0..Word - 1 /\ to \in Nat /\ h.until < to
    BY <1>1, <1>5, <1>8, <2>1
  <2>3. ~Wraps(v, Page)
    <3>1. Wraps(v, Page) => to = 0
      BY <1>5, <1>6, <1>8, RoundsOver
    <3>2. to # 0
      BY <1>1, <2>2
    <3> QED BY <3>1, <3>2
  <2>4. e <= to
    <3>1. e \in Nat /\ v <= to
      BY <1>1, <1>3, <1>5, <1>8, <2>1, <2>3
    <3> QED BY <1>6, <2>2, <3>1
  <2>5. at + take < Word - Page => at + take <= to
    <3>1. e \in Nat /\ at + take \in Nat
      BY <1>1, <1>3
    <3> QED BY <1>1, <1>3, <2>2, <2>4, <3>1
  <2> QED BY <1>1, <2>2, <2>5 DEF to
<1> QED BY <1>7, <1>8

HeapOf(n, u, b, o) == [next |-> n, until |-> u, blocks |-> b, over |-> o]

LEMMA HeapIs == ASSUME NEW h \in Heaps PROVE h = HeapOf(h.next, h.until, h.blocks, h.over)
BY DEF Heaps, HeapOf

SetNext(h, x) == [h EXCEPT !.next = x]
SetUntil(h, x) == [h EXCEPT !.until = x]
SetBlocks(h, x) == [h EXCEPT !.blocks = x]
SetOver(h, x) == [h EXCEPT !.over = x]
LEMMA HeapChanges ==
  ASSUME NEW n, NEW u, NEW b, NEW o, NEW x
  PROVE  /\ SetNext(HeapOf(n, u, b, o), x) = HeapOf(x, u, b, o)
         /\ SetUntil(HeapOf(n, u, b, o), x) = HeapOf(n, x, b, o)
         /\ SetBlocks(HeapOf(n, u, b, o), x) = HeapOf(n, u, x, o)
         /\ SetOver(HeapOf(n, u, b, o), x) = HeapOf(n, u, b, x)
BY DEF HeapOf, SetNext, SetUntil, SetBlocks, SetOver

LEMMA HeapFields ==
  ASSUME NEW n, NEW u, NEW b, NEW o
  PROVE  /\ HeapOf(n, u, b, o).next = n /\ HeapOf(n, u, b, o).until = u /\ HeapOf(n, u, b, o).blocks = b
         /\ HeapOf(n, u, b, o).over = o
         /\ n \in 0..Word - 1 /\ u \in 0..Word - 1 /\ b \subseteq BlocksIn /\ o \in BOOLEAN => HeapOf(n, u, b, o) \in Heaps
BY DEF HeapOf, Heaps

\* What an allocation makes of the blocks.
Recording(B, at, size) == {b \in B : b.at # at} \cup {[at |-> at, size |-> size]}
LEMMA RecordedIs ==
  ASSUME NEW h \in Heaps, NEW at, NEW size
  PROVE  Recorded(h, at, size) = HeapOf(h.next, h.until, Recording(h.blocks, at, size), h.over)
<1>1. h = HeapOf(h.next, h.until, h.blocks, h.over)
  BY HeapIs
<1>2. Recorded(h, at, size) = SetBlocks(h, Recording(h.blocks, at, size))
  BY DEF Recorded, Recording, SetBlocks
<1>3. SetBlocks(HeapOf(h.next, h.until, h.blocks, h.over), Recording(h.blocks, at, size))
        = HeapOf(h.next, h.until, Recording(h.blocks, at, size), h.over)
  BY HeapChanges
<1> QED BY <1>1, <1>2, <1>3

LEMMA WithoutIs ==
  ASSUME NEW h \in Heaps, NEW old
  PROVE  Without(h, old) = HeapOf(h.next, h.until, {b \in h.blocks : b.at # old}, h.over)
<1>1. h = HeapOf(h.next, h.until, h.blocks, h.over)
  BY HeapIs
<1>2. Without(h, old) = SetBlocks(h, {b \in h.blocks : b.at # old})
  BY DEF Without, SetBlocks
<1>3. SetBlocks(HeapOf(h.next, h.until, h.blocks, h.over), {b \in h.blocks : b.at # old})
        = HeapOf(h.next, h.until, {b \in h.blocks : b.at # old}, h.over)
  BY HeapChanges
<1> QED BY <1>1, <1>2, <1>3

Overs(h, ask, at) == \/ h.over \/ ask.over \/ Wraps(h.next, ask.align)
                     \/ at + ask.take >= Word - Page
Mapping(pg, from, to) == [p \in Pages |-> IF p \in PagesIn(from, to) THEN "rw" ELSE pg[p]]

\* An attempt in one piece.
LEMMA AttemptIs ==
  ASSUME NEW s, s.heap \in Heaps, NEW ask \in Asks
  PROVE  LET h == s.heap
             at == AlignUp(h.next, ask.align)
             to == MapEnd(h, at, ask.take)
             t == Attempt(s, ask)
         IN IF Mappable(h, s.pages, at, ask.take)
            THEN /\ t.heap = HeapOf(Sat(at, ask.take), to, Recording(h.blocks, at, ask.size), Overs(h, ask, at))
                 /\ t.pages = Mapping(s.pages, h.until, to) /\ t.got = at
            ELSE /\ t.heap = HeapOf(Sat(at, ask.take), h.until, h.blocks, Overs(h, ask, at))
                 /\ t.pages = s.pages /\ t.got = 0
<1> DEFINE h == s.heap
           at == AlignUp(h.next, ask.align)
           to == MapEnd(h, at, ask.take)
           n == Sat(at, ask.take)
           o == Overs(h, ask, at)
           b0 == Bumped(h, at, ask.take, ask.size)
           moved == [b0 EXCEPT !.over = @ \/ ask.over \/ Wraps(h.next, ask.align) \/ at + ask.take >= Word - Page]
           grown == [moved EXCEPT !.until = to]
           ok == Mappable(h, s.pages, at, ask.take)
<1>1. h \in Heaps /\ h = HeapOf(h.next, h.until, h.blocks, h.over)
  BY HeapIs
<1>2. at \in 0..Word - 1 /\ n \in 0..Word - 1 /\ o \in BOOLEAN
  <2>1. h.next \in Nat /\ ask.align \in Nat /\ ask.align > 0 /\ ask.take \in Nat
    BY MemoryNumbers DEF Heaps, Asks
  <2>2. at \in 0..Word - 1
    BY <2>1, RoundsUp
  <2>3. at \in Nat
    BY <2>2, MemoryNumbers
  <2>4. n \in 0..Word - 1
    <3> HIDE DEF at
    <3> QED BY <2>1, <2>3, Saturates
  <2> QED BY <2>2, <2>4 DEF Overs
<1>3. b0 = HeapOf(n, h.until, h.blocks, h.over)
  <2>1. b0 = SetNext(h, n)
    BY DEF Bumped, SetNext
  <2>2. SetNext(HeapOf(h.next, h.until, h.blocks, h.over), n) = HeapOf(n, h.until, h.blocks, h.over)
    BY HeapChanges
  <2> HIDE DEF b0, n
  <2> QED BY <1>1, <2>1, <2>2
<1>4. moved = HeapOf(n, h.until, h.blocks, o)
  <2>1. b0.over = h.over
    BY <1>3, HeapFields
  <2>2. moved = [b0 EXCEPT !.over = b0.over \/ ask.over \/ Wraps(h.next, ask.align) \/ at + ask.take >= Word - Page]
    OBVIOUS
  <2>3. moved = SetOver(b0, o)
    <3> HIDE DEF b0
    <3> QED BY <2>1, <2>2 DEF Overs, SetOver
  <2>4. SetOver(HeapOf(n, h.until, h.blocks, h.over), o) = HeapOf(n, h.until, h.blocks, o)
    BY HeapChanges
  <2> HIDE DEF b0, moved, n, o
  <2> QED BY <1>3, <2>3, <2>4
<1>5. grown = HeapOf(n, to, h.blocks, o)
  <2>1. SetUntil(HeapOf(n, h.until, h.blocks, o), to) = HeapOf(n, to, h.blocks, o)
    BY HeapChanges
  <2>2. grown = SetUntil(moved, to)
    BY DEF SetUntil
  <2> HIDE DEF moved, n, o, to, grown
  <2> QED BY <1>4, <2>1, <2>2
<1>6. Attempt(s, ask) = IF ok
                        THEN [heap |-> Recorded(grown, at, ask.size),
                              pages |-> Mapping(s.pages, h.until, to), got |-> at]
                        ELSE [heap |-> moved, pages |-> s.pages, got |-> 0]
  BY DEF Attempt, Mapping
<1>7. ASSUME ok PROVE Recorded(grown, at, ask.size) = HeapOf(n, to, Recording(h.blocks, at, ask.size), o)
  <2>1. to \in 0..Word - 1
    <3>1. ask.take \in 0..Word - 1
      BY DEF Asks
    <3> HIDE DEF at, h
    <3> QED BY <1>1, <1>2, <1>7, <3>1, MapEndIs
  <2>2. h.blocks \subseteq BlocksIn
    BY DEF Heaps
  <2> HIDE DEF n, to, o, moved, at, grown
  <2>3. HeapOf(n, to, h.blocks, o) \in Heaps
    BY <1>2, <2>1, <2>2, HeapFields
  <2>4. Recorded(HeapOf(n, to, h.blocks, o), at, ask.size) = HeapOf(n, to, Recording(h.blocks, at, ask.size), o)
    BY <2>3, RecordedIs, HeapFields
  <2> QED BY <1>5, <2>4
<1> HIDE DEF n, to, o, moved, at, ok, h, b0, grown
<1>8. CASE ok
  BY <1>6, <1>7, <1>8 DEF n, to, o, at, ok, h
<1>9. CASE ~ok
  BY <1>4, <1>6, <1>9 DEF n, to, o, at, ok, h
<1> QED BY <1>8, <1>9 DEF ok, h, at

HeapFits(h, pg, rg, tn) == HeapOK(h, pg, tn) /\ Mapped(h, pg, rg)
States == [heap : Heaps, pages : [Pages -> Protections], got : 0..Word - 1]

\* A block that begins behind all the others ends behind none of them.
LEMMA RecordingKeeps ==
  ASSUME NEW h \in Heaps, BlocksOK(h), NEW at \in 0..Word - 1, NEW size \in 0..Word - 1,
         NEW take \in 0..Word - 1, NEW to \in 0..Word - 1, NEW n \in 0..Word - 1, NEW o,
         h.next <= at, 1 <= size, size <= take, h.until <= to, n = at + take, at + take <= to
  PROVE  BlocksOK(HeapOf(n, to, Recording(h.blocks, at, size), o))
<1> DEFINE new == [at |-> at, size |-> size]
           B == Recording(h.blocks, at, size)
<1>1. HeapBase \in Nat /\ h.next \in Nat /\ h.until \in Nat /\ at \in Nat /\ size \in Nat /\ take \in Nat
      /\ to \in Nat /\ n \in Nat /\ HeapBase <= h.next
  BY MemoryNumbers DEF Heaps, BlocksOK
<1>2. ASSUME NEW b \in h.blocks
      PROVE  /\ b.at \in Nat /\ b.size \in Nat /\ HeapBase <= b.at /\ 1 <= b.size /\ b.at + b.size <= h.next
             /\ b.at + b.size <= h.until
  <2>1. b.at \in Nat /\ b.size \in Nat
    BY MemoryNumbers DEF Heaps, BlocksIn
  <2> QED BY <2>1 DEF BlocksOK, BlockOK
<1>3. new.at = at /\ new.size = size
  OBVIOUS
<1>4. \A b \in B : b \in h.blocks \/ b = new
  BY DEF Recording
<1> HIDE DEF new, B
<1>5. ASSUME NEW b \in B PROVE HeapBase <= b.at /\ 1 <= b.size /\ b.at + b.size <= n /\ b.at + b.size <= to
  <2>1. CASE b \in h.blocks
    <3>1. b.at + b.size \in Nat
      BY <1>2, <2>1
    <3> QED BY <1>1, <1>2, <2>1, <3>1
  <2>2. CASE b = new
    BY <1>1, <1>3, <2>2
  <2> QED BY <1>4, <2>1, <2>2
<1>6. ASSUME NEW b \in h.blocks PROVE b.at + b.size <= at
  <2>1. b.at + b.size \in Nat
    BY <1>2
  <2> QED BY <1>1, <1>2, <2>1
<1>7. ASSUME NEW b \in B, NEW c \in B PROVE TwoApart(b, c)
  <2>1. CASE b \in h.blocks /\ c \in h.blocks
    BY <2>1 DEF BlocksOK
  <2>2. CASE b \in h.blocks /\ c = new
    BY <1>3, <1>6, <2>2 DEF TwoApart
  <2>3. CASE b = new /\ c \in h.blocks
    BY <1>3, <1>6, <2>3 DEF TwoApart
  <2>4. CASE b = new /\ c = new
    BY <2>4 DEF TwoApart
  <2> QED BY <1>4, <2>1, <2>2, <2>3, <2>4
<1>8. HeapBase <= n
  BY <1>1
<1> QED BY <1>5, <1>7, <1>8, HeapFields DEF BlocksOK, BlockOK, B

\* Fewer blocks are apart as well.
LEMMA FewerBlocks ==
  ASSUME NEW h \in Heaps, NEW B, B \subseteq h.blocks, NEW pg, NEW rg, NEW tn, HeapFits(h, pg, rg, tn)
  PROVE  HeapFits(HeapOf(h.next, h.until, B, h.over), pg, rg, tn)
<1> DEFINE g == HeapOf(h.next, h.until, B, h.over)
<1>1. g.next = h.next /\ g.until = h.until /\ g.blocks = B /\ g.over = h.over
  BY HeapFields
<1>2. g \in Heaps
  BY HeapFields DEF Heaps
<1> HIDE DEF g
<1>3. HeapPages(g) = HeapPages(h)
  BY <1>1 DEF HeapPages
<1>4. BlocksOK(h) => BlocksOK(g)
  BY <1>1 DEF BlocksOK, BlockOK
<1>5. HeapOK(g, pg, tn)
  BY <1>1, <1>2, <1>3, <1>4 DEF HeapFits, HeapOK
<1>6. Mapped(g, pg, rg)
  BY <1>3 DEF HeapFits, Mapped
<1> QED BY <1>5, <1>6 DEF HeapFits, g

\* The heap after an attempt, mapped or refused.
LEMMA AttemptKeeps ==
  ASSUME NEW s \in States, NEW rg, NEW tn, HeapFits(s.heap, s.pages, rg, tn), NEW ask \in Asks
  PROVE  /\ Attempt(s, ask).heap \in Heaps /\ Attempt(s, ask).pages \in [Pages -> Protections]
         /\ Attempt(s, ask).got \in 0..Word - 1
         /\ HeapFits(Attempt(s, ask).heap, Attempt(s, ask).pages, rg, tn)
         /\ Attempt(s, ask).got # 0 =>
              [at |-> Attempt(s, ask).got, size |-> ask.size] \in Attempt(s, ask).heap.blocks
<1> DEFINE h == s.heap
           at == AlignUp(h.next, ask.align)
           to == MapEnd(h, at, ask.take)
           n == Sat(at, ask.take)
           o == Overs(h, ask, at)
           t == Attempt(s, ask)
           B == Recording(h.blocks, at, ask.size)
           P == Mapping(s.pages, h.until, to)
           ok == Mappable(h, s.pages, at, ask.take)
<1>1. h \in Heaps /\ s.pages \in [Pages -> Protections] /\ HeapOK(h, s.pages, tn) /\ Mapped(h, s.pages, rg)
  BY DEF States, HeapFits
<1>2. /\ Word \in Nat /\ Page \in Nat /\ HeapBase \in Nat
      /\ h.next \in Nat /\ h.until \in 0..Word - 1 /\ h.until \in Nat /\ h.blocks \subseteq BlocksIn
      /\ h.over \in BOOLEAN
      /\ ask.align \in Nat /\ ask.align > 0 /\ ask.take \in 0..Word - 1 /\ ask.take \in Nat
      /\ ask.size \in 0..Word - 1 /\ ask.size \in Nat
      /\ (~ask.over => 1 <= ask.size /\ ask.size <= ask.take)
  BY <1>1, MemoryNumbers DEF Heaps, Asks
<1>3. at \in 0..Word - 1 /\ at \in Nat /\ (~Wraps(h.next, ask.align) => h.next <= at)
  <2>1. at \in 0..Word - 1 /\ (~Wraps(h.next, ask.align) => h.next <= at)
    BY <1>2, RoundsUp
  <2> HIDE DEF at
  <2> QED BY <1>2, <2>1
<1>4. n \in 0..Word - 1 /\ (at + ask.take < Word => n = at + ask.take) /\ at <= n
  <2>1. at < Word
    BY <1>2, <1>3
  <2> HIDE DEF at
  <2> QED BY <1>2, <1>3, <2>1, Saturates
<1>5. o \in BOOLEAN
  BY DEF Overs
<1>6. ASSUME ~o
      PROVE  /\ ~h.over /\ ~ask.over /\ h.next <= at /\ n = at + ask.take
             /\ at + ask.take < Word - Page
  <2>1. ~h.over /\ ~ask.over /\ ~Wraps(h.next, ask.align) /\ ~(at + ask.take >= Word - Page)
    BY <1>6 DEF Overs
  <2> HIDE DEF at, n
  <2>2. at + ask.take < Word - Page /\ at + ask.take < Word
    BY <1>2, <1>3, <2>1
  <2> QED BY <1>3, <1>4, <2>1, <2>2
<1>7. ok => to \in 0..Word - 1 /\ h.until <= to /\ (at + ask.take < Word - Page => at + ask.take <= to)
  <2> HIDE DEF at, h
  <2> QED BY <1>1, <1>2, <1>3, MapEndIs
<1>8. IF ok THEN t.heap = HeapOf(n, to, B, o) /\ t.pages = P /\ t.got = at
      ELSE t.heap = HeapOf(n, h.until, h.blocks, o) /\ t.pages = s.pages /\ t.got = 0
  BY <1>1, AttemptIs
<1>9. /\ HeapBase <= h.until /\ \A p \in HeapPages(h) : s.pages[p] # "none" \/ p \in tn
      /\ (~h.over => BlocksOK(h))
  BY <1>1 DEF HeapOK
<1> HIDE DEF h, at, to, n, o, t, B, P, ok
<1>10. CASE ok
  <2>1. h.until <= to /\ to \in 0..Word - 1 /\ to \in Nat
    BY <1>2, <1>7, <1>10
  <2>2. B \subseteq BlocksIn /\ [at |-> at, size |-> ask.size] \in B
    BY <1>2, <1>3 DEF B, Recording, BlocksIn
  <2>3. t.heap \in Heaps /\ t.heap.until = to /\ t.heap.over = o /\ t.heap.blocks = B
    BY <1>4, <1>5, <1>8, <1>10, <2>1, <2>2, HeapFields
  <2>4. /\ P \in [Pages -> Protections]
        /\ \A p \in Pages : P[p] = IF p \in PagesIn(h.until, to) THEN "rw" ELSE s.pages[p]
    BY <1>1 DEF P, Mapping, Protections
  <2>5. \A p \in Pages : p \in HeapPages(t.heap) <=> p \in HeapPages(h) \/ p \in PagesIn(h.until, to)
    <3>1. \A p \in Pages : p * Page \in Nat
      BY PagesAre
    <3>2. \A x \in Nat : HeapBase <= x /\ x < to <=> (HeapBase <= x /\ x < h.until) \/ (h.until <= x /\ x < to)
      BY <1>2, <1>9, <2>1
    <3> QED BY <2>3, <3>1, <3>2, PagesAre DEF HeapPages
  <2>6. \A p \in HeapPages(t.heap) : p \in Pages
    BY DEF HeapPages, PagesIn
  <2>7. \A p \in HeapPages(t.heap) : P[p] # "none" \/ p \in tn
    BY <1>9, <2>4, <2>5, <2>6
  <2>8. HeapBase <= to
    BY <1>2, <1>9, <2>1
  <2>9. ASSUME ~o PROVE BlocksOK(t.heap)
    <3>1. BlocksOK(h)
      BY <1>6, <1>9, <2>9
    <3>2. h.next <= at /\ n = at + ask.take /\ at + ask.take <= to /\ 1 <= ask.size /\ ask.size <= ask.take
      BY <1>2, <1>6, <1>7, <1>10, <2>9
    <3>3. BlocksOK(HeapOf(n, to, Recording(h.blocks, at, ask.size), o))
      BY <1>1, <1>2, <1>3, <1>4, <2>1, <3>1, <3>2, RecordingKeeps
    <3> QED BY <1>8, <1>10, <3>3 DEF B
  <2>10. HeapOK(t.heap, t.pages, tn)
    BY <1>8, <1>10, <2>3, <2>4, <2>7, <2>8, <2>9 DEF HeapOK
  <2>11. Mapped(t.heap, t.pages, rg)
    BY <1>1, <1>8, <1>10, <2>4, <2>5 DEF Mapped
  <2> QED BY <1>3, <1>8, <1>10, <2>2, <2>3, <2>4, <2>10, <2>11 DEF HeapFits, t
<1>11. CASE ~ok
  <2>1. t.heap \in Heaps /\ t.heap.next = n /\ t.heap.until = h.until /\ t.heap.over = o /\ t.heap.blocks = h.blocks
    BY <1>2, <1>4, <1>5, <1>8, <1>11, HeapFields
  <2>2. HeapPages(t.heap) = HeapPages(h)
    BY <2>1 DEF HeapPages
  <2>3. ASSUME ~o PROVE BlocksOK(t.heap)
    <3>1. BlocksOK(h) /\ h.next <= at /\ at <= n /\ n \in Nat
      BY <1>2, <1>4, <1>6, <1>9, <2>3
    <3>2. h.next <= n /\ HeapBase <= n
      BY <1>2, <1>3, <3>1 DEF BlocksOK
    <3>3. ASSUME NEW b \in h.blocks PROVE BlockOK(t.heap, b)
      <4>1. BlockOK(h, b)
        BY <3>1 DEF BlocksOK
      <4>2. b.at + b.size \in Nat
        BY <1>2, MemoryNumbers DEF BlocksIn
      <4> QED BY <1>2, <2>1, <3>1, <3>2, <4>1, <4>2 DEF BlockOK
    <3> QED BY <2>1, <3>1, <3>2, <3>3 DEF BlocksOK
  <2>4. HeapOK(t.heap, t.pages, tn)
    BY <1>1, <1>8, <1>9, <1>11, <2>1, <2>2, <2>3 DEF HeapOK
  <2>5. Mapped(t.heap, t.pages, rg)
    BY <1>1, <1>8, <1>11, <2>2 DEF Mapped
  <2>6. 0 \in 0..Word - 1
    BY <1>2, <1>3
  <2> QED BY <1>1, <1>8, <1>11, <2>1, <2>4, <2>5, <2>6 DEF HeapFits, t
<1> QED BY <1>10, <1>11

\* What a state of the heap needs for a hook to be called in it, and keeps.
GoodState(s, rg, tn) == s \in States /\ HeapFits(s.heap, s.pages, rg, tn)

LEMMA AttemptIsGood ==
  ASSUME NEW s, NEW rg, NEW tn, GoodState(s, rg, tn), NEW ask \in Asks
  PROVE  /\ GoodState(Attempt(s, ask), rg, tn)
         /\ Attempt(s, ask).got # 0 =>
              [at |-> Attempt(s, ask).got, size |-> ask.size] \in Attempt(s, ask).heap.blocks
<1> DEFINE t == Attempt(s, ask)
<1>1. /\ t.heap \in Heaps /\ t.pages \in [Pages -> Protections] /\ t.got \in 0..Word - 1
      /\ HeapFits(t.heap, t.pages, rg, tn)
      /\ t.got # 0 => [at |-> t.got, size |-> ask.size] \in t.heap.blocks
  BY AttemptKeeps DEF GoodState
<1>2. t = [heap |-> t.heap, pages |-> t.pages, got |-> t.got]
  BY DEF Attempt
<1> HIDE DEF t
<1>3. t \in States
  BY <1>1, <1>2 DEF States
<1> QED BY <1>1, <1>3 DEF GoodState, t

LEMMA TwiceIsGood ==
  ASSUME NEW rg, NEW tn, GoodState(Here, rg, tn), NEW ask \in Asks, NEW again \in Asks
  PROVE  GoodState(Twice(ask, again), rg, tn)
<1>1. GoodState(Attempt(Here, ask), rg, tn)
  BY AttemptIsGood
<1>2. GoodState(Attempt(Attempt(Here, ask), again), rg, tn)
  BY <1>1, AttemptIsGood
<1> QED BY <1>1, <1>2 DEF Twice

LEMMA SettlesGood ==
  ASSUME NEW s, GoodState(s, regions, torn), Settle(s)
  PROVE  heap' \in Heaps /\ pages' \in [Pages -> Protections] /\ HeapFits(heap', pages', regions', torn')
BY DEF Settle, GoodState, States

\* Every step of the heap hooks.
LEMMA HeapStepKeeps ==
  ASSUME heap \in Heaps, pages \in [Pages -> Protections], HeapFits(heap, pages, regions, torn), HeapStep
  PROVE  /\ heap' \in Heaps /\ pages' \in [Pages -> Protections] /\ HeapFits(heap', pages', regions', torn')
         /\ regions' = regions /\ mmapNext' = mmapNext /\ torn' = torn
<1> DEFINE Kept == /\ heap' \in Heaps /\ pages' \in [Pages -> Protections] /\ HeapFits(heap', pages', regions', torn')
                   /\ regions' = regions /\ mmapNext' = mmapNext /\ torn' = torn
           Good(s) == GoodState(s, regions, torn)
<1>1. Good(Here) /\ Here.heap = heap
  <2>1. 0 \in 0..Word - 1
    BY MemoryNumbers
  <2> QED BY <2>1 DEF Here, States, GoodState
<1>2. ASSUME NEW s, Good(s), Settle(s) PROVE Kept
  BY <1>2, SettlesGood DEF Settle
<1>3. ASSUME NEW ask \in Asks, NEW again \in Asks PROVE Good(Twice(ask, again)) /\ Good(Attempt(Here, ask))
  BY <1>1, AttemptIsGood, TwiceIsGood
<1> HIDE DEF Kept
<1>4. ASSUME NEW k \in Lengths, Malloc(k) PROVE Kept
  <2>1. Rounded(k, 1) \in Asks /\ Rounded(0, 1) \in Asks
    BY AsksAre
  <2> QED BY <1>2, <1>3, <1>4, <2>1 DEF Malloc
<1>5. ASSUME NEW k \in Lengths, OperatorNew(k) PROVE Kept
  <2>1. Rounded(k, 1) \in Asks
    BY AsksAre
  <2> QED BY <1>2, <1>3, <1>5, <2>1 DEF OperatorNew
<1>6. ASSUME NEW k \in Lengths, Calloc(k) PROVE Kept
  <2>1. Plain(k, TRUE) \in Asks /\ Plain(0, TRUE) \in Asks
    BY AsksAre
  <2> QED BY <1>2, <1>3, <1>6, <2>1 DEF Calloc
<1>7. ASSUME NEW k \in Lengths, NEW al \in Alignments, PosixMemalign(al, k) PROVE Kept
  <2>1. Rounded(k, al) \in Asks
    BY AsksAre
  <2> QED BY <1>2, <1>3, <1>7, <2>1 DEF PosixMemalign
<1>8. ASSUME NEW b \in heap.blocks, Free(b) PROVE Kept
  <2> DEFINE B == heap.blocks \ {b}
  <2>1. heap' = SetBlocks(heap, B)
    BY <1>8 DEF Free, SetBlocks
  <2>2. heap = HeapOf(heap.next, heap.until, heap.blocks, heap.over)
    BY HeapIs
  <2>3. SetBlocks(HeapOf(heap.next, heap.until, heap.blocks, heap.over), B)
          = HeapOf(heap.next, heap.until, B, heap.over)
    BY HeapChanges
  <2>4. B \subseteq heap.blocks
    OBVIOUS
  <2> HIDE DEF B
  <2>5. heap' = HeapOf(heap.next, heap.until, B, heap.over)
    BY <2>1, <2>2, <2>3
  <2>6. HeapFits(HeapOf(heap.next, heap.until, B, heap.over), pages, regions, torn)
    BY <2>4, FewerBlocks
  <2>7. HeapOf(heap.next, heap.until, B, heap.over) \in Heaps
    BY <2>6 DEF HeapFits, HeapOK
  <2> QED BY <1>8, <2>5, <2>6, <2>7 DEF Kept, Free
<1>9. ASSUME NEW b \in heap.blocks, NEW k \in Lengths, Realloc(b.at, k) PROVE Kept
  <2> DEFINE ask == Plain(k, FALSE)
             s == Twice(ask, ask)
             w == Without(s.heap, b.at)
             g == Recorded(w, s.got, Larger(k, 1))
             kept == [s EXCEPT !.heap = g]
             first == Attempt(Here, ask)
  <2>1. ask \in Asks /\ ask.size = Larger(k, 1)
    BY AsksAre
  <2>2. Good(s) /\ Good(first)
    BY <1>3, <2>1
  <2>3. Settle(IF s.got # 0 /\ first.got # 0 THEN kept ELSE s)
    <3>1. s.heap = s.heap
      OBVIOUS
    <3>2. kept = [s EXCEPT !.heap = Recorded(Without(@, b.at), s.got, Larger(k, 1))]
      OBVIOUS
    <3> HIDE DEF kept
    <3> QED BY <1>9, <3>2 DEF Realloc
  <2>4. ASSUME s.got # 0, first.got # 0 PROVE Good(kept)
    <3>1. s = first
      BY <2>4 DEF Twice
    <3>2. [at |-> s.got, size |-> Larger(k, 1)] \in s.heap.blocks
      <4>1. first.got # 0 => [at |-> first.got, size |-> ask.size] \in first.heap.blocks
        BY <1>1, <2>1, AttemptIsGood
      <4> HIDE DEF first, s, ask
      <4> QED BY <2>1, <2>4, <3>1, <4>1
    <3> HIDE DEF s, first, ask
    <3>3. s \in States /\ s.heap \in Heaps /\ HeapFits(s.heap, s.pages, regions, torn)
      BY <2>2 DEF GoodState, States
    <3> DEFINE u == s.heap
               C == {c \in u.blocks : c.at # b.at}
               D == Recording(C, s.got, Larger(k, 1))
    <3>4. w = HeapOf(u.next, u.until, C, u.over)
      BY <3>3, WithoutIs
    <3>5. w \in Heaps /\ w.next = u.next /\ w.until = u.until /\ w.blocks = C /\ w.over = u.over
      <4>1. u.next \in 0..Word - 1 /\ u.until \in 0..Word - 1 /\ C \subseteq BlocksIn /\ u.over \in BOOLEAN
        BY <3>3 DEF Heaps
      <4> HIDE DEF u, C, w
      <4> QED BY <3>4, <4>1, HeapFields
    <3> HIDE DEF w, C
    <3>6. g = HeapOf(w.next, w.until, Recording(w.blocks, s.got, Larger(k, 1)), w.over)
      BY <3>5, RecordedIs
    <3>7. g = HeapOf(u.next, u.until, D, u.over)
      BY <3>5, <3>6
    <3>8. D \subseteq u.blocks
      BY <3>2 DEF C, Recording
    <3> HIDE DEF g, D
    <3>9. HeapFits(g, s.pages, regions, torn)
      <4>1. HeapFits(HeapOf(u.next, u.until, D, u.over), s.pages, regions, torn)
        BY <3>3, <3>8, FewerBlocks
      <4> QED BY <3>7, <4>1
    <3>10. g \in Heaps
      BY <3>9 DEF HeapFits, HeapOK
    <3>11. kept \in States /\ kept.heap = g /\ kept.pages = s.pages
      BY <3>3, <3>10 DEF States
    <3> QED BY <3>9, <3>11 DEF GoodState
  <2> HIDE DEF s, kept, first, ask
  <2>5. CASE s.got # 0 /\ first.got # 0
    <3>1. Settle(kept) /\ Good(kept)
      BY <2>3, <2>4, <2>5
    <3> QED BY <1>2, <3>1
  <2>6. CASE ~(s.got # 0 /\ first.got # 0)
    <3>1. Settle(s)
      BY <2>3, <2>6
    <3> QED BY <1>2, <2>2, <3>1
  <2> QED BY <2>5, <2>6
<1>10. Kept
  BY <1>4, <1>5, <1>6, <1>7, <1>8, <1>9 DEF HeapStep
<1> QED BY <1>10 DEF Kept

(***************************************************************************)
(* Regions.                                                                *)
(***************************************************************************)
RegionSet == [start : 0..Word - 1, end : 0..Word - 1, prot : {"rw", "ro"}]

LEMMA RegionIs ==
  ASSUME NEW a \in 0..Word - 1, NEW b \in 0..Word - 1, NEW q \in {"rw", "ro"}
  PROVE  Region(a, b, q) \in RegionSet
BY DEF Region, RegionSet

\* The first region that holds a page, of lists of one and of two parts.
LEMMA FirstOfOne ==
  ASSUME NEW r, NEW p
  PROVE  /\ Holds(r, p) => FirstHas(<<r>>, p, r.prot)
         /\ ~Holds(r, p) => NoneHolds(<<r>>, p)
         /\ NoneHolds(<<>>, p)
<1>1. Len(<<r>>) = 1 /\ <<r>>[1] = r /\ 1..1 = {1} /\ 1..0 = {} /\ Len(<<>>) = 0 /\ 1 \in 1..1 /\ 1 - 1 = 0
  OBVIOUS
<1>2. \A i \in 1..Len(<<r>>) : i = 1
  BY <1>1
<1>3. Holds(r, p) => FirstHas(<<r>>, p, r.prot)
  BY <1>1 DEF FirstHas
<1>4. ~Holds(r, p) => NoneHolds(<<r>>, p)
  BY <1>1, <1>2 DEF NoneHolds
<1> QED BY <1>1, <1>3, <1>4 DEF NoneHolds

LEMMA FirstOfTwo ==
  ASSUME NEW S, NEW s \in Seq(S), NEW t \in Seq(S), NEW p
  PROVE  /\ \A q : FirstHas(s, p, q) => FirstHas(s \o t, p, q)
         /\ \A q : NoneHolds(s, p) /\ FirstHas(t, p, q) => FirstHas(s \o t, p, q)
         /\ NoneHolds(s, p) /\ NoneHolds(t, p) => NoneHolds(s \o t, p)
<1> DEFINE k == Len(s)
           l == Len(t)
           u == s \o t
<1>1. k \in Nat /\ l \in Nat
  BY LenProperties
<1>2. u \in Seq(S) /\ Len(u) = k + l /\ \A i \in 1..k + l : u[i] = IF i <= k THEN s[i] ELSE t[i - k]
  BY ConcatProperties
<1> HIDE DEF u, k, l
<1>3. \A i \in 1..k : i \in 1..k + l /\ u[i] = s[i]
  BY <1>1, <1>2
<1>4. \A i \in 1..l : k + i \in 1..k + l /\ u[k + i] = t[i]
  <2>1. ASSUME NEW i \in 1..l PROVE k + i \in 1..k + l /\ ~(k + i <= k) /\ (k + i) - k = i
    BY <1>1
  <2> QED BY <1>2, <2>1
<1>5. \A i \in 1..k + l : i \in 1..k \/ \E j \in 1..l : i = k + j
  <2>1. ASSUME NEW i \in 1..k + l, i \notin 1..k PROVE i - k \in 1..l /\ i = k + (i - k)
    BY <1>1, <2>1
  <2> QED BY <2>1
<1>6. ASSUME NEW q, FirstHas(s, p, q) PROVE FirstHas(u, p, q)
  <2>1. PICK i \in 1..k : Holds(s[i], p) /\ s[i].prot = q /\ \A j \in 1..i - 1 : ~Holds(s[j], p)
    BY <1>6 DEF FirstHas, k
  <2>2. \A j \in 1..i - 1 : j \in 1..k
    BY <1>1
  <2> QED BY <1>2, <1>3, <2>1, <2>2 DEF FirstHas
<1>7. ASSUME NEW q, NoneHolds(s, p), FirstHas(t, p, q) PROVE FirstHas(u, p, q)
  <2>1. PICK i \in 1..l : Holds(t[i], p) /\ t[i].prot = q /\ \A j \in 1..i - 1 : ~Holds(t[j], p)
    BY <1>7 DEF FirstHas, l
  <2>2. ASSUME NEW j \in 1..(k + i) - 1 PROVE ~Holds(u[j], p)
    <3>1. j \in 1..k + l
      BY <1>1
    <3>2. CASE j \in 1..k
      BY <1>3, <1>7, <3>2 DEF NoneHolds, k
    <3>3. CASE j \notin 1..k
      <4>1. PICK m \in 1..l : j = k + m
        BY <1>5, <3>1, <3>3
      <4>2. m \in 1..i - 1
        BY <1>1, <4>1
      <4> QED BY <1>4, <2>1, <4>1, <4>2
    <3> QED BY <3>2, <3>3
  <2> QED BY <1>2, <1>4, <2>1, <2>2 DEF FirstHas
<1>8. ASSUME NoneHolds(s, p), NoneHolds(t, p) PROVE NoneHolds(u, p)
  BY <1>2, <1>3, <1>4, <1>5, <1>8 DEF NoneHolds, k, l
<1> QED BY <1>6, <1>7, <1>8 DEF u

\* Of a list flattened from pieces, of which the n-th has the first.
LEMMA FirstOfFlat ==
  ASSUME NEW S, NEW k \in Nat, NEW seqs, Len(seqs) = k, \A i \in 1..k : seqs[i] \in Seq(S),
         NEW p, NEW q, NEW n \in 1..k, \A j \in 1..n - 1 : NoneHolds(seqs[j], p), FirstHas(seqs[n], p, q)
  PROVE  FirstHas(FlattenSeq(seqs), p, q)
<1> DEFINE Good == [i \in 1..k |-> {s \in Seq(S) : IF i < n THEN NoneHolds(s, p) ELSE FirstHas(s, p, q)}]
<1>1. k # 0
  OBVIOUS
<1>2. PICK g : Flattens(seqs, g, k)
  BY <1>1, FlatSteps, Zenon
<1>3. g[1] \in Good[1]
  <2>1. 1 \in 1..k /\ (1 < n => 1 \in 1..n - 1) /\ (~(1 < n) => n = 1)
    OBVIOUS
  <2>2. g[1] = seqs[1] /\ seqs[1] \in Seq(S)
    BY <1>2, <2>1 DEF Flattens
  <2> QED BY <2>1, <2>2
<1>4. ASSUME NEW i \in 2..k, g[i - 1] \in Good[i - 1] PROVE g[i] \in Good[i]
  <2>1. i \in 1..k /\ i - 1 \in 1..k
    OBVIOUS
  <2>2. g[i - 1] \in Seq(S) /\ seqs[i] \in Seq(S)
        /\ IF i - 1 < n THEN NoneHolds(g[i - 1], p) ELSE FirstHas(g[i - 1], p, q)
    BY <1>4, <2>1
  <2>3. g[i] = g[i - 1] \o seqs[i]
    BY <1>2 DEF Flattens
  <2>4. g[i - 1] \o seqs[i] \in Seq(S)
    BY <2>2, ConcatProperties
  <2>5. IF i < n THEN NoneHolds(g[i - 1] \o seqs[i], p) ELSE FirstHas(g[i - 1] \o seqs[i], p, q)
    <3>1. CASE i < n
      <4>1. i - 1 < n /\ i \in 1..n - 1
        BY <3>1
      <4> QED BY <2>2, <3>1, <4>1, FirstOfTwo
    <3>2. CASE i = n
      <4>1. i - 1 < n /\ ~(i < n)
        BY <3>2
      <4> QED BY <2>2, <3>2, <4>1, FirstOfTwo
    <3>3. CASE n < i
      <4>1. ~(i - 1 < n) /\ ~(i < n)
        BY <3>3
      <4> QED BY <2>2, <4>1, FirstOfTwo
    <3> QED BY <3>1, <3>2, <3>3
  <2> QED BY <2>1, <2>3, <2>4, <2>5
<1> HIDE DEF Good
<1>5. \A i \in 1..k : g[i] \in Good[i]
  BY <1>1, <1>3, <1>4, EachNext
<1>6. k \in 1..k /\ ~(k < n)
  OBVIOUS
<1>7. FirstHas(g[k], p, q)
  BY <1>5, <1>6 DEF Good
<1> QED BY <1>2, <1>7 DEF Flattens

\* The list of the pieces that each region is cut into.
LEMMA CutRegions ==
  ASSUME NEW S, NEW rg \in Seq(S), NEW pieces, DOMAIN pieces = DOMAIN rg,
         pieces \in [DOMAIN rg -> Seq(S)]
  PROVE  /\ FlattenSeq(pieces) \in Seq(S)
         /\ \A p, q : \A n \in 1..Len(rg) :
              (\A j \in 1..n - 1 : NoneHolds(pieces[j], p)) /\ FirstHas(pieces[n], p, q)
                => FirstHas(FlattenSeq(pieces), p, q)
<1> DEFINE k == Len(rg)
<1>1. k \in Nat /\ DOMAIN rg = 1..k
  BY LenProperties
<1>2. pieces \in Seq(Seq(S)) /\ Len(pieces) = k
  <2>1. pieces \in [1..k -> Seq(S)]
    BY <1>1
  <2>2. pieces \in Seq(Seq(S))
    BY <1>1, <2>1
  <2>3. Len(pieces) \in Nat /\ DOMAIN pieces = 1..Len(pieces)
    BY <2>2, LenProperties
  <2>4. ASSUME NEW m \in Nat, 1..m = 1..k PROVE m = k
    <3>1. (m # 0 => m \in 1..m) /\ (k # 0 => k \in 1..k)
      BY <1>1
    <3>2. \A i : (i \in 1..m => i <= m /\ m # 0) /\ (i \in 1..k => i <= k /\ k # 0)
      BY <1>1
    <3> HIDE DEF k
    <3> QED BY <1>1, <2>4, <3>1, <3>2
  <2> QED BY <1>1, <2>2, <2>3, <2>4
<1>3. k = 0 => pieces = <<>>
  BY <1>2, EmptySeq
<1>4. \A i \in 1..k : pieces[i] \in Seq(S)
  BY <1>1
<1> HIDE DEF k
<1>5. FlattenSeq(pieces) \in Seq(S)
  BY <1>1, <1>2, <1>3, <1>4, FlatIsSeq
<1>6. ASSUME NEW p, NEW q, NEW n \in 1..k, \A j \in 1..n - 1 : NoneHolds(pieces[j], p),
             FirstHas(pieces[n], p, q)
      PROVE  FirstHas(FlattenSeq(pieces), p, q)
  BY <1>1, <1>2, <1>4, <1>6, FirstOfFlat
<1> QED BY <1>5, <1>6 DEF k

\* A piece that may be left out.
Piece(c, x) == IF c THEN <<x>> ELSE <<>>
LEMMA PieceIs ==
  ASSUME NEW S, NEW c \in BOOLEAN, NEW x, c => x \in S, NEW p
  PROVE  /\ Piece(c, x) \in Seq(S) /\ (c /\ Holds(x, p) => FirstHas(Piece(c, x), p, x.prot))
         /\ (~(c /\ Holds(x, p)) => NoneHolds(Piece(c, x), p))
<1>1. <<>> \in Seq(S)
  BY EmptySeq
<1>2. c => <<x>> \in Seq(S)
  OBVIOUS
<1> QED BY <1>1, <1>2, FirstOfOne DEF Piece

\* What munmap leaves of a region holds what it held outside of the hole.
LEMMA SplitIs ==
  ASSUME NEW r \in RegionSet, NEW a \in 0..Word - 1, NEW b \in 0..Word - 1, a <= b
  PROVE  /\ Split(r, a, b) \in Seq(RegionSet)
         /\ \A p \in Pages : p \notin PagesIn(a, b) =>
              /\ Holds(r, p) => FirstHas(Split(r, a, b), p, r.prot)
              /\ ~Holds(r, p) => NoneHolds(Split(r, a, b), p)
<1> DEFINE x == Region(r.start, a, r.prot)
           y == Region(b, r.end, r.prot)
           s == Piece(a > r.start, x)
           t == Piece(b < r.end, y)
<1>1. r.start \in 0..Word - 1 /\ r.end \in 0..Word - 1 /\ r.prot \in {"rw", "ro"}
      /\ r.start \in Nat /\ r.end \in Nat /\ a \in Nat /\ b \in Nat
  BY MemoryNumbers DEF RegionSet
<1>2. x \in RegionSet /\ y \in RegionSet /\ (a > r.start) \in BOOLEAN /\ (b < r.end) \in BOOLEAN
  BY <1>1, RegionIs
<1>3. s \in Seq(RegionSet) /\ t \in Seq(RegionSet)
  BY <1>2, PieceIs
<1>4. CASE ~Overlaps(r, a, b)
  <2>1. Split(r, a, b) = <<r>> /\ <<r>> \in Seq(RegionSet)
    BY <1>4 DEF Split
  <2> QED BY <2>1, FirstOfOne
<1>5. CASE Overlaps(r, a, b)
  <2>1. b > r.start /\ a < r.end
    BY <1>1, <1>5 DEF Overlaps
  <2>2. Split(r, a, b) = s \o t
    BY <1>5 DEF Split, Piece
  <2>3. s \o t \in Seq(RegionSet)
    BY <1>3, ConcatProperties
  <2>4. ASSUME NEW p \in Pages, p \notin PagesIn(a, b)
        PROVE  /\ Holds(r, p) => FirstHas(s \o t, p, r.prot)
               /\ ~Holds(r, p) => NoneHolds(s \o t, p)
    <3>1. p * Page \in Nat /\ (p * Page < a \/ b <= p * Page)
      BY <1>1, <2>4, PagesAre
    <3>2. /\ Holds(x, p) <=> r.start <= p * Page /\ p * Page < a
          /\ Holds(y, p) <=> b <= p * Page /\ p * Page < r.end
          /\ Holds(r, p) <=> r.start <= p * Page /\ p * Page < r.end
          /\ x.prot = r.prot /\ y.prot = r.prot
      BY DEF Holds, Region
    <3> HIDE DEF x, y, s, t
    <3>3. /\ a > r.start /\ Holds(x, p) => FirstHas(s, p, r.prot)
          /\ ~(a > r.start /\ Holds(x, p)) => NoneHolds(s, p)
          /\ b < r.end /\ Holds(y, p) => FirstHas(t, p, r.prot)
          /\ ~(b < r.end /\ Holds(y, p)) => NoneHolds(t, p)
      BY <1>2, <3>2, PieceIs DEF s, t
    <3>4. CASE Holds(r, p) /\ p * Page < a
      <4>1. FirstHas(s, p, r.prot)
        BY <1>1, <3>1, <3>2, <3>3, <3>4
      <4> QED BY <1>3, <3>4, <4>1, FirstOfTwo
    <3>5. CASE Holds(r, p) /\ b <= p * Page
      <4>1. NoneHolds(s, p) /\ FirstHas(t, p, r.prot)
        BY <1>1, <3>1, <3>2, <3>3, <3>5
      <4> QED BY <1>3, <3>5, <4>1, FirstOfTwo
    <3>6. CASE ~Holds(r, p)
      <4>1. NoneHolds(s, p) /\ NoneHolds(t, p)
        BY <1>1, <2>1, <3>1, <3>2, <3>3, <3>6
      <4> QED BY <1>3, <3>6, <4>1, FirstOfTwo
    <3> QED BY <3>1, <3>4, <3>5, <3>6
  <2> QED BY <2>2, <2>3, <2>4
<1> QED BY <1>4, <1>5

\* What mprotect makes of one holds the same, with its protection in the range.
LEMMA RecutIs ==
  ASSUME NEW r \in RegionSet, NEW a \in 0..Word - 1, NEW b \in 0..Word - 1, a <= b, NEW q \in {"rw", "ro"}
  PROVE  /\ Recut(r, a, b, q) \in Seq(RegionSet)
         /\ \A p \in Pages :
              /\ Holds(r, p) => FirstHas(Recut(r, a, b, q), p, IF p \in PagesIn(a, b) THEN q ELSE r.prot)
                                /\ (p \in PagesIn(a, b) => Overlaps(r, a, b))
              /\ ~Holds(r, p) => NoneHolds(Recut(r, a, b, q), p)
<1> DEFINE x == Region(r.start, a, r.prot)
           y == Region(b, r.end, r.prot)
           c == Larger(a, r.start)
           d == Smaller(b, r.end)
           z == Region(c, d, q)
           s == Piece(a > r.start, x)
           t == Piece(b < r.end, y)
           u == <<z>>
<1>1. r.start \in 0..Word - 1 /\ r.end \in 0..Word - 1 /\ r.prot \in {"rw", "ro"}
      /\ r.start \in Nat /\ r.end \in Nat /\ a \in Nat /\ b \in Nat
  BY MemoryNumbers DEF RegionSet
<1>2. /\ c \in 0..Word - 1 /\ d \in 0..Word - 1 /\ c \in Nat /\ d \in Nat
      /\ \A n \in Nat : c <= n /\ n < d <=> a <= n /\ r.start <= n /\ n < b /\ n < r.end
  BY <1>1 DEF Larger, Smaller
<1> HIDE DEF c, d
<1>3. x \in RegionSet /\ y \in RegionSet /\ z \in RegionSet
      /\ (a > r.start) \in BOOLEAN /\ (b < r.end) \in BOOLEAN
  BY <1>1, <1>2, RegionIs
<1>4. s \in Seq(RegionSet) /\ t \in Seq(RegionSet) /\ u \in Seq(RegionSet)
  <2>1. s \in Seq(RegionSet) /\ t \in Seq(RegionSet)
    BY <1>3, PieceIs
  <2>2. u \in Seq(RegionSet)
    <3> HIDE DEF z
    <3> QED BY <1>3
  <2> QED BY <2>1, <2>2
<1>5. CASE ~Overlaps(r, a, b)
  <2>1. Recut(r, a, b, q) = <<r>> /\ <<r>> \in Seq(RegionSet)
    BY <1>5 DEF Recut
  <2>2. ASSUME NEW p \in Pages, Holds(r, p) PROVE p \notin PagesIn(a, b)
    <3>1. p * Page \in Nat /\ r.start <= p * Page /\ p * Page < r.end
      BY <2>2, PagesAre DEF Holds
    <3>2. ~(a <= p * Page /\ p * Page < b)
      BY <1>1, <1>5, <3>1 DEF Overlaps
    <3> QED BY <3>2, PagesAre
  <2> QED BY <2>1, <2>2, FirstOfOne
<1>6. CASE Overlaps(r, a, b)
  <2>1. b > r.start /\ a < r.end
    BY <1>1, <1>6 DEF Overlaps
  <2>2. Recut(r, a, b, q) = s \o u \o t
    BY <1>6 DEF Recut, Piece, c, d
  <2>3. s \o u \in Seq(RegionSet)
    BY <1>4, ConcatProperties
  <2>4. s \o u \o t \in Seq(RegionSet)
    BY <1>4, <2>3, ConcatProperties
  <2>5. ASSUME NEW p \in Pages
        PROVE  /\ Holds(r, p) => FirstHas(s \o u \o t, p, IF p \in PagesIn(a, b) THEN q ELSE r.prot)
               /\ ~Holds(r, p) => NoneHolds(s \o u \o t, p)
    <3>1. p * Page \in Nat /\ (p \in PagesIn(a, b) <=> a <= p * Page /\ p * Page < b)
      BY <2>5, PagesAre
    <3>2. /\ Holds(x, p) <=> r.start <= p * Page /\ p * Page < a
          /\ Holds(y, p) <=> b <= p * Page /\ p * Page < r.end
          /\ Holds(z, p) <=> c <= p * Page /\ p * Page < d
          /\ Holds(r, p) <=> r.start <= p * Page /\ p * Page < r.end
          /\ x.prot = r.prot /\ y.prot = r.prot /\ z.prot = q
      BY DEF Holds, Region
    <3> HIDE DEF x, y, z, s, t, u
    <3>3. /\ a > r.start /\ Holds(x, p) => FirstHas(s, p, r.prot)
          /\ ~(a > r.start /\ Holds(x, p)) => NoneHolds(s, p)
          /\ b < r.end /\ Holds(y, p) => FirstHas(t, p, r.prot)
          /\ ~(b < r.end /\ Holds(y, p)) => NoneHolds(t, p)
      BY <1>3, <3>2, PieceIs DEF s, t
    <3>4. (Holds(z, p) => FirstHas(u, p, q)) /\ (~Holds(z, p) => NoneHolds(u, p))
      BY <3>2, FirstOfOne DEF u
    <3>5. Holds(z, p) <=> a <= p * Page /\ r.start <= p * Page /\ p * Page < b /\ p * Page < r.end
      BY <1>2, <3>1, <3>2
    <3>6. CASE Holds(r, p) /\ p * Page < a
      <4>1. FirstHas(s, p, r.prot) /\ p \notin PagesIn(a, b)
        BY <1>1, <3>1, <3>2, <3>3, <3>6
      <4>2. FirstHas(s \o u, p, r.prot)
        BY <1>4, <4>1, FirstOfTwo
      <4>3. FirstHas(s \o u \o t, p, r.prot)
        BY <1>4, <2>3, <4>2, FirstOfTwo
      <4> QED BY <3>6, <4>1, <4>3
    <3>7. CASE Holds(r, p) /\ a <= p * Page /\ p * Page < b
      <4>1. NoneHolds(s, p) /\ FirstHas(u, p, q) /\ p \in PagesIn(a, b)
        BY <1>1, <3>1, <3>2, <3>3, <3>4, <3>5, <3>7
      <4>2. FirstHas(s \o u, p, q)
        BY <1>4, <4>1, FirstOfTwo
      <4>3. FirstHas(s \o u \o t, p, q)
        BY <1>4, <2>3, <4>2, FirstOfTwo
      <4> QED BY <3>7, <4>1, <4>3
    <3>8. CASE Holds(r, p) /\ b <= p * Page
      <4>1. NoneHolds(s, p) /\ NoneHolds(u, p) /\ FirstHas(t, p, r.prot) /\ p \notin PagesIn(a, b)
        BY <1>1, <3>1, <3>2, <3>3, <3>4, <3>5, <3>8
      <4>2. NoneHolds(s \o u, p)
        BY <1>4, <4>1, FirstOfTwo
      <4>3. FirstHas(s \o u \o t, p, r.prot)
        BY <1>4, <2>3, <4>1, <4>2, FirstOfTwo
      <4> QED BY <3>8, <4>1, <4>3
    <3>9. CASE ~Holds(r, p)
      <4>1. NoneHolds(s, p) /\ NoneHolds(u, p) /\ NoneHolds(t, p)
        BY <1>1, <2>1, <3>1, <3>2, <3>3, <3>4, <3>5, <3>9
      <4>2. NoneHolds(s \o u, p)
        BY <1>4, <4>1, FirstOfTwo
      <4>3. NoneHolds(s \o u \o t, p)
        BY <1>4, <2>3, <4>1, <4>2, FirstOfTwo
      <4> QED BY <3>9, <4>3
    <3>10. p * Page < a \/ (a <= p * Page /\ p * Page < b) \/ b <= p * Page
      BY <1>1, <3>1
    <3> QED BY <3>6, <3>7, <3>8, <3>9, <3>10
  <2> QED BY <1>6, <2>2, <2>4, <2>5
<1> QED BY <1>5, <1>6

\* The range a call is about: page addresses in the word, in order.
LEMMA RangeIs ==
  /\ \A a \in 0..Word - 1 : Floor(a) \in 0..Word - 1 /\ Floor(a) <= a
  /\ \A a \in 0..Word - 1 : \A n \in Nat : EndOf(a, n) \in 0..Word - 1 /\ Floor(a) <= EndOf(a, n)
  /\ \A n \in Lengths : Whole(n) \in Nat
  /\ \A p \in Pages : p * Page \in 0..Word - 1
<1>1. Word \in Nat /\ Page \in Nat /\ Page > 1 /\ Word - 1 \in 0..Word - 1 /\ Page - 1 \in Nat
  BY MemoryNumbers
<1>2. \A a \in Nat : Floor(a) \in Nat /\ Floor(a) <= a
  BY <1>1, Quotient DEF Floor
<1>3. \A a \in 0..Word - 1 : a \in Nat /\ a < Word /\ Floor(a) \in 0..Word - 1 /\ Floor(a) <= a
  <2>1. \A a \in 0..Word - 1 : a \in Nat /\ a < Word
    BY <1>1
  <2> QED BY <1>1, <1>2, <2>1
<1>4. ASSUME NEW a \in Nat, NEW b \in Nat, a <= b PROVE Floor(a) <= Floor(b)
  <2>1. a \div Page <= b \div Page /\ a \div Page \in Nat /\ b \div Page \in Nat
    BY <1>1, <1>4
  <2>2. \A x, y \in Nat : x <= y => x * Page <= y * Page
    BY <1>1
  <2> QED BY <2>1, <2>2 DEF Floor
<1>5. ASSUME NEW a \in 0..Word - 1, NEW n \in Nat PROVE EndOf(a, n) \in 0..Word - 1 /\ Floor(a) <= EndOf(a, n)
  <2>1. PICK x : x = Sat(a, n)
    OBVIOUS
  <2>2. x \in 0..Word - 1 /\ a <= x
    BY <1>3, <2>1, Saturates
  <2>3. PICK y : y = Sat(x, Page - 1)
    OBVIOUS
  <2>4. y \in 0..Word - 1 /\ x <= y
    BY <1>1, <1>3, <2>2, <2>3, Saturates
  <2>5. a \in Nat /\ x \in Nat /\ y \in Nat /\ a <= y
    BY <1>3, <2>2, <2>4
  <2> QED BY <1>3, <1>4, <2>1, <2>3, <2>4, <2>5 DEF EndOf
<1>6. ASSUME NEW n \in Lengths PROVE Whole(n) \in Nat
  <2>1. n \in Nat
    BY <1>3, MemoryNumbers
  <2>2. Larger(n, Page) \in Nat
    BY <1>1, <2>1 DEF Larger
  <2>3. AlignUp(Larger(n, Page), Page) \in 0..Word - 1
    BY <1>1, <2>2, RoundsUp
  <2> QED BY <1>3, <2>3 DEF Whole
<1>7. ASSUME NEW p \in Pages PROVE p * Page \in 0..Word - 1
  <2>1. p \in Nat /\ p <= PageOf(Word - 1) /\ p * Page \in Nat
    BY PagesAre DEF Pages
  <2>2. p * Page <= Word - 1
    BY <1>1, <2>1, PageOfIs
  <2> QED BY <1>1, <2>1, <2>2
<1> QED BY <1>3, <1>5, <1>6, <1>7

\* What all states keep: as long as no sum of an address or a size left the
\* word, the blocks lie behind the base in front of the pointer and the end of
\* the mapping, and apart; a page of the mapping is mapped or was torn out; and
\* any other page that is mapped has what the first region that holds it has.
MInv ==
  /\ HeapOK(heap, pages, torn) /\ Mapped(heap, pages, regions)
  /\ regions \in Seq(RegionSet) /\ mmapNext \in 0..Word - 1 /\ torn \subseteq Pages

LEMMA MInitInv == MInit => MInv
<1> SUFFICES ASSUME MInit PROVE MInv
  OBVIOUS
<1>1. Word \in Nat /\ HeapBase \in Nat /\ HeapBase \in 0..Word - 1 /\ MmapBase \in 0..Word - 1
  BY MemoryNumbers
<1>2. heap = HeapOf(HeapBase, HeapBase, {}, FALSE)
  BY DEF MInit, HeapOf
<1>3. heap \in Heaps /\ heap.next = HeapBase /\ heap.until = HeapBase /\ heap.blocks = {} /\ ~heap.over
  <2>1. {} \subseteq BlocksIn /\ FALSE \in BOOLEAN
    OBVIOUS
  <2>2. heap \in Heaps
    BY <1>1, <1>2, <2>1, HeapFields
  <2> QED BY <2>2 DEF MInit
<1>4. pages \in [Pages -> Protections] /\ \A p \in Pages : pages[p] = "none"
  BY DEF MInit, Protections
<1>5. \A p : p \notin HeapPages(heap)
  <2>1. \A p \in Pages : p * Page \in Nat
    BY PagesAre
  <2>2. \A x \in Nat : ~(HeapBase <= x /\ x < HeapBase)
    BY <1>1
  <2> QED BY <1>3, <2>1, <2>2, PagesAre DEF HeapPages
<1>6. BlocksOK(heap)
  BY <1>1, <1>3 DEF BlocksOK
<1>7. HeapOK(heap, pages, torn)
  BY <1>1, <1>3, <1>4, <1>5, <1>6 DEF HeapOK
<1>8. Mapped(heap, pages, regions)
  BY <1>4 DEF Mapped
<1>9. regions \in Seq(RegionSet) /\ mmapNext \in 0..Word - 1 /\ torn \subseteq Pages
  BY <1>1, EmptySeq DEF MInit
<1> QED BY <1>7, <1>8, <1>9 DEF MInv

\* A region that is appended decides no page that one before it holds.
LEMMA AppendKeeps ==
  ASSUME NEW S, NEW rg \in Seq(S), NEW r \in S, NEW p
  PROVE  /\ Append(rg, r) \in Seq(S)
         /\ \A q : FirstHas(rg, p, q) => FirstHas(Append(rg, r), p, q)
<1>1. Append(rg, r) = rg \o <<r>> /\ <<r>> \in Seq(S)
  OBVIOUS
<1>2. rg \o <<r>> \in Seq(S)
  BY <1>1, ConcatProperties
<1> QED BY <1>1, <1>2, FirstOfTwo

LEMMA MmapKeeps ==
  ASSUME MInv, NEW n \in Lengths, NEW hint \in Nat, Mmap(hint, n)
  PROVE  MInv'
<1> DEFINE len == Whole(n)
           at == AlignUp(IF hint = 0 THEN mmapNext ELSE hint, Page)
           r == Region(Floor(at), EndOf(at, len), "rw")
<1>1. Word \in Nat /\ Word > 0 /\ Page \in Nat /\ Page > 0 /\ mmapNext \in Nat
  BY MemoryNumbers DEF MInv
<1>2. len \in Nat
  BY RangeIs
<1>3. at \in 0..Word - 1
  <2>1. (IF hint = 0 THEN mmapNext ELSE hint) \in Nat
    BY <1>1
  <2> QED BY <1>1, <2>1, RoundsUp
<1> HIDE DEF at, len
<1>4. r \in RegionSet
  BY <1>2, <1>3, RangeIs, RegionIs
<1> HIDE DEF r
<1>5. mmapNext' \in 0..Word - 1
  <2>1. mmapNext + len \in Nat
    BY <1>1, <1>2
  <2>2. (mmapNext + len) % Word \in 0..Word - 1
    BY <1>1, <2>1, Remainder
  <2>3. mmapNext' = IF hint = 0 THEN (mmapNext + len) % Word ELSE mmapNext
    BY DEF Mmap, len
  <2> QED BY <2>2, <2>3 DEF MInv
<1>6. regions' = regions \/ regions' = Append(regions, r)
  BY DEF Mmap, len, at, r
<1>7. regions' \in Seq(RegionSet) /\ \A p, q : FirstHas(regions, p, q) => FirstHas(regions', p, q)
  <2>1. regions \in Seq(RegionSet)
    BY DEF MInv
  <2> QED BY <1>4, <1>6, <2>1, AppendKeeps
<1>8. heap' = heap /\ pages' = pages /\ torn' = torn
  BY DEF Mmap
<1>9. Mapped(heap', pages', regions')
  BY <1>7, <1>8 DEF MInv, Mapped
<1> QED BY <1>5, <1>7, <1>8, <1>9 DEF MInv

LEMMA MunmapKeeps ==
  ASSUME MInv, NEW a \in 0..Word - 1, NEW n \in Lengths, Munmap(a, n), mmapNext' = mmapNext
  PROVE  MInv'
<1> DEFINE from == Floor(a)
           to == EndOf(a, Whole(n))
           pieces == [i \in DOMAIN regions |-> Split(regions[i], from, to)]
<1>1. from \in 0..Word - 1 /\ to \in 0..Word - 1 /\ from <= to
  BY RangeIs
<1>2. /\ regions' = FlattenSeq(pieces)
      /\ pages' = [p \in Pages |-> IF p \in PagesIn(from, to) THEN "none" ELSE pages[p]]
      /\ torn' = torn \cup (PagesIn(from, to) \cap PagesIn(HeapBase, heap.until))
      /\ heap' = heap
  BY DEF Munmap
<1> HIDE DEF from, to
<1>3. regions \in Seq(RegionSet) /\ pages \in [Pages -> Protections]
  BY DEF MInv, HeapOK
<1>4. DOMAIN regions = 1..Len(regions) /\ \A i \in DOMAIN regions : regions[i] \in RegionSet
  BY <1>3, LenProperties, ElementOfSeq
<1>5. pieces \in [DOMAIN regions -> Seq(RegionSet)]
  BY <1>1, <1>4, SplitIs
<1>6. \A i \in DOMAIN regions : pieces[i] = Split(regions[i], from, to)
  OBVIOUS
<1> HIDE DEF pieces
<1>7. regions' \in Seq(RegionSet)
  BY <1>2, <1>3, <1>5, CutRegions
<1>8. ASSUME NEW p \in Pages, NEW q, p \notin PagesIn(from, to), FirstHas(regions, p, q) PROVE FirstHas(regions', p, q)
  <2>1. PICK i \in 1..Len(regions) : /\ Holds(regions[i], p) /\ regions[i].prot = q
                                     /\ \A j \in 1..i - 1 : ~Holds(regions[j], p)
    BY <1>8 DEF FirstHas
  <2>2. FirstHas(pieces[i], p, q)
    BY <1>1, <1>4, <1>6, <1>8, <2>1, SplitIs
  <2>3. ASSUME NEW j \in 1..i - 1 PROVE NoneHolds(pieces[j], p)
    <3>1. j \in 1..Len(regions)
      BY <1>3, LenProperties
    <3> QED BY <1>1, <1>4, <1>6, <1>8, <2>1, <3>1, SplitIs
  <2> QED BY <1>2, <1>3, <1>5, <2>2, <2>3, CutRegions
<1>9. pages' \in [Pages -> Protections]
  BY <1>2, <1>3 DEF Protections
<1>10. \A p \in Pages : pages'[p] # "none" => pages'[p] = pages[p] /\ p \notin PagesIn(from, to)
  BY <1>2
<1>11. Mapped(heap', pages', regions')
  BY <1>2, <1>8, <1>10 DEF MInv, Mapped
<1>12. \A p \in HeapPages(heap') : pages'[p] # "none" \/ p \in torn'
  <2>1. \A p \in HeapPages(heap) : p \in Pages /\ (pages[p] # "none" \/ p \in torn)
    BY PagesAre DEF MInv, HeapOK, HeapPages
  <2> QED BY <1>2, <2>1 DEF HeapPages
<1>13. HeapOK(heap', pages', torn')
  BY <1>2, <1>9, <1>12 DEF MInv, HeapOK
<1>14. torn' \subseteq Pages
  BY <1>2 DEF MInv, PagesIn
<1> QED BY <1>7, <1>11, <1>13, <1>14 DEF MInv

LEMMA MprotectKeeps ==
  ASSUME MInv, NEW a \in 0..Word - 1, NEW n \in Lengths, NEW prot \in {"rw", "ro"}, Mprotect(a, n, prot)
  PROVE  MInv'
<1> DEFINE from == Floor(a)
           to == EndOf(a, Whole(n))
           pieces == [i \in DOMAIN regions |-> Recut(regions[i], from, to, prot)]
           cut == FlattenSeq(pieces)
           r == Region(from, to, prot)
           some == \E i \in DOMAIN regions : Overlaps(regions[i], from, to)
<1>1. from \in 0..Word - 1 /\ to \in 0..Word - 1 /\ from <= to
  BY RangeIs
<1>2. /\ regions' = IF some THEN cut ELSE Append(cut, r)
      /\ pages' = [p \in Pages |-> IF p \in PagesIn(from, to) /\ pages[p] # "none" THEN prot ELSE pages[p]]
      /\ heap' = heap /\ mmapNext' = mmapNext /\ torn' = torn
  BY DEF Mprotect
<1> HIDE DEF from, to, some
<1>3. regions \in Seq(RegionSet) /\ pages \in [Pages -> Protections]
  BY DEF MInv, HeapOK
<1>4. DOMAIN regions = 1..Len(regions) /\ \A i \in DOMAIN regions : regions[i] \in RegionSet
  BY <1>3, LenProperties, ElementOfSeq
<1>5. pieces \in [DOMAIN regions -> Seq(RegionSet)]
  BY <1>1, <1>4, RecutIs
<1>6. \A i \in DOMAIN regions : pieces[i] = Recut(regions[i], from, to, prot)
  OBVIOUS
<1>7. ASSUME NEW i \in 1..Len(regions), NEW p \in Pages
       PROVE  /\ Holds(regions[i], p) =>
                   FirstHas(pieces[i], p, IF p \in PagesIn(from, to) THEN prot ELSE regions[i].prot)
              /\ ~Holds(regions[i], p) => NoneHolds(pieces[i], p)
  <2>1. PICK x \in RegionSet : x = regions[i]
    BY <1>4
  <2>2. /\ Holds(x, p) => FirstHas(Recut(x, from, to, prot), p, IF p \in PagesIn(from, to) THEN prot ELSE x.prot)
        /\ ~Holds(x, p) => NoneHolds(Recut(x, from, to, prot), p)
    BY <1>1, RecutIs
  <2> HIDE DEF pieces
  <2> QED BY <1>4, <1>6, <2>1, <2>2
<1> HIDE DEF pieces
<1>8. cut \in Seq(RegionSet)
  BY <1>3, <1>5, CutRegions
<1>9. r \in RegionSet
  BY <1>1, RegionIs
<1>10. ASSUME NEW p \in Pages, NEW q, FirstHas(regions, p, q)
      PROVE  FirstHas(cut, p, IF p \in PagesIn(from, to) THEN prot ELSE q)
  <2>1. PICK i \in 1..Len(regions) : /\ Holds(regions[i], p) /\ regions[i].prot = q
                                     /\ \A j \in 1..i - 1 : ~Holds(regions[j], p)
    BY <1>10 DEF FirstHas
  <2>2. FirstHas(pieces[i], p, IF p \in PagesIn(from, to) THEN prot ELSE q)
    BY <1>7, <2>1
  <2>3. ASSUME NEW j \in 1..i - 1 PROVE NoneHolds(pieces[j], p)
    <3>1. j \in 1..Len(regions)
      BY <1>3, LenProperties
    <3> QED BY <1>7, <2>1, <3>1
  <2> QED BY <1>3, <1>5, <2>2, <2>3, CutRegions
<1> HIDE DEF cut, r
<1>11. regions' \in Seq(RegionSet) /\ \A p, q : FirstHas(cut, p, q) => FirstHas(regions', p, q)
  BY <1>2, <1>8, <1>9, AppendKeeps
<1>12. pages' \in [Pages -> Protections]
  BY <1>2, <1>3 DEF Protections
<1>13. \A p \in Pages : /\ pages'[p] # "none" <=> pages[p] # "none"
                        /\ pages[p] # "none" => pages'[p] = IF p \in PagesIn(from, to) THEN prot ELSE pages[p]
  BY <1>2
<1>14. Mapped(heap', pages', regions')
  <2> SUFFICES ASSUME NEW p \in Pages, pages'[p] # "none", p \notin HeapPages(heap')
               PROVE  FirstHas(regions', p, pages'[p])
    BY DEF Mapped
  <2>1. FirstHas(regions, p, pages[p])
    BY <1>2, <1>13 DEF MInv, Mapped
  <2>2. FirstHas(cut, p, pages'[p])
    BY <1>10, <1>13, <2>1
  <2> QED BY <1>11, <2>2
<1>15. HeapOK(heap', pages', torn')
  <2>1. \A p \in HeapPages(heap) : p \in Pages
    BY PagesAre DEF HeapPages
  <2> QED BY <1>2, <1>12, <1>13, <2>1 DEF MInv, HeapOK
<1> QED BY <1>2, <1>11, <1>14, <1>15 DEF MInv

\* The region that decides a page.
LEMMA FirstHoldingIs ==
  ASSUME regions \in Seq(RegionSet), NEW p
  PROVE  /\ (\E i \in DOMAIN regions : Holds(regions[i], p)) =>
              FirstHas(regions, p, regions[FirstHolding(p)].prot) /\ FirstHolding(p) \in DOMAIN regions
         /\ \A q : FirstHas(regions, p, q) => /\ \E i \in DOMAIN regions : Holds(regions[i], p)
                                           /\ regions[FirstHolding(p)].prot = q
<1> DEFINE Is(i) == Holds(regions[i], p) /\ \A j \in 1..i - 1 : ~Holds(regions[j], p)
<1>1. Len(regions) \in Nat /\ DOMAIN regions = 1..Len(regions)
  BY LenProperties
<1>2. FirstHolding(p) = CHOOSE i \in DOMAIN regions : Is(i)
  BY DEF FirstHolding
<1>3. ASSUME NEW i \in DOMAIN regions, Is(i) PROVE FirstHolding(p) = i
  <2>1. ASSUME NEW k \in DOMAIN regions, Is(k) PROVE k = i
    <3>1. k \in Nat /\ i \in Nat /\ k >= 1 /\ i >= 1
      BY <1>1
    <3>2. k < i => k \in 1..i - 1
      BY <3>1
    <3>3. i < k => i \in 1..k - 1
      BY <3>1
    <3> QED BY <1>3, <2>1, <3>1, <3>2, <3>3
  <2> HIDE DEF Is
  <2> QED BY <1>2, <1>3, <2>1
<1>4. ASSUME \E i \in DOMAIN regions : Holds(regions[i], p) PROVE \E i \in DOMAIN regions : Is(i)
  <2> DEFINE T == {i \in DOMAIN regions : Holds(regions[i], p)}
  <2>1. T \subseteq Nat /\ T # {}
    BY <1>1, <1>4
  <2>2. PICK i \in T : \A j \in T : i <= j
    BY <2>1, LeastOf
  <2>3. i \in DOMAIN regions /\ Holds(regions[i], p)
    OBVIOUS
  <2>4. ASSUME NEW j \in 1..i - 1 PROVE ~Holds(regions[j], p)
    <3>1. j \in DOMAIN regions /\ ~(i <= j)
      BY <1>1, <2>3
    <3>2. j \notin T
      BY <2>2, <3>1
    <3> QED BY <3>1, <3>2
  <2> QED BY <2>3, <2>4
<1>5. ASSUME \E i \in DOMAIN regions : Holds(regions[i], p)
      PROVE  FirstHas(regions, p, regions[FirstHolding(p)].prot) /\ FirstHolding(p) \in DOMAIN regions
  <2>1. PICK i \in DOMAIN regions : Is(i)
    BY <1>4, <1>5
  <2>2. FirstHolding(p) = i
    BY <1>3, <2>1
  <2> QED BY <1>1, <2>1, <2>2 DEF FirstHas
<1>6. ASSUME NEW q, FirstHas(regions, p, q)
      PROVE  (\E i \in DOMAIN regions : Holds(regions[i], p)) /\ regions[FirstHolding(p)].prot = q
  <2>1. PICK i \in DOMAIN regions : Is(i) /\ regions[i].prot = q
    BY <1>1, <1>6 DEF FirstHas
  <2>2. FirstHolding(p) = i
    BY <1>3, <2>1
  <2> QED BY <2>1, <2>2
<1> QED BY <1>5, <1>6

LEMMA FaultKeeps ==
  ASSUME MInv, NEW p \in Pages, Fault(p)
  PROVE  MInv'
<1> DEFINE q == regions[FirstHolding(p)].prot
<1>1. regions \in Seq(RegionSet) /\ pages \in [Pages -> Protections]
  BY DEF MInv, HeapOK
<1>2. /\ FirstHas(regions, p, q) /\ FirstHolding(p) \in DOMAIN regions
  BY <1>1, FirstHoldingIs DEF Fault
<1>3. q \in {"rw", "ro"}
  <2>1. regions[FirstHolding(p)] \in RegionSet
    BY <1>1, <1>2, LenProperties, ElementOfSeq
  <2> QED BY <2>1 DEF RegionSet
<1>4. pages' = [pages EXCEPT ![p] = q] /\ heap' = heap /\ regions' = regions /\ mmapNext' = mmapNext /\ torn' = torn
  BY DEF Fault
<1> HIDE DEF q
<1>5. pages' \in [Pages -> Protections] /\ \A x \in Pages : pages'[x] = IF x = p THEN q ELSE pages[x]
  BY <1>1, <1>3, <1>4 DEF Protections
<1>6. Mapped(heap', pages', regions')
  BY <1>2, <1>4, <1>5 DEF MInv, Mapped
<1>7. HeapOK(heap', pages', torn')
  <2>1. \A x \in HeapPages(heap) : x \in Pages
    BY PagesAre DEF HeapPages
  <2> QED BY <1>3, <1>4, <1>5, <2>1 DEF MInv, HeapOK
<1> QED BY <1>4, <1>6, <1>7 DEF MInv

LEMMA MNextInv == MInv /\ [MNext]_memvars => MInv'
<1> SUFFICES ASSUME MInv, [MNext]_memvars PROVE MInv'
  OBVIOUS
<1>1. CASE HeapStep
  <2>1. heap \in Heaps /\ pages \in [Pages -> Protections] /\ HeapFits(heap, pages, regions, torn)
    BY DEF MInv, HeapOK, HeapFits
  <2> QED BY <1>1, <2>1, HeapStepKeeps DEF MInv, HeapFits
<1>2. CASE MapCall
  <2>1. HeapBase + Chunk \in Nat /\ 0 \in Nat
    BY MemoryNumbers
  <2>2. ASSUME NEW n \in Lengths, NEW hint \in {0, HeapBase + Chunk}, Mmap(hint, n) PROVE MInv'
    BY <2>1, <2>2, MmapKeeps
  <2>3. ASSUME NEW p \in Pages, NEW n \in Lengths, Munmap(p * Page, n) PROVE MInv'
    <3>1. p * Page \in 0..Word - 1
      BY RangeIs
    <3>2. mmapNext' = mmapNext
      BY <2>3 DEF Munmap
    <3> QED BY <2>3, <3>1, <3>2, MunmapKeeps
  <2>4. ASSUME NEW p \in Pages, NEW n \in Lengths, NEW prot \in {"rw", "ro"}, Mprotect(p * Page, n, prot)
        PROVE  MInv'
    <3>1. p * Page \in 0..Word - 1
      BY RangeIs
    <3> QED BY <2>4, <3>1, MprotectKeeps
  <2> QED BY <1>2, <2>2, <2>3, <2>4 DEF MapCall
<1>3. ASSUME NEW p \in Pages, Fault(p) PROVE MInv'
  BY <1>3, FaultKeeps
<1>4. CASE UNCHANGED memvars
  BY <1>4 DEF memvars, MInv
<1> QED BY <1>1, <1>2, <1>3, <1>4 DEF MNext

LEMMA MInvSound == MInv => MemorySound
<1> SUFFICES ASSUME MInv PROVE HeapSound /\ PagesAccounted
  BY DEF MemorySound
<1>1. ASSUME ~heap.over
      PROVE  /\ \A b \in heap.blocks : b.at + b.size <= heap.next
             /\ \A b, c \in heap.blocks : b = c \/ b.at + b.size <= c.at \/ c.at + c.size <= b.at
             /\ \A b \in heap.blocks : \A p \in PageOf(b.at)..PageOf(b.at + b.size - 1) :
                  pages[p] # "none" \/ p \in torn
  <2>1. BlocksOK(heap) /\ heap \in Heaps /\ \A p \in HeapPages(heap) : pages[p] # "none" \/ p \in torn
    BY <1>1 DEF MInv, HeapOK
  <2>2. ASSUME NEW b \in heap.blocks, NEW p \in PageOf(b.at)..PageOf(b.at + b.size - 1)
        PROVE  pages[p] # "none" \/ p \in torn
    <3>1. /\ b.at \in 0..Word - 1 /\ b.at \in Nat /\ b.size \in Nat /\ heap.until \in 0..Word - 1
          /\ heap.until \in Nat /\ heap.until <= Word - 1 /\ HeapBase <= b.at /\ 1 <= b.size
          /\ b.at + b.size <= heap.until
      BY <2>1, MemoryNumbers DEF Heaps, BlocksIn, BlocksOK, BlockOK
    <3>2. PICK x : x = b.at + b.size - 1
      OBVIOUS
    <3>3. x \in 0..Word - 1 /\ x < heap.until
      BY <3>1, <3>2, MemoryNumbers
    <3>4. PageOf(b.at) \in Nat /\ PageOf(x) \in Nat
      BY <3>1, <3>3, PageOfIs
    <3>5. p \in Nat /\ PageOf(b.at) <= p /\ p <= PageOf(x)
      BY <3>2, <3>4
    <3>6. p \in Pages /\ p * Page \in Nat /\ p * Page <= x
      BY <3>3, <3>5, PageOfIs
    <3>7. HeapBase <= p * Page
      BY <3>1, <3>5, PageOfIs
    <3>8. p * Page < heap.until
      BY <3>1, <3>3, <3>6, MemoryNumbers
    <3>9. p \in HeapPages(heap)
      BY <3>6, <3>7, <3>8, PagesAre DEF HeapPages
    <3> QED BY <2>1, <3>9
  <2> QED BY <2>1, <2>2 DEF BlocksOK, BlockOK, TwoApart
<1>2. HeapSound
  BY <1>1 DEF HeapSound
<1>3. PagesAccounted
  <2>1. regions \in Seq(RegionSet)
    BY DEF MInv
  <2> SUFFICES ASSUME NEW p \in Pages, pages[p] # "none", p \notin PagesIn(HeapBase, heap.until)
               PROVE  /\ \E i \in DOMAIN regions : Holds(regions[i], p)
                      /\ pages[p] = regions[FirstHolding(p)].prot
    BY DEF PagesAccounted
  <2>2. FirstHas(regions, p, pages[p])
    BY DEF MInv, Mapped, HeapPages
  <2> QED BY <2>1, <2>2, FirstHoldingIs
<1> QED BY <1>2, <1>3

\* Whatever the guest allocates, maps, protects and touches, in an address space of
\* any size: the blocks of its heap lie in order, mapped and apart until a sum leaves
\* the word, and each mapped page outside the heap has what its region has.
THEOREM MemoryInvariant == MSpec => []MInv
BY MInitInv, MNextInv, PTL DEF MSpec

\* As long as no sum has left the word, blocks do not overlap and stay mapped unless
\* the guest unmaps them; once one has, nothing is claimed of the heap.  Always, memory
\* that was unmapped does not stay accessible, and a page has the protection of its region.
THEOREM MemoryIsSound == MSpec => []MemorySound
BY MemoryInvariant, MInvSound, PTL

\* Addresses and protections keep to their types.
THEOREM MemoryIsTyped == MSpec => []MTypeOK
<1>1. MInv => MTypeOK
  <2> SUFFICES ASSUME MInv PROVE MTypeOK
    OBVIOUS
  <2>1. /\ heap \in Heaps /\ pages \in [Pages -> Protections] /\ regions \in Seq(RegionSet)
        /\ \A x \in 0..Word - 1 : x \in 0..Word
    BY MemoryNumbers DEF MInv, HeapOK
  <2>2. \A i \in DOMAIN regions : regions[i] \in RegionSet
    BY <2>1, LenProperties, ElementOfSeq
  <2>3. \A i \in DOMAIN regions :
          {regions[i].start, regions[i].end} \subseteq 0..Word /\ regions[i].prot \in {"rw", "ro"}
    BY <2>1, <2>2 DEF RegionSet
  <2>4. \A b \in heap.blocks : b.at \in 0..Word - 1 /\ b.size \in 0..Word
    BY <2>1 DEF Heaps, BlocksIn
  <2>5. torn \subseteq Pages
    BY DEF MInv
  <2> QED BY <2>1, <2>3, <2>4, <2>5 DEF MTypeOK, Heaps, Protections
<1> QED BY <1>1, MemoryInvariant, PTL
===============================================================================
