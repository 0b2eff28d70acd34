---------------------------- MODULE ThreadStorage ----------------------------
(***************************************************************************)
(* What the pthread hooks keep for each thread, the page behind a thread   *)
(* local variable and the value of a key, and the handles of libdispatch.  *)
(*                                                                         *)
(* The pages of variables begin TlvPages below the heap and are handed out *)
(* without a look at it.  A page holds one value.                          *)
(***************************************************************************)
EXTENDS Naturals, FiniteSets

CONSTANTS StorageThreads,   \* bound on threads; 1 is main
          Variables,        \* descriptors of thread local variables
          Keys,             \* bound on pthread_key_create
          StoredValues,     \* what the guest stores, or begins a semaphore with, which
                            \* is never below zero; 0 is a fresh page
          TlvPages,         \* pages between 0x5100_0000 and the heap at 0x5200_0000
          Handles,          \* bound on handles of libdispatch
          MaxStored         \* bound on calls

ASSUME StorageAssumption == /\ StorageThreads \in Nat \ {0} /\ TlvPages \in Nat
                            /\ StoredValues \subseteq Nat /\ 0 \in StoredValues

VARIABLES
  created,          \* threads up to this number exist
  storage,          \* tlv_storage: (thread, descriptor) to page
  tlvNext,          \* tlv_next_addr, in pages
  page,             \* contents of the pages; those past TlvPages are the heap's
  heapStored,       \* history: what the guest stored on the heap
  wrote,            \* history: what each thread stored last, or was seeded with
  keys, values,     \* tls_next_key, tls_values
  handed, semaphores, queues,   \* dispatch_*_next, dispatch_semaphores, dispatch_queues
  passed,           \* history: waits that came back, and signals with initial values
  stored            \* calls so far

storagevars == <<created, storage, tlvNext, page, heapStored, wrote, keys, values,
                 handed, semaphores, queues, passed, stored>>
tlvvars == <<storage, tlvNext, page, heapStored, wrote>>
keyvars == <<keys, values>>
dispatchvars == <<handed, semaphores, queues, passed>>

StorageInit ==
  /\ created = 1
  /\ storage = <<>> /\ tlvNext = 1 /\ page = <<>> /\ heapStored = <<>> /\ wrote = <<>>
  /\ keys = 0 /\ values = <<>>
  /\ handed = 0 /\ semaphores = <<>> /\ queues = {} /\ passed = <<>>
  /\ stored = 0

Called == stored < MaxStored /\ stored' = stored + 1
Living == 1..created

\* The map f with v for the key k: HashMap::insert.
Put(f, k, v) == [x \in DOMAIN f \cup {k} |-> IF x = k THEN v ELSE f[x]]

NewThread == /\ Called /\ created < StorageThreads /\ created' = created + 1
             /\ UNCHANGED <<tlvvars, keyvars, dispatchvars>>

-------------------------------------------------------------------------------
(***************************************************************************)
(* Thread local variables.                                                 *)
(***************************************************************************)
\* Mutant: a worker gets the page of main.
SeededShared(t, d) == IF t # 1 /\ <<1, d>> \in DOMAIN storage THEN storage[<<1, d>>] ELSE tlvNext
PageFor(t, d) == tlvNext
Seed(t, d) == IF t # 1 /\ <<1, d>> \in DOMAIN storage THEN page[storage[<<1, d>>]] ELSE 0

\* _tlv_bootstrap: a page, with what main's holds now.
TlvBootstrap(t, d) ==
  /\ Called /\ <<t, d>> \notin DOMAIN storage
  /\ storage' = Put(storage, <<t, d>>, PageFor(t, d))
  /\ tlvNext' = tlvNext + 1
  /\ page' = Put(page, PageFor(t, d), Seed(t, d))
  /\ wrote' = Put(wrote, <<t, d>>, Seed(t, d))
  /\ UNCHANGED <<created, heapStored, keyvars, dispatchvars>>

\* The guest stores to a variable, through the page it was told.
Store(t, d, v) ==
  /\ Called /\ <<t, d>> \in DOMAIN storage
  /\ page' = [page EXCEPT ![storage[<<t, d>>]] = v]
  /\ wrote' = [wrote EXCEPT ![<<t, d>>] = v]
  /\ UNCHANGED <<created, storage, tlvNext, heapStored, keyvars, dispatchvars>>

\* It stores to the first page of the heap.
HeapStore(v) ==
  /\ Called
  /\ page' = Put(page, TlvPages + 1, v) /\ heapStored' = <<v>>
  /\ UNCHANGED <<created, storage, tlvNext, wrote, keyvars, dispatchvars>>

-------------------------------------------------------------------------------
(***************************************************************************)
(* Keys: one value for all threads.                                        *)
(***************************************************************************)
KeyCreate == /\ Called /\ keys < Keys /\ keys' = keys + 1
             /\ UNCHANGED <<created, tlvvars, values, dispatchvars>>
SetSpecific(k, v) ==
  /\ Called
  /\ values' = Put(values, k, v)
  /\ UNCHANGED <<created, tlvvars, keys, dispatchvars>>

-------------------------------------------------------------------------------
(***************************************************************************)
(* libdispatch.  A wait on a semaphore never blocks and always succeeds.   *)
(***************************************************************************)
Unused == UNCHANGED <<created, tlvvars, keyvars>>
Made == Called /\ handed < Handles /\ handed' = handed + 1 /\ Unused
SemaphoreCreate(v) == /\ Made /\ semaphores' = Put(semaphores, handed + 1, v)
                      /\ passed' = Put(passed, handed + 1, [waits |-> 0, due |-> v])
                      /\ UNCHANGED queues
QueueCreate == Made /\ queues' = queues \cup {handed + 1} /\ UNCHANGED <<semaphores, passed>>

\* Mutant: the counter goes below zero.
LoweredBelow(n) == n - 1
Lowered(n) == IF n > 0 THEN n - 1 ELSE n
\* A handle that is not known becomes a semaphore with no value.
Value(h) == IF h \in DOMAIN semaphores THEN semaphores[h] ELSE 0
SemaphoreWait(h) ==
  /\ Called /\ Unused
  /\ semaphores' = Put(semaphores, h, Lowered(Value(h)))
  /\ passed' = [passed EXCEPT ![h].waits = @ + (IF Value(h) > 0 THEN 1 ELSE 0)]
  /\ UNCHANGED <<handed, queues>>
SemaphoreSignal(h) ==
  /\ Called /\ Unused
  /\ semaphores' = Put(semaphores, h, Value(h) + 1)
  /\ passed' = [passed EXCEPT ![h].due = @ + 1]
  /\ UNCHANGED <<handed, queues>>
\* The hook of a linked import forgets semaphores, that of dlsym queues too.
Release(h, linked) ==
  /\ Called /\ Unused
  /\ semaphores' = [g \in DOMAIN semaphores \ {h} |-> semaphores[g]]
  /\ queues' = IF linked THEN queues ELSE queues \ {h}
  /\ passed' = [g \in DOMAIN passed |-> IF g = h THEN [waits |-> 0, due |-> 0] ELSE passed[g]]
  /\ UNCHANGED handed

StorageNext ==
  \/ NewThread \/ KeyCreate \/ QueueCreate
  \/ \E t \in Living, d \in Variables : TlvBootstrap(t, d) \/ \E v \in StoredValues : Store(t, d, v)
  \/ \E v \in StoredValues : HeapStore(v) \/ SemaphoreCreate(v)
  \/ \E k \in 1..keys, v \in StoredValues : SetSpecific(k, v)
  \/ \E h \in DOMAIN passed : SemaphoreWait(h) \/ SemaphoreSignal(h)
  \/ \E h \in 1..handed, linked \in BOOLEAN : Release(h, linked)

StorageSpec == StorageInit /\ [][StorageNext]_storagevars

-------------------------------------------------------------------------------
(* As long as the pages below the heap last, each thread finds in a        *)
(* variable what it stored there itself, or what main's held when it first *)
(* used it, and the heap keeps what is stored on it: no two share a page.  *)
Lasts == tlvNext <= TlvPages + 1
VariablesOwn ==
  Lasts => /\ \A p \in DOMAIN storage : page[storage[p]] = wrote[p]
           /\ heapStored # <<>> => page[TlvPages + 1] = heapStored[1]

(* A semaphore lets a wait count only against a signal or a unit it began  *)
(* with, and nothing is both a semaphore and a queue.                      *)
HandlesOwn ==
  /\ \A h \in DOMAIN passed \cap DOMAIN semaphores :
       semaphores[h] >= 0 /\ passed[h].waits + semaphores[h] = passed[h].due
  /\ DOMAIN semaphores \cap queues = {}

(* What is kept for a thread or a handle is its own.                        *)
StorageOwn == VariablesOwn /\ HandlesOwn
===============================================================================
