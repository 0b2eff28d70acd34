------------------------------ MODULE AppleObjects ------------------------------
(***************************************************************************)
(* The synthetic CoreFoundation objects of a guest (AppleRuntime) and      *)
(* their proxies in the frameworks of the host.  A container holds guest   *)
(* handles; where the host has a copy of it, host is its pointer, and the  *)
(* handle of a container that was born with a copy is that pointer.  Host  *)
(* calls (keychain queries) get the copy, or one bridged for the call.     *)
(*                                                                         *)
(* Modelled: strings, arrays, sets, dictionaries, enumerators and what the *)
(* host keeps opaque; the reference counts of the host's own objects, from *)
(* how the code calls CoreFoundation.  Abstracted: bytes and encodings     *)
(* (texts), CFData, CFNumber and CFBoolean, which are bridged as strings   *)
(* are.  CFRetain, CFRelease and objc_release change nothing: the runtime  *)
(* keeps every object.  Built for macOS: elsewhere no host call answers.   *)
(***************************************************************************)
EXTENDS Naturals, Sequences, FiniteSets, SequencesExt, FiniteSetsExt

CONSTANTS Texts,        \* what a string says
          StartStrings, \* CFStrings the guest has made, next to an NSString,
          StartText,    \* and what they all say
          MaxObjects,   \* bound on objects the runtime numbers itself
          MaxHost,      \* bound on objects of the host
          MaxItems,     \* bound on the elements of a container
          MaxCalls,     \* bound on the calls of the guest
          MaxContainers \* bound on containers and enumerators

ASSUME AppleAssumption ==
  /\ StartText \in Texts /\ StartStrings \in 1..MaxObjects /\ MaxHost > 0
  /\ {MaxObjects, MaxHost, MaxItems, MaxCalls, MaxContainers} \subseteq Nat /\ IsFiniteSet(Texts) /\ "" \notin Texts

VARIABLES objects,      \* AppleRuntime::objects
          next,         \* next_handle
          host,         \* the host's objects: kind, text, items, refs
          lost,         \* history: references nobody will release
          calls         \* calls so far

applevars == <<objects, next, host, lost, calls>>

Synthetic == 1..MaxObjects
Pointers == MaxObjects + 1..MaxObjects + MaxHost
Handles == Synthetic \cup Pointers

Blank == [kind |-> "None", text |-> "", items |-> <<>>, host |-> 0, index |-> 0]
Free == [kind |-> "None", text |-> "", items |-> <<>>, refs |-> 0]
Known == {h \in Handles : objects[h].kind # "None"}
OfKind(k) == {h \in Known : objects[h].kind = k}

\* The guest has made its strings: a CFString or two, and an NSString.
OInit == /\ objects = [h \in Handles |->
                       IF h <= StartStrings THEN [Blank EXCEPT !.kind = "String", !.text = StartText]
                       ELSE IF h = MaxObjects + 1 THEN [Blank EXCEPT !.kind = "NSString", !.host = h]
                       ELSE Blank]
         /\ next = StartStrings + 1
         /\ host = [p \in Pointers |-> IF p > MaxObjects + 1 THEN Free
                                      ELSE [Free EXCEPT !.kind = "String", !.text = StartText, !.refs = 1]]
         /\ lost = [p \in Pointers |-> 0] /\ calls = 0

-------------------------------------------------------------------------------
(***************************************************************************)
(* The host.  A container retains what it holds.                           *)
(***************************************************************************)
Spare(heap) == {p \in Pointers : heap[p].refs = 0}
\* A dictionary of the host as key, value, key, value.
Flat(entries) == [n \in 1..2 * Len(entries) |-> entries[(n + 1) \div 2][IF n % 2 = 1 THEN 1 ELSE 2]]
Times(seq, p) == Cardinality({i \in DOMAIN seq : seq[i] = p})

\* host_cfstring_create_from_bytes, host_cfarray_create, host_cfdictionary_create
Created(heap, kind, text, items) ==
  LET at == Min(Spare(heap))
  IN [heap |-> [p \in Pointers |->
                  IF p = at THEN [kind |-> kind, text |-> text, items |-> items, refs |-> 1]
                  ELSE [heap[p] EXCEPT !.refs = @ + Times(items, p)]],
      ptr |-> at]

\* The elements at the places that pass the test.
SelectInOrder(seq, Test(_)) ==
  LET places == {i \in DOMAIN seq : Test(i)}
  IN [n \in 1..Cardinality(places) |->
        seq[CHOOSE i \in places : Cardinality({j \in places : j <= i}) = n]]
First(seq, Test(_)) == LET places == {i \in DOMAIN seq : Test(seq[i])}
                       IN IF places = {} THEN 0 ELSE Min(places)

HostSame(heap, p, q) == p = q \/ (heap[p].text # "" /\ heap[p].text = heap[q].text)
\* CFDictionaryCreate takes the first of equal keys.
HostEntries(heap, entries) ==
  Flat(SelectInOrder(entries, LAMBDA i : \A j \in 1..i - 1 :
                                ~HostSame(heap, entries[j][1], entries[i][1])))

RECURSIVE Released(_, _)
\* host_cf_release
Released(heap, p) ==
  IF heap[p].refs > 1 THEN [heap EXCEPT ![p].refs = @ - 1]
  ELSE FoldLeft(Released, [heap EXCEPT ![p] = Free], heap[p].items)

-------------------------------------------------------------------------------
(***************************************************************************)
(* Equality.  Changes compare by the data the runtime itself holds, so     *)
(* that a host-backed NSString is equal to itself only; lookups also ask   *)
(* the host for its text.                                                  *)
(***************************************************************************)
ObjectData(h) == IF h \in Known /\ objects[h].kind = "String" THEN objects[h].text ELSE ""
FoundationData(h) == IF ObjectData(h) # "" THEN ObjectData(h)
                     ELSE IF objects[h].host # 0 THEN host[objects[h].host].text ELSE ""
Same(a, b) == a = b \/ (ObjectData(a) # "" /\ ObjectData(a) = ObjectData(b))
Alike(a, b) == a = b \/ (FoundationData(a) # "" /\ FoundationData(a) = FoundationData(b))

\* dictionary_key_index and set_value_index; 0 when there is none
KeyIndex(d, k) == First(objects[d].items, LAMBDA e : Same(e[1], k))
ValueIndex(s, v) == First(objects[s].items, LAMBDA x : Same(x, v))

HostValue(p, k) ==
  LET held == host[p].items
      keys == {i \in DOMAIN held : i % 2 = 1 /\ HostSame(host, held[i], k)}
  IN IF keys = {} THEN 0 ELSE held[Min(keys) + 1]
(* dictionary_get_matching_key: the key itself, then its text, then the    *)
(* host's copy.                                                            *)
Lookup(d, k) ==
  LET items == objects[d].items
      itself == First(items, LAMBDA e : e[1] = k)
      alike == First(items, LAMBDA e : Alike(e[1], k))
  IN IF itself # 0 THEN items[itself][2]
     ELSE IF alike # 0 THEN items[alike][2]
     ELSE IF objects[d].host # 0 /\ objects[k].host # 0
          THEN HostValue(objects[d].host, objects[k].host) ELSE 0

-------------------------------------------------------------------------------
(***************************************************************************)
(* New objects.                                                            *)
(***************************************************************************)

\* alloc
Numbered(object) == /\ next <= MaxObjects /\ next' = next + 1
                    /\ objects' = [objects EXCEPT ![next] = object]

StringOf(t) == [Blank EXCEPT !.kind = "String", !.text = t]
Container(kind, items, ptr) == [Blank EXCEPT !.kind = kind, !.items = items, !.host = ptr]

CFStringCreate(t) == Numbered(StringOf(t)) /\ UNCHANGED <<host, lost>>
CreateMutable(kind) == Numbered(Container(kind, <<>>, 0)) /\ UNCHANGED <<host, lost>>

\* alloc_set_with_values
CFSetCreate(values) ==
  /\ Numbered(Container("Set", SelectInOrder(values, LAMBDA i :
       \A j \in 1..i - 1 : ~Same(values[j], values[i])), 0))
  /\ UNCHANGED <<host, lost>>

\* register_host_objc_object keeps what is known under the pointer already.
Registered(ptr, object) ==
  objects' = [objects EXCEPT ![ptr] = IF @.kind = "None" THEN object ELSE @]

\* make_foundation_string_result
NSString(t) ==
  LET c == Created(host, "String", t, <<>>)
  IN /\ Spare(host) # {} /\ host' = c.heap
     /\ Registered(c.ptr, [Blank EXCEPT !.kind = "NSString", !.host = c.ptr])
     /\ UNCHANGED <<next, lost>>

\* alloc_array_with_values_and_host and alloc_dictionary_with_host
Born(kind, items, ptr) ==
  IF ptr = 0 THEN Numbered(Container(kind, items, 0))
  ELSE objects' = [objects EXCEPT ![ptr] = Container(kind, items, ptr)] /\ UNCHANGED next

\* arrayWithObjects:count: and make_foundation_array_result: a copy only if
\* every element has one.
ArrayWithObjects(values) ==
  LET copies == [i \in DOMAIN values |-> objects[values[i]].host]
      c == Created(host, "Array", "", copies)
      all == \A i \in DOMAIN copies : copies[i] # 0
  IN /\ Spare(host) # {}
     /\ Born("Array", values, IF all THEN c.ptr ELSE 0)
     /\ host' = IF all THEN c.heap ELSE host
     /\ UNCHANGED lost

DictionaryWithObjects(entries) ==
  LET copies == [i \in DOMAIN entries |-> <<objects[entries[i][1]].host, objects[entries[i][2]].host>>]
      all == \A i \in DOMAIN copies : copies[i][1] # 0 /\ copies[i][2] # 0
      c == Created(host, "Dictionary", "", HostEntries(host, copies))
  IN /\ Spare(host) # {}
     /\ Born("Dictionary", entries, IF all THEN c.ptr ELSE 0)
     /\ host' = IF all THEN c.heap ELSE host
     /\ UNCHANGED lost

-------------------------------------------------------------------------------
(***************************************************************************)
(* Bridging: a copy of a dictionary for the host, with temporary copies of *)
(* what it holds, released once the copy retains them.  When a value has   *)
(* none, the early return forgets those made before it.                    *)
(***************************************************************************)
RECURSIVE Needs(_), BridgeEntries(_, _)
Needs(entries) ==
  1 + FoldLeft(LAMBDA n, v : n + (IF objects[v].host # 0 THEN 0
                                  ELSE IF objects[v].kind = "String" THEN 1
                                  ELSE IF objects[v].kind = "Dictionary" THEN Needs(objects[v].items)
                                  ELSE 0), 0, Flat(entries))

\* bridge_runtime_value_for_retained_container: 0 when there is no way.
BridgeValue(s, v) ==
  IF objects[v].host # 0 THEN [s EXCEPT !.ptr = objects[v].host, !.owned = FALSE]
  ELSE IF objects[v].kind = "String"
       THEN LET c == Created(s.heap, "String", objects[v].text, <<>>)
            IN [s EXCEPT !.heap = c.heap, !.ptr = c.ptr, !.owned = TRUE]
  ELSE IF objects[v].kind = "Dictionary" THEN BridgeEntries(s, objects[v].items)
  ELSE [s EXCEPT !.ptr = 0]

\* host_cfdictionary_create, then release_host_bridge_values
Bridged(s, copies, mine) ==
  FoldLeft(Released, Created(s.heap, "Dictionary", "", HostEntries(s.heap, copies)).heap, mine)

\* bridge_runtime_dictionary_entries_to_host
BridgeEntries(s, entries) ==
  LET one(acc, v) ==
        IF ~acc.ok THEN acc
        ELSE LET b == BridgeValue(acc.s, v)
             IN [s |-> b, ok |-> b.ptr # 0, ptrs |-> Append(acc.ptrs, b.ptr),
                 mine |-> IF b.ptr # 0 /\ b.owned THEN Append(acc.mine, b.ptr) ELSE acc.mine]
      all == FoldLeft(one, [s |-> s, ok |-> TRUE, ptrs |-> <<>>, mine |-> <<>>],
                      Flat(entries))
      copies == [i \in DOMAIN entries |-> <<all.ptrs[2 * i - 1], all.ptrs[2 * i]>>]
  IN IF all.ok
     THEN [all.s EXCEPT !.heap = Bridged(all.s, copies, all.mine),
                        !.ptr = Created(all.s.heap, "Dictionary", "", <<>>).ptr, !.owned = TRUE]
     ELSE [all.s EXCEPT !.ptr = 0,
                        !.lost = [p \in Pointers |-> @[p] + Times(all.mine, p)]]

Here == [heap |-> host, lost |-> lost, ptr |-> 0, owned |-> FALSE]
Room(entries) == Cardinality(Spare(host)) >= Needs(entries)

\* CFDictionaryCreate through make_foundation_dictionary_result
CFDictionaryCreate(entries) ==
  LET b == BridgeEntries(Here, entries)
  IN /\ Room(entries)
     /\ Born("Dictionary", entries, b.ptr)
     /\ host' = b.heap /\ lost' = b.lost

\* bridge_runtime_dictionary_handle_to_host
BridgeHandle(d) == IF objects[d].host # 0
                   THEN [Here EXCEPT !.ptr = objects[d].host]
                   ELSE BridgeEntries(Here, objects[d].items)

\* register_host_cf_value_with_ownership of an owned result: a string is
\* copied and released, what cannot be copied is kept under its pointer.
RegisterResult(result, ptr) ==
  \/ result = "none" /\ UNCHANGED <<objects, next>>
  \/ result = "opaque" /\ UNCHANGED next
     /\ objects' = [objects EXCEPT ![ptr] = [Blank EXCEPT !.kind = "Opaque", !.host = ptr]]
  \/ result \in Texts /\ Numbered(StringOf(result))

\* SecItemCopyMatching, SecItemAdd and SecItemDelete (which has no result)
SecItem(d, result) ==
  LET b == BridgeHandle(d)
      r == Created(b.heap, "Other", "", <<>>)
      asked == IF result = "opaque" THEN r.heap ELSE b.heap
  IN /\ Cardinality(Spare(host)) > Needs(objects[d].items)
     /\ lost' = b.lost
     /\ IF b.ptr = 0 THEN host' = b.heap /\ UNCHANGED <<objects, next>>
        ELSE /\ host' = IF b.owned THEN Released(asked, b.ptr) ELSE asked
             /\ RegisterResult(result, r.ptr)
    

-------------------------------------------------------------------------------
(***************************************************************************)
(* Changes.  Each that succeeds forgets the host's copy.                   *)
(***************************************************************************)

Changed(c, items) == objects' = [objects EXCEPT ![c].items = items, ![c].host = 0]
Refused == UNCHANGED objects

DictionarySet(d, k, v) ==
  LET i == KeyIndex(d, k)
  IN Changed(d, IF i # 0 THEN [objects[d].items EXCEPT ![i] = <<k, v>>]
                ELSE Append(objects[d].items, <<k, v>>))
\* Mutant: compares handles only.
DictionaryAddBlind(d, k, v) ==
  IF \E i \in DOMAIN objects[d].items : objects[d].items[i][1] = k THEN Refused
  ELSE Changed(d, Append(objects[d].items, <<k, v>>))
DictionaryAdd(d, k, v) == IF KeyIndex(d, k) # 0 THEN Refused
                          ELSE Changed(d, Append(objects[d].items, <<k, v>>))
DictionaryReplace(d, k, v) == IF KeyIndex(d, k) = 0 THEN Refused
                              ELSE Changed(d, [objects[d].items EXCEPT ![KeyIndex(d, k)] = <<k, v>>])
DictionaryRemove(d, k) == IF KeyIndex(d, k) = 0 THEN Refused
                          ELSE Changed(d, RemoveAt(objects[d].items, KeyIndex(d, k)))
RemoveAll(c) == Changed(c, <<>>)

SetAdd(s, v) == IF ValueIndex(s, v) # 0 THEN Refused ELSE Changed(s, Append(objects[s].items, v))
SetSet(s, v) == Changed(s, IF ValueIndex(s, v) # 0
                           THEN [objects[s].items EXCEPT ![ValueIndex(s, v)] = v]
                           ELSE Append(objects[s].items, v))
SetReplace(s, v) == IF ValueIndex(s, v) = 0 THEN Refused
                    ELSE Changed(s, [objects[s].items EXCEPT ![ValueIndex(s, v)] = v])
SetRemove(s, v) == IF ValueIndex(s, v) = 0 THEN Refused
                   ELSE Changed(s, RemoveAt(objects[s].items, ValueIndex(s, v)))

ArrayAppend(a, v) == Changed(a, Append(objects[a].items, v))
ArrayInsert(a, i, v) == IF i > Len(objects[a].items) + 1 THEN Refused
                        ELSE Changed(a, InsertAt(objects[a].items, i, v))
ArraySet(a, i, v) == IF i > Len(objects[a].items) THEN Refused
                     ELSE Changed(a, [objects[a].items EXCEPT ![i] = v])
ArrayRemove(a, i) == IF i > Len(objects[a].items) THEN Refused
                     ELSE Changed(a, RemoveAt(objects[a].items, i))

\* enumeratorAtPath: over one new NSString per name
EnumeratorAtPath(names) ==
  LET one(s, t) == LET c == Created(s.heap, "String", t, <<>>)
                   IN [heap |-> c.heap, ptrs |-> Append(s.ptrs, c.ptr)]
      all == FoldLeft(one, [heap |-> host, ptrs |-> <<>>], names)
  IN /\ next <= MaxObjects /\ next' = next + 1 /\ Cardinality(Spare(host)) >= Len(names)
     /\ host' = all.heap
     /\ objects' = [h \in Handles |->
          IF h = next THEN Container("Enumerator", all.ptrs, 0)
          ELSE IF \E i \in DOMAIN all.ptrs : all.ptrs[i] = h
               THEN [Blank EXCEPT !.kind = "NSString", !.host = h] ELSE objects[h]]
     /\ UNCHANGED lost

\* enumerator_next: past the end it stays.
NextObject(e) ==
  /\ objects[e].index < Len(objects[e].items)
  /\ objects' = [objects EXCEPT ![e].index = @ + 1]
  /\ UNCHANGED <<next, host, lost>>

\* enumerator_remaining
Remaining(e) == SubSeq(objects[e].items, objects[e].index + 1, Len(objects[e].items))
AllObjects(e) ==
  LET values == Remaining(e)
      c == Created(host, "Array", "", [i \in DOMAIN values |-> objects[values[i]].host])
      done == [objects EXCEPT ![e].index = Len(objects[e].items)]
  IN /\ Spare(host) # {}
     /\ host' = c.heap
     /\ objects' = [done EXCEPT ![c.ptr] = Container("Array", values, c.ptr)]
     /\ UNCHANGED <<next, lost>>

-------------------------------------------------------------------------------
(***************************************************************************)
(* What a guest does: keys are strings, and dictionaries hold dictionaries *)
(* that hold none (Nesting; a dictionary that held itself would be bridged *)
(* without end).                                                           *)
(***************************************************************************)
Strings == OfKind("String") \cup OfKind("NSString")
Plain(d) == \A i \in DOMAIN objects[d].items : objects[objects[d].items[i][2]].kind # "Dictionary"
Inner(d) == \E o \in OfKind("Dictionary") : \E i \in DOMAIN objects[o].items : objects[o].items[i][2] = d
Nesting(d) == {v \in OfKind("Dictionary") : v # d /\ Plain(v) /\ (d # 0 => ~Inner(d))}
\* One numbered string is as good a value as another.
Values == {v \in Strings : v = 1 \/ v \in Pointers}
Storable(d) == Values \cup OfKind("Array") \cup Nesting(d)
Entries(d) == Strings \X Storable(d)

Containers == {h \in Handles : objects[h].kind \in {"Array", "Set", "Dictionary", "Enumerator"}}
Create ==
  \/ \E kind \in {"Array", "Set", "Dictionary"} : CreateMutable(kind)
  \/ \E v, w \in Strings : CFSetCreate(<<v, w>>)
  \/ \E v, w \in Values : ArrayWithObjects(<<v, w>>)
  \/ \E k \in Strings, e \in Entries(0) : \E some \in {<<e>>, << <<k, k>>, e>>} :
       DictionaryWithObjects(some) \/ CFDictionaryCreate(some)
  \/ \E t, u \in Texts : EnumeratorAtPath(<<t, u>>)

CFDictionaryChange(d) ==
  \E k \in Strings :
    \/ DictionaryRemove(d, k) \/ RemoveAll(d)
    \/ \E v \in Storable(d) : DictionarySet(d, k, v) \/ DictionaryAdd(d, k, v) \/ DictionaryReplace(d, k, v)
CFSetChange(s) ==
  \/ \E v \in Strings : SetAdd(s, v) \/ SetSet(s, v) \/ SetReplace(s, v) \/ SetRemove(s, v)
  \/ RemoveAll(s)
CFArrayChange(a) ==
  \/ \E v \in Values, i \in 1..MaxItems :
       ArrayAppend(a, v) \/ ArrayInsert(a, i, v) \/ ArraySet(a, i, v) \/ ArrayRemove(a, i)
  \/ RemoveAll(a)

Change ==
  /\ \/ \E d \in OfKind("Dictionary") : CFDictionaryChange(d)
     \/ \E s \in OfKind("Set") : CFSetChange(s)
     \/ \E a \in OfKind("Array") : CFArrayChange(a)
  /\ \A h \in Handles : Len(objects'[h].items) <= MaxItems
  /\ UNCHANGED <<next, host, lost>>

ONext ==
  /\ calls < MaxCalls /\ calls' = calls + 1
  /\ \/ \E t \in Texts : CFStringCreate(t) \/ NSString(t)
     \/ Cardinality(Containers) < MaxContainers /\ Create
     \/ Change
     \/ \E d \in OfKind("Dictionary"), result \in {"none", "opaque"} \cup Texts : SecItem(d, result)
     \/ \E e \in OfKind("Enumerator") :
          NextObject(e) \/ (Cardinality(Containers) < MaxContainers /\ AllObjects(e))

OSpec == OInit /\ [][ONext]_applevars

-------------------------------------------------------------------------------

(* Types; what the runtime did not number itself is keyed by its pointer.  *)
OTypeOK ==
  /\ next \in 1..MaxObjects + 1
  /\ \A h \in Handles : /\ h \in Synthetic => objects[h].host = 0 /\ (h < next <=> h \in Known)
                        /\ objects[h].host \in {0, h}
  /\ \A p \in Pointers : host[p].refs \in Nat /\ lost[p] \in Nat

(* The books of the host's objects balance after every call: each has as   *)
(* many references as host containers hold it, plus the one of the handle  *)
(* that is its pointer (which the runtime never gives up, also when the    *)
(* container has changed since), plus those a failed bridge forgot.  So    *)
(* nothing else leaks, and no pointer the runtime can pass is freed.       *)
HostBalanced ==
  \A p \in Pointers :
    host[p].refs = Cardinality({<<q, i>> \in Pointers \X (1..2 * MaxItems) :
                                  i <= Len(host[q].items) /\ host[q].items[i] = p})
                   + (IF p \in Known THEN 1 ELSE 0) + lost[p]

Mirrors(v, p) ==
  CASE objects[v].host # 0 -> p = objects[v].host
    [] objects[v].kind = "String" -> host[p].text = objects[v].text
    [] OTHER -> TRUE

(* A host call gets what the guest put in: where a container has a copy,   *)
(* the copy holds its elements in order or, for a dictionary, the value of *)
(* the first of each group of equal keys.  (An element that is a container *)
(* and changed since is not in it as it is now: its own copy is dropped,   *)
(* not those that hold the copy.)                                          *)
ProxyMirrors ==
  \A c \in Known : objects[c].host # 0 /\ objects[c].kind \in {"Array", "Dictionary"} =>
    LET items == objects[c].items
        copy == host[objects[c].host].items
    IN IF objects[c].kind = "Array"
       THEN Len(copy) = Len(items) /\ \A i \in DOMAIN items : Mirrors(items[i], copy[i])
       ELSE \A i \in DOMAIN items :
              \/ \E j \in 1..i - 1 : Alike(items[j][1], items[i][1])
              \/ \E j \in DOMAIN copy : j % 2 = 1 /\ Mirrors(items[i][1], copy[j]) /\ Mirrors(items[i][2], copy[j + 1])

(* The host's copies are neither lost, nor freed, nor stale.                *)
CopiesSound == HostBalanced /\ ProxyMirrors

Twins(c) == LET items == objects[c].items
                key(i) == IF objects[c].kind = "Dictionary" THEN items[i][1] ELSE items[i]
            IN {ij \in (DOMAIN items) \X (DOMAIN items) : ij[1] < ij[2] /\ Same(key(ij[1]), key(ij[2]))}

(* A set has no two equal elements, and no sequence of set, add, replace   *)
(* and remove brings equal keys into a dictionary that was not created     *)
(* with them, although equality is by text and handles are distinct.       *)
UniqueKept ==
  [][\A c \in Handles : objects'[c] # objects[c] =>
       /\ objects[c].kind = "Dictionary" => Cardinality(Twins(c)') <= Cardinality(Twins(c))
       /\ objects'[c].kind = "Set" => Twins(c)' = {}]_applevars

(* A key that was removed is not found again, neither by another handle    *)
(* with its text nor in the host's copy, which still has it.               *)
RemovedKeyGone ==
  [][\A d \in Handles : objects[d].kind = "Dictionary" /\ objects'[d] # objects[d] =>
       \A k \in Strings :
         /\ KeyIndex(d, k) # 0 /\ DictionaryRemove(d, k)
         /\ \A i \in DOMAIN objects[d].items : Alike(objects[d].items[i][1], k) => i = KeyIndex(d, k)
         => \A l \in Strings : Alike(k, l) => Lookup(d, l)' = 0]_applevars

(* What keys are to the containers of the guest, by both of the above.      *)
KeysKept == UniqueKept /\ RemovedKeyGone

(* The objects of the guest and the host's copies of them, through every    *)
(* mutation, bridge and release: nothing freed in use, stale or doubled.    *)
ObjectsHonest == []CopiesSound /\ KeysKept
===============================================================================
