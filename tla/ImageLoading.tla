------------------------------ MODULE ImageLoading ------------------------------
(***************************************************************************)
(* The start of a guest without dyld: guest libraries are mapped behind    *)
(* the executable, every import gets a stub or an export of a library, the *)
(* chains of fixups are walked, the symbol pointers are patched and the    *)
(* initialisers and terminators are collected; then dlopen, dlsym and      *)
(* dlclose of the guest.                                                   *)
(*                                                                         *)
(* A name is a letter with leading underscores and perhaps a `$` suffix.   *)
(* Addresses say what is there: a stub, an export of an image, a data      *)
(* symbol, a place in an image, done_addr.                                 *)
(***************************************************************************)
EXTENDS Integers, Sequences, FiniteSets, SequencesExt

CONSTANTS Mains, Libraries,     \* the images that may be loaded
          Hooked,       \* names with an exact hook, spelt with the underscore
          Proxied,      \* normal forms that the host serves
          Dispatched,   \* normal forms that a hook on all dynamic stubs serves
          DataNames,    \* normal forms of data symbols
          DlNames,      \* names a guest asks dlsym for
          Reserved,     \* buckets of done_addr and of the thread exit stub
          Buckets,      \* buckets of the stub region
          PageSize, LoadGap,
          MaxLibraries, MaxHandles      \* bounds of the model

ASSUME LoadAssumption ==
  /\ {PageSize, LoadGap, Buckets} \subseteq Nat \ {0}
  /\ Reserved \subseteq 0..(Buckets - 1) /\ {MaxLibraries, MaxHandles} \subseteq Nat

VARIABLES images,       \* the executable, then GuestLibrarySet::images
          ranges,       \* mapped_range of each image
          phase,        \* the step of the start that comes next
          undefs,       \* the imports of all images
          stubs,        \* stub_map: name -> address
          named,        \* stub_name_map: bucket -> name
          next,         \* next_dynamic_stub_addr, as a bucket
          slots,        \* pointers in the data of each image
          inits,        \* what the trampoline calls before main
          handlers,     \* exit_handlers
          handles,      \* handle -> image, or Self or Unknown
          dynamic       \* dynamic_symbols: name -> address
loadvars == <<images, ranges, phase, undefs, stubs, named, next, slots, inits, handlers, handles, dynamic>>

StubAt(b) == [kind |-> "stub", at |-> b]
Export(i, n) == [kind |-> "export", image |-> i, name |-> n]
Data(n) == [kind |-> "data", name |-> n]
Own(i, offset) == [kind |-> "own", image |-> i, offset |-> offset]
Done == [kind |-> "done"]
Absent == [kind |-> "none"]
Local == [letter |-> "local", under |-> 0, alt |-> FALSE]
TlvBootstrap == [letter |-> "tlv", under |-> 2, alt |-> FALSE]
Self == 0
Unknown == -1
Closed == -2

-------------------------------------------------------------------------------
(***************************************************************************)
(* Names.                                                                  *)
(***************************************************************************)
\* normalize_darwin_import_name: no suffix, and one underscore of one or of three.
Normal(n) == [n EXCEPT !.alt = FALSE, !.under = IF @ \in {0, 2} THEN @ ELSE @ - 1]
Forms(n) == {n, [n EXCEPT !.under = @ + 1]} \cup {[n EXCEPT !.under = u] : u \in {n.under - 1} \cap Nat}
Keys(n) == Forms(n) \cup IF n.alt THEN Forms([n EXCEPT !.alt = FALSE]) ELSE {}
\* An underscore sorts before a letter.
Before(m, n) == \/ m.under > n.under
                \/ m.under = n.under /\ ~m.alt /\ n.alt
Sorted(S) == SetToSortSeq(S, Before)
Lookup(map, n, other) ==
  IF n \in DOMAIN map THEN map[n] ELSE IF Normal(n) \in DOMAIN map THEN map[Normal(n)] ELSE other
DataOf(n) == IF n \in DataNames \/ Normal(n) \in DataNames THEN Data(Normal(n)) ELSE Absent

HasHook(n) == n \in Hooked
IsProxied(n) == Normal(n) \in Proxied
CanResolve(n) == ~IsProxied(n) /\ ~HasHook(n)

\* GuestLibrarySet: the exports of every library under all their keys, in the order of
\* loading.
\* Mutant: the last library of a name wins.
Entries(key) ==
  FlattenSeq([i \in DOMAIN images |->
    IF i = 1 THEN <<>>
    ELSE LET found == SelectSeq(Sorted(images[i].defined), LAMBDA e : key \in Keys(e))
         IN [k \in DOMAIN found |-> Export(i, found[k])]])
ChosenLast(entries) == IF entries = <<>> THEN Absent ELSE Last(entries)
Chosen(entries) == IF entries = <<>> THEN Absent ELSE Head(entries)
\* Only the image that a handle names is asked, if it names one.
Resolve(image, n) ==
  LET answers == SelectSeq([k \in DOMAIN Sorted(Keys(n)) |->
                    Chosen(SelectSeq(Entries(Sorted(Keys(n))[k]), LAMBDA e : image \in {Self, e.image}))],
                    LAMBDA a : a # Absent)
  IN IF answers = <<>> THEN Absent ELSE Head(answers)

-------------------------------------------------------------------------------
(***************************************************************************)
(* The start.  An image is [base, size, undefs, chained, defined, format,  *)
(* starts, slots, inits, terms]; base and size are of its segments.        *)
(***************************************************************************)
AlignUp(n, k) == ((n + k - 1) \div k) * k
Max2(a, b) == IF a < b THEN b ELSE a

LoadInit ==
  /\ \E main \in Mains : images = <<main>> /\ slots = <<main.slots>>
                         /\ ranges = <<[from |-> main.base, to |-> main.base + main.size]>>
  /\ phase = "libraries" /\ undefs = <<>> /\ stubs = <<>> /\ named = <<>> /\ next = 0
  /\ inits = <<>> /\ handlers = <<>> /\ handles = <<>> /\ dynamic = <<>>

\* from_specs and map_into: every library starts behind the one before it.
MapLibrary(image) ==
  LET requested == AlignUp(Last(ranges).to + LoadGap, LoadGap)
      from == AlignUp(Max2(requested, image.base), PageSize)
  IN /\ phase = "libraries" /\ Len(images) <= MaxLibraries
     /\ images' = Append(images, image) /\ slots' = Append(slots, image.slots)
     /\ ranges' = Append(ranges, [from |-> from, to |-> from + image.size])
     /\ UNCHANGED <<phase, undefs, stubs, named, next, inits, handlers, handles, dynamic>>

IfMissing(list, n) ==
  IF \E k \in DOMAIN list : list[k] = n \/ Normal(list[k]) = Normal(n) THEN list ELSE Append(list, n)
CollectImports ==
  /\ phase = "libraries" /\ phase' = "stubs"
  /\ LET more == FlattenSeq([i \in DOMAIN images |->
                   (IF i = 1 THEN <<>> ELSE images[i].undefs) \o images[i].chained])
     IN undefs' = FoldLeft(IfMissing, images[1].undefs, more)
  /\ UNCHANGED <<images, ranges, stubs, named, next, slots, inits, handlers, handles, dynamic>>

\* The next bucket that is neither done_addr nor the thread exit stub.
Free(b) == CHOOSE c \in b..(b + Cardinality(Reserved)) :
             c \notin Reserved /\ \A d \in b..(c - 1) : d \in Reserved
InstallStubs ==
  LET wanted == IF \E k \in DOMAIN undefs : undefs[k] = TlvBootstrap THEN undefs
                ELSE Append(undefs, TlvBootstrap)
      place(r, n) == [stubs |-> [m \in {n} \cup DOMAIN r.stubs |->
                                   IF m = n THEN StubAt(Free(r.next)) ELSE r.stubs[m]],
                      next |-> Free(r.next) + 1]
      placed == FoldLeft(place, [stubs |-> <<>>, next |-> 0], wanted)
  IN /\ phase = "stubs" /\ phase' = "bindings"
     /\ next' = placed.next
     /\ named' = [b \in {placed.stubs[n].at : n \in DOMAIN placed.stubs} |->
                    CHOOSE n \in DOMAIN placed.stubs : placed.stubs[n] = StubAt(b)]
     \* The map is walked in an order of its own: one of the names that share a normal
     \* form lends its stub to it.
     /\ \E lender \in [{Normal(n) : n \in DOMAIN placed.stubs} \ DOMAIN placed.stubs -> DOMAIN placed.stubs] :
          /\ \A m \in DOMAIN lender : Normal(lender[m]) = m
          /\ stubs' = [m \in DOMAIN placed.stubs \cup DOMAIN lender |->
                         IF m \in DOMAIN lender THEN placed.stubs[lender[m]] ELSE placed.stubs[m]]
     /\ UNCHANGED <<images, ranges, undefs, slots, inits, handlers, handles, dynamic>>

\* apply_import_bindings.
Bound(map, n) ==
  IF ~CanResolve(n) \/ Resolve(Self, n) = Absent THEN map
  ELSE [m \in Keys(n) \cup DOMAIN map |-> IF m \in Keys(n) THEN Resolve(Self, n) ELSE map[m]]
BindLibraries ==
  /\ phase = "bindings" /\ phase' = "fixups"
  /\ stubs' = FoldLeft(Bound, stubs, undefs)
  /\ UNCHANGED <<images, ranges, undefs, named, next, slots, inits, handlers, handles, dynamic>>

\* An entry of a chain: the slot to patch, and what follows.  Of a rebase in the
\* format of addresses the code adds the base to an address, and takes for a tag what
\* is the upper part of the stride.
ImportValue(i, k) ==
  LET n == images[i].chained[k]
      own == {m \in {n, Normal(n)} : m \in images[i].defined}
  IN IF k \notin DOMAIN images[i].chained THEN Done
     ELSE IF DataOf(n) # Absent THEN DataOf(n)
     ELSE IF own # {} THEN Export(i, IF n \in own THEN n ELSE Normal(n))
     ELSE Lookup(stubs, n, Done)
Fixed(i, entry) ==
  IF entry.kind = "bind" THEN ImportValue(i, entry.import)
  ELSE IF images[i].format = "offsets" THEN Own(i, entry.target)
  ELSE IF entry.stride = "long" THEN [kind |-> "tagged"]
  ELSE Own(i, entry.target + images[i].base)
\* walk_chain_64: at most as many steps as there are slots; a slot that cannot be read
\* ends all.
Walk(i, r, start) ==
  LET step(w, k) ==
        IF w.at = 0 \/ ~w.ok THEN w
        ELSE IF w.at \notin DOMAIN w.slots THEN [w EXCEPT !.ok = FALSE]
        ELSE LET entry == w.slots[w.at].value
             IN [w EXCEPT !.slots[w.at].value = Fixed(i, entry),
                          !.at = IF entry.next = 0 THEN 0 ELSE @ + entry.next]
  IN IF ~r.ok \/ images[i].format \notin {"offsets", "addresses"} THEN r
     ELSE FoldLeft(step, [r EXCEPT !.at = start], [k \in DOMAIN r.slots |-> k])
Walked(i) ==
  FoldLeft(LAMBDA r, start : Walk(i, r, start), [slots |-> slots[i], at |-> 0, ok |-> TRUE], images[i].starts).slots
WalkChains ==
  /\ phase = "fixups" /\ phase' = "pointers"
  /\ slots' = [i \in DOMAIN images |-> Walked(i)]
  /\ UNCHANGED <<images, ranges, undefs, stubs, named, next, inits, handlers, handles, dynamic>>

\* patch_arm64_symbol_pointers: the pointers of the indirect symbol table, the thunks
\* of thread variables, and data that looks like an import.
Patched(i, slot) ==
  LET imports == IF i = 1 THEN undefs ELSE images[i].undefs
  IN CASE slot.place = "pointers" ->
            IF slot.name = Local THEN Done
            ELSE IF DataOf(slot.name) # Absent THEN DataOf(slot.name)
            ELSE Lookup(stubs, slot.name, Done)
       [] slot.place = "thunks" -> stubs[TlvBootstrap]
       [] slot.place = "data" /\ slot.value.kind = "bind" /\ slot.value.import \in DOMAIN imports ->
            LET n == imports[slot.value.import]
            IN IF n \in DOMAIN stubs THEN stubs[n] ELSE Done
       [] OTHER -> slot.value
PatchPointers ==
  /\ phase = "pointers" /\ phase' = "initialisers"
  /\ slots' = [i \in DOMAIN slots |-> [k \in DOMAIN slots[i] |->
                 [slots[i][k] EXCEPT !.value = Patched(i, slots[i][k])]]]
  /\ UNCHANGED <<images, ranges, undefs, stubs, named, next, inits, handlers, handles, dynamic>>

\* The libraries come before the executable, in both lists; a pointer of a library
\* that does not lie in it is left out.
LibrariesFirst(of) ==
  FlattenSeq([i \in 1..(Len(images) - 1) |-> of[i + 1]]) \o of[1]
Pointers(i, list) == [k \in 1..list |-> Own(i, k)]
Collect ==
  /\ phase = "initialisers" /\ phase' = "run"
  /\ inits' = LibrariesFirst([i \in DOMAIN images |-> Pointers(i, images[i].inits)])
  /\ handlers' = LibrariesFirst([i \in DOMAIN images |-> Pointers(i, images[i].terms)])
  /\ UNCHANGED <<images, ranges, undefs, stubs, named, next, slots, handles, dynamic>>

-------------------------------------------------------------------------------
(***************************************************************************)
(* dlopen, dlsym and dlclose.  Any path gets a handle.                     *)
(***************************************************************************)
Dlopen(image) ==
  /\ phase = "run" /\ Len(handles) < MaxHandles
  /\ handles' = Append(handles, image)
  /\ UNCHANGED <<images, ranges, phase, undefs, stubs, named, next, slots, inits, handlers, dynamic>>
Dlclose(h) ==
  /\ phase = "run" /\ h \in DOMAIN handles
  /\ handles' = [handles EXCEPT ![h] = Closed]
  /\ UNCHANGED <<images, ranges, phase, undefs, stubs, named, next, slots, inits, handlers, dynamic>>

Underscored(n) == IF n.under = 0 THEN [n EXCEPT !.under = 1] ELSE n
Dynamic(n) == IsProxied(n) \/ Normal(n) \in Dispatched \/ HasHook(n) \/ HasHook(Underscored(n))
Known(h) == h = Self \/ (h \in DOMAIN handles /\ handles[h] # Closed)
Exported(h, n) ==
  IF ~Known(h) \/ ~CanResolve(n) THEN Absent
  ELSE Resolve(IF h = Self THEN Self ELSE handles[h], n)
DlsymAnswer(h, n) ==
  IF Exported(h, n) # Absent THEN Exported(h, n)
  ELSE IF ~Known(h) \/ ~Dynamic(n) THEN Absent
  ELSE IF n \in DOMAIN dynamic THEN dynamic[n]
  ELSE StubAt(Free(next))
\* allocate_arm64_dynamic_import_stub; without room the call answers its argument.
Dlsym(h, n) ==
  /\ phase = "run" /\ h \in 0..MaxHandles
  /\ IF DlsymAnswer(h, n) = StubAt(Free(next)) /\ Free(next) < Buckets
     THEN /\ next' = Free(next) + 1
          /\ named' = [b \in {Free(next)} \cup DOMAIN named |-> IF b = Free(next) THEN n ELSE named[b]]
          /\ dynamic' = [m \in {n} \cup DOMAIN dynamic |-> IF m = n THEN StubAt(Free(next)) ELSE dynamic[m]]
     ELSE UNCHANGED <<next, named, dynamic>>
  /\ UNCHANGED <<images, ranges, phase, undefs, stubs, slots, inits, handlers, handles>>

LoadNext ==
  \/ \E image \in Libraries : MapLibrary(image)
  \/ CollectImports \/ InstallStubs \/ BindLibraries \/ WalkChains \/ PatchPointers \/ Collect
  \/ \E image \in {Self, Unknown} \cup 2..Len(images) : Dlopen(image)
  \/ \E h \in 0..MaxHandles : Dlclose(h)
  \/ \E h \in 0..MaxHandles, n \in DlNames : Dlsym(h, n)
LoadSpec == LoadInit /\ [][LoadNext]_loadvars

-------------------------------------------------------------------------------
(***************************************************************************)
(* What the guest may rely on.  The code takes `_f` and `__f` for keys of  *)
(* each other, and a second spelling of an import takes the stub of the    *)
(* first along to a library: Clear says that neither occurs.               *)
(***************************************************************************)
Mentioned ==
  {undefs[k] : k \in DOMAIN undefs} \cup DlNames \cup Hooked
    \cup UNION {images[i].defined : i \in DOMAIN images}
Clear ==
  /\ \A m, n \in Mentioned : m.letter = n.letter => Normal(m) = Normal(n)
  /\ \A j, k \in DOMAIN undefs : Normal(undefs[j]) = Normal(undefs[k]) => j = k

Exporters(n) == {i \in 2..Len(images) : \E e \in images[i].defined : Normal(e) = Normal(n)}
StubOf(a, n) == a.kind = "stub" /\ a.at \in DOMAIN named /\ Normal(named[a.at]) = Normal(n)
FromFirst(a, n) ==
  a.kind = "export" /\ Normal(a.name) = Normal(n) /\ a.image \in Exporters(n)
    /\ \A i \in Exporters(n) : a.image <= i
Serves(a, n) ==
  IF DataOf(n) # Absent THEN a = DataOf(n)
  ELSE IF CanResolve(n) /\ Exporters(n) # {} THEN FromFirst(a, n)
  ELSE StubOf(a, n)

PagesOf(r) == (r.from \div PageSize)..((r.to - 1) \div PageSize)
LibrariesApart ==
  \A i, j \in DOMAIN ranges : i # j => PagesOf(ranges[i]) \cap PagesOf(ranges[j]) = {}
BucketsKept == DOMAIN named \cap Reserved = {}
Linked == phase \in {"initialisers", "run"}
ImportsServed ==
  \A i \in DOMAIN slots : \A k \in DOMAIN slots[i] :
    LET slot == slots[i][k]
    IN slot.place \in {"pointers", "thunks"} /\ slot.name # Local => Serves(slot.value, slot.name)
InChains(image) ==
  FoldLeft(LAMBDA c, k : IF k \in c /\ image.slots[k].place = "data" THEN c \cup {k + image.slots[k].value.next} ELSE c,
           ToSet(image.starts), [k \in DOMAIN image.slots |-> k]) \cap DOMAIN image.slots
\* Offsets of the executable and of the libraries alike.
ChainsServed ==
  \A i \in DOMAIN slots : images[i].format = "offsets" =>
    \A k \in InChains(images[i]) :
      LET raw == images[i].slots[k].value
          now == slots[i][k].value
      IN slots[i][k].place = "data" =>
           IF raw.kind = "rebase" THEN now = Own(i, raw.target)
           ELSE LET n == images[i].chained[raw.import]
                IN Serves(now, n) \/ (now.kind = "export" /\ now.image = i /\ Normal(now.name) = Normal(n))
HooksOnStubs == \A n \in Hooked \cap DOMAIN stubs : StubOf(stubs[n], n)
DynamicOwn ==
  \A n \in DOMAIN dynamic :
    dynamic[n].at < Buckets /\ named[dynamic[n].at] = n /\ \A m \in DOMAIN stubs : stubs[m] # dynamic[n]
DynamicAgrees ==
  \A n \in DlNames \cap {undefs[k] : k \in DOMAIN undefs} :
    Exported(Self, n) # Absent => Exported(Self, n) = stubs[n]

\* Libraries share no page with each other or with the executable and no stub takes the
\* place of done_addr; an import is the data symbol, the export of the first library
\* that has it or its own stub, whichever of the tables and chains the image names it
\* by, the hooks of the emulator stay on stubs, dlsym answers what the static import
\* was bound to, and the stub it allocates is nobody else's.
LoadingHonest ==
  /\ LibrariesApart /\ BucketsKept /\ DynamicOwn
  /\ Linked /\ Clear => ImportsServed /\ ChainsServed /\ HooksOnStubs /\ DynamicAgrees
===============================================================================
