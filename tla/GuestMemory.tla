------------------------------- MODULE GuestMemory -------------------------------
(***************************************************************************)
(* The memory an arm64 guest gets at run time: the heap hooks (malloc,     *)
(* calloc, realloc, free, posix_memalign, operator new and delete), which  *)
(* bump one pointer and map behind it in chunks, and the mmap, munmap and  *)
(* mprotect hooks, which reserve regions that a fault maps page by page.   *)
(* Both map pages of the one Unicorn address space, so that each can get   *)
(* in the way of the other.                                                *)
(*                                                                         *)
(* An address counts quanta of 0x10 bytes and a word holds Word of them:   *)
(* sums that the code leaves unchecked wrap, those it saturates stop at    *)
(* Word - 1.  Abstracted: contents.  A refused hook returns without        *)
(* setting pc, runs the first instruction of its stub (x0 := 0) and is     *)
(* called again by the second, which its code range also covers.           *)
(***************************************************************************)
EXTENDS Naturals, Sequences, FiniteSets, SequencesExt

CONSTANTS Word,         \* quanta in the address space (2^64 bytes)
          Page,         \* quanta in a page
          Chunk,        \* quanta the heap maps at a time
          HeapBase,     \* malloc_next_addr at the start
          MmapBase, MmapEnd,    \* the arena of mmap
          Lengths,      \* sizes a guest asks for, the largest included
          Alignments,   \* alignments it asks for
          MaxMaps,      \* bound on calls of mmap, munmap and mprotect
          MaxBlocks     \* bound on blocks in use

ASSUME MemoryAssumption ==
  /\ {Word, Page, Chunk, HeapBase, MmapBase, MmapEnd, MaxMaps, MaxBlocks} \subseteq Nat
  /\ Page > 1 /\ Chunk >= Page /\ HeapBase > 0 /\ HeapBase % Page = 0
  /\ HeapBase < Word /\ MmapBase <= MmapEnd /\ MmapEnd < Word
  /\ Lengths \subseteq 0..Word - 1 /\ Alignments \subseteq 1..Word - 1

VARIABLES heap,         \* next, until, blocks, over: see Heap
          pages,        \* protection of each page, "none" when unmapped
          regions,      \* lazy_map_regions
          mmapNext,     \* mmap_next
          torn,         \* history: pages of the heap that the guest unmapped
          maps          \* calls of mmap, munmap and mprotect

memvars == <<heap, pages, regions, mmapNext, torn, maps>>

PageOf(a) == a \div Page
Pages == 0..PageOf(Word - 1)
PagesIn(from, to) == {p \in Pages : from <= p * Page /\ p * Page < to}
Larger(a, b) == IF a > b THEN a ELSE b
Smaller(a, b) == IF a < b THEN a ELSE b

\* align_up: an unchecked sum, then a mask.
AlignUp(v, a) == (((v + a - 1) % Word) \div a) * a
\* saturating_add
Sat(a, b) == Smaller(a + b, Word - 1)
Wraps(v, a) == v + a - 1 >= Word

MInit ==
  /\ heap = [next |-> HeapBase, until |-> HeapBase, blocks |-> {}, over |-> FALSE]
  /\ pages = [p \in Pages |-> "none"]
  /\ regions = <<>> /\ mmapNext = MmapBase /\ torn = {} /\ maps = 0

-------------------------------------------------------------------------------
(***************************************************************************)
(* The heap.  An allocation is the aligned address it starts at, the       *)
(* quanta it takes and the size it is recorded with.                       *)
(***************************************************************************)

\* ensure_malloc_range_mapped: where the mapping ends if it succeeds.
MapEnd(h, at, take) ==
  LET end == AlignUp(Sat(at, take), Page)
  IN IF h.until >= end THEN h.until
     ELSE AlignUp(Larger(end, Sat(h.until, Chunk)), Page)
\* Unicorn refuses to map an empty range or a page that is mapped.
Mappable(h, pg, at, take) ==
  LET to == MapEnd(h, at, take)
  IN \/ h.until >= AlignUp(Sat(at, take), Page)
     \/ h.until < to /\ \A p \in PagesIn(h.until, to) : pg[p] = "none"

\* Mutant: the pointer stops one page short of the block's end.
BumpedShort(h, at, take, size) == [h EXCEPT !.next = Sat(at, Larger(take, Page) - Page)]
\* The pointer moves before the range is mapped, and stays moved when it is not.
Bumped(h, at, take, size) == [h EXCEPT !.next = Sat(at, take)]

Recorded(h, at, size) ==
  [h EXCEPT !.blocks = {b \in @ : b.at # at} \cup {[at |-> at, size |-> size]}]

(* What a hook asks for: the alignment, the take and the recorded size of  *)
(* malloc, operator new and posix_memalign, which round up the size, and   *)
(* of calloc and realloc, which do not.                                    *)
Rounded(n, al) == LET s == AlignUp(Larger(n, 1), al)
                  IN [align |-> al, take |-> AlignUp(s, Page), size |-> s, fill |-> TRUE,
                      over |-> Wraps(Larger(n, 1), al) \/ Wraps(s, Page)]
Plain(n, fill) == LET s == Larger(n, 1)
                  IN [align |-> 1, take |-> AlignUp(s, Page), size |-> s, fill |-> fill,
                      over |-> Wraps(s, Page)]

\* One call of an allocating hook: the state after it and what it hands out,
\* 0 when the range cannot be mapped.
Attempt(s, ask) ==
  LET at == AlignUp(s.heap.next, ask.align)
      moved == [Bumped(s.heap, at, ask.take, ask.size) EXCEPT
                  !.over = @ \/ ask.over \/ Wraps(s.heap.next, ask.align)
                             \/ at + ask.take >= Word - Page]
      to == MapEnd(s.heap, at, ask.take)
  IN IF Mappable(s.heap, s.pages, at, ask.take)
     THEN [heap |-> Recorded([moved EXCEPT !.until = to], at, ask.size),
           pages |-> [p \in Pages |-> IF p \in PagesIn(s.heap.until, to) THEN "rw"
                                      ELSE s.pages[p]],
           got |-> at]
     ELSE [heap |-> moved, pages |-> s.pages, got |-> 0]

Here == [heap |-> heap, pages |-> pages, got |-> 0]
\* Refused, the hook runs once more with x0 = 0.
Twice(ask, again) == LET s == Attempt(Here, ask)
                     IN IF s.got # 0 THEN s ELSE Attempt(s, again)
\* A fill of more than half of the address space panics.
Fills(ask) == ask.fill => ask.size < Word \div 2
Settle(s) == heap' = s.heap /\ pages' = s.pages /\ UNCHANGED <<regions, mmapNext, torn, maps>>

Malloc(n) == /\ Fills(Rounded(n, 1))
             /\ Settle(Twice(Rounded(n, 1), Rounded(0, 1)))

OperatorNew(n) == /\ Fills(Rounded(n, 1)) /\ Settle(Attempt(Here, Rounded(n, 1)))

Calloc(n) == /\ Fills(Plain(n, TRUE))
             /\ Settle(Twice(Plain(n, TRUE), Plain(0, TRUE)))

\* The old block goes when the new one is recorded, and only then.
Without(h, old) == [h EXCEPT !.blocks = {b \in @ : b.at # old}]
Realloc(old, n) ==
  LET s == Twice(Plain(n, FALSE), Plain(n, FALSE))
      kept == [s EXCEPT !.heap = Recorded(Without(@, old), s.got, Larger(n, 1))]
  IN Settle(IF s.got # 0 /\ Attempt(Here, Plain(n, FALSE)).got # 0 THEN kept ELSE s)

\* The address goes to memptr, unless memptr cannot be written: then the block
\* stays recorded and EINVAL is returned.
PosixMemalign(al, n) ==
  /\ Fills(Rounded(n, al))
  /\ Settle(Twice(Rounded(n, al), Rounded(n, al)))

\* free and operator delete
Free(b) == /\ heap' = [heap EXCEPT !.blocks = @ \ {b}]
           /\ UNCHANGED <<pages, regions, mmapNext, torn, maps>>

-------------------------------------------------------------------------------
(***************************************************************************)
(* mmap, munmap, mprotect and the fault hook.  Regions are kept in the     *)
(* order they were reserved and may overlap; the first one found decides.  *)
(***************************************************************************)
Floor(a) == (a \div Page) * Page
EndOf(a, n) == Floor(Sat(Sat(a, n), Page - 1))
Whole(n) == AlignUp(Larger(n, Page), Page)
Region(a, b, prot) == [start |-> a, end |-> b, prot |-> prot]
Overlaps(r, a, b) == ~(b <= r.start \/ a >= r.end)
Holds(r, p) == r.start <= p * Page /\ p * Page < r.end

\* A hint is taken for the address, wherever it points.
Mmap(hint, n) ==
  LET len == Whole(n)
      at == AlignUp(IF hint = 0 THEN mmapNext ELSE hint, Page)
  IN /\ mmapNext' = IF hint = 0 THEN (mmapNext + len) % Word ELSE mmapNext
     /\ regions' = IF hint = 0 /\ Sat(at, len) > MmapEnd THEN regions
                   ELSE Append(regions, Region(Floor(at), EndOf(at, len), "rw"))
     /\ UNCHANGED <<heap, pages, torn>>

\* Mutant: the part of a region behind the hole is lost.
SplitHead(r, a, b) == IF ~Overlaps(r, a, b) THEN <<r>>
                      ELSE IF a > r.start THEN <<Region(r.start, a, r.prot)>> ELSE <<>>
\* What unmap_lazy_memory leaves of one region.
Split(r, a, b) ==
  IF ~Overlaps(r, a, b) THEN <<r>>
  ELSE (IF a > r.start THEN <<Region(r.start, a, r.prot)>> ELSE <<>>)
       \o (IF b < r.end THEN <<Region(b, r.end, r.prot)>> ELSE <<>>)

Munmap(a, n) ==
  LET from == Floor(a)
      to == EndOf(a, Whole(n))
  IN /\ regions' = FlattenSeq([i \in DOMAIN regions |-> Split(regions[i], from, to)])
     /\ pages' = [p \in Pages |-> IF p \in PagesIn(from, to) THEN "none" ELSE pages[p]]
     /\ torn' = torn \cup (PagesIn(from, to) \cap PagesIn(HeapBase, heap.until))
     /\ UNCHANGED <<heap, mmapNext>>

\* What protect_lazy_memory makes of one region.
Recut(r, a, b, prot) ==
  IF ~Overlaps(r, a, b) THEN <<r>>
  ELSE (IF a > r.start THEN <<Region(r.start, a, r.prot)>> ELSE <<>>)
       \o <<Region(Larger(a, r.start), Smaller(b, r.end), prot)>>
       \o (IF b < r.end THEN <<Region(b, r.end, r.prot)>> ELSE <<>>)

\* Where nothing was reserved, mprotect reserves.
Mprotect(a, n, prot) ==
  LET from == Floor(a)
      to == EndOf(a, Whole(n))
      cut == FlattenSeq([i \in DOMAIN regions |-> Recut(regions[i], from, to, prot)])
  IN /\ regions' = IF \E i \in DOMAIN regions : Overlaps(regions[i], from, to) THEN cut
                   ELSE Append(cut, Region(from, to, prot))
     /\ pages' = [p \in Pages |-> IF p \in PagesIn(from, to) /\ pages[p] # "none"
                                  THEN prot ELSE pages[p]]
     /\ UNCHANGED <<heap, mmapNext, torn>>

\* The fault hook: the first region that holds the address.
FirstHolding(p) == CHOOSE i \in DOMAIN regions :
                     Holds(regions[i], p) /\ \A j \in 1..i - 1 : ~Holds(regions[j], p)
Fault(p) ==
  /\ pages[p] = "none" /\ \E i \in DOMAIN regions : Holds(regions[i], p)
  /\ pages' = [pages EXCEPT ![p] = regions[FirstHolding(p)].prot]
  /\ UNCHANGED <<heap, regions, mmapNext, torn, maps>>

\* Bound: once a sum wrapped, the heap is not followed any further.
HeapStep ==
  /\ ~heap.over
  /\ \/ \E n \in Lengths : Malloc(n) \/ OperatorNew(n) \/ Calloc(n)
     \/ \E n \in Lengths, al \in Alignments : PosixMemalign(al, n)
     \/ \E b \in heap.blocks : Free(b) \/ \E n \in Lengths : Realloc(b.at, n)

MapCall ==
  \/ \E n \in Lengths : \E hint \in {0, HeapBase + Chunk} : Mmap(hint, n)
  \/ \E p \in Pages, n \in Lengths :
       /\ \E i \in DOMAIN regions : Holds(regions[i], p)
       /\ \/ Munmap(p * Page, n)
          \/ \E prot \in {"rw", "ro"} : Mprotect(p * Page, n, prot)

MNext == /\ \/ HeapStep
            \/ maps < MaxMaps /\ maps' = maps + 1 /\ MapCall
            \/ \E p \in Pages : Fault(p)
         /\ Cardinality(heap'.blocks) <= MaxBlocks
MSpec == MInit /\ [][MNext]_memvars

-------------------------------------------------------------------------------

(* Types: pages have a protection, regions are page ranges in order.       *)
MTypeOK ==
  /\ pages \in [Pages -> {"none", "rw", "ro"}]
  /\ heap.next \in 0..Word - 1 /\ heap.until \in 0..Word /\ heap.over \in BOOLEAN
  /\ \A b \in heap.blocks : b.at \in 0..Word - 1 /\ b.size \in 0..Word
  /\ \A i \in DOMAIN regions :
       {regions[i].start, regions[i].end} \subseteq 0..Word /\ regions[i].prot \in {"rw", "ro"}
  /\ torn \subseteq Pages

(* As long as no size or address left the word, the blocks of the heap do  *)
(* not overlap, end before the pointer, and lie in pages that are mapped   *)
(* unless the guest unmapped them.  A size near 2^64 passes every check of *)
(* realloc (aligned wraps to nothing), and then the next malloc hands out  *)
(* the same address: `over` is where the code stops being right.           *)
HeapSound ==
  ~heap.over =>
    /\ \A b \in heap.blocks : b.at + b.size <= heap.next
    /\ \A b, c \in heap.blocks : b = c \/ b.at + b.size <= c.at \/ c.at + c.size <= b.at
    /\ \A b \in heap.blocks : \A p \in PageOf(b.at)..PageOf(b.at + b.size - 1) :
         pages[p] # "none" \/ p \in torn

(* Every page outside the heap's own mapping belongs to a reserved region  *)
(* and has the protection of the first region that holds it, whatever      *)
(* munmap and mprotect cut out of regions before or after it was touched:  *)
(* unmapped memory never stays accessible, nor read-only memory writable.  *)
PagesAccounted ==
  \A p \in Pages : pages[p] # "none" =>
    \/ p \in PagesIn(HeapBase, heap.until)
    \/ /\ \E i \in DOMAIN regions : Holds(regions[i], p)
       /\ pages[p] = regions[FirstHolding(p)].prot

(* The heap and the mappings around it, by both of the above.               *)
MemorySound == HeapSound /\ PagesAccounted
===============================================================================
