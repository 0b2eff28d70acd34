----------------------------- MODULE MachoLoading -----------------------------
(***************************************************************************)
(* MachOLoader: what a parsed file leaves in guest memory.  Its segments   *)
(* are written, then dyld is loaded beside it or its pointers are bound    *)
(* without dyld, the stack is filled and the registers are set; a kernel   *)
(* extension is relocated instead.  Every `?` of the code ends the load.   *)
(*                                                                         *)
(* Memory is counted in bytes, the stack in words and the tables of        *)
(* pointers in slots.                                                      *)
(***************************************************************************)
EXTENDS MachoFiles

CONSTANTS Machos,        \* the files, with what their surroundings hold
          Page,          \* PAGE_SIZE
          MmapAddress,   \* mmap_address
          LoadBase,      \* loadbase of a kernel extension, a multiple of Low
          Low,           \* a relocation of less than 8 bytes keeps values modulo Low
          DataSymbols, StubSymbols, SyscallSymbols,  \* names the synthetic imports know
          KernelSymbols  \* kernel_symbols: name -> value

VARIABLES macho,    \* what is loaded, constant
          loader    \* MachOLoader and the guest it writes to

machovars == <<macho, loader>>

Stripped(name) == [name EXCEPT !.under = 0]
Larger(a, b) == IF a >= b THEN a ELSE b
Failed(l) == [l EXCEPT !.stage = "failed"]
Slide == IF macho.driver THEN LoadBase ELSE 0

LoaderInit ==
  loader = [stage |-> "parse", walk |-> NoFile, next |-> 1, vmEnd |-> 0, kextSize |-> 0, dyld |-> FALSE, entry |-> 0,
            mem |-> [a \in macho.mapped |-> 0], pointers |-> [p \in DOMAIN macho.pointers |-> "raw"],
            chain |-> [k \in DOMAIN macho.chain |-> "raw"], mirror |-> [k \in DOMAIN macho.mirror |-> "raw"],
            stack |-> <<>>, regs |-> <<>>]
MachoInit == macho \in Machos /\ LoaderInit

ParseFile ==
  /\ loader.stage = "parse"
  /\ LET w == Parse(macho.input)
     IN loader' = IF ~w.ok THEN Failed([loader EXCEPT !.walk = w])
                  ELSE [loader EXCEPT !.stage = "segments", !.walk = w, !.vmEnd = IF macho.driver THEN 0 ELSE MmapAddress]

-------------------------------------------------------------------------------
(***************************************************************************)
(* Segments.                                                               *)
(***************************************************************************)
PageUp(n) == ((n + Page - 1) \div Page) * Page
Skipped(c) == c.vmsize = 0 \/ c.name = "__PAGEZERO"
\* Zeros fill the last page, but not what is missing in front of a page's end.
Contents(f, w, c, slide) ==
  LET end == c.vmaddr + c.vmsize + slide
      size == IF end % Page = 0 THEN c.filesize ELSE PageUp(end) - c.vmaddr - slide
      data == SegmentData(f, w, c.name)
  IN [i \in 1..Larger(size, Len(data)) |-> IF i <= Len(data) THEN data[i] ELSE 0]
Written(l, f, w, c, slide) ==
  LET data == Contents(f, w, c, slide)
      at == c.vmaddr + slide
      cells == {at + i - 1 : i \in DOMAIN data}
  IN IF Skipped(c) THEN l
     ELSE IF ~(cells \subseteq DOMAIN l.mem) THEN Failed(l)
     ELSE [l EXCEPT !.mem = [a \in DOMAIN @ |-> IF a \in cells THEN data[a - at + 1] ELSE @[a]],
                    !.vmEnd = Larger(@, PageUp(at + c.vmsize))]

LoadSegment ==
  /\ loader.stage = "segments"
  /\ LET segments == SegmentsOf(loader.walk)
         f == Subject(macho.input)
     IN loader' = IF loader.next \in DOMAIN segments
                  THEN [Written(loader, f, loader.walk, segments[loader.next], Slide) EXCEPT !.next = @ + 1]
                  ELSE [loader EXCEPT !.stage = IF macho.driver THEN "relocate" ELSE "link"]

\* Where the last thread or main command of a file starts.
EntryOf(w) ==
  LET starts == SelectSeq(w.read, LAMBDA r : r.command.kind \in {"unixthread", "main"})
  IN IF starts = <<>> THEN 0
     ELSE Last(starts).entry + IF Last(starts).command.kind = "main" THEN PageZero(w) ELSE 0

-------------------------------------------------------------------------------
(***************************************************************************)
(* Pointers without dyld: synthetic imports, or else the first `ret` of    *)
(* the text.  An image is arm64 when its 64-bit header says so.            *)
(***************************************************************************)
IsArm64 == Subject(macho.input).bits = 64 /\ Subject(macho.input).cpu = "arm64"
Unresolved == <<"unresolved">>
KnownAs(set, name) == name \in set \/ Stripped(name) \in set
\* addr_for_symbol, and the data symbols first except for __nl_symbol_ptr.
ImportAddress(name) ==
  CASE name = NoName -> Unresolved
    [] name \in StubSymbols -> <<"stub", name>>
    [] name \notin StubSymbols /\ Stripped(name) \in StubSymbols -> <<"stub", Stripped(name)>>
    [] ~KnownAs(StubSymbols, name) /\ Stripped(name) \in SyscallSymbols -> <<"syscall", Stripped(name)>>
    [] OTHER -> Unresolved
PointerAddress(p) ==
  IF p.section # "nl" /\ p.name # NoName /\ KnownAs(DataSymbols, p.name) THEN <<"data", Stripped(p.name)>>
  ELSE ImportAddress(p.name)
\* The sections are patched in this order, up to a slot that cannot be written.
Turns == <<"lazy", "nl", "got">>
TurnOf(p) == CHOOSE t \in 1..3 : Turns[t] = p.section
Reached(p) ==
  LET Before(q) == TurnOf(macho.pointers[q]) < TurnOf(macho.pointers[p])
                     \/ (TurnOf(macho.pointers[q]) = TurnOf(macho.pointers[p]) /\ q <= p)
  IN \A q \in DOMAIN macho.pointers : Before(q) => macho.pointers[q].writable
PatchedPointers == [p \in DOMAIN macho.pointers |-> IF Reached(p) THEN PointerAddress(macho.pointers[p]) ELSE "raw"]
PatchFails == \E p \in DOMAIN macho.pointers : ~macho.pointers[p].writable

ChainImport(name) ==
  LET defined == DefinedSymbols(Subject(macho.input))
      Exact == IF name \in DOMAIN defined THEN name ELSE Stripped(name)
  IN CASE KnownAs(DataSymbols, name) -> <<"data", Stripped(name)>>
       [] ~KnownAs(DataSymbols, name) /\ Exact \in DOMAIN defined -> <<"defined", defined[Exact]>>
       [] ~KnownAs(DataSymbols \cup DOMAIN defined, name) /\ KnownAs(StubSymbols, name) ->
            <<"stub", IF name \in StubSymbols THEN name ELSE Stripped(name)>>
       [] OTHER -> Unresolved
Link(e) ==
  IF ~e.bind THEN <<"rebased", e.to>>
  ELSE IF e.to <= Len(macho.imports) THEN ChainImport(macho.imports[e.to]) ELSE Unresolved
Visited(entries) ==
  FoldLeft(LAMBDA v, k : IF k # v.at THEN v
                         ELSE [at |-> IF entries[k].gap = 0 THEN 0 ELSE k + entries[k].gap, seen |-> v.seen \cup {k}],
           [at |-> 1, seen |-> {}], [k \in DOMAIN entries |-> k]).seen
\* The starts may be of a kind that is left alone.
ChainFixed ==
  [k \in DOMAIN macho.chain |-> IF macho.starts /\ k \in Visited(macho.chain) THEN Link(macho.chain[k]) ELSE "raw"]
\* A segment the chain table does not list, but that begins like a chain.
MirrorFound == macho.mirror # <<>> /\ macho.mirror[1].bind /\ macho.mirror[1].gap # 0 /\ macho.mirror[1].to <= Len(macho.imports)
\* It is put where the chain was, or read by itself when no chain was followed.
MirrorFixed(fixed) ==
  [k \in DOMAIN macho.mirror |->
     IF ~MirrorFound \/ k \notin Visited(macho.mirror) THEN "raw"
     ELSE IF macho.starts THEN fixed[k] ELSE Link(macho.mirror[k])]

\* apply_arm64_no_dyld_stub_fallback: nothing of the synthetic imports is taken back.
Gadget(l) ==
  IF macho.ret = 0 THEN l
  ELSE IF \E p \in DOMAIN macho.pointers : macho.pointers[p].section # "got" /\ ~macho.pointers[p].writable THEN Failed(l)
  ELSE [l EXCEPT !.pointers = [p \in DOMAIN @ |-> IF macho.pointers[p].section = "got" THEN @[p] ELSE <<"ret", macho.ret>>]]
\* Both kinds of pointers are tried, whatever becomes of the first.
Synthetic(l) ==
  LET patched == [l EXCEPT !.pointers = PatchedPointers]
      chained == [patched EXCEPT !.chain = ChainFixed, !.mirror = MirrorFixed(ChainFixed)]
  IN IF ~IsArm64 THEN l
     ELSE IF ~macho.installs THEN Gadget(l)
     ELSE IF ~macho.chainReads THEN Gadget(patched)
     ELSE IF PatchFails THEN Gadget(chained) ELSE chained

-------------------------------------------------------------------------------
(***************************************************************************)
(* dyld, when it is asked for and the file names one.  `disk` holds what   *)
(* is found at each place that is searched, in the order of the search.    *)
(***************************************************************************)
Found(disk) == SelectSeq(disk, LAMBDA place : place # "nothing")
Wanted == macho.wanted /\ \E k \in DOMAIN loader.walk.read : loader.walk.read[k].command.kind = "dylinker"
LoadDyld(l) ==
  LET w == Parse(macho.dyld)
      loaded == FoldLeft(LAMBDA m, c : IF m.stage = "failed" THEN m ELSE Written(m, Subject(macho.dyld), w, c, 0), l, SegmentsOf(w))
  IN IF Head(Found(macho.disk)) = "text" \/ ~w.ok THEN Failed(l) ELSE [loaded EXCEPT !.dyld = TRUE, !.entry = EntryOf(w)]

LinkImage ==
  /\ loader.stage = "link"
  /\ LET l == [loader EXCEPT !.stage = "stack", !.entry = EntryOf(loader.walk)]
     IN loader' = IF Wanted /\ Found(macho.disk) # <<>> THEN LoadDyld(l) ELSE Synthetic(l)

-------------------------------------------------------------------------------
(***************************************************************************)
(* The stack, from its lowest word on, and the registers.  Strings are     *)
(* numbered as they lie in the block, which is put together back to front. *)
(***************************************************************************)
Block == FoldLeft(LAMBDA block, s : <<s>> \o block, <<>>, <<"apple", "env", "argv">>)
Pushed(stack, words) == FoldLeft(LAMBDA s, v : <<v>> \o s, stack, words)
HeaderWord == IF loader.dyld THEN <<[header |-> PageZero(loader.walk)]>> ELSE <<>>
Room == macho.stack.words
AddressOf(p) == macho.stack.at + Room - Len(loader.stack) + p - 1

SetUpStack ==
  /\ loader.stage = "stack"
  /\ LET stack == Pushed(<<>>, <<0, 3, 0, 2, 0, 1, Len(<<"argv">>)>> \o HeaderWord)
     IN loader' = IF Len(stack) > Room THEN Failed(loader)
                  ELSE [loader EXCEPT !.stack = stack, !.stage = "registers"]

\* stack_vector_end: the word behind the first zero.
VectorEnd(from) == 1 + CHOOSE p \in from..Len(loader.stack) :
                     loader.stack[p] = 0 /\ \A q \in from..(p - 1) : loader.stack[q] # 0
Threads == SelectSeq(loader.walk.read, LAMBDA r : r.command.kind = "unixthread")
HasRegisters == Threads # <<>> /\ Threads[1].command.flavor = "arm64" /\ Threads[1].registers
SavedStack(saved) == saved.sp \in macho.stack.at..(macho.stack.at + Room)

SetUpRegisters ==
  /\ loader.stage = "registers"
  /\ LET saved == Registers(Threads[1].command)
         envp == VectorEnd(2)
     IN loader' = [loader EXCEPT !.stage = "ready", !.regs =
          IF HasRegisters
          THEN [pc |-> saved.pc, x0 |-> saved.x0, x1 |-> 0, x2 |-> 0, x3 |-> 0,
                sp |-> IF SavedStack(saved) THEN saved.sp ELSE AddressOf(1)]
          ELSE [pc |-> loader.entry, x0 |-> loader.stack[1], x1 |-> 2, x2 |-> envp, x3 |-> VectorEnd(envp), sp |-> AddressOf(1)]]

-------------------------------------------------------------------------------
(***************************************************************************)
(* Relocations of a kernel extension, the local ones first.  An external   *)
(* one is bound to what the kernel or the file defines, with or without    *)
(* underscores, or to its own value; otherwise it is left.                 *)
(***************************************************************************)
Kept(value, r) == IF r.wide THEN value ELSE value % Low
RelocateLocal(l, r) ==
  LET at == LoadBase + r.at
  IN IF at \notin DOMAIN l.mem THEN l ELSE [l EXCEPT !.mem[at] = Kept(@ + LoadBase, r)]
SymbolAddress(name, value) ==
  LET defined == DefinedSymbols(Subject(macho.input))
      bare == Stripped(name)
  IN IF name \in DOMAIN KernelSymbols THEN KernelSymbols[name]
     ELSE IF bare \in DOMAIN KernelSymbols THEN KernelSymbols[bare]
     ELSE IF name \in DOMAIN defined THEN LoadBase + defined[name]
     ELSE IF bare \in DOMAIN defined THEN LoadBase + defined[bare]
     ELSE IF value # 0 THEN LoadBase + value ELSE 0
RelocateExternal(l, r) ==
  LET s == SymbolAt(Subject(macho.input), r.symbol)
      value == SymbolAddress(SymbolName(s), s.value)
      at == LoadBase + r.at
  IN IF l.stage = "failed" \/ s = Padding \/ value = 0 THEN l
     ELSE IF at \notin DOMAIN l.mem THEN Failed(l) ELSE [l EXCEPT !.mem[at] = Kept(value, r)]

\* load_driver ends with the size of the extension.
Relocate ==
  /\ loader.stage = "relocate"
  /\ LET local == FoldLeft(RelocateLocal, loader, macho.relocs.local)
         bound == FoldLeft(RelocateExternal, local, macho.relocs.external)
     IN loader' = IF bound.stage = "failed" \/ bound.vmEnd < LoadBase THEN Failed(bound)
                  ELSE [bound EXCEPT !.kextSize = bound.vmEnd - LoadBase, !.stage = "ready"]

MachoNext == UNCHANGED macho /\ (ParseFile \/ LoadSegment \/ LinkImage \/ SetUpStack \/ SetUpRegisters \/ Relocate)
MachoSpec == MachoInit /\ [][MachoNext]_machovars

-------------------------------------------------------------------------------
(***************************************************************************)
(* Properties.                                                             *)
(***************************************************************************)
Tidy(f, w) ==
  LET shown == {c \in ToSet(SegmentsOf(w)) : ~Skipped(c)}
      Pages(c) == (c.vmaddr \div Page)..((c.vmaddr + c.vmsize - 1) \div Page)
  IN /\ \A c \in shown : c.filesize <= c.vmsize /\ c.fileoff + c.filesize <= f.length
     /\ \A k, j \in DOMAIN SegmentsOf(w) :
          LET c == SegmentsOf(w)[k]  d == SegmentsOf(w)[j]
          IN k # j /\ ~Skipped(c) /\ ~Skipped(d) => c.name # d.name /\ Pages(c) \cap Pages(d) = {}
\* Segments that share neither a name nor a page are in memory as they are in the
\* file, with zeros behind, and the end of the image is not in front of one of them.
SegmentsLoaded ==
  LET f == Subject(macho.input)
  IN loader.stage \in {"relocate", "link"} /\ Tidy(f, loader.walk) =>
       \A c \in {c \in ToSet(SegmentsOf(loader.walk)) : ~Skipped(c)} :
         /\ \A i \in 0..(c.vmsize - 1) :
              i < c.filesize \/ c.vmaddr + Slide + i \in macho.mapped =>
                loader.mem[c.vmaddr + Slide + i] = IF i < c.filesize THEN Byte(c.fileoff + i) ELSE 0
         /\ loader.vmEnd >= c.vmaddr + Slide + c.vmsize
\* An image without dyld starts at the byte of the file that LC_MAIN names, when the
\* segment of the header lies behind the page zero.
StartsAtMain ==
  LET w == loader.walk
      mains == SelectSeq(w.read, LAMBDA r : r.command.kind = "main")
      header == SelectSeq(SegmentsOf(w), LAMBDA c : c.fileoff = 0 /\ c.filesize > 0)
  IN /\ loader.stage = "ready" /\ ~macho.driver /\ ~loader.dyld /\ ~HasRegisters /\ Threads = <<>>
     /\ Len(mains) = 1 /\ header # <<>> /\ Tidy(Subject(macho.input), w)
     => (header[1].vmaddr = PageZero(w) /\ mains[1].entry < header[1].filesize =>
           /\ loader.regs.pc \in DOMAIN loader.mem
           /\ loader.mem[loader.regs.pc] = Byte(mains[1].entry))
\* The program finds its arguments where the registers say, dyld the header on the
\* stack and the count behind it.
StackHonest ==
  loader.stage = "ready" /\ ~macho.driver /\ ~HasRegisters =>
    LET Word(p) == loader.stack[p]
        argv == IF loader.dyld THEN loader.regs.x1 + 1 ELSE loader.regs.x1
    IN /\ Block[Word(argv)] = "argv" /\ Word(argv + 1) = 0 /\ Word(argv - 1) = 1
       /\ Block[Word(loader.regs.x2)] = "env" /\ Word(loader.regs.x2 + 1) = 0
       /\ Block[Word(loader.regs.x3)] = "apple" /\ Word(loader.regs.x3 + 1) = 0
       /\ loader.regs.x0 = IF loader.dyld THEN [header |-> PageZero(loader.walk)] ELSE 1
       /\ AddressOf(1) >= macho.stack.at
\* Without dyld an arm64 image is left with no raw pointer that code may call through
\* as long as there is anything to put there, and a copy of a chain holds what the
\* chain holds.
PointersBound ==
  loader.stage = "ready" /\ ~macho.driver /\ ~loader.dyld /\ IsArm64 =>
    LET bound == macho.installs /\ macho.chainReads /\ ~PatchFails
    IN /\ \A p \in DOMAIN macho.pointers :
            bound \/ (macho.ret # 0 /\ macho.pointers[p].section # "got") => loader.pointers[p] # "raw"
       /\ bound =>
            /\ \A p \in DOMAIN macho.pointers :
                 macho.pointers[p].section # "nl" /\ KnownAs(DataSymbols, macho.pointers[p].name) =>
                   loader.pointers[p] = <<"data", Stripped(macho.pointers[p].name)>>
            /\ macho.starts /\ macho.mirror = macho.chain =>
                 loader.mirror \in {loader.chain, [k \in DOMAIN macho.mirror |-> "raw"]}
            /\ MirrorFound /\ macho.mirror = macho.chain =>
                 \A k \in Visited(macho.chain) : loader.mirror[k] = Link(macho.chain[k])
\* Relocated words hold what their symbol is bound to, others their file's value and
\* the base once.
DriverBound ==
  LET once == \A j, k \in DOMAIN macho.relocs.local : macho.relocs.local[j].at = macho.relocs.local[k].at => j = k
      outer == {r.at : r \in ToSet(macho.relocs.external)}
      f == Subject(macho.input)
  IN loader.stage = "ready" /\ macho.driver /\ Tidy(f, loader.walk) =>
       /\ once => \A r \in ToSet(macho.relocs.local) : \A c \in ToSet(SegmentsOf(loader.walk)) :
            r.wide /\ r.at \notin outer /\ ~Skipped(c) /\ r.at \in c.vmaddr..(c.vmaddr + c.filesize - 1) =>
              loader.mem[LoadBase + r.at] = LoadBase + Byte(c.fileoff + r.at - c.vmaddr)
       /\ \A r \in ToSet(macho.relocs.external) :
            LET s == SymbolAt(f, r.symbol)
            IN s # Padding /\ r.wide /\ SymbolName(s) \in DOMAIN KernelSymbols
                 /\ (\A q \in ToSet(macho.relocs.external) : q.at = r.at => q = r) =>
                 loader.mem[LoadBase + r.at] = KernelSymbols[SymbolName(s)]
       /\ loader.kextSize + LoadBase = loader.vmEnd

\* What is parsed is what the file says, what is loaded is what was parsed, and the
\* program is started with its own first instruction, arguments and bound pointers.
MachoHonest ==
  /\ loader.stage # "parse" /\ HasSubject(macho.input) => ParsedHonestly(Subject(macho.input), loader.walk)
  /\ SegmentsLoaded /\ StartsAtMain /\ StackHonest /\ PointersBound /\ DriverBound
===============================================================================
