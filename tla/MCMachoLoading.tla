---------------------------- MODULE MCMachoLoading ----------------------------
(***************************************************************************)
(* Files for TLC: an executable with a page zero, text and data, and what  *)
(* differs from it in its commands, its order, its surroundings and its    *)
(* dyld; fat files; and kernel extensions with relocations.  Pages have 4  *)
(* bytes; of the file only the first bytes are given to segments.          *)
(***************************************************************************)
EXTENDS MachoLoading, TLC

MachoName(letter) == [letter |-> letter, under |-> 1]
Segment(name, vmaddr, vmsize, fileoff, filesize) ==
  [kind |-> "segment64", size |-> 152, name |-> name, vmaddr |-> vmaddr, vmsize |-> vmsize,
   fileoff |-> fileoff, filesize |-> filesize, sections |-> 1]
Segment32(c) == [c EXCEPT !.kind = "segment", !.size = 124]
PageZeroSegment == [Segment("__PAGEZERO", 0, 4, 0, 0) EXCEPT !.size = 72, !.sections = 0]
TextSegment == Segment("__TEXT", 4, 4, 0, 4)
DataSegment == Segment("__DATA", 8, 6, 4, 3)
MainCommand == [kind |-> "main", size |-> 24, entryoff |-> 2]
ThreadCommand(flavor, sp) ==
  [kind |-> "unixthread", size |-> 280, flavor |-> flavor, state |-> [x0 |-> 5, lr |-> sp, sp |-> 6, pc |-> 7]]
DylinkerCommand == [kind |-> "dylinker", size |-> 32, at |-> 12, ends |-> TRUE]
SymtabCommand == [kind |-> "symtab", size |-> 24]
Cut(c, size) == [c EXCEPT !.size = size]
Symbol(name, value) == [name |-> name, defined |-> value > 0, value |-> value, readable |-> TRUE]
Symbols == <<Symbol(MachoName("k"), 0), Symbol(MachoName("v"), 3), Symbol(Stripped(MachoName("w")), 2),
             [Symbol(MachoName("x"), 9) EXCEPT !.readable = FALSE], Symbol(MachoName("w"), 0), Symbol(MachoName("u"), 0)>>

TheFile(cmds) ==
  [bits |-> 64, order |-> "little", cpu |-> "arm64", ncmds |-> Len(cmds), cmds |-> cmds,
   length |-> 2000, symbols |-> Symbols, kept |-> 6]
Usual == <<PageZeroSegment, TextSegment, DataSegment, DylinkerCommand, MainCommand>>
Plainly(f) == [fat |-> FALSE, slices |-> <<[file |-> f, listed |-> TRUE, fits |-> TRUE]>>]
Slot(section, name) == [section |-> section, name |-> name, writable |-> TRUE]
ChainEntry(bind, to, gap) == [bind |-> bind, to |-> to, gap |-> gap]
ShortChain == <<ChainEntry(TRUE, 1, 2), ChainEntry(TRUE, 2, 0), ChainEntry(FALSE, 3, 0)>>
LongChain == <<ChainEntry(TRUE, 2, 1), ChainEntry(FALSE, 1, 1), ChainEntry(TRUE, 3, 0)>>

Loading(input) ==
  [input |-> input, driver |-> FALSE, mapped |-> 4..19, stack |-> [at |-> 40, words |-> 8],
   wanted |-> FALSE, disk |-> <<>>, dyld |-> Plainly(TheFile(<<>>)), installs |-> TRUE, chainReads |-> TRUE,
   starts |-> TRUE, ret |-> 0, pointers |-> <<Slot("lazy", MachoName("d")), Slot("nl", MachoName("s")), Slot("got", MachoName("d"))>>,
   imports |-> <<MachoName("s"), MachoName("d")>>, chain |-> <<>>, mirror |-> <<>>,
   relocs |-> [local |-> <<>>, external |-> <<>>]]
Usually == Loading(Plainly(TheFile(Usual)))

\* Commands that are cut, missing, doubled or in another order; files that are short.
CommandLists ==
  {Usual, <<TextSegment, PageZeroSegment, MainCommand, DataSegment>>, <<TextSegment, DataSegment>>,
   <<PageZeroSegment, TextSegment, Segment("__TEXT", 8, 4, 4, 4), MainCommand>>,
   <<PageZeroSegment, TextSegment, Segment("__DATA", 6, 6, 4, 6), MainCommand>>,
   <<PageZeroSegment, Cut(TextSegment, 100), DataSegment, MainCommand>>,
   <<PageZeroSegment, TextSegment, DataSegment, Cut(MainCommand, 16)>>,
   <<PageZeroSegment, TextSegment, Cut(SymtabCommand, 12), MainCommand>>,
   <<PageZeroSegment, TextSegment, [DylinkerCommand EXCEPT !.ends = FALSE], MainCommand>>,
   <<PageZeroSegment, TextSegment, [DylinkerCommand EXCEPT !.at = 40], MainCommand>>,
   <<PageZeroSegment, TextSegment, DataSegment, MainCommand, ThreadCommand("arm64", 43)>>,
   <<PageZeroSegment, TextSegment, ThreadCommand("arm64", 9), MainCommand>>,
   <<PageZeroSegment, TextSegment, ThreadCommand("x86_64", 9)>>,
   <<Segment("__PAGEZERO", 0, 0, 0, 0), Segment("__TEXT", 16, 8, 0, 4), MainCommand>>}
Lengths == {2000, 400, 300, 150, 20}
MachoFiles64 ==
  {[TheFile(cmds) EXCEPT !.length = n, !.ncmds = @ + more] : cmds \in CommandLists, n \in Lengths, more \in {0, 1, -1}}
MachoOrders ==
  {[TheFile(Usual) EXCEPT !.order = order, !.cpu = cpu] : order \in {"little", "big"}, cpu \in {"arm64", "x86_64", "arm", "other"}}
    \cup {[TheFile(<<Segment32(PageZeroSegment), Segment32(TextSegment), MainCommand>>) EXCEPT !.bits = 32, !.order = order, !.cpu = cpu] :
            order \in {"little", "big"}, cpu \in {"arm", "x86", "other"}}
FatFiles ==
  {[fat |-> TRUE,
    slices |-> [k \in 1..2 |-> [file |-> [TheFile(IF k = 1 THEN Usual ELSE <<PageZeroSegment, TextSegment, MainCommand>>) EXCEPT !.cpu = cpus[k]],
                                listed |-> listed[k], fits |-> fits]]] :
     cpus \in {<<"x86_64", "arm64">>, <<"arm64", "arm64">>, <<"arm", "x86_64">>, <<"arm", "other">>},
     listed \in {<<TRUE, TRUE>>, <<TRUE, FALSE>>, <<FALSE, FALSE>>}, fits \in BOOLEAN}

\* What the pointers, the chain and the synthetic imports may be.
Bindings ==
  {[Usually EXCEPT !.installs = i, !.chainReads = r, !.starts = s, !.ret = t, !.pointers[2].writable = w,
                   !.pointers[2].name = n, !.chain = c, !.mirror = m] :
     i \in BOOLEAN, r \in BOOLEAN, s \in BOOLEAN, t \in {0, 3}, w \in BOOLEAN,
     n \in {MachoName("s"), MachoName("d"), MachoName("y"), MachoName("z"), NoName},
     c \in {ShortChain, LongChain}, m \in {<<>>, ShortChain, LongChain}}
Dylds ==
  {[Usually EXCEPT !.wanted = TRUE, !.disk = d, !.mapped = m, !.stack.words = n,
                   !.dyld = Plainly(TheFile(<<Segment("__TEXT", v, 4, 8, 4), ThreadCommand(f, 9)>>))] :
     d \in {<<"nothing", "nothing">>, <<"nothing", "dyld">>, <<"text", "dyld">>, <<"dyld", "nothing">>},
     m \in {4..19, 4..15, {4, 5, 6, 7, 9}}, n \in {6, 7, 8, 9}, v \in {4, 16}, f \in {"arm64", "x86_64"}}
Drivers ==
  {[Loading(Plainly(TheFile(cmds))) EXCEPT
      !.driver = TRUE, !.mapped = (LoadBase + 4)..(LoadBase + 16),
      !.relocs = [local |-> l, external |-> <<[at |-> a, symbol |-> s, wide |-> wide], [at |-> 10, symbol |-> 1, wide |-> TRUE]>>]] :
     cmds \in {<<TextSegment, DataSegment>>, <<>>}, wide \in BOOLEAN, s \in 0..6, a \in {5, 8, 40},
     l \in {<<[at |-> 5, wide |-> TRUE], [at |-> 9, wide |-> FALSE]>>, <<[at |-> 5, wide |-> TRUE], [at |-> 5, wide |-> TRUE]>>,
            <<[at |-> 30, wide |-> TRUE]>>}}

MCMachos ==
  {Loading(Plainly(f)) : f \in MachoFiles64 \cup MachoOrders} \cup {Loading(i) : i \in FatFiles}
    \cup Bindings \cup Dylds \cup Drivers
MCKernelSymbols == (MachoName("k") :> 70) @@ (Stripped(MachoName("u")) :> 71)
MCDataSymbols == {Stripped(MachoName("d"))}
MCStubSymbols == {MachoName("s"), Stripped(MachoName("d"))}
MCSyscallSymbols == {Stripped(MachoName("y"))}
===============================================================================
