------------------------------ MODULE MachoFiles ------------------------------
(***************************************************************************)
(* The parser of Mach-O files: which slice of a fat file is taken, the     *)
(* byte order, the walk over the load commands and what each of them is    *)
(* read as.                                                                *)
(*                                                                         *)
(* A file is what its author meant: commands one after the other behind    *)
(* the header, each as long as its cmdsize says, zeros behind the last.    *)
(* Sizes are in bytes.  What a command needs may be more than its cmdsize: *)
(* the parsers read on in the file, so such a command is not `whole`.      *)
(***************************************************************************)
EXTENDS Integers, Sequences, FiniteSets, SequencesExt

\* `linkedit` is for all commands that hold an offset and a size, or versions.
Needed == [segment64 |-> 64, segment |-> 48, symtab |-> 16, dysymtab |-> 72, dylinker |-> 4, uuid |-> 16,
           unixthread |-> 8, main |-> 16, dylib |-> 24, rpath |-> 4, linkedit |-> 8, dyld_info |-> 40]
Need(c) == IF c.kind \in DOMAIN Needed THEN Needed[c.kind] ELSE 0

\* The state a thread command holds, with its 8 bytes of flavor and count, and from
\* where on registers are taken from it.  Arm64 reads 32 words but asks for 21.
StateNeed == [arm64 |-> 264, x86_64 |-> 176, arm |-> 76, x86 |-> 72, other |-> 8]
StateTaken == [StateNeed EXCEPT !["arm64"] = 176]

-------------------------------------------------------------------------------
(***************************************************************************)
(* One command, with n bytes of the file behind its 8 bytes of kind and    *)
(* size.                                                                   *)
(***************************************************************************)
SizeOk(c) == c.size \in 8..65536
\* Paths are null-terminated strings that may begin anywhere in the file.
PathOk(c, n) == c.at >= 8 /\ c.at - 8 < n
PathWhole(c) == c.at < c.size /\ c.ends

\* Sections are 80 bytes (68 with 32 bits) and follow the segment.
Sections64(c, n) ==
  LET room == (n - 64) \div 80
  IN IF n < 72 THEN 0 ELSE IF room < c.sections THEN room ELSE c.sections
Sections32(c, n) ==
  LET room == (n - 48) \div 68
  IN IF room < c.sections THEN room ELSE c.sections
SectionBytes(c) == c.sections * IF c.kind = "segment64" THEN 80 ELSE 68

\* A thread state that is cut gives no registers, unless its length is misjudged.
ThreadOk(c, n) == n >= StateTaken[c.flavor] => n >= StateNeed[c.flavor]
\* The words of an arm64 state are read as if lr were not among them.
Registers(c) == [x0 |-> c.state.x0, sp |-> c.state.lr, pc |-> c.state.sp]
ThreadEntry(c, n) ==
  IF n < StateNeed[c.flavor] THEN 0
  ELSE IF c.flavor = "arm64" THEN Registers(c).pc ELSE c.state.pc

PathRefused(c, n) == c.kind \in {"dylinker", "dylib", "rpath"} /\ ~PathOk(c, n)
Refused(c, n) ==
  \/ ~SizeOk(c) \/ n < Need(c) \/ PathRefused(c, n)
  \/ c.kind = "unixthread" /\ ~ThreadOk(c, n)

Whole(c) ==
  LET own == c.size - 8
  IN /\ own >= Need(c)
     /\ c.kind \in {"segment64", "segment"} => own >= Need(c) + SectionBytes(c)
     /\ c.kind \in {"dylinker", "dylib", "rpath"} => PathWhole(c)
     /\ c.kind = "unixthread" => own >= StateNeed[c.flavor]

Read(c, n) ==
  [command |-> c, registers |-> c.kind = "unixthread" /\ n >= StateNeed[c.flavor],
   sections |-> CASE c.kind = "segment64" -> Sections64(c, n)
                  [] c.kind = "segment" -> Sections32(c, n)
                  [] OTHER -> 0,
   entry |-> CASE c.kind = "unixthread" -> ThreadEntry(c, n)
               [] c.kind = "main" -> c.entryoff
               [] OTHER -> 0]

-------------------------------------------------------------------------------
(***************************************************************************)
(* The header and the walk.                                                *)
(***************************************************************************)
HeaderSize(f) == IF f.bits = 64 THEN 32 ELSE 28
Cpus == {"x86", "x86_64", "arm", "arm64"}
\* The processor type as it reads in one of the two orders.
Seen(f, order) == IF order = f.order THEN f.cpu ELSE "swapped"

BigEndian32(f) ==
  LET little == Seen(f, "little") \in Cpus
      big == Seen(f, "big") \in Cpus
  IN IF little # big THEN big ELSE f.order = "big"
BigEndian64(f) ==
  \/ f.order = "big"
  \/ /\ Seen(f, "little") \notin {"x86_64", "arm64"}
     /\ Seen(f, "big") \in {"x86_64", "arm64"}
Order(f) == IF (IF f.bits = 64 THEN BigEndian64(f) ELSE BigEndian32(f)) THEN "big" ELSE "little"

Start(f, k) == HeaderSize(f) + FoldLeft(LAMBDA n, c : n + c.size, 0, SubSeq(f.cmds, 1, k - 1))
Padding == [kind |-> "padding", size |-> 0]
\* Read in the wrong order a size is out of range, and so are zeros and the middle of
\* a command.
CommandAt(f, at, order) ==
  IF order = f.order /\ \E k \in DOMAIN f.cmds : Start(f, k) = at
  THEN f.cmds[CHOOSE k \in DOMAIN f.cmds : Start(f, k) = at] ELSE Padding

\* A slip in the code: the walk goes on behind what was parsed.
AdvanceParsed(c) == 8 + Need(c)
Advance(c) == c.size

Step(f, order, w) ==
  LET c == CommandAt(f, w.at, order)
      n == f.length - w.at - 8
  IN IF n < 0 \/ ~w.ok THEN w
     ELSE IF Refused(c, n) THEN [w EXCEPT !.ok = FALSE]
     ELSE [w EXCEPT !.at = @ + Advance(c), !.read = Append(@, Read(c, n))]
WalkCommands(f, order) ==
  FoldLeft(LAMBDA w, k : Step(f, order, w), [ok |-> f.length >= HeaderSize(f), at |-> HeaderSize(f), read |-> <<>>],
           [k \in 1..f.ncmds |-> k])

\* A big-endian file of 64 bits whose commands make no sense is read again.
ParseThin(f) ==
  LET w == WalkCommands(f, Order(f))
  IN IF ~w.ok /\ f.bits = 64 /\ f.order = "big" THEN WalkCommands(f, "little") ELSE w

-------------------------------------------------------------------------------
(***************************************************************************)
(* Fat files, and what is kept of a file.                                  *)
(***************************************************************************)
\* The entries of a fat header that lie in the file, in order.
Architectures(slices) == SelectSeq(slices, LAMBDA s : s.listed)
Preferred(slices) ==
  LET list == Architectures(slices)
      Of(cpu) == {k \in DOMAIN list : list[k].file.cpu = cpu}
      First(ks) == list[CHOOSE k \in ks : \A j \in ks : k <= j]
  IN IF Of("arm64") # {} THEN First(Of("arm64"))
     ELSE IF Of("x86_64") # {} THEN First(Of("x86_64")) ELSE First(DOMAIN list)

\* The file a parse is about, thin or the preferred slice.
NoFile == [ok |-> FALSE, at |-> 0, read |-> <<>>]
HasSubject(input) == input.fat => Architectures(input.slices) # <<>> /\ Preferred(input.slices).fits
Subject(input) == IF input.fat THEN Preferred(input.slices).file ELSE input.slices[1].file
Parse(input) == IF HasSubject(input) THEN ParseThin(Subject(input)) ELSE NoFile

Commands(w) == [k \in DOMAIN w.read |-> w.read[k].command]
SegmentsOf(w) == SelectSeq(Commands(w), LAMBDA c : c.kind \in {"segment64", "segment"})
Byte(offset) == offset + 1
\* segments_data: the last segment of a name that lies in the file.
SegmentData(f, w, name) ==
  LET of == SelectSeq(SegmentsOf(w), LAMBDA c : c.name = name /\ c.filesize > 0 /\ c.fileoff + c.filesize <= f.length)
  IN IF of = <<>> THEN <<>> ELSE [k \in 1..Last(of).filesize |-> Byte(Last(of).fileoff + k - 1)]

\* The size of the first segment at 0 without contents; images start behind it.
PageZero(w) ==
  LET s == SelectSeq(SegmentsOf(w), LAMBDA c : c.vmaddr = 0 /\ c.filesize = 0)
  IN IF s = <<>> THEN 0 ELSE s[1].vmsize

-------------------------------------------------------------------------------
(***************************************************************************)
(* Symbols: [name, defined, value, readable], the first `kept` of the      *)
(* table in the file.  A name that cannot be read is NoName.               *)
(***************************************************************************)
NoName == [letter |-> "", under |-> 0]
SymbolAt(f, i) == IF i < Len(f.symbols) /\ i < f.kept THEN f.symbols[i + 1] ELSE Padding
SymbolName(s) == IF s.readable THEN s.name ELSE NoName
DefinedSymbols(f) ==
  LET shown == {i \in 0..(f.kept - 1) : /\ SymbolAt(f, i) # Padding /\ SymbolAt(f, i).defined
                                        /\ SymbolName(SymbolAt(f, i)) # NoName}
      NamesOf == {f.symbols[i + 1].name : i \in shown}
      Latest(n) == CHOOSE i \in shown : /\ f.symbols[i + 1].name = n
                                        /\ \A j \in shown : f.symbols[j + 1].name = n => j <= i
  IN [n \in NamesOf |-> f.symbols[Latest(n) + 1].value]

-------------------------------------------------------------------------------
\* Every command is its own, all of them are there and the header counts them.
Intact(f) ==
  /\ f.ncmds = Len(f.cmds) /\ f.length >= Start(f, Len(f.cmds) + 1)
  /\ \A k \in DOMAIN f.cmds : SizeOk(f.cmds[k]) /\ Whole(f.cmds[k])
\* A file that is intact is parsed, command by command as it was written; of any other
\* file nothing is taken but its own commands, in order, up to where it ends.
ParsedHonestly(f, w) ==
  /\ Intact(f) => /\ w.ok /\ Commands(w) = f.cmds
                  /\ \A k \in DOMAIN w.read :
                       w.read[k].command.kind \in {"segment64", "segment"} =>
                         w.read[k].sections = w.read[k].command.sections
  /\ w.ok => /\ IsPrefix(Commands(w), f.cmds)
             /\ Len(w.read) < f.ncmds => w.at + 8 > f.length
===============================================================================
