---------------------------- MODULE HostDescriptors ----------------------------
(***************************************************************************)
(* The descriptors of a guest in compat mode are those of the host: open,  *)
(* pipe, dup and the others are answered by the system call of the same    *)
(* name.  Next to the kernel the code keeps two tables of its own: which   *)
(* read end a write end feeds (pipe_write_to_read) and how many bytes a    *)
(* read end has waiting (pending_read_bytes).  select trusts them when the *)
(* host reports no read descriptor.  Both are keyed by descriptor number,  *)
(* are kept up to date call by call, and say nothing of calls that change  *)
(* a descriptor without telling them.                                      *)
(*                                                                         *)
(* slot and bytes are the kernel's (external); a number is handed out      *)
(* lowest first.  clean and unnoted are histories: the pipes whose every   *)
(* byte and end went through the noting calls, and the numbers that        *)
(* changed hands without a note.                                           *)
(***************************************************************************)
EXTENDS Integers, FiniteSets

CONSTANTS MaxFd,      \* numbers are 0..MaxFd; a bound of the model
          MaxPipes,   \* pipes ever made; a bound of the model
          Capacity,   \* bytes a pipe holds
          Saturation  \* the largest count of pending bytes (usize::MAX)

ASSUME DescriptorConstants ==
  /\ MaxFd \in Nat /\ MaxPipes \in Nat
  /\ Capacity \in Nat /\ Saturation \in Nat /\ Capacity <= Saturation

VARIABLES slot,     \* number -> what it names in the kernel
          bytes,    \* pipe -> bytes in it
          made,     \* pipes made so far
          reader,   \* pipe_write_to_read, None where absent
          pending,  \* pending_read_bytes, None where absent
          clean, unnoted

kernel == <<slot, bytes, made>>
cache == <<reader, pending>>
hvars == <<slot, bytes, made, reader, pending, clean, unnoted>>

Numbers == 0..MaxFd
Pipes == 1..MaxPipes
None == -1
Free == [end |-> "free", pipe |-> 0]
File == [end |-> "file", pipe |-> 0]
ReadEnd(p) == [end |-> "read", pipe |-> p]
WriteEnd(p) == [end |-> "write", pipe |-> p]
Slots == {Free, File} \cup {ReadEnd(p) : p \in Pipes}
                      \cup {WriteEnd(p) : p \in Pipes}

Open(f) == slot[f] # Free
Lowest(f) == ~Open(f) /\ \A g \in Numbers : g < f => Open(g)
HasReader(p) == \E f \in Numbers : slot[f] = ReadEnd(p)
HasWriter(p) == \E f \in Numbers : slot[f] = WriteEnd(p)

\* What the host's select and poll call readable and writable.
Readable(f) == \/ slot[f] = File
               \/ /\ slot[f].end = "read"
                  /\ bytes[slot[f].pipe] > 0 \/ ~HasWriter(slot[f].pipe)
Writable(f) == \/ slot[f] = File
               \/ /\ slot[f].end = "write"
                  /\ bytes[slot[f].pipe] < Capacity \/ ~HasReader(slot[f].pipe)

HInit == /\ slot = [f \in Numbers |-> Free]
         /\ bytes = [p \in Pipes |-> 0] /\ made = 0
         /\ reader = [f \in Numbers |-> None]
         /\ pending = [f \in Numbers |-> None]
         /\ clean = {} /\ unnoted = {}

-----------------------------------------------------------------------------
(* What each call tells the tables.                                          *)

OrZero(n) == IF n = None THEN 0 ELSE n
SatAdd(a, b) == IF a + b > Saturation THEN Saturation ELSE a + b
SatSub(a, b) == IF a > b THEN a - b ELSE 0

NotePipe(r, w) ==
  /\ reader' = [reader EXCEPT ![w] = r]
  /\ pending' = [pending EXCEPT ![r] = OrZero(@)]

NoteWrite(f, n) ==
  /\ pending' = IF reader[f] = None THEN pending
                ELSE [pending EXCEPT ![reader[f]] = SatAdd(OrZero(@), n)]
  /\ UNCHANGED reader

NoteRead(f, n) ==
  /\ pending' = IF pending[f] = None THEN pending
                ELSE [pending EXCEPT ![f] = SatSub(@, n)]
  /\ UNCHANGED reader

NoteDup(from, to) ==
  /\ reader' = IF reader[from] = None THEN reader
               ELSE [reader EXCEPT ![to] = reader[from]]
  /\ pending' = IF pending[from] = None THEN pending
                ELSE [pending EXCEPT ![to] = pending[from]]

\* A slip in the code: only the number's own entries are removed.
NoteCloseOwn(f) == /\ reader' = [reader EXCEPT ![f] = None]
                   /\ pending' = [pending EXCEPT ![f] = None]

\* The mappings to a read end that is closed go with it.
NoteClose(f) ==
  /\ reader' = [w \in Numbers |-> IF w = f \/ reader[w] = f THEN None
                                  ELSE reader[w]]
  /\ pending' = [pending EXCEPT ![f] = None]

-----------------------------------------------------------------------------
(* The calls.  Those that would block the host, and with it the emulator,    *)
(* are taken when they return.                                               *)

OpenFile(f) ==
  /\ Lowest(f)
  /\ slot' = [slot EXCEPT ![f] = File]
  /\ UNCHANGED <<bytes, made, cache, clean, unnoted>>

\* A pipe whose numbers the guest cannot be told is closed again.
Pipe(r, w) ==
  /\ made < MaxPipes /\ Lowest(r) /\ ~Open(w) /\ w > r
  /\ \A g \in Numbers : g < w /\ g # r => Open(g)
  /\ slot' = [slot EXCEPT ![r] = ReadEnd(made + 1), ![w] = WriteEnd(made + 1)]
  /\ made' = made + 1
  /\ NotePipe(r, w)
  /\ clean' = IF r \in unnoted THEN clean ELSE clean \cup {made + 1}
  /\ UNCHANGED <<bytes, unnoted>>

Dup(from, to) ==
  /\ Open(from) /\ Lowest(to)
  /\ slot' = [slot EXCEPT ![to] = slot[from]]
  /\ NoteDup(from, to)
  /\ clean' = IF slot[from].end = "read" THEN clean \ {slot[from].pipe} ELSE clean
  /\ UNCHANGED <<bytes, made, unnoted>>

\* The number that is taken over is closed by the kernel, without a note.
Dup2(from, to) ==
  /\ Open(from) /\ from # to
  /\ slot' = [slot EXCEPT ![to] = slot[from]]
  /\ NoteDup(from, to)
  /\ clean' = clean \ ((IF slot[from].end = "read" THEN {slot[from].pipe} ELSE {})
                       \cup (IF slot[to] = slot[from] THEN {} ELSE {slot[to].pipe}))
  /\ unnoted' = IF Open(to) THEN unnoted \cup {to} ELSE unnoted
  /\ UNCHANGED <<bytes, made>>

Close(f) ==
  /\ Open(f)
  /\ slot' = [slot EXCEPT ![f] = Free]
  /\ NoteClose(f)
  /\ unnoted' = unnoted \ {f}
  /\ UNCHANGED <<bytes, made, clean>>

\* read and readv: bytes that cannot be stored in the guest are gone, and the
\* call returns EFAULT before the note.
Read(f, n) ==
  /\ slot[f].end = "read" /\ n \in 1..bytes[slot[f].pipe]
  /\ bytes' = [bytes EXCEPT ![slot[f].pipe] = @ - n]
  /\ \/ NoteRead(f, n) /\ UNCHANGED clean
     \/ UNCHANGED cache /\ clean' = clean \ {slot[f].pipe}
  /\ UNCHANGED <<slot, made, unnoted>>

Write(f, n) ==
  /\ slot[f].end = "write" /\ HasReader(slot[f].pipe)
  /\ n > 0 /\ bytes[slot[f].pipe] + n <= Capacity
  /\ bytes' = [bytes EXCEPT ![slot[f].pipe] = @ + n]
  /\ NoteWrite(f, n)
  /\ UNCHANGED <<slot, made, clean, unnoted>>

\* A file is read and written: its number may still be in the tables.
FileIo(f) ==
  /\ slot[f] = File
  /\ NoteRead(f, 1) \/ NoteWrite(f, 1)
  /\ UNCHANGED <<kernel, clean, unnoted>>

-----------------------------------------------------------------------------
(* select, without waiting or when the host has an answer: it changes        *)
(* nothing, what counts is the set it reports.                               *)

Tracked(S) == {f \in S : pending[f] # None /\ pending[f] > 0}

\* A slip in the code: the tables are asked before the host.
ReportedTracked(R, hits) == {IF Tracked(R) # {} THEN Tracked(R)
                             ELSE {f \in R : Readable(f)}}

\* The read descriptors reported when hits write descriptors are ready: the
\* host's; else the tracked ones (the questions put to the host after that have
\* the answer it just gave); else as many as there are writable ones.
Reported(R, hits) ==
  LET ready == {f \in R : Readable(f)}
  IN IF ready # {} THEN {ready}
     ELSE IF Tracked(R) # {} THEN {Tracked(R)}
     ELSE {S \in SUBSET R : \/ Cardinality(S) = hits
                            \/ Cardinality(R) < hits /\ S = R}

\* An empty read set stands for the highest number below nfds.
ReportedInferred(f) == Tracked({f}) \cup {g \in {f} : Readable(g)}

HNext == \/ \E f \in Numbers : OpenFile(f) \/ Close(f) \/ FileIo(f)
         \/ \E f, g \in Numbers : Pipe(f, g) \/ Dup(f, g) \/ Dup2(f, g)
         \/ \E f \in Numbers, n \in 1..Capacity : Read(f, n) \/ Write(f, n)

HSpec == HInit /\ [][HNext]_hvars

-----------------------------------------------------------------------------
\* The tables hold numbers and counts; a clean pipe was made.
HTypeOK == /\ slot \in [Numbers -> Slots] /\ bytes \in [Pipes -> 0..Capacity]
           /\ made \in 0..MaxPipes
           /\ reader \in [Numbers -> Numbers \cup {None}]
           /\ pending \in [Numbers -> (0..Saturation) \cup {None}]
           /\ clean \subseteq 1..made /\ unnoted \subseteq Numbers

\* The tables tell the truth of a pipe whose read end was never duplicated and
\* whose ends were never taken over, closed or drained behind their back: the
\* pending count is what the kernel holds, and exactly its write ends feed it.
CacheExact ==
  \A r \in Numbers : slot[r].end = "read" /\ slot[r].pipe \in clean =>
    /\ pending[r] = bytes[slot[r].pipe]
    /\ \A w \in Numbers : reader[w] = r <=> slot[w] = WriteEnd(slot[r].pipe)

\* A number given back with close leaves nothing in the tables, neither under
\* itself nor as the read end of another: the next pipe on it starts afresh.
ClosedForgotten ==
  \A f \in Numbers : ~Open(f) /\ f \notin unnoted =>
    /\ reader[f] = None /\ pending[f] = None
    /\ \A w \in Numbers : reader[w] # f

\* What select may be asked to trust: files, and read ends of clean pipes.
Sound(R) == \A f \in R : slot[f] = File \/ (slot[f].end = "read" /\ slot[f].pipe \in clean)

\* select reports what is readable and nothing else, whether the host or the
\* tables answer; with write descriptors in the call, when anything is readable.
SelectHonest ==
  /\ \A R \in SUBSET Numbers, hits \in {0, 1} :
       LET ready == {f \in R : Readable(f)}
       IN Sound(R) /\ (ready # {} \/ hits = 0) => Reported(R, hits) = {ready}
  /\ \A f \in Numbers : Sound({f}) /\ ~Readable(f) => ReportedInferred(f) = {}
=============================================================================
