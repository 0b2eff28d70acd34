----------------------------- MODULE ChildOutput -----------------------------
(***************************************************************************)
(* What a guest reads from a command it starts: the streams of popen, with *)
(* an output known in advance, and the log stream that posix_spawn writes  *)
(* to the pipes its file actions put on 1 and 2.                           *)
(*                                                                         *)
(* Bytes are "x", or "n" for the end of a line.  The histories are kept    *)
(* apart from the code's state: the places in the output of the bytes that *)
(* an answer promised to be in the guest's buffer, where a read ended that *)
(* could not be stored or met the limit of one fread in an item, and the   *)
(* item size of the last read that took anything.                          *)
(***************************************************************************)
EXTENDS Naturals, Sequences, FiniteSets, SequencesExt

CONSTANTS Outputs,      \* what commands write; <<>> for the unknown ones
          Streams,      \* bound on popen
          ItemSizes,    \* item sizes and counts the guest asks for
          MostBytes,    \* what one fread takes from a stream at most
          Pipes,        \* descriptors of write ends in the parent
          MaxActions,   \* bound on adddup2
          MaxReads      \* bound on calls

ASSUME OutputAssumption ==
  /\ Outputs \subseteq Seq({"x", "n"}) /\ ItemSizes \subseteq Nat /\ MostBytes \in Nat
  /\ Pipes \cap {0, 1, 2} = {}

VARIABLES
  streams,      \* popen_streams: output, offset, eof
  told, lossy, item, \* histories of each stream
  opened,       \* handles so far; blocks of the heap are not used again
  actions,      \* posix_spawn_file_actions of one address
  spawned,      \* history: the actions of the last spawn, and how often each pipe got the log
  reads         \* calls so far

historyvars == <<told, lossy, item>>
outputvars == <<streams, historyvars, opened, actions, spawned, reads>>
streamvars == <<streams, historyvars, opened>>

OutputInit ==
  /\ streams = <<>> /\ told = <<>> /\ lossy = <<>> /\ item = <<>> /\ opened = 0
  /\ actions = <<>> /\ spawned = [actions |-> <<>>, fed |-> [p \in Pipes |-> 0]]
  /\ reads = 0

Asked == reads < MaxReads /\ reads' = reads + 1

-------------------------------------------------------------------------------
(***************************************************************************)
(* Streams of popen.                                                       *)
(***************************************************************************)
\* f, and v for the handle of the stream that is opened.
WithNext(f, v) ==
  [s \in DOMAIN f \cup {opened + 1} |-> IF s = opened + 1 THEN v ELSE f[s]]
Popen(output) ==
  /\ Asked /\ opened < Streams /\ opened' = opened + 1
  /\ streams' = WithNext(streams, [output |-> output, offset |-> 0, eof |-> output = <<>>])
  /\ told' = WithNext(told, <<>>) /\ lossy' = WithNext(lossy, {}) /\ item' = WithNext(item, 1)
  /\ UNCHANGED <<actions, spawned>>

Pclose(s) ==
  /\ Asked /\ s \in DOMAIN streams
  /\ streams' = [t \in DOMAIN streams \ {s} |-> streams[t]]
  /\ UNCHANGED <<historyvars, opened, actions, spawned>>

Rest(s) == Len(streams[s].output) - streams[s].offset
SmallerOf(a, b) == IF a < b THEN a ELSE b

\* read_popen_stream_bytes
BytesRead(s, count) == SmallerOf(count, Rest(s))
\* read_popen_stream_line: to the end of a line or of the buffer, less one for the zero
LineRead(s, capacity) ==
  LET window == {i \in 1..SmallerOf(Rest(s), capacity - 1) : streams[s].output[streams[s].offset + i] = "n"}
  IN IF window = {} THEN SmallerOf(Rest(s), capacity - 1) ELSE CHOOSE i \in window : \A j \in window : i <= j

\* n bytes are taken from the stream, and the answer promises the first `promised'
\* of them, in items of a size.
Advanced(s, n, promised, size) ==
  LET at == streams[s].offset
  IN /\ streams' = [streams EXCEPT ![s].offset = at + n, ![s].eof = at + n >= Len(streams[s].output)]
     /\ told' = [told EXCEPT ![s] = @ \o [i \in 1..promised |-> at + i]]
     /\ item' = IF n > 0 THEN [item EXCEPT ![s] = size] ELSE item
     /\ UNCHANGED <<opened, actions, spawned>>
\* A read that lost its end for a reason leaves its mark.
Marks(s, n, promised, reason) ==
  lossy' = IF reason /\ promised < n THEN [lossy EXCEPT ![s] = @ \cup {streams[s].offset + n}]
           ELSE lossy

\* A capacity of one leaves the stream as it is and answers NULL.
Fgets(s, capacity, writable) ==
  /\ Asked /\ s \in DOMAIN streams /\ capacity > 1
  /\ LET n == LineRead(s, capacity)
         promised == IF writable THEN n ELSE 0
     IN Advanced(s, n, promised, 1) /\ Marks(s, n, promised, ~writable)

\* checked_stdio_byte_count
ByteCount(size, count) == SmallerOf(size * count, MostBytes)
\* The answer is in whole items; the bytes of an incomplete one are gone.
Items(n, size) == n \div size
Fread(s, size, count, writable) ==
  /\ Asked /\ s \in DOMAIN streams /\ size * count > 0
  /\ LET n == BytesRead(s, ByteCount(size, count))
         promised == IF writable THEN Items(n, size) * size ELSE 0
     IN /\ Advanced(s, n, promised, size)
        /\ Marks(s, n, promised, ~writable \/ (n = MostBytes /\ MostBytes < size * count))

Clearerr(s) ==
  /\ Asked /\ s \in DOMAIN streams
  /\ streams' = [streams EXCEPT ![s].eof = FALSE]
  /\ UNCHANGED <<historyvars, opened, actions, spawned>>

-------------------------------------------------------------------------------
(***************************************************************************)
(* File actions of posix_spawn: dup2 alone, kept as pairs.                 *)
(***************************************************************************)
ActionsInit == /\ Asked /\ actions' = <<>> /\ UNCHANGED <<streamvars, spawned>>
ActionsDestroy == ActionsInit
Adddup2(fd, newfd) ==
  /\ Asked /\ Len(actions) < MaxActions
  /\ actions' = Append(actions, <<fd, newfd>>)
  /\ UNCHANGED <<streamvars, spawned>>

\* Mutant: only what becomes the standard output.
FeedsOutput(i) == actions[i][2] = 1 /\ actions[i][1] \in Pipes
\* Each action that puts a pipe of the parent on 1 or 2 feeds it, in its turn.
Feeds(i) == actions[i][2] \in {1, 2} /\ actions[i][1] \in Pipes
Fed(p) == Cardinality({i \in DOMAIN actions : Feeds(i) /\ actions[i][1] = p})
PosixSpawn ==
  /\ Asked
  /\ spawned' = [actions |-> actions, fed |-> [p \in Pipes |-> Fed(p)]]
  /\ UNCHANGED <<streamvars, actions>>

OutputNext ==
  \/ \E output \in Outputs : Popen(output)
  \/ \E s \in DOMAIN streams : Pclose(s) \/ Clearerr(s)
  \/ \E s \in DOMAIN streams, writable \in BOOLEAN, n \in ItemSizes :
       Fgets(s, n, writable) \/ \E size \in ItemSizes : Fread(s, size, n, writable)
  \/ ActionsInit \/ ActionsDestroy \/ PosixSpawn
  \/ \E fd \in Pipes \cup {1, 2}, newfd \in {1, 2} : Adddup2(fd, newfd)

OutputSpec == OutputInit /\ [][OutputNext]_outputvars

-------------------------------------------------------------------------------
(* Where the guest knows to be: after the last byte it was promised, or    *)
(* after a read that left a mark.                                          *)
Known(s) == {IF told[s] = <<>> THEN 0 ELSE told[s][Len(told[s])]} \cup lossy[s]
(* Reads of lines and of items in any mixture promise the bytes of a       *)
(* command in their order, none twice, and pass over none without a mark;  *)
(* the next read goes on behind the last, unless the output is used up and *)
(* ended in less than an item of the last read; and at the end of file     *)
(* nothing is left.                                                        *)
StreamsTold ==
  \A s \in DOMAIN told :
    /\ \A i, j \in DOMAIN told[s] : i < j => told[s][i] < told[s][j]
    /\ \A i \in DOMAIN told[s] : \/ told[s][i] = IF i = 1 THEN 1 ELSE told[s][i - 1] + 1
                                 \/ \E e \in lossy[s] : told[s][i] = e + 1
    /\ s \in DOMAIN streams =>
         /\ \/ streams[s].offset \in Known(s)
            \/ Rest(s) = 0 /\ \E e \in Known(s) : streams[s].offset < e + item[s]
         /\ streams[s].eof => Rest(s) = 0

(* The descriptors of the child once the actions are done in their order.  *)
Done(acts) ==
  LET fds[n \in 0..Len(acts)] ==
        IF n = 0 THEN [fd \in Pipes \cup {1, 2} |-> IF fd \in Pipes THEN fd ELSE 0]
        ELSE [fds[n - 1] EXCEPT ![acts[n][2]] = fds[n - 1][acts[n][1]]]
  IN fds[Len(acts)]
(* The log goes once to each descriptor of 1 and 2 that is a pipe, so that *)
(* a pipe has it twice that is on both, as long as no action takes up or   *)
(* replaces what an earlier one put.                                       *)
Simple(acts) == \A i, j \in DOMAIN acts : i < j => acts[j][1] # acts[i][2] /\ acts[i][2] # acts[j][2]
LogReaches ==
  Simple(spawned.actions) =>
    \A p \in Pipes : spawned.fed[p] = Cardinality({fd \in {1, 2} : Done(spawned.actions)[fd] = p})

OutputHonest == StreamsTold /\ LogReaches
===============================================================================
