------------------------------- MODULE HostStreams -------------------------------
(***************************************************************************)
(* The streams of a guest in compat mode: fopen, fdopen, popen, opendir    *)
(* and fdopendir get an object of the host's C library, and the guest a    *)
(* block of its own heap whose address is the key of a registry.  Closing  *)
(* takes the key out of the registry, closes the object and frees the      *)
(* block.  A stream owns a descriptor number, which the guest may use, and *)
(* close, directly as well; what goes through the stream is not told to    *)
(* the tables of HostDescriptors.                                          *)
(*                                                                         *)
(* Files, directories and the parent's end of a popen are one kind of      *)
(* slot.  given is a history: the numbers the guest has been told and not  *)
(* given back.                                                             *)
(***************************************************************************)
EXTENDS HostDescriptors

CONSTANT MaxHandles  \* handles ever made; a bound of the model

ASSUME MaxHandlesAssumption == MaxHandles \in Nat

VARIABLES handles,  \* host_file_handles and host_dir_handles
          opened,   \* handles made so far
          blocks,   \* blocks of the guest's heap that are allocated
          given

streams == <<handles, opened, blocks>>
svars == <<hvars, streams, given>>

\* fd: the number the host object owns; kind: which registry; full: bytes wait
\* in the stream's buffer; dirent: the block of readdir has been allocated.
NoHandle == [fd |-> None, kind |-> "none", full |-> FALSE, dirent |-> FALSE]
NewHandle(f, k) == [fd |-> f, kind |-> k, full |-> FALSE, dirent |-> FALSE]
Live(h) == handles[h].kind # "none"
Names(h, f) == Live(h) /\ handles[h].fd = f

\* The blocks of a handle: the one that is its key, and the entry of readdir.
BlocksOf(h) == {<<h, "key">>} \cup
               (IF handles[h].dirent THEN {<<h, "dirent">>} ELSE {})

SInit == /\ HInit
         /\ handles = [h \in 1..MaxHandles |-> NoHandle]
         /\ opened = 0 /\ blocks = {} /\ given = {}

\* The number goes without a note: the tables keep what they say of it.
SilentlyClosed(f) ==
  /\ slot' = [slot EXCEPT ![f] = Free]
  /\ clean' = clean \ {slot[f].pipe}
  /\ unnoted' = IF Open(f) THEN unnoted \cup {f} ELSE unnoted
  /\ given' = given \ {f}

\* allocate_guest_file_handle and allocate_guest_dir_handle.
Registered(f, k) ==
  /\ opened < MaxHandles
  /\ handles' = [handles EXCEPT ![opened + 1] = NewHandle(f, k)]
  /\ opened' = opened + 1
  /\ blocks' = blocks \cup {<<opened + 1, "key">>}

\* A slip in the code: the object stays open without a handle.
OpensLeaky(f, k) ==
  /\ Lowest(f)
  /\ slot' = [slot EXCEPT ![f] = File]
  /\ Registered(f, k) \/ UNCHANGED streams
  /\ UNCHANGED <<bytes, made, cache, clean, unnoted, given>>

\* The host opens a new object; when the guest's heap has no room for its
\* handle, it is closed again and nothing has happened.
Opens(f, k) ==
  /\ Lowest(f)
  /\ \/ /\ Registered(f, k)
        /\ slot' = [slot EXCEPT ![f] = File]
     \/ UNCHANGED <<slot, streams>>
  /\ UNCHANGED <<bytes, made, cache, clean, unnoted, given>>

Fopen(f) == Opens(f, "file")
Popen(f) == Opens(f, "file")
Opendir(f) == Opens(f, "dir")

\* The object wraps a number of the guest; without room for the handle the
\* number is closed together with the object.
Wraps(f, k) ==
  /\ Open(f)
  /\ \/ Registered(f, k) /\ UNCHANGED <<slot, clean, unnoted, given>>
     \/ SilentlyClosed(f) /\ UNCHANGED streams
  /\ UNCHANGED <<bytes, made, cache>>

Fdopen(f) == Wraps(f, "file")
Fdopendir(f) == slot[f] = File /\ Wraps(f, "dir")

-----------------------------------------------------------------------------
(* Input and output.                                                         *)

\* The stream's buffer takes all that a pipe holds.
Fread(h) ==
  /\ Live(h) /\ slot[handles[h].fd].end = "read"
  /\ LET p == slot[handles[h].fd].pipe
     IN /\ bytes[p] > 0
        /\ bytes' = [bytes EXCEPT ![p] = 0]
        /\ clean' = clean \ {p}
  /\ UNCHANGED <<slot, made, cache, unnoted, streams, given>>

Fwrite(h) ==
  /\ Live(h) /\ handles[h].kind = "file" /\ slot[handles[h].fd].end \in {"write", "file"}
  /\ handles' = [handles EXCEPT ![h].full = TRUE]
  /\ UNCHANGED <<hvars, opened, blocks, given>>

\* The streams of H whose buffer goes into pipe p.
Feeding(H, p) == {h \in H : handles[h].full /\ slot[handles[h].fd] = WriteEnd(p)}

\* What is in the buffers of H reaches the kernel, or is lost without a reader.
Flushed(H) ==
  /\ \A p \in Pipes : HasReader(p) => bytes[p] + Cardinality(Feeding(H, p)) <= Capacity
  /\ bytes' = [p \in Pipes |-> IF HasReader(p)
                               THEN bytes[p] + Cardinality(Feeding(H, p)) ELSE bytes[p]]

\* A handle the registry does not know, 0 among them, flushes every stream.
Fflush(H) ==
  /\ Flushed(H)
  /\ handles' = [h \in 1..MaxHandles |-> IF h \in H THEN [handles[h] EXCEPT !.full = FALSE]
                                         ELSE handles[h]]
  /\ clean' = clean \ {p \in Pipes : Feeding(H, p) # {}}
  /\ UNCHANGED <<slot, made, cache, unnoted, opened, blocks, given>>

\* fputs to a standard stream of the guest is a write to its number.
FputsStandard(f) ==
  /\ f \in {1, 2} /\ slot[f].end = "write" /\ HasReader(slot[f].pipe)
  /\ bytes[slot[f].pipe] < Capacity
  /\ bytes' = [bytes EXCEPT ![slot[f].pipe] = @ + 1]
  /\ clean' = clean \ {slot[f].pipe}
  /\ UNCHANGED <<slot, made, cache, unnoted, streams, given>>

\* fileno and dirfd tell the guest the number.
Fileno(h) ==
  /\ Live(h) /\ Open(handles[h].fd)
  /\ given' = given \cup {handles[h].fd}
  /\ UNCHANGED <<hvars, streams>>

\* The first entry allocates the block all entries are copied to.
Readdir(h) ==
  /\ Live(h) /\ handles[h].kind = "dir"
  /\ \/ /\ ~handles[h].dirent
        /\ handles' = [handles EXCEPT ![h].dirent = TRUE]
        /\ blocks' = blocks \cup {<<h, "dirent">>}
     \/ UNCHANGED <<handles, blocks>>
  /\ UNCHANGED <<hvars, opened, given>>

-----------------------------------------------------------------------------
(* Closing.                                                                  *)

\* What a closed handle leaves: nothing in the registry, none of its blocks.
Unregistered(h) == /\ handles' = [handles EXCEPT ![h] = NoHandle]
                   /\ blocks' = blocks \ BlocksOf(h)
                   /\ UNCHANGED opened

\* fclose flushes first; pclose does what fclose does.
Fclose(h) ==
  /\ Live(h) /\ handles[h].kind = "file"
  /\ Flushed({h})
  /\ SilentlyClosed(handles[h].fd)
  /\ Unregistered(h)
  /\ UNCHANGED <<made, cache>>

Closedir(h) ==
  /\ Live(h) /\ handles[h].kind = "dir"
  /\ SilentlyClosed(handles[h].fd)
  /\ Unregistered(h)
  /\ UNCHANGED <<bytes, made, cache>>

\* A call on numbers: those that name something new are the guest's.
OnNumbers ==
  /\ HNext
  /\ given' = {f \in Numbers : slot'[f] # Free /\ (f \in given \/ slot'[f] # slot[f])}
  /\ UNCHANGED streams

SNext == \/ OnNumbers
         \/ \E f \in Numbers : Fopen(f) \/ Popen(f) \/ Opendir(f) \/ Fdopen(f)
                               \/ Fdopendir(f) \/ FputsStandard(f)
         \/ \E h \in 1..MaxHandles : Fread(h) \/ Fwrite(h) \/ Fileno(h) \/ Readdir(h)
                                     \/ Fclose(h) \/ Closedir(h) \/ Fflush({h})
         \/ Fflush({h \in 1..MaxHandles : Live(h)})

SSpec == SInit /\ [][SNext]_svars

-----------------------------------------------------------------------------
\* Nothing of the host is left open with nobody to close it: an open number was
\* told to the guest or belongs to a registered stream.  The blocks on the
\* guest's heap are those of registered streams.
NothingOrphaned ==
  /\ \A f \in Numbers : Open(f) =>
        f \in given \/ \E h \in 1..MaxHandles : Names(h, f)
  /\ blocks = UNION {BlocksOf(h) : h \in {g \in 1..MaxHandles : Live(g)}}
=============================================================================
