------------------------------ MODULE HostResults ------------------------------
(***************************************************************************)
(* Results of host calls that the compat layer copies to the guest's heap: *)
(* the lists of getaddrinfo and getifaddrs, the names of scandir and glob, *)
(* the record of getpwnam.  Each is built of several blocks, the heap may  *)
(* refuse any of them, and most are given back by a call that finds the    *)
(* blocks in guest memory.                                                 *)
(*                                                                         *)
(* An entry of a host list is the number of optional parts it has (names,  *)
(* addresses), in the order they are copied.  room is how many blocks the  *)
(* heap still grants a call; a block is a number, and none is granted      *)
(* twice, as GuestMemory has it.  Abstracted: what the parts say.          *)
(***************************************************************************)
EXTENDS Naturals, Sequences

CONSTANTS Limit,        \* MAX_ADDRINFO_RESULTS, MAX_IFADDRS_RESULTS
          HostLists,    \* lists the host answers with
          NameCounts,   \* numbers of names scandir and glob find
          MaxTop        \* bound on blocks

ASSUME ResultsAssumption ==
  Limit \in Nat /\ MaxTop \in Nat /\ NameCounts \subseteq Nat /\ HostLists \subseteq Seq(Nat)

VARIABLES live,         \* malloc_allocations
          top,          \* blocks granted so far
          parts, next,  \* guest memory: the pointers in a block
          held,         \* what the guest can give back: kind and first block
          globbed,      \* glob_t: gl_pathv
          spilt         \* history: blocks nobody has a pointer to

resultvars == <<live, top, parts, next, held, globbed, spilt>>

Handle(kind, b) == [kind |-> kind, at |-> b]

Blocks == 1..MaxTop
\* The next n blocks, and how many of n the heap may grant before it refuses.
NextBlocks(n) == top + 1..top + n
Refusals(n) == {k \in 0..n : top + k <= MaxTop}

RInit == /\ live = {} /\ top = 0 /\ held = {} /\ globbed = 0 /\ spilt = {}
         /\ parts = [b \in Blocks |-> {}] /\ next = [b \in Blocks |-> 0]

\* What the walk from block b finds: at most Limit nodes, each once.
Visited(b) ==
  LET at[i \in 0..Limit] == IF i = 0 THEN b ELSE IF at[i - 1] = 0 THEN 0 ELSE next[at[i - 1]]
  IN {at[i] : i \in 0..Limit - 1} \ {0}
\* A node and what it points to.
WithParts(b) == {b} \cup parts[b]
ListBlocks(b) == UNION {WithParts(n) : n \in Visited(b)}

-------------------------------------------------------------------------------
(***************************************************************************)
(* Lists.                                                                  *)
(***************************************************************************)

Copied(list) == SubSeq(list, 1, IF Len(list) < Limit THEN Len(list) ELSE Limit)
\* The node of each entry of a list that is copied from the next block on.
NodeOf(list) ==
  LET node[i \in 1..Len(list)] == IF i = 1 THEN top + 1 ELSE node[i - 1] + 1 + list[i - 1]
  IN node
Needed(list) == IF list = <<>> THEN 0
                ELSE NodeOf(list)[Len(list)] + list[Len(list)] - top
PartsOf(list, i) == NodeOf(list)[i] + 1..NodeOf(list)[i] + list[i]

\* The list in guest memory, entries linked in the host's order.
Linked(list) ==
  LET nodes == {NodeOf(list)[i] : i \in DOMAIN list}
      index(b) == CHOOSE i \in DOMAIN list : NodeOf(list)[i] = b
  IN /\ parts' = [b \in Blocks |-> IF b \in nodes THEN PartsOf(list, index(b)) ELSE parts[b]]
     /\ next' = [b \in Blocks |->
                   IF b \in nodes
                   THEN IF index(b) = Len(list) THEN 0 ELSE NodeOf(list)[index(b) + 1]
                   ELSE next[b]]

Given(kind, list) ==
  held' = held \cup (IF list = <<>> THEN {} ELSE {Handle(kind, top + 1)})

\* getaddrinfo: whatever stops it, what was copied so far stays behind.
Getaddrinfo(hostList, room, writable) ==
  LET list == Copied(hostList)
  IN /\ room \in Refusals(Needed(list)) /\ (room < Needed(list) => writable)
     /\ top' = top + room /\ live' = live \cup NextBlocks(room)
     /\ IF room = Needed(list) /\ writable
        THEN Linked(list) /\ Given("addrinfo", list) /\ UNCHANGED spilt
        ELSE spilt' = spilt \cup NextBlocks(room) /\ UNCHANGED <<parts, next, held>>
     /\ UNCHANGED globbed

\* Mutant: of the entry that was refused a part, the last one copied is left out.
EntriesPartial(list, room) ==
  {[node |-> NodeOf(list)[i],
    with |-> IF PartsOf(list, i) \subseteq NextBlocks(room) THEN PartsOf(list, i)
             ELSE PartsOf(list, i) \cap NextBlocks(room - 1)] :
     i \in {j \in DOMAIN list : NodeOf(list)[j] \in NextBlocks(room)}}
\* The entries of getifaddrs after room blocks: all of an entry, or the node
\* and the parts that were copied before the heap refused.
Entries(list, room) ==
  {[node |-> NodeOf(list)[i], with |-> PartsOf(list, i) \cap NextBlocks(room)] :
     i \in {j \in DOMAIN list : NodeOf(list)[j] \in NextBlocks(room)}}
EntryBlocks(entries) == UNION {{e.node} \cup e.with : e \in entries}

\* getifaddrs: all of it or nothing.
Getifaddrs(hostList, room, writable) ==
  LET list == Copied(hostList)
  IN /\ room \in Refusals(Needed(list)) /\ (room < Needed(list) => writable)
     /\ top' = top + room
     /\ IF room = Needed(list) /\ writable
        THEN Linked(list) /\ Given("ifaddrs", list) /\ live' = live \cup NextBlocks(room)
        ELSE /\ live' = (live \cup NextBlocks(room)) \ EntryBlocks(Entries(list, room))
             /\ UNCHANGED <<parts, next, held>>
     /\ UNCHANGED <<globbed, spilt>>

\* freeaddrinfo and freeifaddrs.
FreeList(h) ==
  /\ h.kind \in {"addrinfo", "ifaddrs"}
  /\ live' = live \ ListBlocks(h.at)
  /\ held' = held \ {h}
  /\ UNCHANGED <<top, parts, next, globbed, spilt>>

\* The guest cuts a list in two and gives each part back on its own.
Cut(h, b) ==
  /\ h.kind \in {"addrinfo", "ifaddrs"}
  /\ b \in Visited(h.at) /\ next[b] # 0
  /\ next' = [next EXCEPT ![b] = 0]
  /\ held' = held \cup {Handle(h.kind, next[b])}
  /\ UNCHANGED <<live, top, parts, globbed, spilt>>

-------------------------------------------------------------------------------
(***************************************************************************)
(* Tables of names and the user record: the parts come first, then the     *)
(* block that points to them.                                              *)
(***************************************************************************)

Table(n) == top + n + 1
TableWritten(n) == parts' = [parts EXCEPT ![Table(n)] = NextBlocks(n)] /\ UNCHANGED next

Scandir(n, room, writable) ==
  /\ room \in Refusals(n + 1) /\ (room < n + 1 => writable)
  /\ top' = top + room
  /\ IF room = n + 1 /\ writable
     THEN /\ live' = live \cup NextBlocks(room) /\ TableWritten(n)
          /\ held' = held \cup {Handle("names", Table(n))}
     ELSE UNCHANGED <<live, parts, next, held>>
  /\ UNCHANGED <<globbed, spilt>>

\* The guest frees the names and their table.
FreeNames(h) ==
  /\ h.kind = "names"
  /\ live' = live \ WithParts(h.at) /\ held' = held \ {h}
  /\ UNCHANGED <<top, parts, next, globbed, spilt>>

\* GLOB_APPEND is not looked at: a second glob of a glob_t drops the first table.
Glob(n, room) ==
  /\ room \in Refusals(n + 1)
  /\ top' = top + room
  /\ IF room = n + 1
     THEN /\ live' = live \cup NextBlocks(room) /\ TableWritten(n)
          /\ globbed' = Table(n)
          /\ spilt' = spilt \cup IF globbed = 0 THEN {} ELSE WithParts(globbed)
     ELSE UNCHANGED <<live, parts, next, globbed, spilt>>
  /\ UNCHANGED held

\* What globfree gives back: the table, and the names it points to.
GlobfreeBlocks == WithParts(globbed)
Globfree ==
  /\ live' = IF globbed \in live THEN live \ GlobfreeBlocks ELSE live
  /\ globbed' = 0
  /\ UNCHANGED <<top, parts, next, held, spilt>>

\* The record of a user, never given back: what came before a refusal stays.
Passwd(n, room) ==
  /\ room \in Refusals(n + 1)
  /\ top' = top + room /\ live' = live \cup NextBlocks(room)
  /\ IF room = n + 1
     THEN TableWritten(n) /\ held' = held \cup {Handle("passwd", Table(n))} /\ UNCHANGED spilt
     ELSE spilt' = spilt \cup NextBlocks(room) /\ UNCHANGED <<parts, next, held>>
  /\ UNCHANGED globbed

RNext ==
  \/ \E l \in HostLists, room \in 0..MaxTop, writable \in BOOLEAN :
       Getaddrinfo(l, room, writable) \/ Getifaddrs(l, room, writable)
  \/ \E h \in held : FreeList(h) \/ FreeNames(h) \/ \E b \in Blocks : Cut(h, b)
  \/ \E n \in NameCounts, room \in 0..MaxTop, writable \in BOOLEAN : Scandir(n, room, writable)
  \/ \E n \in NameCounts, room \in 0..MaxTop : Glob(n, room) \/ Passwd(n, room)
  \/ Globfree
RSpec == RInit /\ [][RNext]_resultvars

-------------------------------------------------------------------------------
BlocksHeld(h) == IF h.kind \in {"addrinfo", "ifaddrs"} THEN ListBlocks(h.at) ELSE WithParts(h.at)

\* Whatever the heap refused and however the guest cut its lists: a block in use
\* belongs to exactly one result the guest can give back, to its glob_t, or was
\* spilt by getaddrinfo or getpwnam, which stopped half-way, or by a second glob.
\* Nothing the guest can still reach was given back.
ResultsAccounted ==
  /\ live = (UNION {BlocksHeld(h) : h \in held}) \cup spilt
              \cup IF globbed = 0 THEN {} ELSE WithParts(globbed)
  /\ \A h, g \in held : h # g => BlocksHeld(h) \cap BlocksHeld(g) = {}
  /\ \A h \in held : BlocksHeld(h) \cap spilt = {}
===============================================================================
