---------------------------- MODULE GuestDirectories ----------------------------
(***************************************************************************)
(* The paths a guest opens, lists and asks about: the table of open files  *)
(* and directories (guest_model/files.rs of the analysis crate, and the    *)
(* same file of the runtime when it is built without that crate), and the  *)
(* hooks opendir, fdopendir, readdir_r, closedir, stat and fstat over it.  *)
(*                                                                         *)
(* What is opened is a snapshot: the bytes or the sorted names are taken   *)
(* from the host at open, and the host may change after.  A path that does *)
(* not exist may be made up: the analysis policy invents files and         *)
(* directories a program under analysis likes to find, the compat policy   *)
(* only creates what is opened with O_CREAT.                               *)
(*                                                                         *)
(* One process, since descriptors of others never name its files.          *)
(* Abstracted: a file is its length, a name a number in the byte order of  *)
(* names ("." is 1 and ".." is 2), the layout of dirent and stat; names    *)
(* that are not UTF-8 are left out by the code and here.  Descriptors      *)
(* issued start at 0x10000, so dup2 names a low number or an issued one.   *)
(***************************************************************************)
EXTENDS Naturals, Sequences, FiniteSets

CONSTANTS Routes,       \* paths
          Sketch,       \* what the spelling of a path says about it (Spelling)
          Trees,        \* what the host may hold at each path
          LowNumbers,   \* descriptors never issued, which dup2 may name
          FirstNumber,  \* next_fd of a fresh state
          LastNumber,   \* bound on the descriptors issued
          Amounts,      \* counts of a read
          MaxTurns      \* bound on the calls

Descriptors == LowNumbers \cup FirstNumber..LastNumber
\* The policies, and the build that has only the second.
Regimes == {"analysis", "compat", "bare"}
Absent == [kind |-> "none", size |-> 0, names |-> {}]
NoTarget == [kind |-> "none", id |-> 0]
Quiet == [call |-> "none", number |-> 0, errno |-> 0, end |-> FALSE]

ASSUME DirectoryAssumption ==
  /\ FirstNumber \in Nat \ {0} /\ LastNumber \in Nat /\ MaxTurns \in Nat
  /\ LowNumbers \subseteq 0..(FirstNumber - 1) /\ Amounts \subseteq Nat
  /\ Sketch \in [Routes -> [form : STRING, looksDir : BOOLEAN, marker : BOOLEAN]]
  /\ \A tree \in Trees :
       /\ tree \in [Routes -> [kind : {"none", "file", "folder", "sealed file", "sealed folder"},
                             size : Nat, names : SUBSET Nat]]
       /\ \A route \in Routes : /\ IsFiniteSet(tree[route].names)
                                /\ tree[route].kind = "none" => tree[route] = Absent

VARIABLES regime,    \* the policy of the table
          hostTree,  \* what the host holds at each path
          fileTable, \* the tables of descriptors, files, directories and streams
          outcome,   \* history: the last reply
          heard,     \* history: per descriptor, where it began and what it gave
          turns      \* the calls made

directoryvars == <<regime, hostTree, fileTable, outcome, heard, turns>>

DirectoriesInit ==
  /\ regime \in Regimes /\ hostTree \in Trees
  /\ fileTable = [nextNumber |-> FirstNumber, bound |-> [n \in Descriptors |-> NoTarget],
              nextFile |-> 1, nextDir |-> 1, files |-> <<>>, dirs |-> <<>>,
              fileAt |-> <<>>, dirAt |-> <<>>, nextStream |-> 1, streams |-> <<>>]
  /\ outcome = Quiet /\ heard = [n \in Descriptors |-> [from |-> 0, names |-> <<>>]]
  /\ turns = 0

\* A map with a key, one without some keys, and what it holds for a key or a default.
Putting(f, k, v) == [x \in DOMAIN f \cup {k} |-> IF x = k THEN v ELSE f[x]]
Dropping(f, keys) == [x \in DOMAIN f \ keys |-> f[x]]
At(f, k) == IF k \in DOMAIN f THEN f[k] ELSE 0

-------------------------------------------------------------------------------
(***************************************************************************)
(* What is made up for a path that does not exist.                         *)
(***************************************************************************)

\* synthetic_file_size
SyntheticSize == IF regime = "analysis" THEN 4096 ELSE 0

Clamp(x, lo, hi) == IF x < lo THEN lo ELSE IF x > hi THEN hi ELSE x
\* materialize_synthetic_file_bytes: the length by the kind of file.
MadeLength(route) ==
  CASE Sketch[route].form = "state" -> 103
    [] Sketch[route].form = "login" -> IF SyntheticSize > 2048 THEN SyntheticSize ELSE 2048
    [] Sketch[route].form = "text" -> Clamp(SyntheticSize, 256, 1024)
    [] Sketch[route].form = "secret" -> Clamp(SyntheticSize, 512, 1024)
    [] OTHER -> SyntheticSize

\* The names in order, after the two every directory has.
Listing(names) ==
  LET all == {1, 2} \cup names
      Before(x) == {y \in all : y < x}
  IN [i \in 1..Cardinality(all) |-> CHOOSE x \in all : Cardinality(Before(x)) = i - 1]
\* synthetic_directory_entries: the families of directories by their number of names.
MadeListing(route) ==
  Listing(3..(CASE Sketch[route].form = "profiles" -> 4
                [] Sketch[route].form \in {"browser", "leveldb", "wallet"} -> 5
                [] OTHER -> 6))

\* path_looks_like_directory
LooksLikeDirectory(route) == Sketch[route].looksDir
\* should_materialize_missing_path, under a policy that materialises: markers and
\* lock files a program leaves for itself are really missing.
Materialises(route) == regime = "analysis" /\ ~Sketch[route].marker

-------------------------------------------------------------------------------
(***************************************************************************)
(* Opening.                                                                *)
(***************************************************************************)

Answer(t, number, errno) == [table |-> t, number |-> number, errno |-> errno]

\* A new file, or a new directory, under the descriptor being found.
NewFile(t, n, route, kind, size) ==
  [t EXCEPT !.files = Putting(@, t.nextFile, [route |-> route, kind |-> kind, size |-> size]),
            !.nextFile = @ + 1, !.fileAt = Putting(@, n, 0),
            !.bound[n] = [kind |-> "file", id |-> t.nextFile]]
NewDir(t, n, route, listing) ==
  [t EXCEPT !.dirs = Putting(@, t.nextDir, [route |-> route, listing |-> listing]),
            !.nextDir = @ + 1, !.dirAt = Putting(@, n, 0),
            !.bound[n] = [kind |-> "dir", id |-> t.nextDir]]

\* create_missing_file_target
CreatedMissing(t, n, route) == NewFile(t, n, route, "bytes", 0)
\* synthesize_missing_open_target
Synthesized(t, n, route) ==
  IF LooksLikeDirectory(route) THEN NewDir(t, n, route, MadeListing(route))
  ELSE NewFile(t, n, route, "bytes", MadeLength(route))

\* What exists on the host; a directory that cannot be listed uses up an id.
Existing(t, n, route) ==
  LET node == hostTree[route]
  IN CASE node.kind = "folder" -> Answer(NewDir(t, n, route, Listing(node.names)), n, 0)
       [] node.kind = "file" -> Answer(NewFile(t, n, route, "bytes", node.size), n, 0)
       [] node.kind = "sealed folder" -> Answer([t EXCEPT !.nextDir = @ + 1], 0, 2)
       [] OTHER -> Answer(t, 0, 2)

\* open_guest_path_with_flags with the policies of the analysis crate, and of the
\* build without it.
OpenedByPolicy(t, n, route, create) ==
  CASE Sketch[route].form = "random" -> Answer(NewFile(t, n, route, "random", 0), n, 0)
    [] Sketch[route].form # "random" /\ hostTree[route] # Absent -> Existing(t, n, route)
    [] OTHER -> IF create THEN Answer(CreatedMissing(t, n, route), n, 0)
                ELSE IF Materialises(route) THEN Answer(Synthesized(t, n, route), n, 0)
                ELSE Answer(t, 0, 2)
OpenedBare(t, n, route, create) ==
  CASE Sketch[route].form = "random" -> Answer(NewFile(t, n, route, "random", 0), n, 0)
    [] Sketch[route].form # "random" /\ hostTree[route] # Absent -> Existing(t, n, route)
    [] OTHER -> IF create THEN Answer(CreatedMissing(t, n, route), n, 0)
                ELSE Answer(t, 0, 2)

\* open_guest_file_with_flags: the number is used up whether or not it opens.
Opened(t, route, create) ==
  LET n == t.nextNumber
      s == [t EXCEPT !.nextNumber = @ + 1]
  IN IF regime = "bare" THEN OpenedBare(s, n, route, create)
     ELSE OpenedByPolicy(s, n, route, create)

-------------------------------------------------------------------------------
(***************************************************************************)
(* Closing: the file or directory goes with its last descriptor.           *)
(***************************************************************************)

\* Mutant: the place in a directory stays behind the closed descriptor.
ClosedKeepsPlace(t, n) ==
  LET target == t.bound[n]
      kept == \E m \in Descriptors \ {n} : t.bound[m] = target
  IN [t EXCEPT !.bound[n] = NoTarget, !.fileAt = Dropping(@, {n}),
               !.files = IF target.kind = "file" /\ ~kept THEN Dropping(@, {target.id}) ELSE @,
               !.dirs = IF target.kind = "dir" /\ ~kept THEN Dropping(@, {target.id}) ELSE @]
\* close_synthetic_fd
ClosedNumber(t, n) ==
  LET target == t.bound[n]
      kept == \E m \in Descriptors \ {n} : t.bound[m] = target
  IN [t EXCEPT !.bound[n] = NoTarget,
               !.fileAt = IF target.kind = "file" THEN Dropping(@, {n}) ELSE @,
               !.dirAt = IF target.kind = "dir" THEN Dropping(@, {n}) ELSE @,
               !.files = IF target.kind = "file" /\ ~kept THEN Dropping(@, {target.id}) ELSE @,
               !.dirs = IF target.kind = "dir" /\ ~kept THEN Dropping(@, {target.id}) ELSE @]

\* A reply, with the descriptors that began anew forgetting what they gave.
StartingAt(from) == [from |-> from, names |-> <<>>]
Reply(call, number, errno) ==
  outcome' = [call |-> call, number |-> number, errno |-> errno, end |-> FALSE]

-------------------------------------------------------------------------------
(***************************************************************************)
(* The hooks.                                                              *)
(***************************************************************************)

OpenFile(route, create) ==
  /\ fileTable.nextNumber <= LastNumber
  /\ LET found == Opened(fileTable, route, create) IN
     /\ fileTable' = found.table /\ Reply("open", found.number, found.errno)
     /\ heard' = [heard EXCEPT ![fileTable.nextNumber] = StartingAt(0)]

\* open_directory_stream: the answer names the stream, or 0 and the error.
StreamOn(t, n) ==
  CASE t.bound[n].kind = "dir" ->
         Answer([t EXCEPT !.streams = Putting(@, t.nextStream, n), !.nextStream = @ + 1],
                t.nextStream, 0)
    [] t.bound[n].kind = "file" -> Answer(t, 0, 20)
    [] OTHER -> Answer(t, 0, 9)

\* opendir: what turns out not to be a directory is closed again.
OpenDir(route) ==
  /\ fileTable.nextNumber <= LastNumber
  /\ LET n == fileTable.nextNumber
         found == Opened(fileTable, route, FALSE)
         stream == StreamOn(found.table, n)
     IN IF found.errno # 0
        THEN fileTable' = found.table /\ Reply("opendir", n, found.errno)
        ELSE /\ fileTable' = IF stream.errno = 0 THEN stream.table ELSE ClosedNumber(found.table, n)
             /\ Reply("opendir", n, stream.errno)
  /\ heard' = [heard EXCEPT ![fileTable.nextNumber] = StartingAt(0)]

FdOpenDir(n) ==
  LET stream == StreamOn(fileTable, n)
  IN fileTable' = stream.table /\ Reply("fdopendir", n, stream.errno) /\ UNCHANGED heard

\* read_guest_directory_entry: the next name, or nothing for what is no directory.
NextEntry(t, n) ==
  LET id == t.bound[n].id
      at == At(t.dirAt, n)
  IN IF t.bound[n].kind = "dir" /\ at < Len(t.dirs[id].listing)
     THEN <<t.dirs[id].listing[at + 1]>> ELSE <<>>

\* readdir_r returns 0 in every case; an unknown stream shows in errno alone.
ReadDir(stream) ==
  IF stream \notin DOMAIN fileTable.streams
  THEN Reply("readdir", 0, 9) /\ UNCHANGED <<fileTable, heard>>
  ELSE LET n == fileTable.streams[stream]
           entry == NextEntry(fileTable, n)
       IN /\ outcome' = [call |-> "readdir", number |-> n, errno |-> 0, end |-> entry = <<>>]
          /\ fileTable' = IF entry = <<>> THEN fileTable
                      ELSE [fileTable EXCEPT !.dirAt = Putting(@, n, At(@, n) + 1)]
          /\ heard' = [heard EXCEPT ![n].names = @ \o entry]

\* closedir closes the descriptor the stream was opened on, whatever it is by now.
CloseDir(stream) ==
  /\ UNCHANGED heard
  /\ IF stream \notin DOMAIN fileTable.streams
     THEN Reply("closedir", 0, 9) /\ UNCHANGED fileTable
     ELSE LET n == fileTable.streams[stream] IN
          /\ fileTable' = ClosedNumber([fileTable EXCEPT !.streams = Dropping(@, {stream})], n)
          /\ Reply("closedir", n, 0)

CloseNumber(n) ==
  fileTable' = ClosedNumber(fileTable, n) /\ Reply("close", n, 0) /\ UNCHANGED heard

\* duplicate_synthetic_fd: the duplicate starts where its original is.
Duplicate(n) ==
  /\ fileTable.nextNumber <= LastNumber /\ fileTable.bound[n] # NoTarget
  /\ LET m == fileTable.nextNumber
         target == fileTable.bound[n]
     IN /\ fileTable' = [fileTable EXCEPT
             !.bound[m] = target, !.nextNumber = m + 1,
             !.fileAt = IF target.kind = "file" THEN Putting(@, m, At(@, n)) ELSE @,
             !.dirAt = IF target.kind = "dir" THEN Putting(@, m, At(@, n)) ELSE @]
        /\ heard' = [heard EXCEPT ![m] = StartingAt(At(fileTable.dirAt, n))]
        /\ Reply("dup", m, 0)

\* dup2 closes its goal first and takes no place along: the new descriptor starts
\* at the front.  dup2 onto itself closes it.
DuplicateOnto(n, m) ==
  LET closed == ClosedNumber(fileTable, m)
  IN /\ m < fileTable.nextNumber
     /\ fileTable' = [closed EXCEPT !.bound[m] = closed.bound[n]]
     /\ heard' = [heard EXCEPT ![m] = StartingAt(0)]
     /\ Reply("dup2", m, 0)

\* terminate_synthetic_process: every descriptor is closed.
OpenOn(t, kind) == {n \in Descriptors : t.bound[n].kind = kind}
AllClosed(t) ==
  [t EXCEPT !.bound = [n \in Descriptors |-> NoTarget], !.streams = <<>>,
            !.fileAt = Dropping(@, OpenOn(t, "file")), !.dirAt = Dropping(@, OpenOn(t, "dir")),
            !.files = Dropping(@, {t.bound[n].id : n \in OpenOn(t, "file")}),
            !.dirs = Dropping(@, {t.bound[n].id : n \in OpenOn(t, "dir")})]
EndProcess ==
  /\ fileTable' = AllClosed(fileTable)
  /\ Reply("exit", 0, 0) /\ UNCHANGED heard

\* read_guest_file: up to the end of a snapshot; random bytes never end.
ReadAmount(n, count) ==
  LET id == fileTable.bound[n].id
      at == At(fileTable.fileAt, n)
      size == fileTable.files[id].size
      random == fileTable.files[id].kind = "random"
      start == IF random \/ at < size THEN at ELSE size
      stop == IF random \/ start + count < size THEN start + count ELSE size
  IN /\ fileTable.bound[n].kind = "file"
     /\ fileTable' = [fileTable EXCEPT !.fileAt = Putting(@, n, stop)]
     /\ outcome' = [call |-> "read", number |-> n, errno |-> 0, end |-> ~random /\ stop >= size]
     /\ UNCHANGED heard

-------------------------------------------------------------------------------
(***************************************************************************)
(* Asking for sizes.                                                       *)
(***************************************************************************)

FileLength(t, id) == IF t.files[id].kind = "random" THEN 0 ELSE t.files[id].size
Missing == [errno |-> 2, size |-> 0]
OfLength(size) == [errno |-> 0, size |-> size]

\* stat_guest_path for a path nobody has open: the host answers, and for what it does
\* not have, under a policy that materialises, what would be made up.
StatOnHost(route) ==
  IF Sketch[route].form = "random" THEN OfLength(0)
  ELSE IF hostTree[route] # Absent THEN OfLength(hostTree[route].size) ELSE Missing
StatClosed(route) ==
  IF StatOnHost(route) = Missing /\ Materialises(route) THEN OfLength(MadeLength(route))
  ELSE StatOnHost(route)
\* Any open file of that path answers first (a hash map has no order), then any open
\* directory.
StatReplies(t, route) ==
  LET files == {id \in DOMAIN t.files : t.files[id].route = route}
  IN IF files # {} THEN {OfLength(FileLength(t, id)) : id \in files}
     ELSE IF \E id \in DOMAIN t.dirs : t.dirs[id].route = route THEN {OfLength(0)}
     ELSE {StatClosed(route)}
\* fstat_guest_file: a directory has no length, what is not open is no descriptor.
FstatReply(t, n) ==
  CASE t.bound[n].kind = "file" -> OfLength(FileLength(t, t.bound[n].id))
    [] t.bound[n].kind = "dir" -> OfLength(0)
    [] OTHER -> [errno |-> 9, size |-> 0]

\* stat and lstat, and fstat.
StatPath(route) ==
  \E reply \in StatReplies(fileTable, route) :
     Reply("stat", 0, reply.errno) /\ UNCHANGED <<fileTable, heard>>
FstatNumber(n) ==
  Reply("fstat", n, FstatReply(fileTable, n).errno) /\ UNCHANGED <<fileTable, heard>>

\* Somebody changes what the host holds.
HostChanges == /\ hostTree' \in Trees \ {hostTree}
               /\ UNCHANGED <<regime, fileTable, outcome, heard, turns>>

DirectoryHook ==
  \/ \E route \in Routes : \/ \E create \in BOOLEAN : OpenFile(route, create)
                           \/ OpenDir(route) \/ StatPath(route)
  \/ \E n \in Descriptors : \/ FdOpenDir(n) \/ CloseNumber(n) \/ Duplicate(n) \/ FstatNumber(n)
                        \/ \E m \in Descriptors : DuplicateOnto(n, m)
                        \/ \E count \in Amounts : ReadAmount(n, count)
  \/ \E stream \in 1..fileTable.nextStream : ReadDir(stream) \/ CloseDir(stream)
  \/ EndProcess

DirectoriesNext ==
  \/ turns < MaxTurns /\ turns' = turns + 1 /\ DirectoryHook /\ UNCHANGED <<regime, hostTree>>
  \/ HostChanges
DirectoriesSpec == DirectoriesInit /\ [][DirectoriesNext]_directoryvars

-------------------------------------------------------------------------------
(***************************************************************************)
(* What must hold.                                                         *)
(***************************************************************************)

IsDir(n) == fileTable.bound[n].kind = "dir"
IsFile(n) == fileTable.bound[n].kind = "file"

\* A descriptor gives the names of its directory in their order from where it began,
\* none twice and none skipped, however it came to its number, and the end is told
\* when there is nothing left.
NamesInOrder ==
  \A n \in Descriptors : IsDir(n) =>
    LET listing == fileTable.dirs[fileTable.bound[n].id].listing
        at == At(fileTable.dirAt, n)
    IN /\ heard[n].names = SubSeq(listing, heard[n].from + 1, at)
       /\ \A i, j \in DOMAIN heard[n].names : i < j => heard[n].names[i] < heard[n].names[j]
       /\ outcome.call = "readdir" /\ outcome.number = n /\ outcome.end => at = Len(listing)

\* The table holds exactly what some descriptor names, and a place in a file or a
\* directory belongs to a descriptor that is open on one and lies inside it.
NothingLeftOver ==
  /\ DOMAIN fileTable.files = {fileTable.bound[n].id : n \in {m \in Descriptors : IsFile(m)}}
  /\ DOMAIN fileTable.dirs = {fileTable.bound[n].id : n \in {m \in Descriptors : IsDir(m)}}
  /\ \A n \in DOMAIN fileTable.dirAt :
       IsDir(n) /\ fileTable.dirAt[n] <= Len(fileTable.dirs[fileTable.bound[n].id].listing)
  /\ \A n \in DOMAIN fileTable.fileAt :
       /\ IsFile(n)
       /\ LET file == fileTable.files[fileTable.bound[n].id]
          IN file.kind = "random" \/ fileTable.fileAt[n] <= file.size

\* A call that fails leaves no descriptor behind.
FailuresClean ==
  outcome.call \in {"open", "opendir"} /\ outcome.errno # 0 /\ outcome.number # 0 =>
    fileTable.bound[outcome.number] = NoTarget

\* What stat says of a path is what opening it shows.  While it is open stat tells
\* the length fstat tells of one of its descriptors.  While it is not, stat finds it
\* exactly if a plain open will (what cannot be read apart), and the file opened has
\* the length stat promised.
StatMatchesOpen ==
  \A route \in Routes :
    LET users == {n \in Descriptors :
                    \/ IsFile(n) /\ fileTable.files[fileTable.bound[n].id].route = route
                    \/ IsDir(n) /\ fileTable.dirs[fileTable.bound[n].id].route = route}
        found == Opened(fileTable, route, FALSE)
        readable == hostTree[route].kind \notin {"sealed file", "sealed folder"}
    IN \A reply \in StatReplies(fileTable, route) :
         IF users # {} THEN \E n \in users : reply = FstatReply(fileTable, n)
         ELSE readable /\ fileTable.nextNumber <= LastNumber =>
                /\ reply.errno = found.errno
                /\ found.errno = 0 /\ found.table.bound[found.number].kind = "file" =>
                     reply = FstatReply(found.table, found.number)

DirectoriesHonest == NamesInOrder /\ NothingLeftOver /\ FailuresClean /\ StatMatchesOpen
===============================================================================
