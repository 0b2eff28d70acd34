----------------------------- MODULE SyscallTable -----------------------------
(***************************************************************************)
(* System calls by svc: a table of descriptors of its own for what the     *)
(* runtime makes up, the host's descriptors for what it forwards in        *)
(* compat mode, and the arena of mmap.  A kqueue is made up in every mode, *)
(* so that one number can stand for an entry of the table and for a        *)
(* descriptor of the host at a time.                                       *)
(*                                                                         *)
(* An object is a file, a pipe end or a kqueue with as many bytes as it    *)
(* has; what the guest writes is not kept.  Sizes and addresses of mmap    *)
(* count pages and wrap at Span.                                           *)
(***************************************************************************)
EXTENDS Naturals, Sequences, FiniteSets

CONSTANTS Paths,        \* names the guest uses
          Rooted,       \* those that exist below guest_fs_base
          Span,         \* pages in the address space
          ArenaBase, ArenaEnd,  \* mmap_base, mmap_end
          MapSizes,     \* sizes the guest maps, in pages
          Numbers,      \* numbers the host hands out; 3 and up are also the table's
          FileSize,     \* bytes of a file that exists
          MaxTraps      \* bound on system calls

ASSUME SyscallAssumption ==
  /\ Rooted \subseteq Paths /\ Numbers \subseteq Nat \ 0..2
  /\ {ArenaBase, ArenaEnd, Span, FileSize} \subseteq Nat
  /\ ArenaBase <= ArenaEnd /\ ArenaEnd < Span /\ MapSizes \subseteq 1..Span - 1

VARIABLES
  mode,         \* "analysis", "compat" on a Mac, or "bare": neither helps
  exited,       \* saw_exit
  table,        \* fd_table: number to object
  nextFd,       \* next_fd
  hostFds,      \* the host's descriptors of the guest: number to object
  objects,      \* size and offset of each object made
  holds,         \* history: objects the guest holds under each number
  collided,     \* history: a number was in both tables
  early,        \* history: a read said end of file too early
  disk,         \* the host's files outside guest_fs_base
  settings,     \* what else of the host was changed, or seen
  nextRegion,   \* mmap_next
  placed, asked,    \* history: regions handed out where the runtime chose, pages asked for
  traps         \* syscall_count

tablevars == <<table, nextFd, objects, holds, collided, early>>
hostvars == <<hostFds, disk, settings>>
arenavars == <<nextRegion, placed, asked>>
syscallvars == <<mode, exited, tablevars, hostvars, arenavars, traps>>

SyscallInit ==
  /\ mode \in {"analysis", "compat", "bare"} /\ exited = FALSE
  /\ table = <<>> /\ nextFd = 3 /\ hostFds = <<>> /\ objects = <<>> /\ holds = <<>>
  /\ collided = FALSE /\ early = FALSE
  /\ disk \in {{}, Paths} /\ settings = {}
  /\ nextRegion = ArenaBase /\ placed = {} /\ asked = 0
  /\ traps = 0

Trap == ~exited /\ traps < MaxTraps /\ traps' = traps + 1 /\ UNCHANGED mode
Proxied == mode = "compat"

Held(fd) == IF fd \in DOMAIN holds THEN holds[fd] ELSE {}
Entry(fd) == IF fd \in DOMAIN table THEN {table[fd]} ELSE {}
HostEntry(fd) == IF Proxied /\ fd > 2 /\ fd \in DOMAIN hostFds THEN {hostFds[fd]} ELSE {}
Dropped(f, fd) == [n \in DOMAIN f \ {fd} |-> f[n]]
With(f, fd, v) == [n \in DOMAIN f \cup {fd} |-> IF n = fd THEN v ELSE f[n]]
Gets(fd, o) == holds' = With(holds, fd, Held(fd) \cup {o})
Collides == collided' = (collided \/ DOMAIN table' \cap DOMAIN hostFds' # {})
Fresh(n) == [size |-> n, offset |-> 0]
NewObject == Len(objects) + 1

-------------------------------------------------------------------------------
(***************************************************************************)
(* Calls that make descriptors.                                            *)
(***************************************************************************)
\* The table takes an object under a fresh number.
Entered(n) ==
  /\ table' = With(table, nextFd, NewObject) /\ nextFd' = nextFd + 1
  /\ objects' = Append(objects, Fresh(n)) /\ Gets(nextFd, NewObject)
  /\ UNCHANGED <<hostFds, early>> /\ Collides

\* The host hands out a number that it has not in use.
HostHands(fd, o) ==
  /\ fd \in Numbers \ DOMAIN hostFds
  /\ hostFds' = With(hostFds, fd, o) /\ Gets(fd, o)
  /\ UNCHANGED <<table, nextFd, early>> /\ Collides

\* The host's file, or what there is without the host: the file below the root, an
\* empty file if one may be created, a synthetic one; the number is used up anyhow.
HostOpen(p, creating, fd) ==
  /\ Trap /\ Proxied /\ (p \in disk \/ creating)
  /\ disk' = disk \cup {p}
  /\ objects' = Append(objects, Fresh(IF p \in disk THEN FileSize ELSE 0))
  /\ HostHands(fd, NewObject)
  /\ UNCHANGED <<exited, settings, arenavars>>
GuestOpen(p, creating) ==
  /\ Trap /\ ~Proxied
  /\ IF p \in Rooted \/ creating \/ mode = "analysis"
     THEN Entered(IF p \in Rooted \/ ~creating THEN FileSize ELSE 0)
     ELSE nextFd' = nextFd + 1 /\ UNCHANGED <<table, objects, holds, collided, early, hostFds>>
  /\ UNCHANGED <<exited, disk, settings, arenavars>>

\* Mutant: one number for both ends.
SecondEndSame == nextFd
SecondEnd == nextFd + 1
SysPipe ==
  /\ Trap /\ ~Proxied
  /\ table' = With(With(table, SecondEnd, NewObject + 1), nextFd, NewObject)
  /\ nextFd' = nextFd + 2
  /\ objects' = objects \o <<Fresh(0), Fresh(0)>>
  /\ holds' = With(With(holds, nextFd + 1, {NewObject + 1}), nextFd, {NewObject})
  /\ UNCHANGED <<hostvars, collided, early, exited, arenavars>>

SysKqueue == Trap /\ Entered(0) /\ UNCHANGED <<exited, disk, settings, arenavars>>

\* socket and accept
SysSocket(fd) ==
  /\ Trap /\ Proxied
  /\ objects' = Append(objects, Fresh(0)) /\ HostHands(fd, NewObject)
  /\ UNCHANGED <<exited, disk, settings, arenavars>>

SysSocketpair(fd, other) ==
  /\ Trap /\ Proxied /\ fd # other /\ {fd, other} \cap DOMAIN hostFds = {}
  /\ hostFds' = With(With(hostFds, other, NewObject + 1), fd, NewObject)
  /\ objects' = objects \o <<Fresh(0), Fresh(0)>>
  /\ holds' = With(With(holds, other, Held(other) \cup {NewObject + 1}), fd, Held(fd) \cup {NewObject})
  /\ UNCHANGED <<table, nextFd, early, exited, disk, settings, arenavars>> /\ Collides

\* dup, and F_DUPFD of fcntl
SysDup(from, fd) ==
  /\ Trap
  /\ IF HostEntry(from) = {} THEN UNCHANGED <<hostFds, holds, collided, table, nextFd, early>>
     ELSE HostHands(fd, hostFds[from])
  /\ UNCHANGED <<objects, exited, disk, settings, arenavars>>
\* The number is closed first if the host has it.
SysDup2(from, to) ==
  /\ Trap /\ to > 2 /\ HostEntry(from) # {}
  /\ hostFds' = With(hostFds, to, hostFds[from])
  /\ holds' = With(holds, to, (Held(to) \ HostEntry(to)) \cup {hostFds[from]})
  /\ UNCHANGED <<table, nextFd, objects, early, exited, disk, settings, arenavars>> /\ Collides

-------------------------------------------------------------------------------
(***************************************************************************)
(* Calls on descriptors.                                                   *)
(***************************************************************************)
\* read looks in the table first; what the guest means is o.
Reached(fd) == IF fd \in DOMAIN table THEN Entry(fd) ELSE HostEntry(fd)
Left(o) == objects[o].size - objects[o].offset
SysRead(fd, o, count) ==
  LET got(r) == IF count < Left(r) THEN count ELSE Left(r)
  IN /\ Trap /\ o \in Held(fd)
     /\ IF Reached(fd) = {} THEN UNCHANGED objects
        ELSE \E r \in Reached(fd) : objects' = [objects EXCEPT ![r].offset = @ + got(r)]
     /\ early' = (early \/ (Left(o) > 0 /\ \A r \in Reached(fd) : got(r) = 0))
     /\ UNCHANGED <<table, nextFd, holds, collided, hostvars, exited, arenavars>>

\* lseek; readv and pread and the calls that write are the host's too, and do nothing
\* and answer 0, or the count, where it does not help.
SysLseek(fd, at) ==
  /\ Trap /\ HostEntry(fd) # {}
  /\ \E r \in HostEntry(fd) : at <= objects[r].size /\ objects' = [objects EXCEPT ![r].offset = at]
  /\ UNCHANGED <<table, nextFd, holds, collided, early, hostvars, exited, arenavars>>
SysReadv(fd, count) ==
  /\ Trap /\ HostEntry(fd) # {}
  /\ \E r \in HostEntry(fd) : /\ count <= Left(r)
                              /\ objects' = [objects EXCEPT ![r].offset = @ + count]
  /\ UNCHANGED <<table, nextFd, holds, collided, early, hostvars, exited, arenavars>>
SysWrite(fd) ==
  /\ Trap /\ HostEntry(fd) # {}
  /\ \E r \in HostEntry(fd) :
       objects' = [objects EXCEPT ![r] = [size |-> IF @.offset = @.size THEN @.size + 1 ELSE @.size,
                                          offset |-> @.offset + 1]]
  /\ UNCHANGED <<table, nextFd, holds, collided, early, hostvars, exited, arenavars>>

\* close removes from the table, else closes the host's; what the guest means is o.
SysClose(fd, o) ==
  /\ Trap /\ o \in Held(fd)
  /\ holds' = [holds EXCEPT ![fd] = @ \ {o}]
  /\ IF fd \in DOMAIN table
     THEN table' = Dropped(table, fd) /\ UNCHANGED hostFds
     ELSE hostFds' = (IF HostEntry(fd) = {} THEN hostFds ELSE Dropped(hostFds, fd)) /\ UNCHANGED table
  /\ UNCHANGED <<nextFd, objects, collided, early, disk, settings, exited, arenavars>>

-------------------------------------------------------------------------------
(***************************************************************************)
(* Calls on names and on the process: the host's in compat mode; otherwise *)
(* the guest is told 0 and nothing happens.                                *)
(***************************************************************************)
OnDisk(d) == /\ Trap /\ disk' = IF Proxied THEN d ELSE disk
             /\ UNCHANGED <<tablevars, hostFds, settings, exited, arenavars>>
Sets(what) == /\ Trap /\ settings' = IF Proxied THEN settings \cup {what} ELSE settings
              /\ UNCHANGED <<tablevars, hostFds, disk, exited, arenavars>>
\* What the guest is told of the host, in compat mode.
Looks == Sets("seen")
\* What the runtime answers by itself in every mode.
Answered == Trap /\ UNCHANGED <<tablevars, hostvars, exited, arenavars>>

SysMkdir(p) == OnDisk(disk \cup {p})
SysSymlink(p) == OnDisk(disk \cup {p})
SysUnlink(p) == OnDisk(disk \ {p})
SysRename(p, q) == OnDisk(IF p \in disk THEN (disk \ {p}) \cup {q} ELSE disk)
SysChmod == Sets("attributes")
SysTruncate == Sets("attributes")
SysChdir == Sets("directory")
SysUmask == Sets("mask")
SysSetrlimit == Sets("limits")
SysConnect == Sets("network")
SysSendmsg == Sets("network")
SysSetsockopt == Sets("network")
SysGetpid == Looks
SysGettimeofday == Looks
SysAccess == Looks
SysStat == Looks
SysStatfs == Looks
SysReadlink == Looks
SysSysctl == Looks
SysGetattrlist == Looks
SysGetsockname == Looks
SysGetsockopt == Looks
SysSelect == Looks
SysPoll == Looks
SysIoctl == Looks
SysWait4 == Answered
SysGetdirentries == Answered
SysKevent == Answered
SysMprotect == Answered

SysExit == Trap /\ exited' = TRUE /\ UNCHANGED <<tablevars, hostvars, arenavars>>

-------------------------------------------------------------------------------
(***************************************************************************)
(* mmap.  The next address moves even when the answer is a failure.        *)
(***************************************************************************)
RegionFits(at, n) == (at + n) % Span <= ArenaEnd
Chosen(n) ==
  /\ nextRegion' = (nextRegion + n) % Span
  /\ placed' = IF RegionFits(nextRegion, n) THEN placed \cup {[at |-> nextRegion, size |-> n]} ELSE placed
SysMmap(hint, n) ==
  /\ Trap
  /\ IF hint # 0 /\ hint >= ArenaBase /\ RegionFits(hint, n) THEN UNCHANGED <<nextRegion, placed>> ELSE Chosen(n)
  /\ asked' = asked + n
  /\ UNCHANGED <<tablevars, hostvars, exited>>

SyscallNext ==
  \/ \E p \in Paths, creating \in BOOLEAN :
       GuestOpen(p, creating) \/ \E fd \in Numbers : HostOpen(p, creating, fd)
  \/ SysPipe \/ SysKqueue \/ SysExit
  \/ \E fd \in Numbers : SysSocket(fd) \/ \E from \in Numbers : SysDup(from, fd) \/ SysDup2(from, fd) \/ SysSocketpair(from, fd)
  \/ \E fd \in DOMAIN holds : \E o \in holds[fd] :
       SysClose(fd, o) \/ \E count \in 1..FileSize : SysRead(fd, o, count)
  \/ \E fd \in Numbers : SysWrite(fd) \/ \E n \in 0..FileSize : SysLseek(fd, n) \/ (n > 0 /\ SysReadv(fd, n))
  \/ \E p \in Paths : SysMkdir(p) \/ SysSymlink(p) \/ SysUnlink(p) \/ \E q \in Paths : SysRename(p, q)
  \/ SysChmod \/ SysTruncate \/ SysChdir \/ SysUmask \/ SysSetrlimit
  \/ SysConnect \/ SysSendmsg \/ SysSetsockopt
  \/ SysGetpid \/ SysGettimeofday \/ SysAccess \/ SysStat \/ SysStatfs \/ SysReadlink
  \/ SysSysctl \/ SysGetattrlist \/ SysGetsockname \/ SysGetsockopt \/ SysSelect \/ SysPoll \/ SysIoctl
  \/ SysWait4 \/ SysGetdirentries \/ SysKevent \/ SysMprotect
  \/ \E hint \in {0, ArenaBase, ArenaEnd}, n \in MapSizes : SysMmap(hint, n)

SyscallSpec == SyscallInit /\ [][SyscallNext]_syscallvars

-------------------------------------------------------------------------------
(* Until a kqueue has a number that the host hands out too, each number of *)
(* the guest stands for what the guest holds under it and for nothing      *)
(* else, and no read says end of file before the bytes are gone.           *)
NumbersMean ==
  ~collided =>
    /\ ~early
    /\ \A fd \in DOMAIN table \cup DOMAIN hostFds \cup DOMAIN holds : Held(fd) = Reached(fd)
(* Without the proxy nothing of the host changes, and nothing is seen of   *)
(* it but the files below the root; the disk is full or empty at first.    *)
Isolated == mode # "compat" => hostFds = <<>> /\ disk \in {{}, Paths} /\ settings = {}
(* As long as less is asked for than the address space has, regions whose  *)
(* place the runtime chose lie in the arena and apart.                     *)
Apart(a, b) == a.at + a.size <= b.at \/ b.at + b.size <= a.at
RegionsApart ==
  ArenaBase + asked < Span =>
    \A a \in placed : /\ a.at >= ArenaBase /\ a.at + a.size <= ArenaEnd
                      /\ \A b \in placed : a = b \/ Apart(a, b)

(* What a system call is told is so.                                       *)
SyscallsHonest == NumbersMean /\ Isolated /\ RegionsApart
===============================================================================
