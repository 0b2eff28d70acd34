--------------------------- MODULE SyntheticFdsProofs ---------------------------
(***************************************************************************)
(* Proofs about SyntheticFds, for any set of processes and any bounds: the *)
(* open flags and the end of file are honest (EofHonest), the tables agree *)
(* (TablesAgree), a number of another process names what it named or ends  *)
(* in the ways MayEnd lists (DescriptorsKept) and a capture completes only *)
(* when nobody can write (CaptureComplete).                                *)
(*                                                                         *)
(* The tables are changed as one value, by Closed twice in one step, so    *)
(* the invariant is stated of such a value: Sound(s).  Its parts need each *)
(* other.  Closing decides by the references that are left (Held), among   *)
(* them those of the shared table; that none is lost unseen when a number  *)
(* is taken from the shared table needs an owner for each of its entries.  *)
(* That ends counted by descriptors exist needs the flags, and the flags   *)
(* need that what is named exists.  Fresh numbers name nothing.            *)
(*                                                                         *)
(* Behind it, the proof of NoTriggerLost about the kqueues on top of the   *)
(* descriptors, and that of DirectoriesHonest about directory streams,     *)
(* places and lengths.  What is behind a descriptor is found through the   *)
(* table of files or of directories, so the latter needs that an identity  *)
(* that was not given out is in neither table and that a fresh number has  *)
(* no place of an earlier use.                                             *)
(***************************************************************************)
EXTENDS Kqueues, GuestDirectories, ListSteps, FiniteSetTheorems

Tables == [own : [Procs -> [Fds -> Targets]], global : [Fds -> Targets],
           pipes : [Fds -> Pipe], files : SUBSET Fds,
           offset : [Procs -> [Fds -> 0..NoOffset]]]

\* Each entry of the shared table is one of some process, and names a pipe.
Owned(s) ==
  \A f \in Fds : s.global[f] # Unbound =>
    s.global[f].kind # "file" /\ \E p \in Procs : s.own[p][f] = s.global[f]
\* Offsets are those of open files, and a file is there as long as it is held.
FilesOK(s) ==
  /\ \A p \in Procs, f \in Fds : s.offset[p][f] # NoOffset => s.own[p][f].kind = "file"
  /\ \A i \in Fds : i \in s.files <=> Held(s, Target("file", i))
\* The flags of a pipe say which ends are held; a spawn may have closed the write
\* end early, and a pipe it closed may be gone.
EndsOK(s, exempt) ==
  \A i \in Fds :
    /\ s.pipes[i].readOpen <=> Held(s, Target("read", i))
    /\ s.pipes[i].writeOpen => Held(s, Target("write", i))
    /\ Held(s, Target("write", i)) => s.pipes[i].writeOpen \/ i \in exempt
Sound(s, exempt) == s \in Tables /\ Owned(s) /\ FilesOK(s) /\ EndsOK(s, exempt)

\* A number that is bound to nothing and names nothing.
Fresh(s, n) ==
  /\ \A p \in Procs : s.own[p][n] = Unbound /\ s.offset[p][n] = NoOffset
  /\ s.global[n] = Unbound /\ s.pipes[n] = NoPipe /\ n \notin s.files
RestOK ==
  /\ onCpu \in Procs /\ nextFd \in Nat /\ nextFd >= FirstFd
  /\ capture \in [Fds -> Procs \cup {0}] /\ fed \subseteq Fds /\ told \subseteq Fds
  /\ \A n \in Fds : n >= nextFd => Fresh(Now, n) /\ n \notin fed \cup told
IInv == Sound(Now, fed) /\ RestOK /\ EofIsFinal

-------------------------------------------------------------------------------
(***************************************************************************)
(* Targets and descriptors.                                                *)
(***************************************************************************)

LEMMA FdFacts ==
  /\ FirstFd \in Nat /\ FirstFd > 2 /\ MaxFd \in Nat /\ FileSize \in Nat
  /\ Capacity \in Nat /\ Fds \subseteq Nat /\ 0 \in Fds
  /\ \A n \in Nat : FirstFd <= n /\ n <= MaxFd => n \in Fds
  /\ \A n \in Fds : n = 0 \/ (FirstFd <= n /\ n <= MaxFd)
BY FdAssumption DEF Fds, Stdin

\* A target is its kind and its object.
LEMMA TargetFacts ==
  /\ Unbound \in Targets /\ Unbound.kind = "none"
  /\ \A k \in {"read", "write", "file"}, i \in Fds :
       Target(k, i) \in Targets /\ Target(k, i) # Unbound
  /\ \A k \in {"read", "write", "file"}, l \in {"read", "write", "file"}, i \in Fds, j \in Fds :
       Target(k, i) = Target(l, j) => k = l /\ i = j
  /\ \A t \in Targets : t # Unbound =>
       t.kind \in {"read", "write", "file"} /\ t.id \in Fds /\ t = Target(t.kind, t.id)
<1>1. Unbound \in Targets /\ Unbound.kind = "none"
  BY DEF Targets, Target, Unbound
<1>2. ASSUME NEW k \in {"read", "write", "file"}, NEW i \in Fds
      PROVE  /\ Target(k, i) \in [kind : {"read", "write", "file"}, id : Fds]
             /\ Target(k, i).kind = k /\ Target(k, i).id = i
  BY DEF Target
<1>3. ASSUME NEW t \in Targets, t # Unbound
      PROVE  t.kind \in {"read", "write", "file"} /\ t.id \in Fds /\ t = Target(t.kind, t.id)
  <2>1. t \in [kind : {"read", "write", "file"}, id : Fds]
    BY <1>3 DEF Targets
  <2> QED
    BY <2>1 DEF Target
<1>4. \A k \in {"read", "write", "file"}, i \in Fds :
        Target(k, i) \in Targets /\ Target(k, i) # Unbound
  BY <1>1, <1>2 DEF Targets
<1>5. \A k \in {"read", "write", "file"}, l \in {"read", "write", "file"}, i \in Fds, j \in Fds :
        Target(k, i) = Target(l, j) => k = l /\ i = j
  BY <1>2
<1> QED
  BY <1>1, <1>3, <1>4, <1>5

LEMMA PipeFacts ==
  /\ NoPipe \in Pipe
  /\ \A e \in Pipe : e.size \in 0..Capacity /\ e.readOpen \in BOOLEAN /\ e.writeOpen \in BOOLEAN
  /\ ~NoPipe.readOpen /\ ~NoPipe.writeOpen /\ NoPipe.size = 0
BY FdFacts DEF Pipe, NoPipe

-------------------------------------------------------------------------------
(***************************************************************************)
(* Closing a set of descriptors.                                           *)
(***************************************************************************)

\* What is left of the descriptors.
LEMMA LeftFields ==
  ASSUME NEW s \in Tables, NEW p \in Procs, NEW F \in SUBSET Fds
  PROVE  LET left == UnboundFor(s, p, F) IN
         /\ left \in Tables /\ left.pipes = s.pipes /\ left.files = s.files
         /\ \A f \in Fds : left.global[f] = IF f \in F THEN Unbound ELSE s.global[f]
         /\ \A q \in Procs, f \in Fds :
              /\ left.own[q][f] = IF q = p /\ f \in F THEN Unbound ELSE s.own[q][f]
              /\ left.offset[q][f] = IF q = p /\ f \in F THEN NoOffset ELSE s.offset[q][f]
<1> DEFINE left == UnboundFor(s, p, F)
<1>1. NoOffset \in 0..NoOffset
  BY FdFacts DEF NoOffset
<1>2. left.pipes = s.pipes /\ left.files = s.files
  BY DEF UnboundFor, Tables
<1>3. left.own = [s.own EXCEPT ![p] = [f \in Fds |-> IF f \in F THEN Unbound ELSE s.own[p][f]]]
  BY DEF UnboundFor, Tables
<1>4. left.global = [f \in Fds |-> IF f \in F THEN Unbound ELSE s.global[f]]
  BY DEF UnboundFor, Tables
<1>5. left.offset = [s.offset EXCEPT ![p] =
                       [f \in Fds |-> IF f \in F THEN NoOffset ELSE s.offset[p][f]]]
  BY DEF UnboundFor, Tables
<1>6. left \in Tables
  <2> DEFINE O == [s.own EXCEPT ![p] = [f \in Fds |-> IF f \in F THEN Unbound ELSE s.own[p][f]]]
  <2> DEFINE G == [f \in Fds |-> IF f \in F THEN Unbound ELSE s.global[f]]
  <2> DEFINE D == [s.offset EXCEPT ![p] =
                     [f \in Fds |-> IF f \in F THEN NoOffset ELSE s.offset[p][f]]]
  <2>1. O \in [Procs -> [Fds -> Targets]]
    BY TargetFacts DEF Tables
  <2>2. G \in [Fds -> Targets]
    BY TargetFacts DEF Tables
  <2>3. D \in [Procs -> [Fds -> 0..NoOffset]]
    BY <1>1 DEF Tables
  <2>4. left = [s EXCEPT !.own = O, !.global = G, !.offset = D]
    BY DEF UnboundFor, Tables
  <2> HIDE DEF O, G, D
  <2> QED
    BY <2>1, <2>2, <2>3, <2>4 DEF Tables
<1>7. \A q \in Procs, f \in Fds :
        /\ left.own[q][f] = IF q = p /\ f \in F THEN Unbound ELSE s.own[q][f]
        /\ left.offset[q][f] = IF q = p /\ f \in F THEN NoOffset ELSE s.offset[q][f]
  BY <1>3, <1>5 DEF Tables
<1> QED
  BY <1>2, <1>4, <1>6, <1>7

\* Closing decides by what is left, and changes the pipes and the files besides.
LEMMA ClosedFields ==
  ASSUME NEW s \in Tables, NEW p \in Procs, NEW F \in SUBSET Fds
  PROVE  LET left == UnboundFor(s, p, F)
             c == Closed(s, p, F)
         IN /\ c \in Tables
            /\ c.own = left.own /\ c.global = left.global /\ c.offset = left.offset
            /\ \A i \in Fds : c.pipes[i] = PipeAfter(s, left, p, F, i)
            /\ \A i \in Fds : i \in c.files <=>
                 i \in s.files /\ ~(/\ \E f \in F : s.own[p][f] = Target("file", i)
                                   /\ ~Held(left, Target("file", i)))
<1> DEFINE left == UnboundFor(s, p, F)
<1> DEFINE c == Closed(s, p, F)
<1>1. left \in Tables /\ left.files = s.files
  BY LeftFields
<1> DEFINE P == [i \in Fds |-> PipeAfter(s, left, p, F, i)]
<1> DEFINE G == s.files \ {i \in s.files : Target("file", i) \in {s.own[p][f] : f \in F}
                                         /\ ~Held(left, Target("file", i))}
<1>2. c = [left EXCEPT !.pipes = P, !.files = G]
  BY <1>1 DEF Closed
<1>3. ASSUME NEW i \in Fds PROVE PipeAfter(s, left, p, F, i) \in Pipe
  <2>1. s.pipes[i] \in Pipe
    BY DEF Tables
  <2> QED
    BY <2>1, PipeFacts DEF PipeAfter, Pipe
<1>4. P \in [Fds -> Pipe] /\ G \in SUBSET Fds
  BY <1>3 DEF Tables
<1>5. /\ \A i \in Fds : P[i] = PipeAfter(s, left, p, F, i)
      /\ \A i \in Fds : i \in G <=>
           i \in s.files /\ ~(/\ \E f \in F : s.own[p][f] = Target("file", i)
                             /\ ~Held(left, Target("file", i)))
  OBVIOUS
<1> HIDE DEF P, G, left, c
<1>6. /\ c \in Tables /\ c.pipes = P /\ c.files = G
      /\ c.own = left.own /\ c.global = left.global /\ c.offset = left.offset
  BY <1>1, <1>2, <1>4 DEF Tables
<1> QED
  BY <1>5, <1>6 DEF left, c

\* The flags of a pipe after closing.
LEMMA FlagsAfter ==
  ASSUME NEW s \in Tables, NEW p \in Procs, NEW F \in SUBSET Fds, NEW i \in Fds
  PROVE  LET left == UnboundFor(s, p, F)
             c == Closed(s, p, F)
             named(k) == \E f \in F : s.own[p][f] = Target(k, i)
         IN /\ c.pipes[i].readOpen <=>
                 s.pipes[i].readOpen /\ ~(named("read") /\ ~Held(left, Target("read", i)))
            /\ c.pipes[i].writeOpen <=>
                 s.pipes[i].writeOpen /\ ~(named("write") /\ ~Held(left, Target("write", i)))
            /\ (\A k \in {"read", "write"} : ~named(k)) => c.pipes[i] = s.pipes[i]
<1> DEFINE left == UnboundFor(s, p, F)
<1> DEFINE named(k) == \E f \in F : s.own[p][f] = Target(k, i)
<1> DEFINE e == s.pipes[i]
<1> DEFINE R == e.readOpen /\ ~(named("read") /\ ~Held(left, Target("read", i)))
<1> DEFINE W == e.writeOpen /\ ~(named("write") /\ ~Held(left, Target("write", i)))
<1> DEFINE new == [e EXCEPT !.readOpen = R, !.writeOpen = W]
<1>1. e \in Pipe /\ R \in BOOLEAN /\ W \in BOOLEAN
  BY DEF Tables
<1>2. Closed(s, p, F).pipes[i] = PipeAfter(s, left, p, F, i)
  BY ClosedFields
<1>3. PipeAfter(s, left, p, F, i) =
        IF ~(named("read") \/ named("write")) THEN e
        ELSE IF new.readOpen \/ new.writeOpen THEN new ELSE NoPipe
  BY DEF PipeAfter
<1>4. ~named("read") /\ ~named("write") => (R <=> e.readOpen) /\ (W <=> e.writeOpen)
  OBVIOUS
<1> DEFINE x == PipeAfter(s, left, p, F, i)
<1> HIDE DEF left, named, R, W, e
<1>5. (new.readOpen <=> R) /\ (new.writeOpen <=> W)
  BY <1>1 DEF Pipe
<1>6. (x.readOpen <=> R) /\ (x.writeOpen <=> W)
  <2> HIDE DEF new
  <2> QED
    BY <1>3, <1>4, <1>5, PipeFacts
<1>7. (\A k \in {"read", "write"} : ~named(k)) => x = e
  BY <1>3
<1> QED
  BY <1>2, <1>6, <1>7 DEF left, named, R, W, e

\* A target that closing leaves unheld was one of the descriptors closed: an entry
\* of the shared table has an owner.
LEMMA LostWasNamed ==
  ASSUME NEW s \in Tables, Owned(s), NEW p \in Procs, NEW F \in SUBSET Fds,
         NEW t \in Targets, t # Unbound, Held(s, t), ~Held(UnboundFor(s, p, F), t)
  PROVE  \E f \in F : s.own[p][f] = t
<1> DEFINE left == UnboundFor(s, p, F)
<1>1. PICK q \in Procs, f \in Fds : s.own[q][f] = t
  BY DEF Held, Owned
<1>2. left.own[q][f] # t
  BY DEF Held
<1> QED
  BY <1>1, <1>2, LeftFields

\* Nothing is held after closing that was not before.
LEMMA HeldBefore ==
  ASSUME NEW s \in Tables, NEW p \in Procs, NEW F \in SUBSET Fds,
         NEW t \in Targets, t # Unbound, Held(UnboundFor(s, p, F), t)
  PROVE  Held(s, t)
BY LeftFields DEF Held

LEMMA HeldClosed ==
  ASSUME NEW s \in Tables, NEW p \in Procs, NEW F \in SUBSET Fds, NEW t
  PROVE  Held(Closed(s, p, F), t) <=> Held(UnboundFor(s, p, F), t)
BY ClosedFields DEF Held

LEMMA ClosedSound ==
  ASSUME NEW s, NEW exempt, Sound(s, exempt), NEW p \in Procs, NEW F \in SUBSET Fds
  PROVE  Sound(Closed(s, p, F), exempt)
<1> DEFINE left == UnboundFor(s, p, F)
<1> DEFINE c == Closed(s, p, F)
<1>1. s \in Tables /\ Owned(s) /\ FilesOK(s) /\ EndsOK(s, exempt)
  BY DEF Sound
<1>2. c \in Tables /\ c.own = left.own /\ c.global = left.global /\ c.offset = left.offset
  BY <1>1, ClosedFields
<1> HIDE DEF left, c
<1>3. Owned(c)
  <2> SUFFICES ASSUME NEW f \in Fds, c.global[f] # Unbound
               PROVE  c.global[f].kind # "file" /\ \E q \in Procs : c.own[q][f] = c.global[f]
    BY DEF Owned
  <2>1. f \notin F /\ c.global[f] = s.global[f]
    BY <1>1, <1>2, LeftFields DEF left
  <2>2. PICK q \in Procs : s.own[q][f] = s.global[f]
    BY <1>1, <2>1 DEF Owned
  <2>3. c.own[q][f] = s.own[q][f]
    BY <1>1, <1>2, <2>1, LeftFields DEF left
  <2> QED
    BY <1>1, <2>1, <2>2, <2>3 DEF Owned
<1>4. FilesOK(c)
  <2>1. ASSUME NEW q \in Procs, NEW f \in Fds, c.offset[q][f] # NoOffset
        PROVE  c.own[q][f].kind = "file"
    BY <1>1, <1>2, <2>1, LeftFields DEF left, FilesOK
  <2>2. ASSUME NEW i \in Fds PROVE i \in c.files <=> Held(c, Target("file", i))
    <3> DEFINE t == Target("file", i)
    <3>1. t \in Targets /\ t # Unbound
      BY TargetFacts
    <3>2. i \in c.files <=> i \in s.files /\ ~((\E f \in F : s.own[p][f] = t) /\ ~Held(left, t))
      BY <1>1, ClosedFields DEF c, left
    <3>3. i \in s.files <=> Held(s, t)
      BY <1>1 DEF FilesOK
    <3>4. Held(left, t) => Held(s, t)
      BY <1>1, <3>1, HeldBefore DEF left
    <3>5. Held(s, t) /\ ~Held(left, t) => \E f \in F : s.own[p][f] = t
      BY <1>1, <3>1, LostWasNamed DEF left
    <3>6. Held(c, t) <=> Held(left, t)
      BY <1>1, HeldClosed DEF c, left
    <3> HIDE DEF t
    <3> QED
      BY <3>2, <3>3, <3>4, <3>5, <3>6 DEF t
  <2> QED
    BY <2>1, <2>2 DEF FilesOK
<1>5. EndsOK(c, exempt)
  <2> SUFFICES ASSUME NEW i \in Fds
               PROVE  /\ c.pipes[i].readOpen <=> Held(c, Target("read", i))
                      /\ c.pipes[i].writeOpen => Held(c, Target("write", i))
                      /\ Held(c, Target("write", i)) => c.pipes[i].writeOpen \/ i \in exempt
    BY DEF EndsOK
  <2>1. ASSUME NEW k \in {"read", "write"}
        PROVE  /\ Held(c, Target(k, i)) <=> Held(left, Target(k, i))
               /\ Held(left, Target(k, i)) => Held(s, Target(k, i))
               /\ Held(s, Target(k, i)) /\ ~Held(left, Target(k, i)) =>
                    \E f \in F : s.own[p][f] = Target(k, i)
    <3>1. Target(k, i) \in Targets /\ Target(k, i) # Unbound
      BY TargetFacts
    <3> QED
      BY <1>1, <3>1, HeldBefore, HeldClosed, LostWasNamed DEF c, left
  <2>2. /\ c.pipes[i].readOpen <=>
             s.pipes[i].readOpen /\ ~((\E f \in F : s.own[p][f] = Target("read", i))
                                       /\ ~Held(left, Target("read", i)))
        /\ c.pipes[i].writeOpen <=>
             s.pipes[i].writeOpen /\ ~((\E f \in F : s.own[p][f] = Target("write", i))
                                        /\ ~Held(left, Target("write", i)))
    BY <1>1, FlagsAfter DEF c, left
  <2>3. /\ s.pipes[i].readOpen <=> Held(s, Target("read", i))
        /\ s.pipes[i].writeOpen => Held(s, Target("write", i))
        /\ Held(s, Target("write", i)) => s.pipes[i].writeOpen \/ i \in exempt
    BY <1>1 DEF EndsOK
  <2> QED
    BY <2>1, <2>2, <2>3
<1> QED
  BY <1>2, <1>3, <1>4, <1>5 DEF Sound, c

\* Closing binds nothing.
LEMMA ClosedFresh ==
  ASSUME NEW s \in Tables, NEW p \in Procs, NEW F \in SUBSET Fds,
         NEW n \in Fds, Fresh(s, n)
  PROVE  Fresh(Closed(s, p, F), n)
<1> DEFINE left == UnboundFor(s, p, F)
<1> DEFINE c == Closed(s, p, F)
<1>1. /\ c.own = left.own /\ c.global = left.global /\ c.offset = left.offset
      /\ n \notin c.files /\ c.pipes[n] = PipeAfter(s, left, p, F, n)
  BY ClosedFields DEF Fresh
<1>2. /\ left.global[n] = Unbound
      /\ \A q \in Procs : left.own[q][n] = Unbound /\ left.offset[q][n] = NoOffset
  BY LeftFields DEF Fresh
<1>3. ~c.pipes[n].readOpen /\ ~c.pipes[n].writeOpen
  <2>1. ~s.pipes[n].readOpen /\ ~s.pipes[n].writeOpen
    BY PipeFacts DEF Fresh
  <2> QED
    BY <2>1, FlagsAfter
<1>4. c.pipes[n] = NoPipe
  BY <1>1, <1>3 DEF PipeAfter, Fresh
<1> QED
  BY <1>1, <1>2, <1>4 DEF Fresh

-------------------------------------------------------------------------------
(***************************************************************************)
(* Binding descriptors.                                                    *)
(***************************************************************************)

\* What a lookup finds is held.
LEMMA ResolvedHeld ==
  ASSUME NEW s \in Tables, NEW p \in Procs, NEW f \in Fds, Resolve(s, p, f) # Unbound
  PROVE  /\ Resolve(s, p, f) \in Targets /\ Held(s, Resolve(s, p, f))
         /\ Resolve(s, p, f).id \in Fds
         /\ Resolve(s, p, f) = Target(Resolve(s, p, f).kind, Resolve(s, p, f).id)
<1>1. s.own[p][f] \in Targets /\ s.global[f] \in Targets
  BY DEF Tables
<1> QED
  BY <1>1, TargetFacts DEF Resolve, Held

\* Another descriptor for what is held already.
LEMMA BoundSound ==
  ASSUME NEW s, NEW exempt, Sound(s, exempt), NEW c \in Tables,
         NEW p \in Procs, NEW n \in Fds, s.own[p][n] = Unbound,
         NEW t \in Targets, t # Unbound, Held(s, t),
         c.global = s.global, c.pipes = s.pipes, c.files = s.files,
         \A q \in Procs, f \in Fds :
           /\ c.own[q][f] = IF q = p /\ f = n THEN t ELSE s.own[q][f]
           /\ q # p \/ f # n => c.offset[q][f] = s.offset[q][f],
         c.offset[p][n] # NoOffset => t.kind = "file"
  PROVE  /\ Sound(c, exempt)
         /\ \A u \in Targets : u # Unbound => (Held(c, u) <=> Held(s, u))
<1>1. s \in Tables /\ Owned(s) /\ FilesOK(s) /\ EndsOK(s, exempt)
  BY DEF Sound
<1>2. ASSUME NEW u \in Targets, u # Unbound PROVE Held(c, u) <=> Held(s, u)
  <2>1. ASSUME Held(c, u) PROVE Held(s, u)
    BY <2>1 DEF Held
  <2>2. ASSUME NEW q \in Procs, NEW f \in Fds, s.own[q][f] = u PROVE c.own[q][f] = u
    BY <1>2, <2>2
  <2> QED
    BY <2>1, <2>2 DEF Held
<1>3. Owned(c)
  <2> SUFFICES ASSUME NEW f \in Fds, c.global[f] # Unbound
               PROVE  c.global[f].kind # "file" /\ \E q \in Procs : c.own[q][f] = c.global[f]
    BY DEF Owned
  <2>1. PICK q \in Procs : s.own[q][f] = s.global[f]
    BY <1>1 DEF Owned
  <2>2. c.own[q][f] = s.own[q][f]
    BY <2>1
  <2> QED
    BY <1>1, <2>1, <2>2 DEF Owned
<1>4. FilesOK(c)
  <2>1. \A i \in Fds : Held(c, Target("file", i)) <=> Held(s, Target("file", i))
    BY <1>2, TargetFacts
  <2>2. ASSUME NEW q \in Procs, NEW f \in Fds, c.offset[q][f] # NoOffset
        PROVE  c.own[q][f].kind = "file"
    BY <1>1, <2>2 DEF FilesOK
  <2> QED
    BY <1>1, <2>1, <2>2 DEF FilesOK
<1>5. EndsOK(c, exempt)
  <2>1. \A i \in Fds, k \in {"read", "write"} : Held(c, Target(k, i)) <=> Held(s, Target(k, i))
    BY <1>2, TargetFacts
  <2> QED
    BY <1>1, <2>1 DEF EndsOK
<1> QED
  BY <1>2, <1>3, <1>4, <1>5 DEF Sound

\* A new file, named by its descriptor.
LEMMA OpenedSound ==
  ASSUME NEW s, NEW exempt, Sound(s, exempt), NEW c \in Tables,
         NEW p \in Procs, NEW n \in Fds, Fresh(s, n),
         c.global = s.global, c.pipes = s.pipes, c.files = s.files \cup {n},
         \A q \in Procs, f \in Fds :
           /\ c.own[q][f] = IF q = p /\ f = n THEN Target("file", n) ELSE s.own[q][f]
           /\ q # p \/ f # n => c.offset[q][f] = s.offset[q][f]
  PROVE  /\ Sound(c, exempt)
         /\ \A i \in Fds : Held(c, Target("write", i)) => Held(s, Target("write", i))
<1> DEFINE t == Target("file", n)
<1>1. s \in Tables /\ Owned(s) /\ FilesOK(s) /\ EndsOK(s, exempt)
  BY DEF Sound
<1>2. t \in Targets /\ t # Unbound /\ t.kind = "file" /\ s.own[p][n] = Unbound
  BY TargetFacts DEF Fresh, Target
<1>3. Held(c, t)
  BY DEF Held
<1>4. ASSUME NEW u \in Targets, u # Unbound, u # t PROVE Held(c, u) <=> Held(s, u)
  <2>1. ASSUME Held(c, u) PROVE Held(s, u)
    BY <1>4, <2>1 DEF Held
  <2>2. ASSUME NEW q \in Procs, NEW f \in Fds, s.own[q][f] = u PROVE c.own[q][f] = u
    BY <1>2, <1>4, <2>2
  <2> QED
    BY <2>1, <2>2 DEF Held
<1>5. Owned(c)
  <2> SUFFICES ASSUME NEW f \in Fds, c.global[f] # Unbound
               PROVE  c.global[f].kind # "file" /\ \E q \in Procs : c.own[q][f] = c.global[f]
    BY DEF Owned
  <2>1. PICK q \in Procs : s.own[q][f] = s.global[f]
    BY <1>1 DEF Owned
  <2>2. c.own[q][f] = s.own[q][f]
    BY <1>2, <2>1
  <2> QED
    BY <1>1, <2>1, <2>2 DEF Owned
<1>6. FilesOK(c)
  <2>1. ASSUME NEW i \in Fds PROVE i \in c.files <=> Held(c, Target("file", i))
    <3>1. CASE i = n
      BY <1>3, <3>1
    <3>2. CASE i # n
      <4>1. Target("file", i) \in Targets /\ Target("file", i) # Unbound /\ Target("file", i) # t
        BY <3>2, TargetFacts
      <4> QED
        BY <1>1, <1>4, <3>2, <4>1 DEF FilesOK
    <3> QED
      BY <3>1, <3>2
  <2>2. ASSUME NEW q \in Procs, NEW f \in Fds, c.offset[q][f] # NoOffset
        PROVE  c.own[q][f].kind = "file"
    BY <1>1, <1>2, <2>2 DEF FilesOK
  <2> QED
    BY <2>1, <2>2 DEF FilesOK
<1>7. \A i \in Fds, k \in {"read", "write"} : Held(c, Target(k, i)) <=> Held(s, Target(k, i))
  BY <1>4, TargetFacts
<1>8. EndsOK(c, exempt)
  BY <1>1, <1>7 DEF EndsOK
<1> QED
  BY <1>5, <1>6, <1>7, <1>8 DEF Sound

\* A new pipe, named by the descriptor of its read end.
LEMMA PipedSound ==
  ASSUME NEW s, NEW exempt, Sound(s, exempt), NEW c \in Tables,
         NEW p \in Procs, NEW n \in Fds, NEW m \in Fds, m # n, Fresh(s, n), Fresh(s, m),
         c.files = s.files, c.offset = s.offset,
         \A q \in Procs, f \in Fds :
           c.own[q][f] = IF q = p /\ f = n THEN Target("read", n)
                         ELSE IF q = p /\ f = m THEN Target("write", n) ELSE s.own[q][f],
         \A f \in Fds :
           /\ c.global[f] = IF f = n THEN Target("read", n)
                             ELSE IF f = m THEN Target("write", n) ELSE s.global[f]
           /\ f # n => c.pipes[f] = s.pipes[f],
         c.pipes[n].readOpen, c.pipes[n].writeOpen
  PROVE  /\ Sound(c, exempt)
         /\ \A i \in Fds : i # n /\ Held(c, Target("write", i)) => Held(s, Target("write", i))
<1> DEFINE r == Target("read", n)
<1> DEFINE w == Target("write", n)
<1>1. s \in Tables /\ Owned(s) /\ FilesOK(s) /\ EndsOK(s, exempt)
  BY DEF Sound
<1>2. /\ r # Unbound /\ w # Unbound /\ r.kind # "file" /\ w.kind # "file"
      /\ \A q \in Procs : s.own[q][n] = Unbound /\ s.own[q][m] = Unbound
      /\ s.global[n] = Unbound /\ s.global[m] = Unbound
  BY TargetFacts DEF Fresh, Target
<1>3. Held(c, r) /\ Held(c, w)
  BY DEF Held
<1>4. ASSUME NEW u \in Targets, u # Unbound, u # r, u # w PROVE Held(c, u) <=> Held(s, u)
  <2> HIDE DEF r, w
  <2>1. ASSUME Held(c, u) PROVE Held(s, u)
    BY <1>4, <2>1 DEF Held, r, w
  <2>2. ASSUME NEW q \in Procs, NEW f \in Fds, s.own[q][f] = u PROVE c.own[q][f] = u
    BY <1>2, <1>4, <2>2
  <2>3. ASSUME NEW f \in Fds, s.global[f] = u PROVE c.global[f] = u
    BY <1>2, <1>4, <2>3
  <2> QED
    BY <2>1, <2>2, <2>3 DEF Held
<1>5. Owned(c)
  <2> SUFFICES ASSUME NEW f \in Fds, c.global[f] # Unbound
               PROVE  c.global[f].kind # "file" /\ \E q \in Procs : c.own[q][f] = c.global[f]
    BY DEF Owned
  <2>1. CASE f = n \/ f = m
    BY <1>2, <2>1
  <2>2. CASE f # n /\ f # m
    <3>1. PICK q \in Procs : s.own[q][f] = s.global[f]
      BY <1>1, <2>2 DEF Owned
    <3> QED
      BY <1>1, <2>2, <3>1 DEF Owned
  <2> QED
    BY <2>1, <2>2
<1>6. FilesOK(c)
  <2>1. ASSUME NEW i \in Fds PROVE Held(c, Target("file", i)) <=> Held(s, Target("file", i))
    BY <1>4, TargetFacts
  <2>2. ASSUME NEW q \in Procs, NEW f \in Fds, c.offset[q][f] # NoOffset
        PROVE  c.own[q][f].kind = "file"
    <3>1. s.own[q][f].kind = "file"
      BY <1>1, <2>2 DEF FilesOK
    <3>2. s.own[q][f] # Unbound
      BY <3>1, TargetFacts
    <3> QED
      BY <1>2, <3>1, <3>2
  <2> QED
    BY <1>1, <2>1, <2>2 DEF FilesOK
<1>7. \A i \in Fds, k \in {"read", "write"} :
        i # n => (Held(c, Target(k, i)) <=> Held(s, Target(k, i)))
  BY <1>4, TargetFacts
<1>8. EndsOK(c, exempt)
  BY <1>1, <1>3, <1>7 DEF EndsOK
<1> QED
  BY <1>5, <1>6, <1>7, <1>8 DEF Sound

-------------------------------------------------------------------------------
(***************************************************************************)
(* The invariant is kept.                                                  *)
(***************************************************************************)

LEMMA NowFields ==
  /\ Now.own = own /\ Now.global = global /\ Now.pipes = pipes
  /\ Now.files = files /\ Now.offset = offset
BY DEF Now

LEMMA NextFields ==
  /\ Now'.own = own' /\ Now'.global = global' /\ Now'.pipes = pipes'
  /\ Now'.files = files' /\ Now'.offset = offset'
BY DEF Now

LEMMA BecomeNow ==
  ASSUME NEW c \in Tables, Become(c)
  PROVE  Now' = c
<1>1. c = [own |-> c.own, global |-> c.global, pipes |-> c.pipes,
           files |-> c.files, offset |-> c.offset]
  BY DEF Tables
<1> QED
  BY <1>1 DEF Now, Become

\* What a step has to show when it installs tables: they are sound, nobody got hold
\* of the write end of a pipe whose end was read, and unused numbers stay fresh.
LEMMA Installed ==
  ASSUME IInv, NEW c \in Tables, Now' = c, Sound(c, fed),
         \A i \in told : Held(c, Target("write", i)) => Held(Now, Target("write", i)),
         \A n \in Fds : n >= nextFd' => n >= nextFd /\ Fresh(c, n),
         onCpu' \in Procs, nextFd' \in Nat, nextFd' >= FirstFd,
         capture' \in [Fds -> Procs \cup {0}], UNCHANGED histories
  PROVE  IInv'
<1>1. fed' = fed /\ told' = told
  BY DEF histories
<1>2. RestOK /\ EofIsFinal
  BY DEF IInv
<1>3. Sound(Now', fed')
  BY <1>1
<1>4. RestOK'
  <2>1. \A n \in Fds : n >= nextFd' => Fresh(Now', n) /\ n \notin fed' \cup told'
    BY <1>1, <1>2 DEF RestOK
  <2> QED
    BY <1>1, <1>2, <2>1 DEF RestOK, Fresh
<1>5. EofIsFinal'
  <2>1. \A t : Referenced(t) <=> Held(Now, t)
    BY NowFields DEF Referenced, Held
  <2>2. \A t : Referenced(t)' <=> Held(Now', t)
    BY NextFields DEF Referenced, Held
  <2>3. \A i \in told \ fed : ~Held(Now, Target("write", i))
    BY <1>2, <2>1 DEF EofIsFinal
  <2>4. \A i \in told \ fed : ~Held(Now', Target("write", i))
    BY <2>3
  <2> QED
    BY <1>1, <2>2, <2>4 DEF EofIsFinal
<1> QED
  BY <1>3, <1>4, <1>5 DEF IInv, Sound

\* What closing keeps, in one place.
LEMMA ClosingKeeps ==
  ASSUME NEW s, NEW exempt, Sound(s, exempt), NEW p \in Procs, NEW F \in SUBSET Fds
  PROVE  LET c == Closed(s, p, F) IN
         /\ c \in Tables /\ Sound(c, exempt)
         /\ \A k \in {"read", "write"}, i \in Fds :
              Held(c, Target(k, i)) => Held(s, Target(k, i))
         /\ \A n \in Fds : Fresh(s, n) => Fresh(c, n)
         /\ \A q \in Procs \ {p} : c.own[q] = s.own[q]
         /\ \A f \in F : c.own[p][f] = Unbound
<1> DEFINE left == UnboundFor(s, p, F)
<1> DEFINE c == Closed(s, p, F)
<1>1. s \in Tables /\ c \in Tables /\ Sound(c, exempt) /\ c.own = left.own
  BY ClosedSound, ClosedFields DEF Sound
<1>2. \A k \in {"read", "write"}, i \in Fds : Held(c, Target(k, i)) => Held(s, Target(k, i))
  BY <1>1, HeldClosed, HeldBefore, TargetFacts
<1>3. \A n \in Fds : Fresh(s, n) => Fresh(c, n)
  BY <1>1, ClosedFresh
<1>4. ASSUME NEW q \in Procs \ {p} PROVE c.own[q] = s.own[q]
  <2>1. left.own[q] \in [Fds -> Targets] /\ s.own[q] \in [Fds -> Targets]
    BY <1>1, LeftFields DEF Tables
  <2>2. \A f \in Fds : left.own[q][f] = s.own[q][f]
    BY <1>1, LeftFields
  <2> QED
    BY <1>1, <2>1, <2>2
<1>5. \A f \in F : c.own[p][f] = Unbound
  BY <1>1, LeftFields
<1> QED
  BY <1>1, <1>2, <1>3, <1>4, <1>5

\* The number next_fd hands out.
LEMMA NextIsFresh ==
  ASSUME IInv
  PROVE  /\ Now \in Tables /\ Sound(Now, fed) /\ onCpu \in Procs
         /\ nextFd \in Nat /\ nextFd >= FirstFd
         /\ capture \in [Fds -> Procs \cup {0}] /\ fed \subseteq Fds /\ told \subseteq Fds
         /\ \A n \in Fds : n >= nextFd => Fresh(Now, n) /\ n \notin fed \cup told
         /\ nextFd <= MaxFd => nextFd \in Fds
         /\ nextFd + 1 <= MaxFd => nextFd \in Fds /\ nextFd + 1 \in Fds
BY FdFacts DEF IInv, RestOK, Sound

LEMMA OpenKeeps ==
  ASSUME IInv, Open(onCpu), UNCHANGED onCpu
  PROVE  IInv'
<1> DEFINE p == onCpu
<1> DEFINE n == nextFd
<1>1. /\ Now \in Tables /\ Sound(Now, fed) /\ p \in Procs /\ n \in Nat /\ n \in Fds
      /\ Fresh(Now, n) /\ nextFd' = n + 1 /\ UNCHANGED <<capture, histories>>
      /\ \A m \in Fds : m >= n + 1 => Fresh(Now, m) /\ m >= n
  BY NextIsFresh, FdFacts DEF Open
<1>2. /\ onCpu' \in Procs /\ nextFd' \in Nat /\ nextFd' >= FirstFd
      /\ capture' \in [Fds -> Procs \cup {0}] /\ UNCHANGED histories
  BY <1>1, NextIsFresh, FdFacts
<1>3. CASE UNCHANGED tables
  <2>1. Now' = Now
    BY <1>3 DEF tables, Now
  <2> QED
    BY <1>1, <1>2, <2>1, Installed
<1>4. CASE Become([Now EXCEPT !.own[p][n] = Target("file", n),
                              !.files = @ \cup {n}, !.offset[p][n] = 0])
  <2> DEFINE O == [own EXCEPT ![p][n] = Target("file", n)]
  <2> DEFINE D == [offset EXCEPT ![p][n] = 0]
  <2> DEFINE c == [Now EXCEPT !.own = O, !.files = files \cup {n}, !.offset = D]
  <2>1. /\ own \in [Procs -> [Fds -> Targets]] /\ offset \in [Procs -> [Fds -> 0..NoOffset]]
        /\ files \subseteq Fds
    BY <1>1 DEF Tables, Now
  <2>2. O \in [Procs -> [Fds -> Targets]] /\ D \in [Procs -> [Fds -> 0..NoOffset]]
    BY <1>1, <2>1, TargetFacts, FdFacts DEF NoOffset
  <2>3. \A q \in Procs, f \in Fds :
          /\ O[q][f] = IF q = p /\ f = n THEN Target("file", n) ELSE own[q][f]
          /\ q # p \/ f # n => D[q][f] = offset[q][f]
    BY <1>1, <2>1
  <2>4. Become(c)
    BY <1>4, NowFields
  <2> HIDE DEF O, D
  <2>5. /\ c \in Tables /\ c.own = O /\ c.offset = D /\ c.global = global
        /\ c.pipes = pipes /\ c.files = files \cup {n}
    BY <1>1, <2>1, <2>2, NowFields DEF Tables
  <2> HIDE DEF c
  <2>6. Now' = c
    BY <2>4, <2>5, BecomeNow
  <2>7. /\ Sound(c, fed)
        /\ \A i \in Fds : Held(c, Target("write", i)) => Held(Now, Target("write", i))
    BY <1>1, <2>3, <2>5, NowFields, OpenedSound
  <2>8. ASSUME NEW m \in Fds, m >= n + 1 PROVE Fresh(c, m)
    <3>1. Fresh(Now, m) /\ m # n
      BY <1>1, <2>8, FdFacts
    <3> QED
      BY <2>3, <2>5, <3>1, NowFields DEF Fresh
  <2> QED
    BY <1>1, <1>2, <2>5, <2>6, <2>7, <2>8, NextIsFresh, Installed
<1> QED
  BY <1>3, <1>4 DEF Open

LEMMA PipeKeeps ==
  ASSUME IInv, MakePipe(onCpu), UNCHANGED onCpu
  PROVE  IInv'
<1> DEFINE p == onCpu
<1> DEFINE n == nextFd
<1> DEFINE m == nextFd + 1
<1> DEFINE r == Target("read", n)
<1> DEFINE w == Target("write", n)
<1> DEFINE e == [size |-> 0, readOpen |-> TRUE, writeOpen |-> TRUE]
<1> DEFINE O == [own EXCEPT ![p] = [@ EXCEPT ![n] = r, ![m] = w]]
<1> DEFINE G == [global EXCEPT ![n] = r, ![m] = w]
<1> DEFINE P == [pipes EXCEPT ![n] = e]
<1> DEFINE c == [Now EXCEPT !.own = O, !.global = G, !.pipes = P]
<1>1. /\ Now \in Tables /\ Sound(Now, fed) /\ p \in Procs /\ n \in Nat /\ n \in Fds /\ m \in Fds
      /\ Fresh(Now, n) /\ Fresh(Now, m) /\ n # m /\ n \notin told
      /\ nextFd' = n + 2 /\ UNCHANGED <<capture, histories>>
      /\ \A i \in Fds : i >= n + 2 => Fresh(Now, i) /\ i >= n
  BY NextIsFresh, FdFacts DEF MakePipe
<1>2. /\ onCpu' \in Procs /\ nextFd' \in Nat /\ nextFd' >= FirstFd
      /\ capture' \in [Fds -> Procs \cup {0}] /\ UNCHANGED histories
  BY <1>1, NextIsFresh, FdFacts
<1>3. /\ own \in [Procs -> [Fds -> Targets]] /\ global \in [Fds -> Targets]
      /\ pipes \in [Fds -> Pipe]
  BY <1>1 DEF Tables, Now
<1>4. r \in Targets /\ w \in Targets /\ e \in Pipe /\ e.readOpen /\ e.writeOpen
  BY <1>1, TargetFacts, FdFacts DEF Pipe
<1> HIDE DEF r, w, e
<1>5. O \in [Procs -> [Fds -> Targets]] /\ G \in [Fds -> Targets] /\ P \in [Fds -> Pipe]
  BY <1>1, <1>3, <1>4
<1>6. /\ \A q \in Procs, f \in Fds :
           O[q][f] = IF q = p /\ f = n THEN r ELSE IF q = p /\ f = m THEN w ELSE own[q][f]
      /\ \A f \in Fds : G[f] = IF f = n THEN r ELSE IF f = m THEN w ELSE global[f]
      /\ \A f \in Fds \ {n} : P[f] = pipes[f]
      /\ P[n] = e
  BY <1>1, <1>3
<1>7. Become(c)
  BY NowFields DEF MakePipe, r, w, e
<1> HIDE DEF O, G, P
<1>8. /\ c \in Tables /\ c.own = O /\ c.global = G /\ c.pipes = P
      /\ c.files = files /\ c.offset = offset
  BY <1>1, <1>5, NowFields DEF Tables
<1> HIDE DEF c
<1>9. Now' = c
  BY <1>7, <1>8, BecomeNow
<1>10. /\ Sound(c, fed)
       /\ \A i \in Fds : i # n /\ Held(c, Target("write", i)) => Held(Now, Target("write", i))
  BY <1>1, <1>4, <1>6, <1>8, NowFields, PipedSound DEF r, w
<1>11. ASSUME NEW i \in Fds, i >= n + 2 PROVE Fresh(c, i)
  <2>1. Fresh(Now, i) /\ i # n /\ i # m
    BY <1>1, <1>11, FdFacts
  <2> QED
    BY <1>6, <1>8, <2>1, NowFields DEF Fresh
<1> QED
  BY <1>1, <1>2, <1>8, <1>9, <1>10, <1>11, NextIsFresh, Installed

LEMMA DupKeeps ==
  ASSUME IInv, NEW f \in Fds, Dup(onCpu, f), UNCHANGED onCpu
  PROVE  IInv'
<1> DEFINE p == onCpu
<1> DEFINE t == Resolve(Now, p, f)
<1>1. PICK n \in Fds :
        /\ n >= nextFd /\ own[p][n] = Unbound /\ nextFd' = n + 1
        /\ Become([Now EXCEPT
             !.own[p][n] = t,
             !.offset[p][n] = IF t.kind # "file" THEN @
                              ELSE IF offset[p][f] = NoOffset THEN 0 ELSE offset[p][f]])
  BY DEF Dup
<1>2. t # Unbound /\ UNCHANGED <<capture, histories>>
  BY DEF Dup
<1>3. /\ Now \in Tables /\ Sound(Now, fed) /\ p \in Procs /\ n \in Nat /\ n \in Fds
      /\ Fresh(Now, n)
      /\ \A m \in Fds : m >= n + 1 => Fresh(Now, m) /\ m >= nextFd /\ m # n
  BY <1>1, NextIsFresh, FdFacts
<1>4. /\ onCpu' \in Procs /\ nextFd' \in Nat /\ nextFd' >= FirstFd
      /\ capture' \in [Fds -> Procs \cup {0}] /\ UNCHANGED histories
  BY <1>1, <1>2, <1>3, NextIsFresh, FdFacts
<1>5. t \in Targets /\ Held(Now, t)
  BY <1>2, <1>3, ResolvedHeld
<1> HIDE DEF t
<1> DEFINE O == [own EXCEPT ![p][n] = t]
<1> DEFINE k == IF t.kind # "file" THEN offset[p][n]
                ELSE IF offset[p][f] = NoOffset THEN 0 ELSE offset[p][f]
<1> DEFINE D == [offset EXCEPT ![p][n] = k]
<1> DEFINE c == [Now EXCEPT !.own = O, !.offset = D]
<1>6. own \in [Procs -> [Fds -> Targets]] /\ offset \in [Procs -> [Fds -> 0..NoOffset]]
  BY <1>3 DEF Tables, Now
<1>7. k \in 0..NoOffset
  BY <1>3, <1>6, FdFacts DEF NoOffset
<1>8. t.kind # "file" => k = NoOffset
  BY <1>3, NowFields DEF Fresh
<1>9. Become(c)
  BY <1>1, NowFields
<1> HIDE DEF k
<1>10. O \in [Procs -> [Fds -> Targets]] /\ D \in [Procs -> [Fds -> 0..NoOffset]]
  BY <1>3, <1>5, <1>6, <1>7
<1>11. /\ D[p][n] = k
       /\ \A q \in Procs, g \in Fds :
            /\ O[q][g] = (IF q = p /\ g = n THEN t ELSE own[q][g])
            /\ q # p \/ g # n => D[q][g] = offset[q][g]
  BY <1>3, <1>6
<1> HIDE DEF O, D
<1>12. /\ c \in Tables /\ c.own = O /\ c.offset = D /\ c.global = global
       /\ c.pipes = pipes /\ c.files = files
  BY <1>3, <1>10, NowFields DEF Tables
<1> HIDE DEF c
<1>13. Now' = c
  BY <1>9, <1>12, BecomeNow
<1>14. /\ Sound(c, fed)
       /\ \A u \in Targets : u # Unbound => (Held(c, u) <=> Held(Now, u))
  BY <1>1, <1>2, <1>3, <1>5, <1>8, <1>11, <1>12, NowFields, BoundSound
<1>15. \A i \in told : Held(c, Target("write", i)) => Held(Now, Target("write", i))
  BY <1>14, NextIsFresh, TargetFacts
<1>16. ASSUME NEW m \in Fds, m >= n + 1 PROVE Fresh(c, m)
  BY <1>3, <1>11, <1>12, <1>16, NowFields DEF Fresh
<1> QED
  BY <1>1, <1>3, <1>4, <1>12, <1>13, <1>14, <1>15, <1>16, Installed

LEMMA Dup2Keeps ==
  ASSUME IInv, NEW old \in Fds, NEW new \in Fds, Dup2(onCpu, old, new), UNCHANGED onCpu
  PROVE  IInv'
<1> DEFINE p == onCpu
<1> DEFINE left == Closed(Now, p, {new})
<1> DEFINE t == Resolve(left, p, old)
<1> DEFINE c == Dup2ed(Now, p, old, new)
<1>1. /\ new < nextFd /\ Become(c) /\ UNCHANGED <<nextFd, capture, histories>>
  BY DEF Dup2
<1>2. /\ onCpu' \in Procs /\ nextFd' \in Nat /\ nextFd' >= FirstFd /\ nextFd' = nextFd
      /\ capture' \in [Fds -> Procs \cup {0}] /\ UNCHANGED histories
      /\ Now \in Tables /\ Sound(Now, fed) /\ p \in Procs
      /\ \A m \in Fds : m >= nextFd => Fresh(Now, m) /\ m # new
  BY <1>1, NextIsFresh, FdFacts
<1>3. /\ left \in Tables /\ Sound(left, fed)
      /\ \A i \in Fds : Held(left, Target("write", i)) => Held(Now, Target("write", i))
      /\ \A n \in Fds : Fresh(Now, n) => Fresh(left, n)
      /\ left.own[p][new] = Unbound
  BY <1>2, ClosingKeeps
<1> HIDE DEF left
<1>4. CASE t = Unbound
  <2>1. c = left
    BY <1>4 DEF Dup2ed, left
  <2>2. Now' = left
    BY <1>1, <1>3, <2>1, BecomeNow
  <2> QED
    BY <1>2, <1>3, <2>2, NextIsFresh, Installed
<1>5. CASE t # Unbound
  <2> DEFINE O == [left.own EXCEPT ![p][new] = t]
  <2>1. c = [left EXCEPT !.own = O]
    BY <1>5 DEF Dup2ed, left
  <2>2. t \in Targets /\ Held(left, t)
    BY <1>2, <1>3, <1>5, ResolvedHeld
  <2> HIDE DEF t
  <2>3. O \in [Procs -> [Fds -> Targets]]
    BY <1>2, <1>3, <2>2 DEF Tables
  <2>4. \A q \in Procs, g \in Fds :
          O[q][g] = IF q = p /\ g = new THEN t ELSE left.own[q][g]
    BY <1>2, <1>3 DEF Tables
  <2> HIDE DEF O, c
  <2>5. /\ c \in Tables /\ c.own = O /\ c.offset = left.offset /\ c.global = left.global
        /\ c.pipes = left.pipes /\ c.files = left.files
    BY <1>3, <2>1, <2>3 DEF Tables
  <2>6. Now' = c
    BY <1>1, <2>5, BecomeNow
  <2>7. left.offset[p][new] = NoOffset
    BY <1>2, <1>3, TargetFacts DEF Sound, FilesOK
  <2>8. /\ Sound(c, fed)
        /\ \A u \in Targets : u # Unbound => (Held(c, u) <=> Held(left, u))
    BY <1>2, <1>3, <1>5, <2>2, <2>4, <2>5, <2>7, BoundSound DEF t
  <2>9. \A i \in told : Held(c, Target("write", i)) => Held(Now, Target("write", i))
    BY <1>3, <2>8, NextIsFresh, TargetFacts
  <2>10. ASSUME NEW m \in Fds, m >= nextFd PROVE Fresh(c, m)
    <3>1. Fresh(left, m) /\ m # new
      BY <1>2, <1>3, <2>10
    <3> QED
      BY <2>4, <2>5, <3>1 DEF Fresh
  <2> QED
    BY <1>2, <2>5, <2>6, <2>8, <2>9, <2>10, Installed
<1> QED
  BY <1>4, <1>5

LEMMA TerminatedKeeps ==
  ASSUME NEW s, NEW exempt, Sound(s, exempt), NEW p \in Procs
  PROVE  LET c == Terminated(s, p) IN
         /\ c \in Tables /\ Sound(c, exempt)
         /\ \A i \in Fds : Held(c, Target("write", i)) => Held(s, Target("write", i))
         /\ \A n \in Fds : Fresh(s, n) => Fresh(c, n)
         /\ \A q \in Procs \ {p} : c.own[q] = s.own[q]
<1> DEFINE F == {f \in Fds : s.own[p][f] # Unbound}
<1>1. F \in SUBSET Fds /\ Terminated(s, p) = Closed(s, p, F)
  BY DEF Terminated
<1> HIDE DEF F
<1> QED
  BY <1>1, ClosingKeeps

\* A process ends, by exit or by execve.
LEMMA EndKeeps ==
  ASSUME IInv, NEW p \in Procs, Become(Terminated(Now, p)),
         onCpu' \in Procs, capture' \in [Fds -> Procs \cup {0}],
         UNCHANGED <<nextFd, histories>>
  PROVE  IInv'
<1> DEFINE c == Terminated(Now, p)
<1>1. /\ c \in Tables /\ Sound(c, fed)
      /\ \A i \in Fds : Held(c, Target("write", i)) => Held(Now, Target("write", i))
      /\ \A n \in Fds : Fresh(Now, n) => Fresh(c, n)
  BY NextIsFresh, TerminatedKeeps
<1> HIDE DEF c
<1>2. Now' = c
  BY <1>1, BecomeNow DEF c
<1> QED
  BY <1>1, <1>2, NextIsFresh, Installed

\* What a process that called close has left, with the consumer of the capture gone
\* or not.
LEMMA CloseKeeps ==
  ASSUME IInv, NEW f \in Fds, Close(onCpu, f), UNCHANGED onCpu
  PROVE  IInv'
<1> DEFINE p == onCpu
<1> DEFINE t == Resolve(Now, p, f)
<1> DEFINE left == Closed(Now, p, {f})
<1> DEFINE c == capture[t.id]
<1>1. /\ Now \in Tables /\ p \in Procs /\ left \in Tables /\ Sound(left, fed)
      /\ \A i \in Fds : Held(left, Target("write", i)) => Held(Now, Target("write", i))
      /\ \A n \in Fds : Fresh(Now, n) => Fresh(left, n)
  BY NextIsFresh, ClosingKeeps
<1>2. onCpu' \in Procs /\ UNCHANGED <<nextFd, histories>>
  BY NextIsFresh DEF Close, histories
<1>3. CASE LastWriter(left, t) /\ c # 0
  <2> DEFINE d == Terminated(left, c)
  <2>1. Become(d) /\ capture' = [capture EXCEPT ![t.id] = 0]
    BY <1>3 DEF Close
  <2>2. t.kind = "write" /\ t # Unbound
    BY <1>3, TargetFacts DEF LastWriter
  <2>3. t.id \in Fds
    BY <1>1, <2>2, ResolvedHeld
  <2> HIDE DEF t
  <2>4. c \in Procs /\ capture' \in [Fds -> Procs \cup {0}]
    BY <1>3, <2>1, <2>3, NextIsFresh
  <2> HIDE DEF left, c
  <2>5. /\ d \in Tables /\ Sound(d, fed)
        /\ \A i \in Fds : Held(d, Target("write", i)) => Held(left, Target("write", i))
        /\ \A n \in Fds : Fresh(left, n) => Fresh(d, n)
    BY <1>1, <2>4, TerminatedKeeps
  <2> HIDE DEF d
  <2>6. Now' = d
    BY <2>1, <2>5, BecomeNow
  <2> QED
    BY <1>1, <1>2, <2>4, <2>5, <2>6, NextIsFresh, Installed
<1>4. CASE ~(LastWriter(left, t) /\ c # 0)
  <2>1. Become(left) /\ UNCHANGED capture
    BY <1>4 DEF Close
  <2> HIDE DEF left
  <2>2. Now' = left
    BY <1>1, <2>1, BecomeNow
  <2> QED
    BY <1>1, <1>2, <2>1, <2>2, NextIsFresh, Installed
<1> QED
  BY <1>3, <1>4

\* Reading, writing and the log stream change what is in pipes, the offsets and the
\* flag of a write end, and end of file is only told of a pipe without writers.
LEMMA TransferKeeps ==
  ASSUME IInv, UNCHANGED <<onCpu, nextFd, own, global, files, capture>>,
         pipes' \in [Fds -> Pipe],
         \A i \in Fds :
           /\ pipes'[i].readOpen <=> pipes[i].readOpen
           /\ pipes'[i].writeOpen => pipes[i].writeOpen
           /\ pipes[i].writeOpen => pipes'[i].writeOpen \/ i \in fed'
           /\ pipes[i] = NoPipe => pipes'[i] = NoPipe /\ (i \in fed' => i \in fed)
                                     /\ (i \in told' => i \in told),
         offset' \in [Procs -> [Fds -> 0..NoOffset]],
         \A p \in Procs, f \in Fds :
           offset'[p][f] # NoOffset => own[p][f].kind = "file",
         fed \subseteq fed', fed' \subseteq Fds, told' \subseteq Fds,
         \A i \in told' \ fed' : i \in told \ fed \/ ~pipes[i].writeOpen
  PROVE  IInv'
<1>1. /\ Now \in Tables /\ Owned(Now) /\ FilesOK(Now) /\ EndsOK(Now, fed) /\ RestOK /\ EofIsFinal
  BY DEF IInv, Sound
<1>2. /\ Now'.own = Now.own /\ Now'.global = Now.global /\ Now'.files = Now.files
      /\ Now'.pipes = pipes' /\ Now'.offset = offset'
  BY NowFields, NextFields
<1>3. Now' \in Tables
  <2>1. /\ own \in [Procs -> [Fds -> Targets]] /\ global \in [Fds -> Targets]
        /\ files \subseteq Fds
    BY <1>1, NowFields DEF Tables
  <2> QED
    BY <2>1 DEF Tables, Now
<1>4. \A t : Held(Now', t) <=> Held(Now, t)
  BY <1>2 DEF Held
<1>5. Owned(Now')
  BY <1>1, <1>2 DEF Owned
<1>6. FilesOK(Now')
  BY <1>1, <1>2, <1>4, NowFields DEF FilesOK
<1>7. EndsOK(Now', fed')
  <2> SUFFICES ASSUME NEW i \in Fds
               PROVE  /\ pipes'[i].readOpen <=> Held(Now, Target("read", i))
                      /\ pipes'[i].writeOpen => Held(Now, Target("write", i))
                      /\ Held(Now, Target("write", i)) => pipes'[i].writeOpen \/ i \in fed'
    BY <1>2, <1>4 DEF EndsOK
  <2>1. /\ pipes[i].readOpen <=> Held(Now, Target("read", i))
        /\ pipes[i].writeOpen => Held(Now, Target("write", i))
        /\ Held(Now, Target("write", i)) => pipes[i].writeOpen \/ i \in fed
    BY <1>1, NowFields DEF EndsOK
  <2> QED
    BY <2>1
<1>8. RestOK'
  <2>1. ASSUME NEW n \in Fds, n >= nextFd
        PROVE  Fresh(Now', n) /\ n \notin fed' \cup told'
    <3>1. Fresh(Now, n) /\ n \notin fed \cup told /\ pipes[n] = NoPipe
      BY <1>1, <2>1, NowFields DEF RestOK, Fresh
    <3>2. pipes'[n] = NoPipe /\ n \notin fed' /\ n \notin told'
      BY <3>1
    <3>3. ASSUME NEW p \in Procs PROVE offset'[p][n] = NoOffset
      BY <3>1, NowFields, TargetFacts DEF Fresh
    <3> QED
      BY <1>2, <3>1, <3>2, <3>3 DEF Fresh
  <2> QED
    BY <1>1, <2>1 DEF RestOK, Fresh
<1>9. EofIsFinal'
  <2> \A t : Referenced(t) <=> Held(Now, t)
    BY NowFields DEF Referenced, Held
  <2> \A t : Referenced(t)' <=> Held(Now', t)
    BY NextFields DEF Referenced, Held
  <2>1. \A t : (Referenced(t) <=> Held(Now, t)) /\ (Referenced(t)' <=> Held(Now, t))
    BY <1>4
  <2>2. ASSUME NEW i \in told' \ fed' PROVE ~Held(Now, Target("write", i))
    <3>1. CASE i \in told \ fed
      BY <1>1, <2>1, <3>1 DEF EofIsFinal
    <3>2. CASE ~pipes[i].writeOpen
      BY <1>1, <2>2, <3>2, NowFields DEF EndsOK
    <3> QED
      BY <2>2, <3>1, <3>2
  <2> QED
    BY <2>1, <2>2 DEF EofIsFinal
<1> QED
  BY <1>3, <1>5, <1>6, <1>7, <1>8, <1>9 DEF IInv, Sound

LEMMA ReadKeeps ==
  ASSUME IInv, NEW f \in Fds, NEW n \in 1..Capacity, Read(onCpu, f, n), UNCHANGED onCpu
  PROVE  IInv'
<1> DEFINE p == onCpu
<1> DEFINE t == Resolve(Now, p, f)
<1> DEFINE i == t.id
<1>1. /\ Now \in Tables /\ FilesOK(Now) /\ p \in Procs /\ fed \subseteq Fds /\ told \subseteq Fds
      /\ pipes \in [Fds -> Pipe] /\ offset \in [Procs -> [Fds -> 0..NoOffset]]
      /\ \A q \in Procs, g \in Fds : offset[q][g] # NoOffset => own[q][g].kind = "file"
  BY NextIsFresh, NowFields DEF Sound, FilesOK, Tables
<1>2. UNCHANGED <<onCpu, nextFd, own, global, files, capture, fed>>
  BY DEF Read
<1>3. CASE /\ t.kind = "read" /\ Exists(i)
           /\ pipes' = [pipes EXCEPT ![i].size = @ - Taken(n, @)]
           /\ told' = IF pipes[i].size = 0 /\ AtEof(pipes[i]) THEN told \cup {i} ELSE told
           /\ UNCHANGED offset
  <2>1. i \in Fds
    BY <1>1, <1>3, ResolvedHeld, TargetFacts
  <2> DEFINE e == pipes[i]
  <2> DEFINE rest == e.size - Taken(n, e.size)
  <2>2. e \in Pipe /\ rest \in 0..Capacity
    <3>1. e \in Pipe /\ e.size \in 0..Capacity
      BY <1>1, <2>1, PipeFacts
    <3> HIDE DEF e
    <3> QED
      BY <3>1, FdFacts DEF Taken, Least
  <2>3. pipes' = [pipes EXCEPT ![i] = [e EXCEPT !.size = rest]]
    BY <1>1, <1>3, <2>1
  <2> HIDE DEF rest
  <2>4. /\ [e EXCEPT !.size = rest] \in Pipe
        /\ [e EXCEPT !.size = rest].readOpen = e.readOpen
        /\ [e EXCEPT !.size = rest].writeOpen = e.writeOpen
    BY <2>2 DEF Pipe
  <2>5. /\ pipes' \in [Fds -> Pipe]
        /\ \A j \in Fds : /\ pipes'[j].readOpen = pipes[j].readOpen
                          /\ pipes'[j].writeOpen = pipes[j].writeOpen
                          /\ j # i => pipes'[j] = pipes[j]
    BY <1>1, <2>1, <2>3, <2>4
  <2>6. pipes[i] # NoPipe
    BY <1>3 DEF Exists
  <2>7. /\ told' \subseteq Fds /\ \A j \in told' : j \in told \/ (j = i /\ ~pipes[j].writeOpen)
    <3>1. told' = told \/ (told' = told \cup {i} /\ ~pipes[i].writeOpen)
      BY <1>3 DEF AtEof
    <3> HIDE DEF i
    <3> QED
      BY <1>1, <2>1, <3>1
  <2> HIDE DEF i
  <2>8. \A j \in Fds : pipes[j] = NoPipe => pipes'[j] = NoPipe /\ (j \in told' => j \in told)
    BY <2>5, <2>6, <2>7
  <2> QED
    BY <1>1, <1>2, <1>3, <2>5, <2>7, <2>8, TransferKeeps
<1>4. CASE /\ t.kind = "file" /\ i \in files
           /\ offset' = [offset EXCEPT ![p][f] =
                IF @ = NoOffset THEN Least(n, FileSize) ELSE Least(@ + n, FileSize)]
           /\ UNCHANGED <<pipes, told>>
  <2> DEFINE k == IF offset[p][f] = NoOffset THEN Least(n, FileSize)
                  ELSE Least(offset[p][f] + n, FileSize)
  <2>1. k \in 0..NoOffset
    <3> DEFINE d == offset[p][f]
    <3>1. d \in 0..NoOffset
      BY <1>1
    <3> HIDE DEF d
    <3> QED
      BY <3>1, FdFacts DEF NoOffset, Least, d
  <2>2. offset' = [offset EXCEPT ![p][f] = k]
    BY <1>1, <1>4
  <2>3. own[p][f].kind = "file"
    <3>1. own[p][f] # Unbound => t = own[p][f]
      BY NowFields DEF Resolve
    <3>2. own[p][f] = Unbound => t = global[f]
      BY NowFields DEF Resolve
    <3>3. global[f] # Unbound => global[f].kind # "file"
      BY NextIsFresh, NowFields DEF Sound, Owned
    <3> QED
      BY <1>4, <3>1, <3>2, <3>3, TargetFacts
  <2> HIDE DEF k
  <2>4. offset' \in [Procs -> [Fds -> 0..NoOffset]]
    BY <1>1, <2>1, <2>2
  <2>5. \A q \in Procs, g \in Fds : offset'[q][g] # NoOffset => own[q][g].kind = "file"
    BY <1>1, <2>2, <2>3
  <2> QED
    BY <1>1, <1>2, <1>4, <2>4, <2>5, TransferKeeps
<1> QED
  BY <1>3, <1>4 DEF Read

LEMMA WriteKeeps ==
  ASSUME IInv, NEW f \in Fds, NEW n \in 1..Capacity, Write(onCpu, f, n), UNCHANGED onCpu
  PROVE  IInv'
<1> DEFINE t == Resolve(Now, onCpu, f)
<1> DEFINE i == t.id
<1> DEFINE e == pipes[i]
<1> DEFINE sum == e.size + n
<1>1. /\ Now \in Tables /\ FilesOK(Now) /\ onCpu \in Procs
      /\ fed \subseteq Fds /\ told \subseteq Fds
      /\ pipes \in [Fds -> Pipe] /\ offset \in [Procs -> [Fds -> 0..NoOffset]]
      /\ \A q \in Procs, g \in Fds : offset[q][g] # NoOffset => own[q][g].kind = "file"
  BY NextIsFresh, NowFields DEF Sound, FilesOK, Tables
<1>2. /\ t.kind = "write" /\ e # NoPipe /\ sum <= Capacity
      /\ UNCHANGED <<onCpu, nextFd, own, global, files, offset, capture, fed, told>>
  BY DEF Write, Exists, histories
<1>3. i \in Fds
  BY <1>1, <1>2, ResolvedHeld, TargetFacts
<1>4. e \in Pipe /\ sum \in 0..Capacity
  <2>1. e \in Pipe
    BY <1>1, <1>3
  <2>2. e.size \in Nat /\ Capacity \in Nat
    BY <2>1, FdFacts DEF Pipe
  <2>3. sum \in Nat
    BY <2>2
  <2> QED BY <1>2, <2>1, <2>2, <2>3
<1>5. pipes' = [pipes EXCEPT ![i] = [e EXCEPT !.size = sum]]
  BY <1>1, <1>3 DEF Write
<1> HIDE DEF sum
<1>6. /\ [e EXCEPT !.size = sum] \in Pipe
      /\ [e EXCEPT !.size = sum].readOpen = e.readOpen
      /\ [e EXCEPT !.size = sum].writeOpen = e.writeOpen
  BY <1>4 DEF Pipe
<1>7. /\ pipes' \in [Fds -> Pipe]
      /\ \A j \in Fds : /\ pipes'[j].readOpen = pipes[j].readOpen
                        /\ pipes'[j].writeOpen = pipes[j].writeOpen
                        /\ j # i => pipes'[j] = pipes[j]
  BY <1>1, <1>3, <1>5, <1>6
<1> HIDE DEF i
<1> QED
  BY <1>1, <1>2, <1>7, TransferKeeps

LEMMA SpawnKeeps ==
  ASSUME IInv, NEW f \in Fds, SpawnLogStream(onCpu, f), UNCHANGED onCpu
  PROVE  IInv'
<1> DEFINE t == Resolve(Now, onCpu, f)
<1> DEFINE i == t.id
<1> DEFINE e == pipes[i]
<1> DEFINE sum == e.size + 1
<1>1. /\ Now \in Tables /\ FilesOK(Now) /\ onCpu \in Procs
      /\ fed \subseteq Fds /\ told \subseteq Fds
      /\ pipes \in [Fds -> Pipe] /\ offset \in [Procs -> [Fds -> 0..NoOffset]]
      /\ \A q \in Procs, g \in Fds : offset[q][g] # NoOffset => own[q][g].kind = "file"
  BY NextIsFresh, NowFields DEF Sound, FilesOK, Tables
<1>2. /\ t.kind = "write" /\ e # NoPipe /\ e.size < Capacity /\ fed' = fed \cup {i}
      /\ UNCHANGED <<onCpu, nextFd, own, global, files, offset, capture, told>>
  BY DEF SpawnLogStream, Exists
<1>3. i \in Fds
  BY <1>1, <1>2, ResolvedHeld, TargetFacts
<1>4. e \in Pipe /\ sum \in 0..Capacity
  <2>1. e \in Pipe /\ e.size \in 0..Capacity /\ e.size < Capacity
    BY <1>1, <1>2, <1>3 DEF Pipe
  <2> HIDE DEF e
  <2> QED
    BY <2>1, FdFacts
<1> DEFINE new == [e EXCEPT !.size = sum, !.writeOpen = FALSE]
<1>5. pipes' = [pipes EXCEPT ![i] = new]
  BY <1>1, <1>3 DEF SpawnLogStream
<1> HIDE DEF sum
<1>6. new \in Pipe /\ new.readOpen = e.readOpen /\ ~new.writeOpen
  BY <1>4 DEF Pipe
<1> HIDE DEF new
<1>7. /\ pipes' \in [Fds -> Pipe]
      /\ \A j \in Fds : /\ pipes'[j].readOpen = pipes[j].readOpen
                        /\ pipes'[j].writeOpen => pipes[j].writeOpen
                        /\ j # i => pipes'[j] = pipes[j]
  BY <1>1, <1>3, <1>5, <1>6
<1> HIDE DEF i
<1> QED
  BY <1>1, <1>2, <1>3, <1>7, TransferKeeps

LEMMA SwitchKeeps ==
  ASSUME IInv, onCpu' \in Procs, UNCHANGED <<nextFd, tables, capture, histories>>
  PROVE  IInv'
<1>1. Now' = Now
  BY DEF tables, Now
<1> QED
  BY <1>1, NextIsFresh, Installed

LEMMA ExecveKeeps ==
  ASSUME IInv, Execve(onCpu), UNCHANGED onCpu
  PROVE  IInv'
<1> DEFINE t == Resolve(Now, onCpu, Stdin)
<1>1. Now \in Tables /\ onCpu \in Procs /\ Stdin \in Fds
  BY NextIsFresh, FdFacts DEF Stdin
<1>2. capture' \in [Fds -> Procs \cup {0}]
  BY <1>1, NextIsFresh DEF Execve
<1>3. Become(Terminated(Now, onCpu)) /\ UNCHANGED <<nextFd, histories>>
  BY DEF Execve
<1> QED
  BY <1>1, <1>2, <1>3, EndKeeps

LEMMA ExitKeeps ==
  ASSUME IInv, Exit(onCpu), UNCHANGED onCpu
  PROVE  IInv'
<1>1. onCpu \in Procs /\ capture \in [Fds -> Procs \cup {0}]
  BY NextIsFresh
<1>2. Become(Terminated(Now, onCpu)) /\ UNCHANGED <<nextFd, capture, histories>>
  BY DEF Exit
<1> QED
  BY <1>1, <1>2, EndKeeps

LEMMA InvariantInitially == FInit => IInv
<1> SUFFICES ASSUME FInit PROVE IInv
  OBVIOUS
<1>1. Now \in Tables
  BY TargetFacts, PipeFacts, FdFacts DEF FInit, Tables, Now, NoOffset
<1>2. \A n \in Fds : Fresh(Now, n)
  BY NowFields DEF FInit, Fresh
<1>3. ASSUME NEW t \in Targets, t # Unbound PROVE ~Held(Now, t)
  BY <1>2, <1>3 DEF Held, Fresh
<1>4. \A i \in Fds, k \in {"read", "write", "file"} : ~Held(Now, Target(k, i))
  BY <1>3, TargetFacts
<1>5. Owned(Now) /\ FilesOK(Now) /\ EndsOK(Now, fed)
  BY <1>2, <1>4, PipeFacts DEF Owned, FilesOK, EndsOK, Fresh
<1>6. RestOK
  BY <1>2, FdFacts DEF FInit, RestOK
<1>7. EofIsFinal
  BY DEF FInit, EofIsFinal
<1> QED
  BY <1>1, <1>5, <1>6, <1>7 DEF IInv, Sound

LEMMA InvariantKept == IInv /\ [FNext]_fdvars => IInv'
<1> SUFFICES ASSUME IInv, [FNext]_fdvars PROVE IInv'
  OBVIOUS
<1>1. CASE UNCHANGED fdvars
  <2>1. onCpu' \in Procs /\ UNCHANGED <<nextFd, tables, capture, histories>>
    BY <1>1, NextIsFresh DEF fdvars
  <2> QED
    BY <2>1, SwitchKeeps
<1>2. ASSUME NEW p \in Procs, onCpu' = p, UNCHANGED <<nextFd, tables, capture, histories>>
      PROVE  IInv'
  BY <1>2, SwitchKeeps
<1>3. CASE Hook(onCpu) /\ UNCHANGED onCpu
  <2>1. CASE Open(onCpu)
    BY <1>3, <2>1, OpenKeeps
  <2>2. CASE MakePipe(onCpu)
    BY <1>3, <2>2, PipeKeeps
  <2>3. CASE Execve(onCpu)
    BY <1>3, <2>3, ExecveKeeps
  <2>4. CASE Exit(onCpu)
    BY <1>3, <2>4, ExitKeeps
  <2>5. ASSUME NEW f \in Fds, Dup(onCpu, f) PROVE IInv'
    BY <1>3, <2>5, DupKeeps
  <2>6. ASSUME NEW f \in Fds, Close(onCpu, f) PROVE IInv'
    BY <1>3, <2>6, CloseKeeps
  <2>7. ASSUME NEW f \in Fds, SpawnLogStream(onCpu, f) PROVE IInv'
    BY <1>3, <2>7, SpawnKeeps
  <2>8. ASSUME NEW old \in Fds, NEW new \in Fds, Dup2(onCpu, old, new) PROVE IInv'
    BY <1>3, <2>8, Dup2Keeps
  <2>9. ASSUME NEW f \in Fds, NEW n \in 1..Capacity, Read(onCpu, f, n) PROVE IInv'
    BY <1>3, <2>9, ReadKeeps
  <2>10. ASSUME NEW f \in Fds, NEW n \in 1..Capacity, Write(onCpu, f, n) PROVE IInv'
    BY <1>3, <2>10, WriteKeeps
  <2> QED
    BY <1>3, <2>1, <2>2, <2>3, <2>4, <2>5, <2>6, <2>7, <2>8, <2>9, <2>10 DEF Hook
<1> QED
  BY <1>1, <1>2, <1>3 DEF FNext

\* In every state the program reaches the tables are sound and end of file final.
THEOREM DescriptorsInvariant == FSpec => []IInv
<1> QED
  BY InvariantInitially, InvariantKept, PTL DEF FSpec

-------------------------------------------------------------------------------
(***************************************************************************)
(* What the invariant means.                                               *)
(***************************************************************************)

LEMMA SoundSaid ==
  ASSUME IInv
  PROVE  TablesAgree /\ EofHonest
<1>1. /\ Now \in Tables /\ Owned(Now) /\ FilesOK(Now) /\ EndsOK(Now, fed) /\ EofIsFinal
  BY DEF IInv, Sound
<1>2. \A t : Referenced(t) <=> Held(Now, t)
  BY NowFields DEF Referenced, Held
<1>3. ASSUME NEW i \in Fds
      PROVE  /\ pipes[i].readOpen <=> Referenced(Target("read", i))
             /\ pipes[i].writeOpen => Referenced(Target("write", i))
             /\ Referenced(Target("write", i)) => pipes[i].writeOpen \/ i \in fed
             /\ i \in files <=> Referenced(Target("file", i))
  BY <1>1, <1>2, NowFields DEF EndsOK, FilesOK
<1>4. \A i \in Fds : pipes[i].readOpen \/ pipes[i].writeOpen => Exists(i)
  BY PipeFacts DEF Exists
<1>5. NothingDangles
  BY <1>3, <1>4 DEF NothingDangles
<1>6. SharedHasOwner
  BY <1>1, NowFields DEF SharedHasOwner, Owned
<1>7. OffsetsBelong
  BY <1>1, NowFields DEF OffsetsBelong, FilesOK
<1>8. EndsCounted
  BY <1>3 DEF EndsCounted
<1> QED
  BY <1>1, <1>5, <1>6, <1>7, <1>8 DEF TablesAgree, EofHonest

\* Nothing names what is gone and nothing outlives its last descriptor, whatever the
\* processes close, duplicate and leave behind.
THEOREM TablesAlwaysAgree == FSpec => []TablesAgree
<1>1. IInv => TablesAgree
  BY SoundSaid
<1> QED
  BY <1>1, DescriptorsInvariant, PTL

\* The ends of a pipe are counted over all processes, and no byte comes after the
\* end of file.
THEOREM EofAlwaysHonest == FSpec => []EofHonest
<1>1. IInv => EofHonest
  BY SoundSaid
<1> QED
  BY <1>1, DescriptorsInvariant, PTL

-------------------------------------------------------------------------------
(***************************************************************************)
(* What a step may never do.                                               *)
(***************************************************************************)

\* What a step does to one number of a process that does not run, in the tables.
NumberKept(q, f) ==
  /\ own'[q][f] # own[q][f] => MayEnd(q, f)
  /\ \/ Meaning(q, f)' = Meaning(q, f)
     \/ Meaning(q, f) = Unbound /\ f >= nextFd
     \/ Meaning(q, f)' = Unbound /\ MayEnd(q, f)

\* A number that keeps its own entry, in a step that leaves the shared table alone
\* or takes an entry from it that a process gives up or closes.
LEMMA OwnUntouched ==
  ASSUME NEW q \in Procs, NEW f \in Fds, own'[q][f] = own[q][f],
         \/ global'[f] = global[f]
         \/ global'[f] = Unbound /\ \E r \in Procs : own[r][f] # Unbound /\ own'[r][f] # own[r][f]
         \/ global'[f] = Unbound /\ Close(onCpu, f)
         \/ global'[f] = Unbound /\ \E old \in Fds : Dup2(onCpu, old, f)
  PROVE  NumberKept(q, f)
<1>1. CASE own[q][f] # Unbound
  BY <1>1 DEF NumberKept, Meaning
<1>2. CASE own[q][f] = Unbound /\ global'[f] = global[f]
  BY <1>2 DEF NumberKept, Meaning
<1>3. CASE own[q][f] = Unbound /\ global'[f] = Unbound /\ MayEnd(q, f)
  BY <1>3 DEF NumberKept, Meaning
<1> QED
  BY <1>1, <1>2, <1>3 DEF MayEnd

\* Closing takes the numbers from the process and from the shared table.
LEMMA ClosedNames ==
  ASSUME NEW s \in Tables, NEW p \in Procs, NEW F \in SUBSET Fds
  PROVE  /\ \A f \in Fds : Closed(s, p, F).global[f] = IF f \in F THEN Unbound ELSE s.global[f]
         /\ \A q \in Procs, f \in Fds :
              Closed(s, p, F).own[q][f] = IF q = p /\ f \in F THEN Unbound ELSE s.own[q][f]
BY LeftFields, ClosedFields

LEMMA TerminatedNames ==
  ASSUME NEW s \in Tables, NEW p \in Procs
  PROVE  /\ \A f \in Fds : Terminated(s, p).global[f] =
                             IF s.own[p][f] # Unbound THEN Unbound ELSE s.global[f]
         /\ \A q \in Procs, f \in Fds :
              Terminated(s, p).own[q][f] = IF q = p THEN Unbound ELSE s.own[q][f]
<1> DEFINE F == {f \in Fds : s.own[p][f] # Unbound}
<1>1. F \in SUBSET Fds /\ Terminated(s, p) = Closed(s, p, F)
  BY DEF Terminated
<1>2. \A f \in Fds : f \in F <=> s.own[p][f] # Unbound
  OBVIOUS
<1> HIDE DEF F
<1> QED
  BY <1>1, <1>2, ClosedNames

LEMMA CloseEffect ==
  ASSUME IInv, NEW n \in Fds, Close(onCpu, n)
  PROVE  /\ \A q \in Procs \ {onCpu}, f \in Fds : NumberKept(q, f)
         /\ \A i \in Fds \ fed : capture[i] # 0 /\ capture'[i] = 0 =>
              ~Held(Now', Target("write", i))
<1> DEFINE p == onCpu
<1> DEFINE t == Resolve(Now, p, n)
<1> DEFINE left == Closed(Now, p, {n})
<1> DEFINE c == capture[t.id]
<1>1. /\ Now \in Tables /\ p \in Procs /\ left \in Tables /\ Sound(left, fed)
      /\ \A q \in Procs \ {p} : left.own[q] = own[q]
  BY NextIsFresh, ClosingKeeps, NowFields
<1>2. /\ \A f \in Fds : left.global[f] = IF f = n THEN Unbound ELSE global[f]
      /\ \A q \in Procs, f \in Fds : left.own[q][f] = IF q = p /\ f = n THEN Unbound ELSE own[q][f]
  BY <1>1, ClosedNames, NowFields
<1>3. CASE LastWriter(left, t) /\ c # 0
  <2> DEFINE d == Terminated(left, c)
  <2>1. Become(d) /\ capture' = [capture EXCEPT ![t.id] = 0] /\ ~left.pipes[t.id].writeOpen
    BY <1>3 DEF Close, LastWriter
  <2>2. t.kind = "write" /\ t # Unbound
    BY <1>3, TargetFacts DEF LastWriter
  <2>3. t.id \in Fds
    BY <1>1, <2>2, ResolvedHeld
  <2> DEFINE j == t.id
  <2> HIDE DEF t, j
  <2>4. /\ c \in Procs /\ capture[j] = c /\ capture' = [capture EXCEPT ![j] = 0]
        /\ \A i \in Fds : i # j => capture'[i] = capture[i]
        /\ j \in Fds /\ capture'[j] = 0 /\ ~left.pipes[j].writeOpen
    BY <1>3, <2>1, <2>3, NextIsFresh DEF j
  <2> HIDE DEF left, c
  <2>5. /\ d \in Tables
        /\ \A i \in Fds : Held(d, Target("write", i)) => Held(left, Target("write", i))
    BY <1>1, <2>4, TerminatedKeeps
  <2>6. Now' = d /\ own' = d.own /\ global' = d.global
    BY <2>1, <2>5, BecomeNow DEF Become
  <2>7. j \notin fed => ~Held(left, Target("write", j))
    BY <1>1, <2>4 DEF Sound, EndsOK
  <2>8. /\ \A f \in Fds : global'[f] = IF left.own[c][f] # Unbound THEN Unbound ELSE left.global[f]
        /\ \A q \in Procs, f \in Fds : own'[q][f] = IF q = c THEN Unbound ELSE left.own[q][f]
    BY <1>1, <2>4, <2>6, TerminatedNames
  <2>9. ASSUME NEW q \in Procs \ {p}, NEW f \in Fds
        PROVE  NumberKept(q, f)
    <3>1. CASE q = c
      <4>1. MayEnd(q, f)
        BY <2>4, <3>1 DEF MayEnd
      <4>2. own'[q][f] = Unbound
        BY <2>8, <3>1
      <4>3. CASE own[q][f] # Unbound
        <5>1. left.own[c][f] # Unbound
          BY <1>2, <3>1, <4>3
        <5> QED
          BY <2>8, <4>1, <4>2, <5>1 DEF NumberKept, Meaning
      <4>4. CASE own[q][f] = Unbound
        <5>1. global'[f] = Unbound \/ global'[f] = global[f]
          BY <1>2, <2>8
        <5> QED
          BY <4>1, <4>2, <4>4, <5>1 DEF NumberKept, Meaning
      <4> QED
        BY <4>3, <4>4
    <3>2. CASE q # c
      <4>1. own'[q][f] = own[q][f]
        BY <1>2, <2>8, <3>2
      <4>2. CASE f = n
        <5>1. global'[f] = Unbound
          BY <1>2, <2>8, <4>2
        <5> QED
          BY <4>1, <4>2, <5>1, OwnUntouched
      <4>3. CASE f # n
        <5>1. left.own[c][f] = own[c][f] /\ left.global[f] = global[f] /\ own'[c][f] = Unbound
          BY <1>2, <2>4, <2>8, <4>3
        <5>2. global'[f] = global[f] \/
              (global'[f] = Unbound /\ own[c][f] # Unbound /\ own'[c][f] # own[c][f])
          BY <2>8, <5>1
        <5> QED
          BY <2>4, <4>1, <5>2, OwnUntouched
      <4> QED
        BY <4>2, <4>3
    <3> QED
      BY <3>1, <3>2
  <2>10. ASSUME NEW i \in Fds \ fed, capture[i] # 0, capture'[i] = 0
         PROVE  ~Held(Now', Target("write", i))
    <3>1. i = j
      BY <2>4, <2>10
    <3> QED
      BY <2>5, <2>6, <2>7, <3>1
  <2> QED
    BY <2>9, <2>10
<1>4. CASE ~(LastWriter(left, t) /\ c # 0)
  <2>1. own' = left.own /\ global' = left.global /\ UNCHANGED capture
    BY <1>4 DEF Close, Become
  <2> HIDE DEF left
  <2>2. ASSUME NEW q \in Procs \ {p}, NEW f \in Fds PROVE NumberKept(q, f)
    <3>1. own'[q][f] = own[q][f]
      BY <1>2, <2>1
    <3>2. global'[f] = global[f] \/ (f = n /\ global'[f] = Unbound)
      BY <1>2, <2>1
    <3> QED
      BY <3>1, <3>2, OwnUntouched
  <2> QED
    BY <2>1, <2>2
<1> QED
  BY <1>3, <1>4

\* A process that ends gives up its own numbers, and nobody else does.
LEMMA EndEffect ==
  ASSUME IInv, NEW p \in Procs, Become(Terminated(Now, p))
  PROVE  \A q \in Procs \ {p}, f \in Fds : NumberKept(q, f)
<1> TAKE q \in Procs \ {p}, f \in Fds
<1>1. /\ own'[q][f] = own[q][f] /\ own'[p][f] = Unbound
      /\ global'[f] = IF own[p][f] # Unbound THEN Unbound ELSE global[f]
  BY NextIsFresh, TerminatedNames, NowFields DEF Become
<1> QED
  BY <1>1, OwnUntouched

LEMMA Dup2Effect ==
  ASSUME IInv, NEW old \in Fds, NEW n \in Fds, Dup2(onCpu, old, n)
  PROVE  \A q \in Procs \ {onCpu}, f \in Fds : NumberKept(q, f)
<1> DEFINE p == onCpu
<1> DEFINE left == Closed(Now, p, {n})
<1>1. /\ left \in Tables /\ p \in Procs
      /\ \A f \in Fds : left.global[f] = IF f = n THEN Unbound ELSE global[f]
      /\ \A q \in Procs, f \in Fds : left.own[q][f] = IF q = p /\ f = n THEN Unbound ELSE own[q][f]
  BY NextIsFresh, ClosingKeeps, ClosedNames, NowFields
<1>2. /\ global' = left.global
      /\ own' = left.own \/ \E t : own' = [left EXCEPT !.own[p][n] = t].own
  BY DEF Dup2, Dup2ed, Become, Tables
<1> HIDE DEF left
<1>3. \A q \in Procs \ {p} : own'[q] = left.own[q]
  BY <1>1, <1>2 DEF Tables
<1> TAKE q \in Procs \ {onCpu}, f \in Fds
<1>4. own'[q][f] = own[q][f]
  BY <1>1, <1>3
<1>5. global'[f] = global[f] \/ (f = n /\ global'[f] = Unbound)
  BY <1>1, <1>2
<1> QED
  BY <1>4, <1>5, OwnUntouched

\* A new pipe takes numbers that nobody was given.
LEMMA PipeEffect ==
  ASSUME IInv, MakePipe(onCpu)
  PROVE  \A q \in Procs \ {onCpu}, f \in Fds : NumberKept(q, f)
<1> DEFINE p == onCpu
<1>1. p \in Procs /\ nextFd \in Nat /\ nextFd \in Fds /\ nextFd + 1 \in Fds /\ Now \in Tables
  BY NextIsFresh DEF MakePipe
<1>2. \A q \in Procs \ {p} : own'[q] = own[q]
  BY <1>1, NowFields DEF MakePipe, Become, Tables
<1>3. \A f \in Fds : f # nextFd /\ f # nextFd + 1 => global'[f] = global[f]
  BY <1>1, NowFields DEF MakePipe, Become, Tables
<1> TAKE q \in Procs \ {onCpu}, f \in Fds
<1>4. CASE f # nextFd /\ f # nextFd + 1
  BY <1>2, <1>3, <1>4, OwnUntouched
<1>5. CASE f = nextFd \/ f = nextFd + 1
  <2>1. f >= nextFd
    BY <1>1, <1>5
  <2>2. own[q][f] = Unbound /\ global[f] = Unbound
    BY <2>1, NextIsFresh, NowFields DEF Fresh
  <2> QED
    BY <1>2, <2>1, <2>2 DEF NumberKept, Meaning
<1> QED
  BY <1>4, <1>5

LEMMA ActionsRespect ==
  ASSUME IInv, [FNext]_fdvars
  PROVE  CaptureEnds /\ MeaningKept
<1> DEFINE p == onCpu
<1>1. /\ Now \in Tables /\ p \in Procs /\ own \in [Procs -> [Fds -> Targets]]
      /\ capture \in [Fds -> Procs \cup {0}] /\ 0 \notin Procs
  BY NextIsFresh, NowFields, FdAssumption DEF Tables
<1>2. \A t : Referenced(t)' <=> Held(Now', t)
  BY NextFields DEF Referenced, Held
<1>3. CASE /\ \A q \in Procs \ {p}, f \in Fds : NumberKept(q, f)
           /\ \A i \in Fds : capture'[i] = capture[i] \/ capture'[i] # 0
  <2>1. CaptureEnds
    BY <1>3 DEF CaptureEnds
  <2>2. MeaningKept
    BY <1>3 DEF MeaningKept, NumberKept
  <2> QED
    BY <2>1, <2>2
<1>4. CASE /\ \A q \in Procs \ {p} : own'[q] = own[q]
           /\ UNCHANGED <<global, capture>>
  <2>1. \A q \in Procs \ {p}, f \in Fds : NumberKept(q, f)
    BY <1>4, OwnUntouched
  <2> QED
    BY <1>3, <1>4, <2>1
<1>5. CASE UNCHANGED <<own, global, capture>>
  BY <1>4, <1>5, <1>1
<1>6. CASE Hook(p)
  <2>1. CASE Open(p)
    <3>1. (\A q \in Procs \ {p} : own'[q] = own[q]) /\ UNCHANGED <<global, capture>>
      BY <1>1, <2>1, NowFields DEF Open, Become, tables
    <3> QED
      BY <1>4, <3>1
  <2>2. CASE MakePipe(p)
    BY <1>3, <2>2, PipeEffect DEF MakePipe
  <2>3. CASE Execve(p)
    <3>1. \A q \in Procs \ {p}, f \in Fds : NumberKept(q, f)
      BY <1>1, <2>3, EndEffect DEF Execve
    <3>2. \A i \in Fds : capture'[i] = capture[i] \/ capture'[i] # 0
      BY <1>1, <2>3 DEF Execve
    <3> QED
      BY <1>3, <3>1, <3>2
  <2>4. CASE Exit(p)
    <3>1. \A q \in Procs \ {p}, f \in Fds : NumberKept(q, f)
      BY <1>1, <2>4, EndEffect DEF Exit
    <3> QED
      BY <1>3, <2>4, <3>1 DEF Exit
  <2>5. ASSUME NEW n \in Fds, Dup(p, n) PROVE CaptureEnds /\ MeaningKept
    <3>1. (\A q \in Procs \ {p} : own'[q] = own[q]) /\ UNCHANGED <<global, capture>>
      BY <1>1, <2>5, NowFields DEF Dup, Become
    <3> QED
      BY <1>4, <3>1
  <2>6. ASSUME NEW n \in Fds, Close(p, n) PROVE CaptureEnds /\ MeaningKept
    <3>1. CaptureEnds
      BY <1>2, <2>6, CloseEffect DEF CaptureEnds
    <3>2. MeaningKept
      BY <2>6, CloseEffect DEF MeaningKept, NumberKept
    <3> QED
      BY <3>1, <3>2
  <2>7. ASSUME NEW n \in Fds, SpawnLogStream(p, n) PROVE CaptureEnds /\ MeaningKept
    BY <1>5, <2>7 DEF SpawnLogStream
  <2>8. ASSUME NEW old \in Fds, NEW n \in Fds, Dup2(p, old, n)
        PROVE  CaptureEnds /\ MeaningKept
    <3>1. \A q \in Procs \ {p}, f \in Fds : NumberKept(q, f)
      BY <2>8, Dup2Effect
    <3> QED
      BY <1>3, <2>8, <3>1 DEF Dup2
  <2>9. ASSUME NEW n \in Fds, NEW m \in 1..Capacity, Read(p, n, m) \/ Write(p, n, m)
        PROVE  CaptureEnds /\ MeaningKept
    BY <1>5, <2>9 DEF Read, Write
  <2> QED
    BY <1>6, <2>1, <2>2, <2>3, <2>4, <2>5, <2>6, <2>7, <2>8, <2>9 DEF Hook
<1> QED
  BY <1>5, <1>6 DEF FNext, fdvars, tables

\* A number of a process that does not run names what it named or ends: with its
\* consumer, with the process that had the number bound, or by a close of that number.
THEOREM OthersKeepDescriptors == FSpec => DescriptorsKept
<1>1. IInv /\ [FNext]_fdvars => [MeaningKept]_<<own, global>>
  BY ActionsRespect
<1> QED
  BY <1>1, DescriptorsInvariant, PTL DEF FSpec, DescriptorsKept

\* A capture is complete only when nobody can write to its pipe any more.
THEOREM CapturesEndDry == FSpec => CaptureComplete
<1>1. IInv /\ [FNext]_fdvars => [CaptureEnds]_fdvars
  BY ActionsRespect
<1> QED
  BY <1>1, DescriptorsInvariant, PTL DEF FSpec, CaptureComplete

-------------------------------------------------------------------------------
(***************************************************************************)
(* Kqueues: no trigger is lost.                                            *)
(***************************************************************************)
LeavesTo(regs, src, f) ==
  f = [n \in 0..Len(regs) |->
         IF n = 0 THEN <<>>
         ELSE IF regs[n].source = src THEN f[n - 1] ELSE Append(f[n - 1], regs[n])]

LEMMA OthersFacts ==
  ASSUME NEW S, NEW regs \in Seq(S), NEW src
  PROVE  /\ Others(regs, src) \in Seq(S)
         /\ ToSet(Others(regs, src)) = {r \in ToSet(regs) : r.source # src}
<1> DEFINE St == Seq(S)
           k == Len(regs)
           F == [i \in 1..k |-> [t \in St |-> IF regs[i].source = src THEN t ELSE Append(t, regs[i])]]
           g == CHOOSE f : LeavesTo(regs, src, f)
<1>1. k \in Nat /\ \A i \in 1..k : regs[i] \in S
  BY LenProperties, ElementOfSeq
<1>2. \A i \in 1..k : \A t \in St : Append(t, regs[i]) \in St
  BY <1>1, AppendProperties
<1>3. <<>> \in St
  BY EmptySeq
<1>4. F \in [1..k -> [St -> St]]
  <2> HIDE DEF St
  <2> QED BY <1>2
<1>5. PICK f : Stepped(<<>>, F, k, f) /\ \A i \in 0..k : f[i] \in St
  <2> HIDE DEF F, k, St
  <2> QED BY <1>1, <1>3, <1>4, StepsExist
<1>6. LeavesTo(regs, src, f)
  <2> HIDE DEF St
  <2>1. ASSUME NEW i \in 0..k, i # 0
        PROVE  F[i][f[i - 1]] = IF regs[i].source = src THEN f[i - 1] ELSE Append(f[i - 1], regs[i])
    <3>1. i \in 1..k /\ i - 1 \in 0..k
      BY <1>1, <2>1
    <3> QED BY <1>5, <3>1
  <2> HIDE DEF F
  <2>2. f = [i \in 0..k |-> IF i = 0 THEN <<>>
                            ELSE IF regs[i].source = src THEN f[i - 1] ELSE Append(f[i - 1], regs[i])]
    BY <1>5, <2>1 DEF Stepped
  <2> QED BY <2>2 DEF LeavesTo
<1>7. LeavesTo(regs, src, g)
  BY <1>6
<1>8. Others(regs, src) = g[k]
  BY DEF Others, LeavesTo
<1> HIDE DEF g
<1>9. g[0] = <<>> /\ \A i \in 1..k : g[i] = IF regs[i].source = src THEN g[i - 1] ELSE Append(g[i - 1], regs[i])
  <2> DEFINE V(i) == IF i = 0 THEN <<>>
                     ELSE IF regs[i].source = src THEN g[i - 1] ELSE Append(g[i - 1], regs[i])
  <2>1. g = [i \in 0..k |-> V(i)]
    BY <1>7 DEF LeavesTo
  <2> HIDE DEF V, k
  <2>2. \A i \in 0..k : g[i] = V(i)
    BY <2>1
  <2>3. 0 \in 0..k /\ \A i \in 1..k : i \in 0..k /\ i # 0
    BY <1>1
  <2> QED BY <2>2, <2>3 DEF V
<1> DEFINE Left(i) == {regs[j] : j \in {m \in 1..i : regs[m].source # src}}
           Good == [i \in 0..k |-> {t \in Seq(S) : ToSet(t) = Left(i)}]
<1>10. \A i \in 0..k : g[i] \in Good[i]
  <2>1. g[0] \in Good[0]
    <3>1. ToSet(<<>>) = {} /\ Left(0) = {} /\ 0 \in 0..k
      BY <1>1 DEF ToSet
    <3> QED BY <1>3, <1>9, <3>1
  <2>2. ASSUME NEW i \in 1..k, g[i - 1] \in Good[i - 1] PROVE g[i] \in Good[i]
    <3>1. i - 1 \in 0..k /\ i \in 0..k /\ \A m : m \in 1..i <=> m \in 1..(i - 1) \/ m = i
      BY <1>1
    <3>2. g[i - 1] \in Seq(S) /\ ToSet(g[i - 1]) = Left(i - 1)
      BY <2>2, <3>1
    <3>3. CASE regs[i].source = src
      <4>1. Left(i) = Left(i - 1)
        BY <3>1, <3>3
      <4> QED BY <1>9, <3>1, <3>2, <3>3, <4>1
    <3>4. CASE regs[i].source # src
      <4>1. Left(i) = Left(i - 1) \cup {regs[i]}
        BY <3>1, <3>4
      <4> HIDE DEF Left
      <4>2. /\ Append(g[i - 1], regs[i]) \in Seq(S)
            /\ ToSet(Append(g[i - 1], regs[i])) = ToSet(g[i - 1]) \cup {regs[i]}
        BY <1>1, <3>2, SetOfSeq
      <4> QED BY <1>9, <3>1, <3>2, <3>4, <4>1, <4>2
    <3> QED BY <3>3, <3>4
  <2> HIDE DEF Good, k
  <2> QED BY <1>1, <2>1, <2>2, EachStep
<1>11. g[k] \in Seq(S) /\ ToSet(g[k]) = Left(k)
  BY <1>1, <1>10
<1>12. ToSet(regs) = {regs[i] : i \in 1..k}
  BY SetOfSeq
<1> QED BY <1>8, <1>11, <1>12


PendingIn(regs, src) == \E r \in ToSet(regs) : r.source = src /\ r.triggered
Resets(ch, src) == ch.source = src /\ ch.verb \in {"add", "delete"}
NotReset(changes, n, src) == \A i \in 1..n : ~Resets(changes[i], src)

\* A change to each registration of a source, which keeps it triggered.
LEMMA ChangedKeeps ==
  ASSUME NEW regs \in Seq(Registration), NEW news, NEW src,
         news = [i \in DOMAIN regs |-> news[i]],
         \A i \in DOMAIN regs : /\ news[i] \in Registration /\ news[i].source = regs[i].source
                                /\ (regs[i].source = src /\ regs[i].triggered => news[i].triggered)
  PROVE  news \in Seq(Registration) /\ (PendingIn(regs, src) => PendingIn(news, src))
<1>1. Len(regs) \in Nat /\ DOMAIN regs = 1..Len(regs)
  BY LenProperties
<1>2. DOMAIN news = DOMAIN regs
  OBVIOUS
<1>3. news \in [1..Len(regs) -> Registration]
  BY <1>1
<1>4. PendingIn(regs, src) => PendingIn(news, src)
  <2> SUFFICES ASSUME PendingIn(regs, src) PROVE PendingIn(news, src)
    OBVIOUS
  <2>1. PICK i \in DOMAIN regs : regs[i].source = src /\ regs[i].triggered
    BY DEF PendingIn, ToSet
  <2>2. news[i] \in ToSet(news) /\ news[i].source = src /\ news[i].triggered
    BY <1>2, <2>1 DEF ToSet
  <2> QED BY <2>2 DEF PendingIn
<1> QED BY <1>1, <1>3, <1>4

\* A change that neither adds nor deletes a source leaves it triggered.
LEMMA AppliedKeeps ==
  ASSUME NEW regs \in Seq(Registration), NEW ch \in Changes
  PROVE  /\ Applied(regs, ch) \in Seq(Registration)
         /\ \A src : ~Resets(ch, src) /\ PendingIn(regs, src) => PendingIn(Applied(regs, ch), src)
<1> DEFINE noted == IF ch.trigger
               THEN Changed(regs, ch.source, LAMBDA r : [r EXCEPT !.triggered = TRUE])
               ELSE regs
<1>1. /\ ch.source \in Sources /\ ch.verb \in {"delete", "add", "enable", "disable", "none"}
      /\ ch.off \in BOOLEAN /\ ch.clear \in BOOLEAN /\ ch.trigger \in BOOLEAN
  BY DEF Changes, Change
<1>2. noted \in Seq(Registration) /\ \A src : PendingIn(regs, src) => PendingIn(noted, src)
  <2>1. CASE ch.trigger
    <3> DEFINE New(r) == IF r.source = ch.source THEN [r EXCEPT !.triggered = TRUE] ELSE r
    <3>1. noted = [i \in DOMAIN regs |-> New(regs[i])]
      BY <2>1 DEF Changed
    <3>2. \A r \in Registration : New(r) \in Registration /\ New(r).source = r.source
                                 /\ (r.triggered => New(r).triggered)
      BY DEF Registration
    <3>3. \A i \in DOMAIN regs : regs[i] \in Registration
      BY LenProperties, ElementOfSeq
    <3> HIDE DEF New, noted
    <3>4. /\ noted = [i \in DOMAIN regs |-> noted[i]]
          /\ \A i \in DOMAIN regs : /\ noted[i] \in Registration /\ noted[i].source = regs[i].source
                                    /\ (regs[i].triggered => noted[i].triggered)
      BY <3>1, <3>2, <3>3
    <3> QED BY <3>4, ChangedKeeps
  <2>2. CASE ~ch.trigger
    BY <2>2
  <2> QED BY <2>1, <2>2
<1>3. CASE ch.verb = "delete"
  <2>1. Applied(regs, ch) = Others(regs, ch.source)
    BY <1>3 DEF Applied
  <2>2. /\ Others(regs, ch.source) \in Seq(Registration)
        /\ ToSet(Others(regs, ch.source)) = {r \in ToSet(regs) : r.source # ch.source}
    BY OthersFacts
  <2> QED BY <1>3, <2>1, <2>2 DEF Resets, PendingIn
<1> HIDE DEF noted
<1>4. CASE ch.verb = "add"
  <2> DEFINE reg == [source |-> ch.source, disabled |-> ch.off, clear |-> ch.clear, triggered |-> ch.trigger]
             rest == Others(noted, ch.source)
  <2>1. Applied(regs, ch) = Append(rest, reg)
    BY <1>4 DEF Applied, Added, noted
  <2>2. rest \in Seq(Registration) /\ ToSet(rest) = {r \in ToSet(noted) : r.source # ch.source}
    BY <1>2, OthersFacts
  <2>3. reg \in Registration
    BY <1>1 DEF Registration
  <2> HIDE DEF rest, reg
  <2>4. Append(rest, reg) \in Seq(Registration) /\ ToSet(Append(rest, reg)) = ToSet(rest) \cup {reg}
    BY <2>2, <2>3, SetOfSeq
  <2> QED BY <1>2, <1>4, <2>1, <2>2, <2>4 DEF Resets, PendingIn
<1>5. CASE ch.verb \in {"enable", "disable"}
  <2> DEFINE New(r) == IF r.source # ch.source THEN r
                       ELSE IF ch.verb = "enable" THEN [r EXCEPT !.disabled = ch.off, !.clear = @ \/ ch.clear]
                       ELSE [r EXCEPT !.disabled = TRUE]
             from == noted
             news == Applied(regs, ch)
  <2>1. news = [i \in DOMAIN from |-> New(from[i])]
    <3>1. CASE ch.verb = "enable"
      BY <3>1 DEF Applied, Changed, noted
    <3>2. CASE ch.verb = "disable"
      BY <3>2 DEF Applied, Disabled, Changed, noted
    <3> QED BY <1>5, <3>1, <3>2
  <2>2. \A r \in Registration : New(r) \in Registration /\ New(r).source = r.source
                               /\ (r.triggered => New(r).triggered)
    BY <1>1 DEF Registration
  <2>3. from \in Seq(Registration) /\ \A src : PendingIn(regs, src) => PendingIn(from, src)
    BY <1>2
  <2>4. \A i \in DOMAIN from : from[i] \in Registration
    BY <2>3, LenProperties, ElementOfSeq
  <2> HIDE DEF New, from, news
  <2>5. /\ news = [i \in DOMAIN from |-> news[i]]
        /\ \A i \in DOMAIN from : /\ news[i] \in Registration /\ news[i].source = from[i].source
                                  /\ (from[i].triggered => news[i].triggered)
    BY <2>1, <2>2, <2>4
  <2>6. news \in Seq(Registration) /\ \A src : PendingIn(from, src) => PendingIn(news, src)
    BY <2>3, <2>5, ChangedKeeps
  <2> QED BY <2>3, <2>6 DEF news
<1>6. CASE ch.verb = "none"
  <2>1. Applied(regs, ch) = noted
    BY <1>6 DEF Applied, noted
  <2> QED BY <1>2, <2>1
<1> QED BY <1>1, <1>3, <1>4, <1>5, <1>6

AppliesTo(regs, changes, f) ==
  f = [n \in 0..Len(changes) |-> IF n = 0 THEN regs ELSE Applied(f[n - 1], changes[n])]

\* A list of changes that neither adds nor deletes a source leaves it triggered.
LEMMA AllApplied ==
  ASSUME NEW regs \in Seq(Registration), NEW changes \in Seq(Changes)
  PROVE  /\ AppliedAll(regs, changes) \in Seq(Registration)
         /\ \A src : NotReset(changes, Len(changes), src) /\ PendingIn(regs, src)
                       => PendingIn(AppliedAll(regs, changes), src)
<1> DEFINE St == Seq(Registration)
           k == Len(changes)
           F == [i \in 1..k |-> [t \in St |-> Applied(t, changes[i])]]
           g == CHOOSE f : AppliesTo(regs, changes, f)
<1>1. k \in Nat /\ \A i \in 1..k : changes[i] \in Changes
  BY LenProperties, ElementOfSeq
<1>2. \A i \in 1..k : \A t \in St : Applied(t, changes[i]) \in St
  BY <1>1, AppliedKeeps
<1>3. F \in [1..k -> [St -> St]]
  <2> HIDE DEF St
  <2> QED BY <1>2
<1>4. PICK f : Stepped(regs, F, k, f) /\ \A i \in 0..k : f[i] \in St
  <2>1. regs \in St
    OBVIOUS
  <2> HIDE DEF F, k, St
  <2> QED BY <1>1, <1>3, <2>1, StepsExist
<1>5. AppliesTo(regs, changes, f)
  <2> HIDE DEF St
  <2>1. ASSUME NEW i \in 0..k, i # 0 PROVE F[i][f[i - 1]] = Applied(f[i - 1], changes[i])
    <3>1. i \in 1..k /\ i - 1 \in 0..k
      BY <1>1, <2>1
    <3> QED BY <1>4, <3>1
  <2> HIDE DEF F
  <2>2. f = [i \in 0..k |-> IF i = 0 THEN regs ELSE Applied(f[i - 1], changes[i])]
    BY <1>4, <2>1 DEF Stepped
  <2> QED BY <2>2 DEF AppliesTo
<1>6. AppliesTo(regs, changes, g)
  BY <1>5
<1>7. AppliedAll(regs, changes) = g[k]
  BY DEF AppliedAll, AppliesTo
<1> HIDE DEF g
<1>8. g[0] = regs /\ \A i \in 1..k : g[i] = Applied(g[i - 1], changes[i])
  BY <1>1, <1>6 DEF AppliesTo
<1> DEFINE Good == [i \in 0..k |->
       {t \in Seq(Registration) :
          \A src : NotReset(changes, i, src) /\ PendingIn(regs, src) => PendingIn(t, src)}]
<1>9. \A i \in 0..k : g[i] \in Good[i]
  <2>1. g[0] \in Good[0]
    BY <1>1, <1>8
  <2>2. ASSUME NEW i \in 1..k, g[i - 1] \in Good[i - 1] PROVE g[i] \in Good[i]
    <3>1. i - 1 \in 0..k /\ i \in 0..k /\ 1..(i - 1) \subseteq 1..i /\ i \in 1..i
      BY <1>1
    <3>2. /\ g[i - 1] \in Seq(Registration)
          /\ \A src : NotReset(changes, i - 1, src) /\ PendingIn(regs, src) => PendingIn(g[i - 1], src)
      BY <2>2, <3>1
    <3>3. /\ g[i] \in Seq(Registration)
          /\ \A src : ~Resets(changes[i], src) /\ PendingIn(g[i - 1], src) => PendingIn(g[i], src)
      BY <1>1, <1>8, <3>2, AppliedKeeps
    <3>4. \A src : NotReset(changes, i, src) => NotReset(changes, i - 1, src) /\ ~Resets(changes[i], src)
      BY <3>1 DEF NotReset
    <3> QED BY <3>1, <3>2, <3>3, <3>4
  <2> HIDE DEF Good, k
  <2> QED BY <1>1, <2>1, <2>2, EachStep
<1>10. k \in 0..k
  BY <1>1
<1> QED BY <1>7, <1>9, <1>10

\* The registrations of each kqueue.
RegistrationsOK == kqueues \in Seq(Seq(Registration))

LEMMA KeventSound ==
  ASSUME RegistrationsOK, NEW p, NEW q \in DOMAIN kqueues, NEW changes \in Seq(Changes), NEW room,
         Kevent(p, q, changes, room)
  PROVE  RegistrationsOK' /\ TriggersKept
<1> DEFINE regs == AppliedAll(kqueues[q], changes)
           receipts == SelectSeq(changes, LAMBDA ch : ch.receipt)
           ready == SelectSeq(regs, LAMBDA r : IsReady(p, r))
           emitted == {r.source : r \in ToSet(First(ready, room))}
           acked == {ch.source : ch \in ToSet(First(receipts, room))}
           reset == {ch.source : ch \in {c \in ToSet(changes) : c.verb \in {"add", "delete"}}}
           news == IF receipts = <<>> THEN Cleared(regs, emitted) ELSE regs
<1>1. /\ kqueues' = [kqueues EXCEPT ![q] = news]
      /\ last' = [queue |-> q, reset |-> reset, receipts |-> receipts # <<>>,
                  events |-> IF receipts = <<>> THEN emitted ELSE acked]
  BY DEF Kevent
<1> HIDE DEF receipts, ready, emitted, acked
<1>2. kqueues \in Seq(Seq(Registration)) /\ DOMAIN kqueues = 1..Len(kqueues) /\ kqueues[q] \in Seq(Registration)
  BY LenProperties, ElementOfSeq DEF RegistrationsOK
<1>3. /\ regs \in Seq(Registration)
      /\ \A src : NotReset(changes, Len(changes), src) /\ PendingIn(kqueues[q], src) => PendingIn(regs, src)
  BY <1>2, AllApplied
<1> HIDE DEF regs
<1>4. /\ news \in Seq(Registration)
      /\ \A src : PendingIn(regs, src) /\ ~PendingIn(news, src) => receipts = <<>> /\ src \in emitted
  <2>1. CASE receipts # <<>>
    BY <1>3, <2>1
  <2>2. CASE receipts = <<>>
    <3> DEFINE New(r) == IF r.source \in emitted /\ r.clear THEN [r EXCEPT !.triggered = FALSE] ELSE r
    <3>1. news = [i \in DOMAIN regs |-> New(regs[i])]
      BY <2>2 DEF Cleared
    <3>2. \A r \in Registration : /\ New(r) \in Registration /\ New(r).source = r.source
                                 /\ (r.triggered /\ r.source \notin emitted => New(r).triggered)
      BY DEF Registration
    <3>3. \A i \in DOMAIN regs : regs[i] \in Registration
      BY <1>3, LenProperties, ElementOfSeq
    <3> HIDE DEF New, news
    <3>4. /\ news = [i \in DOMAIN regs |-> news[i]]
          /\ \A i \in DOMAIN regs :
               /\ news[i] \in Registration /\ news[i].source = regs[i].source
               /\ (regs[i].triggered /\ regs[i].source \notin emitted => news[i].triggered)
      BY <3>1, <3>2, <3>3
    <3>5. ASSUME NEW src, src \notin emitted
          PROVE  news \in Seq(Registration) /\ (PendingIn(regs, src) => PendingIn(news, src))
      BY <1>3, <3>4, <3>5, ChangedKeeps
    <3>6. news \in Seq(Registration)
      <4>1. news \in [1..Len(regs) -> Registration] /\ Len(regs) \in Nat
        BY <1>3, <3>4, LenProperties
      <4> QED BY <4>1
    <3> QED BY <2>2, <3>5, <3>6
  <2> QED BY <2>1, <2>2
<1> HIDE DEF news
<1>5. RegistrationsOK'
  BY <1>1, <1>2, <1>4, ExceptSeq DEF RegistrationsOK
<1>6. ASSUME NEW j \in DOMAIN kqueues, NEW src \in Sources, Pending(j, src), ~Pending(j, src)'
      PROVE  last'.queue = j /\ (src \in last'.reset \/ (src \in last'.events /\ ~last'.receipts))
  <2>1. PendingIn(kqueues[j], src) /\ ~PendingIn(kqueues'[j], src)
    BY <1>6 DEF Pending, PendingIn
  <2>2. j = q /\ PendingIn(kqueues[q], src) /\ ~PendingIn(news, src)
    BY <1>1, <2>1
  <2>3. CASE NotReset(changes, Len(changes), src)
    <3>1. receipts = <<>> /\ src \in emitted
      BY <1>3, <1>4, <2>2, <2>3
    <3> QED BY <1>1, <2>2, <3>1
  <2>4. CASE ~NotReset(changes, Len(changes), src)
    <3>1. PICK i \in 1..Len(changes) : changes[i].source = src /\ changes[i].verb \in {"add", "delete"}
      BY <2>4 DEF NotReset, Resets
    <3>2. ToSet(changes) = {changes[m] : m \in 1..Len(changes)}
      BY SetOfSeq
    <3>3. src \in reset
      BY <3>1, <3>2
    <3> QED BY <1>1, <2>2, <3>3
  <2> QED BY <2>3, <2>4
<1> QED BY <1>5, <1>6 DEF TriggersKept

LEMMA KqueuesStep == ASSUME RegistrationsOK, [KNext]_kvars PROVE RegistrationsOK' /\ TriggersKept
<1>1. CASE UNCHANGED kqueues
  <2>1. \A q, src : Pending(q, src)' <=> Pending(q, src)
    BY <1>1 DEF Pending
  <2> QED BY <1>1, <2>1 DEF RegistrationsOK, TriggersKept
<1>2. ASSUME NEW regs \in Seq(Registration), kqueues' = Append(kqueues, regs)
      PROVE  RegistrationsOK' /\ TriggersKept
  <2>1. /\ kqueues' \in Seq(Seq(Registration)) /\ DOMAIN kqueues = 1..Len(kqueues)
        /\ \A q \in 1..Len(kqueues) : kqueues'[q] = kqueues[q]
    BY <1>2, AppendProperties, LenProperties DEF RegistrationsOK
  <2>2. \A q \in DOMAIN kqueues, src \in Sources : Pending(q, src) => Pending(q, src)'
    BY <2>1 DEF Pending
  <2> QED BY <2>1, <2>2 DEF RegistrationsOK, TriggersKept
<1>3. CASE Kqueue
  <2>1. <<>> \in Seq(Registration)
    BY EmptySeq
  <2> QED BY <1>2, <1>3, <2>1 DEF Kqueue
<1>4. CASE \E q \in DOMAIN kqueues : DupKqueue(q)
  <2>1. \A q \in DOMAIN kqueues : kqueues[q] \in Seq(Registration)
    BY LenProperties, ElementOfSeq DEF RegistrationsOK
  <2> QED BY <1>2, <1>4, <2>1 DEF DupKqueue
<1>5. CASE \E q \in DOMAIN kqueues, changes \in Changelists, room \in Rooms : Kevent(onCpu, q, changes, room)
  <2>1. \A changes \in Changelists : changes \in Seq(Changes)
    BY KqueueAssumption DEF Changelists
  <2> QED BY <1>5, <2>1, KeventSound
<1> QED BY <1>1, <1>3, <1>4, <1>5 DEF KNext, kvars

\* No wake-up of an event loop is lost.
THEOREM TriggersNeverLost == KSpec => NoTriggerLost
<1>1. KInit => RegistrationsOK
  BY EmptySeq DEF KInit, RegistrationsOK
<1>2. RegistrationsOK /\ [KNext]_kvars => RegistrationsOK' /\ [TriggersKept]_kvars
  BY KqueuesStep
<1> QED BY <1>1, <1>2, PTL DEF KSpec, NoTriggerLost

-------------------------------------------------------------------------------
(***************************************************************************)
(* GuestDirectories.                                                       *)
(***************************************************************************)
MapsTo(S) == UNION {[D -> S] : D \in SUBSET Nat}
SortedLists == {s \in Seq(Nat) : \A i, j \in DOMAIN s : i < j => s[i] < s[j]}
GuestFile == [route : Routes, kind : {"bytes", "random"}, size : Nat]
GuestDir == [route : Routes, listing : SortedLists]
PathTarget == {NoTarget} \cup [kind : {"file", "dir"}, id : Nat]
FileTables ==
  [nextNumber : Nat, bound : [Descriptors -> PathTarget], nextFile : Nat, nextDir : Nat,
   files : MapsTo(GuestFile), dirs : MapsTo(GuestDir), fileAt : MapsTo(Nat), dirAt : MapsTo(Nat),
   nextStream : Nat, streams : MapsTo(Descriptors)]

\* A number, a file or a directory that was not given out yet is nobody's.
NumberedOK(t) ==
  /\ t.nextNumber >= FirstNumber
  /\ \A n \in Descriptors : n >= t.nextNumber => t.bound[n] = NoTarget
  /\ \A id \in DOMAIN t.files : id < t.nextFile
  /\ \A id \in DOMAIN t.dirs : id < t.nextDir

\* NothingLeftOver of a table that need not be the one between two calls.
IdsOf(t, kind) == {t.bound[n].id : n \in OpenOn(t, kind)}
NoneLeft(t) ==
  /\ DOMAIN t.files = IdsOf(t, "file") /\ DOMAIN t.dirs = IdsOf(t, "dir")
  /\ \A n \in DOMAIN t.dirAt :
       n \in OpenOn(t, "dir") /\ t.dirAt[n] <= Len(t.dirs[t.bound[n].id].listing)
  /\ \A n \in DOMAIN t.fileAt :
       /\ n \in OpenOn(t, "file")
       /\ LET file == t.files[t.bound[n].id]
          IN file.kind = "random" \/ t.fileAt[n] <= file.size
TableSound(t) == t \in FileTables /\ NumberedOK(t) /\ NoneLeft(t)

\* What was given of each directory is what lies between where it began and its place.
GivenOK(t, h) ==
  /\ h \in [Descriptors -> [from : Nat, names : Seq(Nat)]]
  /\ \A n \in OpenOn(t, "dir") :
       /\ h[n].from <= At(t.dirAt, n)
       /\ h[n].names = SubSeq(t.dirs[t.bound[n].id].listing, h[n].from + 1, At(t.dirAt, n))

\* What the last call said of the end, and of a failure, is still so.
ToldOK(t, o) ==
  /\ \A n \in OpenOn(t, "dir") :
       o.call = "readdir" /\ o.number = n /\ o.end =>
         At(t.dirAt, n) = Len(t.dirs[t.bound[n].id].listing)
  /\ o.call \in {"open", "opendir"} /\ o.errno # 0 /\ o.number # 0 =>
       t.bound[o.number] = NoTarget

DirectoriesInv ==
  /\ regime \in Regimes /\ hostTree \in Trees
  /\ TableSound(fileTable) /\ GivenOK(fileTable, heard) /\ ToldOK(fileTable, outcome)

-------------------------------------------------------------------------------
\* Maps with a key more, or some less.
LEMMA PutMaps ==
  ASSUME NEW S, NEW f \in MapsTo(S), NEW k \in Nat, NEW v \in S
  PROVE  Putting(f, k, v) \in MapsTo(S)
<1>1. DOMAIN f \subseteq Nat /\ \A x \in DOMAIN f : f[x] \in S
  BY DEF MapsTo
<1>2. Putting(f, k, v) \in [DOMAIN f \cup {k} -> S]
  BY <1>1 DEF Putting
<1>3. DOMAIN f \cup {k} \in SUBSET Nat
  BY <1>1
<1> QED BY <1>2, <1>3 DEF MapsTo
LEMMA DropMaps ==
  ASSUME NEW S, NEW f \in MapsTo(S), NEW gone
  PROVE  Dropping(f, gone) \in MapsTo(S)
<1>1. DOMAIN f \subseteq Nat /\ \A x \in DOMAIN f : f[x] \in S
  BY DEF MapsTo
<1>2. Dropping(f, gone) \in [DOMAIN f \ gone -> S] /\ DOMAIN f \ gone \in SUBSET Nat
  BY <1>1 DEF Dropping
<1> QED BY <1>2 DEF MapsTo

LEMMA MapHas == ASSUME NEW S, NEW f \in MapsTo(S) PROVE DOMAIN f \subseteq Nat /\ \A x \in DOMAIN f : f[x] \in S
BY DEF MapsTo

LEMMA NumbersAreNat == Descriptors \subseteq Nat /\ FirstNumber..LastNumber \subseteq Descriptors
<1>1. FirstNumber \in Nat /\ LastNumber \in Nat /\ LowNumbers \subseteq 0..(FirstNumber - 1)
  BY DirectoryAssumption
<1>2. LowNumbers \subseteq Nat /\ FirstNumber..LastNumber \subseteq Nat
  BY <1>1
<1> QED BY <1>2 DEF Descriptors

\* The members of a finite set of numbers in their order.
LEMMA ListingSorts ==
  ASSUME NEW names, names \subseteq Nat, IsFiniteSet(names)
  PROVE  Listing(names) \in SortedLists
<1> DEFINE all == {1, 2} \cup names
           Before(x) == {y \in all : y < x}
           n == Cardinality(all)
           r == [x \in all |-> Cardinality(Before(x))]
<1>1. IsFiniteSet(all) /\ n \in Nat /\ all \subseteq Nat
  <2>1. IsFiniteSet({1}) /\ {1, 2} = {1} \cup {2}
    BY FS_Singleton
  <2>2. IsFiniteSet({1, 2})
    BY <2>1, FS_AddElement
  <2>3. IsFiniteSet(all)
    BY <2>2, FS_Union
  <2>4. n \in Nat
    BY <2>3, FS_CardinalityType
  <2> QED BY <2>3, <2>4
<1> HIDE DEF all
<1>2. \A x \in all : IsFiniteSet(Before(x)) /\ Cardinality(Before(x)) \in Nat
  BY <1>1, FS_Subset, FS_CardinalityType
<1>3. ASSUME NEW x \in all, NEW z \in all, x < z PROVE r[x] < r[z]
  <2> x \in Nat /\ z \in Nat
    BY <1>1
  <2>0. \A y \in all : y < x => y < z
    BY <1>1, <1>3
  <2>1. Before(x) \subseteq Before(z) /\ x \in Before(z) /\ x \notin Before(x)
    <3>1. ~(x < x)
      OBVIOUS
    <3> QED BY <1>3, <2>0, <3>1
  <2>2. /\ Cardinality(Before(x)) <= Cardinality(Before(z))
        /\ Cardinality(Before(z)) = Cardinality(Before(x)) => Before(z) = Before(x)
    BY <1>2, <2>1, FS_Subset
  <2> QED BY <1>2, <2>1, <2>2
<1>4. \A x \in all : r[x] \in 0..(n - 1)
  <2> TAKE x \in all
  <2>1. Before(x) \subseteq all /\ x \notin Before(x)
    BY <1>1
  <2>2. Cardinality(Before(x)) <= n /\ (n = Cardinality(Before(x)) => all = Before(x))
    BY <1>1, <2>1, FS_Subset
  <2> QED BY <1>1, <1>2, <2>1, <2>2
<1>5. r \in Injection(all, 0..(n - 1))
  <2>1. r \in [all -> 0..(n - 1)]
    BY <1>4
  <2>2. ASSUME NEW x \in all, NEW z \in all, r[x] = r[z] PROVE x = z
    <3>1. ~(x < z) /\ ~(z < x)
      BY <1>2, <1>3, <2>2
    <3> QED BY <1>1, <3>1
  <2> QED BY <2>1, <2>2 DEF Injection, IsInjective
<1>6. IsFiniteSet(0..(n - 1)) /\ Cardinality(0..(n - 1)) = n
  BY <1>1, FS_Interval
<1>7. r \in Surjection(all, 0..(n - 1))
  BY <1>5, <1>6, FS_Injection
<1>8. \A k \in 0..(n - 1) : \E x \in all : r[x] = k
  BY <1>7 DEF Surjection
<1> DEFINE V(i) == CHOOSE x \in all : Cardinality(Before(x)) = i - 1
           s == [i \in 1..n |-> V(i)]
<1>9. ASSUME NEW i \in 1..n PROVE V(i) \in all /\ r[V(i)] = i - 1
  <2>1. i - 1 \in 0..(n - 1)
    BY <1>1
  <2>2. \E x \in all : Cardinality(Before(x)) = i - 1
    BY <1>8, <2>1
  <2> QED BY <2>2
<1>10. Listing(names) = s
  BY DEF Listing, all
<1> HIDE DEF r, V
<1>13. s = [i \in 1..n |-> s[i]] /\ \A i \in 1..n : s[i] \in all /\ r[s[i]] = i - 1
  BY <1>9
<1> HIDE DEF s
<1>11. DOMAIN s = 1..n /\ s \in Seq(Nat)
  <2>1. \A i \in 1..n : s[i] \in Nat
    BY <1>1, <1>13
  <2>2. s \in [1..n -> Nat]
    BY <1>13, <2>1
  <2> QED BY <1>1, <2>2
<1>12. ASSUME NEW i \in 1..n, NEW j \in 1..n, i < j PROVE s[i] < s[j]
  <2>1. s[i] \in all /\ s[j] \in all /\ r[s[i]] = i - 1 /\ r[s[j]] = j - 1
    BY <1>13
  <2>2. i - 1 < j - 1 /\ ~(j - 1 < i - 1) /\ i - 1 # j - 1
    BY <1>12
  <2>3. s[i] # s[j]
    BY <2>1, <2>2
  <2>4. ~(s[j] < s[i])
    BY <1>3, <2>1, <2>2
  <2>5. s[i] \in Nat /\ s[j] \in Nat
    BY <1>1, <2>1
  <2> QED BY <2>3, <2>4, <2>5
<1> QED BY <1>10, <1>11, <1>12 DEF SortedLists

-------------------------------------------------------------------------------
\* Which descriptors are open on what, after one of them is.
LEMMA Rebound ==
  ASSUME NEW t \in FileTables, NEW u, NEW n \in Descriptors, NEW goal \in PathTarget,
         u.bound = [t.bound EXCEPT ![n] = goal], NEW kind \in {"file", "dir"}
  PROVE  /\ \A m \in Descriptors : u.bound[m] = IF m = n THEN goal ELSE t.bound[m]
         /\ goal.kind = kind => OpenOn(u, kind) = OpenOn(t, kind) \cup {n}
         /\ goal.kind # kind => OpenOn(u, kind) = OpenOn(t, kind) \ {n}
         /\ t.bound[n] = NoTarget =>
              /\ goal.kind = kind => IdsOf(u, kind) = IdsOf(t, kind) \cup {goal.id}
              /\ goal.kind # kind => IdsOf(u, kind) = IdsOf(t, kind)
<1>1. t.bound \in [Descriptors -> PathTarget]
  BY DEF FileTables
<1>2. \A m \in Descriptors : u.bound[m] = IF m = n THEN goal ELSE t.bound[m]
  BY <1>1
<1>3. OpenOn(u, kind) = IF goal.kind = kind THEN OpenOn(t, kind) \cup {n} ELSE OpenOn(t, kind) \ {n}
  BY <1>2 DEF OpenOn
<1>4. ASSUME t.bound[n] = NoTarget
      PROVE  IdsOf(u, kind) = IF goal.kind = kind THEN IdsOf(t, kind) \cup {goal.id}
                              ELSE IdsOf(t, kind)
  <2>1. n \notin OpenOn(t, kind)
    BY <1>4 DEF OpenOn, NoTarget
  <2>2. \A m \in OpenOn(t, kind) : u.bound[m] = t.bound[m]
    BY <1>2, <2>1 DEF OpenOn
  <2>3. CASE goal.kind = kind
    <3>1. OpenOn(u, kind) = OpenOn(t, kind) \cup {n} /\ u.bound[n] = goal
      BY <1>2, <1>3, <2>3
    <3> QED BY <2>2, <2>3, <3>1 DEF IdsOf
  <2>4. CASE goal.kind # kind
    <3>1. OpenOn(u, kind) = OpenOn(t, kind)
      BY <1>3, <2>1, <2>4
    <3> QED BY <2>2, <2>4, <3>1 DEF IdsOf
  <2> QED BY <2>3, <2>4
<1> QED BY <1>2, <1>3, <1>4

\* What a descriptor names is there.
LEMMA Named ==
  ASSUME NEW t, TableSound(t), NEW n \in Descriptors
  PROVE  /\ t.bound[n] \in PathTarget
         /\ n \in OpenOn(t, "file") <=> t.bound[n].kind = "file"
         /\ n \in OpenOn(t, "dir") <=> t.bound[n].kind = "dir"
         /\ n \in OpenOn(t, "file") => /\ t.bound[n].id \in DOMAIN t.files
                                       /\ t.files[t.bound[n].id] \in GuestFile
         /\ n \in OpenOn(t, "dir") => /\ t.bound[n].id \in DOMAIN t.dirs
                                      /\ t.dirs[t.bound[n].id] \in GuestDir
<1>1. /\ t.bound \in [Descriptors -> PathTarget]
      /\ t.files \in MapsTo(GuestFile) /\ t.dirs \in MapsTo(GuestDir)
  BY DEF TableSound, FileTables
<1>2. DOMAIN t.files = IdsOf(t, "file") /\ DOMAIN t.dirs = IdsOf(t, "dir")
  BY DEF TableSound, NoneLeft
<1>3. \A x \in DOMAIN t.files : t.files[x] \in GuestFile
  BY <1>1, MapHas
<1>4. \A x \in DOMAIN t.dirs : t.dirs[x] \in GuestDir
  BY <1>1, MapHas
<1>5. n \in OpenOn(t, "file") => t.bound[n].id \in DOMAIN t.files
  BY <1>2 DEF IdsOf
<1>6. n \in OpenOn(t, "dir") => t.bound[n].id \in DOMAIN t.dirs
  BY <1>2 DEF IdsOf
<1> QED BY <1>1, <1>3, <1>4, <1>5, <1>6 DEF OpenOn

\* GivenOK, but for one descriptor.
GivenBut(t, h, n) ==
  /\ h \in [Descriptors -> [from : Nat, names : Seq(Nat)]]
  /\ \A m \in OpenOn(t, "dir") \ {n} :
       /\ h[m].from <= At(t.dirAt, m)
       /\ h[m].names = SubSeq(t.dirs[t.bound[m].id].listing, h[m].from + 1, At(t.dirAt, m))

\* Places lie in their directories.
LEMMA PlaceInside ==
  ASSUME NEW t, TableSound(t), NEW n \in OpenOn(t, "dir")
  PROVE  LET l == t.dirs[t.bound[n].id].listing
         IN l \in SortedLists /\ l \in Seq(Nat) /\ Len(l) \in Nat /\ At(t.dirAt, n) \in 0..Len(l)
<1> DEFINE l == t.dirs[t.bound[n].id].listing
<1>1. n \in Descriptors
  BY DEF OpenOn
<1>2. l \in SortedLists
  BY <1>1, Named DEF GuestDir
<1>3. l \in Seq(Nat) /\ Len(l) \in Nat
  BY <1>2, LenProperties DEF SortedLists
<1>4. t.dirAt \in MapsTo(Nat) /\ (n \in DOMAIN t.dirAt => t.dirAt[n] <= Len(l))
  BY DEF TableSound, FileTables, NoneLeft
<1>5. n \in DOMAIN t.dirAt => t.dirAt[n] \in Nat
  BY <1>4, MapHas
<1>6. At(t.dirAt, n) \in 0..Len(l)
  BY <1>3, <1>4, <1>5 DEF At
<1> QED BY <1>2, <1>3, <1>6

\* A descriptor that begins at its place has given nothing.
LEMMA Started ==
  ASSUME NEW t, NEW h, NEW n \in Descriptors, TableSound(t), GivenBut(t, h, n),
         NEW k \in Nat, n \in OpenOn(t, "dir") => At(t.dirAt, n) = k
  PROVE  GivenOK(t, [h EXCEPT ![n] = StartingAt(k)])
<1> DEFINE g == [h EXCEPT ![n] = StartingAt(k)]
<1>1. h \in [Descriptors -> [from : Nat, names : Seq(Nat)]]
  BY DEF GivenBut
<1>2. StartingAt(k) \in [from : Nat, names : Seq(Nat)] /\ StartingAt(k).from = k /\ StartingAt(k).names = <<>>
  BY EmptySeq DEF StartingAt
<1>3. g \in [Descriptors -> [from : Nat, names : Seq(Nat)]] /\ g[n] = StartingAt(k)
      /\ \A m \in Descriptors : m # n => g[m] = h[m]
  BY <1>1, <1>2
<1> HIDE DEF g
<1>4. ASSUME NEW m \in OpenOn(t, "dir")
      PROVE  /\ g[m].from <= At(t.dirAt, m)
             /\ g[m].names = SubSeq(t.dirs[t.bound[m].id].listing, g[m].from + 1, At(t.dirAt, m))
  <2>1. m \in Descriptors
    BY DEF OpenOn
  <2>2. CASE m # n
    BY <1>3, <2>1, <2>2 DEF GivenBut
  <2>3. CASE m = n
    <3> DEFINE l == t.dirs[t.bound[m].id].listing
    <3>1. l \in Seq(Nat) /\ Len(l) \in Nat /\ k \in 0..Len(l) /\ At(t.dirAt, m) = k
      BY <2>3, PlaceInside
    <3> HIDE DEF l
    <3>2. k + 1 \in 1..(Len(l) + 1) /\ k \in ((k + 1) - 1)..Len(l)
      BY <3>1
    <3>3. SubSeq(l, k + 1, k) \in Seq(Nat) /\ Len(SubSeq(l, k + 1, k)) = 0
      BY <3>1, <3>2, SubSeqProperties
    <3>4. SubSeq(l, k + 1, k) = <<>>
      BY <3>3, EmptySeq
    <3> QED BY <1>2, <1>3, <2>3, <3>1, <3>4 DEF l
  <2> QED BY <2>2, <2>3
<1> QED BY <1>3, <1>4 DEF GivenOK, g

LEMMA GivenAll == ASSUME NEW t, NEW h, NEW n, GivenOK(t, h) PROVE GivenBut(t, h, n)
BY DEF GivenOK, GivenBut

-------------------------------------------------------------------------------
(***************************************************************************)
(* Opening and closing.                                                    *)
(***************************************************************************)

LEMMA TableFields ==
  ASSUME NEW t, TableSound(t)
  PROVE  /\ t.nextNumber \in Nat /\ t.nextFile \in Nat /\ t.nextDir \in Nat /\ t.nextStream \in Nat
         /\ t.bound \in [Descriptors -> PathTarget]
         /\ t.files \in MapsTo(GuestFile) /\ t.dirs \in MapsTo(GuestDir)
         /\ t.fileAt \in MapsTo(Nat) /\ t.dirAt \in MapsTo(Nat)
         /\ t.streams \in MapsTo(Descriptors)
BY DEF TableSound, FileTables

\* A number that was given out and names nothing; what names a new file or directory.
Vacant(t, n) == t.bound[n] = NoTarget /\ n < t.nextNumber
Names(u, n, kind, id) == u.bound[n] = [kind |-> kind, id |-> id]
FileIs(u, id, route, kind, size) == u.files[id] = [route |-> route, kind |-> kind, size |-> size]

\* A new file under a number that names nothing.
LEMMA NewFileSound ==
  ASSUME NEW t, NEW h, TableSound(t), NEW n \in Descriptors, GivenBut(t, h, n),
         Vacant(t, n),
         NEW route \in Routes, NEW kind \in {"bytes", "random"}, NEW size \in Nat
  PROVE  LET u == NewFile(t, n, route, kind, size)
         IN /\ TableSound(u) /\ GivenBut(u, h, n)
            /\ Names(u, n, "file", t.nextFile)
            /\ FileIs(u, t.nextFile, route, kind, size)
<1> DEFINE u == NewFile(t, n, route, kind, size)
           goal == [kind |-> "file", id |-> t.nextFile]
           file == [route |-> route, kind |-> kind, size |-> size]
<1>1. goal \in PathTarget /\ goal.kind = "file" /\ goal.id = t.nextFile /\ file \in GuestFile
  BY TableFields DEF PathTarget, GuestFile
<1>2. /\ t \in FileTables /\ NumberedOK(t) /\ NoneLeft(t) /\ n \in Nat
      /\ t.bound[n] = NoTarget /\ n < t.nextNumber
  BY NumbersAreNat DEF TableSound, Vacant
<1>14. /\ t.nextFile \in Nat /\ t.files \in MapsTo(GuestFile) /\ t.fileAt \in MapsTo(Nat)
       /\ t.bound \in [Descriptors -> PathTarget]
  BY TableFields
<1> DEFINE f == Putting(t.files, t.nextFile, file)
           a == Putting(t.fileAt, n, 0)
<1>15. u = [t EXCEPT !.files = f, !.nextFile = t.nextFile + 1, !.fileAt = a, !.bound[n] = goal]
  BY DEF NewFile
<1> HIDE DEF u, goal, file
<1>5. /\ f \in MapsTo(GuestFile) /\ DOMAIN f = DOMAIN t.files \cup {t.nextFile}
      /\ f[t.nextFile] = file
      /\ \A x \in DOMAIN t.files : x # t.nextFile => f[x] = t.files[x]
  <2>1. f \in MapsTo(GuestFile)
    BY <1>1, <1>14, PutMaps
  <2>2. DOMAIN f = DOMAIN t.files \cup {t.nextFile} /\ f[t.nextFile] = file
    BY DEF Putting
  <2>3. \A x \in DOMAIN t.files : x # t.nextFile => f[x] = t.files[x]
    BY DEF Putting
  <2> QED BY <2>1, <2>2, <2>3
<1>6. /\ a \in MapsTo(Nat) /\ DOMAIN a = DOMAIN t.fileAt \cup {n} /\ a[n] = 0
      /\ \A x \in DOMAIN t.fileAt : x # n => a[x] = t.fileAt[x]
  <2>1. a \in MapsTo(Nat)
    BY <1>2, <1>14, PutMaps
  <2>2. DOMAIN a = DOMAIN t.fileAt \cup {n} /\ a[n] = 0
    BY DEF Putting
  <2>3. \A x \in DOMAIN t.fileAt : x # n => a[x] = t.fileAt[x]
    BY DEF Putting
  <2> QED BY <2>1, <2>2, <2>3
<1> HIDE DEF f, a
<1>9. u \in FileTables
  <2>1. t.nextFile + 1 \in Nat
    BY <1>14
  <2> QED BY <1>1, <1>2, <1>5, <1>6, <2>1, <1>15 DEF FileTables
<1>3. /\ u.bound = [t.bound EXCEPT ![n] = goal] /\ u.files = f
      /\ u.fileAt = a /\ u.nextFile = t.nextFile + 1
      /\ u.dirs = t.dirs /\ u.dirAt = t.dirAt /\ u.nextDir = t.nextDir
      /\ u.nextNumber = t.nextNumber /\ u.streams = t.streams /\ u.nextStream = t.nextStream
  BY <1>2, <1>15 DEF FileTables
<1>7. /\ \A m \in Descriptors : u.bound[m] = IF m = n THEN goal ELSE t.bound[m]
      /\ OpenOn(u, "file") = OpenOn(t, "file") \cup {n}
      /\ OpenOn(u, "dir") = OpenOn(t, "dir") \ {n}
      /\ IdsOf(u, "file") = IdsOf(t, "file") \cup {t.nextFile}
      /\ IdsOf(u, "dir") = IdsOf(t, "dir")
  <2>1. t \in FileTables /\ goal \in PathTarget /\ goal.kind = "file" /\ goal.id = t.nextFile
        /\ t.bound[n] = NoTarget
    BY <1>1, <1>2
  <2>2. u.bound = [t.bound EXCEPT ![n] = goal]
    BY <1>3
  <2>6. \A m \in Descriptors : u.bound[m] = IF m = n THEN goal ELSE t.bound[m]
    BY <1>14, <2>2
  <2>3. OpenOn(u, "file") = OpenOn(t, "file") \cup {n} /\ IdsOf(u, "file") = IdsOf(t, "file") \cup {goal.id}
    BY <2>1, <2>2, Rebound
  <2>5. goal.kind # "dir"
    BY <2>1
  <2>4. OpenOn(u, "dir") = OpenOn(t, "dir") \ {n} /\ IdsOf(u, "dir") = IdsOf(t, "dir")
    BY <2>1, <2>2, <2>5, Rebound
  <2> QED BY <2>1, <2>3, <2>4, <2>6
<1>8. n \notin OpenOn(t, "file") /\ n \notin OpenOn(t, "dir")
  BY <1>2 DEF OpenOn, NoTarget
<1>10. NumberedOK(u)
  <2>1. \A m \in Descriptors : m >= u.nextNumber => m # n
    BY <1>2, <1>3, TableFields
  <2>2. DOMAIN t.files \subseteq Nat /\ t.nextFile \in Nat
    BY TableFields, MapHas
  <2>3. \A id \in DOMAIN u.files : id < u.nextFile
    BY <1>2, <1>3, <1>5, <2>2 DEF NumberedOK
  <2> QED BY <1>2, <1>3, <1>7, <2>1, <2>3 DEF NumberedOK
<1>11. NoneLeft(u)
  <2>1. DOMAIN u.files = IdsOf(u, "file") /\ DOMAIN u.dirs = IdsOf(u, "dir")
    BY <1>2, <1>3, <1>5, <1>7 DEF NoneLeft
  <2>2. ASSUME NEW m \in DOMAIN u.dirAt
        PROVE  m \in OpenOn(u, "dir") /\ u.dirAt[m] <= Len(u.dirs[u.bound[m].id].listing)
    <3>1. m \in OpenOn(t, "dir") /\ m # n /\ m \in Descriptors
      BY <1>2, <1>3, <1>8, <2>2 DEF NoneLeft, OpenOn
    <3> QED BY <1>2, <1>3, <1>7, <2>2, <3>1 DEF NoneLeft
  <2>3. ASSUME NEW m \in DOMAIN u.fileAt
        PROVE  /\ m \in OpenOn(u, "file")
               /\ LET held == u.files[u.bound[m].id] IN held.kind = "random" \/ u.fileAt[m] <= held.size
    <3>1. CASE m = n
      <4>1. u.bound[n].id = t.nextFile /\ u.files[u.bound[n].id] = file /\ file.size = size
        BY <1>1, <1>3, <1>5, <1>7 DEF file
      <4> QED BY <1>3, <1>6, <1>7, <3>1, <4>1
    <3>2. CASE m # n
      <4>1. m \in DOMAIN t.fileAt /\ u.fileAt[m] = t.fileAt[m]
        BY <1>3, <1>6, <2>3, <3>2
      <4>2. /\ m \in OpenOn(t, "file") /\ m \in Descriptors
            /\ LET held == t.files[t.bound[m].id] IN held.kind = "random" \/ t.fileAt[m] <= held.size
        BY <1>2, <4>1 DEF NoneLeft, OpenOn
      <4>3. t.bound[m].id \in DOMAIN t.files /\ t.bound[m].id # t.nextFile
        <5>1. t.bound[m].id \in DOMAIN t.files /\ t.nextFile \in Nat
          BY <4>2, Named, TableFields
        <5> QED BY <1>2, <5>1 DEF NumberedOK
      <4> QED BY <1>3, <1>5, <1>7, <3>2, <4>1, <4>2, <4>3
    <3> QED BY <3>1, <3>2
  <2> QED BY <2>1, <2>2, <2>3 DEF NoneLeft
<1>12. GivenBut(u, h, n)
  <2>1. \A m \in OpenOn(u, "dir") \ {n} : m \in OpenOn(t, "dir") \ {n} /\ u.bound[m] = t.bound[m]
    BY <1>7 DEF OpenOn
  <2> QED BY <1>3, <2>1 DEF GivenBut
<1>13. u.bound[n] = goal /\ u.files[t.nextFile] = file
  BY <1>3, <1>5, <1>7
<1> QED BY <1>9, <1>10, <1>11, <1>12, <1>13 DEF TableSound, Names, FileIs, u, goal, file

\* A new directory under a number that names nothing.
LEMMA NewDirSound ==
  ASSUME NEW t, NEW h, TableSound(t), NEW n \in Descriptors, GivenBut(t, h, n),
         Vacant(t, n),
         NEW route \in Routes, NEW listing \in SortedLists
  PROVE  LET u == NewDir(t, n, route, listing)
         IN /\ TableSound(u) /\ GivenBut(u, h, n)
            /\ Names(u, n, "dir", t.nextDir) /\ At(u.dirAt, n) = 0
<1> DEFINE u == NewDir(t, n, route, listing)
           goal == [kind |-> "dir", id |-> t.nextDir]
           dir == [route |-> route, listing |-> listing]
<1>1. goal \in PathTarget /\ goal.kind = "dir" /\ goal.id = t.nextDir /\ dir \in GuestDir
  BY TableFields DEF PathTarget, GuestDir
<1>2. /\ t \in FileTables /\ NumberedOK(t) /\ NoneLeft(t) /\ n \in Nat
      /\ t.bound[n] = NoTarget /\ n < t.nextNumber
  BY NumbersAreNat DEF TableSound, Vacant
<1>14. /\ t.nextDir \in Nat /\ t.dirs \in MapsTo(GuestDir) /\ t.dirAt \in MapsTo(Nat)
       /\ t.bound \in [Descriptors -> PathTarget]
  BY TableFields
<1> DEFINE f == Putting(t.dirs, t.nextDir, dir)
           a == Putting(t.dirAt, n, 0)
<1>15. u = [t EXCEPT !.dirs = f, !.nextDir = t.nextDir + 1, !.dirAt = a, !.bound[n] = goal]
  BY DEF NewDir
<1> HIDE DEF u, goal, dir
<1>5. /\ f \in MapsTo(GuestDir) /\ DOMAIN f = DOMAIN t.dirs \cup {t.nextDir}
      /\ f[t.nextDir] = dir
      /\ \A x \in DOMAIN t.dirs : x # t.nextDir => f[x] = t.dirs[x]
  <2>1. f \in MapsTo(GuestDir)
    BY <1>1, <1>14, PutMaps
  <2>2. DOMAIN f = DOMAIN t.dirs \cup {t.nextDir} /\ f[t.nextDir] = dir
    BY DEF Putting
  <2>3. \A x \in DOMAIN t.dirs : x # t.nextDir => f[x] = t.dirs[x]
    BY DEF Putting
  <2> QED BY <2>1, <2>2, <2>3
<1>6. /\ a \in MapsTo(Nat) /\ DOMAIN a = DOMAIN t.dirAt \cup {n} /\ a[n] = 0
      /\ \A x \in DOMAIN t.dirAt : x # n => a[x] = t.dirAt[x]
  <2>1. a \in MapsTo(Nat)
    BY <1>2, <1>14, PutMaps
  <2>2. DOMAIN a = DOMAIN t.dirAt \cup {n} /\ a[n] = 0
    BY DEF Putting
  <2>3. \A x \in DOMAIN t.dirAt : x # n => a[x] = t.dirAt[x]
    BY DEF Putting
  <2> QED BY <2>1, <2>2, <2>3
<1> HIDE DEF f, a
<1>9. u \in FileTables
  <2>1. t.nextDir + 1 \in Nat
    BY <1>14
  <2> QED BY <1>1, <1>2, <1>5, <1>6, <2>1, <1>15 DEF FileTables
<1>3. /\ u.bound = [t.bound EXCEPT ![n] = goal] /\ u.dirs = f
      /\ u.dirAt = a /\ u.nextDir = t.nextDir + 1
      /\ u.files = t.files /\ u.fileAt = t.fileAt /\ u.nextFile = t.nextFile
      /\ u.nextNumber = t.nextNumber /\ u.streams = t.streams /\ u.nextStream = t.nextStream
  BY <1>2, <1>15 DEF FileTables
<1>7. /\ \A m \in Descriptors : u.bound[m] = IF m = n THEN goal ELSE t.bound[m]
      /\ OpenOn(u, "dir") = OpenOn(t, "dir") \cup {n}
      /\ OpenOn(u, "file") = OpenOn(t, "file") \ {n}
      /\ IdsOf(u, "dir") = IdsOf(t, "dir") \cup {t.nextDir}
      /\ IdsOf(u, "file") = IdsOf(t, "file")
  <2>1. t \in FileTables /\ goal \in PathTarget /\ goal.kind = "dir" /\ goal.id = t.nextDir
        /\ t.bound[n] = NoTarget
    BY <1>1, <1>2
  <2>2. u.bound = [t.bound EXCEPT ![n] = goal]
    BY <1>3
  <2>6. \A m \in Descriptors : u.bound[m] = IF m = n THEN goal ELSE t.bound[m]
    BY <1>14, <2>2
  <2>3. OpenOn(u, "dir") = OpenOn(t, "dir") \cup {n} /\ IdsOf(u, "dir") = IdsOf(t, "dir") \cup {goal.id}
    BY <2>1, <2>2, Rebound
  <2>5. goal.kind # "file"
    BY <2>1
  <2>4. OpenOn(u, "file") = OpenOn(t, "file") \ {n} /\ IdsOf(u, "file") = IdsOf(t, "file")
    BY <2>1, <2>2, <2>5, Rebound
  <2> QED BY <2>1, <2>3, <2>4, <2>6
<1>8. n \notin OpenOn(t, "dir") /\ n \notin OpenOn(t, "file")
  BY <1>2 DEF OpenOn, NoTarget
<1>10. NumberedOK(u)
  <2>1. \A m \in Descriptors : m >= u.nextNumber => m # n
    BY <1>2, <1>3, TableFields
  <2>2. DOMAIN t.dirs \subseteq Nat /\ t.nextDir \in Nat
    BY TableFields, MapHas
  <2>3. \A id \in DOMAIN u.dirs : id < u.nextDir
    BY <1>2, <1>3, <1>5, <2>2 DEF NumberedOK
  <2> QED BY <1>2, <1>3, <1>7, <2>1, <2>3 DEF NumberedOK
<1>11. NoneLeft(u)
  <2>1. DOMAIN u.dirs = IdsOf(u, "dir") /\ DOMAIN u.files = IdsOf(u, "file")
    BY <1>2, <1>3, <1>5, <1>7 DEF NoneLeft
  <2>2. ASSUME NEW m \in DOMAIN u.fileAt
        PROVE  /\ m \in OpenOn(u, "file")
               /\ LET held == u.files[u.bound[m].id] IN held.kind = "random" \/ u.fileAt[m] <= held.size
    <3>1. m \in OpenOn(t, "file") /\ m # n /\ m \in Descriptors
      BY <1>2, <1>3, <1>8, <2>2 DEF NoneLeft, OpenOn
    <3> QED BY <1>2, <1>3, <1>7, <2>2, <3>1 DEF NoneLeft
  <2>3. ASSUME NEW m \in DOMAIN u.dirAt
        PROVE  m \in OpenOn(u, "dir") /\ u.dirAt[m] <= Len(u.dirs[u.bound[m].id].listing)
    <3>1. CASE m = n
      <4>1. u.bound[n].id = t.nextDir /\ u.dirs[u.bound[n].id] = dir /\ dir.listing = listing
        BY <1>1, <1>3, <1>5, <1>7 DEF dir
      <4>2. Len(listing) \in Nat
        BY LenProperties DEF SortedLists
      <4>3. u.dirAt[n] = 0
        BY <1>3, <1>6
      <4> QED BY <1>7, <3>1, <4>1, <4>2, <4>3
    <3>2. CASE m # n
      <4>1. m \in DOMAIN t.dirAt /\ u.dirAt[m] = t.dirAt[m]
        BY <1>3, <1>6, <2>3, <3>2
      <4>2. /\ m \in OpenOn(t, "dir") /\ m \in Descriptors
            /\ t.dirAt[m] <= Len(t.dirs[t.bound[m].id].listing)
        BY <1>2, <4>1 DEF NoneLeft, OpenOn
      <4>3. t.bound[m].id \in DOMAIN t.dirs /\ t.bound[m].id # t.nextDir
        <5>1. t.bound[m].id \in DOMAIN t.dirs /\ t.nextDir \in Nat
          BY <4>2, Named, TableFields
        <5> QED BY <1>2, <5>1 DEF NumberedOK
      <4>4. u.dirs[u.bound[m].id] = t.dirs[t.bound[m].id]
        BY <1>3, <1>5, <1>7, <3>2, <4>2, <4>3
      <4> QED BY <1>7, <3>2, <4>1, <4>2, <4>4
    <3> QED BY <3>1, <3>2
  <2> QED BY <2>1, <2>2, <2>3 DEF NoneLeft
<1>12. GivenBut(u, h, n)
  <2>1. ASSUME NEW m \in OpenOn(u, "dir") \ {n}
        PROVE  /\ m \in OpenOn(t, "dir") \ {n} /\ At(u.dirAt, m) = At(t.dirAt, m)
               /\ u.dirs[u.bound[m].id] = t.dirs[t.bound[m].id]
    <3>1. m \in OpenOn(t, "dir") /\ m # n /\ m \in Descriptors /\ u.bound[m] = t.bound[m]
      BY <1>7 DEF OpenOn
    <3>2. t.bound[m].id \in DOMAIN t.dirs /\ t.bound[m].id # t.nextDir
      <4>1. t.bound[m].id \in DOMAIN t.dirs /\ t.nextDir \in Nat
        BY <3>1, Named, TableFields
      <4> QED BY <1>2, <4>1 DEF NumberedOK
    <3>3. At(u.dirAt, m) = At(t.dirAt, m)
      BY <1>3, <1>6, <3>1 DEF At
    <3> QED BY <1>3, <1>5, <3>1, <3>2, <3>3
  <2> QED BY <2>1 DEF GivenBut
<1>13. u.bound[n] = goal /\ At(u.dirAt, n) = 0
  BY <1>3, <1>5, <1>6, <1>7 DEF At
<1> QED BY <1>9, <1>10, <1>11, <1>12, <1>13 DEF TableSound, Names, u, goal, dir

\* What is left when a descriptor of one file or directory is closed.
LEMMA IdsClosed ==
  ASSUME NEW t \in FileTables, NEW u, NEW n \in Descriptors,
         u.bound = [t.bound EXCEPT ![n] = NoTarget], NEW kind \in {"file", "dir"}
  PROVE  IdsOf(u, kind) =
           IF t.bound[n].kind = kind /\ ~(\E m \in Descriptors \ {n} : t.bound[m] = t.bound[n])
           THEN IdsOf(t, kind) \ {t.bound[n].id} ELSE IdsOf(t, kind)
<1>1. t.bound \in [Descriptors -> PathTarget] /\ NoTarget \in PathTarget /\ NoTarget.kind # kind
  BY DEF FileTables, PathTarget, NoTarget
<1>2. \A m \in Descriptors : u.bound[m] = IF m = n THEN NoTarget ELSE t.bound[m]
  BY <1>1
<1>3. OpenOn(u, kind) = OpenOn(t, kind) \ {n}
  BY <1>1, <1>2 DEF OpenOn
<1>4. IdsOf(u, kind) = {t.bound[m].id : m \in OpenOn(t, kind) \ {n}}
  BY <1>2, <1>3 DEF IdsOf, OpenOn
<1>5. CASE t.bound[n].kind # kind
  <2>1. n \notin OpenOn(t, kind)
    BY <1>5 DEF OpenOn
  <2> QED BY <1>4, <1>5, <2>1 DEF IdsOf
<1>6. CASE t.bound[n].kind = kind
  <2>1. n \in OpenOn(t, kind)
    BY <1>6 DEF OpenOn
  <2>2. CASE \E m \in Descriptors \ {n} : t.bound[m] = t.bound[n]
    <3>1. PICK m \in Descriptors \ {n} : t.bound[m] = t.bound[n]
      BY <2>2
    <3>2. m \in OpenOn(t, kind) \ {n} /\ t.bound[m].id = t.bound[n].id
      BY <1>6, <3>1 DEF OpenOn
    <3>3. {t.bound[k].id : k \in OpenOn(t, kind) \ {n}} = {t.bound[k].id : k \in OpenOn(t, kind)}
      BY <2>1, <3>2
    <3>4. IdsOf(u, kind) = IdsOf(t, kind)
      BY <1>4, <3>3 DEF IdsOf
    <3> QED BY <1>6, <2>2, <3>4
  <2>3. CASE ~\E m \in Descriptors \ {n} : t.bound[m] = t.bound[n]
    <3>1. ASSUME NEW m \in OpenOn(t, kind) \ {n} PROVE t.bound[m].id # t.bound[n].id
      <4>1. /\ m \in Descriptors \ {n} /\ t.bound[m].kind = kind /\ t.bound[m] # t.bound[n]
            /\ t.bound[m] \in PathTarget /\ t.bound[n] \in PathTarget
        BY <1>1, <2>3 DEF OpenOn
      <4>2. /\ t.bound[m] \in [kind : {"file", "dir"}, id : Nat]
            /\ t.bound[n] \in [kind : {"file", "dir"}, id : Nat]
        BY <1>1, <1>6, <4>1 DEF PathTarget
      <4> QED BY <1>6, <4>1, <4>2
    <3> QED BY <1>4, <1>6, <2>1, <2>3, <3>1 DEF IdsOf
  <2> QED BY <2>2, <2>3
<1> QED BY <1>5, <1>6

LEMMA NumberClosed ==
  ASSUME NEW t, NEW h, TableSound(t), GivenOK(t, h), NEW n \in Descriptors
  PROVE  LET u == ClosedNumber(t, n)
         IN /\ TableSound(u) /\ GivenOK(u, h) /\ u.bound[n] = NoTarget
            /\ \A m \in Descriptors \ {n} : u.bound[m] = t.bound[m]
            /\ u.nextNumber = t.nextNumber
            /\ \A m \in OpenOn(u, "dir") : /\ m # n /\ m \in OpenOn(t, "dir")
                                           /\ At(u.dirAt, m) = At(t.dirAt, m)
                                           /\ u.dirs[u.bound[m].id] = t.dirs[t.bound[m].id]
<1> DEFINE u == ClosedNumber(t, n)
           target == t.bound[n]
           kept == \E m \in Descriptors \ {n} : t.bound[m] = target
           fa == IF target.kind = "file" THEN Dropping(t.fileAt, {n}) ELSE t.fileAt
           da == IF target.kind = "dir" THEN Dropping(t.dirAt, {n}) ELSE t.dirAt
           fs == IF target.kind = "file" /\ ~kept THEN Dropping(t.files, {target.id}) ELSE t.files
           ds == IF target.kind = "dir" /\ ~kept THEN Dropping(t.dirs, {target.id}) ELSE t.dirs
<1>1. u = [t EXCEPT !.bound[n] = NoTarget, !.fileAt = fa, !.dirAt = da, !.files = fs, !.dirs = ds]
  BY DEF ClosedNumber
<1>2. t \in FileTables /\ NumberedOK(t) /\ NoneLeft(t) /\ NoTarget \in PathTarget
  BY DEF TableSound, PathTarget
<1>3. target.kind = "file" \/ target.kind = "dir" => target # NoTarget
  BY DEF NoTarget
<1>4. fa \in MapsTo(Nat) /\ da \in MapsTo(Nat) /\ fs \in MapsTo(GuestFile) /\ ds \in MapsTo(GuestDir)
  <2>1. /\ t.files \in MapsTo(GuestFile) /\ t.dirs \in MapsTo(GuestDir)
        /\ t.fileAt \in MapsTo(Nat) /\ t.dirAt \in MapsTo(Nat)
    BY TableFields
  <2> QED BY <2>1, DropMaps
<1>5. /\ \A x \in DOMAIN fa : x \in DOMAIN t.fileAt /\ fa[x] = t.fileAt[x]
                              /\ (target.kind = "file" => x # n)
      /\ \A x \in DOMAIN da : x \in DOMAIN t.dirAt /\ da[x] = t.dirAt[x]
                              /\ (target.kind = "dir" => x # n)
      /\ \A x : x # n => (x \in DOMAIN da <=> x \in DOMAIN t.dirAt)
  BY DEF Dropping
<1>6. /\ DOMAIN fs = IF target.kind = "file" /\ ~kept THEN DOMAIN t.files \ {target.id} ELSE DOMAIN t.files
      /\ DOMAIN ds = IF target.kind = "dir" /\ ~kept THEN DOMAIN t.dirs \ {target.id} ELSE DOMAIN t.dirs
      /\ \A x \in DOMAIN fs : fs[x] = t.files[x]
      /\ \A x \in DOMAIN ds : ds[x] = t.dirs[x]
  BY DEF Dropping
<1> HIDE DEF u, fa, da, fs, ds
<1>7. u \in FileTables
  BY <1>1, <1>2, <1>4 DEF FileTables
<1>8. /\ u.bound = [t.bound EXCEPT ![n] = NoTarget] /\ u.files = fs /\ u.dirs = ds
      /\ u.fileAt = fa /\ u.dirAt = da /\ u.nextFile = t.nextFile /\ u.nextDir = t.nextDir
      /\ u.nextNumber = t.nextNumber
  BY <1>1, <1>2 DEF FileTables
<1>9. /\ IdsOf(u, "file") = IF target.kind = "file" /\ ~kept THEN IdsOf(t, "file") \ {target.id}
                            ELSE IdsOf(t, "file")
      /\ IdsOf(u, "dir") = IF target.kind = "dir" /\ ~kept THEN IdsOf(t, "dir") \ {target.id}
                           ELSE IdsOf(t, "dir")
  BY <1>2, <1>8, IdsClosed
<1>10. /\ \A m \in Descriptors \ {n} : u.bound[m] = t.bound[m]
       /\ u.bound[n] = NoTarget
  BY <1>2, <1>8 DEF FileTables
<1>11. ASSUME NEW kind \in {"file", "dir"} PROVE OpenOn(u, kind) = OpenOn(t, kind) \ {n}
  BY <1>10 DEF OpenOn, NoTarget
<1>12. NumberedOK(u)
  <2>1. \A x \in DOMAIN fs : x \in DOMAIN t.files
    BY <1>6
  <2>2. \A x \in DOMAIN ds : x \in DOMAIN t.dirs
    BY <1>6
  <2> QED BY <1>2, <1>8, <1>10, <2>1, <2>2 DEF NumberedOK
<1>13. DOMAIN u.files = IdsOf(u, "file") /\ DOMAIN u.dirs = IdsOf(u, "dir")
  BY <1>2, <1>6, <1>8, <1>9 DEF NoneLeft
<1>14. \A m \in OpenOn(u, "dir") :
         /\ m # n /\ m \in OpenOn(t, "dir") /\ m \in Descriptors
         /\ u.bound[m] = t.bound[m] /\ u.dirs[u.bound[m].id] = t.dirs[t.bound[m].id]
  <2> TAKE m \in OpenOn(u, "dir")
  <2>1. m # n /\ m \in OpenOn(t, "dir") /\ m \in Descriptors /\ u.bound[m] = t.bound[m]
    BY <1>10, <1>11 DEF OpenOn
  <2>2. u.bound[m].id \in DOMAIN u.dirs
    BY <1>13 DEF IdsOf
  <2> QED BY <1>6, <1>8, <2>1, <2>2
<1>15. \A m \in OpenOn(u, "file") :
         /\ m # n /\ m \in OpenOn(t, "file") /\ m \in Descriptors
         /\ u.bound[m] = t.bound[m] /\ u.files[u.bound[m].id] = t.files[t.bound[m].id]
  <2> TAKE m \in OpenOn(u, "file")
  <2>1. m # n /\ m \in OpenOn(t, "file") /\ m \in Descriptors /\ u.bound[m] = t.bound[m]
    BY <1>10, <1>11 DEF OpenOn
  <2>2. u.bound[m].id \in DOMAIN u.files
    BY <1>13 DEF IdsOf
  <2> QED BY <1>6, <1>8, <2>1, <2>2
<1>16. \A m \in OpenOn(u, "dir") : At(u.dirAt, m) = At(t.dirAt, m)
  BY <1>5, <1>8, <1>14 DEF At
<1>17. NoneLeft(u)
  <2>1. ASSUME NEW m \in DOMAIN u.dirAt
        PROVE  m \in OpenOn(u, "dir") /\ u.dirAt[m] <= Len(u.dirs[u.bound[m].id].listing)
    <3>1. /\ m \in DOMAIN t.dirAt /\ u.dirAt[m] = t.dirAt[m] /\ (target.kind = "dir" => m # n)
          /\ m \in OpenOn(t, "dir") /\ t.dirAt[m] <= Len(t.dirs[t.bound[m].id].listing)
      BY <1>2, <1>5, <1>8, <2>1 DEF NoneLeft
    <3>2. m \in OpenOn(u, "dir")
      BY <1>11, <3>1 DEF OpenOn
    <3> QED BY <1>14, <3>1, <3>2
  <2>2. ASSUME NEW m \in DOMAIN u.fileAt
        PROVE  /\ m \in OpenOn(u, "file")
               /\ LET held == u.files[u.bound[m].id] IN held.kind = "random" \/ u.fileAt[m] <= held.size
    <3>1. /\ m \in DOMAIN t.fileAt /\ u.fileAt[m] = t.fileAt[m] /\ (target.kind = "file" => m # n)
          /\ m \in OpenOn(t, "file")
          /\ LET held == t.files[t.bound[m].id] IN held.kind = "random" \/ t.fileAt[m] <= held.size
      BY <1>2, <1>5, <1>8, <2>2 DEF NoneLeft
    <3>2. m \in OpenOn(u, "file")
      BY <1>11, <3>1 DEF OpenOn
    <3> QED BY <1>15, <3>1, <3>2
  <2> QED BY <1>13, <2>1, <2>2 DEF NoneLeft
<1>18. GivenOK(u, h)
  BY <1>14, <1>16 DEF GivenOK
<1> QED BY <1>7, <1>8, <1>10, <1>12, <1>14, <1>16, <1>17, <1>18 DEF TableSound, u

-------------------------------------------------------------------------------
\* What the host and what is made up lists is in order.
LEMMA TreesAre ==
  ASSUME NEW tree \in Trees, NEW route \in Routes
  PROVE  /\ tree[route] \in [kind : {"none", "file", "folder", "sealed file", "sealed folder"},
                             size : Nat, names : SUBSET Nat]
         /\ Listing(tree[route].names) \in SortedLists
         /\ tree[route].kind = "none" => tree[route] = Absent
<1>1. /\ tree[route] \in [kind : {"none", "file", "folder", "sealed file", "sealed folder"},
                          size : Nat, names : SUBSET Nat]
      /\ IsFiniteSet(tree[route].names) /\ (tree[route].kind = "none" => tree[route] = Absent)
  BY DirectoryAssumption
<1>2. tree[route].names \subseteq Nat
  BY <1>1
<1> QED BY <1>1, <1>2, ListingSorts

LEMMA MadeSorts == ASSUME NEW route PROVE MadeListing(route) \in SortedLists
<1>1. ASSUME NEW k \in {4, 5, 6} PROVE Listing(3..k) \in SortedLists
  <2>1. IsFiniteSet(3..k) /\ 3..k \subseteq Nat
    BY FS_Interval
  <2> QED BY <2>1, ListingSorts
<1> QED BY <1>1 DEF MadeListing

LEMMA MadeIsNat == ASSUME NEW route PROVE SyntheticSize \in Nat /\ MadeLength(route) \in Nat
<1>1. SyntheticSize \in Nat
  BY DEF SyntheticSize
<1>2. Clamp(SyntheticSize, 256, 1024) \in Nat /\ Clamp(SyntheticSize, 512, 1024) \in Nat
  BY <1>1 DEF Clamp
<1>3. (IF SyntheticSize > 2048 THEN SyntheticSize ELSE 2048) \in Nat
  BY <1>1
<1> QED BY <1>1, <1>2, <1>3 DEF MadeLength

UsingUp(t, k, d) == [t EXCEPT !.nextNumber = k, !.nextDir = d]
\* Using up a number, or the id of a directory, leaves all as it is.
LEMMA UsedUp ==
  ASSUME NEW t, NEW h, TableSound(t), GivenOK(t, h), NEW k \in Nat, NEW d \in Nat,
         t.nextNumber <= k, t.nextDir <= d
  PROVE  /\ TableSound(UsingUp(t, k, d)) /\ GivenOK(UsingUp(t, k, d), h)
         /\ UsingUp(t, k, d).bound = t.bound /\ UsingUp(t, k, d).nextNumber = k
<1> DEFINE u == [t EXCEPT !.nextNumber = k, !.nextDir = d]
<1>1. t \in FileTables /\ NumberedOK(t) /\ NoneLeft(t)
  BY DEF TableSound
<1>2. u \in FileTables
  BY <1>1 DEF FileTables
<1>3. /\ u.bound = t.bound /\ u.files = t.files /\ u.dirs = t.dirs /\ u.fileAt = t.fileAt
      /\ u.dirAt = t.dirAt /\ u.nextNumber = k /\ u.nextDir = d /\ u.nextFile = t.nextFile
  BY <1>1 DEF FileTables
<1> HIDE DEF u
<1>4. \A kind : OpenOn(u, kind) = OpenOn(t, kind) /\ IdsOf(u, kind) = IdsOf(t, kind)
  BY <1>3 DEF OpenOn, IdsOf
<1>5. NumberedOK(u)
  <2>1. t.nextNumber \in Nat /\ t.nextDir \in Nat /\ FirstNumber \in Nat /\ Descriptors \subseteq Nat
    BY TableFields, DirectoryAssumption, NumbersAreNat
  <2>2. DOMAIN t.dirs \subseteq Nat
    BY TableFields, MapHas
  <2> QED BY <1>1, <1>3, <2>1, <2>2 DEF NumberedOK
<1>6. NoneLeft(u)
  BY <1>1, <1>3, <1>4 DEF NoneLeft
<1>7. GivenOK(u, h)
  BY <1>3, <1>4 DEF GivenOK
<1> QED BY <1>2, <1>3, <1>5, <1>6, <1>7 DEF TableSound, UsingUp, u

\* What an open may leave and answer.
GoodOpen(f, t, h) ==
  LET n == t.nextNumber
  IN /\ TableSound(f.table) /\ GivenOK(f.table, [h EXCEPT ![n] = StartingAt(0)])
     /\ f.table.nextNumber = n + 1
     /\ f.errno = 0 => f.number = n /\ f.table.bound[n].kind \in {"file", "dir"}
     /\ f.errno # 0 => f.errno = 2 /\ f.number = 0 /\ f.table.bound[n] = NoTarget

LEMMA AnswerIs == ASSUME NEW t, NEW n, NEW e
                  PROVE  /\ Answer(t, n, e).table = t /\ Answer(t, n, e).number = n
                         /\ Answer(t, n, e).errno = e
BY DEF Answer

\* Where open begins: the number is used up.
NumberTaken(t) == [t EXCEPT !.nextNumber = @ + 1]
LEMMA NumberTakenSound ==
  ASSUME NEW t, NEW h, TableSound(t), GivenOK(t, h), t.nextNumber <= LastNumber
  PROVE  LET n == t.nextNumber
             u == NumberTaken(t)
         IN /\ TableSound(u) /\ GivenOK(u, h) /\ n \in Descriptors /\ n \in Nat
            /\ Vacant(u, n) /\ u.nextNumber = n + 1
<1> DEFINE n == t.nextNumber
           d == t.nextDir
           k == n + 1
           u == UsingUp(t, k, d)
<1>1. t \in FileTables /\ NumberedOK(t) /\ n \in Nat /\ d \in Nat /\ LastNumber \in Nat
  BY TableFields, DirectoryAssumption DEF TableSound
<1>2. NumberTaken(t) = u
  BY <1>1 DEF NumberTaken, FileTables, UsingUp
<1>3. n \in Descriptors
  <2>2. FirstNumber \in Nat /\ n >= FirstNumber
    BY <1>1, DirectoryAssumption DEF NumberedOK
  <2>1. n \in FirstNumber..LastNumber
    BY <1>1, <2>2
  <2> QED BY <2>1 DEF Descriptors
<1>4. k \in Nat /\ n <= k /\ d <= d /\ n < k
  BY <1>1
<1>5. TableSound(u) /\ GivenOK(u, h) /\ u.bound = t.bound /\ u.nextNumber = k
  BY <1>1, <1>4, UsedUp
<1>6. t.bound[n] = NoTarget
  BY <1>1, <1>3 DEF NumberedOK
<1> HIDE DEF u
<1> QED BY <1>1, <1>2, <1>3, <1>4, <1>5, <1>6 DEF Vacant

LEMMA FileOpened ==
  ASSUME NEW t, NEW h, TableSound(t), GivenOK(t, h), t.nextNumber <= LastNumber,
         NEW route \in Routes, NEW kind \in {"bytes", "random"}, NEW size \in Nat
  PROVE  GoodOpen(Answer(NewFile(NumberTaken(t), t.nextNumber, route, kind, size), t.nextNumber, 0), t, h)
<1> DEFINE n == t.nextNumber
           s == NumberTaken(t)
           u == NewFile(s, n, route, kind, size)
<1>1. /\ TableSound(s) /\ GivenOK(s, h) /\ n \in Descriptors /\ n \in Nat
      /\ Vacant(s, n) /\ s.nextNumber = n + 1
  BY NumberTakenSound
<1> HIDE DEF n, s
<1>2. GivenBut(s, h, n)
  BY <1>1, GivenAll
<1>3. TableSound(u) /\ GivenBut(u, h, n) /\ Names(u, n, "file", s.nextFile)
  BY <1>1, <1>2, NewFileSound
<1>4. u.nextNumber = s.nextNumber
  BY <1>1 DEF NewFile, TableSound, FileTables
<1> HIDE DEF u
<1>5. n \notin OpenOn(u, "dir") /\ u.bound[n].kind = "file"
  BY <1>3 DEF OpenOn, Names
<1>6. GivenOK(u, [h EXCEPT ![n] = StartingAt(0)])
  BY <1>1, <1>3, <1>5, Started
<1> QED BY <1>1, <1>3, <1>4, <1>5, <1>6, AnswerIs DEF GoodOpen, n, s, u

LEMMA DirOpened ==
  ASSUME NEW t, NEW h, TableSound(t), GivenOK(t, h), t.nextNumber <= LastNumber,
         NEW route \in Routes, NEW listing \in SortedLists
  PROVE  GoodOpen(Answer(NewDir(NumberTaken(t), t.nextNumber, route, listing), t.nextNumber, 0), t, h)
<1> DEFINE n == t.nextNumber
           s == NumberTaken(t)
           u == NewDir(s, n, route, listing)
<1>1. /\ TableSound(s) /\ GivenOK(s, h) /\ n \in Descriptors /\ n \in Nat
      /\ Vacant(s, n) /\ s.nextNumber = n + 1
  BY NumberTakenSound
<1> HIDE DEF n, s
<1>2. GivenBut(s, h, n)
  BY <1>1, GivenAll
<1>3. /\ TableSound(u) /\ GivenBut(u, h, n) /\ Names(u, n, "dir", s.nextDir)
      /\ At(u.dirAt, n) = 0
  BY <1>1, <1>2, NewDirSound
<1>4. u.nextNumber = s.nextNumber
  BY <1>1 DEF NewDir, TableSound, FileTables
<1> HIDE DEF u
<1>5. u.bound[n].kind = "dir"
  BY <1>3 DEF Names
<1>6. GivenOK(u, [h EXCEPT ![n] = StartingAt(0)])
  BY <1>1, <1>3, Started
<1> QED BY <1>1, <1>3, <1>4, <1>5, <1>6, AnswerIs DEF GoodOpen, n, s, u

\* An open that fails, with or without an id used up.
LEMMA NotOpened ==
  ASSUME NEW t, NEW h, TableSound(t), GivenOK(t, h), t.nextNumber <= LastNumber
  PROVE  /\ GoodOpen(Answer(NumberTaken(t), 0, 2), t, h)
         /\ GoodOpen(Answer([NumberTaken(t) EXCEPT !.nextDir = @ + 1], 0, 2), t, h)
<1> DEFINE n == t.nextNumber
           s == NumberTaken(t)
           k == s.nextNumber
           d == s.nextDir + 1
           u == UsingUp(s, k, d)
<1>1. /\ TableSound(s) /\ GivenOK(s, h) /\ n \in Descriptors /\ n \in Nat
      /\ s.bound[n] = NoTarget /\ s.nextNumber = n + 1
  BY NumberTakenSound DEF Vacant
<1> HIDE DEF n, s
<1>2. s \in FileTables /\ k \in Nat /\ d \in Nat /\ s.nextNumber <= k /\ s.nextDir <= d
  BY <1>1, TableFields DEF TableSound
<1>3. [s EXCEPT !.nextDir = @ + 1] = u
  BY <1>2 DEF FileTables, UsingUp
<1> HIDE DEF k, d
<1>4. TableSound(u) /\ GivenOK(u, h) /\ u.bound = s.bound /\ u.nextNumber = k
  <2>1. TableSound(u) /\ GivenOK(u, h) /\ u.bound = s.bound /\ u.nextNumber = k
    BY <1>1, <1>2, UsedUp
  <2> QED BY <2>1
<1> HIDE DEF u
<1>5. ASSUME NEW v, TableSound(v), GivenOK(v, h), v.bound = s.bound, v.nextNumber = n + 1
      PROVE  GoodOpen(Answer(v, 0, 2), t, h)
  <2>1. GivenBut(v, h, n) /\ n \notin OpenOn(v, "dir")
    BY <1>1, <1>5, GivenAll DEF OpenOn, NoTarget
  <2>2. GivenOK(v, [h EXCEPT ![n] = StartingAt(0)])
    BY <1>1, <1>5, <2>1, Started
  <2>3. v.bound[n] = NoTarget
    BY <1>1, <1>5
  <2> QED BY <1>5, <2>2, <2>3, AnswerIs DEF GoodOpen, n
<1>6. GoodOpen(Answer(s, 0, 2), t, h)
  BY <1>1, <1>5
<1>7. GoodOpen(Answer(u, 0, 2), t, h)
  BY <1>1, <1>4, <1>5 DEF k
<1> QED BY <1>3, <1>6, <1>7 DEF s

\* However it is opened.
LEMMA PathOpened ==
  ASSUME hostTree \in Trees, NEW t, NEW h, TableSound(t), GivenOK(t, h), t.nextNumber <= LastNumber,
         NEW route \in Routes, NEW create \in BOOLEAN
  PROVE  GoodOpen(Opened(t, route, create), t, h)
<1> DEFINE n == t.nextNumber
           s == NumberTaken(t)
<1>1. ASSUME NEW kind \in {"bytes", "random"}, NEW size \in Nat
      PROVE  GoodOpen(Answer(NewFile(s, n, route, kind, size), n, 0), t, h)
  BY <1>1, FileOpened
<1>2. ASSUME NEW listing \in SortedLists
      PROVE  GoodOpen(Answer(NewDir(s, n, route, listing), n, 0), t, h)
  BY <1>2, DirOpened
<1>3. /\ GoodOpen(Answer(s, 0, 2), t, h)
      /\ GoodOpen(Answer([s EXCEPT !.nextDir = @ + 1], 0, 2), t, h)
  BY NotOpened
<1>4. Opened(t, route, create) = IF regime = "bare" THEN OpenedBare(s, n, route, create)
                                 ELSE OpenedByPolicy(s, n, route, create)
  BY DEF Opened, NumberTaken
<1> HIDE DEF n, s
<1>5. GoodOpen(Existing(s, n, route), t, h)
  <2>1. hostTree[route].size \in Nat /\ Listing(hostTree[route].names) \in SortedLists
    BY TreesAre
  <2> DEFINE l == Listing(hostTree[route].names)
             z == hostTree[route].size
  <2>2. GoodOpen(Answer(NewDir(s, n, route, l), n, 0), t, h)
    BY <1>2, <2>1
  <2>3. GoodOpen(Answer(NewFile(s, n, route, "bytes", z), n, 0), t, h)
    BY <1>1, <2>1
  <2> QED BY <1>3, <2>2, <2>3 DEF Existing
<1>6. GoodOpen(Answer(NewFile(s, n, route, "random", 0), n, 0), t, h)
  BY <1>1
<1>7. GoodOpen(Answer(CreatedMissing(s, n, route), n, 0), t, h)
  BY <1>1 DEF CreatedMissing
<1>8. GoodOpen(Answer(Synthesized(s, n, route), n, 0), t, h)
  <2>1. GoodOpen(Answer(NewDir(s, n, route, MadeListing(route)), n, 0), t, h)
    BY <1>2, MadeSorts
  <2>2. GoodOpen(Answer(NewFile(s, n, route, "bytes", MadeLength(route)), n, 0), t, h)
    BY <1>1, MadeIsNat
  <2> QED BY <2>1, <2>2 DEF Synthesized
<1>9. GoodOpen(OpenedByPolicy(s, n, route, create), t, h)
  BY <1>3, <1>5, <1>6, <1>7, <1>8 DEF OpenedByPolicy
<1>10. GoodOpen(OpenedBare(s, n, route, create), t, h)
  BY <1>3, <1>5, <1>6, <1>7 DEF OpenedBare
<1> QED BY <1>4, <1>9, <1>10

\* One descriptor more of what another names.
Sharing(t, m, n) == [t EXCEPT !.bound[m] = t.bound[n]]
LEMMA SharedSound ==
  ASSUME NEW t, NEW h, TableSound(t), NEW m \in Descriptors, NEW n \in Descriptors,
         GivenBut(t, h, m), Vacant(t, m)
  PROVE  LET u == Sharing(t, m, n)
         IN /\ TableSound(u) /\ GivenBut(u, h, m) /\ At(u.dirAt, m) = 0
            /\ u.bound = [t.bound EXCEPT ![m] = t.bound[n]]
            /\ u.files = t.files /\ u.dirs = t.dirs /\ u.dirAt = t.dirAt /\ u.fileAt = t.fileAt
            /\ u.nextNumber = t.nextNumber
<1> DEFINE u == Sharing(t, m, n)
           goal == t.bound[n]
<1>1. /\ t \in FileTables /\ NumberedOK(t) /\ NoneLeft(t) /\ m \in Nat
      /\ t.bound[m] = NoTarget /\ m < t.nextNumber /\ t.nextNumber \in Nat
      /\ t.bound \in [Descriptors -> PathTarget] /\ goal \in PathTarget
  BY NumbersAreNat, TableFields DEF TableSound, Vacant
<1>2. u = [t EXCEPT !.bound[m] = goal]
  BY DEF Sharing
<1> HIDE DEF u, goal
<1>3. u \in FileTables
  BY <1>1, <1>2 DEF FileTables
<1>4. /\ u.bound = [t.bound EXCEPT ![m] = goal] /\ u.files = t.files /\ u.dirs = t.dirs
      /\ u.fileAt = t.fileAt /\ u.dirAt = t.dirAt /\ u.nextFile = t.nextFile
      /\ u.nextDir = t.nextDir /\ u.nextNumber = t.nextNumber
  BY <1>1, <1>2 DEF FileTables
<1>5. ASSUME NEW kind \in {"file", "dir"}
      PROVE  /\ OpenOn(t, kind) \subseteq OpenOn(u, kind) /\ m \notin OpenOn(t, kind)
             /\ OpenOn(u, kind) \subseteq OpenOn(t, kind) \cup {m}
             /\ IdsOf(u, kind) = IdsOf(t, kind)
  <2>1. m \notin OpenOn(t, kind)
    BY <1>1 DEF OpenOn, NoTarget
  <2>2. goal.kind = kind => goal.id \in IdsOf(t, kind)
    BY DEF IdsOf, OpenOn, goal
  <2>3. CASE goal.kind = kind
    <3>1. OpenOn(u, kind) = OpenOn(t, kind) \cup {m} /\ IdsOf(u, kind) = IdsOf(t, kind) \cup {goal.id}
      BY <1>1, <1>4, <2>3, Rebound
    <3> QED BY <2>1, <2>2, <2>3, <3>1
  <2>4. CASE goal.kind # kind
    <3>1. OpenOn(u, kind) = OpenOn(t, kind) \ {m} /\ IdsOf(u, kind) = IdsOf(t, kind)
      BY <1>1, <1>4, <2>4, Rebound
    <3> QED BY <2>1, <3>1
  <2> QED BY <2>3, <2>4
<1>6. \A x \in Descriptors : u.bound[x] = IF x = m THEN goal ELSE t.bound[x]
  BY <1>1, <1>4
<1>7. NumberedOK(u)
  <2>1. \A x \in Descriptors : x >= u.nextNumber => x # m
    BY <1>1, <1>4
  <2> QED BY <1>1, <1>4, <1>6, <2>1 DEF NumberedOK
<1>8. \A kind \in {"file", "dir"} : \A x \in OpenOn(t, kind) : x \in Descriptors /\ u.bound[x] = t.bound[x]
  BY <1>5, <1>6 DEF OpenOn
<1>9. NoneLeft(u)
  <2>1. DOMAIN u.files = IdsOf(u, "file") /\ DOMAIN u.dirs = IdsOf(u, "dir")
    BY <1>1, <1>4, <1>5 DEF NoneLeft
  <2>2. ASSUME NEW x \in DOMAIN u.dirAt
        PROVE  x \in OpenOn(u, "dir") /\ u.dirAt[x] <= Len(u.dirs[u.bound[x].id].listing)
    BY <1>1, <1>4, <1>5, <1>8, <2>2 DEF NoneLeft
  <2>3. ASSUME NEW x \in DOMAIN u.fileAt
        PROVE  /\ x \in OpenOn(u, "file")
               /\ LET held == u.files[u.bound[x].id] IN held.kind = "random" \/ u.fileAt[x] <= held.size
    BY <1>1, <1>4, <1>5, <1>8, <2>3 DEF NoneLeft
  <2> QED BY <2>1, <2>2, <2>3 DEF NoneLeft
<1>10. GivenBut(u, h, m)
  <2>1. \A x \in OpenOn(u, "dir") \ {m} : x \in OpenOn(t, "dir") \ {m} /\ u.bound[x] = t.bound[x]
    BY <1>5, <1>8
  <2> QED BY <1>4, <2>1 DEF GivenBut
<1>11. At(u.dirAt, m) = 0
  <2>1. m \notin DOMAIN t.dirAt
    BY <1>1, <1>5 DEF NoneLeft
  <2> QED BY <1>4, <2>1 DEF At
<1> QED BY <1>3, <1>4, <1>7, <1>9, <1>10, <1>11 DEF TableSound, u, goal

\* A new place in an open file, and in an open directory.
AtFile(t, n, k) == [t EXCEPT !.fileAt = Putting(t.fileAt, n, k)]
AtDir(t, n, k) == [t EXCEPT !.dirAt = Putting(t.dirAt, n, k)]
FitsFile(t, n, k) ==
  /\ n \in OpenOn(t, "file")
  /\ LET held == t.files[t.bound[n].id] IN held.kind = "random" \/ k <= held.size
FitsDir(t, n, k) == n \in OpenOn(t, "dir") /\ k <= Len(t.dirs[t.bound[n].id].listing)
LEMMA AtFileSound ==
  ASSUME NEW t, TableSound(t), NEW n, NEW k \in Nat, FitsFile(t, n, k)
  PROVE  LET u == AtFile(t, n, k)
         IN /\ TableSound(u) /\ u.bound = t.bound /\ u.dirs = t.dirs /\ u.files = t.files
            /\ u.dirAt = t.dirAt /\ u.nextNumber = t.nextNumber
<1> DEFINE u == AtFile(t, n, k)
           a == Putting(t.fileAt, n, k)
<1>1. /\ t \in FileTables /\ NumberedOK(t) /\ NoneLeft(t) /\ t.fileAt \in MapsTo(Nat)
      /\ n \in Descriptors /\ n \in Nat /\ n \in OpenOn(t, "file")
  BY NumbersAreNat, TableFields DEF TableSound, FitsFile, OpenOn
<1>2. u = [t EXCEPT !.fileAt = a]
  BY DEF AtFile
<1>3. a \in MapsTo(Nat)
  BY <1>1, PutMaps
<1>4. /\ DOMAIN a = DOMAIN t.fileAt \cup {n} /\ a[n] = k
      /\ \A x \in DOMAIN t.fileAt : x # n => a[x] = t.fileAt[x]
  BY DEF Putting
<1> HIDE DEF u, a
<1>5. u \in FileTables
  BY <1>1, <1>2, <1>3 DEF FileTables
<1>6. /\ u.bound = t.bound /\ u.files = t.files /\ u.dirs = t.dirs
      /\ u.fileAt = a /\ u.dirAt = t.dirAt /\ u.nextFile = t.nextFile
      /\ u.nextDir = t.nextDir /\ u.nextNumber = t.nextNumber
  BY <1>1, <1>2 DEF FileTables
<1>7. \A kind : OpenOn(u, kind) = OpenOn(t, kind) /\ IdsOf(u, kind) = IdsOf(t, kind)
  BY <1>6 DEF OpenOn, IdsOf
<1>8. NumberedOK(u)
  BY <1>1, <1>6 DEF NumberedOK
<1>9. NoneLeft(u)
  <2>1. ASSUME NEW x \in DOMAIN u.fileAt
        PROVE  /\ x \in OpenOn(u, "file")
               /\ LET held == u.files[u.bound[x].id] IN held.kind = "random" \/ u.fileAt[x] <= held.size
    <3>1. CASE x = n
      BY <1>1, <1>4, <1>6, <1>7, <3>1 DEF FitsFile
    <3>2. CASE x # n
      <4>1. x \in DOMAIN t.fileAt /\ u.fileAt[x] = t.fileAt[x]
        BY <1>4, <1>6, <3>2
      <4> QED BY <1>1, <1>6, <1>7, <4>1 DEF NoneLeft
    <3> QED BY <3>1, <3>2
  <2> QED BY <1>1, <1>6, <1>7, <2>1 DEF NoneLeft
<1> QED BY <1>5, <1>6, <1>8, <1>9 DEF TableSound, u

LEMMA AtDirSound ==
  ASSUME NEW t, NEW h, TableSound(t), NEW n, NEW k \in Nat, FitsDir(t, n, k), GivenBut(t, h, n)
  PROVE  LET u == AtDir(t, n, k)
         IN /\ TableSound(u) /\ GivenBut(u, h, n) /\ u.bound = t.bound /\ u.dirs = t.dirs
            /\ u.files = t.files /\ u.nextNumber = t.nextNumber /\ At(u.dirAt, n) = k
<1> DEFINE u == AtDir(t, n, k)
           a == Putting(t.dirAt, n, k)
<1>1. /\ t \in FileTables /\ NumberedOK(t) /\ NoneLeft(t) /\ t.dirAt \in MapsTo(Nat)
      /\ n \in Descriptors /\ n \in Nat /\ n \in OpenOn(t, "dir")
  BY NumbersAreNat, TableFields DEF TableSound, FitsDir, OpenOn
<1>2. u = [t EXCEPT !.dirAt = a]
  BY DEF AtDir
<1>3. a \in MapsTo(Nat)
  BY <1>1, PutMaps
<1>4. /\ DOMAIN a = DOMAIN t.dirAt \cup {n} /\ a[n] = k
      /\ \A x \in DOMAIN t.dirAt : x # n => a[x] = t.dirAt[x]
  BY DEF Putting
<1> HIDE DEF u, a
<1>5. u \in FileTables
  BY <1>1, <1>2, <1>3 DEF FileTables
<1>6. /\ u.bound = t.bound /\ u.files = t.files /\ u.dirs = t.dirs
      /\ u.fileAt = t.fileAt /\ u.dirAt = a /\ u.nextFile = t.nextFile
      /\ u.nextDir = t.nextDir /\ u.nextNumber = t.nextNumber
  BY <1>1, <1>2 DEF FileTables
<1>7. \A kind : OpenOn(u, kind) = OpenOn(t, kind) /\ IdsOf(u, kind) = IdsOf(t, kind)
  BY <1>6 DEF OpenOn, IdsOf
<1>8. NumberedOK(u)
  BY <1>1, <1>6 DEF NumberedOK
<1>9. NoneLeft(u)
  <2>1. ASSUME NEW x \in DOMAIN u.dirAt
        PROVE  x \in OpenOn(u, "dir") /\ u.dirAt[x] <= Len(u.dirs[u.bound[x].id].listing)
    <3>1. CASE x = n
      BY <1>1, <1>4, <1>6, <1>7, <3>1 DEF FitsDir
    <3>2. CASE x # n
      <4>1. x \in DOMAIN t.dirAt /\ u.dirAt[x] = t.dirAt[x]
        BY <1>4, <1>6, <3>2
      <4> QED BY <1>1, <1>6, <1>7, <4>1 DEF NoneLeft
    <3> QED BY <3>1, <3>2
  <2> QED BY <1>1, <1>6, <1>7, <2>1 DEF NoneLeft
<1>10. GivenBut(u, h, n)
  <2>1. \A x : x # n => At(u.dirAt, x) = At(t.dirAt, x)
    BY <1>4, <1>6 DEF At
  <2> QED BY <1>6, <1>7, <2>1 DEF GivenBut
<1>11. At(u.dirAt, n) = k
  BY <1>4, <1>6 DEF At
<1> QED BY <1>5, <1>6, <1>8, <1>9, <1>10, <1>11 DEF TableSound, u

\* The streams are nothing of the tables.
Streaming(t, s, k) == [t EXCEPT !.streams = s, !.nextStream = k]
LEMMA StreamsApart ==
  ASSUME NEW t, NEW h, TableSound(t), NEW s \in MapsTo(Descriptors), NEW k \in Nat
  PROVE  LET u == Streaming(t, s, k)
         IN /\ TableSound(u) /\ (GivenOK(t, h) => GivenOK(u, h))
            /\ u.bound = t.bound /\ u.dirs = t.dirs /\ u.dirAt = t.dirAt /\ u.files = t.files
            /\ u.nextNumber = t.nextNumber
<1> DEFINE u == Streaming(t, s, k)
<1>1. t \in FileTables /\ NumberedOK(t) /\ NoneLeft(t)
  BY DEF TableSound
<1>2. u \in FileTables
  BY <1>1 DEF FileTables, Streaming
<1>3. /\ u.bound = t.bound /\ u.files = t.files /\ u.dirs = t.dirs
      /\ u.fileAt = t.fileAt /\ u.dirAt = t.dirAt /\ u.nextFile = t.nextFile
      /\ u.nextDir = t.nextDir /\ u.nextNumber = t.nextNumber
  BY <1>1 DEF FileTables, Streaming
<1> HIDE DEF u
<1>4. \A kind : OpenOn(u, kind) = OpenOn(t, kind) /\ IdsOf(u, kind) = IdsOf(t, kind)
  BY <1>3 DEF OpenOn, IdsOf
<1>5. NumberedOK(u) /\ NoneLeft(u)
  BY <1>1, <1>3, <1>4 DEF NumberedOK, NoneLeft
<1>6. GivenOK(t, h) => GivenOK(u, h)
  BY <1>3, <1>4 DEF GivenOK
<1> QED BY <1>2, <1>3, <1>5, <1>6 DEF TableSound, u

-------------------------------------------------------------------------------
(***************************************************************************)
(* The calls.                                                              *)
(***************************************************************************)

DirectoriesKept ==
  TableSound(fileTable') /\ GivenOK(fileTable', heard') /\ ToldOK(fileTable', outcome')

\* A reply that tells no end, and one that tells of no open.
LEMMA ToldNothing ==
  ASSUME NEW t, NEW o, ~o.end \/ o.call # "readdir", o.call \notin {"open", "opendir"}
  PROVE  ToldOK(t, o)
BY DEF ToldOK
LEMMA ToldFailure ==
  ASSUME NEW t, NEW o, ~o.end, o.errno # 0 /\ o.number # 0 => t.bound[o.number] = NoTarget
  PROVE  ToldOK(t, o)
BY DEF ToldOK

LEMMA OpenFileKeeps ==
  ASSUME DirectoriesInv, NEW route \in Routes, NEW create \in BOOLEAN, OpenFile(route, create)
  PROVE  DirectoriesKept
<1> DEFINE n == fileTable.nextNumber
           found == Opened(fileTable, route, create)
<1>1. /\ hostTree \in Trees /\ TableSound(fileTable) /\ GivenOK(fileTable, heard)
      /\ n <= LastNumber
  BY DEF DirectoriesInv, OpenFile
<1>2. GoodOpen(found, fileTable, heard)
  BY <1>1, PathOpened
<1>3. /\ fileTable' = found.table /\ heard' = [heard EXCEPT ![n] = StartingAt(0)]
      /\ outcome'.end = FALSE /\ outcome'.number = found.number /\ outcome'.errno = found.errno
  BY DEF OpenFile, Reply
<1> HIDE DEF found, n
<1>4. TableSound(fileTable') /\ GivenOK(fileTable', heard') /\ (found.errno # 0 => found.number = 0)
  BY <1>2, <1>3 DEF GoodOpen, n
<1>5. ToldOK(fileTable', outcome')
  BY <1>3, <1>4, ToldFailure
<1> QED BY <1>4, <1>5 DEF DirectoriesKept

\* What a stream is opened on stays as it is.
LEMMA StreamOnSound ==
  ASSUME NEW t, NEW h, TableSound(t), GivenOK(t, h), NEW n \in Descriptors
  PROVE  LET stream == StreamOn(t, n)
         IN TableSound(stream.table) /\ GivenOK(stream.table, h)
<1> DEFINE s == Putting(t.streams, t.nextStream, n)
           k == t.nextStream + 1
<1>1. s \in MapsTo(Descriptors) /\ k \in Nat
  <2>1. t.streams \in MapsTo(Descriptors) /\ t.nextStream \in Nat
    BY TableFields
  <2> QED BY <2>1, PutMaps
<1>2. TableSound(Streaming(t, s, k)) /\ GivenOK(Streaming(t, s, k), h)
  <2> HIDE DEF s, k
  <2> QED BY <1>1, StreamsApart
<1>3. [t EXCEPT !.streams = Putting(@, t.nextStream, n), !.nextStream = @ + 1] = Streaming(t, s, k)
  BY DEF Streaming
<1> QED BY <1>2, <1>3, AnswerIs DEF StreamOn

LEMMA OpenDirKeeps ==
  ASSUME DirectoriesInv, NEW route \in Routes, OpenDir(route)
  PROVE  DirectoriesKept
<1> DEFINE n == fileTable.nextNumber
           found == Opened(fileTable, route, FALSE)
           stream == StreamOn(found.table, n)
           h == [heard EXCEPT ![n] = StartingAt(0)]
<1>1. /\ hostTree \in Trees /\ TableSound(fileTable) /\ GivenOK(fileTable, heard)
      /\ n <= LastNumber
  BY DEF DirectoriesInv, OpenDir
<1>2. GoodOpen(found, fileTable, heard)
  BY <1>1, PathOpened
<1>3. n \in Descriptors
  BY <1>1, NumberTakenSound
<1>10. IF found.errno # 0
       THEN fileTable' = found.table /\ Reply("opendir", n, found.errno)
       ELSE /\ fileTable' = IF stream.errno = 0 THEN stream.table ELSE ClosedNumber(found.table, n)
            /\ Reply("opendir", n, stream.errno)
  BY DEF OpenDir
<1>11. heard' = h
  BY DEF OpenDir
<1>5. TableSound(found.table) /\ GivenOK(found.table, h)
      /\ (found.errno # 0 => found.table.bound[n] = NoTarget)
  BY <1>2 DEF GoodOpen
<1> HIDE DEF found, n, h, stream
<1>4. /\ heard' = h /\ outcome'.end = FALSE /\ outcome'.number = n
      /\ IF found.errno # 0
         THEN fileTable' = found.table /\ outcome'.errno = found.errno
         ELSE /\ fileTable' = IF stream.errno = 0 THEN stream.table ELSE ClosedNumber(found.table, n)
              /\ outcome'.errno = stream.errno
  BY <1>10, <1>11 DEF Reply
<1>6. TableSound(stream.table) /\ GivenOK(stream.table, h)
  BY <1>3, <1>5, StreamOnSound DEF stream
<1>7. LET u == ClosedNumber(found.table, n)
      IN TableSound(u) /\ GivenOK(u, h) /\ u.bound[n] = NoTarget
  BY <1>3, <1>5, NumberClosed
<1>8. TableSound(fileTable') /\ GivenOK(fileTable', heard')
      /\ (outcome'.errno # 0 => fileTable'.bound[n] = NoTarget)
  BY <1>4, <1>5, <1>6, <1>7
<1>9. ToldOK(fileTable', outcome')
  BY <1>4, <1>8, ToldFailure
<1> QED BY <1>8, <1>9 DEF DirectoriesKept

LEMMA FdOpenDirKeeps ==
  ASSUME DirectoriesInv, NEW n \in Descriptors, FdOpenDir(n)
  PROVE  DirectoriesKept
<1>1. /\ fileTable' = StreamOn(fileTable, n).table /\ heard' = heard
      /\ outcome'.end = FALSE /\ outcome'.call = "fdopendir"
  BY DEF FdOpenDir, Reply
<1>2. TableSound(fileTable) /\ GivenOK(fileTable, heard)
  BY DEF DirectoriesInv
<1>3. TableSound(fileTable') /\ GivenOK(fileTable', heard')
  BY <1>1, <1>2, StreamOnSound
<1>4. ToldOK(fileTable', outcome')
  BY <1>1, ToldNothing
<1> QED BY <1>3, <1>4 DEF DirectoriesKept

LEMMA CloseNumberKeeps ==
  ASSUME DirectoriesInv, NEW n \in Descriptors, CloseNumber(n)
  PROVE  DirectoriesKept
<1>1. /\ fileTable' = ClosedNumber(fileTable, n) /\ heard' = heard
      /\ outcome'.end = FALSE /\ outcome'.call = "close"
  BY DEF CloseNumber, Reply
<1>2. TableSound(fileTable) /\ GivenOK(fileTable, heard)
  BY DEF DirectoriesInv
<1>3. TableSound(fileTable') /\ GivenOK(fileTable', heard')
  BY <1>1, <1>2, NumberClosed
<1>4. ToldOK(fileTable', outcome')
  BY <1>1, ToldNothing
<1> QED BY <1>3, <1>4 DEF DirectoriesKept

LEMMA CloseDirKeeps ==
  ASSUME DirectoriesInv, NEW stream, CloseDir(stream)
  PROVE  DirectoriesKept
<1>1. TableSound(fileTable) /\ GivenOK(fileTable, heard)
  BY DEF DirectoriesInv
<1>2. heard' = heard /\ outcome'.end = FALSE /\ outcome'.call = "closedir"
  BY DEF CloseDir, Reply
<1>3. ToldOK(fileTable', outcome')
  BY <1>2, ToldNothing
<1>4. CASE stream \notin DOMAIN fileTable.streams
  <2>1. fileTable' = fileTable
    BY <1>4 DEF CloseDir
  <2> QED BY <1>1, <1>2, <1>3, <2>1 DEF DirectoriesKept
<1>5. CASE stream \in DOMAIN fileTable.streams
  <2> DEFINE n == fileTable.streams[stream]
             s == Dropping(fileTable.streams, {stream})
             k == fileTable.nextStream
             t == Streaming(fileTable, s, k)
  <2>1. fileTable.streams \in MapsTo(Descriptors) /\ k \in Nat /\ fileTable \in FileTables
    BY <1>1, TableFields DEF TableSound
  <2>2. n \in Descriptors /\ s \in MapsTo(Descriptors)
    BY <1>5, <2>1, DropMaps, MapHas
  <2>3. fileTable' = ClosedNumber([fileTable EXCEPT !.streams = Dropping(@, {stream})], n)
    BY <1>5 DEF CloseDir
  <2>4. [fileTable EXCEPT !.streams = Dropping(@, {stream})] = t
    BY <2>1 DEF Streaming, FileTables
  <2> HIDE DEF n, s, k
  <2>5. TableSound(t) /\ GivenOK(t, heard)
    BY <1>1, <2>1, <2>2, StreamsApart
  <2> HIDE DEF t
  <2>6. TableSound(ClosedNumber(t, n)) /\ GivenOK(ClosedNumber(t, n), heard)
    BY <2>2, <2>5, NumberClosed
  <2> QED BY <1>2, <1>3, <2>3, <2>4, <2>6 DEF DirectoriesKept
<1> QED BY <1>4, <1>5

LEMMA DuplicateKeeps ==
  ASSUME DirectoriesInv, NEW n \in Descriptors, Duplicate(n)
  PROVE  DirectoriesKept
<1> DEFINE m == fileTable.nextNumber
           t == NumberTaken(fileTable)
           s == Sharing(t, m, n)
           target == fileTable.bound[n]
           at == At(fileTable.dirAt, n)
           fat == At(fileTable.fileAt, n)
           g == [heard EXCEPT ![m] = StartingAt(at)]
<1>1. /\ TableSound(fileTable) /\ GivenOK(fileTable, heard) /\ m <= LastNumber
      /\ target # NoTarget
  BY DEF DirectoriesInv, Duplicate
<1>2. /\ TableSound(t) /\ GivenOK(t, heard) /\ m \in Descriptors /\ m \in Nat /\ Vacant(t, m)
  BY <1>1, NumberTakenSound
<1>3. /\ fileTable' = [fileTable EXCEPT
             !.bound[m] = target, !.nextNumber = m + 1,
             !.fileAt = IF target.kind = "file" THEN Putting(@, m, fat) ELSE @,
             !.dirAt = IF target.kind = "dir" THEN Putting(@, m, at) ELSE @]
      /\ heard' = g /\ outcome'.end = FALSE /\ outcome'.call = "dup"
  BY DEF Duplicate, Reply
<1>4. ToldOK(fileTable', outcome')
  BY <1>3, ToldNothing
<1>5. /\ t.bound = fileTable.bound /\ t.files = fileTable.files /\ t.dirs = fileTable.dirs
      /\ t.dirAt = fileTable.dirAt /\ t.fileAt = fileTable.fileAt
      /\ fileTable \in FileTables /\ fileTable.bound[n] \in PathTarget
  BY <1>1, TableFields DEF NumberTaken, TableSound, FileTables
<1>6. /\ TableSound(s) /\ GivenBut(s, heard, m) /\ At(s.dirAt, m) = 0
      /\ s.bound = [t.bound EXCEPT ![m] = t.bound[n]]
      /\ s.files = t.files /\ s.dirs = t.dirs /\ s.dirAt = t.dirAt /\ s.fileAt = t.fileAt
  <2>1. GivenBut(t, heard, m)
    BY <1>2, GivenAll
  <2> HIDE DEF t, m
  <2> QED BY <1>2, <2>1, SharedSound
<1>7. s.bound[m] = target /\ t.bound \in [Descriptors -> PathTarget]
  BY <1>2, <1>5, <1>6, TableFields
<1>8. CASE target.kind = "file"
  <2>1. fileTable' = AtFile(s, m, fat)
    <3>1. fileTable' = [fileTable EXCEPT
             !.bound[m] = target, !.nextNumber = m + 1, !.fileAt = Putting(@, m, fat)]
      BY <1>3, <1>8
    <3>2. s = [fileTable EXCEPT !.nextNumber = m + 1, !.bound[m] = target]
      BY <1>5 DEF Sharing, NumberTaken, FileTables
    <3> QED BY <1>5, <1>6, <3>1, <3>2 DEF AtFile, FileTables
  <2>2. FitsFile(s, m, fat) /\ fat \in Nat
    <3>1. n \in OpenOn(fileTable, "file") /\ m \in OpenOn(s, "file")
      BY <1>2, <1>7, <1>8 DEF OpenOn
    <3>2. fileTable.fileAt \in MapsTo(Nat) /\ NoneLeft(fileTable)
      BY <1>1, TableFields DEF TableSound
    <3>3. \A x \in DOMAIN fileTable.fileAt : fileTable.fileAt[x] \in Nat
      BY <3>2, MapHas
    <3>4. fat \in Nat
      BY <3>3 DEF At
    <3>5. fileTable.files[target.id] \in GuestFile
      BY <1>1, <3>1, Named DEF OpenOn
    <3>6. LET held == fileTable.files[target.id] IN held.kind = "random" \/ fat <= held.size
      BY <3>2, <3>5 DEF NoneLeft, At, GuestFile
    <3> QED BY <1>5, <1>6, <1>7, <3>1, <3>4, <3>6 DEF FitsFile
  <2> HIDE DEF s, fat, m, at, target, t
  <2>3. LET u == AtFile(s, m, fat)
        IN TableSound(u) /\ u.bound = s.bound /\ u.dirs = s.dirs /\ u.dirAt = s.dirAt
    BY <1>6, <2>2, AtFileSound
  <2>4. GivenBut(fileTable', heard, m) /\ m \notin OpenOn(fileTable', "dir")
    BY <1>6, <1>7, <1>8, <2>1, <2>3 DEF GivenBut, OpenOn
  <2>5. at \in Nat
    <3>1. fileTable.dirAt \in MapsTo(Nat)
      BY <1>1, TableFields
    <3>2. \A x \in DOMAIN fileTable.dirAt : fileTable.dirAt[x] \in Nat
      BY <3>1, MapHas
    <3> QED BY <3>2 DEF At, at
  <2>6. GivenOK(fileTable', g)
    BY <1>2, <2>1, <2>3, <2>4, <2>5, Started
  <2> QED BY <1>3, <1>4, <2>1, <2>3, <2>6 DEF DirectoriesKept
<1>9. CASE target.kind = "dir"
  <2>1. fileTable' = AtDir(s, m, at)
    <3>1. fileTable' = [fileTable EXCEPT
             !.bound[m] = target, !.nextNumber = m + 1, !.dirAt = Putting(@, m, at)]
      BY <1>3, <1>9
    <3>2. s = [fileTable EXCEPT !.nextNumber = m + 1, !.bound[m] = target]
      BY <1>5 DEF Sharing, NumberTaken, FileTables
    <3> QED BY <1>5, <1>6, <3>1, <3>2 DEF AtDir, FileTables
  <2>2. FitsDir(s, m, at) /\ at \in Nat
    <3>1. n \in OpenOn(fileTable, "dir") /\ m \in OpenOn(s, "dir")
      BY <1>2, <1>7, <1>9 DEF OpenOn
    <3>2. at \in 0..Len(fileTable.dirs[target.id].listing)
          /\ Len(fileTable.dirs[target.id].listing) \in Nat
      BY <1>1, <3>1, PlaceInside
    <3> QED BY <1>5, <1>6, <1>7, <3>1, <3>2 DEF FitsDir
  <2> HIDE DEF s, fat, m, at, target, t
  <2>3. LET u == AtDir(s, m, at)
        IN TableSound(u) /\ GivenBut(u, heard, m) /\ At(u.dirAt, m) = at
    BY <1>6, <2>2, AtDirSound
  <2>4. GivenOK(fileTable', g)
    BY <1>2, <2>1, <2>2, <2>3, Started
  <2> QED BY <1>3, <1>4, <2>1, <2>3, <2>4 DEF DirectoriesKept
<1> QED BY <1>1, <1>5, <1>8, <1>9 DEF PathTarget

LEMMA DuplicateOntoKeeps ==
  ASSUME DirectoriesInv, NEW n \in Descriptors, NEW m \in Descriptors, DuplicateOnto(n, m)
  PROVE  DirectoriesKept
<1> DEFINE c == ClosedNumber(fileTable, m)
           s == Sharing(c, m, n)
<1>1. /\ TableSound(fileTable) /\ GivenOK(fileTable, heard) /\ m < fileTable.nextNumber
  BY DEF DirectoriesInv, DuplicateOnto
<1>2. /\ fileTable' = s /\ heard' = [heard EXCEPT ![m] = StartingAt(0)]
      /\ outcome'.end = FALSE /\ outcome'.call = "dup2"
  BY DEF DuplicateOnto, Reply, Sharing
<1>3. /\ TableSound(c) /\ GivenOK(c, heard) /\ c.bound[m] = NoTarget
      /\ c.nextNumber = fileTable.nextNumber
  BY <1>1, NumberClosed
<1> HIDE DEF c
<1>4. Vacant(c, m) /\ GivenBut(c, heard, m)
  BY <1>1, <1>3, GivenAll DEF Vacant
<1>5. /\ TableSound(s) /\ GivenBut(s, heard, m) /\ At(s.dirAt, m) = 0
      /\ s.bound = [c.bound EXCEPT ![m] = c.bound[n]]
      /\ s.files = c.files /\ s.dirs = c.dirs /\ s.dirAt = c.dirAt /\ s.fileAt = c.fileAt
  BY <1>3, <1>4, SharedSound
<1> HIDE DEF s
<1>6. GivenOK(s, [heard EXCEPT ![m] = StartingAt(0)])
  BY <1>5, Started
<1>7. ToldOK(fileTable', outcome')
  BY <1>2, ToldNothing
<1> QED BY <1>2, <1>5, <1>6, <1>7 DEF DirectoriesKept

LEMMA ReadAmountKeeps ==
  ASSUME DirectoriesInv, NEW n \in Descriptors, NEW count \in Amounts, ReadAmount(n, count)
  PROVE  DirectoriesKept
<1> DEFINE id == fileTable.bound[n].id
           at == At(fileTable.fileAt, n)
           size == fileTable.files[id].size
           random == fileTable.files[id].kind = "random"
           start == IF random \/ at < size THEN at ELSE size
           stop == IF random \/ start + count < size THEN start + count ELSE size
<1>1. /\ TableSound(fileTable) /\ GivenOK(fileTable, heard) /\ count \in Nat
  BY DirectoryAssumption DEF DirectoriesInv
<1>2. /\ fileTable.bound[n].kind = "file" /\ fileTable' = AtFile(fileTable, n, stop)
      /\ heard' = heard /\ outcome'.call = "read"
  BY DEF ReadAmount, AtFile
<1>3. n \in OpenOn(fileTable, "file") /\ fileTable.files[id] \in GuestFile
  BY <1>1, <1>2, Named DEF OpenOn
<1>4. at \in Nat /\ size \in Nat
  <2>1. fileTable.fileAt \in MapsTo(Nat)
    BY <1>1, TableFields
  <2>2. \A x \in DOMAIN fileTable.fileAt : fileTable.fileAt[x] \in Nat
    BY <2>1, MapHas
  <2> QED BY <1>3, <2>2 DEF At, GuestFile
<1>5. FitsFile(fileTable, n, stop) /\ stop \in Nat
  <2> HIDE DEF at
  <2> QED BY <1>1, <1>3, <1>4 DEF FitsFile
<1> HIDE DEF stop, id
<1>6. LET u == AtFile(fileTable, n, stop)
      IN TableSound(u) /\ u.bound = fileTable.bound /\ u.dirs = fileTable.dirs
         /\ u.dirAt = fileTable.dirAt
  BY <1>1, <1>5, AtFileSound
<1>7. GivenOK(fileTable', heard')
  BY <1>1, <1>2, <1>6 DEF GivenOK, OpenOn
<1>8. ToldOK(fileTable', outcome')
  BY <1>2, ToldNothing
<1> QED BY <1>2, <1>6, <1>7, <1>8 DEF DirectoriesKept

LEMMA ReadDirKeeps ==
  ASSUME DirectoriesInv, NEW stream, ReadDir(stream)
  PROVE  DirectoriesKept
<1>1. TableSound(fileTable) /\ GivenOK(fileTable, heard)
  BY DEF DirectoriesInv
<1>2. CASE stream \notin DOMAIN fileTable.streams
  <2>1. fileTable' = fileTable /\ heard' = heard /\ outcome'.end = FALSE /\ outcome'.call = "readdir"
        /\ outcome'.errno = 9 /\ outcome'.number = 0
    BY <1>2 DEF ReadDir, Reply
  <2>2. ToldOK(fileTable', outcome')
    BY <2>1, ToldFailure
  <2> QED BY <1>1, <2>1, <2>2 DEF DirectoriesKept
<1>3. CASE stream \in DOMAIN fileTable.streams
  <2> DEFINE n == fileTable.streams[stream]
             entry == NextEntry(fileTable, n)
             at == At(fileTable.dirAt, n)
             k == at + 1
             l == fileTable.dirs[fileTable.bound[n].id].listing
             u == AtDir(fileTable, n, k)
             h == [heard EXCEPT ![n].names = @ \o entry]
  <2>1. n \in Descriptors
    <3>1. fileTable.streams \in MapsTo(Descriptors)
      BY <1>1, TableFields
    <3> QED BY <1>3, <3>1, MapHas
  <2>2. /\ outcome' = [call |-> "readdir", number |-> n, errno |-> 0, end |-> entry = <<>>]
        /\ fileTable' = IF entry = <<>> THEN fileTable ELSE u
        /\ heard' = h
    BY <1>3 DEF ReadDir, AtDir
  <2>3. heard \in [Descriptors -> [from : Nat, names : Seq(Nat)]]
    BY <1>1 DEF GivenOK
  <2>4. n \in OpenOn(fileTable, "dir") =>
          l \in Seq(Nat) /\ Len(l) \in Nat /\ at \in 0..Len(l)
    BY <1>1, PlaceInside
  <2>5. entry = IF n \in OpenOn(fileTable, "dir") /\ at < Len(l) THEN <<l[k]>> ELSE <<>>
    BY <2>1 DEF NextEntry, OpenOn
  <2>6. outcome'.call = "readdir" /\ outcome'.number = n /\ outcome'.errno = 0
        /\ (outcome'.end <=> entry = <<>>)
    BY <2>2
  <2> HIDE DEF n, entry, at, l, u, h
  <2>7. CASE n \in OpenOn(fileTable, "dir") /\ at < Len(l)
    <3>1. k \in 1..Len(l) /\ k \in Nat /\ k - 1 = at /\ l \in Seq(Nat)
      BY <2>4, <2>7
    <3>2. l[k] \in Nat /\ entry = <<l[k]>> /\ entry # <<>> /\ entry \in Seq(Nat)
      BY <2>5, <2>7, <3>1, ElementOfSeq
    <3>3. fileTable' = u
      BY <2>2, <3>2
    <3>4. FitsDir(fileTable, n, k) /\ GivenBut(fileTable, heard, n)
      BY <1>1, <2>7, <3>1, GivenAll DEF FitsDir, l
    <3>5. /\ TableSound(u) /\ GivenBut(u, heard, n) /\ u.bound = fileTable.bound
          /\ u.dirs = fileTable.dirs /\ At(u.dirAt, n) = k
      <4> HIDE DEF k
      <4> QED BY <1>1, <3>1, <3>4, AtDirSound DEF u
    <3>6. /\ heard[n].from \in Nat /\ heard[n].names \in Seq(Nat) /\ heard[n].from <= at
          /\ heard[n].names = SubSeq(l, heard[n].from + 1, at)
      BY <1>1, <2>1, <2>3, <2>7 DEF GivenOK, l, at
    <3>7. heard[n].names \o entry = SubSeq(l, heard[n].from + 1, k)
      <4>1. heard[n].from + 1 \in 1..Len(l) /\ k \in (heard[n].from + 1)..Len(l)
        BY <2>4, <2>7, <3>1, <3>6
      <4>2. SubSeq(l, heard[n].from + 1, k) = SubSeq(l, heard[n].from + 1, k - 1) \o <<l[k]>>
        <5> HIDE DEF k
        <5> QED BY <3>1, <4>1, SubSeqRecursiveSecond
      <4> QED BY <3>1, <3>2, <3>6, <4>2
    <3>8. heard[n].names \o entry \in Seq(Nat)
      BY <3>2, <3>6, ConcatProperties
    <3>9. /\ h \in [Descriptors -> [from : Nat, names : Seq(Nat)]]
          /\ \A m \in Descriptors : m # n => h[m] = heard[m]
          /\ h[n].from = heard[n].from /\ h[n].names = heard[n].names \o entry
      BY <2>1, <2>3, <3>8 DEF h
    <3> HIDE DEF k
    <3>10. GivenOK(u, h)
      <4>1. ASSUME NEW m \in OpenOn(u, "dir")
            PROVE  /\ h[m].from <= At(u.dirAt, m)
                   /\ h[m].names = SubSeq(u.dirs[u.bound[m].id].listing, h[m].from + 1, At(u.dirAt, m))
        <5>1. CASE m = n
          <6>1. heard[n].from <= k
            BY <2>4, <2>7, <3>6 DEF k
          <6> QED BY <3>5, <3>7, <3>9, <5>1, <6>1 DEF l
        <5>2. CASE m # n
          <6>1. m \in Descriptors
            BY DEF OpenOn
          <6> QED BY <3>5, <3>9, <5>2, <6>1 DEF GivenBut
        <5> QED BY <5>1, <5>2
      <4> QED BY <3>9, <4>1 DEF GivenOK
    <3>11. ToldOK(fileTable', outcome')
      BY <2>6, <3>2, ToldFailure
    <3> QED BY <2>2, <3>3, <3>5, <3>10, <3>11 DEF DirectoriesKept
  <2>8. CASE ~(n \in OpenOn(fileTable, "dir") /\ at < Len(l))
    <3>1. entry = <<>> /\ fileTable' = fileTable
      BY <2>2, <2>5, <2>8
    <3>2. heard[n].names \o entry = heard[n].names
      BY <2>1, <2>3, <3>1, ConcatEmptySeq
    <3>3. h = heard
      BY <2>1, <2>3, <3>2 DEF h
    <3>4. n \in OpenOn(fileTable, "dir") => at = Len(l)
      BY <2>4, <2>8
    <3>5. ToldOK(fileTable', outcome')
      BY <2>6, <3>1, <3>4 DEF ToldOK, at, l
    <3> QED BY <1>1, <2>2, <3>1, <3>3, <3>5 DEF DirectoriesKept
  <2> QED BY <2>7, <2>8
<1> QED BY <1>2, <1>3

LEMMA NothingMapped == ASSUME NEW S PROVE <<>> \in MapsTo(S) /\ DOMAIN <<>> = {}
<1>1. DOMAIN <<>> = {} /\ <<>> \in [{} -> S]
  OBVIOUS
<1> QED BY <1>1 DEF MapsTo

\* Nothing is open.
LEMMA NoneOpen ==
  ASSUME NEW t, t.bound = [n \in Descriptors |-> NoTarget], NEW kind \in {"file", "dir"}
  PROVE  OpenOn(t, kind) = {} /\ IdsOf(t, kind) = {}
BY DEF OpenOn, IdsOf, NoTarget

LEMMA EndProcessKeeps ==
  ASSUME DirectoriesInv, EndProcess
  PROVE  DirectoriesKept
<1> DEFINE t == fileTable
           u == AllClosed(t)
           b == [n \in Descriptors |-> NoTarget]
           e == <<>>
           fa == Dropping(t.fileAt, OpenOn(t, "file"))
           da == Dropping(t.dirAt, OpenOn(t, "dir"))
           fs == Dropping(t.files, IdsOf(t, "file"))
           ds == Dropping(t.dirs, IdsOf(t, "dir"))
<1>1. /\ TableSound(t) /\ GivenOK(t, heard) /\ t \in FileTables /\ NumberedOK(t) /\ NoneLeft(t)
  BY DEF DirectoriesInv, TableSound
<1>2. fileTable' = u /\ heard' = heard /\ outcome'.end = FALSE /\ outcome'.call = "exit"
  BY DEF EndProcess, Reply
<1>3. u = [t EXCEPT !.bound = b, !.streams = e, !.fileAt = fa, !.dirAt = da, !.files = fs, !.dirs = ds]
  BY DEF AllClosed, IdsOf
<1>4. /\ fa \in MapsTo(Nat) /\ da \in MapsTo(Nat) /\ fs \in MapsTo(GuestFile) /\ ds \in MapsTo(GuestDir)
      /\ e \in MapsTo(Descriptors) /\ b \in [Descriptors -> PathTarget]
  <2>1. /\ t.files \in MapsTo(GuestFile) /\ t.dirs \in MapsTo(GuestDir)
        /\ t.fileAt \in MapsTo(Nat) /\ t.dirAt \in MapsTo(Nat)
    BY <1>1, TableFields
  <2>2. b \in [Descriptors -> PathTarget]
    BY DEF PathTarget
  <2> HIDE DEF b, e
  <2> QED BY <2>1, <2>2, DropMaps, NothingMapped DEF e
<1>5. DOMAIN fa = {} /\ DOMAIN da = {} /\ DOMAIN fs = {} /\ DOMAIN ds = {}
  BY <1>1 DEF NoneLeft, Dropping
<1> HIDE DEF u, b, e, fa, da, fs, ds
<1>6. u \in FileTables
  BY <1>1, <1>3, <1>4 DEF FileTables
<1>7. /\ u.bound = b /\ u.files = fs /\ u.dirs = ds /\ u.fileAt = fa /\ u.dirAt = da
      /\ u.nextNumber = t.nextNumber
  BY <1>1, <1>3 DEF FileTables
<1>8. \A kind \in {"file", "dir"} : OpenOn(u, kind) = {} /\ IdsOf(u, kind) = {}
  BY <1>7, NoneOpen DEF b
<1>9. NumberedOK(u)
  BY <1>1, <1>5, <1>7 DEF NumberedOK, b
<1>10. NoneLeft(u) /\ GivenOK(u, heard)
  BY <1>1, <1>5, <1>7, <1>8 DEF NoneLeft, GivenOK
<1>11. ToldOK(fileTable', outcome')
  BY <1>2, ToldNothing
<1> QED BY <1>2, <1>6, <1>9, <1>10, <1>11 DEF TableSound, DirectoriesKept

\* A call that only answers.
LEMMA AskedKeeps ==
  ASSUME DirectoriesInv, NEW route, NEW n, StatPath(route) \/ FstatNumber(n)
  PROVE  DirectoriesKept
<1>1. TableSound(fileTable) /\ GivenOK(fileTable, heard)
  BY DEF DirectoriesInv
<1>2. fileTable' = fileTable /\ heard' = heard /\ outcome'.end = FALSE
      /\ outcome'.call \in {"stat", "fstat"}
  BY DEF StatPath, FstatNumber, Reply
<1>3. ToldOK(fileTable', outcome')
  BY <1>2, ToldNothing
<1> QED BY <1>1, <1>2, <1>3 DEF DirectoriesKept

LEMMA DirectoryCallKeeps ==
  ASSUME DirectoriesInv, DirectoryHook
  PROVE  DirectoriesKept
<1>1. ASSUME NEW route \in Routes,
             (\E create \in BOOLEAN : OpenFile(route, create)) \/ OpenDir(route) \/ StatPath(route)
      PROVE  DirectoriesKept
  BY <1>1, OpenFileKeeps, OpenDirKeeps, AskedKeeps
<1>2. ASSUME NEW n \in Descriptors,
             \/ FdOpenDir(n) \/ CloseNumber(n) \/ Duplicate(n) \/ FstatNumber(n)
             \/ \E m \in Descriptors : DuplicateOnto(n, m)
             \/ \E count \in Amounts : ReadAmount(n, count)
      PROVE  DirectoriesKept
  BY <1>2, FdOpenDirKeeps, CloseNumberKeeps, DuplicateKeeps, AskedKeeps, DuplicateOntoKeeps,
     ReadAmountKeeps
<1>3. ASSUME NEW stream, ReadDir(stream) \/ CloseDir(stream) PROVE DirectoriesKept
  BY <1>3, ReadDirKeeps, CloseDirKeeps
<1> QED BY <1>1, <1>2, <1>3, EndProcessKeeps DEF DirectoryHook

LEMMA DirectoriesStart == DirectoriesInit => DirectoriesInv
<1> SUFFICES ASSUME DirectoriesInit PROVE DirectoriesInv
  OBVIOUS
<1> DEFINE t == fileTable
           b == [n \in Descriptors |-> NoTarget]
           e == <<>>
<1>1. t = [nextNumber |-> FirstNumber, bound |-> b,
           nextFile |-> 1, nextDir |-> 1, files |-> e, dirs |-> e,
           fileAt |-> e, dirAt |-> e, nextStream |-> 1, streams |-> e]
  BY DEF DirectoriesInit
<1>2. /\ \A S : e \in MapsTo(S)
      /\ DOMAIN e = {} /\ b \in [Descriptors -> PathTarget] /\ FirstNumber \in Nat /\ e \in Seq(Nat)
  <2>1. \A S : e \in MapsTo(S) /\ DOMAIN e = {}
    BY NothingMapped
  <2>2. DOMAIN e = {} /\ e \in Seq(Nat)
    BY EmptySeq
  <2>3. b \in [Descriptors -> PathTarget]
    BY DEF PathTarget
  <2>4. FirstNumber \in Nat
    BY DirectoryAssumption
  <2> HIDE DEF b, e
  <2> QED BY <2>1, <2>2, <2>3, <2>4
<1>3. heard = [n \in Descriptors |-> [from |-> 0, names |-> e]]
  BY DEF DirectoriesInit
<1> HIDE DEF b, e
<1>4. t \in FileTables
  BY <1>1, <1>2 DEF FileTables
<1>5. /\ t.bound = b /\ t.files = e /\ t.dirs = e /\ t.fileAt = e /\ t.dirAt = e
      /\ t.nextNumber = FirstNumber
  BY <1>1
<1>6. \A kind \in {"file", "dir"} : OpenOn(t, kind) = {} /\ IdsOf(t, kind) = {}
  BY <1>5, NoneOpen DEF b
<1>7. NumberedOK(t)
  BY <1>2, <1>5 DEF NumberedOK, b
<1>8. NoneLeft(t)
  BY <1>2, <1>5, <1>6 DEF NoneLeft
<1>9. GivenOK(t, heard)
  BY <1>2, <1>3, <1>6 DEF GivenOK
<1>10. ToldOK(t, outcome)
  <2>1. outcome.end = FALSE /\ outcome.call = "none"
    BY DEF DirectoriesInit, Quiet
  <2> QED BY <2>1, ToldNothing
<1> QED BY <1>4, <1>7, <1>8, <1>9, <1>10 DEF DirectoriesInit, DirectoriesInv, TableSound

\* Whatever is called, in whatever order, and however the host changes meanwhile: the
\* tables hold what the descriptors name, and each directory gave what lies before its place.
THEOREM DirectoriesInvariant == DirectoriesSpec => []DirectoriesInv
<1>1. DirectoriesInit => DirectoriesInv
  BY DirectoriesStart
<1>2. DirectoriesInv /\ [DirectoriesNext]_directoryvars => DirectoriesInv'
  <2> SUFFICES ASSUME DirectoriesInv, [DirectoriesNext]_directoryvars PROVE DirectoriesInv'
    OBVIOUS
  <2>1. CASE DirectoryHook /\ UNCHANGED <<regime, hostTree>>
    BY <2>1, DirectoryCallKeeps DEF DirectoriesKept, DirectoriesInv
  <2>2. CASE HostChanges
    BY <2>2 DEF HostChanges, DirectoriesInv
  <2>3. CASE UNCHANGED directoryvars
    BY <2>3 DEF directoryvars, DirectoriesInv
  <2> QED BY <2>1, <2>2, <2>3 DEF DirectoriesNext
<1> QED BY <1>1, <1>2, PTL DEF DirectoriesSpec

\* The invariant makes each directory give its names in order.
LEMMA InOrder == DirectoriesInv => NamesInOrder
<1> SUFFICES ASSUME DirectoriesInv PROVE NamesInOrder
  OBVIOUS
<1>1. TableSound(fileTable) /\ GivenOK(fileTable, heard) /\ ToldOK(fileTable, outcome)
  BY DEF DirectoriesInv
<1>2. ASSUME NEW n \in Descriptors, IsDir(n)
      PROVE  LET listing == fileTable.dirs[fileTable.bound[n].id].listing
                 at == At(fileTable.dirAt, n)
             IN /\ heard[n].names = SubSeq(listing, heard[n].from + 1, at)
                /\ \A i, j \in DOMAIN heard[n].names : i < j => heard[n].names[i] < heard[n].names[j]
                /\ outcome.call = "readdir" /\ outcome.number = n /\ outcome.end => at = Len(listing)
  <2> DEFINE l == fileTable.dirs[fileTable.bound[n].id].listing
             at == At(fileTable.dirAt, n)
             from == heard[n].from
             s == SubSeq(l, from + 1, at)
  <2>1. n \in OpenOn(fileTable, "dir")
    BY <1>2 DEF IsDir, OpenOn
  <2>2. l \in SortedLists /\ l \in Seq(Nat) /\ Len(l) \in Nat /\ at \in 0..Len(l)
    BY <1>1, <2>1, PlaceInside
  <2>3. heard[n].names = s /\ from <= at /\ from \in Nat
    BY <1>1, <2>1 DEF GivenOK, OpenOn
  <2>4. outcome.call = "readdir" /\ outcome.number = n /\ outcome.end => at = Len(l)
    BY <1>1, <2>1 DEF ToldOK
  <2> HIDE DEF l, at, from
  <2>5. from + 1 \in Int /\ at \in Int /\ \A i \in (from + 1)..at : i \in 1..Len(l) /\ l[i] \in Nat
    BY <2>2, <2>3, ElementOfSeq
  <2>6. /\ s \in Seq(Nat) /\ Len(s) = (IF from + 1 <= at THEN at - (from + 1) + 1 ELSE 0)
        /\ \A i \in 1..(at - (from + 1) + 1) : s[i] = l[(from + 1) + i - 1]
    <3> DEFINE m == from + 1
    <3> HIDE DEF m
    <3>1. m \in Int /\ at \in Int /\ \A i \in m..at : l[i] \in Nat
      BY <2>5 DEF m
    <3>2. /\ SubSeq(l, m, at) \in Seq(Nat)
          /\ Len(SubSeq(l, m, at)) = IF m <= at THEN at - m + 1 ELSE 0
          /\ \A i \in 1..(at - m + 1) : SubSeq(l, m, at)[i] = l[m + i - 1]
      BY <3>1, SubSeqProperties
    <3> QED BY <3>2 DEF m
  <2> HIDE DEF s
  <2>7. ASSUME NEW i \in DOMAIN s, NEW j \in DOMAIN s, i < j PROVE s[i] < s[j]
    <3>1. DOMAIN s = 1..Len(s) /\ Len(s) \in Nat
      BY <2>6, LenProperties
    <3>2. Len(s) = at - from
      BY <2>2, <2>3, <2>6
    <3>3. i \in 1..(at - from) /\ j \in 1..(at - from)
      BY <3>1, <3>2
    <3>4. s[i] = l[from + i] /\ s[j] = l[from + j]
      <4>1. from \in Nat /\ at \in Nat /\ i \in Nat /\ j \in Nat
        BY <2>2, <2>3, <3>3
      <4>2. at - (from + 1) + 1 = at - from
        BY <4>1
      <4>3. (from + 1) + i - 1 = from + i /\ (from + 1) + j - 1 = from + j
        BY <4>1
      <4>4. s[i] = l[(from + 1) + i - 1] /\ s[j] = l[(from + 1) + j - 1]
        BY <2>6, <3>3, <4>2
      <4> QED BY <4>3, <4>4
    <3>5. from + i \in 1..Len(l) /\ from + j \in 1..Len(l) /\ from + i < from + j
      BY <2>2, <2>3, <2>7, <3>3
    <3>6. DOMAIN l = 1..Len(l)
      BY <2>2, LenProperties
    <3> QED BY <2>2, <3>4, <3>5, <3>6 DEF SortedLists
  <2> QED BY <2>3, <2>4, <2>7 DEF l, at, from, s
<1> QED BY <1>2 DEF NamesInOrder

LEMMA NothingOver == DirectoriesInv => NothingLeftOver
<1> SUFFICES ASSUME DirectoriesInv PROVE NothingLeftOver
  OBVIOUS
<1>1. NoneLeft(fileTable)
  BY DEF DirectoriesInv, TableSound
<1>2. /\ \A n \in Descriptors : n \in OpenOn(fileTable, "dir") <=> IsDir(n)
      /\ \A n \in Descriptors : n \in OpenOn(fileTable, "file") <=> IsFile(n)
      /\ OpenOn(fileTable, "dir") = {m \in Descriptors : IsDir(m)}
      /\ OpenOn(fileTable, "file") = {m \in Descriptors : IsFile(m)}
  BY DEF OpenOn, IsDir, IsFile
<1>3. \A n \in DOMAIN fileTable.dirAt :
        IsDir(n) /\ fileTable.dirAt[n] <= Len(fileTable.dirs[fileTable.bound[n].id].listing)
  BY <1>1, <1>2 DEF NoneLeft
<1>4. \A n \in DOMAIN fileTable.fileAt :
        /\ IsFile(n)
        /\ LET file == fileTable.files[fileTable.bound[n].id]
           IN file.kind = "random" \/ fileTable.fileAt[n] <= file.size
  BY <1>1, <1>2 DEF NoneLeft
<1> QED BY <1>1, <1>2, <1>3, <1>4 DEF NothingLeftOver, NoneLeft, IdsOf

\* What fstat says of a file just opened, and what a plain open answers.
LEMMA OpenedShows ==
  ASSUME NEW t, NEW h, TableSound(t), GivenOK(t, h), t.nextNumber <= LastNumber,
         NEW route \in Routes, NEW kind \in {"bytes", "random"}, NEW size \in Nat
  PROVE  LET n == t.nextNumber
             u == NewFile(NumberTaken(t), n, route, kind, size)
         IN FstatReply(u, n) = OfLength(IF kind = "random" THEN 0 ELSE size)
<1> DEFINE n == t.nextNumber
           s == NumberTaken(t)
           u == NewFile(s, n, route, kind, size)
<1>1. TableSound(s) /\ GivenOK(s, h) /\ n \in Descriptors /\ Vacant(s, n)
  BY NumberTakenSound
<1> HIDE DEF n, s
<1>2. GivenBut(s, h, n)
  BY <1>1, GivenAll
<1>3. Names(u, n, "file", s.nextFile) /\ FileIs(u, s.nextFile, route, kind, size)
  BY <1>1, <1>2, NewFileSound
<1> HIDE DEF u
<1>4. /\ u.bound[n].kind = "file" /\ u.bound[n].id = s.nextFile
      /\ u.files[s.nextFile].kind = kind /\ u.files[s.nextFile].size = size
  BY <1>3 DEF Names, FileIs
<1>5. FstatReply(u, n) = OfLength(FileLength(u, s.nextFile))
  BY <1>4 DEF FstatReply
<1>6. FstatReply(u, n) = OfLength(IF kind = "random" THEN 0 ELSE size)
  BY <1>4, <1>5 DEF FileLength
<1> QED BY <1>6 DEF n, s, u
LEMMA OpenedDir ==
  ASSUME NEW t, NEW h, TableSound(t), GivenOK(t, h), t.nextNumber <= LastNumber,
         NEW route \in Routes, NEW listing \in SortedLists
  PROVE  LET n == t.nextNumber
         IN NewDir(NumberTaken(t), n, route, listing).bound[n].kind = "dir"
<1> DEFINE n == t.nextNumber
           s == NumberTaken(t)
           u == NewDir(s, n, route, listing)
<1>1. TableSound(s) /\ GivenOK(s, h) /\ n \in Descriptors /\ Vacant(s, n)
  BY NumberTakenSound
<1> HIDE DEF n, s
<1>2. GivenBut(s, h, n)
  BY <1>1, GivenAll
<1>3. /\ TableSound(u) /\ GivenBut(u, h, n) /\ Names(u, n, "dir", s.nextDir)
      /\ At(u.dirAt, n) = 0
  BY <1>1, <1>2, NewDirSound
<1> HIDE DEF u
<1>4. u.bound[n].kind = "dir"
  BY <1>3 DEF Names
<1> QED BY <1>4 DEF n, s, u

\* A reply and an open agree.
Agrees(reply, f) ==
  /\ reply.errno = f.errno
  /\ f.errno = 0 /\ f.table.bound[f.number].kind = "file" => reply = FstatReply(f.table, f.number)
LEMMA RepliesAre ==
  ASSUME NEW size
  PROVE  OfLength(size).errno = 0 /\ OfLength(size) # Missing /\ Missing.errno = 2
<1>1. OfLength(size).errno = 0 /\ Missing.errno = 2
  BY DEF OfLength, Missing
<1> QED BY <1>1
LEMMA AgreesWith ==
  ASSUME NEW reply, NEW t, NEW n, NEW e, reply.errno = e,
         e = 0 /\ t.bound[n].kind = "file" => reply = FstatReply(t, n)
  PROVE  Agrees(reply, Answer(t, n, e))
BY AnswerIs DEF Agrees

LEMMA AgreesMissing == ASSUME NEW t PROVE Agrees(Missing, Answer(t, 0, 2))
<1>1. Missing.errno = 2 /\ 2 # 0
  BY DEF Missing
<1>2. Answer(t, 0, 2).errno = 2
  BY AnswerIs
<1> QED BY <1>1, <1>2 DEF Agrees

LEMMA StatForetells ==
  ASSUME DirectoriesInv, NEW route \in Routes, fileTable.nextNumber <= LastNumber,
         hostTree[route].kind \notin {"sealed file", "sealed folder"}
  PROVE  Agrees(StatClosed(route), Opened(fileTable, route, FALSE))
<1> DEFINE n == fileTable.nextNumber
           s == NumberTaken(fileTable)
           found == Opened(fileTable, route, FALSE)
           node == hostTree[route]
<1>1. /\ TableSound(fileTable) /\ GivenOK(fileTable, heard) /\ hostTree \in Trees
      /\ regime \in Regimes
  BY DEF DirectoriesInv
<1>2. found = IF regime = "bare" THEN OpenedBare(s, n, route, FALSE)
              ELSE OpenedByPolicy(s, n, route, FALSE)
  BY DEF Opened, NumberTaken
<1>3. /\ node.kind \in {"none", "file", "folder"} /\ node.size \in Nat
      /\ Listing(node.names) \in SortedLists /\ (node.kind = "none" => node = Absent)
      /\ (node = Absent => node.kind = "none")
  <2>1. /\ node.kind \in {"none", "file", "folder"} /\ node.size \in Nat
        /\ Listing(node.names) \in SortedLists /\ (node.kind = "none" => node = Absent)
    BY <1>1, TreesAre
  <2>2. Absent.kind = "none"
    BY DEF Absent
  <2> QED BY <2>1, <2>2
<1> DEFINE File(kind, size) == Answer(NewFile(s, n, route, kind, size), n, 0)
           Dir(l) == Answer(NewDir(s, n, route, l), n, 0)
<1>4. ASSUME NEW kind \in {"bytes", "random"}, NEW size \in Nat, NEW reply,
             reply = OfLength(IF kind = "random" THEN 0 ELSE size)
      PROVE  Agrees(reply, File(kind, size))
  <2>1. FstatReply(NewFile(s, n, route, kind, size), n) = reply
    BY <1>1, <1>4, OpenedShows
  <2>2. reply.errno = 0
    BY <1>4, RepliesAre
  <2> HIDE DEF n, s
  <2> QED BY <2>1, <2>2, AgreesWith
<1>5. ASSUME NEW l \in SortedLists, NEW reply, reply.errno = 0
      PROVE  Agrees(reply, Dir(l))
  <2>1. NewDir(s, n, route, l).bound[n].kind = "dir"
    BY <1>1, OpenedDir
  <2> HIDE DEF n, s
  <2> QED BY <1>5, <2>1, AgreesWith
<1>6. Agrees(Missing, Answer(s, 0, 2))
  BY AgreesMissing
<1>7. \A size : OfLength(size).errno = 0 /\ OfLength(size) # Missing
  BY RepliesAre
<1> HIDE DEF found, s, n, node
<1>8. CASE Sketch[route].form = "random"
  <2>1. found = File("random", 0)
    BY <1>2, <1>8 DEF OpenedBare, OpenedByPolicy
  <2>2. StatClosed(route) = OfLength(0)
    BY <1>7, <1>8 DEF StatClosed, StatOnHost
  <2>3. Agrees(OfLength(0), File("random", 0))
    BY <1>4
  <2> QED BY <2>1, <2>2, <2>3 DEF found
<1>9. CASE Sketch[route].form # "random" /\ node # Absent
  <2>1. found = Existing(s, n, route) /\ StatClosed(route) = OfLength(node.size)
    BY <1>2, <1>7, <1>9 DEF OpenedBare, OpenedByPolicy, StatClosed, StatOnHost, node
  <2>2. found = IF node.kind = "folder" THEN Dir(Listing(node.names)) ELSE File("bytes", node.size)
    BY <1>3, <1>9, <2>1 DEF Existing, node
  <2>3. Agrees(OfLength(node.size), File("bytes", node.size))
    BY <1>3, <1>4
  <2>4. Agrees(OfLength(node.size), Dir(Listing(node.names)))
    BY <1>3, <1>5, <1>7
  <2> QED BY <2>1, <2>2, <2>3, <2>4 DEF found
<1>10. CASE Sketch[route].form # "random" /\ node = Absent /\ Materialises(route)
  <2>1. found = Answer(Synthesized(s, n, route), n, 0)
    BY <1>2, <1>10 DEF OpenedByPolicy, Materialises, node
  <2>2. StatClosed(route) = OfLength(MadeLength(route))
    BY <1>10 DEF StatClosed, StatOnHost, node
  <2>3. found = IF LooksLikeDirectory(route) THEN Dir(MadeListing(route)) ELSE File("bytes", MadeLength(route))
    BY <2>1 DEF Synthesized
  <2>4. Agrees(OfLength(MadeLength(route)), File("bytes", MadeLength(route)))
    BY <1>4, MadeIsNat
  <2>5. Agrees(OfLength(MadeLength(route)), Dir(MadeListing(route)))
    BY <1>5, <1>7, MadeSorts
  <2> QED BY <2>2, <2>3, <2>4, <2>5 DEF found
<1>11. CASE Sketch[route].form # "random" /\ node = Absent /\ ~Materialises(route)
  <2>1. found = Answer(s, 0, 2)
    BY <1>2, <1>11 DEF OpenedByPolicy, OpenedBare, node
  <2>2. StatClosed(route) = Missing
    BY <1>11 DEF StatClosed, StatOnHost, node
  <2> QED BY <1>6, <2>1, <2>2 DEF found
<1> QED BY <1>8, <1>9, <1>10, <1>11

LEMMA StatHonest == DirectoriesInv => StatMatchesOpen
<1> SUFFICES ASSUME DirectoriesInv, NEW route \in Routes,
                    NEW reply \in StatReplies(fileTable, route)
             PROVE  LET users == {n \in Descriptors :
                          \/ IsFile(n) /\ fileTable.files[fileTable.bound[n].id].route = route
                          \/ IsDir(n) /\ fileTable.dirs[fileTable.bound[n].id].route = route}
                        found == Opened(fileTable, route, FALSE)
                        readable == hostTree[route].kind \notin {"sealed file", "sealed folder"}
                    IN IF users # {} THEN \E n \in users : reply = FstatReply(fileTable, n)
                       ELSE readable /\ fileTable.nextNumber <= LastNumber =>
                         /\ reply.errno = found.errno
                         /\ found.errno = 0 /\ found.table.bound[found.number].kind = "file" =>
                              reply = FstatReply(found.table, found.number)
  BY DEF StatMatchesOpen
<1> DEFINE t == fileTable
           users == {n \in Descriptors :
                       \/ IsFile(n) /\ t.files[t.bound[n].id].route = route
                       \/ IsDir(n) /\ t.dirs[t.bound[n].id].route = route}
           openFiles == {id \in DOMAIN t.files : t.files[id].route = route}
           openDirs == {id \in DOMAIN t.dirs : t.dirs[id].route = route}
<1>1. TableSound(t) /\ NoneLeft(t)
  BY DEF DirectoriesInv, TableSound
<1>2. /\ openFiles # {} => \E id \in openFiles : reply = OfLength(FileLength(t, id))
      /\ openFiles = {} /\ openDirs # {} => reply = OfLength(0)
      /\ openFiles = {} /\ openDirs = {} => reply = StatClosed(route)
  BY DEF StatReplies
<1>3. CASE openFiles # {}
  <2>1. PICK id \in openFiles : reply = OfLength(FileLength(t, id))
    BY <1>2, <1>3
  <2>2. PICK n \in OpenOn(t, "file") : t.bound[n].id = id
    BY <1>1, <2>1 DEF NoneLeft, IdsOf
  <2>3. n \in users /\ t.bound[n].kind = "file"
    BY <2>1, <2>2 DEF OpenOn, IsFile
  <2>4. reply = FstatReply(t, n)
    BY <2>1, <2>2, <2>3 DEF FstatReply
  <2> QED BY <2>3, <2>4
<1>4. CASE openFiles = {} /\ openDirs # {}
  <2>1. PICK id \in openDirs : TRUE
    BY <1>4
  <2>2. PICK n \in OpenOn(t, "dir") : t.bound[n].id = id
    BY <1>1, <2>1 DEF NoneLeft, IdsOf
  <2>3. n \in users /\ t.bound[n].kind = "dir"
    BY <2>1, <2>2 DEF OpenOn, IsDir
  <2>4. reply = FstatReply(t, n)
    BY <1>2, <1>4, <2>3 DEF FstatReply
  <2> QED BY <2>3, <2>4
<1>5. CASE openFiles = {} /\ openDirs = {}
  <2>1. users = {}
    <3>1. ASSUME NEW n \in users PROVE FALSE
      <4>1. n \in OpenOn(t, "file") => t.bound[n].id \in DOMAIN t.files
        BY <1>1, Named
      <4>2. n \in OpenOn(t, "dir") => t.bound[n].id \in DOMAIN t.dirs
        BY <1>1, Named
      <4> QED BY <1>5, <4>1, <4>2 DEF OpenOn, IsFile, IsDir
    <3> QED BY <3>1
  <2>2. reply = StatClosed(route)
    BY <1>2, <1>5
  <2>3. ASSUME hostTree[route].kind \notin {"sealed file", "sealed folder"},
               t.nextNumber <= LastNumber
        PROVE  Agrees(reply, Opened(t, route, FALSE))
    BY <2>2, <2>3, StatForetells
  <2> HIDE DEF users
  <2> QED BY <2>1, <2>3 DEF Agrees, users
<1> QED BY <1>3, <1>4, <1>5

\* A directory gives its names in their order and none twice, however it is duplicated and
\* closed between; no file, directory or place is left behind its last descriptor; a failed
\* open leaves nothing; and stat tells what an open will show.
THEOREM DirectoriesAreHonest == DirectoriesSpec => []DirectoriesHonest
<1>1. DirectoriesInv => FailuresClean
  BY DEF DirectoriesInv, ToldOK, FailuresClean
<1>2. DirectoriesInv => DirectoriesHonest
  BY <1>1, InOrder, NothingOver, StatHonest DEF DirectoriesHonest
<1> QED BY <1>2, DirectoriesInvariant, PTL
================================================================================
