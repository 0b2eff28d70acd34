------------------------------ MODULE KextServices ------------------------------
(***************************************************************************)
(* What a kernel extension finds when it is loaded: a heap that is cleared *)
(* at every load, the list of processes built in its memory, callbacks for *)
(* events, and policies.  The embedding program calls these operations;    *)
(* the extension itself only runs inside of emulator.run.                  *)
(*                                                                         *)
(* An address is a number of quanta of 16 bytes above the heap's base plus *)
(* one, 0 is none.  A process keeps the pointers of the list at 0x10 and   *)
(* 0x18.  `writes` is how many writes to memory succeed in a call.         *)
(***************************************************************************)
EXTENDS Integers, Sequences, FiniteSets, SequencesExt

CONSTANTS AddedPids,         \* of the processes the embedder adds
          EventKeys,    \* [type, name, proto]: proto 0 is no protocol
          Addrs,        \* addresses of callbacks
          Policies,     \* names
          MaxLoads, MaxProcs, MaxCallbacks, MaxJobs     \* bounds of the model

ASSUME KextAssumption ==
  /\ AddedPids \subseteq Nat /\ {MaxLoads, MaxProcs, MaxCallbacks, MaxJobs} \subseteq Nat
  /\ IsFiniteSet(EventKeys) /\ \A k \in EventKeys : k.proto \in Nat

VARIABLES list,         \* heap.current, allproc, my_procs and the list in memory
          callbacks, jobs,      \* MacOsEventManager
          policies,     \* MacOsPolicyManager: names and hooked checks
          loads, halfway, cleared, dirty,       \* histories: calls of load_kext, whether a
                        \* process was linked in part, whether blocks of listed
                        \* processes, or such with old links, are handed out again
          due, ran, failed,     \* jobs that were emitted, that ran, and whether a
                        \* trigger dropped some
          latest, asked \* what was last hooked, and whom the last check asked
listvars == <<list, loads, halfway, cleared, dirty>>
eventvars == <<callbacks, jobs, due, ran, failed>>
policyvars == <<policies, latest, asked>>
kextvars == <<listvars, eventvars, policyvars>>

\* Memory: what was never written is 0.
At(cells, a) == IF a \in DOMAIN cells THEN cells[a] ELSE 0
Put(cells, a, v) == [b \in DOMAIN cells \cup {a} |-> IF b = a THEN v ELSE cells[b]]

KextInit ==
  /\ list = [current |-> 1, allproc |-> FALSE, procs |-> <<>>, head |-> 0,
             next |-> <<>>, prev |-> <<>>]
  /\ loads = 0 /\ halfway = FALSE /\ cleared = FALSE /\ dirty = FALSE
  /\ callbacks = [k \in EventKeys |-> <<>>]
  /\ jobs = <<>> /\ due = <<>> /\ ran = <<>> /\ failed = FALSE
  /\ policies = <<>> /\ latest = [p \in Policies |-> 0] /\ asked = [by |-> 0, want |-> 0]

-------------------------------------------------------------------------------
(***************************************************************************)
(* Processes.                                                              *)
(***************************************************************************)
PolicyListSize == 2
ProcSize == 16
CredSize == 8
KmodSize == 16
TmpSize == 1

\* The process a new one is linked behind.
\* Mutant: the first one.
NeighbourFirst(procs) == Head(procs)
Neighbour(procs) == Last(procs)

\* The stages of a call go on while none failed: ok, writes left, half a link left.
Stage(l, writes, half) == [l |-> l, writes |-> writes, ok |-> TRUE, half |-> half]
\* A process and its credentials are allocated even if what follows fails.
Allotted(l) == [l EXCEPT !.current = @ + ProcSize + CredSize]
Listed(l, pid) == Append(l.procs, [pid |-> pid, addr |-> l.current])
\* The first one is what _allproc points to.
AddFirst(s, pid) ==
  IF s.l.allproc /\ s.writes = 0 THEN [s EXCEPT !.l = Allotted(s.l), !.ok = FALSE]
  ELSE [s EXCEPT !.l = [Allotted(s.l) EXCEPT !.procs = Listed(s.l, pid),
                                             !.head = IF s.l.allproc THEN s.l.current ELSE @],
                 !.writes = IF s.l.allproc THEN @ - 1 ELSE @]
\* The others are linked behind the last one, by a write to each of the two.
AddBehind(s, pid) ==
  LET last == Neighbour(s.l.procs).addr
      linked == [Allotted(s.l) EXCEPT !.next = Put(@, last, s.l.current)]
  IN CASE s.writes = 0 -> [s EXCEPT !.l = Allotted(s.l), !.ok = FALSE]
       [] s.writes = 1 -> [s EXCEPT !.l = linked, !.ok = FALSE, !.half = TRUE]
       [] OTHER -> [s EXCEPT !.l = [linked EXCEPT !.procs = Listed(s.l, pid),
                                                  !.prev = Put(@, s.l.current, last)],
                             !.half = FALSE, !.writes = @ - 2]
AddProcess(s, pid) ==
  IF ~s.ok \/ \E p \in ToSet(s.l.procs) : p.pid = pid THEN s
  ELSE IF s.l.procs = <<>> THEN AddFirst(s, pid) ELSE AddBehind(s, pid)

EmbedderAdds(pid, writes) ==
  LET s == AddProcess(Stage(list, writes, halfway), pid)
  IN /\ list.current <= (ProcSize + CredSize) * MaxProcs     \* a bound of the model
     /\ list' = s.l /\ halfway' = s.half
     /\ UNCHANGED <<loads, cleared, dirty, eventvars, policyvars>>

\* load_kext: the heap is cleared; a list of policies and processes are set up for
\* the kernel symbols there are; then the extension is allocated and run.  Only
\* _allproc makes it forget the processes of the load before.
LoadKext(policyList, allproc, ioKit, writes) ==
  LET at == 1 + (IF policyList THEN PolicyListSize ELSE 0)
      start == Stage([list EXCEPT !.current = at,
                                   !.procs = IF allproc THEN <<>> ELSE @,
                                   !.allproc = @ \/ allproc],
                      IF policyList THEN writes - 1 ELSE writes, halfway /\ ~allproc)
      set == IF allproc THEN AddProcess(AddProcess(AddProcess(start, 0), 4919), 1) ELSE start
      room == IF set.ok THEN (IF ioKit THEN TmpSize ELSE KmodSize) ELSE 0
  IN /\ loads < MaxLoads /\ loads' = loads + 1
     /\ dirty' = (dirty \/ list.next # <<>>)
     /\ IF policyList /\ writes = 0
        THEN \* set_allproc was not reached
             /\ list' = [list EXCEPT !.current = at]
             /\ cleared' = (cleared \/ list.procs # <<>>) /\ UNCHANGED halfway
        ELSE /\ list' = [set.l EXCEPT !.current = @ + room]
             /\ halfway' = set.half
             /\ cleared' = (~allproc /\ (cleared \/ list.procs # <<>>))
     /\ UNCHANGED <<eventvars, policyvars>>

-------------------------------------------------------------------------------
(***************************************************************************)
(* Events.                                                                 *)
(***************************************************************************)
Register(addr, k) ==
  /\ Cardinality(UNION {{key} \X DOMAIN callbacks[key] : key \in EventKeys}) < MaxCallbacks
  /\ callbacks' = [callbacks EXCEPT ![k] = Append(@, addr)]
  /\ UNCHANGED <<jobs, due, ran, failed, listvars, policyvars>>
\* Jobs of a callback that is no longer registered stay.
Deregister(name) ==
  /\ callbacks' = [k \in EventKeys |-> IF k.name = name THEN <<>> ELSE callbacks[k]]
  /\ UNCHANGED <<jobs, due, ran, failed, listvars, policyvars>>

JobsOf(k) == [i \in DOMAIN callbacks[k] |-> [cb |-> callbacks[k][i], key |-> k]]
QueueJobs(keys) ==
  LET new == FlattenSeq([i \in DOMAIN keys |-> JobsOf(keys[i])])
  IN /\ Len(due) + Len(new) <= MaxJobs
     /\ jobs' = jobs \o new /\ due' = due \o new
     /\ UNCHANGED <<callbacks, ran, failed, listvars, policyvars>>
Orders(keys) == {s \in [1..Cardinality(keys) -> keys] : ToSet(s) = keys}
EmitNamed(name, type) ==
  \E keys \in Orders({k \in EventKeys : k.name = name /\ k.type = type /\ k.proto = 0}) :
    QueueJobs(keys)
\* The keys come in the order of a hash table, which is any.
EmitByType(type) == \E keys \in Orders({k \in EventKeys : k.type = type}) : QueueJobs(keys)
EmitByTypeAndProto(type, proto) ==
  \E keys \in Orders({k \in EventKeys : k.type = type /\ k.proto = proto}) : QueueJobs(keys)

\* Each job runs; one that fails ends the loop, and draining drops the rest.
Trigger(done) ==
  /\ jobs # <<>> /\ done \in 0..Len(jobs)
  /\ ran' = ran \o SubSeq(jobs, 1, done) /\ jobs' = <<>>
  /\ failed' = (failed \/ done < Len(jobs))
  /\ UNCHANGED <<callbacks, due, listvars, policyvars>>

-------------------------------------------------------------------------------
(***************************************************************************)
(* Policies: one of the checks stands for each of the twenty-nine.         *)
(***************************************************************************)
RegisterPolicy(name) ==
  /\ Len(policies) < 3
  /\ policies' = Append(policies, [name |-> name, hooked |-> 0])
  /\ UNCHANGED <<latest, asked, listvars, eventvars>>
Found(name) == {i \in DOMAIN policies : policies[i].name = name /\ \A j \in 1..(i - 1) : policies[j].name # name}
HookPolicyCallback(name, addr) ==
  /\ policies' = [i \in DOMAIN policies |->
                    IF i \in Found(name) THEN [policies[i] EXCEPT !.hooked = addr] ELSE policies[i]]
  /\ latest' = [latest EXCEPT ![name] = IF Found(name) = {} THEN @ ELSE addr]
  /\ UNCHANGED <<asked, listvars, eventvars>>
\* trigger_vnode_check and its kind: without a callback the answer is 0, allowed.
PolicyCheck(name) ==
  /\ asked' = [by |-> IF Found(name) = {} THEN 0 ELSE policies[CHOOSE i \in Found(name) : TRUE].hooked,
               want |-> latest[name]]
  /\ UNCHANGED <<policies, latest, listvars, eventvars>>

ListStep ==
  \/ \E pid \in AddedPids, writes \in 0..2 : EmbedderAdds(pid, writes)
  \/ \E policyList, allproc, ioKit \in BOOLEAN, writes \in 0..6 : LoadKext(policyList, allproc, ioKit, writes)
EventStep ==
  \/ \E k \in EventKeys : \/ \E addr \in Addrs : Register(addr, k)
                          \/ Deregister(k.name) \/ EmitNamed(k.name, k.type)
                          \/ EmitByType(k.type) \/ EmitByTypeAndProto(k.type, k.proto)
  \/ \E done \in 0..MaxJobs : Trigger(done)
PolicyStep ==
  \E name \in Policies : \/ RegisterPolicy(name) \/ PolicyCheck(name)
                         \/ \E addr \in Addrs : HookPolicyCallback(name, addr)
KextNext == ListStep \/ EventStep \/ PolicyStep
KextSpec == KextInit /\ [][KextNext]_kextvars

-------------------------------------------------------------------------------
\* The extension that walks the list from allproc finds the processes the manager
\* knows, each once, and comes back the same way, also after a load or an addition
\* that failed in any of its writes and after another load; only a load without
\* _allproc over listed processes breaks it, as the heap is handed out again.
ProcsLinked ==
  LET procs == list.procs IN
  /\ IsInjective([i \in DOMAIN procs |-> procs[i].pid])
  /\ ~cleared =>
       /\ \A i \in 1..(Len(procs) - 1) : /\ At(list.next, procs[i].addr) = procs[i + 1].addr
                                         /\ At(list.prev, procs[i + 1].addr) = procs[i].addr
       /\ \A i \in DOMAIN procs : procs[i].addr + ProcSize + CredSize <= list.current
       /\ procs # <<>> /\ list.allproc => list.head = procs[1].addr
       /\ procs # <<>> /\ ~dirty /\ ~halfway => At(list.next, Last(procs).addr) = 0

\* A job runs once and in the order of the emissions, whatever was deregistered since;
\* jobs are only missing after a job that failed.
JobsAccounted ==
  IF failed THEN Len(ran) + Len(jobs) <= Len(due) ELSE ran \o jobs = due

\* A check asks what was last hooked for its name, although names may be registered twice.
ChecksLatest == asked.by = asked.want

KextHonest == ProcsLinked /\ JobsAccounted /\ ChecksLatest
===============================================================================
