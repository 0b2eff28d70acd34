--------------------------- MODULE MCGuestProcesses ---------------------------
(***************************************************************************)
(* Small instances of the process table for TLC: two synthetic threads and *)
(* three processes, enough for a fork in a forked child and for a thread   *)
(* of a process that has others.  Tables, ids and queues are bounded by    *)
(* the constants; no state constraint is needed.                           *)
(***************************************************************************)
EXTENDS GuestProcesses

\* waitpid(0, ...) and waitpid(pid, ...) for each pid a child can have.
NamedArgs == {0, 2, 3}
\* The same and waitpid(-1, ...).
AllArgs == NamedArgs \cup {AnyChild}
===============================================================================
