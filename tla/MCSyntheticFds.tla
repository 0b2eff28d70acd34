----------------------------- MODULE MCSyntheticFds -----------------------------
(***************************************************************************)
(* Small instances of the descriptor tables for TLC: two processes, a      *)
(* handful of numbers; MaxFd bounds what is opened and Capacity what is    *)
(* written, so the state space is finite without a constraint.  Processes  *)
(* are interchangeable: no operator orders them or names one.              *)
(***************************************************************************)
EXTENDS SyntheticFds, TLC

ProcsSymmetry == Permutations(Procs)
===============================================================================
