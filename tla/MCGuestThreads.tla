---------------------------- MODULE MCGuestThreads ----------------------------
(***************************************************************************)
(* Small instances of the scheduler for TLC.  Every variable of            *)
(* GuestThreads is bounded by the constants, so no state constraint is     *)
(* needed: the ids are capped by MaxThreads and the stored signals         *)
(* saturate at SignalMax.                                                  *)
(***************************************************************************)
EXTENDS GuestThreads
===============================================================================
