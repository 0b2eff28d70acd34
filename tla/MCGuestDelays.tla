----------------------------- MODULE MCGuestDelays -----------------------------
(***************************************************************************)
(* Small instances of the delay hooks for TLC.  The thresholds 3, 50, 25   *)
(* and 4 of the code are scaled down in the configurations; the counters   *)
(* saturate or wrap at them, so that the state space is finite.            *)
(***************************************************************************)
EXTENDS GuestDelays
===============================================================================
