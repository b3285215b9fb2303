----------------------------- MODULE MCPresence -----------------------------
(***************************************************************************)
(* Presence with the times of the code in units of 2.5 seconds, for TLC.  *)
(***************************************************************************)
EXTENDS Presence
=============================================================================
