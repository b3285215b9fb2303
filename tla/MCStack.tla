------------------------------ MODULE MCStack ------------------------------
(***************************************************************************)
(* An instance of Stack for TLC.                                           *)
(***************************************************************************)
EXTENDS Stack

CONSTANTS r1, r2

TheServices == {2}
TwoRequests == {r1, r2}
=============================================================================
