---------------------------- MODULE MCGenaThreads ----------------------------
(***************************************************************************)
(* An instance of GenaThreads for TLC: three connections, one of them with *)
(* a thread that cannot be created.                                        *)
(***************************************************************************)
EXTENDS GenaThreads

CONSTANTS c1, c2, c3

ThreeConns == {c1, c2, c3}
Second == {c2}
=============================================================================
