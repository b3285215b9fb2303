----------------------------- MODULE MCExchange -----------------------------
(***************************************************************************)
(* An instance of Exchange for TLC.                                        *)
(***************************************************************************)
EXTENDS Exchange

TheRequest == << "q1", "q2" >>
TheResponse == << "r1", "r2" >>
TheDocument == << "d1", "d2", "d3" >>
ThePage == << "p1", "p2" >>
=============================================================================
