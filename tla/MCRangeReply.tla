---------------------------- MODULE MCRangeReply ----------------------------
(***************************************************************************)
(* An instance of RangeReply for TLC: an int has four bits and a long long *)
(* six, so that there are files an int cannot count and files it counts    *)
(* wrong.                                                                  *)
(***************************************************************************)
EXTENDS RangeReply

Places == {0, 1, 4, 7, 9, 18, 20, 63}
AllRequests == [method: {"GET", "HEAD"}, ranged: BOOLEAN, start: Places, bounded: BOOLEAN, stop: Places]
SomeSizes == {0, 1, 5, 7, 8, 9, 18}
=============================================================================
