------------------------------ MODULE MCDevice ------------------------------
(***************************************************************************)
(* Instances of Device for TLC.                                            *)
(***************************************************************************)
EXTENDS Device

CONSTANTS s1, s2, d1, d2, a1, f1

OneSubscriber == {s1}
TwoSubscribers == {s1, s2}
FirstSubscriber == {s1}
OneDropper == {d1}
OneAction == {a1}
OneFile == {f1}
SluggishRequests == {s1, f1}
Nobody == {}
=============================================================================
