------------------------------ MODULE MCCatalog ------------------------------
(***************************************************************************)
(* An instance of Catalog for TLC: two folders, a file in one of them, a  *)
(* movie, and a file whose name cannot be inserted.                        *)
(***************************************************************************)
EXTENDS Catalog, TLC

CONSTANTS root, a, b, x, m, q

FiveEntries == {a, b, x, m, q}
TheirParents == a :> root @@ b :> root @@ x :> b @@ m :> root @@ q :> root
TheirKinds == a :> "folder" @@ b :> "folder" @@ x :> "other" @@ m :> "movie" @@ q :> "other"
TheRank == [t \in FiveEntries \X BOOLEAN |->
  IF t[2] THEN 9 ELSE (a :> 3 @@ b :> 1 @@ x :> 2 @@ m :> 2 @@ q :> 1)[t[1]]]
ThePages == {<< 0, 2 >>, << 2, 2 >>}
=============================================================================
