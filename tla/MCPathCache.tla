---------------------------- MODULE MCPathCache ----------------------------
(***************************************************************************)
(* An instance of PathCache for TLC: a directory that another one of the   *)
(* same title may replace, a file in each, and an item without a source.   *)
(***************************************************************************)
EXTENDS PathCache, TLC

CONSTANTS dev, dirA, dirB, fileA, fileB, item, dirTitle, fileTitle, itemTitle, hiddenName

OneDevice == {dev}
TheObjects == {dirA, dirB, fileA, fileB, item}
TheParents == dirA :> dev @@ dirB :> dev @@ item :> dev @@ fileA :> dirA @@ fileB :> dirB
TheTitles == dirA :> dirTitle @@ dirB :> dirTitle @@ item :> itemTitle
             @@ fileA :> fileTitle @@ fileB :> fileTitle
ThePathOf == [n \in OneDevice \cup TheObjects |->
  CASE n = dev -> << dev >>
    [] n \in {dirA, dirB} -> << dev, dirTitle >>
    [] n \in {fileA, fileB} -> << dev, dirTitle, fileTitle >>
    [] n = item -> << dev, itemTitle >>]
TheContainers == {dirA, dirB}
TheFiles == {fileA, fileB}
TheHidden == {hiddenName}
ThePaths == {<< dev >>, << dev, dirTitle >>, << dev, dirTitle, fileTitle >>,
             << dev, itemTitle >>, << dev, fileTitle >>, << dev, hiddenName >>}
=============================================================================
