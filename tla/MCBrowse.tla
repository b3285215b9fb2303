------------------------------ MODULE MCBrowse ------------------------------
(***************************************************************************)
(* Instances of Browse for TLC: a folder, three tracks and a movie, paged  *)
(* two by two.  The title of one track, that of the movie and one more     *)
(* character, cannot be written in XML.                                    *)
(***************************************************************************)
EXTENDS Browse

CONSTANTS folder, t1, t2, t3, movie

FiveEntries == {folder, t1, t2, t3, movie}
TheirTypes == [e \in FiveEntries |-> CASE e = folder -> "storageFolder" [] e = movie -> "movie" [] OTHER -> "musicTrack"]
TheirTitles == [e \in FiveEntries |->
  CASE e = t1 -> << 2, 3 >> [] e = movie -> << 3 >> [] e = t2 -> << 3, 1 >> [] e = folder -> << 4 >> [] OTHER -> << 5 >>]
=============================================================================
