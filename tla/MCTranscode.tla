----------------------------- MODULE MCTranscode ----------------------------
(***************************************************************************)
(* Instances of Transcode for TLC; the sizes are given by the .cfg files.  *)
(***************************************************************************)
EXTENDS Transcode
=============================================================================
