---------------------------- MODULE MCRemoteRead ----------------------------
(***************************************************************************)
(* The instance of RemoteRead for TLC; its constants are numbers.          *)
(***************************************************************************)
EXTENDS RemoteRead
=============================================================================
