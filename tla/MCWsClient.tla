----------------------------- MODULE MCWsClient ------------------------------
(* Instances of WsClient for TLC; all its constants are numbers. *)
EXTENDS WsClient
=============================================================================
