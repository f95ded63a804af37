----------------------------- MODULE MCWsClient -----------------------------
(***************************************************************************)
(* TLC instances of WsClient.                                              *)
(***************************************************************************)
EXTENDS WsClient
============================================================================
