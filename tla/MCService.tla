----------------------------- MODULE MCService -----------------------------
(***************************************************************************)
(* TLC instance of Service.                                                *)
(***************************************************************************)
EXTENDS Service
============================================================================
