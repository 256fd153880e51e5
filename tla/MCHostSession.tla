----------------------------- MODULE MCHostSession -----------------------------
(***************************************************************************)
(* TLC instance of HostSession; the number of interruptions is in the cfg. *)
(***************************************************************************)
EXTENDS HostSession
=============================================================================
