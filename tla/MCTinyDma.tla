------------------------------- MODULE MCTinyDma -------------------------------
(***************************************************************************)
(* TLC instance of TinyDma, chunks of at most two bytes: a chain of three  *)
(* chunks for safety, a chain of one for liveness.                         *)
(***************************************************************************)
EXTENDS TinyDma, Staging

MCImages == {CrossChain}
MCLiveImages == {ShortChain}
=============================================================================
