------------------------------- MODULE MCDmaCore -------------------------------
(***************************************************************************)
(* TLC instance of DmaCore, chunks of at most two bytes: two staged chains *)
(* for safety, one of them for liveness.                                   *)
(***************************************************************************)
EXTENDS DmaCore, Staging

MCImages == {CrossChain, SelfChain}
MCLiveImages == {CrossChain}
=============================================================================
