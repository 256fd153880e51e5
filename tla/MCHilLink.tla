------------------------------- MODULE MCHilLink -------------------------------
(***************************************************************************)
(* TLC instances of HilLink; the bounds are in the cfgs.                   *)
(***************************************************************************)
EXTENDS HilLink
=============================================================================
