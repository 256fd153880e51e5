-------------------------------- MODULE MCPsram --------------------------------
(***************************************************************************)
(* TLC instance of Psram: a span of two pulses and one of a single pulse,  *)
(* on different devices.                                                   *)
(***************************************************************************)
EXTENDS Psram

MCRequests == {<<0, 2, 5>>, <<1, 1, 1>>}
MCTop == 7
=============================================================================
