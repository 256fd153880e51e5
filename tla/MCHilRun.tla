------------------------------- MODULE MCHilRun -------------------------------
(***************************************************************************)
(* TLC instance of HilRun: one RTL source, which one edit breaks and       *)
(* another repairs; four cells that hold the head descriptor, a source     *)
(* byte, a destination, and the byte after it.                             *)
(***************************************************************************)
EXTENDS HilRun, TLC

MCSources == <<"project.v">>
MCCells == {"head", "src", "dest", "next"}
MCGarbage == {[c \in MCCells |-> 64]}          \* what the destination should hold
MCDefects == {{<<"project.v", 2>>}}
MCZeros == {[c \in MCCells |-> 0]}

TcRestart ==
  Directed("TC-RESTART", ("head" :> 4) @@ ("src" :> 64), "dest" :> "src", {"head"}, TRUE)
Overlap ==
  Directed("TC-OVERLAP", ("head" :> 2) @@ ("src" :> 1) @@ ("dest" :> 2) @@ ("next" :> 3),
           ("dest" :> "src") @@ ("next" :> "dest"), {"head"}, FALSE)
RandomChain ==
  Random("random-0", ("head" :> 3) @@ ("src" :> 90) @@ ("next" :> 7),
         "dest" :> "src", {"head"})

MCCommands ==
  {Command("build", "native"), Command("reuse", "native"),
   Command("stale", "native"), Command("bitstream", "official"),
   Command("upload", "official")}

MCCases == {TcRestart, Overlap, RandomChain}
=============================================================================
