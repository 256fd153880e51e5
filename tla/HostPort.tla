-------------------------------- MODULE HostPort --------------------------------
(***************************************************************************)
(* What sys_controller promises at the host's pins: START, BUS_REQ and     *)
(* rst_n in, DONE and BUS_GNT out, one step per posedge of clk.  Nothing   *)
(* is said of when a chain ends, or whether it does, nor of how long a     *)
(* transaction keeps the bus.                                              *)
(***************************************************************************)
EXTENDS Naturals

VARIABLES rst_n, start, bus_req     \* inputs
VARIABLES done, bus_gnt             \* outputs

port == <<done, bus_gnt>>

Init == done = 1 /\ bus_gnt = 0

Reset == rst_n = 0 /\ done' = 1 /\ bus_gnt' = 0

\* A request is granted and stays granted; DONE is as it was.
Grant == rst_n = 1 /\ bus_req = 1 /\ bus_gnt' = 1 /\ done' = done

\* Only a chain makes it wait, and no chain ends meanwhile.
Transfer == rst_n = 1 /\ bus_req = 1 /\ bus_gnt = 0 /\ done = 0 /\ UNCHANGED port

\* The bus comes back; a START at this clk is lost.
Return == rst_n = 1 /\ bus_req = 0 /\ bus_gnt = 1 /\ bus_gnt' = 0 /\ done' = done

Free == rst_n = 1 /\ bus_req = 0 /\ bus_gnt = 0

Start == Free /\ done = 1 /\ start = 1 /\ done' = 0 /\ bus_gnt' = 0

StayIdle == Free /\ done = 1 /\ start # 1 /\ UNCHANGED port

Run == Free /\ done = 0 /\ done' \in {0, 1} /\ bus_gnt' = 0

Next == Reset \/ Grant \/ Transfer \/ Return \/ Start \/ StayIdle \/ Run

Spec == Init /\ [][Next]_port
=============================================================================
