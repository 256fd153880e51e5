----------------------------- MODULE QspiContract -----------------------------
(***************************************************************************)
(* What the QSPI engine promises its consumer, whatever its pin timing:    *)
(* the port contract in the header of src/src/qspi_engine.sv.  A request   *)
(* accepted while ~busy transfers exactly 2 * byte_len payload nibbles,    *)
(* each read nibble with its own rdata_valid pulse, each write nibble but  *)
(* the first after its own wdata_next pulse, and then drops busy.          *)
(*                                                                         *)
(* QspiEngine implements this specification; DmaCore runs the controller   *)
(* against it, so that what is shown there holds for any engine timing.    *)
(***************************************************************************)
EXTENDS QspiPkg

VARIABLES rst_n, txn_valid, cmd, byte_len               \* input ports
VARIABLES busy, rdata, rdata_valid, wdata_next          \* output ports
VARIABLE left                \* payload nibbles of the transaction to come

vars == <<busy, rdata, rdata_valid, wdata_next, left>>

TypeOK ==
  /\ {busy, rdata_valid, wdata_next} \subseteq Bit
  /\ rdata \in Nibble
  /\ left \in 0 .. 2 * 15

Init == busy = 0 /\ rdata = 0 /\ rdata_valid = 0 /\ wdata_next = 0 /\ left = 0

Reset ==
  /\ rst_n = 0
  /\ busy' = 0 /\ rdata' = 0 /\ rdata_valid' = 0 /\ wdata_next' = 0 /\ left' = 0

Idle ==
  /\ rst_n = 1 /\ busy = 0 /\ txn_valid = 0
  /\ UNCHANGED vars

Accept ==                    \* rdata_valid and wdata_next are low while idle
  /\ rst_n = 1 /\ busy = 0 /\ txn_valid = 1
  /\ busy' = 1 /\ left' = 2 * byte_len
  /\ UNCHANGED <<rdata, rdata_valid, wdata_next>>

Wait ==                      \* command, address, wait, padding, half an SCK
  /\ rst_n = 1 /\ busy = 1 /\ wdata_next = 0
  /\ rdata_valid' = 0
  /\ UNCHANGED <<busy, rdata, wdata_next, left>>

ReadBeat ==
  /\ rst_n = 1 /\ busy = 1 /\ cmd = QSPI_CMD_FAST_READ /\ left > 0
  /\ rdata' \in Nibble /\ rdata_valid' = 1
  /\ left' = left - 1
  /\ UNCHANGED <<busy, wdata_next>>

\* The first nibble rides with the request; a later one is asked for, and is on
\* wdata in the clk that asks.
WriteBeat ==
  /\ rst_n = 1 /\ busy = 1 /\ cmd = QSPI_CMD_WRITE /\ left > 0
  /\ left = 2 * byte_len \/ wdata_next = 1
  /\ left' = left - 1 /\ wdata_next' = 0
  /\ UNCHANGED <<busy, rdata, rdata_valid>>

AskNibble ==
  /\ rst_n = 1 /\ busy = 1 /\ cmd = QSPI_CMD_WRITE /\ wdata_next = 0
  /\ 0 < left /\ left < 2 * byte_len
  /\ wdata_next' = 1
  /\ UNCHANGED <<busy, rdata, rdata_valid, left>>

Finish ==
  /\ rst_n = 1 /\ busy = 1 /\ left = 0
  /\ busy' = 0 /\ rdata_valid' = 0
  /\ UNCHANGED <<rdata, wdata_next, left>>

Progress == ReadBeat \/ WriteBeat \/ AskNibble \/ Finish

Next == Reset \/ Idle \/ Accept \/ Wait \/ Progress

Spec == Init /\ [][Next]_vars
=============================================================================
