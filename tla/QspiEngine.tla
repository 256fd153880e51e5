------------------------------ MODULE QspiEngine ------------------------------
(***************************************************************************)
(* qspi_engine (src/src/qspi_engine.sv): the QPI master of the ASIC.       *)
(*                                                                         *)
(* Synchronous logic: the input ports are variables somebody else drives   *)
(* (a composing module substitutes the state functions that drive them),   *)
(* the flops are the variables below, the combinational signals are        *)
(* operators with the names of the source, and one step is one posedge of  *)
(* clk.  A posedge is a reset, a step in a pad state (SCK parked low), or  *)
(* a rising or a falling SCK edge of a clocked phase.                      *)
(***************************************************************************)
EXTENDS QspiPkg

VARIABLES                 \* input ports
  rst_n, txn_valid, cmd, addr, device_sel, byte_len, wdata, sio_in

VARIABLES                 \* flops; sclk, sio_out, *_cs_n, rdata* are output ports
  curr_state, cycle_cnt, sclk, sio_out, sio_oe_reg, ram_a_cs_n, ram_b_cs_n,
  rdata, rdata_valid

flops == <<curr_state, cycle_cnt, sclk, sio_out, sio_oe_reg, ram_a_cs_n,
           ram_b_cs_n, rdata, rdata_valid>>

-------------------------------------------------------------------------------
(***************************************************************************)
(* Combinational signals.                                                  *)
(***************************************************************************)
data_phase == IF cmd = QSPI_CMD_WRITE THEN "WRITE_DATA" ELSE "READ_DATA"

\* Mutant: one nibble short.
payload_sck_short == (2 * byte_len - 1) % QPI_CYCLE_CNT_MOD

payload_sck == (2 * byte_len) % QPI_CYCLE_CNT_MOD

\* Mutant: the count is compared one clk late.
wait_sck_long == qspi_wait_cycles(cmd) + 1

wait_sck == qspi_wait_cycles(cmd)

\* The SCK count that ends a clocked phase.
phase_sck ==
  [SEND_CMD_1 |-> 1, SEND_CMD_2 |-> 1, SEND_ADDR |-> 6,
   WAIT |-> wait_sck,
   READ_DATA |-> payload_sck, WRITE_DATA |-> payload_sck]

\* Mutant: no CS_OFF clk.
after_sclk_off_direct == "QSPI_IDLE"

after_sclk_off == "CS_OFF"    \* CE# is high for this clk and at least one of QSPI_IDLE

phase_after ==
  [QSPI_IDLE |-> "CS_ON", CS_ON |-> "SEND_CMD_1", SEND_CMD_1 |-> "SEND_CMD_2",
   SEND_CMD_2 |-> "SEND_ADDR",
   SEND_ADDR |-> IF qspi_wait_cycles(cmd) = 0 THEN data_phase ELSE "WAIT",
   WAIT |-> data_phase, READ_DATA |-> "SCLK_OFF", WRITE_DATA |-> "SCLK_OFF",
   SCLK_OFF |-> after_sclk_off, CS_OFF |-> "QSPI_IDLE"]

\* Mutant: CS_OFF waits for the next request, which waits for ~busy.
phase_done_waits ==
  /\ curr_state \in {"QSPI_IDLE", "CS_OFF"} => txn_valid = 1
  /\ curr_state \in ClockedStates => cycle_cnt = phase_sck[curr_state]

phase_done ==
  /\ curr_state = "QSPI_IDLE" => txn_valid = 1
  /\ curr_state \in ClockedStates => cycle_cnt = phase_sck[curr_state]

next_state == IF phase_done THEN phase_after[curr_state] ELSE curr_state

sclk_en == curr_state \in ClockedStates
sclk_will_rise == sclk_en /\ sclk = 0
sclk_will_fall == sclk_en /\ sclk = 1
busy == IF curr_state = "QSPI_IDLE" THEN 0 ELSE 1
\* Mutant: CE# rises with the last falling SCK.
cs_n_next_early == IF next_state \in {"QSPI_IDLE", "CS_OFF", "SCLK_OFF"} THEN 1 ELSE 0

cs_n_next == IF next_state \in {"QSPI_IDLE", "CS_OFF"} THEN 1 ELSE 0
ram_cs_n_next(device) == IF device_sel = device THEN cs_n_next ELSE 1

\* Mutant: one more nibble is asked for after the last one.
wdata_next_late == IF curr_state = "WRITE_DATA" /\ sclk_will_fall THEN 1 ELSE 0

wdata_next ==
  IF curr_state = "WRITE_DATA" /\ next_state = "WRITE_DATA" /\ sclk_will_fall
  THEN 1 ELSE 0

\* Mutant: SIO is driven again as soon as SCK stops.
sio_listening_short == next_state \in {"WAIT", "READ_DATA"}

\* SIO is floated from the first wait cycle of a read until its CE# is back high.
sio_listening ==
  \/ next_state \in {"WAIT", "READ_DATA"}
  \/ cmd = QSPI_CMD_FAST_READ /\ next_state \in {"SCLK_OFF", "CS_OFF"}

\* Mutant: the first address nibble is skipped.
addr_index_of_count == cycle_cnt

\* The address nibble that goes out next, and the nibble a falling SCK launches.
addr_index == IF curr_state = "SEND_CMD_2" THEN 0 ELSE cycle_cnt

launched_sio ==
  CASE next_state = "SEND_CMD_2" -> cmd % 16
    [] next_state = "SEND_ADDR" /\ addr_index < 6 -> AddrNibble(addr, addr_index)
    [] next_state = "WRITE_DATA" -> wdata
    [] next_state \in {"WAIT", "READ_DATA"} -> 0
    [] OTHER -> sio_out

\* Mutant: SIO changes on the edge the devices sample.
sio_launches_at_rise == sclk_will_rise

sio_launches == sclk_will_fall

next_count == (cycle_cnt + 1) % QPI_CYCLE_CNT_MOD

next_sio_out ==
  IF next_state \in PadStates THEN 0
  ELSE IF next_state = "SEND_CMD_1" THEN cmd \div 16
  ELSE IF sio_launches THEN launched_sio ELSE sio_out

-------------------------------------------------------------------------------
(***************************************************************************)
(* The flops.                                                              *)
(***************************************************************************)
InitFlops ==
  /\ curr_state = "QSPI_IDLE" /\ cycle_cnt = 0
  /\ sclk = 0 /\ sio_out = 0 /\ sio_oe_reg = 0
  /\ ram_a_cs_n = 1 /\ ram_b_cs_n = 1
  /\ rdata = 0 /\ rdata_valid = 0

\* Pads that follow next_state whatever the edge: SIO, its OE and the two CE#.
PadFlops ==
  /\ sio_out' = next_sio_out
  /\ sio_oe_reg' = IF sio_listening THEN 0 ELSE 1
  /\ ram_a_cs_n' = ram_cs_n_next(QSPI_PSRAM0)
  /\ ram_b_cs_n' = ram_cs_n_next(QSPI_PSRAM1)

Reset ==
  /\ rst_n = 0
  /\ curr_state' = "QSPI_IDLE" /\ cycle_cnt' = 0
  /\ sclk' = 0 /\ sio_out' = 0 /\ sio_oe_reg' = 0
  /\ ram_a_cs_n' = 1 /\ ram_b_cs_n' = 1
  /\ rdata' = 0 /\ rdata_valid' = 0

PadStep ==                  \* QSPI_IDLE, CS_ON, SCLK_OFF, CS_OFF
  /\ rst_n = 1 /\ ~sclk_en
  /\ curr_state' = next_state
  /\ cycle_cnt' = 0 /\ sclk' = 0
  /\ rdata_valid' = 0 /\ UNCHANGED rdata
  /\ PadFlops

SckRise ==
  /\ rst_n = 1 /\ sclk_will_rise
  /\ sclk' = 1 /\ UNCHANGED curr_state
  /\ cycle_cnt' = IF next_state = curr_state THEN next_count ELSE 0
  /\ IF curr_state = "READ_DATA"
     THEN rdata' = sio_in /\ rdata_valid' = 1
     ELSE rdata_valid' = 0 /\ UNCHANGED rdata
  /\ PadFlops

SckFall ==
  /\ rst_n = 1 /\ sclk_will_fall
  /\ sclk' = 0 /\ curr_state' = next_state
  /\ cycle_cnt' = IF next_state = curr_state THEN cycle_cnt ELSE 0
  /\ rdata_valid' = 0 /\ UNCHANGED rdata
  /\ PadFlops

Posedge == Reset \/ PadStep \/ SckRise \/ SckFall
=============================================================================
