--------------------------- MODULE QspiEngineProofs ---------------------------
(***************************************************************************)
(* Theorems about the engine behind its consumer (QspiEngineBfm), for      *)
(* every set of legal requests and everything a device may put on SIO.     *)
(***************************************************************************)
EXTENDS QspiEngineBfm, SequenceTheorems, TLAPS

-------------------------------------------------------------------------------
(***************************************************************************)
(* The inductive invariant.                                                *)
(***************************************************************************)
EngineTypes ==
  /\ curr_state \in qspi_state_t /\ cycle_cnt \in Nat
  /\ {sclk, sio_oe_reg, rdata_valid, rst_n, txn_valid} \subseteq Bit
  /\ rdata \in Nibble /\ sio_in \in Nibble
  /\ cmd \in qspi_cmd_t /\ addr \in qspi_addr_t /\ device_sel \in qspi_device_sel_t
  /\ byte_len \in 1 .. QPI_MAX_BYTES
  /\ wsent \in Nat /\ low \in Nat /\ high \in Nat

\* A pad state has SCK low and the counter at 0; in a clocked phase the counter is the
\* number of its rising SCK edges, and the phase is one of the command's.
PhaseInv ==
  /\ curr_state \in PadStates => sclk = 0 /\ cycle_cnt = 0
  /\ curr_state \in ClockedStates => /\ sclk <= cycle_cnt
                                     /\ cycle_cnt - sclk < phase_sck[curr_state]
  /\ curr_state \in {"WAIT", "READ_DATA"} => cmd = QSPI_CMD_FAST_READ
  /\ curr_state = "WRITE_DATA" => cmd = QSPI_CMD_WRITE
  /\ rdata_valid = 1 => curr_state = "READ_DATA" /\ sclk = 1
  /\ txn_valid = 1 => curr_state = "QSPI_IDLE"

\* Only a reset makes the engine idle with CE# high for a single clk, and then nothing
\* is requested.
PadInv ==
  /\ curr_state \in {"QSPI_IDLE", "CS_OFF"} =>
       ram_a_cs_n = 1 /\ ram_b_cs_n = 1 /\ low = 0
  /\ curr_state \notin {"QSPI_IDLE", "CS_OFF"} =>
       ram_a_cs_n = device_sel /\ ram_b_cs_n = 1 - device_sel /\ high = 0
  /\ curr_state = "CS_OFF" => high = 1
  /\ curr_state = "QSPI_IDLE" =>
       high \in {1, 2} /\ (high = 1 => txn_valid = 0 /\ sio_oe_reg = 0)
  /\ curr_state # "QSPI_IDLE" =>
       (sio_oe_reg = 0 <=> \/ curr_state \in {"WAIT", "READ_DATA"}
                           \/ cmd = QSPI_CMD_FAST_READ /\ curr_state \in {"SCLK_OFF", "CS_OFF"})

\* The nibble on wdata, and which one the consumer has got to.
ConsumerInv ==
  /\ wdata = PayloadNibble(wsent)
  /\ txn_valid = 1 \/ curr_state \in {"CS_ON", "SEND_CMD_1", "SEND_CMD_2", "SEND_ADDR", "WAIT"}
       => wsent = 1
  /\ curr_state = "WRITE_DATA" =>
       wsent = IF sclk = 0 \/ cycle_cnt < payload_sck THEN cycle_cnt + 1 ELSE cycle_cnt

\* Rising SCK edges of the frame before the present phase, and of the whole frame.
frame_len == IF cmd = QSPI_CMD_WRITE THEN 8 + 2 * byte_len ELSE 14 + 2 * byte_len
sck_before ==
  [CS_ON |-> 0, SEND_CMD_1 |-> 0, SEND_CMD_2 |-> 1, SEND_ADDR |-> 2, WAIT |-> 8,
   READ_DATA |-> 14, WRITE_DATA |-> 8, SCLK_OFF |-> frame_len]

ExpectedNibble(k) ==
  IF k = 1 THEN cmd \div 16
  ELSE IF k = 2 THEN cmd % 16
  ELSE IF k <= 8 THEN AddrNibble(addr, k - 3)
  ELSE IF cmd = QSPI_CMD_WRITE THEN PayloadNibble(k - 8) ELSE FLOAT

\* The frame so far, how long it took, and the nibble that waits for the next edge.
FrameInv ==
  /\ frame \in Seq(Nat)
  /\ curr_state \notin {"QSPI_IDLE", "CS_OFF"} =>
       /\ Len(frame) = sck_before[curr_state] + cycle_cnt
       /\ \A k \in 1 .. Len(frame) : frame[k] = ExpectedNibble(k)
       /\ low = IF curr_state = "CS_ON" THEN 1 ELSE 2 + 2 * Len(frame) - sclk
  /\ curr_state \in ClockedStates \ {"WAIT", "READ_DATA"} /\ sclk = 0 =>
       sio_out = ExpectedNibble(Len(frame) + 1)

IInv == EngineTypes /\ PhaseInv /\ PadInv /\ ConsumerInv /\ FrameInv

-------------------------------------------------------------------------------
(***************************************************************************)
(* What the combinational signals are in a state of the invariant.         *)
(***************************************************************************)

\* The numbers of the package.
LEMMA Numbers ==
  /\ QPI_MAX_BYTES = 11 /\ QPI_CYCLE_CNT_MOD = 32 /\ QSPI_CMD_WRITE = 2
  /\ QSPI_CMD_FAST_READ = 235 /\ QSPI_PSRAM0 = 0 /\ QSPI_PSRAM1 = 1
  BY SMT DEF QPI_MAX_BYTES, DMA_BUF_DEPTH_MAX, QPI_TCD_BYTES, QPI_CYCLE_CNT_MOD,
         QSPI_CMD_WRITE, QSPI_CMD_FAST_READ, QSPI_PSRAM0, QSPI_PSRAM1

\* An address is a number.
LEMMA AddrSpaceNat == \A a \in qspi_addr_t : a \in Nat
  <1>1. QSPI_ADDR_SPACE - 1 \in Nat
    BY SMT DEF QSPI_ADDR_SPACE
  <1> QED BY <1>1, SMT DEF qspi_addr_t

\* A payload of at most 11 bytes fits the 5-bit SCK count (payload_sck, wait_sck).
LEMMA PhaseLengths ==
  ASSUME EngineTypes
  PROVE  /\ phase_sck["SEND_CMD_1"] = 1 /\ phase_sck["SEND_CMD_2"] = 1
         /\ phase_sck["SEND_ADDR"] = 6
         /\ phase_sck["READ_DATA"] = 2 * byte_len
         /\ phase_sck["WRITE_DATA"] = 2 * byte_len /\ payload_sck = 2 * byte_len
         /\ cmd = QSPI_CMD_FAST_READ => phase_sck["WAIT"] = 6
  <1>1. byte_len \in 1 .. 11
    BY Numbers DEF EngineTypes
  <1>2. payload_sck = 2 * byte_len
    BY <1>1, Numbers, SMT DEF payload_sck
  <1>3. cmd = QSPI_CMD_FAST_READ => wait_sck = 6
    BY DEF wait_sck, qspi_wait_cycles
  <1> QED BY <1>2, <1>3 DEF phase_sck

\* The next-state logic, tabulated: a rising SCK keeps the phase, a falling one ends it
\* when the count is reached (phase_done, phase_after).
LEMMA NextTable ==
  ASSUME EngineTypes, PhaseInv
  PROVE  /\ curr_state = "QSPI_IDLE" =>
              next_state = IF txn_valid = 1 THEN "CS_ON" ELSE "QSPI_IDLE"
         /\ curr_state = "CS_ON" => next_state = "SEND_CMD_1"
         /\ curr_state = "SCLK_OFF" => next_state = "CS_OFF"
         /\ curr_state = "CS_OFF" => next_state = "QSPI_IDLE"
         /\ curr_state \in ClockedStates /\ cycle_cnt # phase_sck[curr_state]
              => next_state = curr_state
         /\ curr_state \in ClockedStates /\ cycle_cnt = phase_sck[curr_state] =>
              /\ curr_state = "SEND_CMD_1" => next_state = "SEND_CMD_2"
              /\ curr_state = "SEND_CMD_2" => next_state = "SEND_ADDR"
              /\ curr_state = "SEND_ADDR" =>
                   next_state = IF cmd = QSPI_CMD_WRITE THEN "WRITE_DATA" ELSE "WAIT"
              /\ curr_state = "WAIT" => next_state = "READ_DATA"
              /\ curr_state \in {"READ_DATA", "WRITE_DATA"} => next_state = "SCLK_OFF"
  <1>1. curr_state \in PadStates =>
          (phase_done <=> (curr_state = "QSPI_IDLE" => txn_valid = 1))
    BY DEF phase_done, PadStates, ClockedStates
  <1>2. curr_state \in ClockedStates =>
          (phase_done <=> cycle_cnt = phase_sck[curr_state])
    BY DEF phase_done, ClockedStates
  <1>3. /\ phase_after["QSPI_IDLE"] = "CS_ON" /\ phase_after["CS_ON"] = "SEND_CMD_1"
        /\ phase_after["SEND_CMD_1"] = "SEND_CMD_2"
        /\ phase_after["SEND_CMD_2"] = "SEND_ADDR"
        /\ phase_after["READ_DATA"] = "SCLK_OFF" /\ phase_after["WRITE_DATA"] = "SCLK_OFF"
        /\ phase_after["SCLK_OFF"] = "CS_OFF" /\ phase_after["CS_OFF"] = "QSPI_IDLE"
        /\ phase_after["WAIT"] = data_phase
        /\ phase_after["SEND_ADDR"] =
             IF qspi_wait_cycles(cmd) = 0 THEN data_phase ELSE "WAIT"
    BY DEF phase_after, after_sclk_off
  <1>4. cmd = 2 \/ cmd = 235
    BY Numbers DEF EngineTypes, qspi_cmd_t
  <1>5. phase_after["SEND_ADDR"] = IF cmd = QSPI_CMD_WRITE THEN "WRITE_DATA" ELSE "WAIT"
    BY <1>3, <1>4, Numbers DEF qspi_wait_cycles, data_phase
  <1>6. curr_state = "WAIT" => phase_after["WAIT"] = "READ_DATA"
    BY <1>3, Numbers DEF data_phase, PhaseInv
  <1> QED BY <1>1, <1>2, <1>3, <1>5, <1>6 DEF next_state, PadStates, ClockedStates

-------------------------------------------------------------------------------
(***************************************************************************)
(* What one posedge does, from a state of the invariant.                   *)
(***************************************************************************)

\* While the engine is busy the consumer holds its request (D21).
LEMMA RequestHeld ==
  ASSUME Next, curr_state' # "QSPI_IDLE"
  PROVE  /\ txn_valid' = 0
         /\ UNCHANGED <<cmd, addr, device_sel, byte_len>>
         /\ wsent' = IF wdata_next' = 1 THEN wsent + 1 ELSE wsent
  BY SMT DEF Next, Drive, DriveRequest, HoldRequest, busy

\* A phase has between 1 and 22 rising SCK edges, and its count stays below 32.
LEMMA PhaseBound ==
  ASSUME EngineTypes, PhaseInv, curr_state \in ClockedStates
  PROVE  /\ phase_sck[curr_state] \in 1 .. 22
         /\ cycle_cnt \in 0 .. 22
         /\ sclk = 0 => cycle_cnt < phase_sck[curr_state]
         /\ sclk = 1 => 1 <= cycle_cnt /\ cycle_cnt <= phase_sck[curr_state]
  <1>1. byte_len \in 1 .. 11
    BY Numbers DEF EngineTypes
  <1>2. phase_sck[curr_state] \in 1 .. 22
    BY <1>1, PhaseLengths, SMT DEF PhaseInv, ClockedStates
  <1>3. cycle_cnt \in Nat /\ sclk \in {0, 1}
    BY DEF EngineTypes, Bit
  <1>4. sclk <= cycle_cnt /\ cycle_cnt - sclk < phase_sck[curr_state]
    BY DEF PhaseInv
  <1> HIDE DEF phase_sck
  <1> QED BY <1>2, <1>3, <1>4, SMT

\* The count of a phase never passes its length.
LEMMA CountBound ==
  ASSUME EngineTypes, PhaseInv, curr_state \in ClockedStates
  PROVE  cycle_cnt \in 0 .. phase_sck[curr_state]
  <1>1. sclk \in {0, 1}
    BY DEF EngineTypes, Bit
  <1> HIDE DEF phase_sck
  <1>2. CASE sclk = 0
    BY <1>2, PhaseBound
  <1>3. CASE sclk = 1
    BY <1>3, PhaseBound
  <1> QED BY <1>1, <1>2, <1>3

\* CE# of both devices follows the state the engine goes to (ram_cs_n_next).
LEMMA CePads ==
  ASSUME EngineTypes, PadFlops
  PROVE  /\ next_state \in {"QSPI_IDLE", "CS_OFF"} => ram_a_cs_n' = 1 /\ ram_b_cs_n' = 1
         /\ next_state \notin {"QSPI_IDLE", "CS_OFF"} =>
              ram_a_cs_n' = device_sel /\ ram_b_cs_n' = 1 - device_sel
  BY Numbers, SMT DEF PadFlops, ram_cs_n_next, cs_n_next, EngineTypes, qspi_device_sel_t

\* CE# is low exactly between CS_ON and SCLK_OFF.
LEMMA CeStates ==
  ASSUME EngineTypes, PadInv
  PROVE  CeLow <=> curr_state \notin {"QSPI_IDLE", "CS_OFF"}
  BY Numbers, SMT DEF CeLow, PadInv, EngineTypes, qspi_device_sel_t

\* A rising SCK: the device samples, and nothing else moves on the pads.
LEMMA RiseStep ==
  ASSUME IInv, Next, SckRise
  PROVE  /\ curr_state \in ClockedStates /\ curr_state' = curr_state
         /\ next_state = curr_state
         /\ sclk = 0 /\ sclk' = 1 /\ cycle_cnt' = cycle_cnt + 1
         /\ cycle_cnt < phase_sck[curr_state]
         /\ txn_valid' = 0 /\ UNCHANGED <<cmd, addr, device_sel, byte_len>>
         /\ wsent' = IF wdata_next' = 1 THEN wsent + 1 ELSE wsent
         /\ UNCHANGED <<sio_out, sio_oe_reg, ram_a_cs_n, ram_b_cs_n>>
         /\ CeLow /\ CeLow'
         /\ frame' = Append(frame, IF sio_oe_reg = 1 THEN sio_out ELSE FLOAT)
         /\ low' = low + 1 /\ high' = 0
  <1>1. curr_state \in ClockedStates /\ curr_state' = curr_state /\ sclk = 0 /\ sclk' = 1
    BY DEF SckRise, sclk_will_rise, sclk_en
  <1>2. curr_state \notin PadStates
    BY <1>1 DEF ClockedStates, PadStates
  <1>3. cycle_cnt < phase_sck[curr_state] /\ cycle_cnt \in 0 .. 22
    BY <1>1, PhaseBound DEF IInv
  <1>4. next_state = curr_state
    <2>1. cycle_cnt # phase_sck[curr_state]
      <3> HIDE DEF phase_sck
      <3> QED BY <1>3, SMT
    <2> QED BY <1>1, <2>1, NextTable DEF IInv
  <1>5. cycle_cnt' = cycle_cnt + 1
    <2>1. cycle_cnt' = next_count
      BY <1>4 DEF SckRise
    <2> QED BY <2>1, <1>3, Numbers, SMT DEF next_count
  <1>6. /\ txn_valid' = 0 /\ UNCHANGED <<cmd, addr, device_sel, byte_len>>
        /\ wsent' = IF wdata_next' = 1 THEN wsent + 1 ELSE wsent
    BY <1>1, <1>2, RequestHeld DEF PadStates
  <1>7. PadFlops
    BY DEF SckRise
  <1>8. UNCHANGED <<ram_a_cs_n, ram_b_cs_n>> /\ CeLow /\ CeLow'
    <2>1. curr_state \notin {"QSPI_IDLE", "CS_OFF"}
      BY <1>2 DEF PadStates
    <2>2. ram_a_cs_n = device_sel /\ ram_b_cs_n = 1 - device_sel
      BY <2>1 DEF IInv, PadInv
    <2>3. ram_a_cs_n' = device_sel /\ ram_b_cs_n' = 1 - device_sel
      BY <1>4, <1>7, <2>1, CePads DEF IInv
    <2>4. CeLow
      BY <2>1, CeStates DEF IInv
    <2> QED BY <2>2, <2>3, <2>4 DEF CeLow
  <1>9. sio_oe_reg' = sio_oe_reg
    <2>1. sio_oe_reg \in {0, 1}
      BY DEF IInv, EngineTypes, Bit
    <2>2. sio_oe_reg = 0 <=> curr_state \in {"WAIT", "READ_DATA"}
      BY <1>2 DEF IInv, PadInv, PadStates
    <2>3. sio_oe_reg' = IF curr_state \in {"WAIT", "READ_DATA"} THEN 0 ELSE 1
      BY <1>2, <1>4, <1>7 DEF PadFlops, sio_listening, PadStates
    <2> QED BY <2>1, <2>2, <2>3
  <1>10. sio_out' = sio_out
    <2>1. sio_out' = IF curr_state = "SEND_CMD_1" THEN cmd \div 16 ELSE sio_out
      BY <1>1, <1>2, <1>4, <1>7
      DEF PadFlops, next_sio_out, sio_launches, sclk_will_fall
    <2>2. CASE curr_state = "SEND_CMD_1"
      <3>1. cycle_cnt = 0
        BY <1>3, <2>2, PhaseLengths DEF IInv
      <3>2. Len(frame) = 0
        BY <2>2, <3>1 DEF IInv, FrameInv, sck_before
      <3>3. sio_out = ExpectedNibble(1)
        BY <1>1, <2>2, <3>2 DEF IInv, FrameInv, ClockedStates
      <3> QED BY <2>1, <2>2, <3>3 DEF ExpectedNibble
    <2> QED BY <2>1, <2>2
  <1>11. /\ frame' = Append(frame, IF sio_oe_reg = 1 THEN sio_out ELSE FLOAT)
         /\ low' = low + 1 /\ high' = 0
    BY <1>1, <1>8, <1>9, <1>10 DEF Next, Observe, SioPads
  <1> QED BY <1>1, <1>3, <1>4, <1>5, <1>6, <1>8, <1>9, <1>10, <1>11

\* A falling SCK: the engine launches a nibble, and moves on when the phase is over.
LEMMA FallStep ==
  ASSUME IInv, Next, SckFall
  PROVE  /\ curr_state \in ClockedStates /\ curr_state' = next_state
         /\ next_state \in ClockedStates \cup {"SCLK_OFF"}
         /\ next_state = curr_state <=> cycle_cnt # phase_sck[curr_state]
         /\ sclk = 1 /\ sclk' = 0
         /\ cycle_cnt' = IF next_state = curr_state THEN cycle_cnt ELSE 0
         /\ cycle_cnt \in 1 .. phase_sck[curr_state]
         /\ txn_valid' = 0 /\ UNCHANGED <<cmd, addr, device_sel, byte_len>>
         /\ wsent' = wsent /\ wdata_next' = 0
         /\ UNCHANGED <<ram_a_cs_n, ram_b_cs_n>> /\ CeLow /\ CeLow'
         /\ frame' = frame /\ low' = low + 1 /\ high' = 0
  <1>1. curr_state \in ClockedStates /\ curr_state' = next_state /\ sclk = 1 /\ sclk' = 0
    BY DEF SckFall, sclk_will_fall, sclk_en
  <1>2. cycle_cnt \in 1 .. phase_sck[curr_state]
    <2>1. /\ 1 <= cycle_cnt /\ cycle_cnt <= phase_sck[curr_state]
          /\ phase_sck[curr_state] \in 1 .. 22 /\ cycle_cnt \in 0 .. 22
      BY <1>1, PhaseBound DEF IInv
    <2> HIDE DEF phase_sck
    <2> QED BY <2>1, SMT
  <1>3. /\ next_state \in ClockedStates \cup {"SCLK_OFF"}
        /\ next_state = curr_state <=> cycle_cnt # phase_sck[curr_state]
    <2>1. cycle_cnt # phase_sck[curr_state] => next_state = curr_state
      BY <1>1, NextTable DEF IInv
    <2>2. cycle_cnt = phase_sck[curr_state] =>
            /\ next_state \in ClockedStates \cup {"SCLK_OFF"}
            /\ next_state # curr_state
      BY <1>1, NextTable DEF IInv, ClockedStates
    <2> QED BY <1>1, <2>1, <2>2
  <1>4. curr_state \notin {"QSPI_IDLE", "CS_OFF"} /\ next_state \notin {"QSPI_IDLE", "CS_OFF"}
    BY <1>1, <1>3 DEF ClockedStates
  <1>5. wdata_next' = 0
    BY <1>1 DEF wdata_next, sclk_will_fall
  <1>6. /\ txn_valid' = 0 /\ UNCHANGED <<cmd, addr, device_sel, byte_len>>
        /\ wsent' = wsent
    BY <1>1, <1>4, <1>5, RequestHeld
  <1>7. PadFlops
    BY DEF SckFall
  <1>8. UNCHANGED <<ram_a_cs_n, ram_b_cs_n>> /\ CeLow /\ CeLow'
    <2>1. ram_a_cs_n = device_sel /\ ram_b_cs_n = 1 - device_sel
      BY <1>4 DEF IInv, PadInv
    <2>2. ram_a_cs_n' = device_sel /\ ram_b_cs_n' = 1 - device_sel
      BY <1>4, <1>7, CePads DEF IInv
    <2>3. CeLow
      BY <1>4, CeStates DEF IInv
    <2> QED BY <2>1, <2>2, <2>3 DEF CeLow
  <1>9. frame' = frame /\ low' = low + 1 /\ high' = 0
    BY <1>1, <1>8 DEF Next, Observe
  <1>10. cycle_cnt' = IF next_state = curr_state THEN cycle_cnt ELSE 0
    BY DEF SckFall
  <1> QED BY <1>1, <1>2, <1>3, <1>5, <1>6, <1>8, <1>9, <1>10

\* A posedge with SCK parked: idle, CE# falling, the pads before and after CE# rises.
LEMMA ParkedStep ==
  ASSUME IInv, Next, PadStep
  PROVE  /\ sclk = 0 /\ cycle_cnt = 0 /\ sclk' = 0 /\ cycle_cnt' = 0
         /\ curr_state \in PadStates /\ curr_state' = next_state
         /\ \/ curr_state = "QSPI_IDLE" /\ txn_valid = 0 /\ next_state = "QSPI_IDLE"
            \/ curr_state = "QSPI_IDLE" /\ txn_valid = 1 /\ next_state = "CS_ON"
            \/ curr_state = "CS_ON" /\ next_state = "SEND_CMD_1"
            \/ curr_state = "SCLK_OFF" /\ next_state = "CS_OFF"
            \/ curr_state = "CS_OFF" /\ next_state = "QSPI_IDLE"
         /\ next_state # "QSPI_IDLE" =>
              /\ txn_valid' = 0 /\ UNCHANGED <<cmd, addr, device_sel, byte_len>>
              /\ wsent' = wsent
         /\ wdata_next' = 0
         /\ CeLow <=> curr_state \in {"CS_ON", "SCLK_OFF"}
         /\ CeLow' <=> next_state \in {"CS_ON", "SEND_CMD_1"}
  <1>1. curr_state \notin ClockedStates /\ curr_state' = next_state /\ sclk' = 0 /\ cycle_cnt' = 0
    BY DEF PadStep, sclk_en
  <1>2. curr_state \in PadStates
    BY <1>1 DEF IInv, EngineTypes, qspi_state_t
  <1>3. sclk = 0 /\ cycle_cnt = 0
    BY <1>2 DEF IInv, PhaseInv
  <1>4. txn_valid \in {0, 1}
    BY DEF IInv, EngineTypes, Bit
  <1>5. \/ curr_state = "QSPI_IDLE" /\ txn_valid = 0 /\ next_state = "QSPI_IDLE"
        \/ curr_state = "QSPI_IDLE" /\ txn_valid = 1 /\ next_state = "CS_ON"
        \/ curr_state = "CS_ON" /\ next_state = "SEND_CMD_1"
        \/ curr_state = "SCLK_OFF" /\ next_state = "CS_OFF"
        \/ curr_state = "CS_OFF" /\ next_state = "QSPI_IDLE"
    BY <1>2, <1>4, NextTable DEF IInv, PadStates
  <1>6. wdata_next' = 0
    BY <1>1 DEF wdata_next, sclk_will_fall
  <1>7. next_state # "QSPI_IDLE" =>
          /\ txn_valid' = 0 /\ UNCHANGED <<cmd, addr, device_sel, byte_len>>
          /\ wsent' = wsent
    BY <1>1, <1>6, RequestHeld
  <1>8. CeLow <=> curr_state \in {"CS_ON", "SCLK_OFF"}
    BY <1>5, CeStates DEF IInv
  <1>9. CeLow' <=> next_state \in {"CS_ON", "SEND_CMD_1"}
    <2>1. PadFlops /\ device_sel \in {0, 1}
      BY Numbers DEF PadStep, IInv, EngineTypes, qspi_device_sel_t
    <2>2. CASE next_state \in {"QSPI_IDLE", "CS_OFF"}
      BY <2>1, <2>2, CePads DEF IInv, CeLow
    <2>3. CASE next_state \notin {"QSPI_IDLE", "CS_OFF"}
      <3>1. ram_a_cs_n' = device_sel /\ ram_b_cs_n' = 1 - device_sel
        BY <2>1, <2>3, CePads DEF IInv
      <3> QED BY <1>5, <2>1, <2>3, <3>1, SMT DEF CeLow
    <2> QED BY <2>2, <2>3
  <1> QED BY <1>1, <1>2, <1>3, <1>5, <1>6, <1>7, <1>8, <1>9

\* A posedge in reset.
LEMMA ResetStep ==
  ASSUME IInv, Next, Reset
  PROVE  /\ curr_state' = "QSPI_IDLE" /\ sclk' = 0 /\ cycle_cnt' = 0
         /\ txn_valid' = 0 /\ wdata_next' = 0 /\ ~CeLow'
         /\ frame' = frame /\ low' = 0
         /\ high' = IF CeLow THEN 1 ELSE 2
  <1>1. /\ curr_state' = "QSPI_IDLE" /\ sclk' = 0 /\ cycle_cnt' = 0
        /\ ~CeLow' /\ rst_n = 0
    BY DEF Reset, CeLow
  <1>2. txn_valid' = 0
    BY <1>1 DEF Next, Drive, DriveRequest, HoldRequest
  <1>3. wdata_next' = 0
    BY <1>1 DEF wdata_next
  <1>4. /\ frame' = frame /\ low' = 0
        /\ high' = IF CeLow THEN 1 ELSE 2
    <2>1. CeLow => high = 0
      BY CeStates DEF IInv, PadInv
    <2>2. ~CeLow => high \in {1, 2}
      BY CeStates DEF IInv, PadInv
    <2> QED BY <1>1, <2>1, <2>2, SMT DEF Next, Observe
  <1> QED BY <1>1, <1>2, <1>3, <1>4

-------------------------------------------------------------------------------
(***************************************************************************)
(* The invariant is inductive, conjunct by conjunct.                       *)
(***************************************************************************)

\* The wires the consumer and the device drive keep their widths.
LEMMA WireTypes ==
  ASSUME EngineTypes, Next
  PROVE  /\ cmd' \in qspi_cmd_t /\ addr' \in qspi_addr_t
         /\ device_sel' \in qspi_device_sel_t /\ byte_len' \in 1 .. QPI_MAX_BYTES
         /\ {rst_n', txn_valid'} \subseteq Bit /\ sio_in' \in Nibble /\ wsent' \in Nat
  <1>1. \A r \in Requests :
          /\ r.cmd \in qspi_cmd_t /\ r.addr \in qspi_addr_t
          /\ r.device_sel \in qspi_device_sel_t /\ r.byte_len \in 1 .. QPI_MAX_BYTES
    BY RequestsAssumption
  <1>2. /\ cmd' \in qspi_cmd_t /\ addr' \in qspi_addr_t
        /\ device_sel' \in qspi_device_sel_t /\ byte_len' \in 1 .. QPI_MAX_BYTES
    BY <1>1 DEF EngineTypes, Next, Drive, DriveRequest, HoldRequest
  <1>3. {rst_n', txn_valid'} \subseteq Bit /\ sio_in' \in Nibble /\ wsent' \in Nat
    BY RequestsAssumption, SMT
    DEF EngineTypes, Next, Drive, DriveRequest, HoldRequest, Bit
  <1> QED BY <1>2, <1>3

\* The widths of every flop are kept.
LEMMA TypesStep ==
  ASSUME IInv, Next
  PROVE  EngineTypes'
  <1>1. curr_state' \in qspi_state_t /\ cycle_cnt' \in Nat /\ sclk' \in Bit /\ low' \in Nat
    <2>0. curr_state \in qspi_state_t /\ cycle_cnt \in Nat /\ low \in Nat
      BY DEF IInv, EngineTypes
    <2>1. CASE Reset
      BY <2>1, ResetStep DEF qspi_state_t, PadStates, Bit
    <2>2. CASE PadStep
      <3>1. low' \in Nat
        BY <2>0 DEF Next, Observe
      <3> QED BY <2>2, <3>1, ParkedStep DEF qspi_state_t, PadStates, ClockedStates, Bit
    <2>3. CASE SckRise
      BY <2>0, <2>3, RiseStep DEF Bit
    <2>4. CASE SckFall
      BY <2>0, <2>4, FallStep DEF qspi_state_t, PadStates, Bit
    <2> QED BY <2>1, <2>2, <2>3, <2>4 DEF Next, Posedge
  <1>2. sio_oe_reg' \in Bit /\ rdata_valid' \in Bit
    BY DEF Next, Posedge, Reset, PadStep, SckRise, SckFall, PadFlops, Bit
  <1>3. rdata' \in Nibble
    BY DEF Next, Posedge, Reset, PadStep, SckRise, SckFall, IInv, EngineTypes, Nibble
  <1>4. high' \in Nat
    BY DEF Next, Observe, IInv, EngineTypes
  <1> QED BY <1>1, <1>2, <1>3, <1>4, WireTypes DEF IInv, EngineTypes

\* The count of a phase is the number of its rising edges (PhaseInv).
LEMMA PhaseStep ==
  ASSUME IInv, Next
  PROVE  PhaseInv'
  <1>0. EngineTypes'
    BY TypesStep
  <1>1. CASE Reset
    <2>1. rdata_valid' = 0
      BY <1>1 DEF Reset
    <2> QED BY <1>1, <2>1, ResetStep DEF PhaseInv, PadStates, ClockedStates
  <1>2. CASE PadStep
    <2>1. rdata_valid' = 0
      BY <1>2 DEF PadStep
    <2>2. next_state = "SEND_CMD_1" => phase_sck'["SEND_CMD_1"] = 1
      BY DEF phase_sck
    <2>3. next_state \notin PadStates => next_state = "SEND_CMD_1"
      BY <1>2, ParkedStep DEF PadStates
    <2>4. next_state \in ClockedStates => next_state = "SEND_CMD_1"
      BY <2>3 DEF PadStates, ClockedStates
    <2>5. txn_valid' = 1 => next_state = "QSPI_IDLE"
      BY <1>2, ParkedStep
    <2> HIDE DEF phase_sck
    <2> QED BY <1>2, <2>1, <2>2, <2>3, <2>4, <2>5, ParkedStep, SMT
        DEF PhaseInv, ClockedStates, PadStates
  <1>3. CASE SckRise
    <2>1. curr_state \notin PadStates
      BY <1>3, RiseStep DEF PadStates, ClockedStates
    <2>2. phase_sck' = phase_sck
      BY <1>3, RiseStep
      DEF phase_sck, wait_sck, qspi_wait_cycles, payload_sck
    <2>3. phase_sck[curr_state] \in 1 .. 22 /\ cycle_cnt \in Nat
      BY <1>3, RiseStep, PhaseBound DEF IInv
    <2>4. sclk' <= cycle_cnt' /\ cycle_cnt' - sclk' < phase_sck'[curr_state']
      <3>1. curr_state' = curr_state /\ sclk' = 1 /\ cycle_cnt' = cycle_cnt + 1
        BY <1>3, RiseStep
      <3>2. cycle_cnt < phase_sck[curr_state]
        BY <1>3, RiseStep
      <3> HIDE DEF phase_sck
      <3> QED BY <2>2, <2>3, <3>1, <3>2
    <2>5. rdata_valid' = 1 => curr_state = "READ_DATA"
      BY <1>3 DEF SckRise
    <2> QED BY <1>3, <2>1, <2>4, <2>5, RiseStep DEF PhaseInv, IInv
  <1>4. CASE SckFall
    <2>1. rdata_valid' = 0
      BY <1>4 DEF SckFall
    <2>2. phase_sck' = phase_sck
      BY <1>4, FallStep
      DEF phase_sck, wait_sck, qspi_wait_cycles, payload_sck
    <2>3. cmd = QSPI_CMD_WRITE \/ cmd = QSPI_CMD_FAST_READ
      BY DEF IInv, EngineTypes, qspi_cmd_t
    <2>4. CASE next_state = curr_state
      <3>1. cycle_cnt < phase_sck[curr_state] /\ cycle_cnt \in Nat
        <4>1. cycle_cnt \in 1 .. phase_sck[curr_state] /\ cycle_cnt # phase_sck[curr_state]
          BY <1>4, <2>4, FallStep
        <4>2. phase_sck[curr_state] \in 1 .. 22
          BY <1>4, FallStep, PhaseBound DEF IInv
        <4> HIDE DEF phase_sck
        <4> QED BY <4>1, <4>2
      <3>2. curr_state \notin PadStates
        BY <1>4, FallStep DEF PadStates, ClockedStates
      <3>3. sclk' <= cycle_cnt' /\ cycle_cnt' - sclk' < phase_sck'[curr_state']
        <4>1. curr_state' = curr_state /\ sclk' = 0 /\ cycle_cnt' = cycle_cnt
          BY <1>4, <2>4, FallStep
        <4> HIDE DEF phase_sck
        <4> QED BY <2>2, <3>1, <4>1
      <3> QED BY <1>4, <2>1, <2>4, <3>2, <3>3, FallStep DEF PhaseInv, IInv
    <2>5. CASE next_state # curr_state
      <3>1. cycle_cnt' = 0 /\ sclk' = 0 /\ curr_state' = next_state
        BY <1>4, <2>5, FallStep
      <3>2. /\ next_state \in {"WAIT", "READ_DATA"} => cmd = QSPI_CMD_FAST_READ
            /\ next_state = "WRITE_DATA" => cmd = QSPI_CMD_WRITE
        <4>1. cycle_cnt = phase_sck[curr_state] /\ curr_state \in ClockedStates
          BY <1>4, <2>5, FallStep
        <4> QED BY <2>3, <2>5, <4>1, NextTable DEF IInv, PhaseInv, ClockedStates
      <3>3. next_state \in ClockedStates => 0 < phase_sck'[next_state]
        <4>1. /\ phase_sck'["SEND_CMD_1"] = 1 /\ phase_sck'["SEND_CMD_2"] = 1
              /\ phase_sck'["SEND_ADDR"] = 6
              /\ phase_sck'["READ_DATA"] = 2 * byte_len /\ phase_sck'["WRITE_DATA"] = 2 * byte_len
              /\ cmd = QSPI_CMD_FAST_READ => phase_sck'["WAIT"] = 6
          BY <2>2, PhaseLengths DEF IInv
        <4>2. byte_len \in 1 .. 11
          BY Numbers DEF IInv, EngineTypes
        <4> HIDE DEF phase_sck
        <4> QED BY <3>2, <4>1, <4>2 DEF ClockedStates
      <3>4. next_state \in PadStates => next_state = "SCLK_OFF"
        BY <1>4, FallStep DEF PadStates, ClockedStates
      <3>5. cmd' = cmd /\ txn_valid' = 0
        BY <1>4, FallStep
      <3> HIDE DEF phase_sck
      <3> QED BY <2>1, <3>1, <3>2, <3>3, <3>4, <3>5, SMT DEF PhaseInv
    <2> QED BY <2>4, <2>5
  <1> QED BY <1>1, <1>2, <1>3, <1>4 DEF Next, Posedge

\* CE# and the direction of SIO follow the state (PadInv).
LEMMA PadsStep ==
  ASSUME IInv, Next
  PROVE  PadInv'
  <1>1. CASE Reset
    <2>1. ram_a_cs_n' = 1 /\ ram_b_cs_n' = 1 /\ sio_oe_reg' = 0
      BY <1>1 DEF Reset
    <2> QED BY <1>1, <2>1, ResetStep DEF PadInv
  <1>2. CASE PadStep
    <2>0. PadFlops /\ (next_state # "QSPI_IDLE" => cmd' = cmd /\ device_sel' = device_sel)
      BY <1>2, ParkedStep DEF PadStep
    <2>1. /\ next_state \in {"QSPI_IDLE", "CS_OFF"} => ram_a_cs_n' = 1 /\ ram_b_cs_n' = 1
          /\ next_state \notin {"QSPI_IDLE", "CS_OFF"} =>
               ram_a_cs_n' = device_sel /\ ram_b_cs_n' = 1 - device_sel
      BY <2>0, CePads DEF IInv
    <2>2. /\ CeLow' => high' = 0
          /\ ~CeLow' => low' = 0 /\ high' = IF high < 2 THEN high + 1 ELSE 2
      BY DEF Next, Observe
    <2>3. CASE next_state \in {"CS_ON", "SEND_CMD_1"}
      <3>1. CeLow' /\ curr_state' = next_state
        BY <1>2, <2>3, ParkedStep
      <3>2. sio_oe_reg' = 1
        BY <2>0, <2>3 DEF PadFlops, sio_listening
      <3> QED BY <2>0, <2>1, <2>2, <2>3, <3>1, <3>2 DEF PadInv
    <2>4. CASE next_state = "CS_OFF"
      <3>1. ~CeLow' /\ curr_state' = next_state /\ curr_state = "SCLK_OFF"
        BY <1>2, <2>4, ParkedStep
      <3>2. high = 0
        BY <3>1 DEF IInv, PadInv
      <3>3. sio_oe_reg' = IF cmd = QSPI_CMD_FAST_READ THEN 0 ELSE 1
        BY <2>0, <2>4 DEF PadFlops, sio_listening
      <3> QED BY <2>0, <2>1, <2>2, <2>4, <3>1, <3>2, <3>3 DEF PadInv
    <2>5. CASE next_state = "QSPI_IDLE"
      <3>1. ~CeLow' /\ curr_state' = next_state /\ curr_state \in {"QSPI_IDLE", "CS_OFF"}
        BY <1>2, <2>5, ParkedStep
      <3>2. high \in {1, 2}
        BY <3>1 DEF IInv, PadInv
      <3>3. high' = 2
        BY <2>2, <3>1, <3>2
      <3> QED BY <2>1, <2>2, <2>5, <3>1, <3>3 DEF PadInv
    <2> QED BY <1>2, <2>3, <2>4, <2>5, ParkedStep
  <1>3. CASE SckRise
    <2>1. curr_state \notin {"QSPI_IDLE", "CS_OFF"}
      BY <1>3, RiseStep DEF ClockedStates
    <2> QED BY <1>3, <2>1, RiseStep DEF IInv, PadInv
  <1>4. CASE SckFall
    <2>1. curr_state \notin {"QSPI_IDLE", "CS_OFF"} /\ next_state \notin {"QSPI_IDLE", "CS_OFF"}
      BY <1>4, FallStep DEF ClockedStates
    <2>2. sio_oe_reg' = IF sio_listening THEN 0 ELSE 1
      BY <1>4 DEF SckFall, PadFlops
    <2> QED BY <1>4, <2>1, <2>2, FallStep DEF IInv, PadInv, sio_listening
  <1> QED BY <1>1, <1>2, <1>3, <1>4 DEF Next, Posedge

\* The consumer has the nibble the engine launches next on wdata (ConsumerInv): it is
\* asked for the next one by the rising SCK of all but the last.
LEMMA ConsumerStep ==
  ASSUME IInv, Next
  PROVE  ConsumerInv'
  <1>1. wdata' = PayloadNibble(wsent')
    BY DEF Next, Drive
  <1>2. txn_valid' = 1 => wsent' = 1
    BY DEF Next, Drive, DriveRequest, HoldRequest
  <1> DEFINE Before == {"CS_ON", "SEND_CMD_1", "SEND_CMD_2", "SEND_ADDR", "WAIT"}
  <1>3. ASSUME curr_state' \in Before
        PROVE  wsent' = 1
    <2>1. CASE Reset
      BY <1>3, <2>1, ResetStep
    <2>2. CASE PadStep
      <3>1. curr_state = "CS_ON" \/ (curr_state = "QSPI_IDLE" /\ txn_valid = 1)
        BY <1>3, <2>2, ParkedStep
      <3> QED BY <1>3, <2>2, <3>1, ParkedStep DEF IInv, ConsumerInv
    <2>3. CASE SckRise
      <3>1. wdata_next' = 0
        BY <1>3 DEF wdata_next
      <3> QED BY <1>3, <2>3, <3>1, RiseStep DEF IInv, ConsumerInv
    <2>4. CASE SckFall
      <3>1. wsent' = wsent /\ curr_state \in ClockedStates /\ next_state \in Before
        BY <1>3, <2>4, FallStep
      <3>2. curr_state \in Before
        BY <2>4, <3>1, FallStep, NextTable DEF IInv, ClockedStates
      <3> QED BY <3>1, <3>2 DEF IInv, ConsumerInv
    <2> QED BY <2>1, <2>2, <2>3, <2>4 DEF Next, Posedge
  <1>4. ASSUME curr_state' = "WRITE_DATA"
        PROVE  wsent' = IF sclk' = 0 \/ cycle_cnt' < payload_sck' THEN cycle_cnt' + 1
                        ELSE cycle_cnt'
    <2>1. CASE Reset
      BY <1>4, <2>1, ResetStep
    <2>2. CASE PadStep
      BY <1>4, <2>2, ParkedStep
    <2>3. CASE SckRise
      <3>1. /\ curr_state = "WRITE_DATA" /\ sclk = 0 /\ sclk' = 1
            /\ cycle_cnt' = cycle_cnt + 1
            /\ wsent' = IF wdata_next' = 1 THEN wsent + 1 ELSE wsent
        BY <1>4, <2>3, RiseStep
      <3>2. wsent = cycle_cnt + 1 /\ cycle_cnt \in Nat
        BY <3>1 DEF IInv, ConsumerInv, EngineTypes
      <3>3. payload_sck' = payload_sck /\ phase_sck'["WRITE_DATA"] = payload_sck'
        BY <2>3, RiseStep DEF payload_sck, phase_sck
      <3>4. payload_sck \in Nat /\ cycle_cnt < payload_sck
        <4>1. phase_sck["WRITE_DATA"] = payload_sck
          BY PhaseLengths DEF IInv
        <4>2. cycle_cnt < phase_sck[curr_state] /\ phase_sck[curr_state] \in 1 .. 22
          BY <2>3, RiseStep, PhaseBound DEF IInv
        <4> QED BY <3>1, <4>1, <4>2
      <3>5. wdata_next' = 1 <=> cycle_cnt' # payload_sck'
        <4>1. phase_done' <=> cycle_cnt' = payload_sck'
          BY <1>4, <3>3 DEF phase_done, ClockedStates
        <4>2. phase_after'["WRITE_DATA"] = "SCLK_OFF"
          BY DEF phase_after
        <4>3. next_state' = "WRITE_DATA" <=> cycle_cnt' # payload_sck'
          BY <1>4, <4>1, <4>2 DEF next_state
        <4> QED BY <1>4, <3>1, <4>3 DEF wdata_next, sclk_will_fall, sclk_en, ClockedStates
      <3> QED BY <3>1, <3>2, <3>3, <3>4, <3>5
    <2>4. CASE SckFall
      <3>1. /\ sclk = 1 /\ sclk' = 0 /\ wsent' = wsent /\ next_state = "WRITE_DATA"
            /\ curr_state \in ClockedStates
            /\ cycle_cnt' = IF next_state = curr_state THEN cycle_cnt ELSE 0
        BY <1>4, <2>4, FallStep
      <3>2. CASE curr_state = "WRITE_DATA"
        <4>1. cycle_cnt < payload_sck
          <5>1. cycle_cnt # phase_sck["WRITE_DATA"] /\ cycle_cnt \in 1 .. phase_sck["WRITE_DATA"]
            BY <2>4, <3>1, <3>2, FallStep
          <5>2. phase_sck["WRITE_DATA"] = payload_sck /\ payload_sck = 2 * byte_len
            BY PhaseLengths DEF IInv
          <5>3. byte_len \in 1 .. 11
            BY Numbers DEF IInv, EngineTypes
          <5> QED BY <5>1, <5>2, <5>3
        <4> QED BY <3>1, <3>2, <4>1 DEF IInv, ConsumerInv
      <3>3. CASE curr_state # "WRITE_DATA"
        <4>1. curr_state \in Before
          BY <2>4, <3>1, <3>3, FallStep, NextTable DEF IInv, ClockedStates
        <4>2. wsent = 1 /\ cycle_cnt' = 0
          BY <3>1, <3>3, <4>1 DEF IInv, ConsumerInv
        <4> QED BY <3>1, <4>2
      <3> QED BY <3>2, <3>3
    <2> QED BY <2>1, <2>2, <2>3, <2>4 DEF Next, Posedge
  <1> QED BY <1>1, <1>2, <1>3, <1>4 DEF ConsumerInv

\* Everything on SIO is a number (the nibble of an address is a slice of it).
LEMMA NibbleType ==
  ASSUME EngineTypes, NEW k \in Nat \ {0}
  PROVE  ExpectedNibble(k) \in Nat
  <1>1. cmd \in Nat /\ addr \in Nat
    BY AddrSpaceNat, Numbers DEF EngineTypes, qspi_cmd_t, qspi_addr_t
  <1>2. ASSUME k > 2, k <= 8
        PROVE  AddrNibble(addr, k - 3) \in Nat
    <2>1. NIBBLE_WEIGHT[k - 3 + 1] \in Nat \ {0}
      BY <1>2, SMT DEF NIBBLE_WEIGHT
    <2>2. \A w \in Nat \ {0} : (addr \div w) % 16 \in Nat
      BY <1>1
    <2> QED BY <2>1, <2>2 DEF AddrNibble
  <1>3. ASSUME k > 8 PROVE PayloadNibble(k - 8) \in Nat
    BY <1>3 DEF PayloadNibble
  <1>4. cmd \div 16 \in Nat /\ cmd % 16 \in Nat /\ FLOAT \in Nat
    BY <1>1 DEF FLOAT
  <1> QED BY <1>2, <1>3, <1>4 DEF ExpectedNibble

\* The nibble on the pads in a clocked phase with SCK low is the next one of the frame.
LEMMA NextNibble ==
  ASSUME IInv, curr_state \in ClockedStates, sclk = 0
  PROVE  /\ Len(frame) \in Nat
         /\ (IF sio_oe_reg = 1 THEN sio_out ELSE FLOAT) = ExpectedNibble(Len(frame) + 1)
  <1>1. Len(frame) \in Nat /\ sio_oe_reg \in {0, 1}
    BY LenProperties DEF IInv, FrameInv, EngineTypes, Bit
  <1>2. CASE curr_state \notin {"WAIT", "READ_DATA"}
    <2>1. sio_oe_reg = 1
      BY <1>1, <1>2 DEF IInv, PadInv, ClockedStates
    <2> QED BY <1>1, <1>2, <2>1 DEF IInv, FrameInv
  <1>3. CASE curr_state \in {"WAIT", "READ_DATA"}
    <2>1. sio_oe_reg = 0
      BY <1>3 DEF IInv, PadInv
    <2>2. cmd = 235
      BY <1>3, Numbers DEF IInv, PhaseInv
    <2>3. Len(frame) >= 8
      BY <1>3 DEF IInv, FrameInv, EngineTypes, sck_before
    <2> QED BY <1>1, <2>1, <2>2, <2>3, Numbers DEF ExpectedNibble
  <1> QED BY <1>1, <1>2, <1>3

\* While the request is held, so is the frame it stands for.
LEMMA FrameHeld ==
  ASSUME UNCHANGED <<cmd, addr, device_sel, byte_len>>
  PROVE  /\ frame_len' = frame_len /\ sck_before' = sck_before
         /\ \A k \in Nat : ExpectedNibble(k)' = ExpectedNibble(k)
  BY DEF frame_len, sck_before, ExpectedNibble

\* The edges of the frame before a phase add up (sck_before).
LEMMA EdgeSums ==
  ASSUME IInv, SckFall, Next, next_state # curr_state
  PROVE  sck_before[next_state] = sck_before[curr_state] + cycle_cnt
  <1>1. /\ curr_state \in ClockedStates /\ cycle_cnt = phase_sck[curr_state]
        /\ next_state \in ClockedStates \cup {"SCLK_OFF"}
    BY FallStep
  <1>2. byte_len \in 1 .. 11 /\ (cmd = 2 \/ cmd = 235)
    BY Numbers DEF IInv, EngineTypes, qspi_cmd_t
  <1>3. /\ sck_before["SEND_CMD_1"] = 0 /\ sck_before["SEND_CMD_2"] = 1
        /\ sck_before["SEND_ADDR"] = 2 /\ sck_before["WAIT"] = 8
        /\ sck_before["READ_DATA"] = 14 /\ sck_before["WRITE_DATA"] = 8
        /\ sck_before["SCLK_OFF"] = IF cmd = 2 THEN 8 + 2 * byte_len ELSE 14 + 2 * byte_len
    BY Numbers DEF sck_before, frame_len
  <1>4. /\ curr_state \in {"WAIT", "READ_DATA"} => cmd = 235
        /\ curr_state = "WRITE_DATA" => cmd = 2
    BY Numbers DEF IInv, PhaseInv
  <1>5. /\ curr_state = "SEND_CMD_1" => cycle_cnt = 1
        /\ curr_state = "SEND_CMD_2" => cycle_cnt = 1
        /\ curr_state = "SEND_ADDR" => cycle_cnt = 6
        /\ curr_state = "WAIT" => cycle_cnt = 6
        /\ curr_state \in {"READ_DATA", "WRITE_DATA"} => cycle_cnt = 2 * byte_len
    BY <1>1, <1>4, PhaseLengths, Numbers DEF IInv
  <1>6. /\ curr_state = "SEND_CMD_1" => next_state = "SEND_CMD_2"
        /\ curr_state = "SEND_CMD_2" => next_state = "SEND_ADDR"
        /\ curr_state = "SEND_ADDR" => next_state \in {"WRITE_DATA", "WAIT"}
        /\ curr_state = "WAIT" => next_state = "READ_DATA"
        /\ curr_state \in {"READ_DATA", "WRITE_DATA"} => next_state = "SCLK_OFF"
    BY <1>1, NextTable DEF IInv
  <1> HIDE DEF sck_before, phase_sck
  <1> QED BY <1>1, <1>2, <1>3, <1>4, <1>5, <1>6, SMT DEF ClockedStates

\* The nibble a falling SCK launches is the next one of the frame (launched_sio).
LEMMA LaunchedNibble ==
  ASSUME IInv, SckFall, Next, next_state \in ClockedStates \ {"WAIT", "READ_DATA"}
  PROVE  sio_out' = ExpectedNibble(Len(frame) + 1)
  <1>1. /\ curr_state \in ClockedStates /\ sclk = 1
        /\ next_state # curr_state <=> cycle_cnt = phase_sck[curr_state]
        /\ cycle_cnt \in 1 .. phase_sck[curr_state]
    BY FallStep
  <1>2. cycle_cnt \in 0 .. 22 /\ byte_len \in 1 .. 11
    BY <1>1, PhaseBound, Numbers DEF IInv, EngineTypes
  <1>3. Len(frame) = sck_before[curr_state] + cycle_cnt
    BY <1>1 DEF IInv, FrameInv, ClockedStates
  <1>4. sio_out' = IF next_state = "SEND_CMD_1" THEN cmd \div 16 ELSE launched_sio
    BY <1>1 DEF SckFall, PadFlops, next_sio_out, sio_launches, sclk_will_fall,
       sclk_en, ClockedStates, PadStates
  <1>5. /\ curr_state = "SEND_CMD_1" => cycle_cnt = 1 /\ next_state = "SEND_CMD_2"
        /\ curr_state = "SEND_CMD_2" => cycle_cnt = 1 /\ next_state = "SEND_ADDR"
        /\ curr_state = "SEND_ADDR" =>
             /\ cycle_cnt # 6 => next_state = "SEND_ADDR"
             /\ cycle_cnt = 6 => next_state = "WRITE_DATA" /\ cmd = QSPI_CMD_WRITE
        /\ curr_state = "WRITE_DATA" => next_state = "WRITE_DATA"
        /\ curr_state \notin {"WAIT", "READ_DATA"}
    <2>1. /\ curr_state = "SEND_CMD_1" => cycle_cnt = 1
          /\ curr_state = "SEND_CMD_2" => cycle_cnt = 1
      BY <1>1, <1>2, PhaseLengths DEF IInv
    <2>2. curr_state = "SEND_ADDR" => phase_sck[curr_state] = 6
      BY PhaseLengths DEF IInv
    <2> QED BY <1>1, <2>1, <2>2, NextTable, PhaseLengths DEF IInv, ClockedStates
  <1>6. CASE curr_state = "SEND_CMD_1"
    <2>1. Len(frame) = 1
      BY <1>3, <1>5, <1>6 DEF sck_before
    <2>2. sio_out' = cmd % 16
      BY <1>4, <1>5, <1>6 DEF launched_sio
    <2> QED BY <2>1, <2>2 DEF ExpectedNibble
  <1>7. CASE curr_state = "SEND_CMD_2"
    <2>1. Len(frame) = 2
      BY <1>3, <1>5, <1>7 DEF sck_before
    <2>2. sio_out' = AddrNibble(addr, 0)
      BY <1>4, <1>5, <1>7 DEF launched_sio, addr_index
    <2> QED BY <2>1, <2>2 DEF ExpectedNibble
  <1>8. CASE curr_state = "SEND_ADDR" /\ cycle_cnt # 6
    <2>1. cycle_cnt \in 1 .. 5
      <3>1. phase_sck["SEND_ADDR"] = 6
        BY PhaseLengths DEF IInv
      <3> QED BY <1>1, <1>8, <3>1
    <2>2. Len(frame) = 2 + cycle_cnt
      BY <1>3, <1>8 DEF sck_before
    <2>3. sio_out' = AddrNibble(addr, cycle_cnt)
      BY <1>4, <1>5, <1>8, <2>1 DEF launched_sio, addr_index
    <2> QED BY <2>1, <2>2, <2>3 DEF ExpectedNibble
  <1>9. CASE next_state = "WRITE_DATA" /\ curr_state \in {"SEND_ADDR", "WRITE_DATA"}
    <2>0. cmd = QSPI_CMD_WRITE
      BY <1>5, <1>9 DEF IInv, PhaseInv
    <2>1. sio_out' = PayloadNibble(wsent)
      BY <1>4, <1>9 DEF launched_sio, IInv, ConsumerInv
    <2>2. CASE curr_state = "SEND_ADDR"
      <3>1. wsent = 1 /\ cycle_cnt = 6
        BY <1>5, <1>9, <2>2 DEF IInv, ConsumerInv
      <3>2. Len(frame) = 8
        BY <1>3, <2>2, <3>1 DEF sck_before
      <3> QED BY <2>0, <2>1, <3>1, <3>2 DEF ExpectedNibble
    <2>3. CASE curr_state = "WRITE_DATA"
      <3>1. cycle_cnt < payload_sck
        <4>1. phase_sck["WRITE_DATA"] = payload_sck /\ payload_sck = 2 * byte_len
          BY PhaseLengths DEF IInv
        <4> QED BY <1>1, <1>2, <1>9, <2>3, <4>1
      <3>2. wsent = cycle_cnt + 1
        BY <2>3, <3>1 DEF IInv, ConsumerInv
      <3>3. Len(frame) = 8 + cycle_cnt
        BY <1>3, <2>3 DEF sck_before
      <3>4. Len(frame) + 1 > 8 /\ Len(frame) + 1 - 8 = wsent
        BY <1>1, <1>2, <3>2, <3>3
      <3> QED BY <1>2, <2>0, <2>1, <3>3, <3>4 DEF ExpectedNibble
    <2> QED BY <1>9, <2>2, <2>3
  <1> QED BY <1>1, <1>5, <1>6, <1>7, <1>8, <1>9 DEF ClockedStates

\* The frame on the pads grows by its next nibble at every rising SCK (FrameInv).
LEMMA FrameStep ==
  ASSUME IInv, Next
  PROVE  FrameInv'
  <1>0. /\ frame \in Seq(Nat) /\ Len(frame) \in Nat /\ cycle_cnt \in Nat /\ low \in Nat
        /\ sclk \in {0, 1}
    BY LenProperties DEF IInv, FrameInv, EngineTypes, Bit
  <1>1. CASE Reset
    <2>1. frame' = frame /\ curr_state' = "QSPI_IDLE"
      BY <1>1, ResetStep
    <2> QED BY <1>0, <2>1 DEF FrameInv, ClockedStates
  <1>2. CASE PadStep
    <2>0. sclk = 0 /\ sclk' = 0 /\ curr_state' = next_state /\ cycle_cnt' = 0
      BY <1>2, ParkedStep
    <2>1. /\ ~CeLow /\ CeLow' => frame' = <<>>
          /\ ~(~CeLow /\ CeLow') => frame' = frame
          /\ CeLow' => low' = low + 1
      BY <2>0 DEF Next, Observe
    <2>2. frame' \in Seq(Nat)
      BY <1>0, <2>1, EmptySeq
    <2>3. CASE next_state = "CS_ON"
      <3>1. curr_state = "QSPI_IDLE" /\ ~CeLow /\ CeLow'
        BY <1>2, <2>3, ParkedStep
      <3>2. frame' = <<>> /\ low' = 1
        BY <2>1, <3>1 DEF IInv, PadInv
      <3>3. sck_before'["CS_ON"] = 0
        BY DEF sck_before
      <3> QED BY <2>0, <2>2, <2>3, <3>2, <3>3 DEF FrameInv, ClockedStates
    <2>4. CASE next_state = "SEND_CMD_1"
      <3>1. curr_state = "CS_ON" /\ CeLow /\ CeLow'
        BY <1>2, <2>4, ParkedStep
      <3>2. Len(frame) = 0 /\ low = 1
        BY <1>0, <1>2, <3>1, ParkedStep DEF IInv, FrameInv, sck_before
      <3>3. frame' = frame /\ low' = 2 /\ cmd' = cmd
        BY <1>2, <2>1, <2>4, <3>1, <3>2, ParkedStep
      <3>4. sio_out' = cmd \div 16
        BY <1>2, <2>4 DEF PadStep, PadFlops, next_sio_out, PadStates
      <3>5. sck_before'["SEND_CMD_1"] = 0
        BY DEF sck_before
      <3>6. ExpectedNibble(1)' = sio_out'
        BY <3>3, <3>4 DEF ExpectedNibble
      <3> QED BY <2>0, <2>2, <2>4, <3>2, <3>3, <3>5, <3>6 DEF FrameInv
    <2>5. CASE next_state \in {"QSPI_IDLE", "CS_OFF"}
      BY <2>0, <2>2, <2>5 DEF FrameInv, ClockedStates
    <2> QED BY <1>2, <2>3, <2>4, <2>5, ParkedStep
  <1>3. CASE SckRise
    <2> DEFINE seen == IF sio_oe_reg = 1 THEN sio_out ELSE FLOAT
    <2>1. /\ curr_state \in ClockedStates /\ curr_state' = curr_state
          /\ sclk = 0 /\ sclk' = 1 /\ cycle_cnt' = cycle_cnt + 1
          /\ UNCHANGED <<cmd, addr, device_sel, byte_len>>
          /\ frame' = Append(frame, seen) /\ low' = low + 1
      BY <1>3, RiseStep
    <2>2. seen = ExpectedNibble(Len(frame) + 1) /\ seen \in Nat
      BY <1>0, <2>1, NextNibble, NibbleType DEF IInv
    <2>3. /\ frame' \in Seq(Nat) /\ Len(frame') = Len(frame) + 1
          /\ \A k \in 1 .. Len(frame) : frame'[k] = frame[k]
          /\ frame'[Len(frame) + 1] = seen
      BY <1>0, <2>1, <2>2, AppendProperties
    <2> HIDE DEF seen
    <2>4. curr_state \notin {"QSPI_IDLE", "CS_OFF", "CS_ON"}
      BY <2>1 DEF ClockedStates
    <2>5. /\ Len(frame) = sck_before[curr_state] + cycle_cnt
          /\ \A k \in 1 .. Len(frame) : frame[k] = ExpectedNibble(k)
          /\ low = 2 + 2 * Len(frame) - sclk
      BY <2>4 DEF IInv, FrameInv
    <2>6. sck_before'[curr_state'] = sck_before[curr_state]
      BY <2>1, FrameHeld
    <2>7. Len(frame') = sck_before'[curr_state'] + cycle_cnt'
      <3>1. sck_before[curr_state] \in Nat
        BY <2>1 DEF sck_before, ClockedStates
      <3>2. Len(frame) = sck_before[curr_state] + cycle_cnt
        BY <2>5
      <3>3. sck_before'[curr_state'] + cycle_cnt' = sck_before[curr_state] + (cycle_cnt + 1)
        BY <2>1, <2>6
      <3>4. Len(frame') = Len(frame) + 1
        BY <2>3
      <3> HIDE DEF sck_before
      <3>5. Len(frame) + 1 = sck_before[curr_state] + (cycle_cnt + 1)
        BY <1>0, <3>1, <3>2
      <3> QED BY <3>3, <3>4, <3>5
    <2>8. \A k \in 1 .. Len(frame') : frame'[k] = ExpectedNibble(k)'
      <3> SUFFICES ASSUME NEW k \in 1 .. Len(frame')
                   PROVE  frame'[k] = ExpectedNibble(k)
        BY <1>0, <2>1, <2>3, FrameHeld
      <3>1. k \in 1 .. Len(frame) \/ k = Len(frame) + 1
        BY <1>0, <2>3
      <3> QED BY <2>2, <2>3, <2>5, <3>1
    <2>9. low' = 2 + 2 * Len(frame') - sclk'
      BY <1>0, <2>1, <2>3, <2>5
    <2> QED BY <2>1, <2>3, <2>4, <2>7, <2>8, <2>9 DEF FrameInv
  <1>4. CASE SckFall
    <2>1. /\ curr_state \in ClockedStates /\ curr_state' = next_state
          /\ next_state \in ClockedStates \cup {"SCLK_OFF"}
          /\ sclk = 1 /\ sclk' = 0
          /\ cycle_cnt' = IF next_state = curr_state THEN cycle_cnt ELSE 0
          /\ UNCHANGED <<cmd, addr, device_sel, byte_len>>
          /\ frame' = frame /\ low' = low + 1
      BY <1>4, FallStep
    <2>2. /\ curr_state \notin {"QSPI_IDLE", "CS_OFF", "CS_ON"}
          /\ next_state \notin {"QSPI_IDLE", "CS_OFF", "CS_ON"}
      BY <2>1 DEF ClockedStates
    <2>3. /\ Len(frame) = sck_before[curr_state] + cycle_cnt
          /\ \A k \in 1 .. Len(frame) : frame[k] = ExpectedNibble(k)
          /\ low = 2 + 2 * Len(frame) - sclk
      BY <2>2 DEF IInv, FrameInv
    <2>4. Len(frame') = sck_before'[curr_state'] + cycle_cnt'
      <3>1. sck_before' = sck_before
        BY <2>1, FrameHeld
      <3>2. CASE next_state = curr_state
        BY <2>1, <2>3, <3>1, <3>2
      <3>3. CASE next_state # curr_state
        <4>1. sck_before[next_state] = Len(frame)
          BY <1>4, <2>3, <3>3, EdgeSums
        <4> HIDE DEF sck_before
        <4> QED BY <1>0, <2>1, <3>1, <3>3, <4>1
      <3> QED BY <3>2, <3>3
    <2>5. \A k \in 1 .. Len(frame') : frame'[k] = ExpectedNibble(k)'
      BY <1>0, <2>1, <2>3, FrameHeld
    <2>6. low' = 2 + 2 * Len(frame') - sclk'
      BY <1>0, <2>1, <2>3
    <2>7. next_state \in ClockedStates \ {"WAIT", "READ_DATA"} =>
            sio_out' = ExpectedNibble(Len(frame) + 1)'
      <3>1. /\ Len(frame) + 1 \in Nat
            /\ \A k \in Nat : ExpectedNibble(k)' = ExpectedNibble(k)
        BY <1>0, <2>1, FrameHeld
      <3>2. ExpectedNibble(Len(frame) + 1)' = ExpectedNibble(Len(frame) + 1)
        BY <2>1, <3>1 DEF ExpectedNibble
      <3> QED BY <1>4, <3>2, LaunchedNibble
    <2> QED BY <1>0, <2>1, <2>2, <2>4, <2>5, <2>6, <2>7 DEF FrameInv
  <1> QED BY <1>1, <1>2, <1>3, <1>4 DEF Next, Posedge

\* The initial states, and every step, keep the invariant.
LEMMA Initial ==
  ASSUME Init PROVE IInv
  <1>1. EngineTypes
    BY RequestsAssumption, SMT
    DEF Init, InitFlops, InitWires, EngineTypes, qspi_state_t, PadStates, Bit, Nibble
  <1>2. PhaseInv /\ PadInv /\ ConsumerInv
    BY DEF Init, InitFlops, InitWires, PhaseInv, PadInv, ConsumerInv, PadStates, ClockedStates
  <1>3. FrameInv
    BY EmptySeq DEF Init, InitFlops, FrameInv, ClockedStates
  <1> QED BY <1>1, <1>2, <1>3 DEF IInv

LEMMA Inductive ==
  ASSUME IInv, [Next]_vars PROVE IInv'
  <1>1. CASE Next
    BY <1>1, TypesStep, PhaseStep, PadsStep, ConsumerStep, FrameStep DEF IInv
  <1>2. CASE UNCHANGED vars
    <2>1. EngineTypes' /\ PhaseInv' /\ PadInv' /\ ConsumerInv'
      BY <1>2 DEF vars, wires, flops, IInv, EngineTypes, PhaseInv, PadInv, ConsumerInv,
         phase_sck, wait_sck, payload_sck, qspi_wait_cycles
    <2>2. FrameInv'
      BY <1>2 DEF vars, wires, flops, IInv, FrameInv, sck_before, frame_len, ExpectedNibble
    <2> QED BY <2>1, <2>2 DEF IInv
  <1> QED BY <1>1, <1>2

LEMMA Invariant == Spec => []IInv
  BY Initial, Inductive, PTL DEF Spec

-------------------------------------------------------------------------------
(***************************************************************************)
(* The frame.                                                              *)
(***************************************************************************)

\* A function on 1 .. n is a sequence of n elements.
LEMMA FunctionIsSeq ==
  ASSUME NEW S, NEW n \in Nat, NEW f \in [1 .. n -> S]
  PROVE  f \in Seq(S) /\ Len(f) = n
  <1>1. f \in Seq(S)
    BY SeqDef
  <1>2. Len(f) \in Nat /\ 1 .. Len(f) = 1 .. n
    BY <1>1, LenProperties
  <1> QED BY <1>1, <1>2, SMT

\* ExpectedFrame is the sequence of the nibbles ExpectedNibble(1), ExpectedNibble(2), ...
LEMMA FrameNibbles ==
  ASSUME EngineTypes
  PROVE  /\ Len(ExpectedFrame) = frame_len
         /\ \A k \in 1 .. frame_len : ExpectedFrame[k] = ExpectedNibble(k)
  <1> DEFINE two == <<cmd \div 16, cmd % 16>>
             six == [k \in 1 .. 6 |-> AddrNibble(addr, k - 1)]
             payload == [k \in 1 .. 2 * byte_len |-> PayloadNibble(k)]
             floats == [k \in 1 .. 6 + 2 * byte_len |-> FLOAT]
             rest == IF cmd = QSPI_CMD_WRITE THEN payload ELSE floats
             n == IF cmd = QSPI_CMD_WRITE THEN 2 * byte_len ELSE 6 + 2 * byte_len
  <1>0. byte_len \in Nat /\ cmd \in Nat
    BY Numbers DEF EngineTypes, qspi_cmd_t
  <1>1. two \in Seq(Nat) /\ Len(two) = 2
    BY <1>0
  <1>2. six \in Seq(Nat) /\ Len(six) = 6
    <2>1. \A k \in 1 .. 6 : AddrNibble(addr, k - 1) = ExpectedNibble(k + 2)
      BY DEF ExpectedNibble
    <2>2. \A k \in 1 .. 6 : AddrNibble(addr, k - 1) \in Nat
      BY <2>1, NibbleType
    <2>3. six \in [1 .. 6 -> Nat]
      BY <2>2
    <2> HIDE DEF six
    <2> QED BY <2>3, FunctionIsSeq
  <1>3. rest \in Seq(Nat) /\ Len(rest) = n
    <2>1. \A k \in 1 .. 2 * byte_len : PayloadNibble(k) \in Nat
      BY <1>0 DEF PayloadNibble
    <2>2. payload \in [1 .. 2 * byte_len -> Nat] /\ floats \in [1 .. 6 + 2 * byte_len -> Nat]
      BY <2>1 DEF FLOAT
    <2>3. rest \in [1 .. n -> Nat] /\ n \in Nat
      <3> HIDE DEF payload, floats
      <3> QED BY <1>0, <2>2
    <2> HIDE DEF rest, n
    <2> QED BY <2>3, FunctionIsSeq
  <1> DEFINE head == two \o six
  <1>4. /\ head \in Seq(Nat) /\ Len(head) = 8
        /\ \A i \in 1 .. 8 : head[i] = IF i <= 2 THEN two[i] ELSE six[i - 2]
    <2> HIDE DEF two, six
    <2>1. /\ two \o six \in Seq(Nat) /\ Len(two \o six) = Len(two) + Len(six)
          /\ \A i \in 1 .. Len(two) + Len(six) :
               (two \o six)[i] = IF i <= Len(two) THEN two[i] ELSE six[i - Len(two)]
      BY <1>1, <1>2, ConcatProperties
    <2>2. Len(two) = 2 /\ Len(two) + Len(six) = 8
      BY <1>1, <1>2
    <2> QED BY <2>1, <2>2, Zenon DEF head
  <1>5. /\ Len(ExpectedFrame) = 8 + n
        /\ \A i \in 1 .. 8 + n : ExpectedFrame[i] = IF i <= 8 THEN head[i] ELSE rest[i - 8]
    <2>1. ExpectedFrame = head \o rest
      BY DEF ExpectedFrame
    <2> HIDE DEF head, rest, n
    <2>2. /\ Len(head \o rest) = Len(head) + Len(rest)
          /\ \A i \in 1 .. Len(head) + Len(rest) :
               (head \o rest)[i] = IF i <= Len(head) THEN head[i] ELSE rest[i - Len(head)]
      BY <1>3, <1>4, ConcatProperties
    <2> QED BY <1>3, <1>4, <2>1, <2>2
  <1>6. frame_len = 8 + n
    BY <1>0 DEF frame_len
  <1>7. ASSUME NEW k \in 1 .. 8 + n
        PROVE  ExpectedFrame[k] = ExpectedNibble(k)
    <2>0. n \in Nat /\ k \in Nat
      BY <1>0
    <2>1. CASE k \in {1, 2}
      <3>1. ExpectedFrame[k] = two[k]
        <4> HIDE DEF two, rest, head, n
        <4> QED BY <1>4, <1>5, <2>0, <2>1
      <3>2. two[1] = cmd \div 16 /\ two[2] = cmd % 16
        OBVIOUS
      <3> QED BY <2>1, <3>1, <3>2 DEF ExpectedNibble
    <2>2. CASE k \in 3 .. 8
      <3>1. ExpectedFrame[k] = six[k - 2] /\ k - 2 \in 1 .. 6 /\ (k - 2) - 1 = k - 3
        <4> HIDE DEF six, rest, head, n
        <4> QED BY <1>4, <1>5, <2>0, <2>2
      <3>2. six[k - 2] = AddrNibble(addr, (k - 2) - 1)
        BY <3>1
      <3> QED BY <2>2, <3>1, <3>2 DEF ExpectedNibble
    <2>3. CASE k > 8
      <3>1. ExpectedFrame[k] = rest[k - 8]
        <4> HIDE DEF rest, head, n
        <4> QED BY <1>5, <2>0, <2>3
      <3>2. rest[k - 8] = IF cmd = QSPI_CMD_WRITE THEN PayloadNibble(k - 8) ELSE FLOAT
        BY <1>0, <2>0, <2>3
      <3> QED BY <2>0, <2>3, <3>1, <3>2 DEF ExpectedNibble
    <2> QED BY <2>0, <2>1, <2>2, <2>3
  <1> QED BY <1>5, <1>6, <1>7

\* What has been clocked of a frame never exceeds it.
LEMMA FrameBound ==
  ASSUME IInv, curr_state \notin {"QSPI_IDLE", "CS_OFF"}
  PROVE  /\ Len(frame) \in Nat /\ frame_len \in Nat /\ Len(frame) <= frame_len
         /\ curr_state = "SCLK_OFF" => Len(frame) = frame_len
  <1>1. byte_len \in 1 .. 11 /\ (cmd = 2 \/ cmd = 235) /\ cycle_cnt \in Nat
    BY Numbers DEF IInv, EngineTypes, qspi_cmd_t
  <1>2. frame_len = IF cmd = 2 THEN 8 + 2 * byte_len ELSE 14 + 2 * byte_len
    BY Numbers DEF frame_len
  <1>3. Len(frame) = sck_before[curr_state] + cycle_cnt
    BY DEF IInv, FrameInv
  <1>4. /\ sck_before["CS_ON"] = 0 /\ sck_before["SEND_CMD_1"] = 0
        /\ sck_before["SEND_CMD_2"] = 1 /\ sck_before["SEND_ADDR"] = 2
        /\ sck_before["WAIT"] = 8 /\ sck_before["READ_DATA"] = 14
        /\ sck_before["WRITE_DATA"] = 8 /\ sck_before["SCLK_OFF"] = frame_len
    BY DEF sck_before
  <1>5. curr_state \in PadStates => cycle_cnt = 0
    BY DEF IInv, PhaseInv
  <1>6. /\ curr_state \in {"WAIT", "READ_DATA"} => cmd = 235
        /\ curr_state = "WRITE_DATA" => cmd = 2
    BY Numbers DEF IInv, PhaseInv
  <1>7. curr_state \in ClockedStates => cycle_cnt <= phase_sck[curr_state]
    <2>1. ASSUME curr_state \in ClockedStates
          PROVE  cycle_cnt \in 0 .. phase_sck[curr_state] /\ phase_sck[curr_state] \in 1 .. 22
      BY <2>1, CountBound, PhaseBound DEF IInv
    <2> HIDE DEF phase_sck
    <2> QED BY <1>1, <2>1
  <1>8. /\ curr_state \in {"SEND_CMD_1", "SEND_CMD_2"} => cycle_cnt <= 1
        /\ curr_state = "SEND_ADDR" => cycle_cnt <= 6
        /\ curr_state = "WAIT" => cycle_cnt <= 6
        /\ curr_state \in {"READ_DATA", "WRITE_DATA"} => cycle_cnt <= 2 * byte_len
    BY <1>6, <1>7, PhaseLengths, Numbers DEF IInv, ClockedStates
  <1>9. curr_state \in ClockedStates \cup {"CS_ON", "SCLK_OFF"}
    BY DEF IInv, EngineTypes, qspi_state_t, PadStates
  <1> HIDE DEF sck_before, frame_len
  <1>10. curr_state \in {"CS_ON", "SCLK_OFF"} => cycle_cnt = 0
    BY <1>5 DEF PadStates
  <1> QED BY <1>1, <1>2, <1>3, <1>4, <1>6, <1>8, <1>9, <1>10, SMT DEF ClockedStates

-------------------------------------------------------------------------------
(***************************************************************************)
(* The theorems.                                                           *)
(***************************************************************************)

\* On every reachable pad state of a window the device selected has seen exactly the
\* beginning of the frame of the request (FramePrefix), and CE# only rises at its end
\* (FrameComplete): the pads of qspi_engine clock the frame that was requested, the
\* whole of it and nothing else, for every legal request and reset.
THEOREM FramesAreExact == Spec => FrameExact
  <1>1. IInv => FramePrefix
    <2> SUFFICES ASSUME IInv, CeLow
                 PROVE  /\ ram_a_cs_n = device_sel /\ ram_b_cs_n = 1 - device_sel
                        /\ Len(frame) <= Len(ExpectedFrame)
                        /\ \A k \in 1 .. Len(frame) : frame[k] = ExpectedFrame[k]
      BY DEF FramePrefix
    <2>1. curr_state \notin {"QSPI_IDLE", "CS_OFF"}
      BY CeStates DEF IInv
    <2>2. Len(frame) \in Nat /\ frame_len \in Nat /\ Len(frame) <= frame_len
      BY <2>1, FrameBound
    <2>3. /\ Len(ExpectedFrame) = frame_len
          /\ \A k \in 1 .. frame_len : ExpectedFrame[k] = ExpectedNibble(k)
      BY FrameNibbles DEF IInv
    <2>4. \A k \in 1 .. Len(frame) : frame[k] = ExpectedNibble(k)
      BY <2>1 DEF IInv, FrameInv
    <2>5. \A k \in 1 .. Len(frame) : k \in 1 .. frame_len
      <3> HIDE DEF frame_len
      <3> QED BY <2>2
    <2>6. ram_a_cs_n = device_sel /\ ram_b_cs_n = 1 - device_sel
      BY <2>1 DEF IInv, PadInv
    <2> QED BY <2>2, <2>3, <2>4, <2>5, <2>6
  <1>2. IInv /\ [Next]_vars =>
          [CeLow /\ ~CeLow' /\ rst_n = 1
             => Len(frame) = Len(ExpectedFrame) /\ sclk = 0]_vars
    <2> SUFFICES ASSUME IInv, Next, CeLow, ~CeLow', rst_n = 1
                 PROVE  Len(frame) = Len(ExpectedFrame) /\ sclk = 0
      OBVIOUS
    <2>1. PadStep
      <3>1. ~Reset
        BY DEF Reset
      <3> QED BY <3>1, RiseStep, FallStep DEF Next, Posedge
    <2>2. curr_state = "SCLK_OFF" /\ sclk = 0
      BY <2>1, ParkedStep
    <2>3. Len(frame) = frame_len
      BY <2>2, FrameBound
    <2> QED BY <2>2, <2>3, FrameNibbles DEF IInv
  <1> QED BY <1>1, <1>2, Invariant, PTL DEF Spec, FrameExact, FrameComplete

\* The three rules of the device for the order of CE#, SCK and SIO hold at every posedge:
\* CE# and SCK never change together, SIO is still while SCK rises, and CE# stays high
\* for two clks (the pad states CS_ON, SCLK_OFF and CS_OFF of qspi_engine).
THEOREM PadsKeepTiming == Spec => PadTiming
  <1>1. IInv /\ [Next]_vars =>
          [CeLow # CeLow' /\ rst_n = 1 => sclk = 0 /\ sclk' = 0]_vars
    <2> SUFFICES ASSUME IInv, Next, CeLow # CeLow', rst_n = 1
                 PROVE  sclk = 0 /\ sclk' = 0
      OBVIOUS
    <2>1. PadStep
      <3>1. ~Reset
        BY DEF Reset
      <3> QED BY <3>1, RiseStep, FallStep DEF Next, Posedge, CeLow
    <2> QED BY <2>1, ParkedStep
  <1>2. IInv /\ [Next]_vars =>
          [sclk = 0 /\ sclk' = 1 => sio_out' = sio_out /\ sio_oe_reg' = sio_oe_reg]_vars
    <2> SUFFICES ASSUME IInv, Next, sclk = 0, sclk' = 1
                 PROVE  sio_out' = sio_out /\ sio_oe_reg' = sio_oe_reg
      OBVIOUS
    <2>1. SckRise
      BY ResetStep, ParkedStep, FallStep DEF Next, Posedge
    <2> QED BY <2>1, RiseStep
  <1>3. IInv /\ [Next]_vars => [~CeLow /\ CeLow' => high = 2]_vars
    <2> SUFFICES ASSUME IInv, Next, ~CeLow, CeLow'
                 PROVE  high = 2
      OBVIOUS
    <2>1. PadStep
      BY ResetStep, RiseStep, FallStep DEF Next, Posedge
    <2>2. curr_state = "QSPI_IDLE" /\ txn_valid = 1
      BY <2>1, ParkedStep
    <2> QED BY <2>2 DEF IInv, PadInv
  <1> QED BY <1>1, <1>2, <1>3, Invariant, PTL
      DEF Spec, PadTiming, CeAndSckApart, SioStableAtRise, CeHighGap

\* CE# is low for the frame and one pad clk on each side of it, whatever is asked for:
\* tCEM follows from the longest request (QPI_MAX_BYTES) alone.
THEOREM CeLowIsBounded == Spec => []CeLowBound
  <1>1. IInv => CeLowBound
    <2> SUFFICES ASSUME IInv PROVE low <= 2 * frame_len + 2
      BY FrameNibbles DEF CeLowBound, IInv
    <2>1. CASE curr_state \in {"QSPI_IDLE", "CS_OFF"}
      <3>1. low = 0 /\ byte_len \in 1 .. 11
        BY <2>1, Numbers DEF IInv, PadInv, EngineTypes
      <3>2. frame_len \in Nat
        BY <3>1 DEF frame_len
      <3> HIDE DEF frame_len
      <3> QED BY <3>1, <3>2
    <2>2. CASE curr_state \notin {"QSPI_IDLE", "CS_OFF"}
      <3>1. Len(frame) \in Nat /\ frame_len \in Nat /\ Len(frame) <= frame_len
        BY <2>2, FrameBound
      <3>2. low = IF curr_state = "CS_ON" THEN 1 ELSE 2 + 2 * Len(frame) - sclk
        BY <2>2 DEF IInv, FrameInv
      <3>3. sclk \in {0, 1}
        BY DEF IInv, EngineTypes, Bit
      <3> HIDE DEF frame_len
      <3> QED BY <3>1, <3>2, <3>3
    <2> QED BY <2>1, <2>2
  <1> QED BY <1>1, Invariant, PTL

\* SIO is floated while a device that is read may drive it: from the wait cycles to one
\* clk after its CE# is high (sio_listening).
THEOREM ReadsLeaveTheBus == Spec => []ReadTurnaround
  <1>1. IInv => ReadTurnaround
    <2> SUFFICES ASSUME IInv, cmd = QSPI_CMD_FAST_READ, Len(frame) >= 14, CeLow \/ high = 1
                 PROVE  sio_oe_reg = 0
      BY DEF ReadTurnaround
    <2>1. CASE curr_state = "QSPI_IDLE"
      BY <2>1, CeStates DEF IInv, PadInv
    <2>2. CASE curr_state = "CS_OFF"
      BY <2>2 DEF IInv, PadInv
    <2>3. CASE curr_state \notin {"QSPI_IDLE", "CS_OFF"}
      <3>1. Len(frame) = sck_before[curr_state] + cycle_cnt
        BY <2>3 DEF IInv, FrameInv
      <3>2. curr_state \in {"CS_ON", "SCLK_OFF"} => cycle_cnt = 0
        BY DEF IInv, PhaseInv, PadStates
      <3>3. curr_state \in ClockedStates => cycle_cnt \in 0 .. phase_sck[curr_state]
        BY CountBound DEF IInv
      <3>4. curr_state \notin {"CS_ON", "SEND_CMD_1", "SEND_CMD_2", "SEND_ADDR"}
        <4>1. /\ sck_before["CS_ON"] = 0 /\ sck_before["SEND_CMD_1"] = 0
              /\ sck_before["SEND_CMD_2"] = 1 /\ sck_before["SEND_ADDR"] = 2
          BY DEF sck_before
        <4>2. /\ curr_state \in {"SEND_CMD_1", "SEND_CMD_2"} => cycle_cnt \in 0 .. 1
              /\ curr_state = "SEND_ADDR" => cycle_cnt \in 0 .. 6
          BY <3>3, PhaseLengths DEF IInv, ClockedStates
        <4> HIDE DEF sck_before
        <4> QED BY <3>1, <3>2, <4>1, <4>2
      <3>5. curr_state # "WRITE_DATA"
        BY Numbers DEF IInv, PhaseInv
      <3>6. curr_state \in {"WAIT", "READ_DATA", "SCLK_OFF"}
        BY <2>3, <3>4, <3>5 DEF IInv, EngineTypes, qspi_state_t, PadStates, ClockedStates
      <3> QED BY <3>6 DEF IInv, PadInv
    <2> QED BY <2>1, <2>2, <2>3
  <1> QED BY <1>1, Invariant, PTL

\* The consumer is asked for a nibble while SCK is high in every write cycle but the last.
LEMMA NibbleAsked ==
  ASSUME IInv
  PROVE  /\ wdata_next \in {0, 1}
         /\ wdata_next = 1 <=> /\ curr_state = "WRITE_DATA" /\ sclk = 1
                               /\ cycle_cnt # 2 * byte_len
  <1>1. curr_state = "WRITE_DATA" =>
          (next_state = "WRITE_DATA" <=> cycle_cnt # 2 * byte_len)
    BY NextTable, PhaseLengths DEF IInv, ClockedStates
  <1> QED BY <1>1 DEF wdata_next, sclk_will_fall, sclk_en, ClockedStates

\* A posedge of the engine, seen at its port.
LEMMA ContractStep ==
  ASSUME IInv, Next
  PROVE  Contract!Next
  <1>0. /\ byte_len \in 1 .. 11 /\ cycle_cnt \in Nat /\ sclk \in {0, 1} /\ txn_valid \in {0, 1}
        /\ rdata_valid \in {0, 1} /\ rst_n \in {0, 1}
    BY Numbers DEF IInv, EngineTypes, Bit
  <1>1. CASE Reset
    <2>1. /\ busy' = 0 /\ wdata_next' = 0 /\ payload_left' = 0
      BY <1>1, ResetStep DEF busy, payload_left
    <2> QED BY <1>1, <2>1 DEF Reset, Contract!Next, Contract!Reset
  <1>2. CASE PadStep
    <2>0. rst_n = 1 /\ rdata_valid' = 0 /\ rdata' = rdata /\ wdata_next' = 0
      BY <1>2, ParkedStep DEF PadStep
    <2>1. wdata_next = 0 /\ rdata_valid = 0
      <3>1. curr_state \notin {"WRITE_DATA", "READ_DATA"}
        BY <1>2, ParkedStep
      <3> QED BY <1>0, <3>1, NibbleAsked DEF IInv, PhaseInv
    <2>2. CASE curr_state = "QSPI_IDLE" /\ txn_valid = 0
      <3>1. next_state = "QSPI_IDLE" /\ curr_state' = "QSPI_IDLE"
        BY <1>2, <2>2, ParkedStep
      <3>2. busy = 0 /\ busy' = 0 /\ payload_left = 0 /\ payload_left' = 0
        BY <2>2, <3>1 DEF busy, payload_left
      <3> QED BY <2>0, <2>1, <2>2, <3>2 DEF Contract!Next, Contract!Idle, Contract!vars
    <2>3. CASE curr_state = "QSPI_IDLE" /\ txn_valid = 1
      <3>1. curr_state' = "CS_ON" /\ byte_len' = byte_len
        BY <1>2, <2>3, ParkedStep
      <3>2. busy = 0 /\ busy' = 1 /\ payload_left' = 2 * byte_len
        BY <2>3, <3>1 DEF busy, payload_left
      <3> QED BY <2>0, <2>1, <2>3, <3>2 DEF Contract!Next, Contract!Accept
    <2>4. CASE curr_state = "CS_OFF"
      <3>1. curr_state' = "QSPI_IDLE"
        BY <1>2, <2>4, ParkedStep
      <3>2. busy = 1 /\ busy' = 0 /\ payload_left = 0 /\ payload_left' = 0
        BY <2>4, <3>1 DEF busy, payload_left
      <3> QED BY <2>0, <2>1, <3>2 DEF Contract!Next, Contract!Progress, Contract!Finish
    <2>5. CASE curr_state \in {"CS_ON", "SCLK_OFF"}
      <3>1. /\ curr_state = "CS_ON" => curr_state' = "SEND_CMD_1" /\ byte_len' = byte_len
            /\ curr_state = "SCLK_OFF" => curr_state' = "CS_OFF"
        BY <1>2, <2>5, ParkedStep
      <3>2. busy = 1 /\ busy' = 1 /\ payload_left' = payload_left
        BY <2>5, <3>1 DEF busy, payload_left
      <3> QED BY <2>0, <2>1, <3>2 DEF Contract!Next, Contract!Wait
    <2> QED BY <1>0, <1>2, <2>2, <2>3, <2>4, <2>5, ParkedStep
  <1>3. CASE SckRise
    <2>1. /\ rst_n = 1 /\ curr_state \in ClockedStates /\ curr_state' = curr_state
          /\ sclk = 0 /\ sclk' = 1 /\ cycle_cnt' = cycle_cnt + 1 /\ byte_len' = byte_len
          /\ cycle_cnt < phase_sck[curr_state]
      BY <1>3, RiseStep DEF SckRise
    <2>2. busy = 1 /\ busy' = 1 /\ wdata_next = 0 /\ rdata_valid = 0
      BY <1>0, <2>1, NibbleAsked DEF busy, ClockedStates, IInv, PhaseInv
    <2>3. CASE curr_state = "READ_DATA"
      <3>1. cmd = QSPI_CMD_FAST_READ /\ cycle_cnt < 2 * byte_len
        BY <2>1, <2>3, PhaseLengths DEF IInv, PhaseInv
      <3>2. rdata' = sio_in /\ rdata_valid' = 1 /\ sio_in \in Nibble
        BY <1>3, <2>3 DEF SckRise, IInv, EngineTypes
      <3>3. /\ payload_left = 2 * byte_len - cycle_cnt
            /\ payload_left' = 2 * byte_len - (cycle_cnt + 1)
        BY <2>1, <2>3 DEF payload_left
      <3>4. payload_left > 0 /\ payload_left' = payload_left - 1
        BY <1>0, <3>1, <3>3
      <3>5. wdata_next' = 0
        BY <2>1, <2>3 DEF wdata_next
      <3> QED BY <2>1, <2>2, <3>1, <3>2, <3>4, <3>5
          DEF Contract!Next, Contract!Progress, Contract!ReadBeat,
              Contract!QSPI_CMD_FAST_READ, QSPI_CMD_FAST_READ, Contract!Nibble, Nibble
    <2>4. CASE curr_state = "WRITE_DATA"
      <3>1. cmd = QSPI_CMD_WRITE /\ cycle_cnt < 2 * byte_len
        BY <2>1, <2>4, PhaseLengths DEF IInv, PhaseInv
      <3>2. rdata' = rdata /\ rdata_valid' = 0
        BY <1>3, <2>4 DEF SckRise
      <3>3. /\ payload_left = 2 * byte_len - cycle_cnt - (1 - 0)
            /\ payload_left' = 2 * byte_len - (cycle_cnt + 1) - (1 - 1)
        BY <2>1, <2>4 DEF payload_left
      <3>4. /\ payload_left' = payload_left /\ payload_left < 2 * byte_len
            /\ cycle_cnt + 1 # 2 * byte_len => 0 < payload_left
        BY <1>0, <3>1, <3>3
      <3>5. wdata_next' = IF cycle_cnt + 1 = 2 * byte_len THEN 0 ELSE 1
        <4>1. phase_done' <=> cycle_cnt' = payload_sck'
          BY <2>1, <2>4 DEF phase_done, phase_sck, ClockedStates
        <4>2. phase_after'["WRITE_DATA"] = "SCLK_OFF"
          BY DEF phase_after
        <4>3. payload_sck' = 2 * byte_len
          <5>1. payload_sck' = payload_sck
            BY <2>1 DEF payload_sck
          <5> QED BY <5>1, PhaseLengths DEF IInv
        <4>4. next_state' = "WRITE_DATA" <=> cycle_cnt + 1 # 2 * byte_len
          BY <2>1, <2>4, <4>1, <4>2, <4>3 DEF next_state
        <4> QED BY <2>1, <2>4, <4>4 DEF wdata_next, sclk_will_fall, sclk_en, ClockedStates
      <3>6. CASE cycle_cnt + 1 = 2 * byte_len
        BY <2>1, <2>2, <3>2, <3>4, <3>5, <3>6 DEF Contract!Next, Contract!Wait
      <3>7. CASE cycle_cnt + 1 # 2 * byte_len
        BY <2>1, <2>2, <3>1, <3>2, <3>4, <3>5, <3>7
        DEF Contract!Next, Contract!Progress, Contract!AskNibble,
              Contract!QSPI_CMD_WRITE, QSPI_CMD_WRITE
      <3> QED BY <3>6, <3>7
    <2>5. CASE curr_state \notin {"READ_DATA", "WRITE_DATA"}
      <3>1. rdata' = rdata /\ rdata_valid' = 0
        BY <1>3, <2>5 DEF SckRise
      <3>2. wdata_next' = 0 /\ payload_left' = payload_left
        BY <2>1, <2>5 DEF wdata_next, payload_left, ClockedStates
      <3> QED BY <2>1, <2>2, <3>1, <3>2 DEF Contract!Next, Contract!Wait
    <2> QED BY <2>3, <2>4, <2>5
  <1>4. CASE SckFall
    <2>1. /\ rst_n = 1 /\ curr_state \in ClockedStates /\ curr_state' = next_state
          /\ next_state \in ClockedStates \cup {"SCLK_OFF"}
          /\ next_state = curr_state <=> cycle_cnt # phase_sck[curr_state]
          /\ sclk = 1 /\ sclk' = 0 /\ byte_len' = byte_len /\ wdata_next' = 0
          /\ cycle_cnt' = IF next_state = curr_state THEN cycle_cnt ELSE 0
          /\ rdata' = rdata /\ rdata_valid' = 0
      BY <1>4, FallStep DEF SckFall
    <2>2. busy = 1 /\ busy' = 1
      BY <2>1 DEF busy, ClockedStates
    <2>3. CASE curr_state = "WRITE_DATA" /\ next_state = curr_state
      <3>1. cycle_cnt # 2 * byte_len /\ cycle_cnt \in 0 .. 2 * byte_len /\ cmd = QSPI_CMD_WRITE
        BY <2>1, <2>3, CountBound, PhaseLengths DEF IInv, PhaseInv
      <3>2. wdata_next = 1 /\ rdata_valid = 0
        BY <1>0, <2>1, <2>3, <3>1, NibbleAsked DEF IInv, PhaseInv
      <3>3. /\ payload_left = 2 * byte_len - cycle_cnt - (1 - 1)
            /\ payload_left' = 2 * byte_len - cycle_cnt - (1 - 0)
        BY <2>1, <2>3 DEF payload_left
      <3>4. payload_left > 0 /\ payload_left' = payload_left - 1
        BY <1>0, <3>1, <3>3
      <3> QED BY <2>1, <2>2, <3>1, <3>2, <3>4
          DEF Contract!Next, Contract!Progress, Contract!WriteBeat,
              Contract!QSPI_CMD_WRITE, QSPI_CMD_WRITE
    <2>4. CASE next_state = "WRITE_DATA" /\ next_state # curr_state
      <3>1. curr_state = "SEND_ADDR" /\ cmd = QSPI_CMD_WRITE
        BY <2>1, <2>4, NextTable DEF IInv, PhaseInv, ClockedStates
      <3>2. wdata_next = 0 /\ rdata_valid = 0
        BY <1>0, <3>1, NibbleAsked DEF IInv, PhaseInv
      <3>3. payload_left = 2 * byte_len /\ payload_left' = 2 * byte_len - 0 - (1 - 0)
        BY <2>1, <2>4, <3>1 DEF payload_left
      <3>4. payload_left > 0 /\ payload_left' = payload_left - 1
        BY <1>0, <3>3
      <3> QED BY <2>1, <2>2, <3>1, <3>2, <3>3, <3>4
          DEF Contract!Next, Contract!Progress, Contract!WriteBeat,
              Contract!QSPI_CMD_WRITE, QSPI_CMD_WRITE
    <2>5. CASE next_state # "WRITE_DATA"
      <3>1. wdata_next = 0
        BY <2>5, NibbleAsked DEF wdata_next
      <3>2. payload_left' = payload_left
        <4>1. CASE next_state = curr_state
          BY <2>1, <2>5, <4>1 DEF payload_left, ClockedStates
        <4>2. CASE curr_state \in {"READ_DATA", "WRITE_DATA"} /\ next_state # curr_state
          <5>1. cycle_cnt = 2 * byte_len /\ next_state = "SCLK_OFF"
            BY <2>1, <4>2, PhaseLengths, NextTable DEF IInv
          <5>2. payload_left' = 0
            BY <2>1, <5>1 DEF payload_left
          <5> QED BY <1>0, <2>1, <4>2, <5>1, <5>2 DEF payload_left
        <4>3. CASE curr_state \notin {"READ_DATA", "WRITE_DATA"} /\ next_state # curr_state
          <5>1. /\ next_state \in {"SEND_CMD_2", "SEND_ADDR", "WAIT", "READ_DATA"}
                /\ cycle_cnt' = 0
            BY <2>1, <2>5, <4>3, NextTable DEF IInv, ClockedStates
          <5>2. payload_left = 2 * byte_len
            BY <2>1, <4>3 DEF payload_left, ClockedStates
          <5>3. payload_left' = 2 * byte_len
            BY <1>0, <2>1, <5>1 DEF payload_left
          <5> QED BY <5>2, <5>3
        <4> QED BY <4>1, <4>2, <4>3
      <3> QED BY <2>1, <2>2, <3>1, <3>2 DEF Contract!Next, Contract!Wait
    <2> QED BY <2>3, <2>4, <2>5
  <1> QED BY <1>1, <1>2, <1>3, <1>4 DEF Next, Posedge

\* qspi_engine implements its port contract (QspiContract): a request transfers exactly
\* its nibbles, one pulse each, and then drops busy.  DmaCore, which is checked and proved
\* against the contract, therefore stands for the controller with this engine.
THEOREM EngineKeepsContract == Spec => ImplementsContract
  <1>1. Init => Contract!Init
    BY DEF Init, InitFlops, Contract!Init, busy, wdata_next, payload_left
  <1>2. IInv /\ [Next]_vars => [Contract!Next]_(Contract!vars)
    <2>1. CASE IInv /\ Next
      BY <2>1, ContractStep
    <2>2. CASE UNCHANGED vars
      BY <2>2 DEF vars, wires, flops, Contract!vars, busy, payload_left, wdata_next,
         sclk_will_fall, sclk_en, next_state, phase_done, phase_after, phase_sck, wait_sck,
         payload_sck, qspi_wait_cycles, data_phase, after_sclk_off
    <2> QED BY <2>1, <2>2
  <1> QED BY <1>1, <1>2, Invariant, PTL DEF Spec, ImplementsContract, Contract!Spec
=============================================================================
