----------------------------- MODULE TinyDmaProofs -----------------------------
(***************************************************************************)
(* Theorems about the whole chip on its board (TinyDma), for every buffer  *)
(* depth, every staged memory, and every schedule of the host's pins.      *)
(***************************************************************************)
EXTENDS TinyDma, TLAPS

-------------------------------------------------------------------------------
(***************************************************************************)
(* The inductive invariant.  Nothing is assumed of the descriptors: what   *)
(* the proofs need of a request is that it does not change while the       *)
(* engine carries it out.                                                  *)
(***************************************************************************)

\* The ownership rules of firmware/dma.py, as the pins show them: who drives holds a
\* granted request, or the ASIC is in reset; a kill clears BUS_REQ before rst_n falls.
HostInv ==
  /\ {ui_bus_req, rst_n, host_drive, killing} \subseteq Bit
  /\ rst_n = 0 \/ killing = 1 => ui_bus_req = 0
  /\ killing = 1 => host_drive = 0 /\ rst_n = 1
  /\ host_drive = 1 /\ rst_n = 1 => ui_bus_req = 1 /\ bus_gnt = 1

\* What of BUS_REQ is still in the synchroniser: a granted request has gone through it, a
\* new one begins behind a quiet line, and no old one can follow a release.
SyncInv ==
  /\ bus_req_sync = <<bus_req_sync[1], bus_req_sync[2]>>
  /\ bus_req_sync[1] \in Bit /\ bus_req_sync[2] \in Bit
  /\ ui_bus_req = 1 /\ bus_gnt = 1 => bus_req_sync = <<1, 1>>
  /\ ui_bus_req = 1 /\ bus_gnt = 0 => bus_req_sync # <<0, 1>>
  /\ ui_bus_req = 0 /\ rst_n = 1 /\ killing = 0 =>
       IF bus_gnt = 0 THEN bus_req_sync = <<0, 0>> ELSE bus_req_sync # <<1, 0>>

\* BUS_GNT and DONE follow the state, and the engine is at work only inside a transaction.
ControllerInv ==
  /\ ctl_state \in sys_control_state_t
  /\ stalled_state \in sys_control_state_t \ {"STALL", "FETCH", "READ", "WRITE"}
  /\ bus_gnt = IF ctl_state = "STALL" THEN 1 ELSE 0
  /\ done = 1 => ctl_state = "SYS_CTRL_IDLE" \/ (ctl_state = "STALL" /\ stalled_state = "SYS_CTRL_IDLE")
  /\ engine_state # "QSPI_IDLE" => ctl_state \in {"FETCH", "READ", "WRITE"}

\* The counter of a phase the devices count too is the number of its rising SCK edges.
EngineInv ==
  /\ engine_state \in qspi_state_t /\ sclk \in Bit /\ cycle_cnt \in Nat
  /\ engine_state \in PadStates => sclk = 0 /\ cycle_cnt = 0
  /\ engine_state \in {"SEND_CMD_1", "SEND_CMD_2"} => cycle_cnt = sclk
  /\ engine_state \in {"SEND_ADDR", "WAIT"} => sclk <= cycle_cnt /\ cycle_cnt - sclk < 6
  /\ engine_state \in {"WAIT", "READ_DATA"} => Ctl!qspi_cmd = QSPI_CMD_FAST_READ
  /\ engine_state = "WRITE_DATA" => Ctl!qspi_cmd = QSPI_CMD_WRITE

Listening ==
  \/ engine_state \in {"WAIT", "READ_DATA"}
  \/ engine_state \in {"SCLK_OFF", "CS_OFF"} /\ Ctl!qspi_cmd = QSPI_CMD_FAST_READ

\* CE# is low for the device of the request alone; SIO is driven but for the turnaround.
PadInv ==
  /\ engine_state \in {"QSPI_IDLE", "CS_OFF"} => ram_a_cs_n = 1 /\ ram_b_cs_n = 1
  /\ engine_state \notin {"QSPI_IDLE", "CS_OFF"} =>
       /\ ram_a_cs_n = IF Ctl!qspi_device_sel = QSPI_PSRAM0 THEN 0 ELSE 1
       /\ ram_b_cs_n = IF Ctl!qspi_device_sel = QSPI_PSRAM1 THEN 0 ELSE 1
  /\ engine_state # "QSPI_IDLE" => sio_oe_reg = IF Listening THEN 0 ELSE 1
  /\ engine_state = "SEND_CMD_1" => sio_out = Ctl!qspi_cmd \div 16
  /\ engine_state = "SEND_CMD_2" /\ sclk = 0 => sio_out = Ctl!qspi_cmd % 16

\* A device is a record of these fields.
Shaped(p) ==
  p = [phase |-> p.phase, count |-> p.count, opcode |-> p.opcode, address |-> p.address,
       start |-> p.start, half |-> p.half, drive |-> p.drive, bytes |-> p.bytes]

At(p, phase, count) == p.phase = phase /\ p.count = count

\* A selected device is in the phase of the engine, edge by edge, with its command.
DeviceInStep(p) ==
  /\ Shaped(p)
  /\ engine_state = "CS_ON" => At(p, "CMD", 0) /\ p.opcode = 0
  /\ engine_state = "SEND_CMD_1" =>
       At(p, "CMD", cycle_cnt) /\ p.opcode = IF sclk = 0 THEN 0 ELSE Ctl!qspi_cmd \div 16
  /\ engine_state = "SEND_CMD_2" =>
       IF sclk = 0 THEN At(p, "CMD", 1) /\ p.opcode = Ctl!qspi_cmd \div 16
       ELSE At(p, "ADDR", 0)
  /\ engine_state = "SEND_ADDR" =>
       IF cycle_cnt < 6 THEN At(p, "ADDR", cycle_cnt)
       ELSE At(p, PhaseAfterAddress(Ctl!qspi_cmd), 0)
  /\ engine_state = "WAIT" =>
       IF cycle_cnt < 6 THEN At(p, "DUMMY", cycle_cnt) ELSE p.phase = "DATA"
  /\ engine_state \in {"READ_DATA", "WRITE_DATA", "SCLK_OFF"} => p.phase = "DATA"
  /\ engine_state \notin {"CS_ON", "SEND_CMD_1", "SEND_CMD_2"}
       \/ (engine_state = "SEND_CMD_2" /\ sclk = 1) => p.opcode = Ctl!qspi_cmd
  /\ p.drive = NONE \/ engine_state = "READ_DATA"
       \/ (engine_state = "SCLK_OFF" /\ Ctl!qspi_cmd = QSPI_CMD_FAST_READ)

DeviceInv ==
  /\ psram = [d \in qspi_device_sel_t |-> psram[d]]
  /\ \A d \in qspi_device_sel_t :
       IF pad_ce_n[d] = 1 THEN psram[d] = Deselected ELSE DeviceInStep(psram[d])

IInv == HostInv /\ SyncInv /\ ControllerInv /\ EngineInv /\ PadInv /\ DeviceInv

-------------------------------------------------------------------------------
(***************************************************************************)
(* A posedge of the controller.                                            *)
(***************************************************************************)

\* Each module has its copy of the package; the numbers are the same.
LEMMA Numbers ==
  /\ QSPI_CMD_WRITE = 2 /\ QSPI_CMD_FAST_READ = 235
  /\ Ctl!QSPI_CMD_WRITE = 2 /\ Ctl!QSPI_CMD_FAST_READ = 235
  /\ Engine!QSPI_CMD_WRITE = 2 /\ Engine!QSPI_CMD_FAST_READ = 235
  /\ QSPI_PSRAM0 = 0 /\ QSPI_PSRAM1 = 1
  /\ Engine!QSPI_PSRAM0 = 0 /\ Engine!QSPI_PSRAM1 = 1
  BY SMT DEF QSPI_CMD_WRITE, QSPI_CMD_FAST_READ, QSPI_PSRAM0, QSPI_PSRAM1,
    Ctl!QSPI_CMD_WRITE, Ctl!QSPI_CMD_FAST_READ, Engine!QSPI_CMD_WRITE,
    Engine!QSPI_CMD_FAST_READ, Engine!QSPI_PSRAM0, Engine!QSPI_PSRAM1

\* A request is a write or a read.
LEMMA CommandType ==
  Ctl!qspi_cmd = 2 \/ Ctl!qspi_cmd = 235
  BY Numbers DEF Ctl!qspi_cmd

\* In reset every flop of the controller takes its reset value.
LEMMA ControllerReset ==
  ASSUME Ctl!Posedge(qspi_wdata_next), rst_n = 0
  PROVE  /\ ctl_state' = "SYS_CTRL_IDLE" /\ stalled_state' = "SYS_CTRL_IDLE"
         /\ bus_gnt' = 0 /\ done' = 1
  BY DEF Ctl!Posedge, Ctl!Reset, Ctl!IdleOrStall, Ctl!NewFetch, Ctl!Fetch, Ctl!NewOp,
    Ctl!Read, Ctl!Write, Ctl!Update, Ctl!Control

\* Out of reset every state writes the control flops.
LEMMA ControlWrites ==
  ASSUME Ctl!Posedge(qspi_wdata_next), rst_n = 1
  PROVE  Ctl!Control
  BY DEF Ctl!Posedge, Ctl!Reset, Ctl!IdleOrStall, Ctl!NewFetch, Ctl!Fetch, Ctl!NewOp,
    Ctl!Read, Ctl!Write, Ctl!Update

\* The next state of the controller, as far as the bus depends on it.
LEMMA ControllerNext ==
  ASSUME ControllerInv
  PROVE  /\ Ctl!next_state \in sys_control_state_t
         /\ Ctl!next_state = "STALL" <=>
              bus_req = 1 /\ ctl_state \notin {"FETCH", "READ", "WRITE"}
         /\ qspi_busy = 1 => (ctl_state \in {"FETCH", "READ", "WRITE"}
                                /\ Ctl!next_state = ctl_state)
         /\ Ctl!qspi_txn_valid = 1 =>
              /\ ctl_state = "NEW_FETCH" => Ctl!next_state = "FETCH"
              /\ ctl_state = "NEW_OP" => \/ Ctl!next_state = "READ" /\ write_pending # 1
                                         \/ Ctl!next_state = "WRITE" /\ write_pending = 1
              /\ ctl_state = "NEW_OP" => Ctl!quit(task_ctrl_desc) # 1
              /\ ctl_state \in {"NEW_FETCH", "NEW_OP"}
  <1>1. /\ ctl_state \in sys_control_state_t
        /\ stalled_state \in sys_control_state_t \ {"STALL", "FETCH", "READ", "WRITE"}
        /\ qspi_busy = 1 => ctl_state \in {"FETCH", "READ", "WRITE"}
    BY DEF ControllerInv, qspi_busy
  <1>2. Ctl!after_fetch_or_read \in {"SYS_CTRL_IDLE", "NEW_FETCH", "WRITE", "READ"}
    BY DEF Ctl!after_fetch_or_read
  <1>3. Ctl!after_update \in {"NEW_FETCH", "NEW_OP"}
    BY DEF Ctl!after_update
  <1>4. /\ ctl_state = "SYS_CTRL_IDLE" => Ctl!resume_next \in {"NEW_FETCH", "SYS_CTRL_IDLE"}
        /\ ctl_state = "NEW_FETCH" => Ctl!resume_next \in {"FETCH", "NEW_FETCH"}
        /\ ctl_state = "FETCH" => Ctl!resume_next = IF qspi_busy = 0 THEN "NEW_OP" ELSE "FETCH"
        /\ ctl_state = "NEW_OP" => Ctl!resume_next = Ctl!after_fetch_or_read
        /\ ctl_state = "READ" => Ctl!resume_next = IF qspi_busy = 0 THEN "NEW_OP" ELSE "READ"
        /\ ctl_state = "WRITE" => Ctl!resume_next = IF qspi_busy = 0 THEN "UPDATE" ELSE "WRITE"
        /\ ctl_state = "UPDATE" => Ctl!resume_next = Ctl!after_update
        /\ ctl_state = "STALL" => Ctl!resume_next = stalled_state
    BY DEF Ctl!resume_next
  <1>5. Ctl!yields <=> ctl_state \notin {"FETCH", "READ", "WRITE"}
    BY DEF Ctl!yields
  <1>6. Ctl!next_state = IF bus_req = 1 /\ Ctl!yields THEN "STALL" ELSE Ctl!resume_next
    BY DEF Ctl!next_state
  <1>7. Ctl!resume_next \in sys_control_state_t \ {"STALL"}
    BY <1>1, <1>2, <1>3, <1>4 DEF sys_control_state_t
  <1>8. Ctl!qspi_txn_valid = 1 => /\ ctl_state \in {"NEW_FETCH", "NEW_OP"}
                                  /\ Ctl!next_state \in {"READ", "WRITE", "FETCH"}
    BY DEF Ctl!qspi_txn_valid
  <1>9. Ctl!next_state \in sys_control_state_t
    BY <1>6, <1>7 DEF sys_control_state_t
  <1>10. Ctl!next_state = "STALL" <=> bus_req = 1 /\ ctl_state \notin {"FETCH", "READ", "WRITE"}
    BY <1>5, <1>6, <1>7
  <1>11. ASSUME qspi_busy = 1
         PROVE  ctl_state \in {"FETCH", "READ", "WRITE"} /\ Ctl!next_state = ctl_state
    BY <1>1, <1>4, <1>5, <1>6, <1>11
  <1>12. ASSUME Ctl!qspi_txn_valid = 1
         PROVE  /\ ctl_state = "NEW_FETCH" => Ctl!next_state = "FETCH"
                /\ ctl_state = "NEW_OP" => \/ Ctl!next_state = "READ" /\ write_pending # 1
                                           \/ Ctl!next_state = "WRITE" /\ write_pending = 1
                /\ ctl_state = "NEW_OP" => Ctl!quit(task_ctrl_desc) # 1
    <2>1. Ctl!next_state = Ctl!resume_next
      BY <1>6, <1>8, <1>12
    <2>2. ctl_state = "NEW_FETCH" => Ctl!next_state = "FETCH"
      BY <1>4, <1>8, <1>12, <2>1
    <2>3. ctl_state = "NEW_OP" => Ctl!after_fetch_or_read \in {"READ", "WRITE"}
      BY <1>2, <1>4, <1>8, <1>12, <2>1
    <2>4. ctl_state = "NEW_OP" =>
            /\ Ctl!quit(task_ctrl_desc) # 1
            /\ Ctl!after_fetch_or_read = IF write_pending = 1 THEN "WRITE" ELSE "READ"
      BY <2>3 DEF Ctl!after_fetch_or_read
    <2> QED BY <1>4, <2>1, <2>2, <2>4
  <1> QED BY <1>8, <1>9, <1>10, <1>11, <1>12

\* While the engine is busy, and in the clk it accepts a request, the controller keeps
\* the command and the device it asked for (D21): the descriptor may shift meanwhile.
LEMMA RequestHeld ==
  ASSUME ControllerInv, Ctl!Posedge(qspi_wdata_next), rst_n = 1,
         qspi_busy = 1 \/ Ctl!qspi_txn_valid = 1
  PROVE  /\ Ctl!qspi_cmd' = Ctl!qspi_cmd /\ Ctl!qspi_device_sel' = Ctl!qspi_device_sel
         /\ ctl_state' \in {"FETCH", "READ", "WRITE"} /\ bus_gnt' = 0
         /\ bus_gnt = 0
  <1>1. Ctl!Control
    BY ControlWrites
  <1>2. ctl_state' = Ctl!next_state /\ bus_gnt' = IF Ctl!next_state = "STALL" THEN 1 ELSE 0
    BY <1>1 DEF Ctl!Control
  <1>3. bus_gnt = IF ctl_state = "STALL" THEN 1 ELSE 0
    BY DEF ControllerInv
  <1>4. ASSUME write_pending' = write_pending
        PROVE  Ctl!qspi_cmd' = Ctl!qspi_cmd
    BY <1>4 DEF Ctl!qspi_cmd
  <1>5. CASE qspi_busy = 1
    <2>1. ctl_state \in {"FETCH", "READ", "WRITE"} /\ Ctl!next_state = ctl_state
      BY <1>5, ControllerNext
    <2>2. write_pending' = write_pending
      BY <2>1 DEF Ctl!Posedge, Ctl!Reset, Ctl!IdleOrStall, Ctl!NewFetch, Ctl!Fetch,
        Ctl!NewOp, Ctl!Read, Ctl!Write, Ctl!Update
    <2>3. CASE ctl_state = "FETCH"
      <3>1. active_fetch_device' = active_fetch_device
        BY <2>3 DEF Ctl!Posedge, Ctl!Reset, Ctl!IdleOrStall, Ctl!NewFetch, Ctl!Fetch,
          Ctl!NewOp, Ctl!Read, Ctl!Write, Ctl!Update
      <3> QED BY <1>2, <1>3, <1>4, <2>1, <2>2, <2>3, <3>1 DEF Ctl!qspi_device_sel
    <2>4. CASE ctl_state \in {"READ", "WRITE"}
      <3>1. task_ctrl_desc' = task_ctrl_desc
        BY <2>1, <2>4 DEF Ctl!Posedge, Ctl!Reset, Ctl!IdleOrStall, Ctl!NewFetch, Ctl!Fetch,
          Ctl!NewOp, Ctl!Read, Ctl!Write, Ctl!Update
      <3> QED BY <1>2, <1>3, <1>4, <2>1, <2>2, <2>4, <3>1 DEF Ctl!qspi_device_sel
    <2> QED BY <2>1, <2>3, <2>4
  <1>6. CASE Ctl!qspi_txn_valid = 1
    <2>1. CASE ctl_state = "NEW_FETCH"
      <3>1. /\ write_pending' = write_pending
            /\ active_fetch_device' = Ctl!next_tcd_device(task_ctrl_desc)
        BY <2>1 DEF Ctl!Posedge, Ctl!Reset, Ctl!IdleOrStall, Ctl!NewFetch, Ctl!Fetch,
          Ctl!NewOp, Ctl!Read, Ctl!Write, Ctl!Update
      <3>2. Ctl!next_state = "FETCH"
        BY <1>6, <2>1, ControllerNext
      <3>3. /\ Ctl!qspi_device_sel = Ctl!next_tcd_device(task_ctrl_desc)
            /\ Ctl!qspi_device_sel' = active_fetch_device'
        BY <1>2, <2>1, <3>2 DEF Ctl!qspi_device_sel
      <3> QED BY <1>2, <1>3, <1>4, <2>1, <3>1, <3>2, <3>3
    <2>2. CASE ctl_state = "NEW_OP"
      <3>1. Ctl!quit(task_ctrl_desc) # 1
        BY <1>6, <2>2, ControllerNext
      <3>2. write_pending' = write_pending /\ task_ctrl_desc' = task_ctrl_desc
        BY <2>2, <3>1 DEF Ctl!Posedge, Ctl!Reset, Ctl!IdleOrStall, Ctl!NewFetch, Ctl!Fetch,
          Ctl!NewOp, Ctl!Read, Ctl!Write, Ctl!Update
      <3>3. \/ Ctl!next_state = "READ" /\ write_pending # 1
            \/ Ctl!next_state = "WRITE" /\ write_pending = 1
        BY <1>6, <2>2, ControllerNext
      <3>4. Ctl!qspi_device_sel = IF write_pending = 1 THEN Ctl!dest_device(task_ctrl_desc)
                                  ELSE Ctl!src_device(task_ctrl_desc)
        BY <2>2 DEF Ctl!qspi_device_sel, Ctl!pending
      <3>5. /\ ctl_state' = "READ" =>
                 Ctl!qspi_device_sel' = Ctl!src_device(task_ctrl_desc)
            /\ ctl_state' = "WRITE" =>
                 Ctl!qspi_device_sel' = Ctl!dest_device(task_ctrl_desc)
        BY <3>2 DEF Ctl!qspi_device_sel
      <3> QED BY <1>2, <1>3, <1>4, <2>2, <3>2, <3>3, <3>4, <3>5
    <2> QED BY <1>6, <2>1, <2>2, ControllerNext
  <1> QED BY <1>5, <1>6

-------------------------------------------------------------------------------
(***************************************************************************)
(* A posedge of the engine.                                                *)
(***************************************************************************)

\* The next-state logic, tabulated (phase_done, phase_after).
LEMMA EngineNext ==
  ASSUME EngineInv
  PROVE  /\ engine_state = "QSPI_IDLE" =>
              Engine!next_state = IF Ctl!qspi_txn_valid = 1 THEN "CS_ON" ELSE "QSPI_IDLE"
         /\ engine_state = "CS_ON" => Engine!next_state = "SEND_CMD_1"
         /\ engine_state \in {"SEND_CMD_1", "SEND_CMD_2"} /\ sclk = 0 =>
              Engine!next_state = engine_state
         /\ engine_state = "SEND_CMD_1" /\ sclk = 1 => Engine!next_state = "SEND_CMD_2"
         /\ engine_state = "SEND_CMD_2" /\ sclk = 1 => Engine!next_state = "SEND_ADDR"
         /\ engine_state \in {"SEND_ADDR", "WAIT"} /\ cycle_cnt # 6 =>
              Engine!next_state = engine_state
         /\ engine_state = "SEND_ADDR" /\ cycle_cnt = 6 =>
              Engine!next_state = IF Ctl!qspi_cmd = 2 THEN "WRITE_DATA" ELSE "WAIT"
         /\ engine_state = "WAIT" /\ cycle_cnt = 6 => Engine!next_state = "READ_DATA"
         /\ engine_state \in {"READ_DATA", "WRITE_DATA"} =>
              Engine!next_state \in {engine_state, "SCLK_OFF"}
         /\ engine_state = "SCLK_OFF" => Engine!next_state = "CS_OFF"
         /\ engine_state = "CS_OFF" => Engine!next_state = "QSPI_IDLE"
  <1>1. /\ Engine!phase_after["QSPI_IDLE"] = "CS_ON" /\ Engine!phase_after["CS_ON"] = "SEND_CMD_1"
        /\ Engine!phase_after["SEND_CMD_1"] = "SEND_CMD_2"
        /\ Engine!phase_after["SEND_CMD_2"] = "SEND_ADDR"
        /\ Engine!phase_after["READ_DATA"] = "SCLK_OFF" /\ Engine!phase_after["WRITE_DATA"] = "SCLK_OFF"
        /\ Engine!phase_after["SCLK_OFF"] = "CS_OFF" /\ Engine!phase_after["CS_OFF"] = "QSPI_IDLE"
        /\ Engine!phase_after["WAIT"] = Engine!data_phase
        /\ Engine!phase_after["SEND_ADDR"] =
             IF Engine!qspi_wait_cycles(Ctl!qspi_cmd) = 0 THEN Engine!data_phase ELSE "WAIT"
    BY DEF Engine!phase_after, Engine!after_sclk_off
  <1>2. /\ Engine!qspi_wait_cycles(Ctl!qspi_cmd) = IF Ctl!qspi_cmd = 235 THEN 6 ELSE 0
        /\ Engine!data_phase = IF Ctl!qspi_cmd = 2 THEN "WRITE_DATA" ELSE "READ_DATA"
    BY Numbers DEF Engine!qspi_wait_cycles, Engine!data_phase
  <1>3. /\ Engine!phase_sck["SEND_CMD_1"] = 1 /\ Engine!phase_sck["SEND_CMD_2"] = 1
        /\ Engine!phase_sck["SEND_ADDR"] = 6
        /\ Engine!phase_sck["WAIT"] = IF Ctl!qspi_cmd = 235 THEN 6 ELSE 0
    BY <1>2 DEF Engine!phase_sck, Engine!wait_sck
  <1>4. /\ engine_state \in PadStates =>
             (Engine!phase_done <=> (engine_state = "QSPI_IDLE" => Ctl!qspi_txn_valid = 1))
        /\ engine_state \in ClockedStates =>
             (Engine!phase_done <=> cycle_cnt = Engine!phase_sck[engine_state])
    BY DEF Engine!phase_done, PadStates, ClockedStates, Engine!ClockedStates
  <1>5. Engine!next_state =
          IF Engine!phase_done THEN Engine!phase_after[engine_state] ELSE engine_state
    BY DEF Engine!next_state
  <1>6. /\ engine_state \in {"SEND_CMD_1", "SEND_CMD_2"} => cycle_cnt = sclk
        /\ engine_state = "WAIT" => Ctl!qspi_cmd = 235
    BY Numbers DEF EngineInv
  <1> QED BY <1>1, <1>2, <1>3, <1>4, <1>5, <1>6, CommandType DEF PadStates, ClockedStates

\* In reset the engine is idle and both CE# are high.
LEMMA EngineReset ==
  ASSUME Engine!Posedge, rst_n = 0
  PROVE  /\ engine_state' = "QSPI_IDLE" /\ cycle_cnt' = 0 /\ sclk' = 0
         /\ ram_a_cs_n' = 1 /\ ram_b_cs_n' = 1
  BY DEF Engine!Posedge, Engine!Reset, Engine!PadStep, Engine!SckRise, Engine!SckFall

\* The pads follow the state the engine goes to, at every posedge out of reset.
LEMMA PadsFollow ==
  ASSUME Engine!PadFlops
  PROVE  /\ sio_out' = Engine!next_sio_out
         /\ Engine!next_state \in {"QSPI_IDLE", "CS_OFF"} => ram_a_cs_n' = 1 /\ ram_b_cs_n' = 1
         /\ Engine!next_state \notin {"QSPI_IDLE", "CS_OFF"} =>
              /\ ram_a_cs_n' = IF Ctl!qspi_device_sel = QSPI_PSRAM0 THEN 0 ELSE 1
              /\ ram_b_cs_n' = IF Ctl!qspi_device_sel = QSPI_PSRAM1 THEN 0 ELSE 1
         /\ sio_oe_reg' = IF \/ Engine!next_state \in {"WAIT", "READ_DATA"}
                             \/ (Ctl!qspi_cmd = 235 /\ Engine!next_state \in {"SCLK_OFF", "CS_OFF"})
                          THEN 0 ELSE 1
  BY Numbers DEF Engine!PadFlops, Engine!ram_cs_n_next, Engine!cs_n_next, Engine!sio_listening

\* A clk in a state with SCK parked.
LEMMA ParkedStep ==
  ASSUME EngineInv, rst_n = 1, Engine!PadStep
  PROVE  /\ engine_state \in PadStates /\ engine_state' = Engine!next_state
         /\ engine_state' \in {"QSPI_IDLE", "CS_ON", "SEND_CMD_1", "CS_OFF"}
         /\ sclk = 0 /\ sclk' = 0 /\ cycle_cnt' = 0
         /\ engine_state' = "SEND_CMD_1" => sio_out' = Ctl!qspi_cmd \div 16
         /\ engine_state' = "CS_ON" => engine_state = "QSPI_IDLE" /\ Ctl!qspi_txn_valid = 1
         /\ engine_state' = "SEND_CMD_1" => engine_state = "CS_ON"
         /\ engine_state' = "CS_OFF" => engine_state = "SCLK_OFF"
  <1>1. engine_state \in PadStates
    BY DEF Engine!PadStep, Engine!sclk_en, EngineInv, qspi_state_t, Engine!ClockedStates,
      ClockedStates
  <1>2. engine_state' = Engine!next_state /\ sclk' = 0 /\ cycle_cnt' = 0 /\ Engine!PadFlops
    BY DEF Engine!PadStep
  <1>3. Engine!next_state = "SEND_CMD_1" => Engine!next_sio_out = Ctl!qspi_cmd \div 16
    BY DEF Engine!next_sio_out, Engine!PadStates
  <1> QED BY <1>1, <1>2, <1>3, EngineNext, PadsFollow DEF EngineInv, PadStates

\* A rising SCK: the phase stays, and counts.
LEMMA RiseStep ==
  ASSUME EngineInv, rst_n = 1, Engine!SckRise
  PROVE  /\ engine_state \in ClockedStates /\ engine_state' = engine_state
         /\ sclk = 0 /\ sclk' = 1
         /\ engine_state \in {"SEND_CMD_1", "SEND_CMD_2", "SEND_ADDR", "WAIT"} =>
              Engine!next_state = engine_state /\ cycle_cnt' = cycle_cnt + 1
         /\ cycle_cnt' \in Nat
         /\ engine_state = "SEND_CMD_1" => sio_out' = Ctl!qspi_cmd \div 16
         /\ engine_state = "SEND_CMD_2" => sio_out' = sio_out
  <1>1. /\ engine_state \in ClockedStates /\ sclk = 0 /\ sclk' = 1 /\ engine_state' = engine_state
        /\ cycle_cnt' = IF Engine!next_state = engine_state THEN Engine!next_count ELSE 0
        /\ Engine!PadFlops
    BY DEF Engine!SckRise, Engine!sclk_will_rise, Engine!sclk_en, Engine!ClockedStates,
      ClockedStates
  <1>2. cycle_cnt \in Nat /\ Engine!next_count = (cycle_cnt + 1) % 32
    BY SMT DEF EngineInv, Engine!next_count, Engine!QPI_CYCLE_CNT_MOD, Engine!QPI_MAX_BYTES,
      Engine!DMA_BUF_DEPTH_MAX, Engine!QPI_TCD_BYTES
  <1>3. engine_state \in {"SEND_CMD_1", "SEND_CMD_2", "SEND_ADDR", "WAIT"} => cycle_cnt < 6
    BY <1>1 DEF EngineInv
  <1>4. engine_state \in {"SEND_CMD_1", "SEND_CMD_2", "SEND_ADDR", "WAIT"} =>
          Engine!next_state = engine_state
    BY <1>1, <1>3, EngineNext
  <1>5. Engine!next_count \in Nat /\ (cycle_cnt < 6 => Engine!next_count = cycle_cnt + 1)
    BY <1>2
  <1>6. /\ engine_state = "SEND_CMD_1" => Engine!next_sio_out = Ctl!qspi_cmd \div 16
        /\ engine_state = "SEND_CMD_2" => Engine!next_sio_out = sio_out
    BY <1>1, <1>4 DEF Engine!next_sio_out, Engine!PadStates, Engine!sio_launches,
      Engine!sclk_will_fall
  <1> QED BY <1>1, <1>3, <1>4, <1>5, <1>6, PadsFollow

\* A falling SCK: the phase ends when its count is reached.
LEMMA FallStep ==
  ASSUME EngineInv, rst_n = 1, Engine!SckFall
  PROVE  /\ engine_state \in ClockedStates /\ engine_state' = Engine!next_state
         /\ sclk = 1 /\ sclk' = 0
         /\ cycle_cnt' = IF engine_state' = engine_state THEN cycle_cnt ELSE 0
         /\ engine_state' = "SEND_CMD_2" =>
              engine_state = "SEND_CMD_1" /\ sio_out' = Ctl!qspi_cmd % 16
  <1>1. /\ engine_state \in ClockedStates /\ sclk = 1 /\ sclk' = 0
        /\ engine_state' = Engine!next_state
        /\ cycle_cnt' = IF Engine!next_state = engine_state THEN cycle_cnt ELSE 0
        /\ Engine!PadFlops /\ Engine!sio_launches
    BY DEF Engine!SckFall, Engine!sclk_will_fall, Engine!sclk_en, Engine!ClockedStates,
      ClockedStates, Engine!sio_launches
  <1>2. Engine!next_state = "SEND_CMD_2" => engine_state = "SEND_CMD_1"
    BY <1>1, EngineNext DEF ClockedStates
  <1>3. ASSUME Engine!next_state = "SEND_CMD_2"
        PROVE  Engine!next_sio_out = Ctl!qspi_cmd % 16
    <2>1. Engine!launched_sio = Ctl!qspi_cmd % 16
      BY <1>3, Zenon DEF Engine!launched_sio
    <2> QED BY <1>1, <1>3, <2>1 DEF Engine!next_sio_out, Engine!PadStates
  <1> QED BY <1>1, <1>2, <1>3, PadsFollow

-------------------------------------------------------------------------------
(***************************************************************************)
(* A posedge of the chip keeps the invariant of the flops.                 *)
(***************************************************************************)

\* The actions of the engine take every state it can be in, one at a time.
LEMMA EngineCases ==
  ASSUME Engine!Posedge, rst_n = 1
  PROVE  Engine!PadStep \/ Engine!SckRise \/ Engine!SckFall
  BY DEF Engine!Posedge, Engine!Reset

\* What the engine leaves idle was requested, and the request stands while it is busy.
LEMMA BusyIsRequested ==
  ASSUME ControllerInv, EngineInv, rst_n = 1, Engine!Posedge, Ctl!Posedge(qspi_wdata_next),
         engine_state' # "QSPI_IDLE"
  PROVE  /\ Ctl!qspi_cmd' = Ctl!qspi_cmd /\ Ctl!qspi_device_sel' = Ctl!qspi_device_sel
         /\ ctl_state' \in {"FETCH", "READ", "WRITE"} /\ bus_gnt' = 0 /\ bus_gnt = 0
  <1>1. engine_state # "QSPI_IDLE" \/ Ctl!qspi_txn_valid = 1
    BY EngineCases, ParkedStep, EngineNext, RiseStep, FallStep DEF ClockedStates
  <1>2. qspi_busy = 1 \/ Ctl!qspi_txn_valid = 1
    BY <1>1 DEF qspi_busy
  <1> QED BY <1>2, RequestHeld

LEMMA ControllerInvStep ==
  ASSUME ControllerInv, EngineInv, rst_n \in Bit, Engine!Posedge, Ctl!Posedge(qspi_wdata_next)
  PROVE  ControllerInv'
  <1>1. CASE rst_n = 0
    BY <1>1, ControllerReset, EngineReset DEF ControllerInv, sys_control_state_t
  <1>2. CASE rst_n = 1
    <2>1. Ctl!Control
      BY <1>2, ControlWrites
    <2>2. ctl_state' \in sys_control_state_t /\ bus_gnt' = IF ctl_state' = "STALL" THEN 1 ELSE 0
      BY <2>1, ControllerNext DEF Ctl!Control
    <2>3. stalled_state' \in sys_control_state_t \ {"STALL", "FETCH", "READ", "WRITE"}
      BY <2>1, ControllerNext DEF Ctl!Control, ControllerInv, sys_control_state_t
    <2>4. done' = 1 =>
            \/ ctl_state' = "SYS_CTRL_IDLE"
            \/ (ctl_state' = "STALL" /\ stalled_state' = "SYS_CTRL_IDLE")
      BY <2>1 DEF Ctl!Control, Ctl!stall_origin
    <2>5. engine_state' # "QSPI_IDLE" => ctl_state' \in {"FETCH", "READ", "WRITE"}
      BY <1>2, BusyIsRequested
    <2> QED BY <2>2, <2>3, <2>4, <2>5 DEF ControllerInv
  <1> QED BY <1>1, <1>2 DEF Bit

LEMMA EngineInvStep ==
  ASSUME ControllerInv, EngineInv, rst_n \in Bit, Engine!Posedge, Ctl!Posedge(qspi_wdata_next)
  PROVE  EngineInv'
  <1>1. CASE rst_n = 0
    BY <1>1, EngineReset DEF EngineInv, qspi_state_t, PadStates, ClockedStates, Bit
  <1>2. CASE rst_n = 1 /\ Engine!PadStep
    <2>1. engine_state' \in {"QSPI_IDLE", "CS_ON", "SEND_CMD_1", "CS_OFF"}
          /\ sclk' = 0 /\ cycle_cnt' = 0
      BY <1>2, ParkedStep
    <2> QED BY <2>1 DEF EngineInv, qspi_state_t, PadStates, ClockedStates, Bit
  <1>3. CASE rst_n = 1 /\ Engine!SckRise
    <2>1. /\ engine_state \in ClockedStates /\ engine_state' = engine_state
          /\ sclk = 0 /\ sclk' = 1 /\ cycle_cnt' \in Nat
          /\ engine_state \in {"SEND_CMD_1", "SEND_CMD_2", "SEND_ADDR", "WAIT"} =>
               cycle_cnt' = cycle_cnt + 1
      BY <1>3, RiseStep
    <2>2. Ctl!qspi_cmd' = Ctl!qspi_cmd
      BY <1>3, <2>1, BusyIsRequested DEF ClockedStates
    <2>3. engine_state \in {"SEND_CMD_1", "SEND_CMD_2"} => cycle_cnt' = sclk'
      BY <2>1 DEF EngineInv
    <2>4. ASSUME engine_state \in {"SEND_ADDR", "WAIT"}
          PROVE  sclk' <= cycle_cnt' /\ cycle_cnt' - sclk' < 6
      <3>1. cycle_cnt \in Nat /\ cycle_cnt - sclk < 6 /\ sclk = 0
        BY <2>1, <2>4 DEF EngineInv
      <3>2. cycle_cnt' = cycle_cnt + 1 /\ sclk' = 1
        BY <2>1, <2>4
      <3> QED BY <3>1, <3>2
    <2>5. engine_state' \in qspi_state_t /\ engine_state' \notin PadStates /\ sclk' \in Bit
      BY <2>1 DEF qspi_state_t, PadStates, ClockedStates, Bit
    <2>6. /\ engine_state \in {"WAIT", "READ_DATA"} => Ctl!qspi_cmd' = QSPI_CMD_FAST_READ
          /\ engine_state = "WRITE_DATA" => Ctl!qspi_cmd' = QSPI_CMD_WRITE
      BY <2>2 DEF EngineInv
    <2> QED BY <2>1, <2>3, <2>4, <2>5, <2>6 DEF EngineInv
  <1>4. CASE rst_n = 1 /\ Engine!SckFall
    <2>1. /\ engine_state \in ClockedStates /\ engine_state' = Engine!next_state
          /\ sclk = 1 /\ sclk' = 0
          /\ cycle_cnt' = IF engine_state' = engine_state THEN cycle_cnt ELSE 0
      BY <1>4, FallStep
    <2>2. engine_state' \in ClockedStates \cup {"SCLK_OFF"}
      BY <2>1, EngineNext DEF EngineInv, ClockedStates, Bit
    <2>3. Ctl!qspi_cmd' = Ctl!qspi_cmd
      BY <1>4, <2>2, BusyIsRequested DEF ClockedStates
    <2>4. engine_state' # engine_state =>
            /\ engine_state' = "WAIT" => Ctl!qspi_cmd # 2
            /\ engine_state' = "READ_DATA" => Ctl!qspi_cmd = 235
            /\ engine_state' = "WRITE_DATA" => Ctl!qspi_cmd = 2
      BY <2>1, EngineNext, Numbers DEF EngineInv, ClockedStates
    <2>5. /\ engine_state' \in {"WAIT", "READ_DATA"} => Ctl!qspi_cmd = 235
          /\ engine_state' = "WRITE_DATA" => Ctl!qspi_cmd = 2
      BY <2>4, CommandType, Numbers DEF EngineInv
    <2>6. engine_state' \in {"SEND_CMD_1", "SEND_CMD_2"} => cycle_cnt' = 0
      BY <2>1, EngineNext
    <2>7. engine_state' \in {"SEND_ADDR", "WAIT"} => cycle_cnt' \in Nat /\ cycle_cnt' < 6
      BY <2>1, EngineNext DEF EngineInv
    <2> QED BY <2>1, <2>2, <2>3, <2>5, <2>6, <2>7, Numbers
        DEF EngineInv, qspi_state_t, PadStates, ClockedStates, Bit
  <1> QED BY <1>1, <1>2, <1>3, <1>4, EngineCases DEF Bit

LEMMA PadInvStep ==
  ASSUME ControllerInv, EngineInv, PadInv, rst_n \in Bit, Engine!Posedge,
         Ctl!Posedge(qspi_wdata_next)
  PROVE  PadInv'
  <1>1. CASE rst_n = 0
    BY <1>1, EngineReset DEF PadInv
  <1>2. ASSUME rst_n = 1, Engine!PadFlops, engine_state' = Engine!next_state,
               engine_state' = "SEND_CMD_1" => sio_out' = Ctl!qspi_cmd \div 16,
               engine_state' = "SEND_CMD_2" /\ sclk' = 0 => sio_out' = Ctl!qspi_cmd % 16
        PROVE  PadInv'
    <2>1. CASE engine_state' = "QSPI_IDLE"
      BY <1>2, <2>1, PadsFollow DEF PadInv
    <2>2. CASE engine_state' # "QSPI_IDLE"
      <3>1. Ctl!qspi_cmd' = Ctl!qspi_cmd /\ Ctl!qspi_device_sel' = Ctl!qspi_device_sel
        BY <1>2, <2>2, BusyIsRequested
      <3> QED BY <1>2, <3>1, PadsFollow, Numbers DEF PadInv, Listening
    <2> QED BY <2>1, <2>2
  <1>3. CASE rst_n = 1 /\ Engine!PadStep
    <2>1. Engine!PadFlops
      BY <1>3 DEF Engine!PadStep
    <2> QED BY <1>2, <1>3, <2>1, ParkedStep
  <1>4. CASE rst_n = 1 /\ Engine!SckRise
    <2>1. Engine!PadFlops
      BY <1>4 DEF Engine!SckRise
    <2>2. /\ engine_state' = engine_state /\ engine_state \in ClockedStates /\ sclk' = 1
          /\ engine_state = "SEND_CMD_1" => sio_out' = Ctl!qspi_cmd \div 16
      BY <1>4, RiseStep
    <2>3. CASE Engine!next_state = engine_state
      BY <1>2, <1>4, <2>1, <2>2, <2>3
    <2>4. CASE Engine!next_state # engine_state
      <3>1. engine_state \in {"READ_DATA", "WRITE_DATA"} /\ Engine!next_state = "SCLK_OFF"
        BY <1>4, <2>2, <2>4, RiseStep, EngineNext DEF ClockedStates
      <3>2. Ctl!qspi_cmd' = Ctl!qspi_cmd /\ Ctl!qspi_device_sel' = Ctl!qspi_device_sel
        BY <1>4, <2>2, BusyIsRequested DEF ClockedStates
      <3>3. engine_state = "READ_DATA" => Ctl!qspi_cmd = 235
        BY Numbers DEF EngineInv
      <3>4. engine_state = "WRITE_DATA" => Ctl!qspi_cmd = 2
        BY Numbers DEF EngineInv
      <3> QED BY <2>1, <2>2, <3>1, <3>2, <3>3, <3>4, PadsFollow, Numbers DEF PadInv, Listening
    <2> QED BY <2>3, <2>4
  <1>5. CASE rst_n = 1 /\ Engine!SckFall
    <2>1. Engine!PadFlops
      BY <1>5 DEF Engine!SckFall
    <2>2. engine_state' = Engine!next_state /\ engine_state' # "SEND_CMD_1"
      BY <1>5, FallStep, EngineNext DEF ClockedStates
    <2>3. engine_state' = "SEND_CMD_2" => sio_out' = Ctl!qspi_cmd % 16
      BY <1>5, FallStep
    <2> QED BY <1>2, <1>5, <2>1, <2>2, <2>3
  <1> QED BY <1>1, <1>3, <1>4, <1>5, EngineCases DEF Bit

\* The host and the synchroniser: the handshake of BUS_REQ and BUS_GNT over five clks.
LEMMA HandshakeStep ==
  ASSUME HostInv, SyncInv, ControllerInv, Ctl!Posedge(qspi_wdata_next), SyncFlops, Host
  PROVE  HostInv' /\ SyncInv'
  <1>1. /\ ui_bus_req \in {0, 1} /\ rst_n \in {0, 1} /\ host_drive \in {0, 1} /\ killing \in {0, 1}
        /\ bus_gnt \in {0, 1} /\ bus_req_sync[1] \in {0, 1} /\ bus_req_sync[2] \in {0, 1}
        /\ bus_req_sync = <<bus_req_sync[1], bus_req_sync[2]>>
    BY DEF HostInv, SyncInv, ControllerInv, Bit
  <1>2. /\ {ui_bus_req', rst_n', host_drive', killing'} \subseteq Bit
        /\ rst_n' = 0 \/ killing' = 1 => ui_bus_req' = 0
        /\ killing' = 1 => host_drive' = 0 /\ rst_n' = 1
    BY <1>1 DEF HostInv, Bit, Host, RequestBus, EnableDrive, Hiz, ReleaseBus, ToggleStart,
      KillZeroUiIn, KillReset, LeaveReset, host
  <1>3. CASE rst_n = 0
    <2>1. bus_gnt' = 0 /\ bus_req_sync' = <<0, 0>> /\ ui_bus_req' = 0
      BY <1>3, ControllerReset DEF HostInv, SyncFlops, Host, RequestBus, EnableDrive, Hiz,
        ReleaseBus, ToggleStart, KillZeroUiIn, KillReset, LeaveReset, host
    <2>2. rst_n' = 1 => host_drive' = 0
      BY <1>3 DEF Host, RequestBus, EnableDrive, Hiz,
        ReleaseBus, ToggleStart, KillZeroUiIn, KillReset, LeaveReset, host, HostInv
    <2>3. HostInv'
      BY <1>2, <2>1, <2>2 DEF HostInv, Bit
    <2>4. SyncInv'
      BY <2>1 DEF SyncInv, Bit
    <2> QED BY <2>3, <2>4
  <1>4. CASE rst_n = 1
    <2>1. bus_req_sync' = <<ui_bus_req, bus_req_sync[1]>>
      BY <1>4 DEF SyncFlops
    <2>2. bus_gnt' = IF bus_req = 1 /\ ctl_state \notin {"FETCH", "READ", "WRITE"} THEN 1 ELSE 0
      BY <1>4, ControlWrites, ControllerNext DEF Ctl!Control
    <2>3. /\ bus_req = 0 => bus_gnt' = 0
          /\ bus_req = 1 /\ bus_gnt = 1 => bus_gnt' = 1
      BY <2>2 DEF ControllerInv
    <2>4. bus_req = bus_req_sync[2]
      BY DEF bus_req
    <2>5. HostInv'
      <3>1. host_drive' = 1 /\ rst_n' = 1 => ui_bus_req' = 1 /\ ui_bus_req = 1 /\ bus_gnt = 1
        BY <1>1, <1>4 DEF HostInv, Host, RequestBus, EnableDrive, Hiz, ReleaseBus, ToggleStart,
          KillZeroUiIn, KillReset, LeaveReset, host
      <3>2. ui_bus_req = 1 /\ bus_gnt = 1 => bus_gnt' = 1
        BY <1>1, <2>3, <2>4 DEF SyncInv
      <3> QED BY <1>2, <3>1, <3>2 DEF HostInv
    <2>6. SyncInv'
      <3>1. bus_req_sync'[1] = ui_bus_req /\ bus_req_sync'[2] = bus_req_sync[1]
            /\ bus_gnt' \in {0, 1}
        BY <2>1, <2>2
      <3>2. ui_bus_req' = 1 => \/ ui_bus_req = 1
                               \/ (ui_bus_req = 0 /\ bus_gnt = 0 /\ killing = 0)
        BY <1>1, <1>4 DEF Host, RequestBus, EnableDrive, Hiz, ReleaseBus, ToggleStart,
          KillZeroUiIn, KillReset, LeaveReset, host
      <3>3. ui_bus_req' = 0 /\ killing' = 0 /\ rst_n' = 1 =>
              \/ (ui_bus_req = 0 /\ killing = 0) \/ (ui_bus_req = 1 /\ bus_gnt = 1)
        BY <1>1, <1>4 DEF Host, RequestBus, EnableDrive, Hiz, ReleaseBus, ToggleStart,
          KillZeroUiIn, KillReset, LeaveReset, host
      <3>4. /\ ui_bus_req' = 1 /\ bus_gnt' = 1 => bus_req_sync' = <<1, 1>>
            /\ ui_bus_req' = 1 /\ bus_gnt' = 0 => bus_req_sync' # <<0, 1>>
        <4>1. CASE ui_bus_req = 1
          BY <1>1, <1>4, <2>1, <2>3, <2>4, <3>1, <4>1 DEF SyncInv
        <4>2. CASE ui_bus_req' = 1 /\ ui_bus_req = 0 /\ bus_gnt = 0 /\ killing = 0
          <5>1. bus_req_sync = <<0, 0>>
            BY <1>4, <4>2 DEF SyncInv
          <5> QED BY <2>1, <2>3, <2>4, <4>2, <5>1
        <4> QED BY <3>2, <4>1, <4>2
      <3>5. ui_bus_req' = 0 /\ rst_n' = 1 /\ killing' = 0 =>
              IF bus_gnt' = 0 THEN bus_req_sync' = <<0, 0>> ELSE bus_req_sync' # <<1, 0>>
        <4>1. CASE ui_bus_req = 0 /\ killing = 0
          BY <1>1, <1>4, <2>1, <2>3, <2>4, <3>1, <4>1 DEF SyncInv
        <4>2. CASE ui_bus_req = 1 /\ bus_gnt = 1
          <5>1. bus_req_sync = <<1, 1>>
            BY <4>2 DEF SyncInv
          <5> QED BY <2>1, <2>3, <2>4, <4>2, <5>1
        <4> QED BY <3>3, <4>1, <4>2
      <3> QED BY <1>1, <2>1, <3>1, <3>4, <3>5 DEF SyncInv, Bit
    <2> QED BY <2>5, <2>6
  <1> QED BY <1>1, <1>3, <1>4

-------------------------------------------------------------------------------
(***************************************************************************)
(* A device at the edges of its pads.                                      *)
(***************************************************************************)

LEMMA CountFacts ==
  ASSUME NEW p, Shaped(p)
  PROVE  /\ Shaped(Count(p)) /\ Count(p).phase = p.phase /\ Count(p).count = p.count + 1
         /\ Count(p).opcode = p.opcode /\ Count(p).drive = p.drive
         /\ Count(p).half = p.half /\ Count(p).address = p.address
  BY DEF Shaped, Count

LEMMA EnterFacts ==
  ASSUME NEW p, NEW phase, Shaped(p)
  PROVE  /\ Shaped(Enter(p, phase)) /\ At(Enter(p, phase), phase, 0)
         /\ Enter(p, phase).opcode = p.opcode /\ Enter(p, phase).drive = p.drive
  <1> DEFINE r == [p EXCEPT !.phase = phase]
  <1>1. Enter(p, phase) = [r EXCEPT !.count = 0]
    BY DEF Enter
  <1>2. Shaped(r) /\ r.phase = phase /\ r.opcode = p.opcode /\ r.drive = p.drive
    BY DEF Shaped
  <1> HIDE DEF r
  <1> QED BY <1>1, <1>2 DEF Shaped, At

\* The command: two nibbles, the upper one first.
LEMMA CmdNibbleFacts ==
  ASSUME NEW p, NEW nibble, Shaped(p), p.count \in {0, 1}
  PROVE  LET q == CmdNibble(p, nibble)
             opcode == (16 * p.opcode + nibble) % 256
         IN  /\ Shaped(q) /\ q.drive = p.drive /\ q.opcode = opcode
             /\ p.count = 0 => q.phase = p.phase /\ q.count = 1
             /\ p.count = 1 /\ opcode \in qspi_cmd_t => At(q, "ADDR", 0)
  <1> DEFINE opcode == (16 * p.opcode + nibble) % 256
             r == [Count(p) EXCEPT !.opcode = (16 * @ + nibble) % 256]
  <1>1. /\ Shaped(Count(p)) /\ Count(p).phase = p.phase /\ Count(p).count = p.count + 1
        /\ Count(p).opcode = p.opcode /\ Count(p).drive = p.drive
    BY CountFacts
  <1>2. /\ Shaped(r) /\ r.phase = p.phase /\ r.count = p.count + 1
        /\ r.opcode = opcode /\ r.drive = p.drive
    BY <1>1 DEF Shaped
  <1> HIDE DEF r, opcode
  <1>3. CmdNibble(p, nibble) =
          IF r.count < 2 THEN r ELSE Enter(r, IF r.opcode \in qspi_cmd_t THEN "ADDR" ELSE "IGNORE")
    BY DEF CmdNibble, r
  <1>4. CASE p.count = 0
    BY <1>2, <1>3, <1>4 DEF opcode
  <1>5. CASE p.count = 1
    <2>1. CmdNibble(p, nibble) = Enter(r, IF opcode \in qspi_cmd_t THEN "ADDR" ELSE "IGNORE")
      BY <1>2, <1>3, <1>5
    <2> QED BY <1>2, <1>5, <2>1, EnterFacts DEF opcode
  <1> QED BY <1>4, <1>5

\* The address: six nibbles, and then the first phase of the command.
LEMMA AddrNibbleInFacts ==
  ASSUME NEW p, NEW nibble, Shaped(p), p.count \in 0 .. 5
  PROVE  LET q == AddrNibbleIn(p, nibble)
         IN  /\ Shaped(q) /\ q.drive = p.drive /\ q.opcode = p.opcode
             /\ p.count < 5 => q.phase = p.phase /\ q.count = p.count + 1
             /\ p.count = 5 => At(q, PhaseAfterAddress(p.opcode), 0)
  <1> DEFINE r == [Count(p) EXCEPT !.address = (16 * @ + nibble) % QSPI_ADDR_SPACE]
             e == Enter(r, PhaseAfterAddress(r.opcode))
  <1>1. /\ Shaped(Count(p)) /\ Count(p).phase = p.phase /\ Count(p).count = p.count + 1
        /\ Count(p).opcode = p.opcode /\ Count(p).drive = p.drive
    BY CountFacts
  <1>2. /\ Shaped(r) /\ r.phase = p.phase /\ r.count = p.count + 1
        /\ r.opcode = p.opcode /\ r.drive = p.drive
    BY <1>1 DEF Shaped
  <1>3. /\ Shaped(e) /\ At(e, PhaseAfterAddress(p.opcode), 0)
        /\ e.opcode = p.opcode /\ e.drive = p.drive
    <2> HIDE DEF r
    <2> QED BY <1>2, EnterFacts
  <1>4. AddrNibbleIn(p, nibble) =
          IF r.count < 6 THEN r
          ELSE [e EXCEPT !.address = WireAddr(@), !.start = WireAddr(r.address)]
    BY DEF AddrNibbleIn
  <1> HIDE DEF r, e
  <1>5. CASE p.count < 5
    BY <1>2, <1>4, <1>5
  <1>6. CASE p.count = 5
    <2>1. AddrNibbleIn(p, nibble) =
            [e EXCEPT !.address = WireAddr(@), !.start = WireAddr(r.address)]
      BY <1>2, <1>4, <1>6
    <2> DEFINE f == [e EXCEPT !.address = WireAddr(@)]
    <2>2. AddrNibbleIn(p, nibble) = [f EXCEPT !.start = WireAddr(r.address)]
      BY <2>1
    <2>3. Shaped(f) /\ f.phase = e.phase /\ f.count = e.count /\ f.opcode = e.opcode /\ f.drive = e.drive
      BY <1>3 DEF Shaped
    <2> HIDE DEF f
    <2> QED BY <1>3, <1>6, <2>2, <2>3 DEF Shaped, At
  <1> QED BY <1>5, <1>6

\* A written nibble leaves the phase, the command and the drive alone.
LEMMA WriteNibbleFacts ==
  ASSUME NEW p, NEW nibble, Shaped(p)
  PROVE  LET q == WriteNibble(p, nibble)
         IN  Shaped(q) /\ q.drive = p.drive /\ q.opcode = p.opcode /\ q.phase = p.phase
  <1>1. /\ Shaped(Count(p)) /\ Count(p).phase = p.phase
        /\ Count(p).opcode = p.opcode /\ Count(p).drive = p.drive
    BY CountFacts
  <1>2. CASE p.half = NONE
    BY <1>1, <1>2 DEF WriteNibble, Shaped
  <1>3. CASE p.half # NONE
    <2>1. WriteNibble(p, nibble) =
            [Count(p) EXCEPT !.half = NONE, !.address = @ + 1,
                             !.bytes = Append(@, 16 * p.half + nibble)]
      BY <1>3 DEF WriteNibble
    <2> QED BY <1>1, <2>1 DEF Shaped
  <1> QED BY <1>2, <1>3

\* A rising SCK, by the phase the device is in.
LEMMA OnSckRiseFacts ==
  ASSUME NEW p, NEW nibble, Shaped(p)
  PROVE  /\ p.phase = "CMD" => OnSckRise(p, nibble) = CmdNibble(p, nibble)
         /\ p.phase = "ADDR" => OnSckRise(p, nibble) = AddrNibbleIn(p, nibble)
         /\ p.phase = "DUMMY" => OnSckRise(p, nibble) = DummyClock(p)
         /\ p.phase = "DATA" =>
              LET q == OnSckRise(p, nibble)
              IN  Shaped(q) /\ q.drive = p.drive /\ q.opcode = p.opcode /\ q.phase = "DATA"
  <1>1. p.phase = "CMD" => OnSckRise(p, nibble) = CmdNibble(p, nibble)
    BY Zenon DEF OnSckRise, Sampling
  <1>2. p.phase = "ADDR" => OnSckRise(p, nibble) = AddrNibbleIn(p, nibble)
    BY Zenon DEF OnSckRise, Sampling
  <1>3. p.phase = "DUMMY" => OnSckRise(p, nibble) = DummyClock(p)
    BY Zenon DEF OnSckRise, Sampling
  <1>4. ASSUME p.phase = "DATA"
        PROVE  OnSckRise(p, nibble) = IF Sampling(p) THEN WriteNibble(p, nibble) ELSE Count(p)
    <2>1. p.phase # "CMD" /\ p.phase # "ADDR" /\ p.phase # "DUMMY"
      BY <1>4
    <2>2. CASE Sampling(p)
      BY <2>1, <2>2, Zenon DEF OnSckRise
    <2>3. CASE ~Sampling(p)
      BY <1>4, <2>1, <2>3, Zenon DEF OnSckRise
    <2> QED BY <2>2, <2>3
  <1>5. ASSUME p.phase = "DATA"
        PROVE  LET q == OnSckRise(p, nibble)
               IN  Shaped(q) /\ q.drive = p.drive /\ q.opcode = p.opcode /\ q.phase = "DATA"
    BY <1>4, <1>5, WriteNibbleFacts, CountFacts
  <1> QED BY <1>1, <1>2, <1>3, <1>5

\* A falling SCK: only a device in the data phase of a read drives.
LEMMA OnSckFallFacts ==
  ASSUME NEW p, NEW image, Shaped(p)
  PROVE  LET q == OnSckFall(p, image)
         IN  /\ Shaped(q) /\ q.phase = p.phase /\ q.count = p.count /\ q.opcode = p.opcode
             /\ p.phase # "DATA" \/ p.opcode = QSPI_CMD_WRITE => q.drive = NONE
  <1> DEFINE byte == IF p.address \in DOMAIN image THEN image[p.address] ELSE FILL
             silent == p.phase # "DATA" \/ Sampling(p)
  <1>1. silent => OnSckFall(p, image) = [p EXCEPT !.drive = NONE]
    BY Zenon DEF OnSckFall
  <1>2. ~silent /\ p.half = NONE =>
          OnSckFall(p, image) = [p EXCEPT !.drive = byte \div 16, !.half = byte % 16,
                                          !.bytes = Append(@, byte)]
    BY Zenon DEF OnSckFall
  <1>3. ~silent /\ p.half # NONE =>
          OnSckFall(p, image) = [p EXCEPT !.drive = p.half, !.half = NONE, !.address = @ + 1]
    BY Zenon DEF OnSckFall
  <1>4. p.phase # "DATA" \/ p.opcode = QSPI_CMD_WRITE => silent
    BY DEF Sampling
  <1> HIDE DEF silent, byte
  <1>5. CASE silent
    BY <1>1, <1>5 DEF Shaped
  <1>6. CASE ~silent /\ p.half = NONE
    BY <1>2, <1>4, <1>6 DEF Shaped
  <1>7. CASE ~silent /\ p.half # NONE
    BY <1>3, <1>4, <1>7 DEF Shaped
  <1> QED BY <1>5, <1>6, <1>7

\* Six dummy cycles.
LEMMA DummyClockFacts ==
  ASSUME NEW p, Shaped(p), p.count \in 0 .. 5, p.opcode = 235
  PROVE  LET q == DummyClock(p)
         IN  /\ Shaped(q) /\ q.drive = p.drive /\ q.opcode = 235
             /\ p.count < 5 => q.phase = p.phase /\ q.count = p.count + 1
             /\ p.count = 5 => q.phase = "DATA"
  <1>1. qspi_wait_cycles(p.opcode) = 6
    BY Numbers DEF qspi_wait_cycles
  <1>2. /\ p.count < 5 => DummyClock(p) = Count(p)
        /\ p.count = 5 => DummyClock(p) = Enter(p, "DATA")
    BY <1>1 DEF DummyClock
  <1> QED BY <1>2, CountFacts, EnterFacts DEF At

\* What a device does in a clk, by what its CE# and SCK do.
LEMMA DeviceMoves ==
  ASSUME NEW d, pad_ce_n[d] \in {0, 1}, pad_ce_n'[d] \in {0, 1}, CeFell(d) => pad_sck = 0
  PROVE  /\ CeFell(d) => Device(d) = BeginTransaction
         /\ CeRose(d) => Device(d) = Deselected
         /\ ~CeFell(d) /\ SckRose(d) => Device(d) = OnSckRise(psram[d], sampled)
         /\ SckFell(d) => Device(d) = OnSckFall(psram[d], mem[d])
         /\ ~CeFell(d) /\ ~CeRose(d) /\ ~SckRose(d) /\ ~SckFell(d) =>
              Device(d) = psram[d]
  <1>1. /\ ~(CeFell(d) /\ CeRose(d)) /\ ~(CeFell(d) /\ SckFell(d))
        /\ ~(CeRose(d) /\ SckRose(d)) /\ ~(CeRose(d) /\ SckFell(d))
        /\ ~(SckRose(d) /\ SckFell(d))
    BY DEF CeFell, CeRose, SckRose, SckFell
  <1>2. CeFell(d) => Device(d) = BeginTransaction
    BY <1>1, Zenon DEF Device
  <1>3. CeRose(d) => Device(d) = Deselected
    BY <1>1, Zenon DEF Device
  <1>4. ~CeFell(d) /\ SckRose(d) => Device(d) = OnSckRise(psram[d], sampled)
    BY <1>1, Zenon DEF Device
  <1>5. SckFell(d) => Device(d) = OnSckFall(psram[d], mem[d])
    BY <1>1, Zenon DEF Device
  <1>6. ~CeFell(d) /\ ~CeRose(d) /\ ~SckRose(d) /\ ~SckFell(d) => Device(d) = psram[d]
    BY Zenon DEF Device
  <1> QED BY <1>2, <1>3, <1>4, <1>5, <1>6

\* CE# of a device, by the state of the engine.
LEMMA CePads ==
  ASSUME ControllerInv, PadInv, NEW d \in qspi_device_sel_t
  PROVE  /\ pad_ce_n[d] \in {0, 1}
         /\ pad_ce_n[d] = 0 <=> /\ bus_gnt = 0 /\ rst_n = 1
                                /\ engine_state \notin {"QSPI_IDLE", "CS_OFF"}
                                /\ Ctl!qspi_device_sel = d
  <1>1. d \in {0, 1}
    BY Numbers DEF qspi_device_sel_t
  <1>2. pad_ce_n[d] = IF ~bus_park THEN 1 ELSE IF d = 0 THEN ram_a_cs_n ELSE ram_b_cs_n
    BY Numbers DEF pad_ce_n
  <1>3. bus_park <=> bus_gnt = 0 /\ rst_n = 1
    BY DEF bus_park
  <1>4. /\ engine_state \in {"QSPI_IDLE", "CS_OFF"} => ram_a_cs_n = 1 /\ ram_b_cs_n = 1
        /\ engine_state \notin {"QSPI_IDLE", "CS_OFF"} =>
             /\ ram_a_cs_n = IF Ctl!qspi_device_sel = 0 THEN 0 ELSE 1
             /\ ram_b_cs_n = IF Ctl!qspi_device_sel = 1 THEN 0 ELSE 1
    BY Numbers DEF PadInv
  <1> QED BY <1>1, <1>2, <1>3, <1>4

\* The same after a clk.
LEMMA NextCePads ==
  ASSUME ControllerInv', PadInv', NEW d \in qspi_device_sel_t
  PROVE  /\ pad_ce_n'[d] \in {0, 1}
         /\ pad_ce_n'[d] = 0 <=> /\ bus_gnt' = 0 /\ rst_n' = 1
                                 /\ engine_state' \notin {"QSPI_IDLE", "CS_OFF"}
                                 /\ Ctl!qspi_device_sel' = d
  <1>1. d \in {0, 1}
    BY Numbers DEF qspi_device_sel_t
  <1>2. pad_ce_n'[d] = IF ~bus_park' THEN 1 ELSE IF d = 0 THEN ram_a_cs_n' ELSE ram_b_cs_n'
    BY Numbers DEF pad_ce_n
  <1>3. bus_park' <=> bus_gnt' = 0 /\ rst_n' = 1
    BY DEF bus_park
  <1>4. /\ engine_state' \in {"QSPI_IDLE", "CS_OFF"} => ram_a_cs_n' = 1 /\ ram_b_cs_n' = 1
        /\ engine_state' \notin {"QSPI_IDLE", "CS_OFF"} =>
             /\ ram_a_cs_n' = IF Ctl!qspi_device_sel' = 0 THEN 0 ELSE 1
             /\ ram_b_cs_n' = IF Ctl!qspi_device_sel' = 1 THEN 0 ELSE 1
    BY Numbers DEF PadInv
  <1> QED BY <1>1, <1>2, <1>3, <1>4

\* A deselected device and the first clk of a frame.
LEMMA DeselectedFacts ==
  /\ Deselected.drive = NONE /\ Shaped(Deselected)
  /\ Shaped(BeginTransaction) /\ At(BeginTransaction, "CMD", 0)
  /\ BeginTransaction.opcode = 0 /\ BeginTransaction.drive = NONE
  BY DEF Deselected, BeginTransaction, Shaped, At

\* The command is recognised from its nibbles.
LEMMA CommandDecodes ==
  ASSUME NEW c \in {2, 235}
  PROVE  (16 * 0 + c \div 16) % 256 = c \div 16 /\ (16 * (c \div 16) + (c % 16)) % 256 = c
  OBVIOUS

\* A rising SCK, from the phase of the engine to the phase of the device.
LEMMA DeviceRises ==
  ASSUME ControllerInv, EngineInv, PadInv, EngineInv', PadInv', rst_n = 1, rst_n' = 1, bus_gnt' = 0,
         Engine!SckRise, Ctl!qspi_cmd' = Ctl!qspi_cmd,
         NEW d, DeviceInStep(psram[d]), psram'[d] = OnSckRise(psram[d], sampled)
  PROVE  DeviceInStep(psram[d])'
  <1> DEFINE p == psram[d]
             q == psram'[d]
  <1>1. /\ engine_state \in ClockedStates /\ engine_state' = engine_state
        /\ sclk = 0 /\ sclk' = 1
        /\ engine_state \in {"SEND_CMD_1", "SEND_CMD_2", "SEND_ADDR", "WAIT"} =>
             cycle_cnt' = cycle_cnt + 1
        /\ engine_state = "SEND_CMD_1" => sio_out' = Ctl!qspi_cmd \div 16
        /\ engine_state = "SEND_CMD_2" => sio_out' = sio_out
    BY RiseStep
  <1>2. Shaped(p)
    BY DEF DeviceInStep
  <1>3. engine_state \in {"SEND_CMD_1", "SEND_CMD_2"} => sampled = sio_out'
    <2>1. engine_state' \in {"SEND_CMD_1", "SEND_CMD_2"} => sio_oe_reg' = 1
      BY DEF PadInv, Listening
    <2> QED BY <1>1, <2>1 DEF sampled, uio_oe_sio, bus_park
  <1>4. p.drive = NONE \/ engine_state = "READ_DATA"
    BY <1>1 DEF DeviceInStep, ClockedStates
  <1>5. CASE engine_state = "SEND_CMD_1"
    <2>1. At(p, "CMD", 0) /\ p.opcode = 0 /\ cycle_cnt = 0
      BY <1>1, <1>5 DEF DeviceInStep, EngineInv
    <2>2. q = CmdNibble(p, Ctl!qspi_cmd \div 16)
      BY <1>1, <1>2, <1>3, <1>5, <2>1, OnSckRiseFacts DEF At
    <2>3. /\ Shaped(q) /\ q.drive = p.drive /\ q.phase = "CMD" /\ q.count = 1
          /\ q.opcode = (16 * 0 + Ctl!qspi_cmd \div 16) % 256
      BY <1>2, <2>1, <2>2, CmdNibbleFacts DEF At
    <2>4. q.opcode = Ctl!qspi_cmd \div 16
      BY <2>3, CommandDecodes, CommandType
    <2> QED BY <1>1, <1>4, <1>5, <2>1, <2>3, <2>4 DEF DeviceInStep, At
  <1>6. CASE engine_state = "SEND_CMD_2"
    <2>1. At(p, "CMD", 1) /\ p.opcode = Ctl!qspi_cmd \div 16 /\ sio_out = Ctl!qspi_cmd % 16
      BY <1>1, <1>6 DEF DeviceInStep, PadInv
    <2>2. q = CmdNibble(p, Ctl!qspi_cmd % 16)
      BY <1>1, <1>2, <1>3, <1>6, <2>1, OnSckRiseFacts DEF At
    <2>3. (16 * p.opcode + (Ctl!qspi_cmd % 16)) % 256 = Ctl!qspi_cmd /\ Ctl!qspi_cmd \in qspi_cmd_t
      BY <2>1, CommandDecodes, CommandType, Numbers DEF qspi_cmd_t
    <2>4. Shaped(q) /\ q.drive = p.drive /\ At(q, "ADDR", 0) /\ q.opcode = Ctl!qspi_cmd
      BY <1>2, <2>1, <2>2, <2>3, CmdNibbleFacts DEF At
    <2> QED BY <1>1, <1>4, <1>6, <2>4 DEF DeviceInStep, At
  <1>7. CASE engine_state = "SEND_ADDR"
    <2>1. cycle_cnt \in 0 .. 5 /\ At(p, "ADDR", cycle_cnt) /\ p.opcode = Ctl!qspi_cmd
      BY <1>1, <1>7 DEF DeviceInStep, EngineInv
    <2>2. q = AddrNibbleIn(p, sampled)
      BY <1>2, <2>1, OnSckRiseFacts DEF At
    <2>3. /\ Shaped(q) /\ q.drive = p.drive /\ q.opcode = Ctl!qspi_cmd
          /\ cycle_cnt < 5 => At(q, "ADDR", cycle_cnt + 1)
          /\ cycle_cnt = 5 => At(q, PhaseAfterAddress(Ctl!qspi_cmd), 0)
      BY <1>2, <2>1, <2>2, AddrNibbleInFacts DEF At
    <2>4. IF cycle_cnt' < 6 THEN At(q, "ADDR", cycle_cnt') ELSE At(q, PhaseAfterAddress(Ctl!qspi_cmd), 0)
      BY <1>1, <1>7, <2>1, <2>3
    <2> QED BY <1>1, <1>4, <1>7, <2>3, <2>4 DEF DeviceInStep, At, PhaseAfterAddress
  <1>8. CASE engine_state = "WAIT"
    <2>1. /\ cycle_cnt \in 0 .. 5 /\ At(p, "DUMMY", cycle_cnt)
          /\ p.opcode = 235 /\ Ctl!qspi_cmd = 235
      BY <1>1, <1>8, Numbers DEF DeviceInStep, EngineInv
    <2>2. q = DummyClock(p)
      BY <1>2, <2>1, OnSckRiseFacts DEF At
    <2>3. /\ Shaped(q) /\ q.drive = p.drive /\ q.opcode = 235
          /\ cycle_cnt < 5 => At(q, "DUMMY", cycle_cnt + 1)
          /\ cycle_cnt = 5 => q.phase = "DATA"
      BY <1>2, <2>1, <2>2, DummyClockFacts DEF At
    <2>4. IF cycle_cnt' < 6 THEN At(q, "DUMMY", cycle_cnt') ELSE q.phase = "DATA"
      BY <1>1, <1>8, <2>1, <2>3
    <2> QED BY <1>1, <1>4, <1>8, <2>1, <2>3, <2>4 DEF DeviceInStep
  <1>9. CASE engine_state \in {"READ_DATA", "WRITE_DATA"}
    <2>1. p.phase = "DATA" /\ p.opcode = Ctl!qspi_cmd
      BY <1>9 DEF DeviceInStep
    <2>2. Shaped(q) /\ q.drive = p.drive /\ q.opcode = Ctl!qspi_cmd /\ q.phase = "DATA"
      BY <1>2, <2>1, OnSckRiseFacts
    <2> QED BY <1>1, <1>4, <1>9, <2>2 DEF DeviceInStep
  <1> QED BY <1>1, <1>5, <1>6, <1>7, <1>8, <1>9 DEF ClockedStates

\* A falling SCK: the device is where the engine goes, and drives only what is read.
LEMMA DeviceFalls ==
  ASSUME ControllerInv, EngineInv, PadInv, rst_n = 1, Engine!SckFall,
         Ctl!qspi_cmd' = Ctl!qspi_cmd,
         NEW d, DeviceInStep(psram[d]), psram'[d] = OnSckFall(psram[d], mem[d])
  PROVE  DeviceInStep(psram[d])'
  <1> DEFINE p == psram[d]
             q == psram'[d]
  <1>1. /\ engine_state \in ClockedStates /\ engine_state' = Engine!next_state
        /\ sclk = 1 /\ sclk' = 0
        /\ cycle_cnt' = IF engine_state' = engine_state THEN cycle_cnt ELSE 0
    BY FallStep
  <1>2. /\ Shaped(q) /\ q.phase = p.phase /\ q.count = p.count /\ q.opcode = p.opcode
        /\ p.phase # "DATA" \/ p.opcode = QSPI_CMD_WRITE => q.drive = NONE
    BY OnSckFallFacts DEF DeviceInStep
  <1>3. CASE engine_state = "SEND_CMD_1"
    <2>1. engine_state' = "SEND_CMD_2" /\ cycle_cnt = 1
      BY <1>1, <1>3, EngineNext DEF EngineInv
    <2>2. At(p, "CMD", 1) /\ p.opcode = Ctl!qspi_cmd \div 16
      BY <1>1, <1>3, <2>1 DEF DeviceInStep
    <2> QED BY <1>1, <1>2, <2>1, <2>2 DEF DeviceInStep, At
  <1>4. CASE engine_state = "SEND_CMD_2"
    <2>1. engine_state' = "SEND_ADDR" /\ cycle_cnt' = 0
      BY <1>1, <1>4, EngineNext DEF EngineInv
    <2>2. At(p, "ADDR", 0) /\ p.opcode = Ctl!qspi_cmd
      BY <1>1, <1>4 DEF DeviceInStep
    <2> QED BY <1>1, <1>2, <2>1, <2>2 DEF DeviceInStep, At
  <1>5. CASE engine_state = "SEND_ADDR"
    <2>1. p.opcode = Ctl!qspi_cmd /\ cycle_cnt \in 1 .. 6
      BY <1>1, <1>5 DEF DeviceInStep, EngineInv
    <2>2. CASE cycle_cnt # 6
      <3>1. engine_state' = "SEND_ADDR" /\ cycle_cnt' = cycle_cnt /\ At(p, "ADDR", cycle_cnt)
        BY <1>1, <1>5, <2>1, <2>2, EngineNext DEF DeviceInStep
      <3> QED BY <1>1, <1>2, <2>1, <2>2, <3>1 DEF DeviceInStep, At
    <2>3. CASE cycle_cnt = 6
      <3>1. /\ engine_state' = IF Ctl!qspi_cmd = 2 THEN "WRITE_DATA" ELSE "WAIT"
            /\ cycle_cnt' = 0 /\ At(p, PhaseAfterAddress(Ctl!qspi_cmd), 0)
        BY <1>1, <1>5, <2>3, EngineNext DEF DeviceInStep
      <3>2. PhaseAfterAddress(Ctl!qspi_cmd) = IF Ctl!qspi_cmd = 2 THEN "DATA" ELSE "DUMMY"
        BY CommandType, Numbers DEF PhaseAfterAddress, qspi_wait_cycles
      <3>3. q.drive = NONE
        BY <1>2, <2>1, <3>1, <3>2, CommandType, Numbers DEF At
      <3> QED BY <1>1, <1>2, <2>1, <3>1, <3>2, <3>3 DEF DeviceInStep, At
    <2> QED BY <2>2, <2>3
  <1>6. CASE engine_state = "WAIT"
    <2>1. p.opcode = Ctl!qspi_cmd /\ cycle_cnt \in 1 .. 6
      BY <1>1, <1>6 DEF DeviceInStep, EngineInv
    <2>2. CASE cycle_cnt # 6
      <3>1. engine_state' = "WAIT" /\ cycle_cnt' = cycle_cnt /\ At(p, "DUMMY", cycle_cnt)
        BY <1>1, <1>6, <2>1, <2>2, EngineNext DEF DeviceInStep
      <3> QED BY <1>1, <1>2, <2>1, <2>2, <3>1 DEF DeviceInStep, At
    <2>3. CASE cycle_cnt = 6
      <3>1. engine_state' = "READ_DATA" /\ p.phase = "DATA"
        BY <1>1, <1>6, <2>3, EngineNext DEF DeviceInStep
      <3> QED BY <1>1, <1>2, <2>1, <3>1 DEF DeviceInStep
    <2> QED BY <2>2, <2>3
  <1>7. CASE engine_state \in {"READ_DATA", "WRITE_DATA"}
    <2>1. engine_state' \in {engine_state, "SCLK_OFF"}
      BY <1>1, <1>7, EngineNext
    <2>2. p.phase = "DATA" /\ p.opcode = Ctl!qspi_cmd
      BY <1>7 DEF DeviceInStep
    <2>3. /\ engine_state = "READ_DATA" => Ctl!qspi_cmd = QSPI_CMD_FAST_READ
          /\ engine_state = "WRITE_DATA" => Ctl!qspi_cmd = QSPI_CMD_WRITE
      BY DEF EngineInv
    <2>4. engine_state = "WRITE_DATA" => q.drive = NONE
      BY <1>2, <2>2, <2>3
    <2> QED BY <1>1, <1>2, <1>7, <2>1, <2>2, <2>3, <2>4 DEF DeviceInStep
  <1> QED BY <1>1, <1>3, <1>4, <1>5, <1>6, <1>7 DEF ClockedStates

\* CE# moves only in a state with SCK parked, and then the device is in step at once.
LEMMA DeviceStep ==
  ASSUME IInv, HostInv', ControllerInv', EngineInv', PadInv',
         Engine!Posedge, Ctl!Posedge(qspi_wdata_next),
         NEW d \in qspi_device_sel_t, psram'[d] = Device(d)
  PROVE  IF pad_ce_n'[d] = 1 THEN psram'[d] = Deselected ELSE DeviceInStep(psram[d])'
  <1>0. /\ HostInv /\ ControllerInv /\ EngineInv /\ PadInv /\ rst_n \in {0, 1}
        /\ IF pad_ce_n[d] = 1 THEN psram[d] = Deselected ELSE DeviceInStep(psram[d])
    BY DEF IInv, HostInv, DeviceInv, Bit
  <1>1. /\ pad_ce_n[d] \in {0, 1} /\ pad_ce_n'[d] \in {0, 1}
        /\ pad_ce_n[d] = 0 <=> /\ bus_gnt = 0 /\ rst_n = 1
                               /\ engine_state \notin {"QSPI_IDLE", "CS_OFF"}
                               /\ Ctl!qspi_device_sel = d
        /\ pad_ce_n'[d] = 0 <=> /\ bus_gnt' = 0 /\ rst_n' = 1
                                /\ engine_state' \notin {"QSPI_IDLE", "CS_OFF"}
                                /\ Ctl!qspi_device_sel' = d
    BY <1>0, CePads, NextCePads
  <1>2. CASE pad_ce_n'[d] = 1
    <2>1. ~CeFell(d) /\ ~SckRose(d) /\ ~SckFell(d)
      BY <1>2 DEF CeFell, SckRose, SckFell
    <2>2. Device(d) = IF pad_ce_n[d] = 0 THEN Deselected ELSE psram[d]
      BY <1>1, <1>2, <2>1, DeviceMoves DEF CeRose
    <2> QED BY <1>0, <1>1, <1>2, <2>2
  <1>3. CASE pad_ce_n'[d] = 0
    <2>1. bus_gnt' = 0 /\ rst_n' = 1 /\ engine_state' \notin {"QSPI_IDLE", "CS_OFF"}
          /\ Ctl!qspi_device_sel' = d
      BY <1>1, <1>3
    <2>2. rst_n = 1
      BY <1>0, <2>1, EngineReset
    <2>3. /\ Ctl!qspi_cmd' = Ctl!qspi_cmd /\ Ctl!qspi_device_sel = d /\ bus_gnt = 0
      BY <1>0, <2>1, <2>2, BusyIsRequested
    <2>4. pad_sck = sclk /\ pad_sck' = sclk'
      BY <2>1, <2>2, <2>3 DEF pad_sck, bus_park
    <2>5. CeFell(d) <=> engine_state \in {"QSPI_IDLE", "CS_OFF"}
      BY <1>1, <1>3, <2>2, <2>3 DEF CeFell
    <2>6. CeFell(d) => pad_sck = 0
      BY <1>0, <2>4, <2>5 DEF EngineInv, PadStates
    <2>7. ~CeRose(d)
      BY <1>3 DEF CeRose
    <2>8. CASE CeFell(d)
      <3>1. Device(d) = BeginTransaction
        BY <1>1, <2>6, <2>8, DeviceMoves
      <3>2. engine_state' = "CS_ON"
        BY <1>0, <2>1, <2>2, <2>5, <2>8, EngineCases, ParkedStep, RiseStep, FallStep
        DEF ClockedStates
      <3> QED BY <1>3, <3>1, <3>2, DeselectedFacts DEF DeviceInStep
    <2>9. CASE ~CeFell(d) /\ Engine!PadStep
      <3>1. engine_state' = "SEND_CMD_1" /\ engine_state = "CS_ON" /\ sclk = 0 /\ sclk' = 0
            /\ cycle_cnt' = 0
        BY <1>0, <2>1, <2>2, <2>5, <2>9, ParkedStep
      <3>2. Device(d) = psram[d]
        BY <1>1, <2>4, <2>6, <2>7, <2>9, <3>1, DeviceMoves DEF SckRose, SckFell
      <3>3. Shaped(psram[d]) /\ At(psram[d], "CMD", 0) /\ psram[d].opcode = 0
            /\ psram[d].drive = NONE
        BY <1>0, <1>1, <2>2, <2>3, <3>1 DEF DeviceInStep
      <3> QED BY <1>3, <3>1, <3>2, <3>3 DEF DeviceInStep
    <2>10. ASSUME ~CeFell(d)
           PROVE  DeviceInStep(psram[d])
      BY <1>0, <1>1, <1>3, <2>10 DEF CeFell
    <2>11. CASE ~CeFell(d) /\ Engine!SckRise
      <3>1. sclk = 0 /\ sclk' = 1
        BY <1>0, <2>2, <2>11, RiseStep
      <3>2. Device(d) = OnSckRise(psram[d], sampled)
        BY <1>1, <1>3, <2>4, <2>6, <2>11, <3>1, DeviceMoves DEF SckRose
      <3>3. DeviceInStep(psram[d])'
        BY <1>0, <2>1, <2>2, <2>3, <2>10, <2>11, <3>2, DeviceRises
      <3> QED BY <1>3, <3>3
    <2>12. CASE ~CeFell(d) /\ Engine!SckFall
      <3>1. sclk = 1 /\ sclk' = 0
        BY <1>0, <2>2, <2>12, FallStep
      <3>2. Device(d) = OnSckFall(psram[d], mem[d])
        BY <1>1, <1>3, <2>4, <2>6, <2>12, <3>1, DeviceMoves DEF SckFell
      <3>3. DeviceInStep(psram[d])'
        BY <1>0, <2>2, <2>3, <2>10, <2>12, <3>2, DeviceFalls
      <3> QED BY <1>3, <3>3
    <2> QED BY <2>2, <2>8, <2>9, <2>11, <2>12, EngineCases
  <1> QED BY <1>1, <1>2, <1>3

-------------------------------------------------------------------------------
(***************************************************************************)
(* The invariant, and what follows from it.                                *)
(***************************************************************************)
LEMMA InitInvariant == Init => IInv
  <1> SUFFICES ASSUME Init PROVE IInv
    OBVIOUS
  <1>1. HostInv
    BY DEF Init, HostInv, Bit
  <1>2. SyncInv
    BY DEF Init, Ctl!ResetValues, SyncInv, Bit
  <1>3. ControllerInv
    BY DEF Init, Ctl!ResetValues, Engine!InitFlops, ControllerInv, sys_control_state_t
  <1>4. EngineInv /\ PadInv
    BY DEF Init, Engine!InitFlops, EngineInv, PadInv, qspi_state_t, PadStates, ClockedStates, Bit
  <1>5. DeviceInv
    <2>1. \A d \in qspi_device_sel_t : pad_ce_n[d] = 1
      BY DEF Init, Engine!InitFlops, pad_ce_n
    <2>2. psram = [d \in qspi_device_sel_t |-> Deselected]
      BY DEF Init
    <2> QED BY <2>1, <2>2 DEF DeviceInv
  <1> QED BY <1>1, <1>2, <1>3, <1>4, <1>5 DEF IInv

LEMMA NextInvariant ==
  ASSUME IInv, Next
  PROVE  IInv'
  <1>1. /\ Engine!Posedge /\ Ctl!Posedge(qspi_wdata_next) /\ SyncFlops /\ Host
        /\ psram' = [d \in qspi_device_sel_t |-> Device(d)]
    BY DEF Next, Devices
  <1>2. HostInv /\ SyncInv /\ ControllerInv /\ EngineInv /\ PadInv /\ rst_n \in Bit
    BY DEF IInv, HostInv
  <1>3. HostInv' /\ SyncInv'
    BY <1>1, <1>2, HandshakeStep
  <1>4. ControllerInv' /\ EngineInv' /\ PadInv'
    BY <1>1, <1>2, ControllerInvStep, EngineInvStep, PadInvStep
  <1>5. DeviceInv'
    <2>1. psram' = [d \in qspi_device_sel_t |-> psram'[d]]
      BY <1>1
    <2>2. ASSUME NEW d \in qspi_device_sel_t
          PROVE  IF pad_ce_n'[d] = 1 THEN psram'[d] = Deselected ELSE DeviceInStep(psram[d])'
      <3>1. psram'[d] = Device(d)
        BY <1>1
      <3> QED BY <1>1, <1>3, <1>4, <3>1, DeviceStep
    <2> QED BY <2>1, <2>2 DEF DeviceInv
  <1> QED BY <1>3, <1>4, <1>5 DEF IInv

LEMMA IdleInvariant == IInv /\ UNCHANGED vars => IInv'
  <1> SUFFICES ASSUME IInv, UNCHANGED vars PROVE IInv'
    OBVIOUS
  <1> USE DEF vars, host, chip, sync, controller, engine
  <1>1. HostInv' /\ SyncInv' /\ ControllerInv'
    BY DEF IInv, HostInv, SyncInv, ControllerInv
  <1>2. Ctl!qspi_cmd' = Ctl!qspi_cmd /\ Ctl!qspi_device_sel' = Ctl!qspi_device_sel
    BY DEF Ctl!qspi_cmd, Ctl!qspi_device_sel, Ctl!pending
  <1>3. EngineInv' /\ PadInv'
    BY <1>2 DEF IInv, EngineInv, PadInv, Listening
  <1>4. psram' = psram /\ pad_ce_n' = pad_ce_n
    BY DEF pad_ce_n, bus_park
  <1>5. ASSUME NEW d \in qspi_device_sel_t, DeviceInStep(psram[d])
        PROVE  DeviceInStep(psram[d])'
    BY <1>2, <1>4, <1>5 DEF DeviceInStep
  <1>6. DeviceInv'
    BY <1>4, <1>5 DEF IInv, DeviceInv
  <1> QED BY <1>1, <1>3, <1>6 DEF IInv

LEMMA Invariant == Spec => []IInv
  BY InitInvariant, NextInvariant, IdleInvariant, PTL DEF Spec

\* A device that drives is selected, and the engine listens to it.
LEMMA DriversAreRead ==
  ASSUME IInv, NEW d \in DevicesDriving
  PROVE  pad_ce_n[d] = 0 /\ engine_state # "QSPI_IDLE" /\ Listening
  <1>1. d \in qspi_device_sel_t /\ psram[d].drive # NONE
    BY DEF DevicesDriving
  <1>2. pad_ce_n[d] # 1 /\ DeviceInStep(psram[d])
    BY <1>1, DeselectedFacts DEF IInv, DeviceInv
  <1>3. pad_ce_n[d] = 0
    BY <1>1, <1>2, CePads DEF IInv
  <1>4. \/ engine_state = "READ_DATA"
        \/ (engine_state = "SCLK_OFF" /\ Ctl!qspi_cmd = QSPI_CMD_FAST_READ)
    BY <1>1, <1>2 DEF DeviceInStep
  <1> QED BY <1>3, <1>4 DEF Listening

\* The shared bus has one driver at a time, under every schedule of START, BUS_REQ, rst_n
\* and the host's drive (uio_oe and the CE# of top.v, bus_park).
THEOREM BusHasOneDriver == Spec => []NoContention
  <1>1. IInv => NoContention
    <2> SUFFICES ASSUME IInv PROVE NoContention
      OBVIOUS
    <2>1. host_drive = 1 => ~bus_park
      BY DEF IInv, HostInv, bus_park, Bit
    <2>2. uio_oe_sio => DevicesDriving = {}
      <3>1. ASSUME NEW d \in DevicesDriving PROVE sio_oe_reg = 0
        BY DriversAreRead DEF IInv, PadInv
      <3> QED BY <3>1 DEF uio_oe_sio
    <2>3. \A d, e \in Selected : d = e
      BY CePads DEF IInv, Selected
    <2>4. DevicesDriving \subseteq Selected
      BY DriversAreRead DEF Selected, DevicesDriving
    <2> QED BY <2>1, <2>2, <2>3, <2>4 DEF NoContention
  <1> QED BY <1>1, Invariant, PTL

\* DONE at the pin is late enough: the frame of the last transaction is over, and the
\* chain with it, also when a stall has hidden the return to SYS_CTRL_IDLE.
THEOREM DoneIsQuiet == Spec => []DoneMeansQuiet
  <1>1. IInv => DoneMeansQuiet
    <2> SUFFICES ASSUME IInv, done = 1, rst_n = 1
                 PROVE  View!phase = "idle" /\ Selected = {}
      BY DEF DoneMeansQuiet
    <2>1. \/ ctl_state = "SYS_CTRL_IDLE"
          \/ (ctl_state = "STALL" /\ stalled_state = "SYS_CTRL_IDLE")
      BY DEF IInv, ControllerInv
    <2>2. View!owner = "SYS_CTRL_IDLE"
      BY <2>1 DEF View!owner
    <2>3. View!phase = "idle"
      BY <2>2 DEF View!phase
    <2>4. engine_state = "QSPI_IDLE"
      BY <2>1 DEF IInv, ControllerInv
    <2>5. Selected = {}
      BY <2>4, CePads DEF IInv, Selected
    <2> QED BY <2>3, <2>5
  <1> QED BY <1>1, Invariant, PTL
=============================================================================
