----------------------------- MODULE DmaCoreProofs -----------------------------
(***************************************************************************)
(* Invariance proofs for DmaCore, for every buffer depth, every staged     *)
(* memory and every engine timing.                                         *)
(***************************************************************************)
EXTENDS DmaCore, TLAPS

-------------------------------------------------------------------------------
(***************************************************************************)
(* The operators on descriptors and nibbles.                               *)
(***************************************************************************)

\* The address space holds every 24-bit word.
LEMMA AddrSpace == QSPI_ADDR_SPACE \in Nat /\ QSPI_ADDR_SPACE > 16777215
  BY SMT DEF QSPI_ADDR_SPACE

\* A nibble of an address is a nibble (AddrNibble, the slices of qspi_engine).
LEMMA AddrNibbleType ==
  ASSUME NEW a \in Nat, NEW k \in 0 .. 5
  PROVE  AddrNibble(a, k) \in Nibble
  <1>1. NIBBLE_WEIGHT[k + 1] \in Nat \ {0}
    BY SMT DEF NIBBLE_WEIGHT
  <1>2. \A w \in Nat \ {0} : a \div w \in Nat
    BY SMT
  <1> QED BY <1>1, <1>2, SMT DEF AddrNibble, Nibble

\* Six nibbles are a 24-bit word.
LEMMA Word24Type ==
  ASSUME NEW t \in tcd_t, NEW i \in 1 .. 17
  PROVE  Word24(t, i) \in qspi_addr_t
  <1> DEFINE w2 == Join(t[i], t[i+1])
             w3 == Join(w2, t[i+2])
             w4 == Join(w3, t[i+3])
             w5 == Join(w4, t[i+4])
             w6 == Join(w5, t[i+5])
  <1>1. \A n \in 1 .. 22 : t[n] \in 0 .. 15
    BY DEF tcd_t, TCD_LEN, Nibble
  <1>2. /\ t[i] \in 0 .. 15 /\ t[i+1] \in 0 .. 15 /\ t[i+2] \in 0 .. 15
        /\ t[i+3] \in 0 .. 15 /\ t[i+4] \in 0 .. 15 /\ t[i+5] \in 0 .. 15
    BY <1>1
  <1>3. w2 \in 0 .. 255
    BY <1>2 DEF Join
  <1>4. w3 \in Nat /\ w3 <= 4095
    <2> HIDE DEF w2
    <2> QED BY <1>2, <1>3, SMT DEF Join
  <1>5. w4 \in Nat /\ w4 <= 65535
    <2> HIDE DEF w3
    <2> QED BY <1>2, <1>4, SMT DEF Join
  <1>6. w5 \in Nat /\ w5 <= 1048575
    <2> HIDE DEF w4
    <2> QED BY <1>2, <1>5, SMT DEF Join
  <1>7. w6 \in Nat /\ w6 <= 16777215
    <2> HIDE DEF w5
    <2> QED BY <1>2, <1>6, SMT DEF Join
  <1>8. w6 \in qspi_addr_t
    <2> HIDE DEF w6
    <2> QED BY <1>7, AddrSpace, SMT DEF qspi_addr_t
  <1> QED BY <1>8, Zenon DEF Word24

\* The fields of a descriptor are within their widths (tcd_t of types.svh).
LEMMA FieldTypes ==
  ASSUME NEW t \in tcd_t
  PROVE  /\ src_ptr(t) \in qspi_addr_t
         /\ dest_ptr(t) \in qspi_addr_t
         /\ next_tcd(t) \in qspi_addr_t
         /\ transfer_len(t) \in 0 .. 255
         /\ next_tcd_device(t) \in qspi_device_sel_t
         /\ dest_device(t) \in qspi_device_sel_t
         /\ src_device(t) \in qspi_device_sel_t
  <1>1. \A n \in 1 .. 22 : t[n] \in 0 .. 15
    BY DEF tcd_t, TCD_LEN, Nibble
  <1>2. /\ src_ptr(t) \in qspi_addr_t
        /\ dest_ptr(t) \in qspi_addr_t
        /\ next_tcd(t) \in qspi_addr_t
    BY Word24Type, SMT DEF src_ptr, dest_ptr, next_tcd
  <1>3. transfer_len(t) \in 0 .. 255
    BY <1>1 DEF transfer_len, Join
  <1>4. next_tcd_device(t) \in qspi_device_sel_t
    BY <1>1 DEF next_tcd_device, qspi_device_sel_t, QSPI_PSRAM0, QSPI_PSRAM1
  <1>5. dest_device(t) \in qspi_device_sel_t
    BY <1>1 DEF dest_device, qspi_device_sel_t, QSPI_PSRAM0, QSPI_PSRAM1
  <1>6. src_device(t) \in qspi_device_sel_t
    BY <1>1 DEF src_device, qspi_device_sel_t, QSPI_PSRAM0, QSPI_PSRAM1
  <1> QED BY <1>2, <1>3, <1>4, <1>5, <1>6

\* The QUIT flag is one bit.
LEMMA QuitType ==
  ASSUME NEW t \in tcd_t
  PROVE  quit(t) \in {0, 1}
  <1>1. t[21] \in 0 .. 15
    BY DEF tcd_t, TCD_LEN, Nibble
  <1> QED BY <1>1 DEF quit

\* Shifting a nibble into a register keeps its shape (FETCH, READ, WRITE).
LEMMA ShiftInType ==
  ASSUME NEW len \in Nat, NEW reg \in [1 .. len -> Nibble], NEW d \in Nibble
  PROVE  ShiftIn(reg, len, d) \in [1 .. len -> Nibble]
  BY DEF ShiftIn

\* Writing a pointer field keeps the shape of the descriptor.
LEMMA WithWord24Type ==
  ASSUME NEW t \in tcd_t, NEW i \in Nat, NEW w \in Nat
  PROVE  WithWord24(t, i, w) \in tcd_t
  <1>1. \A n \in 1 .. TCD_LEN : n \in i .. i + 5 => AddrNibble(w, n - i) \in Nibble
    BY AddrNibbleType, SMT DEF TCD_LEN
  <1> QED BY <1>1, SMT DEF WithWord24, tcd_t

\* Writing the length keeps the shape of the descriptor.
LEMMA WithLengthType ==
  ASSUME NEW t \in tcd_t, NEW n \in 0 .. 255
  PROVE  WithLength(t, n) \in tcd_t
  <1>1. n \div 16 \in Nibble /\ n % 16 \in Nibble
    BY DEF Nibble
  <1> QED BY <1>1 DEF WithLength, tcd_t, TCD_LEN

\* The incrementer wraps at 24 bits (addr_increment).
LEMMA AdvanceType ==
  ASSUME NEW ptr \in qspi_addr_t
  PROVE  Advance(ptr) \in Nat
  <1>1. DMA_BUF_DEPTH \in 1 .. 8
    BY DepthAssumption DEF DMA_BUF_DEPTH_MAX
  <1>2. ptr \in Nat
    BY AddrSpace, SMT DEF qspi_addr_t
  <1> QED BY <1>1, <1>2, AddrSpace, SMT DEF Advance

-------------------------------------------------------------------------------
(***************************************************************************)
(* Type correctness.                                                       *)
(***************************************************************************)

\* What the controller asks for fits the ports of the engine, and the nibble it
\* offers is a nibble of its buffer, look-ahead included.
LEMMA PortTypes ==
  ASSUME CoreTypeOK
  PROVE  /\ qspi_byte_len \in 0 .. 15
         /\ qspi_wdata(qspi_wdata_next) \in Nibble
  <1>1. DMA_BUF_DEPTH \in 1 .. 8
    BY DepthAssumption DEF DMA_BUF_DEPTH_MAX
  <1>2. remaining \in 0 .. 255
    BY FieldTypes DEF remaining, CoreTypeOK, TypeOK
  <1>3. chunk \in 0 .. 8 /\ chunk <= DMA_BUF_DEPTH
    BY <1>1, <1>2 DEF chunk
  <1>4. qspi_byte_len \in 0 .. 15
    BY <1>3 DEF qspi_byte_len, QPI_TCD_BYTES, CoreTypeOK, TypeOK, sys_control_state_t
  <1>5. used_nibbles \in 2 .. BUF_LEN /\ BUF_LEN \in 2 .. 16
    BY <1>1, <1>4 DEF used_nibbles, BUF_LEN
  <1>6. qspi_wdata_next \in 0 .. 1
    BY DEF CoreTypeOK, Engine!TypeOK, Engine!Bit
  <1>7. BUF_LEN - used_nibbles + 1 + qspi_wdata_next \in 1 .. BUF_LEN
    BY <1>5, <1>6
  <1>8. data_buffer \in [1 .. BUF_LEN -> Nibble]
    BY DEF CoreTypeOK, TypeOK
  <1>9. qspi_wdata(qspi_wdata_next) \in Nibble
    BY <1>7, <1>8 DEF qspi_wdata
  <1> QED BY <1>4, <1>9

\* The next state is a state; a stall only resumes into a recorded state.
LEMMA NextStateType ==
  ASSUME TypeOK
  PROVE  next_state \in sys_control_state_t
  BY DEF TypeOK, next_state, resume_next, after_fetch_or_read, after_update,
         sys_control_state_t

\* The flops every posedge writes keep their types.
LEMMA ControlType ==
  ASSUME TypeOK, Control
  PROVE  /\ curr_state' \in sys_control_state_t
         /\ stalled_state' \in sys_control_state_t
         /\ {done', bus_gnt'} \subseteq Bit
  BY NextStateType DEF Control, TypeOK, Bit, sys_control_state_t

\* Every posedge keeps the types of the controller's flops.
LEMMA PosedgeType ==
  ASSUME CoreTypeOK, Posedge(qspi_wdata_next)
  PROVE  TypeOK'
  <1> USE DEF CoreTypeOK
  <1>0. /\ TypeOK
        /\ DMA_BUF_DEPTH \in 1 .. 8
        /\ BUF_LEN \in Nat
        /\ qspi_rdata \in Nibble
        /\ write_pending \in Bit
        /\ task_ctrl_desc \in tcd_t
        /\ data_buffer \in [1 .. BUF_LEN -> Nibble]
    BY DepthAssumption DEF TypeOK, Engine!TypeOK, Engine!Nibble, Nibble, BUF_LEN,
      DMA_BUF_DEPTH_MAX
  <1>1. CASE Reset
    <2>1. /\ curr_state' \in sys_control_state_t
          /\ stalled_state' \in sys_control_state_t
          /\ {write_pending', done', bus_gnt'} \subseteq Bit
      BY <1>1 DEF Reset, sys_control_state_t, Bit
    <2>2. task_ctrl_desc' \in tcd_t /\ data_buffer' \in [1 .. BUF_LEN -> Nibble]
      BY <1>1 DEF Reset, tcd_t, Nibble
    <2>3. active_fetch_addr' \in qspi_addr_t
      BY <1>1, AddrSpace, SMT DEF Reset, qspi_addr_t
    <2>4. active_fetch_device' \in qspi_device_sel_t
      BY <1>1 DEF Reset, qspi_device_sel_t
    <2> QED BY <2>1, <2>2, <2>3, <2>4 DEF TypeOK
  <1>2. CASE IdleOrStall
    BY <1>2, <1>0, ControlType DEF IdleOrStall, datapath, TypeOK
  <1>3. CASE NewFetch
    <2>1. next_tcd(task_ctrl_desc) \in qspi_addr_t
          /\ next_tcd_device(task_ctrl_desc) \in qspi_device_sel_t
      BY <1>0, FieldTypes
    <2> QED BY <1>3, <1>0, <2>1, ControlType DEF NewFetch, TypeOK
  <1>4. CASE Fetch
    <2>1. ShiftIn(task_ctrl_desc, TCD_LEN, qspi_rdata) \in tcd_t
      BY <1>0, ShiftInType DEF tcd_t, TCD_LEN
    <2> QED BY <1>4, <1>0, <2>1, ControlType DEF Fetch, TypeOK
  <1>5. CASE NewOp
    <2> DEFINE t == WithWord24(task_ctrl_desc, 15, 0)
    <2>1. t \in tcd_t
      BY <1>0, WithWord24Type
    <2>2. task_ctrl_desc[21] % 8 \in Nibble
      <3>1. task_ctrl_desc[21] \in 0 .. 15
        BY <1>0 DEF tcd_t, TCD_LEN, Nibble
      <3> QED BY <3>1 DEF Nibble
    <2>3. [t EXCEPT ![21] = task_ctrl_desc[21] % 8] \in tcd_t
      BY <2>1, <2>2 DEF tcd_t
    <2>4. task_ctrl_desc' \in tcd_t
      BY <1>5, <1>0, <2>3 DEF NewOp
    <2> QED BY <1>5, <1>0, <2>4, ControlType DEF NewOp, TypeOK
  <1>6. CASE Read
    <2>0. src_ptr(task_ctrl_desc) \in qspi_addr_t
      BY <1>0, FieldTypes
    <2>1. Advance(src_ptr(task_ctrl_desc)) \in Nat
      BY <2>0, AdvanceType
    <2>2. WithWord24(task_ctrl_desc, 1, Advance(src_ptr(task_ctrl_desc))) \in tcd_t
      BY <1>0, <2>1, WithWord24Type
    <2>3. ShiftIn(data_buffer, BUF_LEN, qspi_rdata) \in [1 .. BUF_LEN -> Nibble]
      BY <1>0, ShiftInType
    <2>4. task_ctrl_desc' \in tcd_t /\ write_pending' \in Bit
      BY <1>6, <1>0, <2>2 DEF Read, Bit
    <2>5. data_buffer' \in [1 .. BUF_LEN -> Nibble]
      BY <1>6, <1>0, <2>3 DEF Read
    <2> QED BY <1>6, <1>0, <2>4, <2>5, ControlType DEF Read, TypeOK
  <1>7. CASE Write(qspi_wdata_next)
    <2>0. dest_ptr(task_ctrl_desc) \in qspi_addr_t
      BY <1>0, FieldTypes
    <2>1. Advance(dest_ptr(task_ctrl_desc)) \in Nat
      BY <2>0, AdvanceType
    <2>2. WithWord24(task_ctrl_desc, 7, Advance(dest_ptr(task_ctrl_desc))) \in tcd_t
      BY <1>0, <2>1, WithWord24Type
    <2>3. ShiftIn(data_buffer, BUF_LEN, 0) \in [1 .. BUF_LEN -> Nibble]
      <3>1. 0 \in Nibble
        BY DEF Nibble
      <3> QED BY <1>0, <3>1, ShiftInType
    <2>4. task_ctrl_desc' \in tcd_t /\ write_pending' \in Bit
      BY <1>7, <1>0, <2>2 DEF Write, Bit
    <2>5. data_buffer' \in [1 .. BUF_LEN -> Nibble]
      BY <1>7, <1>0, <2>3 DEF Write
    <2> QED BY <1>7, <1>0, <2>4, <2>5, ControlType DEF Write, TypeOK
  <1>8. CASE Update
    <2>1. remaining \in 0 .. 255
      BY <1>0, FieldTypes DEF remaining
    <2>2. length_after \in 0 .. 255
      BY <1>0, <2>1 DEF length_after
    <2>3. WithLength(task_ctrl_desc, length_after) \in tcd_t
      BY <1>0, <2>2, WithLengthType
    <2> QED BY <1>8, <1>0, <2>3, ControlType DEF Update, TypeOK
  <1> QED BY <1>1, <1>2, <1>3, <1>4, <1>5, <1>6, <1>7, <1>8 DEF Posedge

\* Every step of the engine keeps the types of its outputs and of the device.
LEMMA EngineStepType ==
  ASSUME CoreTypeOK, EngineStep
  PROVE  Engine!TypeOK' /\ half' \in 0 .. NO_NIBBLE
  <1>1. /\ qspi_byte_len \in 0 .. 15
        /\ qspi_wdata(qspi_wdata_next) \in 0 .. 15
    BY PortTypes DEF Nibble
  <1>2. /\ qspi_busy \in {0, 1} /\ qspi_rdata_valid \in {0, 1} /\ qspi_wdata_next \in {0, 1}
        /\ qspi_rdata \in 0 .. 15 /\ beats_left \in 0 .. 30 /\ half \in 0 .. 16
    BY DEF CoreTypeOK, Engine!TypeOK, Engine!Bit, Engine!Nibble, NO_NIBBLE
  <1>3. ASSUME NEW n \in 0 .. 15, Transfer(n)
        PROVE  half' \in 0 .. 16
    BY <1>3 DEF Transfer, NO_NIBBLE
  <1>4. /\ qspi_busy' \in {0, 1} /\ qspi_rdata_valid' \in {0, 1}
        /\ qspi_wdata_next' \in {0, 1}
        /\ qspi_rdata' \in 0 .. 15 /\ beats_left' \in 0 .. 30 /\ half' \in 0 .. 16
    <2>1. CASE AcceptTxn
      BY <2>1, <1>1, <1>2 DEF AcceptTxn, Engine!Accept, NO_NIBBLE
    <2>2. CASE ReadBeat
      <3>1. ReadNibble \in 0 .. 15
        BY <2>2 DEF ReadBeat, Engine!ReadBeat, Engine!Nibble
      <3>2. half' \in 0 .. 16
        BY <2>2, <3>1, <1>3 DEF ReadBeat
      <3> QED BY <2>2, <1>2, <3>2 DEF ReadBeat, Engine!ReadBeat, Engine!Nibble
    <2>3. CASE WriteBeat
      <3>1. half' \in 0 .. 16
        BY <2>3, <1>1, <1>3 DEF WriteBeat
      <3> QED BY <2>3, <1>2, <3>1 DEF WriteBeat, Engine!WriteBeat
    <2>4. CASE FinishTxn
      BY <2>4, <1>2 DEF FinishTxn, Engine!Finish, device
    <2>5. CASE Quiet
      BY <2>5, <1>2 DEF Quiet, Engine!Reset, Engine!Idle, Engine!Wait, Engine!AskNibble,
        Engine!vars, device
    <2> QED BY <2>1, <2>2, <2>3, <2>4, <2>5 DEF EngineStep
  <1> QED BY <1>4 DEF Engine!TypeOK, Engine!Bit, Engine!Nibble, NO_NIBBLE

\* The types hold after power-up.
LEMMA TypeInit == Init => CoreTypeOK
  <1> SUFFICES ASSUME Init PROVE CoreTypeOK
    OBVIOUS
  <1>1. DMA_BUF_DEPTH \in 1 .. 8
    BY DepthAssumption DEF DMA_BUF_DEPTH_MAX
  <1>2. /\ curr_state \in sys_control_state_t /\ stalled_state \in sys_control_state_t
        /\ {write_pending, done, bus_gnt} \subseteq Bit
    BY DEF Init, ResetValues, sys_control_state_t, Bit
  <1>3. task_ctrl_desc \in tcd_t /\ data_buffer \in [1 .. BUF_LEN -> Nibble]
    BY DEF Init, ResetValues, tcd_t, Nibble
  <1>4. active_fetch_addr \in qspi_addr_t
    BY AddrSpace, SMT DEF Init, ResetValues, qspi_addr_t
  <1>5. active_fetch_device \in qspi_device_sel_t
    BY DEF Init, ResetValues, qspi_device_sel_t
  <1>6. Engine!TypeOK
    BY DEF Init, Engine!Init, Engine!TypeOK, Engine!Bit, Engine!Nibble
  <1>7. {rst_n, start, bus_req} \subseteq Bit /\ half \in 0 .. NO_NIBBLE
    BY DEF Init, Bit, NO_NIBBLE
  <1> QED BY <1>2, <1>3, <1>4, <1>5, <1>6, <1>7 DEF CoreTypeOK, TypeOK

\* A clk of the controller, the engine and the host keeps the types.
LEMMA TypeNext == CoreTypeOK /\ [Next]_vars => CoreTypeOK'
  <1> SUFFICES ASSUME CoreTypeOK, [Next]_vars PROVE CoreTypeOK'
    OBVIOUS
  <1>1. CASE Next
    <2>1. TypeOK'
      BY <1>1, PosedgeType DEF Next
    <2>2. Engine!TypeOK' /\ half' \in 0 .. NO_NIBBLE
      BY <1>1, EngineStepType DEF Next
    <2>3. start \in {0, 1}
      BY DEF CoreTypeOK, Bit
    <2>4. {rst_n', start', bus_req'} \subseteq Bit
      BY <1>1, <2>3 DEF Next, HostStep, Bit
    <2> QED BY <2>1, <2>2, <2>4 DEF CoreTypeOK
  <1>2. CASE UNCHANGED vars
    BY <1>2 DEF vars, core, flops, datapath, engine, device, host, CoreTypeOK, TypeOK,
      Engine!TypeOK, Engine!Bit, Engine!Nibble
  <1> QED BY <1>1, <1>2

\* The registers of the controller and the ports of the engine keep their widths,
\* for every buffer depth and every staged memory.
THEOREM TypeCorrect == Spec => []CoreTypeOK
  BY TypeInit, TypeNext, PTL DEF Spec

-------------------------------------------------------------------------------
(***************************************************************************)
(* The inductive invariant: who may be in a transaction, what a stall      *)
(* remembers, what BUS_GNT and DONE stand for.                             *)
(***************************************************************************)
StallOrigins == {"SYS_CTRL_IDLE", "NEW_FETCH", "NEW_OP", "UPDATE"}
TxnStates == {"FETCH", "READ", "WRITE"}

\* A chunk is on its way: its descriptor is neither a QUIT nor empty.
Active == curr_state \in {"READ", "WRITE"} \/ write_pending = 1

ControlInv ==
  /\ stalled_state \in StallOrigins
  /\ bus_gnt = 1 <=> curr_state = "STALL"
  /\ done = 1 <=> View!owner = "SYS_CTRL_IDLE"
  /\ qspi_busy = 1 => curr_state \in TxnStates
  /\ write_pending = 1 => View!owner \in {"NEW_OP", "WRITE"}
  /\ Active => quit(task_ctrl_desc) = 0 /\ remaining # 0

IInv == CoreTypeOK /\ ControlInv /\ RequestStable

\* A state of the controller that is not reset moves to next_state.
LEMMA ControlStep ==
  ASSUME Posedge(qspi_wdata_next), rst_n = 1
  PROVE  Control
  BY DEF Posedge, Reset, IdleOrStall, NewFetch, Fetch, NewOp, Read, Write, Update

\* A busy engine stays with the controller's state; a request opens one.
LEMMA NextStates ==
  ASSUME CoreTypeOK, ControlInv
  PROVE  /\ qspi_busy = 1 => next_state = curr_state /\ curr_state \in TxnStates
         /\ qspi_txn_valid = 1 => /\ qspi_busy = 0 /\ bus_req = 0
                                  /\ next_state \in TxnStates
                                  /\ curr_state = "NEW_FETCH" <=> next_state = "FETCH"
                                  /\ curr_state \in {"NEW_FETCH", "NEW_OP"}
         /\ next_state = "STALL" => curr_state \in StallOrigins \cup {"STALL"}
  <1>1. qspi_busy = 1 => next_state = curr_state /\ curr_state \in TxnStates
    BY DEF ControlInv, TxnStates, next_state, yields, resume_next
  <1>2. /\ curr_state \in sys_control_state_t
        /\ stalled_state \in StallOrigins
        /\ qspi_busy \in {0, 1} /\ bus_req \in {0, 1}
    BY DEF ControlInv, CoreTypeOK, TypeOK, Engine!TypeOK, Engine!Bit, Bit
  <1>3. qspi_txn_valid = 1 => /\ bus_req = 0
                              /\ next_state \in TxnStates
                              /\ curr_state = "NEW_FETCH" <=> next_state = "FETCH"
                              /\ curr_state \in {"NEW_FETCH", "NEW_OP"}
    BY <1>2 DEF qspi_txn_valid, next_state, yields, resume_next, after_fetch_or_read,
      TxnStates
  <1>4. qspi_txn_valid = 1 => qspi_busy = 0
    BY <1>1, <1>2, <1>3 DEF TxnStates
  <1>5. next_state = "STALL" => curr_state \in StallOrigins \cup {"STALL"}
    BY <1>2 DEF next_state, yields, resume_next, StallOrigins, sys_control_state_t
  <1> QED BY <1>1, <1>3, <1>4, <1>5

\* When the engine is busy after a step, it was busy with the same request, or it
\* has just accepted the one that was being made.
LEMMA BusyStep ==
  ASSUME CoreTypeOK, EngineStep, qspi_busy' = 1
  PROVE  /\ rst_n = 1
         /\ \/ qspi_busy = 1 /\ req' = req
            \/ qspi_busy = 0 /\ qspi_txn_valid = 1 /\ req' = Request
  <1>1. CASE AcceptTxn
    BY <1>1 DEF AcceptTxn, Engine!Accept
  <1>2. CASE ReadBeat
    BY <1>2 DEF ReadBeat, Engine!ReadBeat
  <1>3. CASE WriteBeat
    BY <1>3 DEF WriteBeat, Engine!WriteBeat
  <1>4. CASE FinishTxn
    BY <1>4 DEF FinishTxn, Engine!Finish
  <1>5. CASE Quiet
    BY <1>5 DEF Quiet, Engine!Reset, Engine!Idle, Engine!Wait, Engine!AskNibble,
      Engine!vars, device
  <1> QED BY <1>1, <1>2, <1>3, <1>4, <1>5 DEF EngineStep

\* Advancing a pointer leaves the length and the QUIT bit of a descriptor alone.
LEMMA PointersOnly ==
  ASSUME NEW t, NEW w, NEW i \in {1, 7}
  PROVE  /\ quit(WithWord24(t, i, w)) = quit(t)
         /\ transfer_len(WithWord24(t, i, w)) = transfer_len(t)
  <1>1. \A k \in {13, 14, 21} : WithWord24(t, i, w)[k] = t[k]
    BY DEF WithWord24, TCD_LEN
  <1> QED BY <1>1 DEF quit, transfer_len

\* The controller's registers keep the control invariant at every posedge.
LEMMA ControlNext ==
  ASSUME CoreTypeOK, ControlInv, Next
  PROVE  ControlInv'
  <1> USE DEF View!owner
  <1>1. CASE rst_n = 0
    <2>1. Reset
      BY <1>1 DEF Next, Posedge, IdleOrStall, NewFetch, Fetch, NewOp, Read, Write, Update,
        Control
    <2>2. qspi_busy' # 1
      BY <1>1, BusyStep DEF Next
    <2> QED BY <2>1, <2>2 DEF Reset, ControlInv, StallOrigins, Active
  <1>2. CASE rst_n = 1
    <2>1. Control
      BY <1>2, ControlStep DEF Next
    <2>2. stalled_state' \in StallOrigins
      BY <2>1, NextStates DEF Control, ControlInv, StallOrigins
    <2>3. bus_gnt' = 1 <=> curr_state' = "STALL"
      BY <2>1 DEF Control
    <2>4. done' = 1 <=> View!owner' = "SYS_CTRL_IDLE"
      BY <2>1 DEF Control, stall_origin
    <2>5. qspi_busy' = 1 => curr_state' \in TxnStates
      BY <2>1, NextStates, BusyStep DEF Next, Control
    <2>6. /\ write_pending' = 1 => View!owner' \in {"NEW_OP", "WRITE"}
          /\ Active' => quit(task_ctrl_desc)' = 0 /\ remaining' # 0
      <3>0. /\ quit(task_ctrl_desc) \in {0, 1}
            /\ write_pending \in {0, 1}
        BY QuitType DEF CoreTypeOK, TypeOK, Bit
      <3> USE DEF Control, next_state, yields, ControlInv, datapath, Active, resume_next
      <3>1. CASE IdleOrStall
        BY <3>1, <2>1, <3>0 DEF IdleOrStall, StallOrigins, remaining
      <3>2. CASE NewFetch
        BY <3>2, <2>1, <3>0 DEF NewFetch
      <3>3. CASE Fetch
        BY <3>3, <2>1, <3>0 DEF Fetch
      <3>4. CASE NewOp
        BY <3>4, <2>1, <3>0 DEF NewOp, after_fetch_or_read, remaining
      <3>5. CASE Read
        BY <3>5, <2>1, <3>0, PointersOnly DEF Read, remaining
      <3>6. CASE Write(qspi_wdata_next)
        BY <3>6, <2>1, <3>0, PointersOnly DEF Write, remaining
      <3>7. CASE Update
        BY <3>7, <2>1, <3>0 DEF Update, after_update
      <3> QED BY <1>2, <3>1, <3>2, <3>3, <3>4, <3>5, <3>6, <3>7 DEF Next, Posedge, Reset
    <2> QED BY <2>2, <2>3, <2>4, <2>5, <2>6 DEF ControlInv
  <1> QED BY <1>1, <1>2 DEF CoreTypeOK, Bit

\* The control invariant holds after power-up.
LEMMA ControlInit == Init => ControlInv
  BY DEF Init, ResetValues, Engine!Init, ControlInv, StallOrigins, Active, View!owner

\* What the engine is asked for does not move under it: the request that opens a
\* transaction is repeated by FETCH, READ and WRITE until busy falls (D21).
LEMMA RequestNext ==
  ASSUME IInv, Next
  PROVE  RequestStable'
  <1> SUFFICES ASSUME qspi_busy' = 1 PROVE Request' = req'
    BY DEF RequestStable
  <1>1. /\ rst_n = 1
        /\ \/ qspi_busy = 1 /\ req' = req
           \/ qspi_busy = 0 /\ qspi_txn_valid = 1 /\ req' = Request
    BY BusyStep DEF IInv, Next
  <1>2. Control /\ Posedge(qspi_wdata_next)
    BY <1>1, ControlStep DEF Next
  <1>3. CASE qspi_busy = 1
    <2>1. /\ next_state = curr_state /\ curr_state \in TxnStates
          /\ curr_state' = curr_state /\ Request = req
      BY <1>2, <1>3, NextStates DEF IInv, RequestStable, Control
    <2>2. /\ active_fetch_addr' = active_fetch_addr
          /\ active_fetch_device' = active_fetch_device
          /\ write_pending' = write_pending
      BY <1>1, <1>2, <2>1 DEF Posedge, Reset, IdleOrStall, NewFetch, Fetch, NewOp, Read,
        Write, Update, TxnStates
    <2>3. curr_state # "FETCH" => task_ctrl_desc' = task_ctrl_desc
      BY <1>1, <1>2, <2>1 DEF Posedge, Reset, IdleOrStall, NewFetch, Fetch, NewOp, Read,
        Write, Update, TxnStates
    <2>4. Request' = Request
      <3>1. qspi_cmd' = qspi_cmd
        BY <2>2 DEF qspi_cmd
      <3>2. CASE curr_state = "FETCH"
        BY <3>1, <3>2, <2>1, <2>2 DEF Request, qspi_addr, qspi_device_sel, qspi_byte_len,
          fetch_addr
      <3>3. CASE curr_state \in {"READ", "WRITE"}
        BY <3>1, <3>3, <2>1, <2>2, <2>3 DEF Request, qspi_addr, qspi_device_sel,
          qspi_byte_len, chunk, remaining
      <3> QED BY <2>1, <3>2, <3>3 DEF TxnStates
    <2> QED BY <1>1, <1>3, <2>1, <2>4
  <1>4. CASE qspi_busy = 0
    <2>1. /\ qspi_txn_valid = 1 /\ req' = Request
          /\ curr_state \in {"NEW_FETCH", "NEW_OP"} /\ next_state \in TxnStates
          /\ curr_state = "NEW_FETCH" <=> next_state = "FETCH"
          /\ curr_state' = next_state
          /\ bus_req = 0
      BY <1>1, <1>2, <1>4, NextStates DEF IInv, Control
    <2>2. CASE curr_state = "NEW_FETCH"
      <3>1. /\ active_fetch_addr' = next_tcd(task_ctrl_desc)
            /\ active_fetch_device' = next_tcd_device(task_ctrl_desc)
            /\ write_pending' = write_pending
        BY <1>1, <1>2, <2>2 DEF Posedge, Reset, IdleOrStall, NewFetch, Fetch, NewOp, Read,
          Write, Update
      <3> QED BY <2>1, <2>2, <3>1 DEF Request, qspi_cmd, qspi_addr, qspi_device_sel,
            qspi_byte_len, fetch_addr
    <2>3. CASE curr_state = "NEW_OP"
      <3>1. /\ next_state = after_fetch_or_read /\ quit(task_ctrl_desc) # 1
            /\ next_state = IF write_pending = 1 THEN "WRITE" ELSE "READ"
        BY <2>1, <2>3 DEF next_state, resume_next, after_fetch_or_read, TxnStates
      <3>2. task_ctrl_desc' = task_ctrl_desc /\ write_pending' = write_pending
        BY <1>1, <1>2, <2>3, <3>1 DEF Posedge, Reset, IdleOrStall, NewFetch, Fetch, NewOp,
          Read, Write, Update
      <3> QED BY <2>1, <2>3, <3>1, <3>2 DEF Request, qspi_cmd, qspi_addr, qspi_device_sel,
            qspi_byte_len, pending, chunk, remaining
    <2> QED BY <2>1, <2>2, <2>3
  <1> QED BY <1>1, <1>3, <1>4

\* IInv is inductive.
LEMMA Inductive == IInv /\ [Next]_vars => IInv'
  <1> SUFFICES ASSUME IInv, [Next]_vars PROVE IInv'
    OBVIOUS
  <1>1. CoreTypeOK'
    BY TypeNext DEF IInv
  <1>2. CASE Next
    BY <1>1, <1>2, ControlNext, RequestNext DEF IInv
  <1>3. CASE UNCHANGED vars
    <2>1. ControlInv'
      BY <1>3 DEF IInv, vars, core, flops, datapath, engine, ControlInv, Active, remaining,
        View!owner
    <2>2. RequestStable'
      BY <1>3 DEF IInv, vars, core, flops, datapath, engine, device, RequestStable, Request,
        qspi_cmd, qspi_addr, qspi_device_sel, qspi_byte_len, chunk, remaining, fetch_addr,
        pending
    <2> QED BY <1>1, <2>1, <2>2 DEF IInv
  <1> QED BY <1>2, <1>3

\* The inductive invariant holds of every behaviour.
LEMMA Invariant == Spec => []IInv
  <1>1. Init => IInv
    BY TypeInit, ControlInit DEF IInv, RequestStable, Init, Engine!Init
  <1> QED BY <1>1, Inductive, PTL DEF Spec

-------------------------------------------------------------------------------
(***************************************************************************)
(* The safety properties.                                                  *)
(***************************************************************************)

\* The engine's request is held while it is busy, for every depth of the buffer
\* and every engine timing: it need not be latched (D21).
THEOREM RequestIsStable == Spec => []RequestStable
  <1>1. IInv => RequestStable
    BY DEF IInv
  <1> QED BY <1>1, Invariant, PTL

\* BUS_GNT never meets a transaction, in flight or being started (D22).
THEOREM GrantNeverTears == Spec => []GrantIsQuiet
  <1>1. IInv => GrantIsQuiet
    <2> SUFFICES ASSUME IInv, bus_gnt = 1
                 PROVE  qspi_busy = 0 /\ qspi_txn_valid = 0
      BY DEF GrantIsQuiet
    <2>1. curr_state = "STALL" /\ qspi_busy \in {0, 1}
      BY DEF IInv, ControlInv, CoreTypeOK, Engine!TypeOK, Engine!Bit
    <2> QED BY <2>1 DEF IInv, ControlInv, TxnStates, qspi_txn_valid
  <1> QED BY <1>1, Invariant, PTL

\* A request meets an idle engine, yields to BUS_REQ and is never empty, so the
\* engine, which has no zero-length transaction, is never asked for one.
THEOREM RequestsAreLegal == Spec => []RequestLegal
  <1>1. IInv => RequestLegal
    <2> SUFFICES ASSUME IInv, qspi_txn_valid = 1
                 PROVE  qspi_busy = 0 /\ bus_req = 0 /\ qspi_byte_len > 0
      BY DEF RequestLegal
    <2>1. /\ qspi_busy = 0 /\ bus_req = 0
          /\ next_state \in TxnStates /\ curr_state \in {"NEW_FETCH", "NEW_OP"}
          /\ curr_state = "NEW_FETCH" <=> next_state = "FETCH"
      BY NextStates DEF IInv
    <2>2. CASE curr_state = "NEW_FETCH"
      BY <2>1, <2>2 DEF qspi_byte_len, QPI_TCD_BYTES
    <2>3. CASE curr_state = "NEW_OP"
      <3>1. remaining # 0
        BY <2>1, <2>3 DEF next_state, resume_next, after_fetch_or_read, TxnStates
      <3>2. remaining \in 0 .. 255
        BY FieldTypes DEF IInv, CoreTypeOK, TypeOK, remaining
      <3>3. DMA_BUF_DEPTH \in 1 .. 8
        BY DepthAssumption DEF DMA_BUF_DEPTH_MAX
      <3>4. chunk > 0
        BY <3>1, <3>2, <3>3 DEF chunk
      <3> QED BY <2>1, <2>3, <3>4 DEF qspi_byte_len
    <2> QED BY <2>1, <2>2, <2>3
  <1> QED BY <1>1, Invariant, PTL

\* DONE is low from START to the end of the chain, stalls included, so a host
\* that polls it finds the whole chain carried out.
THEOREM DoneIsIdle == Spec => []DoneMeansIdle
  <1>1. IInv => DoneMeansIdle
    <2> SUFFICES ASSUME IInv, done = 1
                 PROVE  chain_phase = "idle" /\ qspi_busy = 0
      BY DEF DoneMeansIdle
    <2>1. View!owner = "SYS_CTRL_IDLE"
      BY DEF IInv, ControlInv
    <2>2. qspi_busy = 0
      BY <2>1 DEF IInv, ControlInv, TxnStates, View!owner, CoreTypeOK, Engine!TypeOK,
        Engine!Bit
    <2> QED BY <2>1, <2>2 DEF chain_phase, View!phase
  <1> QED BY <1>1, Invariant, PTL

\* Only the owner of the bus in IDLE, or the end of a chain, reads as idle.
LEMMA IdlePhase ==
  ASSUME IInv, chain_phase = "idle"
  PROVE  \/ View!owner = "SYS_CTRL_IDLE"
         \/ /\ View!owner \in {"FETCH", "NEW_OP"} /\ quit(task_ctrl_desc) = 1
            /\ write_pending = 0 /\ qspi_busy = 0
  <1>1. /\ View!owner \in sys_control_state_t \ {"STALL"}
        /\ write_pending \in {0, 1} /\ qspi_busy \in {0, 1}
    BY DEF IInv, ControlInv, View!owner, StallOrigins, CoreTypeOK, TypeOK, Bit,
      sys_control_state_t, Engine!TypeOK, Engine!Bit
  <1>2. /\ qspi_busy = 1 => View!owner \in TxnStates
        /\ write_pending = 1 => quit(task_ctrl_desc) = 0
    BY DEF IInv, ControlInv, TxnStates, View!owner, Active
  <1>3. View!owner \notin {"NEW_FETCH", "READ", "WRITE", "UPDATE"}
    BY <1>1, <1>2 DEF chain_phase, View!phase, View!after_write, sys_control_state_t
  <1>4. CASE View!owner = "FETCH"
    BY <1>1, <1>2, <1>4 DEF chain_phase, View!phase, View!after_tcd, View!quit, quit,
      IInv, ControlInv
  <1>5. CASE View!owner = "NEW_OP"
    BY <1>1, <1>2, <1>5 DEF chain_phase, View!phase, View!after_tcd, View!quit, quit,
      TxnStates
  <1> QED BY <1>1, <1>3, <1>4, <1>5 DEF sys_control_state_t

\* A chain begins only in IDLE, on a START pulse that meets no bus request; a
\* START at any other time is dropped, not queued.
THEOREM StartIsNotQueued == Spec => StartNotQueued
  <1> DEFINE Begins == chain_phase = "idle" /\ chain_phase' = "fetch"
                         => start = 1 /\ bus_req = 0 /\ done = 1
  <1>1. IInv /\ [Next]_vars => [Begins]_vars
    <2> SUFFICES ASSUME IInv, Next, chain_phase = "idle", chain_phase' = "fetch"
                 PROVE  start = 1 /\ bus_req = 0 /\ done = 1
      OBVIOUS
    <2>0. IInv' /\ ControlInv'
      BY Inductive DEF IInv
    <2>1. rst_n = 1
      <3> SUFFICES ASSUME rst_n # 1 PROVE FALSE
        OBVIOUS
      <3>1. Reset
        BY DEF Next, Posedge, IdleOrStall, NewFetch, Fetch, NewOp, Read, Write, Update,
          Control, IInv, CoreTypeOK, Bit
      <3>2. View!owner' = "SYS_CTRL_IDLE"
        BY <3>1 DEF Reset, View!owner
      <3> QED BY <3>2 DEF chain_phase, View!phase
    <2>2. Control /\ Posedge(qspi_wdata_next)
      BY <2>1, ControlStep DEF Next
    <2>3. CASE View!owner = "SYS_CTRL_IDLE"
      <3>1. done = 1
        BY <2>3 DEF IInv, ControlInv
      <3>2. CASE start = 1 /\ bus_req = 0
        BY <3>1, <3>2
      <3>3. CASE ~(start = 1 /\ bus_req = 0)
        <4>1. View!owner' = "SYS_CTRL_IDLE"
          BY <2>2, <2>3, <3>3 DEF Control, View!owner, next_state, yields, resume_next,
            IInv, CoreTypeOK, Bit
        <4> QED BY <4>1 DEF chain_phase, View!phase
      <3> QED BY <3>2, <3>3
    <2>4. CASE /\ View!owner \in {"FETCH", "NEW_OP"} /\ quit(task_ctrl_desc) = 1
               /\ write_pending = 0 /\ qspi_busy = 0
      <3>1. View!owner' \in {"NEW_OP", "SYS_CTRL_IDLE"}
        BY <2>2, <2>4 DEF Control, View!owner, next_state, yields, resume_next,
          after_fetch_or_read, IInv, ControlInv, StallOrigins
      <3>2. quit(task_ctrl_desc)' = 1
        <4> DEFINE t == WithWord24(task_ctrl_desc, 15, 0)
        <4>1. task_ctrl_desc \in tcd_t
          BY DEF IInv, CoreTypeOK, TypeOK
        <4>2. quit([t EXCEPT ![21] = task_ctrl_desc[21] % 8]) = quit(task_ctrl_desc)
          <5>1. task_ctrl_desc[21] \in 0 .. 15
            BY <4>1 DEF tcd_t, TCD_LEN, Nibble
          <5>2. t \in tcd_t
            BY <4>1, WithWord24Type
          <5>3. [t EXCEPT ![21] = task_ctrl_desc[21] % 8][21] = task_ctrl_desc[21] % 8
            BY <5>2 DEF tcd_t, TCD_LEN
          <5> QED BY <5>1, <5>3 DEF quit
        <4>3. task_ctrl_desc' \in {task_ctrl_desc, [t EXCEPT ![21] = task_ctrl_desc[21] % 8]}
          BY <2>1, <2>2, <2>4 DEF Posedge, Reset, IdleOrStall, NewFetch, Fetch, NewOp, Read,
            Write, Update, View!owner, datapath, IInv, ControlInv, StallOrigins, Control,
            next_state, yields, resume_next
        <4> QED BY <2>4, <4>2, <4>3
      <3>3. write_pending' = 0
        BY <2>1, <2>2, <2>4 DEF Posedge, Reset, IdleOrStall, NewFetch, Fetch, NewOp, Read,
          Write, Update, View!owner, datapath, IInv, ControlInv, StallOrigins
      <3> QED BY <3>1, <3>2, <3>3 DEF chain_phase, View!phase, View!after_tcd, View!quit, quit
    <2> QED BY <2>3, <2>4, IdlePhase
  <1> QED BY <1>1, Invariant, PTL DEF Spec, StartNotQueued

\* A controller in a transaction stays there or leaves it for another state of
\* the same chain, whoever requests the bus.
LEMMA OwnerStep ==
  ASSUME IInv, Control
  PROVE  /\ next_state = "STALL" => View!owner' = View!owner
         /\ next_state # "STALL" => View!owner' = next_state
  BY DEF Control, View!owner, IInv, ControlInv, StallOrigins, CoreTypeOK, TypeOK,
    next_state, yields, resume_next

\* The controller, with any engine and any memory, keeps what HostPort promises a
\* host: the firmware checked against HostPort may be put in front of it.
THEOREM HostPortIsKept == Spec => ImplementsHostPort
  <1>1. Init => Port!Init
    BY DEF Init, ResetValues, Port!Init
  <1>2. IInv /\ [Next]_vars => [Port!Next]_(Port!port)
    <2>1. CASE UNCHANGED vars
      BY <2>1 DEF vars, core, flops, Port!port
    <2>2. CASE IInv /\ Next
      <3>1. CASE rst_n = 0
        <4>1. Reset
          BY <2>2, <3>1 DEF Next, Posedge, IdleOrStall, NewFetch, Fetch, NewOp, Read, Write,
            Update, Control
        <4> QED BY <4>1 DEF Reset, Port!Next, Port!Reset
      <3>2. CASE rst_n = 1
        <4>1. Control /\ IInv'
          BY <2>2, <3>2, ControlStep, Inductive DEF Next
        <4>2. /\ bus_gnt \in {0, 1} /\ done \in {0, 1} /\ bus_req \in {0, 1}
              /\ start \in {0, 1}
              /\ curr_state \in sys_control_state_t /\ stalled_state \in StallOrigins
          BY <2>2 DEF IInv, ControlInv, CoreTypeOK, TypeOK, Bit
        <4>3. /\ bus_gnt = 1 <=> curr_state = "STALL"
              /\ bus_gnt' = 1 <=> next_state = "STALL"
              /\ done = 1 <=> View!owner = "SYS_CTRL_IDLE"
              /\ done' = 1 <=> View!owner' = "SYS_CTRL_IDLE"
              /\ bus_gnt' \in {0, 1} /\ done' \in {0, 1}
          BY <2>2, <4>1 DEF IInv, ControlInv, Control
        <4>4. CASE bus_req = 1 /\ yields
          <5>1. next_state = "STALL"
            BY <4>4 DEF next_state
          <5>2. bus_gnt' = 1 /\ done' = done
            BY <2>2, <4>1, <4>2, <4>3, <5>1, OwnerStep
          <5> QED BY <3>2, <4>4, <5>2 DEF Port!Next, Port!Grant
        <4>5. CASE bus_req = 1 /\ ~yields
          <5>1. curr_state \in {"FETCH", "READ", "WRITE"} /\ View!owner = curr_state
            BY <4>5 DEF yields, View!owner
          <5>2. next_state \in {"FETCH", "READ", "WRITE", "NEW_OP", "UPDATE"}
            BY <5>1 DEF next_state, yields, resume_next
          <5>3. View!owner' = next_state
            BY <2>2, <4>1, <5>2, OwnerStep
          <5>4. bus_gnt = 0 /\ done = 0 /\ bus_gnt' = 0 /\ done' = 0
            BY <4>2, <4>3, <5>1, <5>2, <5>3
          <5> QED BY <3>2, <4>5, <5>4 DEF Port!Next, Port!Transfer, Port!port
        <4>6. CASE bus_req = 0
          <5>1. next_state = resume_next /\ next_state # "STALL"
            BY <4>2, <4>6 DEF next_state, resume_next, after_fetch_or_read, after_update,
              StallOrigins, sys_control_state_t
          <5>2. View!owner' = next_state /\ bus_gnt' = 0
            BY <2>2, <4>1, <4>3, <5>1, OwnerStep
          <5>3. CASE bus_gnt = 1
            <6>1. curr_state = "STALL" /\ next_state = stalled_state
              BY <4>3, <5>1, <5>3 DEF resume_next
            <6>2. done' = done
              BY <4>2, <4>3, <5>2, <6>1 DEF View!owner
            <6> QED BY <3>2, <4>6, <5>2, <5>3, <6>2 DEF Port!Next, Port!Return
          <5>4. CASE bus_gnt = 0 /\ done = 1
            <6>1. curr_state = "SYS_CTRL_IDLE"
              BY <4>3, <5>4 DEF View!owner
            <6>2. next_state = IF start = 1 THEN "NEW_FETCH" ELSE "SYS_CTRL_IDLE"
              BY <5>1, <6>1 DEF resume_next
            <6> QED BY <3>2, <4>2, <4>3, <4>6, <5>2, <5>4, <6>2 DEF Port!Next, Port!Free,
                  Port!Start, Port!StayIdle, Port!port
          <5>5. CASE bus_gnt = 0 /\ done = 0
            BY <3>2, <4>3, <4>6, <5>2, <5>5 DEF Port!Next, Port!Free, Port!Run
          <5> QED BY <4>2, <5>3, <5>4, <5>5
        <4> QED BY <4>2, <4>4, <4>5, <4>6
      <3> QED BY <2>2, <3>1, <3>2 DEF IInv, CoreTypeOK, Bit
    <2> QED BY <2>1, <2>2
  <1> QED BY <1>1, <1>2, Invariant, PTL DEF Spec, ImplementsHostPort, Port!Spec
=============================================================================
