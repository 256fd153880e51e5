----------------------------- MODULE SysController -----------------------------
(***************************************************************************)
(* sys_controller (src/src/sys_controller.sv): the host handshake (START,  *)
(* DONE, BUS_REQ, BUS_GNT) and the descriptor state machine that turns a   *)
(* chain of descriptors into QSPI requests.                                *)
(*                                                                         *)
(* One step is one posedge of clk and there is one action per FSM state.   *)
(* Ports and combinational signals are as in QspiEngine.  The port         *)
(* qspi_wdata_next is an argument of what depends on it, because it is     *)
(* itself computed from the request this module drives.                    *)
(***************************************************************************)
EXTENDS QspiPkg

CONSTANT DMA_BUF_DEPTH      \* N, the bytes of on-chip data buffer

ASSUME DepthAssumption == DMA_BUF_DEPTH \in 1 .. DMA_BUF_DEPTH_MAX

VARIABLES                   \* input ports
  rst_n, start, bus_req, qspi_busy, qspi_rdata_valid, qspi_rdata

VARIABLES                   \* flops; done and bus_gnt are output ports
  curr_state, stalled_state, task_ctrl_desc, active_fetch_addr,
  active_fetch_device, write_pending, data_buffer, done, bus_gnt

datapath == <<task_ctrl_desc, active_fetch_addr, active_fetch_device,
              write_pending, data_buffer>>
flops == <<curr_state, stalled_state, datapath, done, bus_gnt>>

BUF_LEN == 2 * DMA_BUF_DEPTH        \* nibbles of data_buffer, most significant first

TypeOK ==
  /\ curr_state \in sys_control_state_t
  /\ stalled_state \in sys_control_state_t
  /\ task_ctrl_desc \in tcd_t
  /\ active_fetch_addr \in qspi_addr_t
  /\ active_fetch_device \in qspi_device_sel_t
  /\ data_buffer \in [1 .. BUF_LEN -> Nibble]
  /\ {write_pending, done, bus_gnt} \subseteq Bit

-------------------------------------------------------------------------------
(***************************************************************************)
(* The next state.                                                         *)
(***************************************************************************)
remaining == transfer_len(task_ctrl_desc)

\* Mutant: an empty descriptor is not recognised.
after_fetch_or_read_empty ==
  IF quit(task_ctrl_desc) = 1 THEN "SYS_CTRL_IDLE"
  ELSE IF write_pending = 1 THEN "WRITE" ELSE "READ"

\* Mutant: an empty descriptor is waited for instead of skipped.
after_fetch_or_read_spin ==
  IF quit(task_ctrl_desc) = 1 THEN "SYS_CTRL_IDLE"
  ELSE IF remaining = 0 THEN "NEW_OP"
  ELSE IF write_pending = 1 THEN "WRITE" ELSE "READ"

after_fetch_or_read ==      \* NEW_OP: dispatch on the descriptor
  IF quit(task_ctrl_desc) = 1 THEN "SYS_CTRL_IDLE"
  ELSE IF remaining = 0 THEN "NEW_FETCH"
  ELSE IF write_pending = 1 THEN "WRITE" ELSE "READ"

\* Mutant: an UPDATE resumed from a stall decrements again.
update_fresh_always == TRUE

\* An UPDATE that was stalled has already decremented the length.
update_fresh == stalled_state # "UPDATE"

after_update ==
  IF \/ ~update_fresh /\ remaining = 0
     \/ update_fresh /\ remaining <= DMA_BUF_DEPTH
  THEN "NEW_FETCH" ELSE "NEW_OP"

resume_next ==              \* the next state when nobody requests the bus
  [SYS_CTRL_IDLE |-> IF start = 1 THEN "NEW_FETCH" ELSE "SYS_CTRL_IDLE",
   NEW_FETCH |-> IF qspi_busy = 0 THEN "FETCH" ELSE "NEW_FETCH",
   FETCH |-> IF qspi_busy = 0 THEN "NEW_OP" ELSE "FETCH",
   NEW_OP |-> after_fetch_or_read,
   READ |-> IF qspi_busy = 0 THEN "NEW_OP" ELSE "READ",
   WRITE |-> IF qspi_busy = 0 THEN "UPDATE" ELSE "WRITE",
   UPDATE |-> after_update,
   STALL |-> stalled_state][curr_state]

\* Mutant: a WRITE is interrupted.
yields_in_write == curr_state \notin {"FETCH", "READ"}

\* Mutant: START goes before BUS_REQ.
yields_to_start ==
  curr_state \notin {"FETCH", "READ", "WRITE"} /\ ~(curr_state = "SYS_CTRL_IDLE" /\ start = 1)

\* Mutant: an idle controller does not yield.
yields_when_active == curr_state \notin {"SYS_CTRL_IDLE", "FETCH", "READ", "WRITE"}

\* BUS_REQ comes first everywhere but in a transaction.
yields == curr_state \notin {"FETCH", "READ", "WRITE"}

next_state == IF bus_req = 1 /\ yields THEN "STALL" ELSE resume_next

-------------------------------------------------------------------------------
(***************************************************************************)
(* The request to the engine.                                              *)
(***************************************************************************)
chunk == IF remaining > DMA_BUF_DEPTH THEN DMA_BUF_DEPTH ELSE remaining

qspi_txn_valid ==
  IF /\ curr_state \in {"NEW_OP", "NEW_FETCH"}
     /\ next_state \in {"READ", "WRITE", "FETCH"}
  THEN 1 ELSE 0

qspi_cmd == IF write_pending = 1 THEN QSPI_CMD_WRITE ELSE QSPI_CMD_FAST_READ

pending(to_dest, from_src) == IF write_pending = 1 THEN to_dest ELSE from_src

qspi_device_sel ==
  [SYS_CTRL_IDLE |-> QSPI_PSRAM0, UPDATE |-> QSPI_PSRAM0, STALL |-> QSPI_PSRAM0,
   NEW_FETCH |-> next_tcd_device(task_ctrl_desc), FETCH |-> active_fetch_device,
   NEW_OP |-> pending(dest_device(task_ctrl_desc), src_device(task_ctrl_desc)),
   READ |-> src_device(task_ctrl_desc),
   WRITE |-> dest_device(task_ctrl_desc)][curr_state]

\* Mutant: the pointer is taken from the descriptor that is being shifted.
fetch_addr_live == next_tcd(task_ctrl_desc)

\* The descriptor shifts during its own fetch; the pointer it is fetched by is
\* the one that NEW_FETCH has kept.
fetch_addr == active_fetch_addr

qspi_addr ==
  [SYS_CTRL_IDLE |-> 0, UPDATE |-> 0, STALL |-> 0,
   NEW_FETCH |-> next_tcd(task_ctrl_desc), FETCH |-> fetch_addr,
   NEW_OP |-> pending(dest_ptr(task_ctrl_desc), src_ptr(task_ctrl_desc)),
   READ |-> src_ptr(task_ctrl_desc), WRITE |-> dest_ptr(task_ctrl_desc)][curr_state]

qspi_byte_len ==
  [SYS_CTRL_IDLE |-> 0, UPDATE |-> 0, STALL |-> 0,
   NEW_FETCH |-> QPI_TCD_BYTES, FETCH |-> QPI_TCD_BYTES,
   NEW_OP |-> chunk, READ |-> chunk, WRITE |-> chunk][curr_state]

\* The buffer holds the chunk in its low nibbles; look one ahead when asked.
used_nibbles ==
  IF qspi_byte_len = 0 \/ qspi_byte_len > DMA_BUF_DEPTH THEN BUF_LEN ELSE 2 * qspi_byte_len

\* Mutant: no look-ahead, the nibble already sent is offered again.
qspi_wdata_behind(wdata_next) == data_buffer[BUF_LEN - used_nibbles + 1]

qspi_wdata(wdata_next) == data_buffer[BUF_LEN - used_nibbles + 1 + wdata_next]

-------------------------------------------------------------------------------
(***************************************************************************)
(* The flops.                                                              *)
(***************************************************************************)
ResetValues ==
  /\ curr_state = "SYS_CTRL_IDLE" /\ stalled_state = "SYS_CTRL_IDLE"
  /\ task_ctrl_desc = [n \in 1 .. TCD_LEN |-> 0]
  /\ active_fetch_addr = 0 /\ active_fetch_device = QSPI_PSRAM0
  /\ write_pending = 0
  /\ data_buffer = [n \in 1 .. BUF_LEN |-> 0]
  /\ done = 1 /\ bus_gnt = 0

Reset ==
  /\ rst_n = 0
  /\ curr_state' = "SYS_CTRL_IDLE" /\ stalled_state' = "SYS_CTRL_IDLE"
  /\ task_ctrl_desc' = [n \in 1 .. TCD_LEN |-> 0]
  /\ active_fetch_addr' = 0 /\ active_fetch_device' = QSPI_PSRAM0
  /\ write_pending' = 0
  /\ data_buffer' = [n \in 1 .. BUF_LEN |-> 0]
  /\ done' = 1 /\ bus_gnt' = 0

\* Mutant: the origin of a stall is read before it is recorded.
stall_origin_stale == stalled_state

stall_origin == IF curr_state = "STALL" THEN stalled_state ELSE curr_state

\* The flops every posedge writes, whatever the state.
Control ==
  /\ rst_n = 1
  /\ curr_state' = next_state
  /\ stalled_state' = IF curr_state = "STALL" THEN stalled_state
                      ELSE IF next_state = "STALL" THEN curr_state
                      ELSE "SYS_CTRL_IDLE"
  /\ bus_gnt' = IF next_state = "STALL" THEN 1 ELSE 0
  /\ done' = IF \/ next_state = "SYS_CTRL_IDLE"
                \/ next_state = "STALL" /\ stall_origin = "SYS_CTRL_IDLE"
             THEN 1 ELSE 0

ShiftIn(reg, len, d) == [n \in 1 .. len |-> IF n = len THEN d ELSE reg[n + 1]]

Advance(ptr) == (ptr + DMA_BUF_DEPTH) % QSPI_ADDR_SPACE

WithLength(t, n) == [t EXCEPT ![13] = n \div 16, ![14] = n % 16]

IdleOrStall ==
  /\ curr_state \in {"SYS_CTRL_IDLE", "STALL"} /\ Control
  /\ UNCHANGED datapath

NewFetch ==                 \* keep the fetch pointer while the descriptor shifts
  /\ curr_state = "NEW_FETCH" /\ Control
  /\ active_fetch_addr' = next_tcd(task_ctrl_desc)
  /\ active_fetch_device' = next_tcd_device(task_ctrl_desc)
  /\ UNCHANGED <<task_ctrl_desc, write_pending, data_buffer>>

Fetch ==
  /\ curr_state = "FETCH" /\ Control
  /\ task_ctrl_desc' = IF qspi_rdata_valid = 1 /\ next_state = "FETCH"
                       THEN ShiftIn(task_ctrl_desc, TCD_LEN, qspi_rdata)
                       ELSE task_ctrl_desc
  /\ UNCHANGED <<active_fetch_addr, active_fetch_device, write_pending, data_buffer>>

NewOp ==                    \* a QUIT sends the next START to address 0 of PSRAM0
  /\ curr_state = "NEW_OP" /\ Control
  /\ task_ctrl_desc' = IF quit(task_ctrl_desc) = 1
                       THEN [WithWord24(task_ctrl_desc, 15, 0)
                               EXCEPT ![21] = task_ctrl_desc[21] % 8]
                       ELSE task_ctrl_desc
  /\ UNCHANGED <<active_fetch_addr, active_fetch_device, write_pending, data_buffer>>

Read ==
  /\ curr_state = "READ" /\ Control
  /\ data_buffer' = IF qspi_rdata_valid = 1 /\ next_state = "READ"
                    THEN ShiftIn(data_buffer, BUF_LEN, qspi_rdata) ELSE data_buffer
  /\ IF next_state # "READ"
     THEN /\ task_ctrl_desc' = WithWord24(task_ctrl_desc, 1, Advance(src_ptr(task_ctrl_desc)))
          /\ write_pending' = 1
     ELSE UNCHANGED <<task_ctrl_desc, write_pending>>
  /\ UNCHANGED <<active_fetch_addr, active_fetch_device>>

Write(wdata_next) ==
  /\ curr_state = "WRITE" /\ Control
  /\ data_buffer' = IF wdata_next = 1 THEN ShiftIn(data_buffer, BUF_LEN, 0) ELSE data_buffer
  /\ IF next_state # "WRITE"
     THEN /\ task_ctrl_desc' = WithWord24(task_ctrl_desc, 7, Advance(dest_ptr(task_ctrl_desc)))
          /\ write_pending' = 0
     ELSE UNCHANGED <<task_ctrl_desc, write_pending>>
  /\ UNCHANGED <<active_fetch_addr, active_fetch_device>>

length_after == IF remaining > DMA_BUF_DEPTH THEN remaining - DMA_BUF_DEPTH ELSE 0

Update ==                   \* once per chunk, however often it is stalled
  /\ curr_state = "UPDATE" /\ Control
  /\ task_ctrl_desc' = IF update_fresh
                       THEN WithLength(task_ctrl_desc, length_after)
                       ELSE task_ctrl_desc
  /\ UNCHANGED <<active_fetch_addr, active_fetch_device, write_pending, data_buffer>>

Posedge(wdata_next) ==
  \/ Reset \/ IdleOrStall \/ NewFetch \/ Fetch \/ NewOp
  \/ Read \/ Write(wdata_next) \/ Update
=============================================================================
