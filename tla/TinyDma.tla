-------------------------------- MODULE TinyDma --------------------------------
(***************************************************************************)
(* The whole chip (src/src/top.v) on its board: input synchronisers,       *)
(* controller, engine and output enables, two PSRAM devices on the shared  *)
(* bus, and a host that keeps the ownership rules of                       *)
(* src/firmware/dma.py.  One step is one posedge of clk; what the pads do  *)
(* to the devices happens within the step.                                 *)
(***************************************************************************)
EXTENDS PsramDevice

CONSTANTS
  DMA_BUF_DEPTH,           \* N
  Images                   \* the initial memories: staged chains

VARIABLES ui_start, ui_bus_req, rst_n, host_drive       \* the host's pins
VARIABLE killing                                        \* kill_dma is under way
VARIABLES start_sync, start_sync_d, bus_req_sync        \* flops of top.v
VARIABLES                                               \* flops of sys_controller
  ctl_state, stalled_state, task_ctrl_desc, active_fetch_addr,
  active_fetch_device, write_pending, data_buffer, done, bus_gnt
VARIABLES                                               \* flops of qspi_engine
  engine_state, cycle_cnt, sclk, sio_out, sio_oe_reg, ram_a_cs_n, ram_b_cs_n,
  rdata, rdata_valid
VARIABLES psram, mem                                    \* the two devices
VARIABLES desc, held, txn      \* last descriptor, chunk and frame on the bus

host == <<ui_start, ui_bus_req, rst_n, host_drive, killing>>
sync == <<start_sync, start_sync_d, bus_req_sync>>
controller == <<ctl_state, stalled_state, task_ctrl_desc, active_fetch_addr,
                active_fetch_device, write_pending, data_buffer, done, bus_gnt>>
engine == <<engine_state, cycle_cnt, sclk, sio_out, sio_oe_reg, ram_a_cs_n,
            ram_b_cs_n, rdata, rdata_valid>>
history == <<desc, held, txn>>
chip == <<sync, controller, engine, psram, mem, history>>
vars == <<host, chip>>

-------------------------------------------------------------------------------
(***************************************************************************)
(* Wiring.                                                                 *)
(***************************************************************************)
start == IF start_sync[2] = 1 /\ start_sync_d = 0 THEN 1 ELSE 0
bus_req == bus_req_sync[2]
qspi_busy == IF engine_state = "QSPI_IDLE" THEN 0 ELSE 1

Ctl == INSTANCE SysController WITH
  curr_state <- ctl_state, qspi_rdata_valid <- rdata_valid, qspi_rdata <- rdata

\* Mutant: reset does not release the pads.
bus_park_in_reset == bus_gnt = 0

\* The pads: while BUS_GNT is high or rst_n is low every one is released, and
\* the pull-ups hold CE# high.
bus_park == bus_gnt = 0 /\ rst_n = 1
uio_oe_sio == bus_park /\ sio_oe_reg = 1
pad_ce_n ==
  [d \in qspi_device_sel_t |->
     IF ~bus_park THEN 1 ELSE IF d = QSPI_PSRAM0 THEN ram_a_cs_n ELSE ram_b_cs_n]
pad_sck == IF bus_park THEN sclk ELSE 0
DevicesDriving == {d \in qspi_device_sel_t : psram[d].drive # NONE}
pad_sio ==
  IF uio_oe_sio THEN sio_out
  ELSE IF DevicesDriving # {} THEN psram[CHOOSE d \in DevicesDriving : TRUE].drive
  ELSE 0

\* wdata depends on wdata_next, which does not depend on wdata.
Ask == INSTANCE QspiEngine WITH
  curr_state <- engine_state, txn_valid <- Ctl!qspi_txn_valid,
  cmd <- Ctl!qspi_cmd, addr <- Ctl!qspi_addr, device_sel <- Ctl!qspi_device_sel,
  byte_len <- Ctl!qspi_byte_len, wdata <- 0, sio_in <- pad_sio
qspi_wdata_next == Ask!wdata_next

Engine == INSTANCE QspiEngine WITH
  curr_state <- engine_state, txn_valid <- Ctl!qspi_txn_valid,
  cmd <- Ctl!qspi_cmd, addr <- Ctl!qspi_addr, device_sel <- Ctl!qspi_device_sel,
  byte_len <- Ctl!qspi_byte_len, wdata <- Ctl!qspi_wdata(qspi_wdata_next),
  sio_in <- pad_sio

Init ==
  /\ ui_start = 0 /\ ui_bus_req = 0 /\ rst_n = 1 /\ host_drive = 0 /\ killing = 0
  /\ start_sync = <<0, 0>> /\ start_sync_d = 0 /\ bus_req_sync = <<0, 0>>
  /\ Ctl!ResetValues /\ Engine!InitFlops
  /\ psram = [d \in qspi_device_sel_t |-> Deselected]
  /\ mem \in Images
  /\ desc = [n \in 1 .. TCD_LEN |-> 0] /\ held = <<>> /\ txn = [kind |-> "none"]

SyncFlops ==
  IF rst_n = 0
  THEN start_sync' = <<0, 0>> /\ start_sync_d' = 0 /\ bus_req_sync' = <<0, 0>>
  ELSE /\ start_sync' = <<ui_start, start_sync[1]>>
       /\ start_sync_d' = start_sync[2]
       /\ bus_req_sync' = <<ui_bus_req, bus_req_sync[1]>>

-------------------------------------------------------------------------------
(***************************************************************************)
(* The host.  It is asynchronous to clk; it makes one call on its pins at  *)
(* a time, so at most one of them changes in a clk.  START may be pulsed   *)
(* at any moment, also when firmware would refuse to.                      *)
(***************************************************************************)
RequestBus ==              \* request_bus: the last release has waited for BUS_GNT low
  /\ rst_n = 1 /\ killing = 0 /\ ui_bus_req = 0 /\ bus_gnt = 0
  /\ ui_bus_req' = 1 /\ UNCHANGED <<ui_start, rst_n, host_drive, killing>>

EnableDrive ==             \* enable_drive, _drive_legal
  /\ host_drive = 0 /\ killing = 0
  /\ (ui_bus_req = 1 /\ bus_gnt = 1) \/ rst_n = 0
  /\ host_drive' = 1 /\ UNCHANGED <<ui_start, ui_bus_req, rst_n, killing>>

Hiz ==
  /\ host_drive = 1
  /\ host_drive' = 0 /\ UNCHANGED <<ui_start, ui_bus_req, rst_n, killing>>

ReleaseBus ==              \* release_bus; a request that is never granted ends in a kill
  /\ ui_bus_req = 1 /\ bus_gnt = 1 /\ host_drive = 0
  /\ ui_bus_req' = 0 /\ UNCHANGED <<ui_start, rst_n, host_drive, killing>>

ToggleStart ==
  /\ rst_n = 1 /\ killing = 0
  /\ ui_start' = 1 - ui_start /\ UNCHANGED <<ui_bus_req, rst_n, host_drive, killing>>

\* kill_dma: release the bus, clear ui_in, and only then pull rst_n.
KillZeroUiIn ==
  /\ rst_n = 1 /\ killing = 0 /\ host_drive = 0
  /\ killing' = 1 /\ ui_start' = 0 /\ ui_bus_req' = 0
  /\ UNCHANGED <<rst_n, host_drive>>

KillReset ==
  /\ killing = 1
  /\ killing' = 0 /\ rst_n' = 0 /\ UNCHANGED <<ui_start, ui_bus_req, host_drive>>

LeaveReset ==
  /\ rst_n = 0 /\ host_drive = 0
  /\ rst_n' = 1 /\ UNCHANGED <<ui_start, ui_bus_req, host_drive, killing>>

Host ==
  \/ RequestBus \/ EnableDrive \/ Hiz \/ ReleaseBus \/ ToggleStart
  \/ KillZeroUiIn \/ KillReset \/ LeaveReset \/ UNCHANGED host

-------------------------------------------------------------------------------
(***************************************************************************)
(* The devices follow the edges of the pads.                               *)
(***************************************************************************)
CeFell(d) == pad_ce_n[d] = 1 /\ pad_ce_n'[d] = 0
CeRose(d) == pad_ce_n[d] = 0 /\ pad_ce_n'[d] = 1
SckRose(d) == pad_ce_n'[d] = 0 /\ pad_sck = 0 /\ pad_sck' = 1
SckFell(d) == pad_ce_n'[d] = 0 /\ pad_sck = 1 /\ pad_sck' = 0

\* What is on SIO when a device samples it; SIO the ASIC floats reads as 0.
sampled == IF uio_oe_sio' THEN sio_out' ELSE 0

Device(d) ==
  CASE CeFell(d) -> BeginTransaction
    [] CeRose(d) -> Deselected
    [] ~CeFell(d) /\ SckRose(d) -> OnSckRise(psram[d], sampled)
    [] SckFell(d) -> OnSckFall(psram[d], mem[d])
    [] OTHER -> psram[d]

Committing == {d \in qspi_device_sel_t : SckRose(d) /\ CommitsByte(psram[d])}

Devices ==
  /\ psram' = [d \in qspi_device_sel_t |-> Device(d)]
  /\ mem' = [d \in qspi_device_sel_t |->
               IF d \in Committing
               THEN Poke(mem, d, psram[d].address, 16 * psram[d].half + sampled)[d]
               ELSE mem[d]]

KindOf == [FETCH |-> "FETCH_READ", READ |-> "DATA_READ", WRITE |-> "DATA_WRITE"]

\* A frame that the ASIC ends is a transaction; one that a reset cuts is not.
Ended == {d \in qspi_device_sel_t : CeRose(d) /\ rst_n = 1 /\ rst_n' = 1}

Observe ==
  IF Ended = {} THEN UNCHANGED history
  ELSE LET d == CHOOSE x \in Ended : TRUE
           frame == Retired(psram[d])
       IN  /\ txn' = [kind |-> KindOf[ctl_state], device |-> d,
                      address |-> frame.address, data |-> frame.data]
           /\ desc' = IF ctl_state = "FETCH" THEN ToNibbles(frame.data) ELSE desc
           /\ held' = IF ctl_state = "READ" THEN frame.data ELSE held

Next ==
  /\ Ctl!Posedge(qspi_wdata_next) /\ Engine!Posedge /\ SyncFlops
  /\ Host /\ Devices /\ Observe

\* The clock never stops; the host need not do anything.
Spec == Init /\ [][Next]_vars /\ WF_chip(Next)

-------------------------------------------------------------------------------
(***************************************************************************)
(* Properties.                                                             *)
(***************************************************************************)
Selected == {d \in qspi_device_sel_t : pad_ce_n[d] = 0}

\* Nobody fights over the bus: the host never drives while the ASIC parks or
\* drives it, the ASIC never drives SIO while a device does, one device at most
\* is selected, and only a selected device drives.
NoContention ==
  /\ host_drive = 1 => ~bus_park
  /\ uio_oe_sio => DevicesDriving = {}
  /\ \A d, e \in Selected : d = e
  /\ DevicesDriving \subseteq Selected

View == INSTANCE ChainView WITH
  curr_state <- ctl_state, qspi_rdata_valid <- rdata_valid, qspi_rdata <- rdata,
  in_flight <- (ram_a_cs_n = 0 \/ ram_b_cs_n = 0), killed <- (rst_n = 0)

\* The bytes the devices have committed in the current frame.
committed ==
  IF View!writing_out /\ Selected # {}
  THEN Len(psram[CHOOSE d \in Selected : TRUE].bytes) ELSE 0

Chain == INSTANCE DmaChain WITH
  phase <- View!phase, at <- View!at, tcd <- desc, moved <- View!moved,
  payload <- held, offset <- committed

\* End to end, from the input pins to the cells of the two devices: what the
\* devices decode and store is the log and the memory of the chain interpreter,
\* under every schedule of START, BUS_REQ and rst_n.
ImplementsChain == Chain!Spec

\* DONE at the pin: the chain is over and no device is selected.
DoneMeansQuiet == done = 1 /\ rst_n = 1 => View!phase = "idle" /\ Selected = {}

\* Once the host leaves BUS_REQ and rst_n alone, a chain that ends in a QUIT
\* raises DONE: the engine's own timing needs no other help than the clock.
ChainCompletes ==
  <>[](ui_bus_req = 0 /\ rst_n = 1) => ((View!phase # "idle") ~> (done = 1))
=============================================================================
