-------------------------------- MODULE DmaCore --------------------------------
(***************************************************************************)
(* The controller at work: sys_controller wired to an engine that keeps    *)
(* its port contract (QspiContract, any timing), to two memories, and to a *)
(* host that raises and drops BUS_REQ, pulses START and pulls rst_n at any *)
(* clk.  One step is one posedge of clk for everybody.                     *)
(*                                                                         *)
(* req, half and xfer are the device's side of the transaction in flight:  *)
(* the request it was addressed with, the first nibble of the byte in      *)
(* progress, the bytes transferred.  desc, held and txn remember the last  *)
(* descriptor, the last chunk and the last transaction seen on the bus.    *)
(***************************************************************************)
EXTENDS SysController, MemoryImage

CONSTANT Images             \* the initial memories: staged chains

\* Both devices have an image, sparse, of bytes.
ASSUME ImagesAssumption ==
  \A image \in Images :
    /\ DOMAIN image = qspi_device_sel_t
    /\ \A d \in qspi_device_sel_t : \A a \in DOMAIN image[d] : image[d][a] \in 0 .. 255

VARIABLES qspi_wdata_next, beats_left
VARIABLES mem, req, half, xfer
VARIABLES desc, held, txn

engine == <<qspi_busy, qspi_rdata, qspi_rdata_valid, qspi_wdata_next, beats_left>>
device == <<mem, req, half, xfer>>
history == <<desc, held, txn>>
host == <<rst_n, start, bus_req>>
core == <<flops, engine, device, history>>
vars == <<core, host>>

Engine == INSTANCE QspiContract WITH
  txn_valid <- qspi_txn_valid, cmd <- qspi_cmd, byte_len <- qspi_byte_len,
  busy <- qspi_busy, rdata <- qspi_rdata, rdata_valid <- qspi_rdata_valid,
  wdata_next <- qspi_wdata_next, left <- beats_left

Request ==
  [cmd |-> qspi_cmd, addr |-> qspi_addr, device_sel |-> qspi_device_sel,
   byte_len |-> qspi_byte_len]
NO_REQUEST ==
  [cmd |-> QSPI_CMD_FAST_READ, addr |-> 0, device_sel |-> QSPI_PSRAM0, byte_len |-> 0]
NO_NIBBLE == 16

Init ==
  /\ rst_n = 1 /\ start = 0 /\ bus_req = 0
  /\ ResetValues /\ Engine!Init
  /\ mem \in Images
  /\ req = NO_REQUEST /\ half = NO_NIBBLE /\ xfer = <<>>
  /\ desc = [n \in 1 .. TCD_LEN |-> 0] /\ held = <<>> /\ txn = [kind |-> "none"]

-------------------------------------------------------------------------------
(***************************************************************************)
(* The device: bytes are transferred upper nibble first, a written byte is *)
(* stored when its lower nibble is sampled.                                *)
(***************************************************************************)
transfer_addr == WireAddr(req.addr) + Len(xfer)

Transfer(nibble) ==
  IF half = NO_NIBBLE
  THEN half' = nibble /\ UNCHANGED <<mem, xfer>>
  ELSE /\ half' = NO_NIBBLE
       /\ xfer' = Append(xfer, 16 * half + nibble)
       /\ mem' = IF req.cmd = QSPI_CMD_WRITE
                 THEN Poke(mem, req.device_sel, transfer_addr, 16 * half + nibble)
                 ELSE mem

ReadNibble ==
  LET byte == ByteAt(mem, req.device_sel, transfer_addr)
  IN  IF half = NO_NIBBLE THEN byte \div 16 ELSE byte % 16

\* What the engine's step does to the device and to the record of the bus.
AcceptTxn ==
  /\ Engine!Accept
  /\ req' = Request /\ half' = NO_NIBBLE /\ xfer' = <<>>
  /\ UNCHANGED <<mem, history>>

ReadBeat ==
  /\ Engine!ReadBeat
  /\ qspi_rdata' = ReadNibble /\ Transfer(ReadNibble)
  /\ UNCHANGED <<req, history>>

WriteBeat ==
  /\ Engine!WriteBeat
  /\ Transfer(qspi_wdata(qspi_wdata_next))
  /\ UNCHANGED <<req, history>>

KindOf == [FETCH |-> "FETCH_READ", READ |-> "DATA_READ", WRITE |-> "DATA_WRITE"]

FinishTxn ==
  /\ Engine!Finish
  /\ txn' = [kind |-> KindOf[curr_state], device |-> req.device_sel,
             address |-> WireAddr(req.addr), data |-> xfer]
  /\ desc' = IF curr_state = "FETCH" THEN ToNibbles(xfer) ELSE desc
  /\ held' = IF curr_state = "READ" THEN xfer ELSE held
  /\ UNCHANGED device

Quiet ==                    \* no nibble moves
  /\ Engine!Reset \/ Engine!Idle \/ Engine!Wait \/ Engine!AskNibble
  /\ UNCHANGED <<device, history>>

EngineStep == AcceptTxn \/ ReadBeat \/ WriteBeat \/ FinishTxn \/ Quiet

HostStep ==                 \* START is a one-clk pulse behind the edge detector
  /\ rst_n' \in Bit /\ bus_req' \in Bit
  /\ start' \in {0, 1 - start}

Next == Posedge(qspi_wdata_next) /\ EngineStep /\ HostStep

EngineProgress == Next /\ Engine!Progress

\* The clock never stops and the engine never stalls a transaction; the host need
\* not do anything.
Spec == Init /\ [][Next]_vars /\ WF_core(Next) /\ WF_core(EngineProgress)

-------------------------------------------------------------------------------
(***************************************************************************)
(* Properties.                                                             *)
(***************************************************************************)
CoreTypeOK ==
  /\ TypeOK /\ Engine!TypeOK
  /\ {rst_n, start, bus_req} \subseteq Bit
  /\ half \in 0 .. NO_NIBBLE

\* BUS_GNT, which releases every pad to the host, is only high while no
\* transaction is in flight and none is being started, so a transaction is
\* never torn (D22).
GrantIsQuiet == bus_gnt = 1 => qspi_busy = 0 /\ qspi_txn_valid = 0

\* The engine does not latch its request: the controller holds command, address,
\* device and length for as long as it is busy, although the descriptor they are
\* computed from shifts and is updated (D21).
RequestStable == qspi_busy = 1 => Request = req

\* A request is only made to an idle engine, with no bus request pending, and
\* for at least one byte.
RequestLegal ==
  qspi_txn_valid = 1 => qspi_busy = 0 /\ bus_req = 0 /\ qspi_byte_len > 0

\* The controller read as a state of the chain interpreter.
View == INSTANCE ChainView WITH in_flight <- (qspi_busy = 1), killed <- FALSE
chain_phase == View!phase

Chain == INSTANCE DmaChain WITH
  phase <- View!phase, at <- View!at, tcd <- desc, moved <- View!moved,
  payload <- held, offset <- IF View!writing_out THEN Len(xfer) ELSE 0

\* Whenever the host requests the bus, starts, stalls or resets, the transactions
\* on the bus and the bytes in memory are those of the chain interpreter: no
\* chunk is repeated or skipped across a stall, START always begins at the head.
ImplementsChain == Chain!Spec

Port == INSTANCE HostPort

\* All that a host may rely on: when DONE and BUS_GNT may move, and which START is
\* taken.  The firmware is checked against this, not against the controller.
ImplementsHostPort == Port!Spec

\* A chain only begins with a START pulse that meets an idle controller and no
\* bus request; a START at any other time is dropped, not queued.
StartNotQueued ==
  [][chain_phase = "idle" /\ chain_phase' = "fetch"
       => start = 1 /\ bus_req = 0 /\ done = 1]_vars

\* DONE is never high while a chain is in progress, so firmware that polls it
\* finds the results of the whole chain in memory.
DoneMeansIdle == done = 1 => chain_phase = "idle" /\ qspi_busy = 0

\* A host that keeps requesting the bus gets it.
GrantServed == (bus_req = 1) ~> (bus_gnt = 1 \/ bus_req = 0 \/ rst_n = 0)
=============================================================================
