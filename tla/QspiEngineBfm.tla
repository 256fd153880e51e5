----------------------------- MODULE QspiEngineBfm -----------------------------
(***************************************************************************)
(* The engine driven by a consumer that keeps the request contract D21:    *)
(* the fields are driven with a one-clk txn_valid while ~busy and held     *)
(* until busy falls, and the next write nibble is on wdata in the clk that *)
(* asks for it.  This is what the bus functional model of the test bench   *)
(* (src/test/common/engine_bfm.py) does, and what sys_controller does.     *)
(* The consumer may assert txn_valid in the first clk with busy low, which *)
(* is the tightest legal schedule, and rst_n may fall at any clk.          *)
(*                                                                         *)
(* frame, low and high watch the pads: what a device sees on SIO at every  *)
(* rising SCK of the current CE# window, how long CE# has been low, and    *)
(* how long both CE# have been high (counted up to 2).                     *)
(***************************************************************************)
EXTENDS QspiEngine, Sequences

CONSTANTS
  Requests,                \* the requests the consumer may make
  SioValues                \* what a device may put on SIO while it is read

ASSUME RequestsAssumption ==
  /\ Requests \subseteq
       [cmd : qspi_cmd_t, addr : qspi_addr_t, device_sel : qspi_device_sel_t,
        byte_len : 1 .. QPI_MAX_BYTES]
  /\ SioValues \subseteq Nibble

VARIABLES
  wsent,                   \* index of the write nibble on wdata
  frame, low, high         \* history of the pads

wires == <<rst_n, txn_valid, cmd, addr, device_sel, byte_len, wdata, sio_in, wsent>>
vars == <<flops, wires, frame, low, high>>

FLOAT == 16                \* SIO not driven by the ASIC
PayloadNibble(k) == k % 16 \* neighbouring nibbles of the payload differ

InitWires ==
  /\ rst_n = 1 /\ txn_valid = 0
  /\ \E r \in Requests : /\ cmd = r.cmd /\ addr = r.addr
                         /\ device_sel = r.device_sel /\ byte_len = r.byte_len
  /\ sio_in \in SioValues
  /\ wsent = 1 /\ wdata = PayloadNibble(1)

Init == InitFlops /\ InitWires /\ frame = <<>> /\ low = 0 /\ high = 2

DriveRequest ==            \* not while the engine is busy, or while in reset with it
  /\ busy' = 0 /\ rst_n = 1
  /\ txn_valid' = 1
  /\ \E r \in Requests : /\ cmd' = r.cmd /\ addr' = r.addr
                         /\ device_sel' = r.device_sel /\ byte_len' = r.byte_len
  /\ wsent' = 1

HoldRequest ==
  /\ txn_valid' = 0
  /\ UNCHANGED <<cmd, addr, device_sel, byte_len>>
  /\ wsent' = IF wdata_next' = 1 THEN wsent + 1 ELSE wsent

Drive ==
  /\ DriveRequest \/ HoldRequest
  /\ wdata' = PayloadNibble(wsent')
  /\ rst_n' \in Bit
  /\ sio_in' \in SioValues

-------------------------------------------------------------------------------
CeLow == ram_a_cs_n = 0 \/ ram_b_cs_n = 0
SioPads == IF sio_oe_reg = 1 THEN sio_out ELSE FLOAT

Observe ==
  /\ frame' = IF ~CeLow /\ CeLow' THEN <<>>
              ELSE IF sclk = 0 /\ sclk' = 1 THEN Append(frame, SioPads') ELSE frame
  /\ low' = IF CeLow' THEN low + 1 ELSE 0
  /\ high' = IF CeLow' THEN 0 ELSE IF high < 2 THEN high + 1 ELSE 2

Next == Posedge /\ Drive /\ Observe

\* The clock never stops; the consumer need not request anything.
Spec == Init /\ [][Next]_vars /\ WF_flops(Next)

-------------------------------------------------------------------------------
(***************************************************************************)
(* Properties.                                                             *)
(***************************************************************************)
\* The frame a request stands for: command, address, wait cycles, payload.
ExpectedFrame ==
  LET head == <<cmd \div 16, cmd % 16>> \o [k \in 1 .. 6 |-> AddrNibble(addr, k - 1)]
      body == IF cmd = QSPI_CMD_WRITE
              THEN [k \in 1 .. 2 * byte_len |-> PayloadNibble(k)]
              ELSE [k \in 1 .. 6 + 2 * byte_len |-> FLOAT]
  IN  head \o body

\* At every rising SCK the device that was requested, and it alone, sees the next
\* nibble of exactly the frame that was requested: command, address, floated wait
\* and read nibbles, write payload in order without a repeated or skipped nibble.
FramePrefix ==
  CeLow => /\ ram_a_cs_n = device_sel /\ ram_b_cs_n = 1 - device_sel
           /\ Len(frame) <= Len(ExpectedFrame)
           /\ \A k \in 1 .. Len(frame) : frame[k] = ExpectedFrame[k]

\* Unless a reset ends it, CE# only rises when the whole frame has been clocked,
\* on the device that was selected.
FrameComplete ==
  [][CeLow /\ ~CeLow' /\ rst_n = 1
       => Len(frame) = Len(ExpectedFrame) /\ sclk = 0]_vars

\* Both together: a device sees the frame that was requested, all of it, and nothing
\* else, back to back and across resets.
FrameExact == []FramePrefix /\ FrameComplete

\* tCSP / tCHD: CE# and SCK never change in the same clk, but for a reset.
CeAndSckApart ==
  [][CeLow # CeLow' /\ rst_n = 1 => sclk = 0 /\ sclk' = 0]_vars

\* A device samples SIO at the rising SCK: neither its level nor its direction
\* changes in that clk, so setup and hold are half an SCK period.
SioStableAtRise ==
  [][sclk = 0 /\ sclk' = 1
       => sio_out' = sio_out /\ sio_oe_reg' = sio_oe_reg]_vars

\* tCPH: CE# has been high for two clks or more whenever it falls.
CeHighGap == [][~CeLow /\ CeLow' => high = 2]_vars

\* The three rules of the device for the order of CE#, SCK and SIO.
PadTiming == CeAndSckApart /\ SioStableAtRise /\ CeHighGap

\* tCEM: CE# is low for at most one pad clk on each side of the clocked frame.
CeLowBound == low <= 2 * Len(ExpectedFrame) + 2

\* A device that is read drives SIO from the wait cycles on until CE# rises, and
\* lets go within tHZ: the ASIC floats SIO all that time and one clk longer.
ReadTurnaround ==
  /\ cmd = QSPI_CMD_FAST_READ
  /\ Len(frame) >= 8 + 6
  /\ CeLow \/ high = 1
  => sio_oe_reg = 0

\* The payload nibbles the consumer still has to receive or to give: a read nibble is
\* counted when SCK rises, a write nibble when it is launched, half a period earlier.
payload_left ==
  IF curr_state \in {"SCLK_OFF", "CS_OFF", "QSPI_IDLE"} THEN 0
  ELSE IF curr_state = "READ_DATA" THEN 2 * byte_len - cycle_cnt
  ELSE IF curr_state = "WRITE_DATA" THEN 2 * byte_len - cycle_cnt - (1 - sclk)
  ELSE 2 * byte_len

\* The engine implements its port contract: beats, pulses and busy.
Contract == INSTANCE QspiContract WITH left <- payload_left

ImplementsContract == Contract!Spec

\* Every accepted request ends: the engine never stalls.
BusyEnds == (busy = 1) ~> (busy = 0)
=============================================================================
