------------------------------ MODULE PsramDevice ------------------------------
(***************************************************************************)
(* One PSRAM device in QPI mode, as the agent of the test bench plays it   *)
(* (src/test/models/psram.py, class PsramQpiAgent): it frames on CE#,      *)
(* samples SIO on rising SCK, and while it is read launches a nibble on    *)
(* every falling SCK until CE# rises.                                      *)
(*                                                                         *)
(* The state of a device is a record:                                      *)
(*   phase   "IDLE", "CMD", "ADDR", "DUMMY", "DATA" or "IGNORE"            *)
(*   count   nibbles clocked in this phase                                 *)
(*   opcode, address, start: the pointer, and the address of the frame     *)
(*   half    the nibble a byte is in the middle of, or NONE                *)
(*   drive   the nibble it drives on SIO, or NONE                          *)
(*   bytes   the bytes read out or written in this frame                   *)
(***************************************************************************)
EXTENDS QspiPkg, MemoryImage

NONE == 16

Deselected ==
  [phase |-> "IDLE", count |-> 0, opcode |-> 0, address |-> 0, start |-> 0,
   half |-> NONE, drive |-> NONE, bytes |-> <<>>]

BeginTransaction == [Deselected EXCEPT !.phase = "CMD"]

\* The frame a CE# rise retires: an unread tail is dropped from the log.
Retired(p) ==
  [address |-> p.start, data |-> SubSeq(p.bytes, 1, p.count \div 2)]

PhaseAfterAddress(opcode) ==
  IF qspi_wait_cycles(opcode) > 0 THEN "DUMMY" ELSE "DATA"

Enter(p, phase) == [p EXCEPT !.phase = phase, !.count = 0]
Count(p) == [p EXCEPT !.count = @ + 1]

CmdNibble(p, nibble) ==
  LET q == [Count(p) EXCEPT !.opcode = (16 * @ + nibble) % 256]
  IN  IF q.count < 2 THEN q
      ELSE Enter(q, IF q.opcode \in qspi_cmd_t THEN "ADDR" ELSE "IGNORE")

AddrNibbleIn(p, nibble) ==
  LET q == [Count(p) EXCEPT !.address = (16 * @ + nibble) % QSPI_ADDR_SPACE]
  IN  IF q.count < 6 THEN q
      ELSE [Enter(q, PhaseAfterAddress(q.opcode)) EXCEPT
              !.address = WireAddr(@), !.start = WireAddr(q.address)]

DummyClock(p) ==
  IF p.count + 1 < qspi_wait_cycles(p.opcode) THEN Count(p) ELSE Enter(p, "DATA")

Sampling(p) == p.phase = "DATA" /\ p.opcode = QSPI_CMD_WRITE

\* A written byte is complete with its second nibble.
CommitsByte(p) == Sampling(p) /\ p.half # NONE

WriteNibble(p, nibble) ==
  IF p.half = NONE THEN [Count(p) EXCEPT !.half = nibble]
  ELSE [Count(p) EXCEPT !.half = NONE, !.address = @ + 1,
                        !.bytes = Append(@, 16 * p.half + nibble)]

OnSckRise(p, nibble) ==
  CASE p.phase = "CMD" -> CmdNibble(p, nibble)
    [] p.phase = "ADDR" -> AddrNibbleIn(p, nibble)
    [] p.phase = "DUMMY" -> DummyClock(p)
    [] Sampling(p) -> WriteNibble(p, nibble)
    [] p.phase = "DATA" /\ ~Sampling(p) -> Count(p)
    [] OTHER -> p

\* The byte at the pointer goes out upper nibble first; the pointer moves on
\* with the lower one.
OnSckFall(p, image) ==
  LET byte == IF p.address \in DOMAIN image THEN image[p.address] ELSE FILL
  IN  CASE p.phase # "DATA" \/ Sampling(p) -> [p EXCEPT !.drive = NONE]
        [] p.phase = "DATA" /\ ~Sampling(p) /\ p.half = NONE ->
             [p EXCEPT !.drive = byte \div 16, !.half = byte % 16,
                       !.bytes = Append(@, byte)]
        [] p.phase = "DATA" /\ ~Sampling(p) /\ p.half # NONE ->
             [p EXCEPT !.drive = p.half, !.half = NONE, !.address = @ + 1]
=============================================================================
