------------------------------- MODULE DmaChain -------------------------------
(***************************************************************************)
(* What a chain of descriptors means: the reference interpreter            *)
(* interpret_chain of src/test/reference/chain.py, which the verification  *)
(* and the firmware both use as the oracle.  It knows no clock, no bus     *)
(* request and no pin: every START walks the chain from PSRAM0 address 0   *)
(* and produces an ordered log of QPI transactions and their effect on the *)
(* two memories.  A reset may cut it anywhere, also between two bytes of a *)
(* write.                                                                  *)
(***************************************************************************)
EXTENDS QspiPkg, MemoryImage

CONSTANTS
  DMA_BUF_DEPTH,           \* N: the largest chunk
  Images                   \* the initial memories

VARIABLES
  phase,                   \* "idle", or the kind of the next transaction
  mem,                     \* [device -> image]
  at,                      \* the descriptor pointer [device, address]
  tcd,                     \* the descriptor last fetched
  moved,                   \* bytes of its payload already copied
  payload,                 \* the chunk last read
  offset,                  \* bytes of it already written
  txn                      \* the last transaction completed

vars == <<phase, mem, at, tcd, moved, payload, offset, txn>>

HEAD == [device |-> QSPI_PSRAM0, address |-> 0]
NO_TCD == [n \in 1 .. TCD_LEN |-> 0]
NO_TXN == [kind |-> "none"]

Transaction(kind, device, address, data) ==
  [kind |-> kind, device |-> device, address |-> address, data |-> data]

left == transfer_len(tcd) - moved
chunk == IF left > DMA_BUF_DEPTH THEN DMA_BUF_DEPTH ELSE left

src == WireAddr(src_ptr(tcd)) + moved
dest == WireAddr(dest_ptr(tcd)) + moved
Successor(t) == [device |-> next_tcd_device(t), address |-> WireAddr(next_tcd(t))]

Init ==
  /\ phase = "idle" /\ mem \in Images
  /\ at = HEAD /\ tcd = NO_TCD /\ moved = 0
  /\ payload = <<>> /\ offset = 0 /\ txn = NO_TXN

Start ==
  /\ phase = "idle" /\ phase' = "fetch"
  /\ UNCHANGED <<mem, at, tcd, moved, payload, offset, txn>>

Fetch ==
  /\ phase = "fetch"
  /\ LET raw == ReadSpan(mem, at.device, at.address, QPI_TCD_BYTES)
     IN  /\ tcd' = ToNibbles(raw)
         /\ txn' = Transaction("FETCH_READ", at.device, at.address, raw)
  /\ phase' = IF quit(tcd') = 1 THEN "idle"
              ELSE IF transfer_len(tcd') = 0 THEN "fetch" ELSE "read"
  /\ at' = CASE phase' = "idle" -> HEAD
             [] phase' = "fetch" -> Successor(tcd')
             [] phase' = "read" -> at
  /\ UNCHANGED <<mem, moved, payload, offset>>

Read ==
  /\ phase = "read" /\ phase' = "write"
  /\ payload' = ReadSpan(mem, src_device(tcd), src, chunk)
  /\ txn' = Transaction("DATA_READ", src_device(tcd), src, payload')
  /\ UNCHANGED <<mem, at, tcd, moved, offset>>

WriteByte ==
  /\ phase = "write" /\ offset < Len(payload)
  /\ mem' = Poke(mem, dest_device(tcd), dest + offset, payload[offset + 1])
  /\ offset' = offset + 1
  /\ UNCHANGED <<phase, at, tcd, moved, payload, txn>>

EndWrite ==
  /\ phase = "write" /\ offset = Len(payload)
  /\ offset' = 0
  /\ txn' = Transaction("DATA_WRITE", dest_device(tcd), dest, payload)
  /\ IF left > chunk
     THEN phase' = "read" /\ moved' = moved + chunk /\ UNCHANGED at
     ELSE phase' = "fetch" /\ moved' = 0 /\ at' = Successor(tcd)
  /\ UNCHANGED <<mem, tcd, payload>>

Reset ==                   \* a kill: what was committed stays committed
  /\ phase' = "idle" /\ at' = HEAD /\ moved' = 0 /\ offset' = 0
  /\ UNCHANGED <<mem, tcd, payload, txn>>

Next == Start \/ Fetch \/ Read \/ WriteByte \/ EndWrite \/ Reset

Spec == Init /\ [][Next]_vars
=============================================================================
