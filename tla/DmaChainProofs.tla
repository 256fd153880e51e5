----------------------------- MODULE DmaChainProofs -----------------------------
(***************************************************************************)
(* DmaCore implements DmaChain: for every buffer depth, every staged       *)
(* memory, every engine timing and every schedule of BUS_REQ, START and    *)
(* rst_n, the transactions and the bytes in memory are those of the chain  *)
(* interpreter.                                                            *)
(***************************************************************************)
EXTENDS DmaCoreProofs, SequenceTheorems

Byte == 0 .. 255

-------------------------------------------------------------------------------
(***************************************************************************)
(* The inductive invariant, on top of the one of DmaCoreProofs.            *)
(***************************************************************************)
Memory(m) ==
  /\ DOMAIN m = qspi_device_sel_t
  /\ \A d \in qspi_device_sel_t : \A a \in DOMAIN m[d] : m[d][a] \in Byte

\* The nibbles the device has sent or sampled so far, in order.
sent == 2 * Len(xfer) + IF half = NO_NIBBLE THEN 0 ELSE 1
StreamNibble(i) == IF i <= 2 * Len(xfer) THEN ToNibbles(xfer)[i] ELSE half

\* The byte of memory k bytes into the transfer.
CellByte(k) == ByteAt(mem, req.device_sel, WireAddr(req.addr) + k)

\* The device's side of the transaction: its nibbles are those the engine has counted,
\* a read nibble is the one on rdata, and what is read is what is stored.
StreamInv ==
  /\ Memory(mem) /\ xfer \in Seq(Byte)
  /\ qspi_busy = 0 => qspi_rdata_valid = 0 /\ qspi_wdata_next = 0
  /\ qspi_busy = 1 =>
       /\ sent + beats_left = 2 * req.byte_len
       /\ qspi_rdata_valid = 1 =>
            /\ req.cmd = QSPI_CMD_FAST_READ /\ sent > 0
            /\ qspi_rdata = StreamNibble(sent)
       /\ qspi_wdata_next = 1 =>
            req.cmd = QSPI_CMD_WRITE /\ sent > 0 /\ beats_left > 0
       /\ req.cmd = QSPI_CMD_FAST_READ =>
            /\ \A j \in 1 .. Len(xfer) : xfer[j] = CellByte(j - 1)
            /\ half # NO_NIBBLE => half = CellByte(Len(xfer)) \div 16

\* The nibbles the controller has shifted in: all but the one on rdata.
landed == sent - qspi_rdata_valid

\* The chunk last read is in the low nibbles of the buffer, but for the first k of them.
BufferHolds(k) ==
  \A j \in 1 .. 2 * chunk - k :
    data_buffer[BUF_LEN - 2 * chunk + j] = ToNibbles(held)[j + k]

\* The registers follow the stream.  The descriptor and the buffer take the nibbles of a
\* read;
TakingInv ==
  /\ curr_state = "FETCH" /\ qspi_busy = 1 =>
       \A i \in 1 .. landed : task_ctrl_desc[TCD_LEN - landed + i] = StreamNibble(i)
  /\ curr_state = "READ" /\ qspi_busy = 1 =>
       \A i \in 1 .. landed : data_buffer[BUF_LEN - landed + i] = StreamNibble(i)

\* the buffer holds the chunk from the end of its read on;
Holding ==
  \/ View!owner = "NEW_OP" /\ write_pending = 1
  \/ curr_state = "READ" /\ qspi_busy = 0

HoldingInv == Holding => Len(held) = chunk /\ BufferHolds(0)

\* and it gives the nibbles of a write, the first of which goes unasked.
GivingInv ==
  curr_state = "WRITE" /\ qspi_busy = 1 =>
    /\ Len(held) = chunk
    /\ BufferHolds(IF sent = 0 THEN 0 ELSE sent - 1)
    /\ \A j \in 1 .. Len(xfer) : xfer[j] = held[j]
    /\ half # NO_NIBBLE => half = held[Len(xfer) + 1] \div 16

RegisterInv ==
  /\ held \in Seq(Byte) /\ desc \in tcd_t
  /\ View!owner = "WRITE" => write_pending = 1
  /\ TakingInv /\ HoldingInv /\ GivingInv

\* A pointer k bytes further on (addr_increment, 24 bits).
Ahead(ptr, k) == (ptr + k) % QSPI_ADDR_SPACE

fresh == curr_state = "UPDATE" /\ stalled_state # "UPDATE"

\* The bytes of the payload that are behind the length register.
behind == transfer_len(desc) - remaining

\* The descriptor register is the descriptor of memory, with the length and the pointers
\* moved on as far as the chunk has come.
SameTarget(t, u) ==
  /\ next_tcd(t) = next_tcd(u) /\ next_tcd_device(t) = next_tcd_device(u)
  /\ src_device(t) = src_device(u) /\ dest_device(t) = dest_device(u)
  /\ quit(t) = quit(u)

TargetInv ==
  View!owner \in {"NEW_OP", "READ", "WRITE", "UPDATE"} /\ quit(task_ctrl_desc) = 0 =>
    /\ SameTarget(task_ctrl_desc, desc)
    /\ remaining <= transfer_len(desc)
    /\ remaining # 0 =>
         /\ src_ptr(task_ctrl_desc) =
              Ahead(src_ptr(desc),
                    behind + IF write_pending = 1 \/ fresh THEN DMA_BUF_DEPTH ELSE 0)
         /\ dest_ptr(task_ctrl_desc) =
              Ahead(dest_ptr(desc), behind + IF fresh THEN DMA_BUF_DEPTH ELSE 0)

DescriptorInv ==
  /\ View!owner = "SYS_CTRL_IDLE" =>
       next_tcd(task_ctrl_desc) = 0 /\ next_tcd_device(task_ctrl_desc) = 0
  /\ View!owner = "UPDATE" => quit(task_ctrl_desc) = 0
  /\ curr_state = "FETCH" /\ qspi_busy = 0 => task_ctrl_desc = desc
  /\ TargetInv

ChainInv == IInv /\ StreamInv /\ RegisterInv /\ DescriptorInv

-------------------------------------------------------------------------------
(***************************************************************************)
(* Bytes, nibbles and memories.                                            *)
(***************************************************************************)

\* A byte is its two nibbles.
LEMMA ByteNibbles ==
  /\ \A b \in Byte : /\ b \div 16 \in Nibble /\ b % 16 \in Nibble
                     /\ 16 * (b \div 16) + (b % 16) = b
  /\ \A h, l \in Nibble : /\ 16 * h + l \in Byte
                          /\ (16 * h + l) \div 16 = h /\ (16 * h + l) % 16 = l
  BY SMT DEF Byte, Nibble

\* A cell is a byte, whether it was ever written or not.
LEMMA CellType ==
  ASSUME NEW m, Memory(m), NEW d \in qspi_device_sel_t, NEW a
  PROVE  ByteAt(m, d, a) \in Byte
  BY DEF Memory, ByteAt, FILL, Byte

\* Storing a byte leaves a memory of bytes.
LEMMA PokeType ==
  ASSUME NEW m, Memory(m), NEW d \in qspi_device_sel_t, NEW a, NEW v \in Byte
  PROVE  Memory(Poke(m, d, a, v))
  <1> DEFINE image == [x \in DOMAIN m[d] \cup {a} |-> IF x = a THEN v ELSE m[d][x]]
  <1>1. \A x \in DOMAIN image : image[x] \in Byte
    BY DEF Memory
  <1> HIDE DEF image
  <1>2. Memory([m EXCEPT ![d] = image])
    BY <1>1 DEF Memory
  <1> QED BY <1>2, Zenon DEF Poke, image

\* The interpreter's memory is the device's.
LEMMA SameMemory ==
  /\ \A m, d, a : Chain!ByteAt(m, d, a) = ByteAt(m, d, a)
  /\ \A m, d, a, v : Chain!Poke(m, d, a, v) = Poke(m, d, a, v)
  BY DEF Chain!ByteAt, ByteAt, Chain!FILL, FILL, Chain!Poke, Poke, Chain!ADDR_MAX, ADDR_MAX

-------------------------------------------------------------------------------
(***************************************************************************)
(* The fields of a descriptor.                                             *)
(***************************************************************************)

\* A 24-bit address is a number below 2^24; a device has 2^23 cells.
LEMMA AddrNumbers ==
  /\ \A w \in qspi_addr_t : w \in Nat /\ w < 16777216
  /\ \A w \in Nat : w < 16777216 => w \in qspi_addr_t
  /\ QSPI_ADDR_SPACE \in Nat /\ QSPI_ADDR_SPACE <= 16777216 /\ QSPI_ADDR_SPACE >= 16777216
  /\ ADDR_MAX \in Nat /\ ADDR_MAX <= 8388607 /\ ADDR_MAX >= 8388607
  <1>1. QSPI_ADDR_SPACE \in Nat /\ QSPI_ADDR_SPACE <= 16777216 /\ QSPI_ADDR_SPACE >= 16777216
    BY SMT DEF QSPI_ADDR_SPACE
  <1>2. ADDR_MAX \in Nat /\ ADDR_MAX <= 8388607 /\ ADDR_MAX >= 8388607
    BY SMT DEF ADDR_MAX
  <1>3. \A w \in qspi_addr_t : w \in Nat /\ w < 16777216
    BY <1>1, SMT DEF qspi_addr_t
  <1>4. \A w \in Nat : w < 16777216 => w \in qspi_addr_t
    BY <1>1, SMT DEF qspi_addr_t
  <1> QED BY <1>1, <1>2, <1>3, <1>4, SMT

\* The nibbles of a 24-bit word, put together again, are the word.
LEMMA JoinNibbles ==
  ASSUME NEW w \in qspi_addr_t
  PROVE  Join(Join(Join(Join(Join(AddrNibble(w, 0), AddrNibble(w, 1)), AddrNibble(w, 2)),
                        AddrNibble(w, 3)), AddrNibble(w, 4)), AddrNibble(w, 5)) = w
  <1>1. w \in Nat /\ w < 16777216
    BY AddrNumbers
  <1> DEFINE q0 == w \div 1048576
             q1 == w \div 65536
             q2 == w \div 4096
             q3 == w \div 256
             q4 == w \div 16
  <1>2. /\ AddrNibble(w, 0) = q0 % 16 /\ AddrNibble(w, 1) = q1 % 16
        /\ AddrNibble(w, 2) = q2 % 16 /\ AddrNibble(w, 3) = q3 % 16
        /\ AddrNibble(w, 4) = q4 % 16 /\ AddrNibble(w, 5) = w % 16
    <2>1. AddrNibble(w, 5) = (w \div 1) % 16 /\ w \div 1 = w
      BY <1>1, SMT DEF AddrNibble, NIBBLE_WEIGHT
    <2> QED BY <2>1, SMT DEF AddrNibble, NIBBLE_WEIGHT
  <1>3. q0 % 16 = q0
    BY <1>1, SMT
  <1>4. 16 * q0 + (q1 % 16) = q1
    BY <1>1, SMT
  <1>5. 16 * q1 + (q2 % 16) = q2
    BY <1>1, SMT
  <1>6. 16 * q2 + (q3 % 16) = q3
    BY <1>1, SMT
  <1>7. 16 * q3 + (q4 % 16) = q4
    BY <1>1, SMT
  <1>8. 16 * q4 + (w % 16) = w
    BY <1>1, SMT
  <1> HIDE DEF q0, q1, q2, q3, q4
  <1>9. /\ Join(q0 % 16, q1 % 16) = q1 /\ Join(q1, q2 % 16) = q2 /\ Join(q2, q3 % 16) = q3
        /\ Join(q3, q4 % 16) = q4 /\ Join(q4, w % 16) = w
    BY <1>3, <1>4, <1>5, <1>6, <1>7, <1>8, Zenon DEF Join
  <1> QED BY <1>2, <1>9, Zenon

\* Writing a pointer field changes that field, and no other (WithWord24).
LEMMA PointerFields ==
  ASSUME NEW t \in tcd_t, NEW w \in qspi_addr_t
  PROVE  /\ src_ptr(WithWord24(t, 1, w)) = w
         /\ dest_ptr(WithWord24(t, 7, w)) = w
         /\ next_tcd(WithWord24(t, 15, w)) = w
         /\ dest_ptr(WithWord24(t, 1, w)) = dest_ptr(t)
         /\ src_ptr(WithWord24(t, 7, w)) = src_ptr(t)
         /\ \A i \in {1, 7} :
              /\ SameTarget(WithWord24(t, i, w), t)
              /\ transfer_len(WithWord24(t, i, w)) = transfer_len(t)
  <1> DEFINE u(i) == WithWord24(t, i, w)
  <1>1. \A i \in {1, 7, 15} : \A n \in 1 .. 22 :
          u(i)[n] = IF n \in i .. i + 5 THEN AddrNibble(w, n - i) ELSE t[n]
    BY SMT DEF WithWord24, TCD_LEN
  <1>2. \A i \in {1, 7, 15} : /\ u(i)[i] = AddrNibble(w, 0) /\ u(i)[i+1] = AddrNibble(w, 1)
                              /\ u(i)[i+2] = AddrNibble(w, 2) /\ u(i)[i+3] = AddrNibble(w, 3)
                              /\ u(i)[i+4] = AddrNibble(w, 4) /\ u(i)[i+5] = AddrNibble(w, 5)
    <2> HIDE DEF u
    <2>1. /\ u(1)[1] = AddrNibble(w, 1 - 1) /\ u(1)[1+1] = AddrNibble(w, 2 - 1)
          /\ u(1)[1+2] = AddrNibble(w, 3 - 1) /\ u(1)[1+3] = AddrNibble(w, 4 - 1)
          /\ u(1)[1+4] = AddrNibble(w, 5 - 1) /\ u(1)[1+5] = AddrNibble(w, 6 - 1)
      BY <1>1
    <2>2. /\ u(7)[7] = AddrNibble(w, 7 - 7) /\ u(7)[7+1] = AddrNibble(w, 8 - 7)
          /\ u(7)[7+2] = AddrNibble(w, 9 - 7) /\ u(7)[7+3] = AddrNibble(w, 10 - 7)
          /\ u(7)[7+4] = AddrNibble(w, 11 - 7) /\ u(7)[7+5] = AddrNibble(w, 12 - 7)
      BY <1>1
    <2>3. /\ u(15)[15] = AddrNibble(w, 15 - 15) /\ u(15)[15+1] = AddrNibble(w, 16 - 15)
          /\ u(15)[15+2] = AddrNibble(w, 17 - 15) /\ u(15)[15+3] = AddrNibble(w, 18 - 15)
          /\ u(15)[15+4] = AddrNibble(w, 19 - 15) /\ u(15)[15+5] = AddrNibble(w, 20 - 15)
      BY <1>1
    <2> QED BY <2>1, <2>2, <2>3
  <1>3. \A i \in {1, 7, 15} : Word24(u(i), i) = w
    <2> HIDE DEF u
    <2> QED BY <1>2, JoinNibbles, Zenon DEF Word24
  <1>4. /\ \A n \in 7 .. 22 : u(1)[n] = t[n]
        /\ \A n \in 1 .. 6 : u(7)[n] = t[n]
        /\ \A n \in 13 .. 22 : u(7)[n] = t[n]
    <2> HIDE DEF u
    <2> QED BY <1>1
  <1> HIDE DEF u
  <1>5. dest_ptr(u(1)) = dest_ptr(t) /\ src_ptr(u(7)) = src_ptr(t)
    <2>1. /\ u(1)[7] = t[7] /\ u(1)[7+1] = t[7+1] /\ u(1)[7+2] = t[7+2]
          /\ u(1)[7+3] = t[7+3] /\ u(1)[7+4] = t[7+4] /\ u(1)[7+5] = t[7+5]
      BY <1>4
    <2>2. /\ u(7)[1] = t[1] /\ u(7)[1+1] = t[1+1] /\ u(7)[1+2] = t[1+2]
          /\ u(7)[1+3] = t[1+3] /\ u(7)[1+4] = t[1+4] /\ u(7)[1+5] = t[1+5]
      BY <1>4
    <2> QED BY <2>1, <2>2, Zenon DEF dest_ptr, src_ptr, Word24
  <1>6. \A i \in {1, 7} : next_tcd(u(i)) = next_tcd(t)
    <2>1. \A i \in {1, 7} : /\ u(i)[15] = t[15] /\ u(i)[15+1] = t[15+1]
                            /\ u(i)[15+2] = t[15+2] /\ u(i)[15+3] = t[15+3]
                            /\ u(i)[15+4] = t[15+4] /\ u(i)[15+5] = t[15+5]
      BY <1>4
    <2> QED BY <2>1, Zenon DEF next_tcd, Word24
  <1>7. \A i \in {1, 7} : u(i)[13] = t[13] /\ u(i)[14] = t[14] /\ u(i)[21] = t[21]
    BY <1>4
  <1>8. \A i \in {1, 7} :
          SameTarget(u(i), t) /\ transfer_len(u(i)) = transfer_len(t)
    BY <1>6, <1>7, Zenon DEF SameTarget, next_tcd_device, src_device, dest_device, quit,
       transfer_len
  <1>9. src_ptr(u(1)) = w /\ dest_ptr(u(7)) = w /\ next_tcd(u(15)) = w
    BY <1>3 DEF src_ptr, dest_ptr, next_tcd
  <1> QED BY <1>5, <1>8, <1>9 DEF u

\* Writing the length changes nothing else (UPDATE).
LEMMA LengthField ==
  ASSUME NEW t \in tcd_t, NEW n \in 0 .. 255
  PROVE  /\ transfer_len(WithLength(t, n)) = n
         /\ src_ptr(WithLength(t, n)) = src_ptr(t)
         /\ dest_ptr(WithLength(t, n)) = dest_ptr(t)
         /\ SameTarget(WithLength(t, n), t)
  <1> DEFINE u == WithLength(t, n)
  <1>1. /\ u[13] = n \div 16 /\ u[14] = n % 16
        /\ \A k \in 1 .. 22 : k \notin {13, 14} => u[k] = t[k]
    BY DEF WithLength, tcd_t, TCD_LEN
  <1> HIDE DEF u
  <1>2. transfer_len(u) = n
    BY <1>1 DEF transfer_len, Join
  <1>3. /\ u[1] = t[1] /\ u[1+1] = t[1+1] /\ u[1+2] = t[1+2]
        /\ u[1+3] = t[1+3] /\ u[1+4] = t[1+4] /\ u[1+5] = t[1+5]
    BY <1>1
  <1>4. /\ u[7] = t[7] /\ u[7+1] = t[7+1] /\ u[7+2] = t[7+2]
        /\ u[7+3] = t[7+3] /\ u[7+4] = t[7+4] /\ u[7+5] = t[7+5]
    BY <1>1
  <1>5. /\ u[15] = t[15] /\ u[15+1] = t[15+1] /\ u[15+2] = t[15+2]
        /\ u[15+3] = t[15+3] /\ u[15+4] = t[15+4] /\ u[15+5] = t[15+5]
    BY <1>1
  <1>6. u[21] = t[21]
    BY <1>1
  <1>7. src_ptr(u) = src_ptr(t)
    BY <1>3, Zenon DEF src_ptr, Word24
  <1>8. dest_ptr(u) = dest_ptr(t)
    BY <1>4, Zenon DEF dest_ptr, Word24
  <1>9. SameTarget(u, t)
    BY <1>5, <1>6, Zenon DEF SameTarget, next_tcd, Word24, next_tcd_device, src_device,
       dest_device, quit
  <1> QED BY <1>2, <1>7, <1>8, <1>9 DEF u

\* After a QUIT the next fetch is the head of a chain: address 0 of PSRAM0 (NEW_OP).
LEMMA QuitFields ==
  ASSUME NEW t \in tcd_t
  PROVE  LET u == [WithWord24(t, 15, 0) EXCEPT ![21] = t[21] % 8]
         IN  next_tcd(u) = 0 /\ next_tcd_device(u) = 0 /\ quit(u) = quit(t)
  <1> DEFINE v == WithWord24(t, 15, 0)
             u == [v EXCEPT ![21] = t[21] % 8]
  <1>1. 0 \in qspi_addr_t
    BY AddrNumbers, SMT
  <1>2. next_tcd(v) = 0 /\ v \in tcd_t
    BY <1>1, PointerFields, WithWord24Type
  <1> HIDE DEF v
  <1>3. u[21] = t[21] % 8 /\ \A k \in 15 .. 20 : u[k] = v[k]
    BY <1>2 DEF tcd_t, TCD_LEN
  <1> HIDE DEF u
  <1>4. /\ u[15] = v[15] /\ u[15+1] = v[15+1] /\ u[15+2] = v[15+2]
        /\ u[15+3] = v[15+3] /\ u[15+4] = v[15+4] /\ u[15+5] = v[15+5]
    BY <1>3
  <1>5. next_tcd(u) = 0
    BY <1>2, <1>4, Zenon DEF next_tcd, Word24
  <1>6. t[21] \in 0 .. 15
    BY DEF tcd_t, TCD_LEN, Nibble
  <1>7. next_tcd_device(u) = 0 /\ quit(u) = quit(t)
    BY <1>3, <1>6 DEF next_tcd_device, quit
  <1> QED BY <1>5, <1>7 DEF u, v

\* The descriptor of reset.
LEMMA ResetFields ==
  ASSUME NEW t, t = [n \in 1 .. TCD_LEN |-> 0]
  PROVE  next_tcd(t) = 0 /\ next_tcd_device(t) = 0
  <1>1. \A n \in 1 .. 22 : t[n] = 0
    BY DEF TCD_LEN
  <1>2. t[15] = 0 /\ t[15+1] = 0 /\ t[15+2] = 0 /\ t[15+3] = 0 /\ t[15+4] = 0 /\ t[15+5] = 0
    BY <1>1
  <1>3. Join(0, 0) = 0
    BY DEF Join
  <1>4. next_tcd(t) = 0
    BY <1>2, <1>3, Zenon DEF next_tcd, Word24
  <1> QED BY <1>1, <1>4 DEF next_tcd_device

\* A pointer that was moved on is where the interpreter is, as long as the span stays
\* inside the device: bit 23 is ignored, and the increment wraps at 24 bits.
LEMMA WireAhead ==
  ASSUME NEW ptr \in qspi_addr_t, NEW k \in Nat, WireAddr(ptr) + k <= ADDR_MAX
  PROVE  WireAddr(Ahead(ptr, k)) = WireAddr(ptr) + k
  <1>1. ptr \in Nat /\ ptr < 16777216
    BY AddrNumbers
  <1>2. \A a \in Nat : a % (ADDR_MAX + 1) = a % 8388608
    BY SMT DEF ADDR_MAX
  <1>3. \A a \in Nat : a % QSPI_ADDR_SPACE = a % 16777216
    BY SMT DEF QSPI_ADDR_SPACE
  <1>4. WireAddr(ptr) = ptr % 8388608
    BY <1>1, <1>2 DEF WireAddr
  <1>5. Ahead(ptr, k) = (ptr + k) % 16777216
    BY <1>1, <1>3 DEF Ahead
  <1>6. (ptr % 8388608) + k < 8388608
    BY <1>4, AddrNumbers, <1>1, SMT
  <1>7. ((ptr + k) % 16777216) % 8388608 = (ptr % 8388608) + k
    BY <1>1, <1>6, SMT
  <1>8. Ahead(ptr, k) \in Nat
    BY <1>1, <1>5, SMT
  <1> QED BY <1>2, <1>4, <1>5, <1>7, <1>8 DEF WireAddr

\* A further chunk (addr_increment).
LEMMA AdvanceAhead ==
  ASSUME NEW ptr \in qspi_addr_t, NEW k \in Nat
  PROVE  /\ Advance(Ahead(ptr, k)) = Ahead(ptr, k + DMA_BUF_DEPTH)
         /\ Advance(Ahead(ptr, k)) \in qspi_addr_t
         /\ Ahead(ptr, 0) = ptr
  <1>1. ptr \in Nat /\ ptr < 16777216 /\ DMA_BUF_DEPTH \in 1 .. 8
    BY AddrNumbers, DepthAssumption DEF DMA_BUF_DEPTH_MAX
  <1>2. \A a \in Nat : a % QSPI_ADDR_SPACE = a % 16777216
    BY SMT DEF QSPI_ADDR_SPACE
  <1>3. Ahead(ptr, k) = (ptr + k) % 16777216 /\ Ahead(ptr, 0) = (ptr + 0) % 16777216
        /\ Ahead(ptr, k + DMA_BUF_DEPTH) = (ptr + (k + DMA_BUF_DEPTH)) % 16777216
    BY <1>1, <1>2 DEF Ahead
  <1>4. Ahead(ptr, k) \in Nat
    BY <1>1, <1>3, SMT
  <1>5. Advance(Ahead(ptr, k)) = (Ahead(ptr, k) + DMA_BUF_DEPTH) % 16777216
    BY <1>1, <1>2, <1>4 DEF Advance
  <1>6. (((ptr + k) % 16777216) + DMA_BUF_DEPTH) % 16777216
          = (ptr + (k + DMA_BUF_DEPTH)) % 16777216
    BY <1>1, SMT
  <1>7. (ptr + 0) % 16777216 = ptr
    BY <1>1, SMT
  <1>8. Advance(Ahead(ptr, k)) \in Nat /\ Advance(Ahead(ptr, k)) < 16777216
    BY <1>1, <1>4, <1>5, SMT
  <1>9. Advance(Ahead(ptr, k)) \in qspi_addr_t
    BY <1>8, AddrNumbers
  <1> QED BY <1>3, <1>5, <1>6, <1>7, <1>9

-------------------------------------------------------------------------------
(***************************************************************************)
(* The stream of nibbles.                                                  *)
(***************************************************************************)

\* The nibbles of a byte string, byte by byte.
LEMMA NibblesOf ==
  ASSUME NEW s \in Seq(Byte)
  PROVE  /\ Len(s) \in Nat
         /\ ToNibbles(s) \in [1 .. 2 * Len(s) -> Nibble]
         /\ \A j \in 1 .. Len(s) : /\ s[j] \in Byte
                                   /\ ToNibbles(s)[2 * j - 1] = s[j] \div 16
                                   /\ ToNibbles(s)[2 * j] = s[j] % 16
  <1>1. Len(s) \in Nat /\ \A j \in 1 .. Len(s) : s[j] \in Byte
    BY LenProperties, ElementOfSeq
  <1> DEFINE L == Len(s)
  <1> HIDE DEF L
  <1>2. L \in Nat
    BY <1>1 DEF L
  <1>3. \A i \in 1 .. 2 * L : i % 2 = 1 => (i + 1) \div 2 \in 1 .. L
    BY <1>2, SMT
  <1>4. \A i \in 1 .. 2 * L : i % 2 # 1 => i \div 2 \in 1 .. L
    BY <1>2, SMT
  <1>5. \A i \in 1 .. 2 * L :
          (IF i % 2 = 1 THEN s[(i + 1) \div 2] \div 16 ELSE s[i \div 2] % 16) \in Nibble
    BY <1>1, <1>3, <1>4, ByteNibbles DEF L
  <1>6. ToNibbles(s) \in [1 .. 2 * Len(s) -> Nibble]
    BY <1>5 DEF ToNibbles, L
  <1>7. \A j \in 1 .. L : /\ 2 * j - 1 \in 1 .. 2 * L /\ (2 * j - 1) % 2 = 1
                          /\ ((2 * j - 1) + 1) \div 2 = j
                          /\ 2 * j \in 1 .. 2 * L /\ (2 * j) % 2 # 1 /\ (2 * j) \div 2 = j
    BY <1>2, SMT
  <1>8. \A j \in 1 .. L : /\ ToNibbles(s)[2 * j - 1] = s[j] \div 16
                          /\ ToNibbles(s)[2 * j] = s[j] % 16
    BY <1>7, Zenon DEF ToNibbles, L
  <1> QED BY <1>1, <1>6, <1>8 DEF L

\* A number up to 2n is one of a pair.
LEMMA Pairs ==
  ASSUME NEW n \in Nat, NEW i \in 1 .. 2 * n
  PROVE  \E j \in 1 .. n : i = 2 * j - 1 \/ i = 2 * j
  <1>1. CASE i % 2 = 1
    <2>1. (i + 1) \div 2 \in 1 .. n /\ i = 2 * ((i + 1) \div 2) - 1
      BY <1>1, SMT
    <2> QED BY <2>1
  <1>2. CASE i % 2 # 1
    <2>1. i \div 2 \in 1 .. n /\ i = 2 * (i \div 2)
      BY <1>2, SMT
    <2> QED BY <2>1
  <1> QED BY <1>1, <1>2

\* Strings with the same first n bytes have the same first 2n nibbles.
LEMMA NibblePrefix ==
  ASSUME NEW s \in Seq(Byte), NEW u \in Seq(Byte), NEW n \in Nat,
         n <= Len(s), n <= Len(u), \A j \in 1 .. n : s[j] = u[j]
  PROVE  \A i \in 1 .. 2 * n : ToNibbles(s)[i] = ToNibbles(u)[i]
  <1> SUFFICES ASSUME NEW i \in 1 .. 2 * n PROVE ToNibbles(s)[i] = ToNibbles(u)[i]
    OBVIOUS
  <1>1. PICK j \in 1 .. n : i = 2 * j - 1 \/ i = 2 * j
    BY Pairs
  <1>2. j \in 1 .. Len(s) /\ j \in 1 .. Len(u) /\ s[j] = u[j]
    BY NibblesOf
  <1> QED BY <1>1, <1>2, NibblesOf

\* A nibble more: the stream so far stays, and ends in it.
LEMMA TransferStream ==
  ASSUME xfer \in Seq(Byte), half \in 0 .. 16, NEW n \in Nibble, Transfer(n)
  PROVE  /\ xfer' \in Seq(Byte)
         /\ sent \in Nat /\ sent' = sent + 1
         /\ \A i \in 1 .. sent : StreamNibble(i)' = StreamNibble(i)
         /\ \A i : i = sent + 1 => StreamNibble(i)' = n
         /\ \A j \in 1 .. Len(xfer) : xfer'[j] = xfer[j]
         /\ half = NO_NIBBLE => half' = n /\ xfer' = xfer
         /\ half # NO_NIBBLE => /\ half' = NO_NIBBLE /\ Len(xfer') = Len(xfer) + 1
                                /\ xfer'[Len(xfer) + 1] = 16 * half + n
  <1> DEFINE L == Len(xfer)
  <1>1. L \in Nat /\ n \in 0 .. 15
    BY NibblesOf DEF Nibble
  <1>2. CASE half = NO_NIBBLE
    <2>1. half' = n /\ xfer' = xfer /\ half' # NO_NIBBLE
      BY <1>1, <1>2 DEF Transfer, NO_NIBBLE
    <2>2. sent = 2 * L /\ sent' = 2 * L + 1
      BY <1>1, <1>2, <2>1 DEF sent
    <2> HIDE DEF L
    <2>3. \A i \in 1 .. sent : StreamNibble(i)' = StreamNibble(i)
      BY <1>1, <2>1, <2>2 DEF StreamNibble, L
    <2>4. \A i : i = sent + 1 => StreamNibble(i)' = n
      BY <1>1, <2>1, <2>2 DEF StreamNibble, L
    <2> QED BY <1>1, <1>2, <2>1, <2>2, <2>3, <2>4
  <1>3. CASE half # NO_NIBBLE
    <2>1. half \in Nibble /\ half' = NO_NIBBLE /\ xfer' = Append(xfer, 16 * half + n)
      BY <1>3 DEF Transfer, NO_NIBBLE, Nibble
    <2>2. 16 * half + n \in Byte
      BY <2>1, ByteNibbles
    <2>3. /\ xfer' \in Seq(Byte) /\ Len(xfer') = L + 1 /\ xfer'[L + 1] = 16 * half + n
          /\ \A j \in 1 .. L : xfer'[j] = xfer[j]
      BY <2>1, <2>2, AppendProperties
    <2>4. sent = 2 * L + 1 /\ sent' = 2 * (L + 1)
      BY <1>1, <1>3, <2>1, <2>3 DEF sent
    <2>5. \A i \in 1 .. 2 * L : ToNibbles(xfer')[i] = ToNibbles(xfer)[i]
      BY <1>1, <2>3, NibblePrefix
    <2>6. ToNibbles(xfer')[2 * (L + 1) - 1] = half /\ ToNibbles(xfer')[2 * (L + 1)] = n
      <3>1. L + 1 \in 1 .. Len(xfer')
        BY <1>1, <2>3
      <3>2. /\ ToNibbles(xfer')[2 * (L + 1) - 1] = xfer'[L + 1] \div 16
            /\ ToNibbles(xfer')[2 * (L + 1)] = xfer'[L + 1] % 16
        BY <2>3, <3>1, NibblesOf
      <3> QED BY <2>1, <2>3, <3>2, ByteNibbles, Zenon
    <2>7. L + 1 = Len(xfer')
      BY <2>3
    <2> HIDE DEF L
    <2>8. \A i \in 1 .. 2 * L : StreamNibble(i)' = StreamNibble(i)
      BY <1>1, <2>5, <2>7 DEF StreamNibble, L
    <2>9. \A i : i = 2 * L + 1 => StreamNibble(i) = half
      BY <1>1 DEF StreamNibble, L
    <2>10. /\ \A i : i = 2 * L + 1 => StreamNibble(i)' = half
           /\ \A i : i = 2 * L + 2 => StreamNibble(i)' = n
      <3>1. /\ 2 * L + 1 = 2 * (L + 1) - 1 /\ 2 * L + 2 = 2 * (L + 1)
            /\ 2 * L + 1 <= 2 * Len(xfer') /\ 2 * L + 2 <= 2 * Len(xfer')
        BY <1>1, <2>7
      <3> QED BY <2>6, <3>1, Zenon DEF StreamNibble
    <2>11. \A i \in 1 .. sent : i \in 1 .. 2 * L \/ i = 2 * L + 1
      BY <1>1, <2>4
    <2>12. sent + 1 = 2 * L + 2
      BY <1>1, <2>4
    <2>13. sent \in Nat /\ sent' = sent + 1
      BY <1>1, <2>4
    <2>14. \A i \in 1 .. sent : StreamNibble(i)' = StreamNibble(i)
      BY <2>8, <2>9, <2>10, <2>11
    <2>15. \A i : i = sent + 1 => StreamNibble(i)' = n
      BY <2>10, <2>12
    <2> QED BY <1>3, <2>1, <2>3, <2>13, <2>14, <2>15 DEF L
  <1> QED BY <1>2, <1>3

-------------------------------------------------------------------------------
(***************************************************************************)
(* A clk of the engine and the device.                                     *)
(***************************************************************************)

\* What the controller asks for: a command, a device, and at most 15 bytes.
LEMMA RequestType ==
  ASSUME IInv
  PROVE  /\ qspi_cmd \in qspi_cmd_t /\ qspi_device_sel \in qspi_device_sel_t
         /\ qspi_byte_len \in 0 .. 15 /\ qspi_txn_valid \in {0, 1}
         /\ qspi_wdata(qspi_wdata_next) \in Nibble
         /\ QSPI_CMD_WRITE # QSPI_CMD_FAST_READ
         /\ qspi_busy \in {0, 1} /\ qspi_rdata_valid \in {0, 1} /\ qspi_wdata_next \in {0, 1}
         /\ beats_left \in 0 .. 30 /\ half \in 0 .. 16 /\ rst_n \in {0, 1}
         /\ qspi_busy = 1 =>
              /\ req.cmd = qspi_cmd /\ req.addr = qspi_addr
              /\ req.device_sel = qspi_device_sel /\ req.byte_len = qspi_byte_len
  <1>1. /\ src_device(task_ctrl_desc) \in qspi_device_sel_t
        /\ dest_device(task_ctrl_desc) \in qspi_device_sel_t
        /\ next_tcd_device(task_ctrl_desc) \in qspi_device_sel_t
        /\ active_fetch_device \in qspi_device_sel_t
        /\ curr_state \in sys_control_state_t
    BY FieldTypes DEF IInv, CoreTypeOK, TypeOK
  <1>2. qspi_device_sel \in qspi_device_sel_t
    BY <1>1 DEF qspi_device_sel, pending, sys_control_state_t, qspi_device_sel_t
  <1>3. /\ qspi_cmd \in qspi_cmd_t /\ qspi_txn_valid \in {0, 1}
        /\ QSPI_CMD_WRITE # QSPI_CMD_FAST_READ
    BY DEF qspi_cmd, qspi_cmd_t, qspi_txn_valid, QSPI_CMD_WRITE, QSPI_CMD_FAST_READ
  <1>4. qspi_byte_len \in 0 .. 15 /\ qspi_wdata(qspi_wdata_next) \in Nibble
    BY PortTypes DEF IInv
  <1>5. /\ qspi_busy \in {0, 1} /\ qspi_rdata_valid \in {0, 1} /\ qspi_wdata_next \in {0, 1}
        /\ beats_left \in 0 .. 30 /\ half \in 0 .. 16 /\ rst_n \in {0, 1}
    BY DEF IInv, CoreTypeOK, Engine!TypeOK, Engine!Bit, Bit, NO_NIBBLE
  <1>6. qspi_busy = 1 =>
          /\ req.cmd = qspi_cmd /\ req.addr = qspi_addr
          /\ req.device_sel = qspi_device_sel /\ req.byte_len = qspi_byte_len
    BY DEF IInv, RequestStable, Request
  <1> QED BY <1>2, <1>3, <1>4, <1>5, <1>6

\* The clks of the engine, as the device sees them.
Pause == (Engine!Wait \/ Engine!AskNibble) /\ UNCHANGED <<device, history>>

LEMMA EngineKinds ==
  ASSUME IInv, EngineStep, rst_n = 1
  PROVE  /\ qspi_busy = 0 /\ qspi_txn_valid = 0 => UNCHANGED <<engine, device, history>>
         /\ qspi_busy = 0 /\ qspi_txn_valid = 1 => AcceptTxn
         /\ qspi_busy = 1 => Pause \/ ReadBeat \/ WriteBeat \/ FinishTxn
  BY DEF EngineStep, AcceptTxn, ReadBeat, WriteBeat, FinishTxn, Quiet, Pause, Engine!Accept,
    Engine!ReadBeat, Engine!WriteBeat, Engine!Finish, Engine!Reset, Engine!Idle,
    Engine!Wait, Engine!AskNibble, Engine!vars, engine

\* A beat is one nibble more of the transfer.
LEMMA BeatStream ==
  ASSUME IInv, StreamInv, qspi_busy = 1, ReadBeat \/ WriteBeat
  PROVE  \E n \in Nibble :
           /\ Transfer(n)
           /\ ReadBeat => n = ReadNibble /\ qspi_rdata' = n
           /\ WriteBeat => n = qspi_wdata(qspi_wdata_next)
  <1>1. CASE ReadBeat
    <2>1. ReadNibble \in Nibble /\ Transfer(ReadNibble) /\ qspi_rdata' = ReadNibble
      BY <1>1 DEF ReadBeat, Engine!ReadBeat, Engine!Nibble, Nibble
    <2>2. ~WriteBeat
      BY <1>1, RequestType DEF ReadBeat, WriteBeat, Engine!ReadBeat, Engine!WriteBeat,
         Engine!QSPI_CMD_FAST_READ, Engine!QSPI_CMD_WRITE
    <2> QED BY <2>1, <2>2
  <1>2. CASE WriteBeat
    <2>1. ~ReadBeat
      BY <1>2, RequestType DEF ReadBeat, WriteBeat, Engine!ReadBeat, Engine!WriteBeat,
         Engine!QSPI_CMD_FAST_READ, Engine!QSPI_CMD_WRITE
    <2> QED BY <1>2, <2>1, RequestType DEF WriteBeat
  <1> QED BY <1>1, <1>2

\* The numbers of the engine's copy of the package.
LEMMA EngineCommands ==
  /\ Engine!QSPI_CMD_WRITE = QSPI_CMD_WRITE /\ Engine!QSPI_CMD_FAST_READ = QSPI_CMD_FAST_READ
  BY DEF Engine!QSPI_CMD_FAST_READ, Engine!QSPI_CMD_WRITE, QSPI_CMD_WRITE,
     QSPI_CMD_FAST_READ

\* A beat of a read takes the next nibble of the cells.
LEMMA ReadData ==
  ASSUME IInv, StreamInv, qspi_busy = 1, ReadBeat
  PROVE  /\ \A j \in 1 .. Len(xfer') : xfer'[j] = CellByte(j - 1)
         /\ half' # NO_NIBBLE => half' = CellByte(Len(xfer')) \div 16
         /\ mem' = mem /\ Memory(mem)
  <1>1. PICK n \in Nibble : Transfer(n) /\ n = ReadNibble
    BY BeatStream
  <1>2. /\ half \in 0 .. 16 /\ xfer \in Seq(Byte) /\ Len(xfer) \in Nat
        /\ req.cmd = QSPI_CMD_FAST_READ /\ req.cmd # QSPI_CMD_WRITE
        /\ req.device_sel \in qspi_device_sel_t /\ Memory(mem)
    BY RequestType, NibblesOf, EngineCommands DEF StreamInv, ReadBeat, Engine!ReadBeat
  <1>3. /\ \A j \in 1 .. Len(xfer) : xfer[j] = CellByte(j - 1)
        /\ half # NO_NIBBLE => half = CellByte(Len(xfer)) \div 16
    BY <1>2 DEF StreamInv
  <1>4. CellByte(Len(xfer)) \in Byte
    BY <1>2, CellType DEF CellByte
  <1>5. /\ half = NO_NIBBLE => n = CellByte(Len(xfer)) \div 16
        /\ half # NO_NIBBLE => n = CellByte(Len(xfer)) % 16
    BY <1>1 DEF ReadNibble, CellByte, transfer_addr
  <1>6. mem' = mem
    BY <1>1, <1>2 DEF Transfer
  <1>7. CASE half = NO_NIBBLE
    BY <1>1, <1>2, <1>3, <1>5, <1>6, <1>7, TransferStream
  <1>8. CASE half # NO_NIBBLE
    <2>1. /\ half' = NO_NIBBLE /\ Len(xfer') = Len(xfer) + 1
          /\ xfer'[Len(xfer) + 1] = 16 * half + n
          /\ \A j \in 1 .. Len(xfer) : xfer'[j] = xfer[j]
      BY <1>1, <1>2, <1>8, TransferStream
    <2>2. 16 * half + n = CellByte(Len(xfer))
      BY <1>3, <1>4, <1>5, <1>8, ByteNibbles
    <2> DEFINE L == Len(xfer)
    <2>3. L \in Nat /\ L + 1 - 1 = L
      BY <1>2
    <2>4. \A j \in 1 .. L + 1 : xfer'[j] = CellByte(j - 1)
      <3> SUFFICES ASSUME NEW j \in 1 .. L + 1 PROVE xfer'[j] = CellByte(j - 1)
        OBVIOUS
      <3>1. CASE j \in 1 .. L
        BY <3>1, <2>1, <1>3
      <3>2. CASE j = L + 1
        <4>1. j - 1 = Len(xfer)
          BY <3>2, <2>3
        <4> QED BY <3>2, <4>1, <2>1, <2>2
      <3> QED BY <2>3, <3>1, <3>2
    <2> QED BY <2>1, <2>4, <1>2, <1>6
  <1> QED BY <1>6, <1>7, <1>8, <1>2

\* A beat of a write stores a byte with its second nibble (WriteBeat, Transfer).
LEMMA WriteData ==
  ASSUME IInv, StreamInv, qspi_busy = 1, WriteBeat
  PROVE  Memory(mem')
  <1>1. PICK n \in Nibble : Transfer(n)
    BY BeatStream
  <1>2. /\ half \in 0 .. 16 /\ req.device_sel \in qspi_device_sel_t /\ Memory(mem)
    BY RequestType DEF StreamInv
  <1>3. CASE half = NO_NIBBLE
    BY <1>1, <1>2, <1>3 DEF Transfer
  <1>4. CASE half # NO_NIBBLE
    <2>1. half \in Nibble
      BY <1>2, <1>4 DEF NO_NIBBLE, Nibble
    <2>2. 16 * half + n \in Byte
      BY <2>1, ByteNibbles
    <2>3. Memory(Poke(mem, req.device_sel, transfer_addr, 16 * half + n))
      BY <1>2, <2>2, PokeType
    <2> QED BY <1>1, <1>2, <1>4, <2>3 DEF Transfer
  <1> QED BY <1>3, <1>4

\* StreamInv is kept at every posedge, whatever the controller does.
LEMMA StreamNext ==
  ASSUME IInv, StreamInv, Next
  PROVE  StreamInv'
  <1>1. EngineStep /\ RequestStable
    BY DEF Next, IInv
  <1>2. CASE rst_n = 0
    <2>1. Engine!Reset /\ UNCHANGED device
      BY <1>1, <1>2 DEF EngineStep, AcceptTxn, ReadBeat, WriteBeat, FinishTxn, Quiet,
         Engine!Accept, Engine!ReadBeat, Engine!WriteBeat, Engine!Finish, Engine!Idle,
         Engine!Wait, Engine!AskNibble
    <2> QED BY <2>1 DEF Engine!Reset, device, StreamInv
  <1>3. CASE rst_n = 1 /\ qspi_busy = 0
    <2>1. CASE UNCHANGED <<engine, device, history>>
      BY <1>3, <2>1 DEF engine, device, StreamInv
    <2>2. CASE AcceptTxn
      <3>1. /\ mem' = mem /\ xfer' = <<>> /\ half' = NO_NIBBLE /\ req' = Request
            /\ qspi_busy' = 1 /\ beats_left' = 2 * qspi_byte_len
            /\ qspi_rdata_valid' = qspi_rdata_valid /\ qspi_wdata_next' = qspi_wdata_next
        BY <2>2 DEF AcceptTxn, Engine!Accept
      <3>2. xfer' \in Seq(Byte) /\ Len(xfer') = 0
        BY <3>1, EmptySeq
      <3>3. sent' = 0 /\ req'.byte_len = qspi_byte_len
        BY <3>1, <3>2 DEF sent, Request
      <3>4. sent' + beats_left' = 2 * req'.byte_len
        BY <3>1, <3>3, RequestType
      <3>5. qspi_rdata_valid' = 0 /\ qspi_wdata_next' = 0
        BY <1>3, <3>1 DEF StreamInv
      <3> QED BY <3>1, <3>2, <3>4, <3>5 DEF StreamInv, NO_NIBBLE
    <2> QED BY <1>1, <1>3, <2>1, <2>2, EngineKinds, RequestType
  <1>4. CASE rst_n = 1 /\ qspi_busy = 1
    <2>0. /\ sent + beats_left = 2 * req.byte_len /\ req.byte_len \in 0 .. 15
          /\ beats_left \in 0 .. 30 /\ sent \in Nat
          /\ xfer \in Seq(Byte) /\ half \in 0 .. 16 /\ req.cmd = qspi_cmd
          /\ QSPI_CMD_WRITE # QSPI_CMD_FAST_READ
          /\ qspi_rdata_valid = 1 => req.cmd = QSPI_CMD_FAST_READ
          /\ qspi_wdata_next = 1 => req.cmd = QSPI_CMD_WRITE /\ beats_left > 0
      BY <1>4, RequestType, NibblesOf DEF StreamInv, sent
    <2>1. CASE Pause
      <3>1. UNCHANGED device /\ qspi_busy' = 1 /\ beats_left' = beats_left
            /\ qspi_rdata' = qspi_rdata
            /\ qspi_rdata_valid' \in {0, qspi_rdata_valid}
        BY <1>4, <2>1 DEF Pause, Engine!Wait, Engine!AskNibble
      <3>2. qspi_wdata_next' = 1 =>
              req.cmd = QSPI_CMD_WRITE /\ sent > 0 /\ beats_left > 0
        <4>1. CASE Engine!Wait
          BY <1>4, <4>1 DEF Engine!Wait, StreamInv
        <4>2. CASE Engine!AskNibble
          <5>1. qspi_cmd = QSPI_CMD_WRITE /\ beats_left > 0 /\ beats_left < 2 * qspi_byte_len
                /\ qspi_byte_len = req.byte_len
            BY <1>4, <4>2, EngineCommands, RequestType DEF Engine!AskNibble
          <5> QED BY <5>1, <2>0
        <4> QED BY <2>1, <4>1, <4>2 DEF Pause
      <3>3. sent' = sent /\ \A i : StreamNibble(i)' = StreamNibble(i)
        BY <3>1 DEF device, sent, StreamNibble
      <3>4. StreamNibble(sent)' = StreamNibble(sent)
        BY <3>1 DEF device, sent, StreamNibble
      <3>5. \A k : CellByte(k)' = CellByte(k)
        BY <3>1 DEF device, CellByte
      <3>6. CellByte(Len(xfer))' = CellByte(Len(xfer))
        BY <3>1 DEF device, CellByte
      <3> QED BY <1>4, <2>0, <3>1, <3>2, <3>3, <3>4, <3>5, <3>6 DEF StreamInv, device
    <2>2. CASE ReadBeat
      <3>1. /\ qspi_busy' = 1 /\ beats_left' = beats_left - 1 /\ req' = req
            /\ qspi_wdata_next' = qspi_wdata_next /\ req.cmd = QSPI_CMD_FAST_READ
        BY <1>4, <2>2, <2>0, EngineCommands DEF ReadBeat, Engine!ReadBeat
      <3>2. PICK n \in Nibble : Transfer(n) /\ qspi_rdata' = n
        BY <1>4, <2>2, BeatStream
      <3>3. /\ xfer' \in Seq(Byte) /\ sent' = sent + 1
            /\ \A i : i = sent + 1 => StreamNibble(i)' = n
        BY <3>2, <2>0, TransferStream
      <3>4. sent' + beats_left' = 2 * req.byte_len /\ sent' > 0
        BY <2>0, <3>1, <3>3
      <3>5. qspi_rdata' = StreamNibble(sent)'
        BY <3>2, <3>3 DEF StreamNibble
      <3>6. /\ \A j \in 1 .. Len(xfer') : xfer'[j] = CellByte(j - 1)
            /\ half' # NO_NIBBLE => half' = CellByte(Len(xfer')) \div 16
            /\ mem' = mem /\ Memory(mem)
        BY <1>4, <2>2, ReadData
      <3>7. \A k : CellByte(k)' = CellByte(k)
        BY <3>1, <3>6 DEF CellByte
      <3>8. CellByte(Len(xfer))' = CellByte(Len(xfer'))
        BY <3>1, <3>6 DEF CellByte
      <3>9. qspi_wdata_next' # 1
        BY <2>0, <3>1
      <3> QED BY <3>1, <3>3, <3>4, <3>5, <3>6, <3>7, <3>8, <3>9 DEF StreamInv
    <2>3. CASE WriteBeat
      <3>1. /\ qspi_busy' = 1 /\ beats_left' = beats_left - 1 /\ req' = req
            /\ qspi_rdata_valid' = qspi_rdata_valid /\ qspi_wdata_next' = 0
            /\ req.cmd = QSPI_CMD_WRITE
        BY <1>4, <2>3, <2>0, EngineCommands DEF WriteBeat, Engine!WriteBeat
      <3>2. PICK n \in Nibble : Transfer(n)
        BY <1>4, <2>3, BeatStream
      <3>3. xfer' \in Seq(Byte) /\ sent' = sent + 1
        BY <3>2, <2>0, TransferStream
      <3>4. sent' + beats_left' = 2 * req.byte_len
        BY <2>0, <3>1, <3>3
      <3>5. Memory(mem')
        BY <1>4, <2>3, WriteData
      <3> QED BY <2>0, <3>1, <3>3, <3>4, <3>5 DEF StreamInv
    <2>4. CASE FinishTxn
      BY <1>4, <2>4, <2>0, RequestType DEF FinishTxn, Engine!Finish, device, StreamInv
    <2> QED BY <1>1, <1>4, <2>1, <2>2, <2>3, <2>4, EngineKinds
  <1> QED BY <1>2, <1>3, <1>4, RequestType

-------------------------------------------------------------------------------
(***************************************************************************)
(* A clk of the controller, state by state.                                *)
(***************************************************************************)

\* The action of each state, and what goes on at the engine meanwhile.
LEMMA StateActions ==
  ASSUME IInv, Next, rst_n = 1
  PROVE  /\ Control /\ Posedge(qspi_wdata_next) /\ EngineStep
         /\ curr_state \in {"SYS_CTRL_IDLE", "STALL"} => IdleOrStall
         /\ curr_state = "NEW_FETCH" => NewFetch
         /\ curr_state = "FETCH" => Fetch
         /\ curr_state = "NEW_OP" => NewOp
         /\ curr_state = "READ" => Read
         /\ curr_state = "WRITE" => Write(qspi_wdata_next)
         /\ curr_state = "UPDATE" => Update
         /\ curr_state \in sys_control_state_t
         /\ qspi_busy = 0 /\ next_state \notin TxnStates
              => UNCHANGED <<engine, device, history>>
         /\ qspi_busy = 0 /\ curr_state \in TxnStates
              => UNCHANGED <<engine, device, history>>
         /\ qspi_busy = 0 /\ curr_state \notin TxnStates /\ next_state \in TxnStates
              => AcceptTxn
         /\ qspi_busy = 1 => /\ curr_state \in TxnStates /\ next_state = curr_state
                             /\ Pause \/ ReadBeat \/ WriteBeat \/ FinishTxn
  <1>1. Control /\ Posedge(qspi_wdata_next) /\ EngineStep
    BY ControlStep DEF Next
  <1>2. curr_state \in sys_control_state_t /\ stalled_state \in StallOrigins
    BY DEF IInv, CoreTypeOK, TypeOK, ControlInv
  <1>3. /\ curr_state \in {"SYS_CTRL_IDLE", "STALL"} => IdleOrStall
        /\ curr_state = "NEW_FETCH" => NewFetch
        /\ curr_state = "FETCH" => Fetch
        /\ curr_state = "NEW_OP" => NewOp
        /\ curr_state = "READ" => Read
        /\ curr_state = "WRITE" => Write(qspi_wdata_next)
        /\ curr_state = "UPDATE" => Update
    BY <1>1 DEF Posedge, Reset, IdleOrStall, NewFetch, Fetch, NewOp, Read, Write, Update
  <1>4. next_state \notin TxnStates \/ curr_state \in TxnStates => qspi_txn_valid = 0
    BY DEF qspi_txn_valid, TxnStates
  <1>5. curr_state \notin TxnStates /\ next_state \in TxnStates => qspi_txn_valid = 1
    BY <1>2 DEF qspi_txn_valid, TxnStates, next_state, yields, resume_next,
       sys_control_state_t, StallOrigins, after_update
  <1>6. qspi_busy = 1 => curr_state \in TxnStates /\ next_state = curr_state
    BY NextStates DEF IInv
  <1> QED BY <1>1, <1>2, <1>3, <1>4, <1>5, <1>6, EngineKinds

\* The commands of the three transactions.
LEMMA CommandOf ==
  ASSUME IInv, RegisterInv
  PROVE  /\ curr_state \in {"FETCH", "READ"} => /\ write_pending = 0
                                                /\ qspi_cmd = QSPI_CMD_FAST_READ
         /\ curr_state = "WRITE" => write_pending = 1 /\ qspi_cmd = QSPI_CMD_WRITE
  <1>1. write_pending \in {0, 1} /\ (write_pending = 1 => View!owner \in {"NEW_OP", "WRITE"})
    BY DEF IInv, CoreTypeOK, TypeOK, Bit, ControlInv
  <1>2. curr_state \in TxnStates => View!owner = curr_state
    BY DEF View!owner, TxnStates
  <1> QED BY <1>1, <1>2 DEF RegisterInv, qspi_cmd, TxnStates

\* What is over has moved all its bytes.
LEMMA Complete ==
  ASSUME IInv, StreamInv, qspi_busy = 1, FinishTxn
  PROVE  /\ Len(xfer) = qspi_byte_len /\ half = NO_NIBBLE /\ sent = 2 * qspi_byte_len
         /\ qspi_busy' = 0 /\ UNCHANGED device
  <1>1. beats_left = 0 /\ qspi_busy' = 0 /\ UNCHANGED device
    BY DEF FinishTxn, Engine!Finish
  <1>2. sent = 2 * qspi_byte_len /\ qspi_byte_len \in 0 .. 15 /\ Len(xfer) \in Nat
    <2>1. sent + beats_left = 2 * req.byte_len /\ xfer \in Seq(Byte)
      BY DEF StreamInv
    <2>2. Len(xfer) \in Nat
      BY <2>1, NibblesOf
    <2>3. sent \in Nat
      BY <2>2 DEF sent
    <2> QED BY <1>1, <2>1, <2>2, <2>3, RequestType
  <1>3. half = NO_NIBBLE /\ Len(xfer) = qspi_byte_len
    BY <1>2 DEF sent
  <1> QED BY <1>1, <1>2, <1>3

\* A register that takes a nibble at its end keeps those it has taken (ShiftIn).
LEMMA ShiftStream ==
  ASSUME NEW len \in Nat, NEW reg \in [1 .. len -> Nibble], NEW s \in Nat, s < len,
         NEW d, NEW f, \A i \in 1 .. s : reg[len - s + i] = f[i], f[s + 1] = d,
         NEW r, r = ShiftIn(reg, len, d)
  PROVE  \A i \in 1 .. s + 1 : r[len - (s + 1) + i] = f[i]
  <1> SUFFICES ASSUME NEW i \in 1 .. s + 1
               PROVE  r[len - (s + 1) + i] = f[i]
    OBVIOUS
  <1> DEFINE n == len - (s + 1) + i
  <1>1. n \in 1 .. len /\ (n = len <=> i = s + 1) /\ (i # s + 1 => n + 1 = len - s + i)
    OBVIOUS
  <1>2. ShiftIn(reg, len, d)[n] = IF n = len THEN d ELSE reg[n + 1]
    BY <1>1 DEF ShiftIn
  <1>3. i # s + 1 => i \in 1 .. s
    OBVIOUS
  <1> HIDE DEF n
  <1>4. r[n] = f[i]
    BY <1>1, <1>2, <1>3
  <1> QED BY <1>4 DEF n

\* At every posedge of a read the register takes the nibble on rdata, and has then all
\* that the device has sent.
LEMMA Landing ==
  ASSUME IInv, StreamInv, qspi_busy = 1,
         NEW len \in Nat, NEW reg \in [1 .. len -> Nibble], sent <= len,
         \A i \in 1 .. landed : reg[len - landed + i] = StreamNibble(i),
         NEW r, r = IF qspi_rdata_valid = 1 THEN ShiftIn(reg, len, qspi_rdata) ELSE reg
  PROVE  \A i \in 1 .. sent : r[len - sent + i] = StreamNibble(i)
  <1>1. sent \in Nat /\ qspi_rdata_valid \in {0, 1}
    BY RequestType, NibblesOf DEF StreamInv, sent
  <1>2. CASE qspi_rdata_valid = 0
    BY <1>1, <1>2 DEF landed
  <1>3. CASE qspi_rdata_valid = 1
    <2> DEFINE f == [i \in 1 .. sent |-> StreamNibble(i)]
               s == sent - 1
    <2>1. s \in Nat /\ s < len /\ s + 1 = sent /\ landed = s
      BY <1>1, <1>3 DEF StreamInv, landed
    <2>2. f[s + 1] = qspi_rdata
      BY <1>1, <1>3, <2>1 DEF StreamInv
    <2>3. \A i \in 1 .. s : reg[len - s + i] = f[i]
      BY <1>1, <2>1
    <2>4. \A i \in 1 .. sent : f[i] = StreamNibble(i)
      OBVIOUS
    <2> HIDE DEF f, s
    <2>5. \A i \in 1 .. s + 1 : r[len - (s + 1) + i] = f[i]
      <3>1. /\ len \in Nat /\ reg \in [1 .. len -> Nibble] /\ s \in Nat /\ s < len
            /\ \A i \in 1 .. s : reg[len - s + i] = f[i]
            /\ f[s + 1] = qspi_rdata /\ r = ShiftIn(reg, len, qspi_rdata)
        BY <1>3, <2>1, <2>2, <2>3
      <3> QED BY <3>1, ShiftStream
    <2> QED BY <1>3, <2>1, <2>4, <2>5
  <1> QED BY <1>1, <1>2, <1>3

\* A transaction that has just been accepted has moved nothing yet.
LEMMA Accepted ==
  ASSUME IInv, StreamInv, qspi_busy = 0, AcceptTxn
  PROVE  /\ sent' = 0 /\ landed' = 0 /\ xfer' = <<>> /\ Len(xfer') = 0 /\ half' = NO_NIBBLE
         /\ mem' = mem /\ UNCHANGED history /\ qspi_busy' = 1
  <1>1. /\ xfer' = <<>> /\ half' = NO_NIBBLE /\ qspi_rdata_valid' = 0 /\ qspi_busy' = 1
        /\ mem' = mem /\ UNCHANGED history
    BY DEF AcceptTxn, Engine!Accept, StreamInv
  <1>2. Len(xfer') = 0
    BY <1>1, EmptySeq
  <1>3. sent' = 0
    BY <1>1, <1>2 DEF sent
  <1> QED BY <1>1, <1>2, <1>3 DEF landed

\* A state without a transaction leaves the buffer alone, and a fetch begins with nothing.
LEMMA RegistersAround ==
  ASSUME IInv, StreamInv, RegisterInv, Next, rst_n = 1,
         curr_state \in {"SYS_CTRL_IDLE", "STALL", "NEW_FETCH", "UPDATE"}
  PROVE  RegisterInv'
  <1>1. Control /\ qspi_busy = 0
    BY StateActions, RequestType DEF TxnStates
  <1>2. /\ curr_state' = next_state
        /\ next_state \notin {"READ", "WRITE"}
        /\ next_state = "FETCH" => curr_state = "NEW_FETCH"
        /\ View!owner' \in {View!owner, next_state}
        /\ next_state = "STALL" => View!owner' = View!owner
    BY <1>1, NextStates, OwnerStep DEF Control, IInv, ControlInv, next_state, yields,
       resume_next, after_update, StallOrigins
  <1>3. \/ UNCHANGED <<engine, device, history>>
        \/ AcceptTxn /\ next_state = "FETCH"
    BY <1>1, <1>2, StateActions DEF TxnStates
  <1>4. held' = held /\ desc' = desc
    BY <1>3 DEF history, AcceptTxn
  <1>5. write_pending' = write_pending /\ data_buffer' = data_buffer
    BY StateActions DEF IdleOrStall, NewFetch, Update, datapath
  <1>6. View!owner' = "WRITE" => write_pending' = 1
    BY <1>2, <1>5 DEF RegisterInv
  <1>7. TakingInv'
    <2>1. CASE UNCHANGED <<engine, device, history>>
      BY <2>1, <1>1, <1>2 DEF engine, TakingInv
    <2>2. CASE AcceptTxn
      <3>1. landed' = 0
        BY <2>2, <1>1, Accepted
      <3> QED BY <3>1, <1>2 DEF TakingInv
    <2> QED BY <1>3, <2>1, <2>2
  <1>8. HoldingInv'
    <2> SUFFICES ASSUME View!owner' = "NEW_OP", write_pending' = 1
                 PROVE  Len(held') = chunk' /\ BufferHolds(0)'
      BY <1>2 DEF HoldingInv, Holding
    <2>1. curr_state = "STALL" /\ View!owner = "NEW_OP"
      <3>1. View!owner \in {"NEW_OP", "WRITE"}
        BY <1>5 DEF IInv, ControlInv
      <3>2. View!owner \in StallOrigins
        BY DEF View!owner, IInv, ControlInv, StallOrigins
      <3>3. View!owner = "NEW_OP"
        BY <3>1, <3>2 DEF StallOrigins
      <3> QED BY <3>3 DEF View!owner
    <2>2. task_ctrl_desc' = task_ctrl_desc
      BY <2>1, StateActions DEF IdleOrStall, datapath
    <2>3. chunk' = chunk
      BY <2>2 DEF chunk, remaining
    <2>4. Len(held) = chunk /\ BufferHolds(0)
      BY <1>5, <2>1 DEF RegisterInv, HoldingInv, Holding
    <2>5. BufferHolds(0)'
      BY <1>4, <1>5, <2>3, <2>4 DEF BufferHolds
    <2> QED BY <1>4, <2>3, <2>4, <2>5
  <1>9. GivingInv'
    BY <1>2 DEF GivingInv
  <1> QED BY <1>4, <1>6, <1>7, <1>8, <1>9 DEF RegisterInv

\* The end of a fetch: the descriptor register is the descriptor in memory.
LEMMA RegistersFetch ==
  ASSUME IInv, StreamInv, RegisterInv, Next, rst_n = 1, curr_state = "FETCH"
  PROVE  /\ RegisterInv'
         /\ qspi_busy = 1 /\ FinishTxn => task_ctrl_desc' = desc' /\ desc' = ToNibbles(xfer)
  <1>1. /\ Control /\ Fetch /\ EngineStep /\ View!owner = "FETCH"
        /\ write_pending' = 0 /\ data_buffer' = data_buffer
    BY StateActions, CommandOf DEF Fetch, View!owner
  <1>2. curr_state' = next_state /\ next_state \in {"FETCH", "NEW_OP"}
        /\ View!owner' = next_state
    BY <1>1, OwnerStep DEF Control, next_state, yields, resume_next
  <1>3. HoldingInv' /\ GivingInv' /\ (View!owner' = "WRITE" => write_pending' = 1)
    BY <1>1, <1>2 DEF HoldingInv, Holding, GivingInv
  <1>4. CASE qspi_busy = 0
    <2>1. UNCHANGED <<engine, device, history>>
      BY <1>4, StateActions DEF TxnStates
    <2>2. TakingInv'
      BY <1>4, <2>1 DEF engine, TakingInv
    <2> QED BY <1>3, <1>4, <2>1, <2>2 DEF history, RegisterInv
  <1>5. CASE qspi_busy = 1
    <2>1. next_state = "FETCH" /\ (Pause \/ ReadBeat \/ WriteBeat \/ FinishTxn)
      BY <1>5, StateActions
    <2>2. ~WriteBeat /\ ~Engine!AskNibble
      BY CommandOf, RequestType, EngineCommands DEF WriteBeat, Engine!WriteBeat,
         Engine!AskNibble
    <2>3. /\ sent + beats_left = 2 * qspi_byte_len /\ qspi_byte_len = 11
          /\ sent \in Nat /\ sent <= 22 /\ xfer \in Seq(Byte) /\ half \in 0 .. 16
      <3>1. sent + beats_left = 2 * req.byte_len /\ beats_left \in 0 .. 30
        BY <1>5, RequestType DEF StreamInv
      <3>2. qspi_byte_len = 11 /\ req.byte_len = 11
        BY <1>5, RequestType DEF qspi_byte_len, QPI_TCD_BYTES
      <3>3. xfer \in Seq(Byte) /\ sent \in Nat /\ half \in 0 .. 16
        BY RequestType, NibblesOf DEF StreamInv, sent
      <3> QED BY <3>1, <3>2, <3>3
    <2>4. /\ task_ctrl_desc \in [1 .. 22 -> Nibble]
          /\ task_ctrl_desc' \in [1 .. 22 -> Nibble]
      BY Inductive DEF IInv, CoreTypeOK, TypeOK, tcd_t, TCD_LEN
    <2>5. task_ctrl_desc' = IF qspi_rdata_valid = 1
                            THEN ShiftIn(task_ctrl_desc, 22, qspi_rdata) ELSE task_ctrl_desc
      BY <1>1, <2>1 DEF Fetch, TCD_LEN
    <2>6. \A i \in 1 .. landed : task_ctrl_desc[22 - landed + i] = StreamNibble(i)
      BY <1>5 DEF RegisterInv, TakingInv, TCD_LEN
    <2>7. \A i \in 1 .. sent : task_ctrl_desc'[22 - sent + i] = StreamNibble(i)
      BY <1>5, <2>3, <2>4, <2>5, <2>6, Landing
    <2>8. CASE FinishTxn
      <3>1. Len(xfer) = 11 /\ sent = 22 /\ qspi_busy' = 0 /\ UNCHANGED device
        BY <1>5, <2>3, <2>8, Complete
      <3>2. desc' = ToNibbles(xfer) /\ held' = held
        BY <2>8 DEF FinishTxn
      <3>3. ToNibbles(xfer) \in [1 .. 22 -> Nibble]
        <4>1. 2 * Len(xfer) = 22
          BY <3>1
        <4> QED BY <2>3, <4>1, NibblesOf
      <3>4. \A i \in 1 .. 22 : StreamNibble(i) = ToNibbles(xfer)[i]
        BY <3>1 DEF StreamNibble
      <3>5. \A i \in 1 .. 22 : task_ctrl_desc'[i] = ToNibbles(xfer)[i]
        BY <2>7, <3>1, <3>4
      <3>6. task_ctrl_desc' = desc'
        BY <2>4, <3>2, <3>3, <3>5
      <3> QED BY <1>3, <3>1, <3>2, <3>3, <3>6 DEF RegisterInv, TakingInv, tcd_t, TCD_LEN
    <2>9. CASE ~FinishTxn
      <3>1. held' = held /\ desc' = desc
        BY <2>1, <2>9 DEF Pause, ReadBeat, WriteBeat, history
      <3>2. landed' = sent /\ \A i \in 1 .. sent : StreamNibble(i)' = StreamNibble(i)
        <4>1. CASE Pause
          <5>1. qspi_rdata_valid' = 0 /\ UNCHANGED device
            BY <4>1, <2>2 DEF Pause, Engine!Wait
          <5>2. sent' = sent /\ \A i : StreamNibble(i)' = StreamNibble(i)
            BY <5>1 DEF device, sent, StreamNibble
          <5> QED BY <2>3, <5>1, <5>2 DEF landed
        <4>2. CASE ReadBeat
          <5>1. qspi_rdata_valid' = 1
            BY <4>2 DEF ReadBeat, Engine!ReadBeat
          <5>2. PICK n \in Nibble : Transfer(n)
            BY <1>5, <4>2, BeatStream
          <5>3. sent' = sent + 1 /\ \A i \in 1 .. sent : StreamNibble(i)' = StreamNibble(i)
            BY <2>3, <5>2, TransferStream
          <5> QED BY <2>3, <5>1, <5>3 DEF landed
        <4> QED BY <2>1, <2>2, <2>9, <4>1, <4>2
      <3>3. \A i \in 1 .. landed' : task_ctrl_desc'[22 - landed' + i] = StreamNibble(i)'
        BY <2>7, <3>2
      <3>4. TakingInv'
        BY <1>2, <2>1, <3>3 DEF TakingInv, TCD_LEN
      <3> QED BY <1>3, <2>9, <3>1, <3>4 DEF RegisterInv
    <2> QED BY <2>8, <2>9
  <1> QED BY <1>4, <1>5, RequestType

\* A chunk is no longer than the buffer.
LEMMA ChunkType ==
  ASSUME IInv
  PROVE  /\ DMA_BUF_DEPTH \in 1 .. 8 /\ BUF_LEN = 2 * DMA_BUF_DEPTH
         /\ remaining \in 0 .. 255 /\ chunk \in 0 .. 8 /\ 2 * chunk <= BUF_LEN
         /\ data_buffer \in [1 .. BUF_LEN -> Nibble] /\ task_ctrl_desc \in tcd_t
         /\ curr_state \in {"READ", "WRITE"} => qspi_byte_len = chunk
  <1>1. DMA_BUF_DEPTH \in 1 .. 8 /\ BUF_LEN = 2 * DMA_BUF_DEPTH
    BY DepthAssumption DEF DMA_BUF_DEPTH_MAX, BUF_LEN
  <1>2. task_ctrl_desc \in tcd_t /\ data_buffer \in [1 .. BUF_LEN -> Nibble]
    BY DEF IInv, CoreTypeOK, TypeOK
  <1>3. remaining \in 0 .. 255
    BY <1>2, FieldTypes DEF remaining
  <1>4. chunk \in 0 .. 8 /\ 2 * chunk <= BUF_LEN
    BY <1>1, <1>3 DEF chunk
  <1>5. curr_state \in {"READ", "WRITE"} => qspi_byte_len = chunk
    BY DEF qspi_byte_len
  <1> QED BY <1>1, <1>2, <1>3, <1>4, <1>5

\* The dispatch of a chunk keeps what the read has left in the buffer for the write.
LEMMA RegistersNewOp ==
  ASSUME IInv, StreamInv, RegisterInv, Next, rst_n = 1, curr_state = "NEW_OP"
  PROVE  RegisterInv'
  <1>1. /\ Control /\ NewOp /\ qspi_busy = 0 /\ View!owner = "NEW_OP"
        /\ write_pending' = write_pending /\ data_buffer' = data_buffer
    BY StateActions, RequestType DEF TxnStates, NewOp, View!owner
  <1>2. /\ curr_state' = next_state /\ write_pending \in {0, 1}
        /\ next_state \in {"SYS_CTRL_IDLE", "NEW_FETCH", "READ", "WRITE", "STALL"}
        /\ next_state = "READ" => write_pending = 0
        /\ next_state = "WRITE" => write_pending = 1
        /\ next_state = "STALL" => View!owner' = "NEW_OP"
        /\ next_state # "STALL" => View!owner' = next_state
    BY <1>1, OwnerStep DEF Control, next_state, resume_next, after_fetch_or_read, IInv,
       CoreTypeOK, TypeOK, Bit
  <1>3. write_pending = 1 =>
          /\ task_ctrl_desc' = task_ctrl_desc /\ chunk' = chunk
          /\ Len(held) = chunk /\ BufferHolds(0)
    <2> SUFFICES ASSUME write_pending = 1
                 PROVE  /\ task_ctrl_desc' = task_ctrl_desc /\ chunk' = chunk
                        /\ Len(held) = chunk /\ BufferHolds(0)
      OBVIOUS
    <2>1. quit(task_ctrl_desc) = 0
      BY DEF IInv, ControlInv, Active
    <2>2. task_ctrl_desc' = task_ctrl_desc
      BY <1>1, <2>1 DEF NewOp
    <2>3. chunk' = chunk
      BY <2>2 DEF chunk, remaining
    <2> QED BY <1>1, <2>2, <2>3 DEF RegisterInv, HoldingInv, Holding
  <1>4. CASE AcceptTxn
    <2>1. /\ landed' = 0 /\ sent' = 0 /\ xfer' = <<>> /\ Len(xfer') = 0
          /\ half' = NO_NIBBLE /\ held' = held /\ desc' = desc /\ qspi_busy' = 1
      BY <1>1, <1>4, Accepted DEF history
    <2>2. next_state \in {"READ", "WRITE"}
      BY <1>1, <1>2, <1>4, NextStates DEF AcceptTxn, Engine!Accept, IInv, TxnStates
    <2>3. TakingInv'
      BY <2>1 DEF TakingInv
    <2>4. HoldingInv'
      BY <1>2, <2>1, <2>2 DEF HoldingInv, Holding
    <2>5. GivingInv'
      <3> SUFFICES ASSUME curr_state' = "WRITE"
                   PROVE  /\ Len(held') = chunk'
                          /\ BufferHolds(IF sent = 0 THEN 0 ELSE sent - 1)'
        BY <2>1 DEF GivingInv
      <3>1. chunk' = chunk /\ Len(held) = chunk /\ BufferHolds(0)
        BY <1>2, <1>3
      <3> QED BY <1>1, <2>1, <3>1 DEF BufferHolds
    <2> QED BY <1>1, <1>2, <2>1, <2>2, <2>3, <2>4, <2>5 DEF RegisterInv
  <1>5. CASE UNCHANGED <<engine, device, history>> /\ next_state \notin TxnStates
    <2>1. held' = held /\ desc' = desc /\ qspi_busy' = 0
      BY <1>1, <1>5 DEF engine, history
    <2>2. TakingInv' /\ GivingInv'
      BY <2>1 DEF TakingInv, GivingInv
    <2>3. HoldingInv'
      <3> SUFFICES ASSUME Holding' PROVE Len(held') = chunk' /\ BufferHolds(0)'
        BY DEF HoldingInv
      <3>1. write_pending = 1
        BY <1>1, <1>2, <1>5 DEF Holding, TxnStates
      <3>2. chunk' = chunk /\ Len(held) = chunk /\ BufferHolds(0)
        BY <1>3, <3>1
      <3> QED BY <1>1, <2>1, <3>2 DEF BufferHolds
    <2> QED BY <1>2, <1>5, <2>1, <2>2, <2>3 DEF RegisterInv, TxnStates
  <1> QED BY <1>1, <1>4, <1>5, StateActions DEF TxnStates

\* The end of a read: the chunk is in the low nibbles of the buffer.
LEMMA RegistersRead ==
  ASSUME IInv, StreamInv, RegisterInv, Next, rst_n = 1, curr_state = "READ"
  PROVE  RegisterInv'
  <1>1. Control /\ Read /\ EngineStep /\ View!owner = "READ" /\ write_pending = 0
    BY StateActions, CommandOf DEF View!owner
  <1>2. curr_state' = next_state /\ next_state \in {"READ", "NEW_OP"}
        /\ View!owner' = next_state
    BY <1>1, OwnerStep DEF Control, next_state, yields, resume_next
  <1>3. GivingInv' /\ (View!owner' = "WRITE" => write_pending' = 1)
    BY <1>2 DEF GivingInv
  <1>4. CASE qspi_busy = 0
    <2>1. UNCHANGED <<engine, device, history>> /\ next_state = "NEW_OP"
      BY <1>1, <1>4, StateActions DEF TxnStates, next_state, yields, resume_next
    <2>2. held' = held /\ desc' = desc /\ data_buffer' = data_buffer
      BY <1>1, <2>1 DEF history, Read
    <2>3. chunk' = chunk
      BY <1>1, <2>1, PointersOnly DEF Read, chunk, remaining
    <2>4. Len(held) = chunk /\ BufferHolds(0)
      BY <1>4 DEF RegisterInv, HoldingInv, Holding
    <2>5. HoldingInv'
      BY <2>2, <2>3, <2>4 DEF HoldingInv, BufferHolds
    <2>6. TakingInv'
      BY <1>2, <2>1 DEF TakingInv
    <2> QED BY <1>3, <2>2, <2>5, <2>6 DEF RegisterInv
  <1>5. CASE qspi_busy = 1
    <2>1. next_state = "READ" /\ (Pause \/ ReadBeat \/ WriteBeat \/ FinishTxn)
      BY <1>5, StateActions
    <2>2. ~WriteBeat /\ ~Engine!AskNibble
      BY CommandOf, RequestType, EngineCommands DEF WriteBeat, Engine!WriteBeat,
         Engine!AskNibble
    <2>3. /\ sent + beats_left = 2 * chunk /\ qspi_byte_len = chunk /\ chunk \in 0 .. 8
          /\ sent \in Nat /\ sent <= BUF_LEN /\ xfer \in Seq(Byte) /\ half \in 0 .. 16
          /\ BUF_LEN \in Nat
      <3>1. sent + beats_left = 2 * req.byte_len /\ beats_left \in 0 .. 30
        BY <1>5, RequestType DEF StreamInv
      <3>2. qspi_byte_len = chunk /\ req.byte_len = chunk
        BY <1>5, RequestType, ChunkType
      <3>3. xfer \in Seq(Byte) /\ sent \in Nat /\ half \in 0 .. 16
        BY RequestType, NibblesOf DEF StreamInv, sent
      <3>4. chunk \in 0 .. 8 /\ 2 * chunk <= BUF_LEN /\ BUF_LEN \in Nat
        BY ChunkType
      <3>5. sent + beats_left = 2 * chunk
        BY <3>1, <3>2
      <3>6. sent <= BUF_LEN
        BY <3>1, <3>3, <3>4, <3>5
      <3> QED BY <3>2, <3>3, <3>4, <3>5, <3>6
    <2>4. data_buffer \in [1 .. BUF_LEN -> Nibble] /\ task_ctrl_desc' = task_ctrl_desc
          /\ write_pending' = 0
      BY <1>1, <2>1, ChunkType DEF Read
    <2>5. data_buffer' = IF qspi_rdata_valid = 1
                         THEN ShiftIn(data_buffer, BUF_LEN, qspi_rdata) ELSE data_buffer
      BY <1>1, <2>1 DEF Read
    <2>6. \A i \in 1 .. landed : data_buffer[BUF_LEN - landed + i] = StreamNibble(i)
      BY <1>5 DEF RegisterInv, TakingInv
    <2>7. \A i \in 1 .. sent : data_buffer'[BUF_LEN - sent + i] = StreamNibble(i)
      BY <1>5, <2>3, <2>4, <2>5, <2>6, Landing
    <2>8. chunk' = chunk
      BY <2>4 DEF chunk, remaining
    <2>9. CASE FinishTxn
      <3>1. Len(xfer) = chunk /\ sent = 2 * chunk /\ qspi_busy' = 0
        BY <1>5, <2>3, <2>9, Complete
      <3>2. held' = xfer /\ desc' = desc
        BY <2>9 DEF FinishTxn
      <3>3. \A i \in 1 .. 2 * chunk : StreamNibble(i) = ToNibbles(xfer)[i]
        BY <2>3, <3>1 DEF StreamNibble
      <3>4. BufferHolds(0)'
        <4>1. \A j \in 1 .. 2 * chunk :
                data_buffer'[BUF_LEN - 2 * chunk + j] = ToNibbles(xfer)[j]
          BY <2>7, <3>1, <3>3
        <4>2. \A j \in 1 .. 2 * chunk - 0 : j \in 1 .. 2 * chunk /\ j + 0 = j
          BY <2>3
        <4>3. BUF_LEN' = BUF_LEN
          BY DEF BUF_LEN
        <4> QED BY <2>8, <3>2, <4>1, <4>2, <4>3 DEF BufferHolds
      <3>5. HoldingInv' /\ TakingInv'
        BY <2>8, <3>1, <3>2, <3>4 DEF HoldingInv, TakingInv
      <3> QED BY <1>3, <2>3, <3>2, <3>5 DEF RegisterInv
    <2>10. CASE ~FinishTxn
      <3>1. held' = held /\ desc' = desc /\ qspi_busy' = 1
        BY <1>5, <2>1, <2>2, <2>10 DEF Pause, ReadBeat, history, Engine!Wait, Engine!ReadBeat
      <3>2. landed' = sent /\ \A i \in 1 .. sent : StreamNibble(i)' = StreamNibble(i)
        <4>1. CASE Pause
          <5>1. qspi_rdata_valid' = 0 /\ UNCHANGED device
            BY <4>1, <2>2 DEF Pause, Engine!Wait
          <5>2. sent' = sent /\ \A i : StreamNibble(i)' = StreamNibble(i)
            BY <5>1 DEF device, sent, StreamNibble
          <5> QED BY <2>3, <5>1, <5>2 DEF landed
        <4>2. CASE ReadBeat
          <5>1. qspi_rdata_valid' = 1
            BY <4>2 DEF ReadBeat, Engine!ReadBeat
          <5>2. PICK n \in Nibble : Transfer(n)
            BY <1>5, <4>2, BeatStream
          <5>3. sent' = sent + 1 /\ \A i \in 1 .. sent : StreamNibble(i)' = StreamNibble(i)
            BY <2>3, <5>2, TransferStream
          <5> QED BY <2>3, <5>1, <5>3 DEF landed
        <4> QED BY <2>1, <2>2, <2>10, <4>1, <4>2
      <3>3. \A i \in 1 .. landed' : data_buffer'[BUF_LEN - landed' + i] = StreamNibble(i)'
        BY <2>7, <3>2
      <3>4. TakingInv'
        BY <1>2, <2>1, <3>3 DEF TakingInv, BUF_LEN
      <3>5. HoldingInv'
        BY <1>2, <2>1, <3>1 DEF HoldingInv, Holding
      <3> QED BY <1>3, <2>10, <3>1, <3>4, <3>5 DEF RegisterInv
    <2> QED BY <2>9, <2>10
  <1> QED BY <1>4, <1>5, RequestType

\* The nibble on wdata is the next one of the chunk, look-ahead included (qspi_wdata).
LEMMA Offered ==
  ASSUME IInv, StreamInv, RegisterInv, curr_state = "WRITE", qspi_busy = 1, WriteBeat
  PROVE  /\ sent \in Nat /\ sent + 1 <= 2 * chunk
         /\ qspi_wdata_next = 0 => sent = 0
         /\ qspi_wdata_next = 1 => sent > 0
         /\ qspi_wdata(qspi_wdata_next) = ToNibbles(held)[sent + 1]
  <1>1. /\ sent + beats_left = 2 * chunk /\ beats_left \in 0 .. 30 /\ beats_left > 0
        /\ qspi_byte_len = chunk /\ qspi_wdata_next \in {0, 1}
        /\ qspi_wdata_next = 0 => beats_left = 2 * chunk
    <2>1. sent + beats_left = 2 * req.byte_len /\ req.byte_len = qspi_byte_len
      BY RequestType DEF StreamInv
    <2>2. qspi_byte_len = chunk
      BY ChunkType
    <2>3. beats_left > 0 /\ (beats_left = 2 * qspi_byte_len \/ qspi_wdata_next = 1)
      BY DEF WriteBeat, Engine!WriteBeat
    <2> QED BY <2>1, <2>2, <2>3, RequestType
  <1>2. sent \in Nat
    BY NibblesOf DEF StreamInv, sent
  <1>3. /\ chunk \in 1 .. 8 /\ chunk <= DMA_BUF_DEPTH /\ 2 * chunk <= BUF_LEN
        /\ DMA_BUF_DEPTH \in 1 .. 8 /\ BUF_LEN \in Nat
    <2>1. remaining # 0 /\ remaining \in 0 .. 255 /\ DMA_BUF_DEPTH \in 1 .. 8
      BY ChunkType DEF IInv, ControlInv, Active
    <2>2. chunk \in 1 .. 8 /\ chunk <= DMA_BUF_DEPTH
      BY <2>1 DEF chunk
    <2> QED BY <2>1, <2>2, ChunkType
  <1>4. used_nibbles = 2 * chunk
    BY <1>1, <1>3 DEF used_nibbles
  <1>5. qspi_wdata_next = 1 => sent > 0
    BY DEF StreamInv
  <1>6. sent + 1 <= 2 * chunk /\ (qspi_wdata_next = 0 => sent = 0)
    BY <1>1, <1>2, <1>3
  <1>7. BufferHolds(IF sent = 0 THEN 0 ELSE sent - 1)
    BY DEF RegisterInv, GivingInv
  <1>8. qspi_wdata(qspi_wdata_next) = ToNibbles(held)[sent + 1]
    <2> DEFINE j == 1 + qspi_wdata_next
               k == IF sent = 0 THEN 0 ELSE sent - 1
    <2>1. j \in 1 .. 2 * chunk - k /\ j + k = sent + 1
      BY <1>1, <1>2, <1>3, <1>5, <1>6
    <2>2. BUF_LEN - 2 * chunk + 1 + qspi_wdata_next = BUF_LEN - 2 * chunk + j
      BY <1>1, <1>3
    <2> HIDE DEF j, k
    <2>3. data_buffer[BUF_LEN - 2 * chunk + j] = ToNibbles(held)[j + k]
      BY <1>7, <2>1 DEF BufferHolds, k
    <2> QED BY <1>4, <2>1, <2>2, <2>3 DEF qspi_wdata
  <1> QED BY <1>2, <1>5, <1>6, <1>8

\* What is written is what was read: a beat of a write sends the next nibble of the chunk.
LEMMA GivingStep ==
  ASSUME IInv, StreamInv, RegisterInv, Next, rst_n = 1,
         curr_state = "WRITE", qspi_busy = 1, WriteBeat
  PROVE  GivingInv'
  <1>1. /\ Control /\ Write(qspi_wdata_next) /\ next_state = "WRITE"
        /\ held' = held /\ task_ctrl_desc' = task_ctrl_desc
    BY StateActions DEF Write, WriteBeat, history
  <1>2. chunk' = chunk /\ chunk \in 0 .. 8 /\ 2 * chunk <= BUF_LEN /\ BUF_LEN \in Nat
    BY <1>1, ChunkType DEF chunk, remaining
  <1>3. PICK n \in Nibble : Transfer(n) /\ n = qspi_wdata(qspi_wdata_next)
    BY BeatStream
  <1>4. /\ sent \in Nat /\ sent + 1 <= 2 * chunk /\ n = ToNibbles(held)[sent + 1]
        /\ qspi_wdata_next = 0 => sent = 0
        /\ qspi_wdata_next = 1 => sent > 0
    BY <1>3, Offered
  <1>5. /\ xfer \in Seq(Byte) /\ Len(xfer) \in Nat /\ half \in 0 .. 16 /\ held \in Seq(Byte)
        /\ qspi_wdata_next \in {0, 1}
    BY RequestType, NibblesOf DEF StreamInv, RegisterInv
  <1>6. /\ Len(held) = chunk
        /\ BufferHolds(IF sent = 0 THEN 0 ELSE sent - 1)
        /\ \A j \in 1 .. Len(xfer) : xfer[j] = held[j]
        /\ half # NO_NIBBLE => half = held[Len(xfer) + 1] \div 16
    BY DEF RegisterInv, GivingInv
  <1>7. sent' = sent + 1
    BY <1>3, <1>5, TransferStream
  <1>8. \A j \in 1 .. 2 * chunk - sent :
          data_buffer'[BUF_LEN - 2 * chunk + j] = ToNibbles(held)[j + sent]
    <2>1. data_buffer' = IF qspi_wdata_next = 1
                         THEN ShiftIn(data_buffer, BUF_LEN, 0) ELSE data_buffer
      BY <1>1 DEF Write
    <2>2. CASE qspi_wdata_next = 0
      <3>1. sent = 0
        BY <1>4, <2>2
      <3>2. \A j \in 1 .. 2 * chunk - 0 :
              data_buffer[BUF_LEN - 2 * chunk + j] = ToNibbles(held)[j + 0]
        BY <1>6, <3>1 DEF BufferHolds
      <3> QED BY <2>1, <2>2, <3>1, <3>2
    <2>3. CASE qspi_wdata_next = 1
      <3> DEFINE k == sent - 1
                 cell(j) == BUF_LEN - 2 * chunk + j
      <3>1. k \in Nat /\ (IF sent = 0 THEN 0 ELSE sent - 1) = k
        BY <1>4, <2>3
      <3>2. \A j \in 1 .. 2 * chunk - k : data_buffer[cell(j)] = ToNibbles(held)[j + k]
        BY <1>6, <3>1 DEF BufferHolds
      <3>3. \A j \in 1 .. 2 * chunk - sent :
              /\ j + 1 \in 1 .. 2 * chunk - k /\ cell(j + 1) = cell(j) + 1
              /\ (j + 1) + k = j + sent
              /\ cell(j) \in 1 .. BUF_LEN /\ cell(j) # BUF_LEN
        BY <1>2, <1>4, <3>1
      <3>4. \A i \in 1 .. BUF_LEN : i # BUF_LEN => data_buffer'[i] = data_buffer[i + 1]
        BY <2>1, <2>3 DEF ShiftIn
      <3> HIDE DEF k, cell
      <3>5. \A j \in 1 .. 2 * chunk - sent : data_buffer'[cell(j)] = ToNibbles(held)[j + sent]
        BY <3>2, <3>3, <3>4
      <3> QED BY <3>5 DEF cell
    <2> QED BY <1>5, <2>2, <2>3
  <1>9. BufferHolds(IF sent = 0 THEN 0 ELSE sent - 1)'
    <2>1. (IF sent' = 0 THEN 0 ELSE sent' - 1) = sent /\ BUF_LEN' = BUF_LEN
      BY <1>4, <1>7 DEF BUF_LEN
    <2> QED BY <1>1, <1>2, <1>8, <2>1 DEF BufferHolds
  <1>10. /\ Len(xfer) + 1 <= chunk
         /\ half = NO_NIBBLE => n = held[Len(xfer) + 1] \div 16
         /\ half # NO_NIBBLE => n = held[Len(xfer) + 1] % 16
    <2> DEFINE L == Len(xfer)
    <2>1. /\ half = NO_NIBBLE => sent = 2 * L
          /\ half # NO_NIBBLE => sent = 2 * L + 1
      BY <1>5 DEF sent
    <2> HIDE DEF L
    <2>2. L + 1 \in 1 .. Len(held) /\ L + 1 <= chunk
      BY <1>2, <1>4, <1>5, <1>6, <2>1 DEF L
    <2>3. /\ ToNibbles(held)[2 * (L + 1) - 1] = held[L + 1] \div 16
          /\ ToNibbles(held)[2 * (L + 1)] = held[L + 1] % 16
      BY <1>5, <2>2, NibblesOf
    <2>4. 2 * (L + 1) - 1 = 2 * L + 1 /\ 2 * (L + 1) = 2 * L + 1 + 1
      BY <1>5 DEF L
    <2> QED BY <1>4, <2>1, <2>2, <2>3, <2>4 DEF L
  <1>11. held[Len(xfer) + 1] \in Byte
    <2>1. Len(xfer) + 1 \in 1 .. Len(held)
      BY <1>5, <1>6, <1>10
    <2> QED BY <1>5, <2>1, NibblesOf
  <1>12. /\ \A j \in 1 .. Len(xfer') : xfer'[j] = held[j]
         /\ half' # NO_NIBBLE => half' = held[Len(xfer') + 1] \div 16
    <2>1. CASE half = NO_NIBBLE
      BY <1>3, <1>5, <1>6, <1>10, <2>1, TransferStream
    <2>2. CASE half # NO_NIBBLE
      <3>1. /\ half' = NO_NIBBLE /\ Len(xfer') = Len(xfer) + 1
            /\ xfer'[Len(xfer) + 1] = 16 * half + n
            /\ \A j \in 1 .. Len(xfer) : xfer'[j] = xfer[j]
        BY <1>3, <1>5, <2>2, TransferStream
      <3>2. 16 * half + n = held[Len(xfer) + 1]
        BY <1>6, <1>10, <1>11, <2>2, ByteNibbles
      <3>3. \A j \in 1 .. Len(xfer') : j \in 1 .. Len(xfer) \/ j = Len(xfer) + 1
        BY <1>5, <3>1
      <3> QED BY <1>6, <3>1, <3>2, <3>3
    <2> QED BY <2>1, <2>2
  <1>13. Len(held') = chunk'
    BY <1>1, <1>2, <1>6
  <1>14. held' = held
    BY <1>1
  <1> QED BY <1>9, <1>12, <1>13, <1>14 DEF GivingInv

\* A write leaves the chunk alone but for the buffer it empties.
LEMMA RegistersWrite ==
  ASSUME IInv, StreamInv, RegisterInv, Next, rst_n = 1, curr_state = "WRITE"
  PROVE  RegisterInv'
  <1>1. /\ Control /\ Write(qspi_wdata_next) /\ EngineStep /\ View!owner = "WRITE"
        /\ write_pending = 1 /\ qspi_cmd = QSPI_CMD_WRITE
    BY StateActions, CommandOf DEF View!owner
  <1>2. curr_state' = next_state /\ next_state \in {"WRITE", "UPDATE"}
        /\ View!owner' = next_state
    BY <1>1, OwnerStep DEF Control, next_state, yields, resume_next
  <1>3. TakingInv' /\ HoldingInv' /\ (View!owner' = "WRITE" => write_pending' = 1)
    BY <1>1, <1>2 DEF TakingInv, HoldingInv, Holding, Write
  <1>4. CASE qspi_busy = 0
    <2>1. UNCHANGED <<engine, device, history>>
      BY <1>4, StateActions DEF TxnStates
    <2> QED BY <1>3, <1>4, <2>1 DEF engine, history, RegisterInv, GivingInv
  <1>5. CASE qspi_busy = 1
    <2>1. next_state = "WRITE" /\ (Pause \/ ReadBeat \/ WriteBeat \/ FinishTxn)
      BY <1>5, StateActions
    <2>2. ~ReadBeat
      BY <1>1, RequestType, EngineCommands DEF ReadBeat, Engine!ReadBeat
    <2>3. CASE FinishTxn
      <3>1. qspi_busy' = 0 /\ desc' = desc /\ held' = held
        BY <1>1, <2>3 DEF FinishTxn, Engine!Finish
      <3> QED BY <1>3, <3>1 DEF RegisterInv, GivingInv
    <2>4. CASE WriteBeat
      <3>1. GivingInv' /\ desc' = desc /\ held' = held
        BY <1>5, <2>4, GivingStep DEF WriteBeat, history
      <3> QED BY <1>3, <3>1 DEF RegisterInv
    <2>5. CASE Pause
      <3>1. qspi_wdata_next = 0 /\ UNCHANGED device /\ desc' = desc /\ held' = held
        BY <2>5 DEF Pause, Engine!Wait, Engine!AskNibble, history
      <3>2. data_buffer' = data_buffer /\ task_ctrl_desc' = task_ctrl_desc
        BY <1>1, <2>1, <3>1 DEF Write
      <3>3. chunk' = chunk /\ sent' = sent /\ BUF_LEN' = BUF_LEN
        BY <3>1, <3>2 DEF chunk, remaining, sent, device, BUF_LEN
      <3>4. GivingInv'
        BY <1>1, <1>5, <3>1, <3>2, <3>3 DEF RegisterInv, GivingInv, BufferHolds, device
      <3> QED BY <1>3, <3>1, <3>4 DEF RegisterInv
    <2> QED BY <2>1, <2>2, <2>3, <2>4, <2>5
  <1> QED BY <1>4, <1>5, RequestType

\* A reset drops the transaction in flight, and the memory keeps what it has.
LEMMA RegistersReset ==
  ASSUME IInv, StreamInv, RegisterInv, Next, rst_n = 0
  PROVE  /\ RegisterInv'
         /\ Reset /\ qspi_busy' = 0 /\ UNCHANGED <<device, history>>
  <1>1. Reset
    BY DEF Next, Posedge, IdleOrStall, NewFetch, Fetch, NewOp, Read, Write, Update, Control
  <1>2. qspi_busy' = 0 /\ UNCHANGED <<device, history>>
    BY DEF Next, EngineStep, AcceptTxn, ReadBeat, WriteBeat, FinishTxn, Quiet,
       Engine!Accept, Engine!ReadBeat, Engine!WriteBeat, Engine!Finish, Engine!Reset,
       Engine!Idle, Engine!Wait, Engine!AskNibble
  <1>3. View!owner' = "SYS_CTRL_IDLE"
    BY <1>1 DEF Reset, View!owner
  <1> QED BY <1>1, <1>2, <1>3 DEF Reset, history, RegisterInv, TakingInv, HoldingInv,
          Holding, GivingInv

\* RegisterInv is kept at every posedge.
LEMMA RegistersNext ==
  ASSUME IInv, StreamInv, RegisterInv, Next
  PROVE  RegisterInv'
  <1>1. CASE rst_n = 0
    BY <1>1, RegistersReset
  <1>2. CASE rst_n = 1
    <2>1. curr_state \in sys_control_state_t
      BY <1>2, StateActions
    <2> QED BY <1>2, <2>1, RegistersAround, RegistersFetch, RegistersNewOp, RegistersRead,
            RegistersWrite DEF sys_control_state_t
  <1> QED BY <1>1, <1>2, RequestType

-------------------------------------------------------------------------------
(***************************************************************************)
(* The descriptor register and the descriptor of memory.                   *)
(***************************************************************************)

\* The descriptor of memory only changes with the end of a fetch, and what the states
\* with no transaction do to the registers.
LEMMA DescriptorSteps ==
  ASSUME IInv, StreamInv, RegisterInv, Next, rst_n = 1
  PROVE  /\ ~(curr_state = "FETCH" /\ qspi_busy = 1) => desc' = desc
         /\ curr_state' = next_state /\ View!owner \in sys_control_state_t
         /\ next_state = "STALL" => View!owner' = View!owner
         /\ next_state # "STALL" => View!owner' = next_state
         /\ curr_state = "STALL" => stalled_state' = stalled_state
         /\ curr_state # "STALL" =>
              stalled_state' = IF next_state = "STALL" THEN curr_state ELSE "SYS_CTRL_IDLE"
         /\ View!owner = "UPDATE" => write_pending = 0
         /\ stalled_state \in StallOrigins
  <1>1. Control /\ stalled_state \in StallOrigins /\ curr_state \in sys_control_state_t
    BY StateActions DEF IInv, ControlInv
  <1>2. ~(curr_state = "FETCH" /\ qspi_busy = 1) => desc' = desc
    <2>1. CASE qspi_busy = 0
      BY <2>1, StateActions DEF history, AcceptTxn, TxnStates
    <2>2. CASE qspi_busy = 1 /\ curr_state # "FETCH"
      BY <2>2, StateActions DEF history, Pause, ReadBeat, WriteBeat, FinishTxn
    <2> QED BY <2>1, <2>2, RequestType
  <1>3. View!owner = "UPDATE" => write_pending = 0
    <2>1. write_pending \in {0, 1}
      BY DEF IInv, CoreTypeOK, TypeOK, Bit
    <2> QED BY <2>1 DEF IInv, ControlInv
  <1>4. View!owner \in sys_control_state_t
    BY <1>1 DEF View!owner, StallOrigins, sys_control_state_t
  <1> QED BY <1>1, <1>2, <1>3, <1>4, OwnerStep DEF Control

\* Nothing happens to a descriptor that nobody touches.
LEMMA TargetKept ==
  ASSUME TargetInv, task_ctrl_desc' = task_ctrl_desc, desc' = desc,
         write_pending' = write_pending, fresh' <=> fresh,
         View!owner' \in {"NEW_OP", "READ", "WRITE", "UPDATE"} =>
           View!owner \in {"NEW_OP", "READ", "WRITE", "UPDATE"}
  PROVE  TargetInv'
  <1>1. remaining' = remaining /\ behind' = behind
    BY DEF remaining, behind
  <1> QED BY <1>1 DEF TargetInv

LEMMA DescriptorAround ==
  ASSUME IInv, StreamInv, RegisterInv, DescriptorInv, Next, rst_n = 1,
         curr_state \in {"SYS_CTRL_IDLE", "STALL", "NEW_FETCH"}
  PROVE  DescriptorInv'
  <1>1. /\ task_ctrl_desc' = task_ctrl_desc /\ desc' = desc
        /\ write_pending' = write_pending
    BY StateActions, DescriptorSteps DEF IdleOrStall, NewFetch, datapath
  <1>2. /\ next_state = "FETCH" => curr_state = "NEW_FETCH"
        /\ View!owner' = "SYS_CTRL_IDLE" => View!owner = "SYS_CTRL_IDLE"
        /\ View!owner' \in {"NEW_OP", "READ", "WRITE", "UPDATE"} => View!owner' = View!owner
        /\ ~fresh' /\ ~fresh
    BY DescriptorSteps DEF View!owner, next_state, yields, resume_next, StallOrigins, fresh
  <1>3. curr_state' = "FETCH" => qspi_busy' = 1
    <2> SUFFICES ASSUME curr_state' = "FETCH" PROVE qspi_busy' = 1
      OBVIOUS
    <2>1. next_state = "FETCH" /\ curr_state = "NEW_FETCH" /\ qspi_busy = 0
      BY <1>2, StateActions, DescriptorSteps, RequestType DEF TxnStates
    <2> QED BY <2>1, StateActions, Accepted DEF TxnStates
  <1>4. TargetInv'
    BY <1>1, <1>2, TargetKept DEF DescriptorInv
  <1>5. View!owner' = "UPDATE" => View!owner = "UPDATE"
    BY <1>2
  <1> QED BY <1>1, <1>2, <1>3, <1>4, <1>5 DEF DescriptorInv

LEMMA DescriptorFetch ==
  ASSUME IInv, StreamInv, RegisterInv, DescriptorInv, Next, rst_n = 1, curr_state = "FETCH"
  PROVE  DescriptorInv'
  <1>1. CASE qspi_busy = 1
    <2>1. curr_state' = "FETCH" /\ View!owner' = "FETCH"
      BY <1>1, StateActions, DescriptorSteps
    <2>2. qspi_busy' = 0 => task_ctrl_desc' = desc'
      <3>1. Pause \/ ReadBeat \/ WriteBeat => qspi_busy' = 1
        BY <1>1 DEF Pause, ReadBeat, WriteBeat, Engine!Wait, Engine!AskNibble,
           Engine!ReadBeat, Engine!WriteBeat
      <3> QED BY <1>1, <3>1, StateActions, RegistersFetch
    <2> QED BY <2>1, <2>2 DEF DescriptorInv, TargetInv
  <1>2. CASE qspi_busy = 0
    <2>1. /\ task_ctrl_desc' = desc' /\ desc' = desc /\ desc \in tcd_t
          /\ View!owner' = "NEW_OP" /\ curr_state' = "NEW_OP" /\ write_pending' = 0
      BY <1>2, StateActions, DescriptorSteps, CommandOf DEF Fetch, DescriptorInv,
         next_state, yields, resume_next, RegisterInv
    <2>2. remaining' = transfer_len(desc') /\ behind' = 0 /\ transfer_len(desc) \in 0 .. 255
      <3>1. transfer_len(desc) \in 0 .. 255
        BY <2>1, FieldTypes
      <3> QED BY <2>1, <3>1 DEF remaining, behind
    <2>3. ~fresh'
      BY <2>1 DEF fresh
    <2>4. /\ src_ptr(desc) = Ahead(src_ptr(desc), 0)
          /\ dest_ptr(desc) = Ahead(dest_ptr(desc), 0)
      <3>1. src_ptr(desc) \in qspi_addr_t /\ dest_ptr(desc) \in qspi_addr_t /\ 0 \in Nat
        BY <2>1, FieldTypes
      <3> QED BY <3>1, AdvanceAhead
    <2>5. /\ behind' + (IF write_pending' = 1 \/ fresh' THEN DMA_BUF_DEPTH ELSE 0) = 0
          /\ behind' + (IF fresh' THEN DMA_BUF_DEPTH ELSE 0) = 0
      BY <2>1, <2>2, <2>3
    <2>6. SameTarget(desc, desc) /\ transfer_len(desc) <= transfer_len(desc)
      BY <2>2 DEF SameTarget
    <2>7. TargetInv'
      BY <2>1, <2>2, <2>4, <2>5, <2>6, Zenon DEF TargetInv
    <2> QED BY <2>1, <2>7 DEF DescriptorInv
  <1> QED BY <1>1, <1>2, RequestType

LEMMA DescriptorNewOp ==
  ASSUME IInv, StreamInv, RegisterInv, DescriptorInv, Next, rst_n = 1, curr_state = "NEW_OP"
  PROVE  DescriptorInv'
  <1>1. /\ NewOp /\ desc' = desc /\ write_pending' = write_pending /\ View!owner = "NEW_OP"
        /\ task_ctrl_desc \in tcd_t
    BY StateActions, DescriptorSteps DEF NewOp, View!owner, IInv, CoreTypeOK, TypeOK
  <1>2. /\ next_state \in {"SYS_CTRL_IDLE", "NEW_FETCH", "READ", "WRITE", "STALL"}
        /\ View!owner' \notin {"UPDATE", "FETCH"} /\ curr_state' \notin {"UPDATE", "FETCH"}
        /\ View!owner' = "SYS_CTRL_IDLE" => next_state = "SYS_CTRL_IDLE"
        /\ ~fresh' /\ ~fresh
    BY <1>1, DescriptorSteps DEF next_state, resume_next, after_fetch_or_read, fresh
  <1>3. CASE quit(task_ctrl_desc) = 1
    <2>1. /\ next_tcd(task_ctrl_desc') = 0 /\ next_tcd_device(task_ctrl_desc') = 0
          /\ quit(task_ctrl_desc') = 1
      BY <1>1, <1>3, QuitFields DEF NewOp
    <2> QED BY <1>2, <2>1 DEF DescriptorInv, TargetInv
  <1>4. CASE quit(task_ctrl_desc) # 1
    <2>1. task_ctrl_desc' = task_ctrl_desc /\ next_state # "SYS_CTRL_IDLE"
      BY <1>1, <1>4 DEF NewOp, next_state, resume_next, after_fetch_or_read
    <2>2. TargetInv'
      BY <1>1, <1>2, <2>1, TargetKept DEF DescriptorInv
    <2> QED BY <1>2, <2>1, <2>2 DEF DescriptorInv
  <1> QED BY <1>3, <1>4

\* A chunk in progress has a length, and its pointers are ahead by what is behind.
LEMMA TargetActive ==
  ASSUME IInv, RegisterInv, TargetInv,
         View!owner \in {"NEW_OP", "READ", "WRITE", "UPDATE"}, quit(task_ctrl_desc) = 0
  PROVE  /\ SameTarget(task_ctrl_desc, desc) /\ task_ctrl_desc \in tcd_t /\ desc \in tcd_t
         /\ behind \in Nat /\ remaining \in 0 .. 255 /\ transfer_len(desc) \in 0 .. 255
         /\ behind = transfer_len(desc) - remaining /\ remaining <= transfer_len(desc)
         /\ src_ptr(desc) \in qspi_addr_t /\ dest_ptr(desc) \in qspi_addr_t
         /\ behind + 0 = behind
  <1>1. /\ SameTarget(task_ctrl_desc, desc) /\ remaining <= transfer_len(desc)
        /\ task_ctrl_desc \in tcd_t /\ desc \in tcd_t
    BY DEF TargetInv, RegisterInv, IInv, CoreTypeOK, TypeOK
  <1>2. /\ src_ptr(desc) \in qspi_addr_t /\ dest_ptr(desc) \in qspi_addr_t
        /\ transfer_len(desc) \in 0 .. 255 /\ remaining \in 0 .. 255
    BY <1>1, FieldTypes DEF remaining
  <1> QED BY <1>1, <1>2 DEF behind

LEMMA DescriptorRead ==
  ASSUME IInv, StreamInv, RegisterInv, DescriptorInv, Next, rst_n = 1, curr_state = "READ"
  PROVE  DescriptorInv'
  <1>1. /\ Read /\ desc' = desc /\ View!owner = "READ"
        /\ write_pending = 0 /\ write_pending # 1
        /\ quit(task_ctrl_desc) = 0 /\ remaining # 0 /\ ~fresh
    BY StateActions, DescriptorSteps, CommandOf DEF View!owner, IInv, ControlInv, Active, fresh
  <1>2. CASE qspi_busy = 1
    <2>1. next_state = "READ" /\ curr_state' = "READ" /\ View!owner' = "READ"
      BY <1>2, StateActions, DescriptorSteps
    <2>2. /\ task_ctrl_desc' = task_ctrl_desc /\ write_pending' = write_pending /\ ~fresh'
      BY <1>1, <2>1 DEF Read, fresh
    <2>3. TargetInv'
      BY <1>1, <2>2, TargetKept DEF DescriptorInv
    <2> QED BY <2>1, <2>3 DEF DescriptorInv
  <1>3. CASE qspi_busy = 0
    <2>1. next_state = "NEW_OP" /\ curr_state' = "NEW_OP" /\ View!owner' = "NEW_OP"
      BY <1>1, <1>3, DescriptorSteps DEF next_state, yields, resume_next
    <2> DEFINE src == Advance(src_ptr(task_ctrl_desc))
    <2>2. task_ctrl_desc' = WithWord24(task_ctrl_desc, 1, src) /\ write_pending' = 1 /\ ~fresh'
      BY <1>1, <2>1 DEF Read, fresh
    <2>3. /\ SameTarget(task_ctrl_desc, desc) /\ task_ctrl_desc \in tcd_t /\ desc \in tcd_t
          /\ behind \in Nat /\ remaining <= transfer_len(desc)
          /\ src_ptr(desc) \in qspi_addr_t /\ behind + 0 = behind
      BY <1>1, TargetActive DEF DescriptorInv
    <2>4. /\ src_ptr(task_ctrl_desc) = Ahead(src_ptr(desc), behind + 0)
          /\ dest_ptr(task_ctrl_desc) = Ahead(dest_ptr(desc), behind + 0)
      BY <1>1, Zenon DEF DescriptorInv, TargetInv
    <2>5. src = Ahead(src_ptr(desc), behind + DMA_BUF_DEPTH) /\ src \in qspi_addr_t
      BY <2>3, <2>4, AdvanceAhead
    <2> HIDE DEF src
    <2>6. /\ src_ptr(task_ctrl_desc') = src
          /\ dest_ptr(task_ctrl_desc') = dest_ptr(task_ctrl_desc)
          /\ SameTarget(task_ctrl_desc', task_ctrl_desc)
          /\ transfer_len(task_ctrl_desc') = transfer_len(task_ctrl_desc)
      BY <2>2, <2>3, <2>5, PointerFields
    <2>7. remaining' = remaining /\ behind' = behind
      BY <1>1, <2>6 DEF remaining, behind
    <2>8. SameTarget(task_ctrl_desc', desc')
      BY <1>1, <2>3, <2>6 DEF SameTarget
    <2>9. TargetInv'
      BY <1>1, <2>1, <2>2, <2>3, <2>4, <2>5, <2>6, <2>7, <2>8, Zenon DEF TargetInv
    <2> QED BY <2>1, <2>9 DEF DescriptorInv
  <1> QED BY <1>2, <1>3, RequestType

LEMMA DescriptorWrite ==
  ASSUME IInv, StreamInv, RegisterInv, DescriptorInv, Next, rst_n = 1, curr_state = "WRITE"
  PROVE  DescriptorInv'
  <1>1. /\ Write(qspi_wdata_next) /\ desc' = desc /\ View!owner = "WRITE"
        /\ write_pending = 1 /\ quit(task_ctrl_desc) = 0 /\ remaining # 0 /\ ~fresh
    BY StateActions, DescriptorSteps, CommandOf DEF View!owner, IInv, ControlInv, Active, fresh
  <1>2. CASE qspi_busy = 1
    <2>1. next_state = "WRITE" /\ curr_state' = "WRITE" /\ View!owner' = "WRITE"
      BY <1>2, StateActions, DescriptorSteps
    <2>2. /\ task_ctrl_desc' = task_ctrl_desc /\ write_pending' = write_pending /\ ~fresh'
      BY <1>1, <2>1 DEF Write, fresh
    <2>3. TargetInv'
      BY <1>1, <2>2, TargetKept DEF DescriptorInv
    <2> QED BY <2>1, <2>3 DEF DescriptorInv
  <1>3. CASE qspi_busy = 0
    <2>1. /\ next_state = "UPDATE" /\ curr_state' = "UPDATE" /\ View!owner' = "UPDATE"
          /\ stalled_state' = "SYS_CTRL_IDLE"
      BY <1>1, <1>3, DescriptorSteps DEF next_state, yields, resume_next
    <2> DEFINE dest == Advance(dest_ptr(task_ctrl_desc))
    <2>2. task_ctrl_desc' = WithWord24(task_ctrl_desc, 7, dest) /\ write_pending' = 0 /\ fresh'
      BY <1>1, <2>1 DEF Write, fresh
    <2>3. /\ SameTarget(task_ctrl_desc, desc) /\ task_ctrl_desc \in tcd_t /\ desc \in tcd_t
          /\ behind \in Nat /\ remaining <= transfer_len(desc)
          /\ dest_ptr(desc) \in qspi_addr_t /\ behind + 0 = behind
      BY <1>1, TargetActive DEF DescriptorInv
    <2>4. /\ src_ptr(task_ctrl_desc) = Ahead(src_ptr(desc), behind + DMA_BUF_DEPTH)
          /\ dest_ptr(task_ctrl_desc) = Ahead(dest_ptr(desc), behind + 0)
      BY <1>1, Zenon DEF DescriptorInv, TargetInv
    <2>5. dest = Ahead(dest_ptr(desc), behind + DMA_BUF_DEPTH) /\ dest \in qspi_addr_t
      BY <2>3, <2>4, AdvanceAhead
    <2> HIDE DEF dest
    <2>6. /\ dest_ptr(task_ctrl_desc') = dest
          /\ src_ptr(task_ctrl_desc') = src_ptr(task_ctrl_desc)
          /\ SameTarget(task_ctrl_desc', task_ctrl_desc)
          /\ transfer_len(task_ctrl_desc') = transfer_len(task_ctrl_desc)
      BY <2>2, <2>3, <2>5, PointerFields
    <2>7. remaining' = remaining /\ behind' = behind
      BY <1>1, <2>6 DEF remaining, behind
    <2>8. SameTarget(task_ctrl_desc', desc') /\ quit(task_ctrl_desc') = 0
      BY <1>1, <2>3, <2>6 DEF SameTarget
    <2>9. TargetInv'
      BY <1>1, <2>1, <2>2, <2>3, <2>4, <2>5, <2>6, <2>7, <2>8, Zenon DEF TargetInv
    <2> QED BY <2>1, <2>8, <2>9 DEF DescriptorInv
  <1> QED BY <1>2, <1>3, RequestType

LEMMA DescriptorUpdate ==
  ASSUME IInv, StreamInv, RegisterInv, DescriptorInv, Next, rst_n = 1, curr_state = "UPDATE"
  PROVE  DescriptorInv'
  <1>1. /\ Update /\ desc' = desc /\ View!owner = "UPDATE" /\ quit(task_ctrl_desc) = 0
        /\ write_pending' = write_pending /\ write_pending # 1
        /\ (update_fresh <=> fresh)
    BY StateActions, DescriptorSteps DEF View!owner, Update, DescriptorInv, update_fresh, fresh
  <1>2. /\ View!owner' \in {"NEW_FETCH", "NEW_OP", "UPDATE"} /\ curr_state' # "FETCH"
        /\ ~fresh'
    BY <1>1, DescriptorSteps DEF next_state, resume_next, after_update, fresh
  <1>3. CASE ~fresh
    <2>1. task_ctrl_desc' = task_ctrl_desc
      BY <1>1, <1>3 DEF Update
    <2>2. TargetInv'
      BY <1>1, <1>2, <1>3, <2>1, TargetKept DEF DescriptorInv
    <2> QED BY <1>1, <1>2, <2>1, <2>2 DEF DescriptorInv
  <1>4. CASE fresh
    <2>1. /\ SameTarget(task_ctrl_desc, desc) /\ task_ctrl_desc \in tcd_t
          /\ behind \in Nat /\ remaining \in 0 .. 255 /\ transfer_len(desc) \in 0 .. 255
          /\ behind = transfer_len(desc) - remaining /\ remaining <= transfer_len(desc)
      BY <1>1, TargetActive DEF DescriptorInv
    <2>2. DMA_BUF_DEPTH \in 1 .. 8
      BY ChunkType
    <2>3. /\ length_after \in 0 .. 255 /\ length_after <= transfer_len(desc)
          /\ length_after # 0 => /\ remaining # 0 /\ length_after = remaining - DMA_BUF_DEPTH
                                 /\ transfer_len(desc) - length_after
                                      = behind + DMA_BUF_DEPTH
                                 /\ (behind + DMA_BUF_DEPTH) + 0 = behind + DMA_BUF_DEPTH
      BY <2>1, <2>2 DEF length_after
    <2>4. task_ctrl_desc' = WithLength(task_ctrl_desc, length_after)
      BY <1>1, <1>4 DEF Update
    <2>5. /\ transfer_len(task_ctrl_desc') = length_after
          /\ src_ptr(task_ctrl_desc') = src_ptr(task_ctrl_desc)
          /\ dest_ptr(task_ctrl_desc') = dest_ptr(task_ctrl_desc)
          /\ SameTarget(task_ctrl_desc', task_ctrl_desc)
      BY <2>1, <2>3, <2>4, LengthField
    <2>6. /\ remaining' = length_after /\ behind' = transfer_len(desc) - length_after
          /\ SameTarget(task_ctrl_desc', desc') /\ quit(task_ctrl_desc') = 0
      BY <1>1, <2>1, <2>5 DEF remaining, behind, SameTarget
    <2>7. length_after # 0 =>
            /\ src_ptr(task_ctrl_desc') = Ahead(src_ptr(desc), behind + DMA_BUF_DEPTH)
            /\ dest_ptr(task_ctrl_desc') = Ahead(dest_ptr(desc), behind + DMA_BUF_DEPTH)
      <3> SUFFICES ASSUME length_after # 0
                   PROVE  /\ src_ptr(task_ctrl_desc) = Ahead(src_ptr(desc), behind + DMA_BUF_DEPTH)
                          /\ dest_ptr(task_ctrl_desc) = Ahead(dest_ptr(desc), behind + DMA_BUF_DEPTH)
        BY <2>5
      <3>1. remaining # 0
        BY <2>3
      <3> QED BY <1>1, <1>4, <3>1, Zenon DEF DescriptorInv, TargetInv
    <2>8. TargetInv'
      BY <1>1, <1>2, <2>3, <2>6, <2>7, Zenon DEF TargetInv
    <2> QED BY <1>2, <2>6, <2>8 DEF DescriptorInv
  <1> QED BY <1>3, <1>4

\* DescriptorInv is kept at every posedge.
LEMMA DescriptorNext ==
  ASSUME IInv, StreamInv, RegisterInv, DescriptorInv, Next
  PROVE  DescriptorInv'
  <1>1. CASE rst_n = 0
    <2>1. /\ View!owner' = "SYS_CTRL_IDLE" /\ curr_state' = "SYS_CTRL_IDLE"
          /\ task_ctrl_desc' = [n \in 1 .. TCD_LEN |-> 0]
      BY <1>1, RegistersReset DEF Reset, View!owner
    <2>2. next_tcd(task_ctrl_desc') = 0 /\ next_tcd_device(task_ctrl_desc') = 0
      BY <2>1, ResetFields
    <2> QED BY <2>1, <2>2 DEF DescriptorInv, TargetInv
  <1>2. CASE rst_n = 1
    <2>1. curr_state \in sys_control_state_t
      BY <1>2, StateActions
    <2> QED BY <1>2, <2>1, DescriptorAround, DescriptorFetch, DescriptorNewOp,
            DescriptorRead, DescriptorWrite, DescriptorUpdate DEF sys_control_state_t
  <1> QED BY <1>1, <1>2, RequestType

\* The invariant holds after power-up.
LEMMA ChainInit == Init => ChainInv
  <1> SUFFICES ASSUME Init PROVE ChainInv
    OBVIOUS
  <1>1. IInv
    BY TypeInit, ControlInit DEF IInv, RequestStable, Init, Engine!Init
  <1>2. /\ curr_state = "SYS_CTRL_IDLE" /\ View!owner = "SYS_CTRL_IDLE" /\ qspi_busy = 0
        /\ qspi_rdata_valid = 0 /\ qspi_wdata_next = 0
    BY DEF Init, ResetValues, Engine!Init, View!owner
  <1>3. StreamInv
    <2>1. Memory(mem)
      BY ImagesAssumption DEF Init, Memory, Byte
    <2>2. xfer \in Seq(Byte)
      BY EmptySeq DEF Init
    <2> QED BY <1>2, <2>1, <2>2 DEF StreamInv
  <1>4. RegisterInv
    <2>1. held \in Seq(Byte)
      BY EmptySeq DEF Init
    <2>2. desc \in tcd_t
      BY DEF Init, tcd_t, Nibble
    <2> QED BY <1>2, <2>1, <2>2 DEF RegisterInv, TakingInv, HoldingInv, Holding, GivingInv
  <1>5. DescriptorInv
    <2>1. task_ctrl_desc = [n \in 1 .. TCD_LEN |-> 0]
      BY DEF Init, ResetValues
    <2>2. next_tcd(task_ctrl_desc) = 0 /\ next_tcd_device(task_ctrl_desc) = 0
      BY <2>1, ResetFields
    <2> QED BY <1>2, <2>2 DEF DescriptorInv, TargetInv
  <1> QED BY <1>1, <1>3, <1>4, <1>5 DEF ChainInv

\* ChainInv is inductive.
LEMMA ChainNext == ChainInv /\ [Next]_vars => ChainInv'
  <1> SUFFICES ASSUME ChainInv, [Next]_vars PROVE ChainInv'
    OBVIOUS
  <1>1. IInv'
    BY Inductive DEF ChainInv
  <1>2. CASE Next
    BY <1>1, <1>2, StreamNext, RegistersNext, DescriptorNext DEF ChainInv
  <1>3. CASE UNCHANGED vars
    <2> USE <1>3 DEF vars, core, flops, datapath, engine, device, history, ChainInv
    <2>1. StreamInv'
      BY DEF StreamInv, sent, StreamNibble, CellByte
    <2>2. RegisterInv'
      BY DEF RegisterInv, TakingInv, HoldingInv, Holding, GivingInv, BufferHolds, landed,
         sent, StreamNibble, chunk, remaining, View!owner
    <2>3. DescriptorInv'
      BY DEF DescriptorInv, TargetInv, fresh, behind, remaining, View!owner
    <2> QED BY <1>1, <2>1, <2>2, <2>3
  <1> QED BY <1>2, <1>3

LEMMA ChainInvariant == Spec => []ChainInv
  BY ChainInit, ChainNext, PTL DEF Spec

-------------------------------------------------------------------------------
(***************************************************************************)
(* The controller read as a state of the interpreter, case by case.        *)
(***************************************************************************)
Offset == IF View!writing_out THEN Len(xfer) ELSE 0

Mapped(phase, at, moved, offset) ==
  View!phase = phase /\ View!at = at /\ View!moved = moved /\ Offset = offset

HeadTcd == [device |-> QSPI_PSRAM0, address |-> 0]
Origin == [device |-> active_fetch_device, address |-> WireAddr(active_fetch_addr)]
NextTcd(t) == [device |-> next_tcd_device(t), address |-> WireAddr(next_tcd(t))]

\* The bytes to come once the chunk under way is written.
left_over ==
  IF (View!owner = "WRITE" /\ qspi_busy = 0) \/ fresh THEN remaining - chunk ELSE remaining

Idles == View!owner = "SYS_CTRL_IDLE"
Dispatches ==
  \/ View!owner = "FETCH" /\ qspi_busy = 0
  \/ View!owner = "NEW_OP" /\ write_pending = 0
Keeps ==
  \/ View!owner = "NEW_OP" /\ write_pending = 1
  \/ View!owner = "READ" /\ qspi_busy = 0
Closes ==
  \/ View!owner = "WRITE" /\ qspi_busy = 0
  \/ View!owner = "UPDATE"

Reading ==
  /\ Idles => Mapped("idle", HeadTcd, 0, 0)
  /\ View!owner = "NEW_FETCH" => Mapped("fetch", NextTcd(task_ctrl_desc), 0, 0)
  /\ View!owner = "FETCH" /\ qspi_busy = 1 => Mapped("fetch", Origin, 0, 0)
  /\ Dispatches =>
       /\ quit(task_ctrl_desc) = 1 => Mapped("idle", HeadTcd, 0, 0)
       /\ quit(task_ctrl_desc) = 0 /\ remaining = 0
            => Mapped("fetch", NextTcd(task_ctrl_desc), 0, 0)
       /\ quit(task_ctrl_desc) = 0 /\ remaining # 0
            => Mapped("read", Origin, behind, 0)
  /\ Keeps => Mapped("write", Origin, behind, 0)
  /\ View!owner = "READ" /\ qspi_busy = 1 => Mapped("read", Origin, behind, 0)
  /\ View!owner = "WRITE" /\ qspi_busy = 1 => Mapped("write", Origin, behind, Len(xfer))
  /\ Closes =>
       /\ left_over = 0 => Mapped("fetch", NextTcd(task_ctrl_desc), 0, 0)
       /\ left_over # 0
            => Mapped("read", Origin, transfer_len(desc) - left_over, 0)

\* The names of the package in the copies of the refinement mapping.
LEMMA ViewNames ==
  /\ View!remaining = remaining /\ View!chunk = chunk
  /\ \A t : /\ View!quit(t) = quit(t) /\ View!transfer_len(t) = transfer_len(t)
            /\ View!next_tcd_device(t) = next_tcd_device(t) /\ View!next_tcd(t) = next_tcd(t)
  /\ \A a : View!WireAddr(a) = WireAddr(a)
  /\ View!QSPI_PSRAM0 = QSPI_PSRAM0
  BY DEF View!remaining, remaining, View!chunk, chunk, View!quit, quit, View!transfer_len,
     transfer_len, View!Join, Join, View!next_tcd_device, next_tcd_device, View!next_tcd,
     next_tcd, View!Word24, Word24, View!WireAddr, WireAddr, View!ADDR_MAX, ADDR_MAX,
     View!QSPI_PSRAM0, QSPI_PSRAM0

LEMMA ReadAs ==
  ASSUME ChainInv
  PROVE  Reading
  <1>1. /\ View!owner \in sys_control_state_t \ {"STALL"}
        /\ qspi_busy \in {0, 1} /\ write_pending \in {0, 1}
        /\ quit(task_ctrl_desc) \in {0, 1}
    BY QuitType DEF ChainInv, IInv, ControlInv, View!owner, StallOrigins, CoreTypeOK, TypeOK,
       Bit, sys_control_state_t, Engine!TypeOK, Engine!Bit
  <1>2. View!bytes_left = left_over
    BY <1>1, ViewNames DEF View!bytes_left, left_over, fresh
  <1>3. /\ View!after_tcd = IF quit(task_ctrl_desc) = 1 THEN "idle"
                            ELSE IF remaining = 0 THEN "fetch" ELSE "read"
        /\ View!after_write = IF left_over = 0 THEN "fetch" ELSE "read"
    BY <1>2, ViewNames DEF View!after_tcd, View!after_write
  <1>4. /\ View!phase = "idle" => View!at = HeadTcd
        /\ View!phase = "fetch" /\ ~(View!owner = "FETCH" /\ qspi_busy = 1)
             => View!at = NextTcd(task_ctrl_desc)
        /\ View!phase = "fetch" /\ View!owner = "FETCH" /\ qspi_busy = 1
             => View!at = Origin
        /\ View!phase \in {"read", "write"} => View!at = Origin
    BY ViewNames, Zenon DEF View!at, View!fetching, HeadTcd, NextTcd, Origin
  <1>5. /\ View!phase \in {"idle", "fetch"} => View!moved = 0
        /\ View!phase \in {"read", "write"} => View!moved = transfer_len(desc) - left_over
    BY <1>2, ViewNames DEF View!moved
  <1>6. /\ View!phase = "write" /\ View!owner = "WRITE" => Offset = Len(xfer)
        /\ ~(View!phase = "write" /\ View!owner = "WRITE") => Offset = 0
    BY DEF Offset, View!writing_out
  <1>7. /\ Idles => View!phase = "idle"
        /\ View!owner = "NEW_FETCH" => View!phase = "fetch"
        /\ View!owner = "FETCH" /\ qspi_busy = 1 => View!phase = "fetch"
        /\ Dispatches => View!phase = View!after_tcd
        /\ Keeps => View!phase = "write"
        /\ View!owner = "READ" /\ qspi_busy = 1 => View!phase = "read"
        /\ View!owner = "WRITE" /\ qspi_busy = 1 => View!phase = "write"
        /\ Closes => View!phase = View!after_write
    BY <1>1 DEF View!phase, Idles, Dispatches, Keeps, Closes, sys_control_state_t
  <1>8. ~Closes => left_over = remaining /\ transfer_len(desc) - left_over = behind
    BY DEF Closes, left_over, fresh, behind, View!owner
  <1>9. /\ Dispatches => ~(View!owner = "FETCH" /\ qspi_busy = 1) /\ View!owner # "WRITE"
        /\ Keeps => View!owner # "WRITE"
        /\ Closes => View!owner # "FETCH" /\ ~(View!owner = "WRITE" /\ qspi_busy = 1)
        /\ Dispatches \/ Keeps \/ View!owner \in {"NEW_FETCH", "READ"} => ~Closes
        /\ View!owner = "WRITE" /\ qspi_busy = 1 => ~Closes
    BY DEF Dispatches, Keeps, Closes
  <1>10. Idles => Mapped("idle", HeadTcd, 0, 0)
    BY <1>4, <1>5, <1>6, <1>7 DEF Mapped
  <1>11. View!owner = "NEW_FETCH" => Mapped("fetch", NextTcd(task_ctrl_desc), 0, 0)
    BY <1>4, <1>5, <1>6, <1>7 DEF Mapped
  <1>12. View!owner = "FETCH" /\ qspi_busy = 1 => Mapped("fetch", Origin, 0, 0)
    BY <1>4, <1>5, <1>6, <1>7 DEF Mapped
  <1>13. Dispatches =>
           /\ quit(task_ctrl_desc) = 1 => Mapped("idle", HeadTcd, 0, 0)
           /\ quit(task_ctrl_desc) = 0 /\ remaining = 0
                => Mapped("fetch", NextTcd(task_ctrl_desc), 0, 0)
           /\ quit(task_ctrl_desc) = 0 /\ remaining # 0
                => Mapped("read", Origin, behind, 0)
    BY <1>3, <1>4, <1>5, <1>6, <1>7, <1>8, <1>9 DEF Mapped
  <1>14. Keeps => Mapped("write", Origin, behind, 0)
    BY <1>4, <1>5, <1>6, <1>7, <1>8, <1>9 DEF Mapped
  <1>15. View!owner = "READ" /\ qspi_busy = 1 => Mapped("read", Origin, behind, 0)
    BY <1>4, <1>5, <1>6, <1>7, <1>8, <1>9 DEF Mapped
  <1>16. View!owner = "WRITE" /\ qspi_busy = 1 => Mapped("write", Origin, behind, Len(xfer))
    BY <1>4, <1>5, <1>6, <1>7, <1>8, <1>9 DEF Mapped
  <1>17. Closes =>
           /\ left_over = 0 => Mapped("fetch", NextTcd(task_ctrl_desc), 0, 0)
           /\ left_over # 0
                => Mapped("read", Origin, transfer_len(desc) - left_over, 0)
    BY <1>3, <1>4, <1>5, <1>6, <1>7, <1>9 DEF Mapped, Closes
  <1> QED BY <1>10, <1>11, <1>12, <1>13, <1>14, <1>15, <1>16, <1>17 DEF Reading

-------------------------------------------------------------------------------
(***************************************************************************)
(* Every posedge is a step of the interpreter, or none.                    *)
(***************************************************************************)
Recorded == <<mem, desc, held, txn>>

\* A reset is the interpreter's kill.
LEMMA StepReset ==
  ASSUME ChainInv, Reading', Next, rst_n = 0
  PROVE  Chain!Reset
  <1>1. /\ UNCHANGED Recorded /\ View!owner' = "SYS_CTRL_IDLE"
    BY RegistersReset DEF ChainInv, Reset, View!owner, device, history, Recorded
  <1>2. Mapped("idle", HeadTcd, 0, 0)'
    BY <1>1 DEF Reading, Idles
  <1>3. HeadTcd' = Chain!HEAD
    BY DEF HeadTcd, Chain!HEAD, Chain!QSPI_PSRAM0, QSPI_PSRAM0
  <1> QED BY <1>1, <1>2, <1>3 DEF Mapped, Offset, Recorded, Chain!Reset

\* What a state is read as while it does nothing.
LEMMA StepStutter ==
  ASSUME NEW p, NEW a, NEW m, NEW o, Mapped(p, a, m, o), UNCHANGED Recorded,
         View!phase' = p, View!at' = a, View!moved' = m, Offset' = o
  PROVE  UNCHANGED Chain!vars
  BY DEF Mapped, Offset, Recorded, Chain!vars

\* The engine is idle before and after a clk outside a transaction, unless one begins.
LEMMA StepQuiet ==
  ASSUME ChainInv, Next, rst_n = 1, qspi_busy = 0
  PROVE  /\ UNCHANGED Recorded
         /\ qspi_busy' = 0 <=> ~(curr_state \notin TxnStates /\ next_state \in TxnStates)
         /\ curr_state \notin TxnStates /\ next_state \in TxnStates
              => Len(xfer') = 0 /\ qspi_busy' = 1
  <1>1. CASE curr_state \notin TxnStates /\ next_state \in TxnStates
    <2>1. AcceptTxn
      BY <1>1, StateActions DEF ChainInv
    <2>2. UNCHANGED Recorded
      BY <2>1 DEF AcceptTxn, history, Recorded
    <2> QED BY <1>1, <2>1, <2>2, Accepted DEF ChainInv
  <1>2. CASE ~(curr_state \notin TxnStates /\ next_state \in TxnStates)
    <2>1. UNCHANGED <<engine, device, history>>
      BY <1>2, StateActions DEF ChainInv
    <2> QED BY <1>2, <2>1 DEF engine, device, history, Recorded
  <1> QED BY <1>1, <1>2

\* IDLE and STALL: only START moves the interpreter.
LEMMA StepIdle ==
  ASSUME ChainInv, ChainInv', Reading, Reading', Next, rst_n = 1,
         curr_state \in {"SYS_CTRL_IDLE", "STALL"}
  PROVE  Chain!Start \/ UNCHANGED Chain!vars
  <1>1. /\ UNCHANGED datapath /\ qspi_busy = 0 /\ desc' = desc
        /\ UNCHANGED Recorded /\ qspi_busy' = 0
    <2>1. qspi_busy = 0 /\ UNCHANGED datapath /\ next_state \notin TxnStates
      BY StateActions, RequestType, DescriptorSteps DEF ChainInv, TxnStates, IdleOrStall,
         next_state, yields, resume_next, StallOrigins
    <2> QED BY <2>1, StepQuiet DEF Recorded
  <1>2. /\ View!owner' \in {View!owner, "NEW_FETCH"}
        /\ View!owner' # View!owner => View!owner = "SYS_CTRL_IDLE"
        /\ View!owner \notin TxnStates /\ View!owner \in sys_control_state_t \ {"STALL"}
        /\ ~fresh /\ ~fresh'
    BY DescriptorSteps DEF ChainInv, View!owner, next_state, yields, resume_next,
       StallOrigins, TxnStates, fresh, sys_control_state_t
  <1>3. CASE View!owner' # View!owner
    <2>1. Mapped("idle", HeadTcd, 0, 0) /\ Mapped("fetch", NextTcd(task_ctrl_desc), 0, 0)'
      BY <1>2, <1>3 DEF Reading, Idles
    <2>2. next_tcd(task_ctrl_desc') = 0 /\ next_tcd_device(task_ctrl_desc') = 0
      BY <1>1, <1>2, <1>3 DEF ChainInv, DescriptorInv, datapath
    <2>3. WireAddr(0) = 0
      BY SMT DEF WireAddr, ADDR_MAX
    <2>4. NextTcd(task_ctrl_desc)' = HeadTcd
      BY <2>2, <2>3 DEF NextTcd, HeadTcd, QSPI_PSRAM0
    <2> QED BY <1>1, <2>1, <2>4 DEF Mapped, Offset, Recorded, Chain!Start
  <1>4. CASE View!owner' = View!owner
    <2>1. /\ remaining' = remaining /\ behind' = behind /\ left_over' = left_over
          /\ Origin' = Origin /\ NextTcd(task_ctrl_desc)' = NextTcd(task_ctrl_desc)
          /\ quit(task_ctrl_desc)' = quit(task_ctrl_desc) /\ write_pending' = write_pending
          /\ transfer_len(desc)' = transfer_len(desc) /\ HeadTcd' = HeadTcd
      BY <1>1, <1>2, <1>4 DEF datapath, remaining, behind, left_over, chunk, Origin,
         NextTcd, HeadTcd
    <2>2. /\ (Idles' <=> Idles) /\ (Dispatches' <=> Dispatches) /\ (Keeps' <=> Keeps)
          /\ (Closes' <=> Closes)
      BY <1>1, <1>4, <2>1 DEF Idles, Dispatches, Keeps, Closes
    <2>3. \/ Idles \/ View!owner = "NEW_FETCH" \/ Closes
          \/ Dispatches \/ Keeps
      BY <1>1, <1>2, RequestType DEF Idles, Dispatches, Keeps, Closes, TxnStates,
         sys_control_state_t, ChainInv, IInv, CoreTypeOK, TypeOK, Bit
    <2>4. quit(task_ctrl_desc) \in {0, 1}
      BY QuitType DEF ChainInv, IInv, CoreTypeOK, TypeOK
    <2>5. UNCHANGED <<View!phase, View!at, View!moved, Offset>>
      BY <1>4, <2>1, <2>2, <2>3, <2>4 DEF Reading, Mapped
    <2> QED BY <1>1, <2>5 DEF Recorded, Chain!vars, Offset
  <1> QED BY <1>3, <1>4

\* NEW_FETCH keeps the pointer it fetches by.
LEMMA StepNewFetch ==
  ASSUME ChainInv, ChainInv', Reading, Reading', Next, rst_n = 1, curr_state = "NEW_FETCH"
  PROVE  UNCHANGED Chain!vars
  <1>1. /\ NewFetch /\ qspi_busy = 0 /\ UNCHANGED Recorded /\ View!owner = "NEW_FETCH"
    BY StateActions, RequestType, StepQuiet DEF ChainInv, TxnStates, View!owner
  <1>2. /\ next_state \in {"STALL", "FETCH"}
        /\ next_state = "STALL" => View!owner' = "NEW_FETCH"
        /\ next_state = "FETCH" => View!owner' = "FETCH" /\ qspi_busy' = 1
    BY <1>1, DescriptorSteps, StepQuiet DEF ChainInv, View!owner, next_state, resume_next,
       TxnStates
  <1>3. Mapped("fetch", NextTcd(task_ctrl_desc), 0, 0)
    BY <1>1 DEF Reading
  <1>4. NextTcd(task_ctrl_desc)' = NextTcd(task_ctrl_desc) /\ Origin' = NextTcd(task_ctrl_desc)
    BY <1>1 DEF NewFetch, NextTcd, Origin
  <1>5. UNCHANGED <<View!phase, View!at, View!moved, Offset>>
    BY <1>2, <1>3, <1>4 DEF Reading, Mapped
  <1> QED BY <1>1, <1>5 DEF Recorded, Chain!vars, Offset

\* The interpreter's copies of the package.
LEMMA ChainNames ==
  /\ \A t : /\ Chain!quit(t) = quit(t) /\ Chain!transfer_len(t) = transfer_len(t)
            /\ Chain!src_ptr(t) = src_ptr(t) /\ Chain!dest_ptr(t) = dest_ptr(t)
            /\ Chain!src_device(t) = src_device(t) /\ Chain!dest_device(t) = dest_device(t)
            /\ Chain!Successor(t) = NextTcd(t)
  /\ \A s : Chain!ToNibbles(s) = ToNibbles(s)
  /\ \A a : Chain!WireAddr(a) = WireAddr(a)
  /\ Chain!HEAD = HeadTcd
  <1>1. \A t, i : Chain!Word24(t, i) = Word24(t, i)
    BY Zenon DEF Chain!Word24, Chain!Join, Word24, Join
  <1>2. \A a : Chain!WireAddr(a) = WireAddr(a)
    BY DEF Chain!WireAddr, WireAddr, Chain!ADDR_MAX, ADDR_MAX
  <1>3. \A t : /\ Chain!quit(t) = quit(t) /\ Chain!transfer_len(t) = transfer_len(t)
               /\ Chain!src_ptr(t) = src_ptr(t) /\ Chain!dest_ptr(t) = dest_ptr(t)
               /\ Chain!src_device(t) = src_device(t) /\ Chain!dest_device(t) = dest_device(t)
               /\ Chain!next_tcd_device(t) = next_tcd_device(t)
               /\ Chain!next_tcd(t) = next_tcd(t)
    BY <1>1, Zenon DEF Chain!quit, quit, Chain!transfer_len, transfer_len, Chain!Join, Join,
       Chain!src_ptr, src_ptr, Chain!dest_ptr, dest_ptr, Chain!src_device, src_device,
       Chain!dest_device, dest_device, Chain!next_tcd_device, next_tcd_device,
       Chain!next_tcd, next_tcd
  <1>4. \A t : Chain!Successor(t) = NextTcd(t)
    BY <1>2, <1>3, Zenon DEF Chain!Successor, NextTcd
  <1>5. \A s : Chain!ToNibbles(s) = ToNibbles(s)
    BY Zenon DEF Chain!ToNibbles, ToNibbles
  <1>6. Chain!HEAD = HeadTcd
    BY DEF Chain!HEAD, HeadTcd, Chain!QSPI_PSRAM0, QSPI_PSRAM0
  <1> QED BY <1>2, <1>3, <1>4, <1>5, <1>6

\* A request is for a cell of a device (A[22:0]).
LEMMA WireType ==
  ASSUME IInv
  PROVE  qspi_addr \in qspi_addr_t /\ WireAddr(qspi_addr) \in Nat
  <1>1. /\ src_ptr(task_ctrl_desc) \in qspi_addr_t /\ dest_ptr(task_ctrl_desc) \in qspi_addr_t
        /\ next_tcd(task_ctrl_desc) \in qspi_addr_t /\ active_fetch_addr \in qspi_addr_t
        /\ curr_state \in sys_control_state_t
    BY FieldTypes DEF IInv, CoreTypeOK, TypeOK
  <1>2. 0 \in qspi_addr_t
    BY AddrNumbers, SMT
  <1>3. qspi_addr \in qspi_addr_t
    BY <1>1, <1>2 DEF qspi_addr, pending, fetch_addr, sys_control_state_t
  <1>4. qspi_addr \in Nat
    BY <1>3, AddrNumbers
  <1>5. WireAddr(qspi_addr) \in Nat
    BY <1>4, SMT DEF WireAddr, ADDR_MAX
  <1> QED BY <1>3, <1>5

\* What a read has transferred is the span of memory it was asked for.
LEMMA SpanRead ==
  ASSUME ChainInv, qspi_busy = 1, FinishTxn, req.cmd = QSPI_CMD_FAST_READ,
         NEW d, NEW a, NEW n \in Nat, req.device_sel = d, WireAddr(req.addr) = a,
         qspi_byte_len = n
  PROVE  Chain!ReadSpan(mem, d, a, n) = xfer
  <1>1. xfer \in Seq(Byte) /\ Len(xfer) = n
    BY Complete DEF ChainInv, StreamInv
  <1>2. \A j \in 1 .. n : xfer[j] = CellByte(j - 1)
    BY <1>1 DEF ChainInv, StreamInv
  <1>3. \A j \in 1 .. n : CellByte(j - 1) = ByteAt(mem, d, a + (j - 1))
    BY DEF CellByte
  <1>4. Chain!ReadSpan(mem, d, a, n) = [j \in 1 .. n |-> ByteAt(mem, d, a + j - 1)]
    BY SameMemory, Zenon DEF Chain!ReadSpan
  <1>5. a \in Nat
    BY RequestType, WireType DEF ChainInv
  <1>6. xfer = [j \in 1 .. n |-> xfer[j]]
    BY <1>1, LenProperties
  <1> QED BY <1>2, <1>3, <1>4, <1>5, <1>6

\* The end of a fetch is the interpreter's: the descriptor is the one at the pointer, and
\* says what comes next.
LEMMA FetchEnds ==
  ASSUME ChainInv, ChainInv', Reading, Reading', Next, rst_n = 1, curr_state = "FETCH",
         qspi_busy = 1, FinishTxn
  PROVE  Chain!Fetch
  <1>1. /\ View!owner = "FETCH" /\ View!owner' = "FETCH" /\ qspi_busy' = 0
        /\ mem' = mem /\ held' = held
        /\ task_ctrl_desc' = desc' /\ desc' = ToNibbles(xfer)
        /\ txn' = [kind |-> "FETCH_READ", device |-> req.device_sel,
                   address |-> WireAddr(req.addr), data |-> xfer]
    <2>1. next_state = "FETCH" /\ View!owner = "FETCH"
      BY StateActions DEF ChainInv, View!owner
    <2>2. View!owner' = "FETCH"
      BY <2>1, DescriptorSteps DEF ChainInv
    <2>3. task_ctrl_desc' = desc' /\ desc' = ToNibbles(xfer)
      BY RegistersFetch DEF ChainInv
    <2> QED BY <2>1, <2>2, <2>3 DEF FinishTxn, Engine!Finish, device, KindOf
  <1>2. /\ req.device_sel = active_fetch_device /\ req.addr = active_fetch_addr
        /\ req.cmd = QSPI_CMD_FAST_READ /\ qspi_byte_len = 11
    BY RequestType, CommandOf DEF ChainInv, qspi_device_sel, qspi_addr, fetch_addr,
       qspi_byte_len, QPI_TCD_BYTES
  <1>3. Mapped("fetch", Origin, 0, 0)
    BY <1>1 DEF Reading
  <1>4. /\ View!at.device = active_fetch_device
        /\ View!at.address = WireAddr(active_fetch_addr)
    BY <1>3 DEF Mapped, Origin
  <1>5. Chain!ReadSpan(mem, View!at.device, View!at.address, Chain!QPI_TCD_BYTES) = xfer
    <2>1. Chain!QPI_TCD_BYTES = 11 /\ 11 \in Nat
      BY DEF Chain!QPI_TCD_BYTES
    <2> QED BY <1>2, <1>4, <2>1, SpanRead
  <1>6. Chain!Transaction("FETCH_READ", View!at.device, View!at.address, xfer) = txn'
    BY <1>1, <1>2, <1>4 DEF Chain!Transaction
  <1>7. /\ Dispatches' /\ remaining' = transfer_len(desc') /\ behind' = 0
        /\ quit(desc') \in {0, 1} /\ Origin' = Origin
        /\ quit(task_ctrl_desc)' = quit(desc')
        /\ NextTcd(task_ctrl_desc)' = NextTcd(desc') /\ HeadTcd' = HeadTcd
    <2>1. desc' \in tcd_t
      BY DEF ChainInv, RegisterInv
    <2>2. transfer_len(desc') \in 0 .. 255 /\ quit(desc') \in {0, 1}
      BY <2>1, FieldTypes, QuitType
    <2>3. remaining' = transfer_len(desc') /\ behind' = 0
      BY <1>1, <2>2 DEF remaining, behind
    <2>4. Origin' = Origin
      BY StateActions DEF ChainInv, Fetch, Origin
    <2>5. HeadTcd' = HeadTcd /\ Dispatches'
      BY <1>1 DEF HeadTcd, Dispatches
    <2>6. NextTcd(task_ctrl_desc)' = NextTcd(desc')
      BY <1>1, Zenon DEF NextTcd
    <2>7. quit(task_ctrl_desc)' = quit(desc')
      BY <1>1, Zenon
    <2> QED BY <2>2, <2>3, <2>4, <2>5, <2>6, <2>7
  <1>8. /\ quit(desc') = 1 => Mapped("idle", HeadTcd, 0, 0)'
        /\ quit(desc') = 0 /\ transfer_len(desc') = 0
             => Mapped("fetch", NextTcd(task_ctrl_desc), 0, 0)'
        /\ quit(desc') = 0 /\ transfer_len(desc') # 0
             => Mapped("read", Origin, behind, 0)'
    BY <1>7 DEF Reading
  <1>9. /\ View!phase' = IF quit(desc') = 1 THEN "idle"
                         ELSE IF transfer_len(desc') = 0 THEN "fetch" ELSE "read"
        /\ View!phase' = "idle" => View!at' = HeadTcd
        /\ View!phase' = "fetch" => View!at' = NextTcd(desc')
        /\ View!phase' = "read" => View!at' = View!at
        /\ View!moved' = View!moved /\ Offset' = Offset
    BY <1>3, <1>7, <1>8 DEF Mapped
  <1>10. View!phase' = "idle" \/ View!phase' = "fetch" \/ View!phase' = "read"
    BY <1>9
  <1>11. View!at' = CASE View!phase' = "idle" -> Chain!HEAD
                      [] View!phase' = "fetch" -> Chain!Successor(desc')
                      [] View!phase' = "read" -> View!at
    BY <1>9, <1>10, ChainNames
  <1>12. View!phase' = IF Chain!quit(desc') = 1 THEN "idle"
                       ELSE IF Chain!transfer_len(desc') = 0 THEN "fetch" ELSE "read"
    BY <1>9, ChainNames, Zenon
  <1>13. desc' = Chain!ToNibbles(xfer) /\ View!phase = "fetch"
    BY <1>1, <1>3, ChainNames DEF Mapped
  <1> QED BY <1>1, <1>5, <1>6, <1>9, <1>11, <1>12, <1>13, Zenon DEF Chain!Fetch, Offset

\* FETCH: the interpreter takes its step with the last clk of the transaction.
LEMMA StepFetch ==
  ASSUME ChainInv, ChainInv', Reading, Reading', Next, rst_n = 1, curr_state = "FETCH"
  PROVE  Chain!Fetch \/ UNCHANGED Chain!vars
  <1>1. CASE qspi_busy = 1 /\ FinishTxn
    BY <1>1, FetchEnds
  <1>2. CASE qspi_busy = 1 /\ ~FinishTxn
    <2>1. /\ Fetch /\ next_state = "FETCH" /\ View!owner = "FETCH"
          /\ Pause \/ ReadBeat
      <3>1. ~WriteBeat
        BY CommandOf, RequestType, EngineCommands DEF ChainInv, WriteBeat, Engine!WriteBeat
      <3> QED BY <1>2, <3>1, StateActions DEF ChainInv, View!owner
    <2>2. View!owner' = "FETCH" /\ qspi_busy' = 1
      BY <1>2, <2>1, DescriptorSteps DEF ChainInv, Pause, ReadBeat, Engine!Wait,
         Engine!AskNibble, Engine!ReadBeat
    <2>3. UNCHANGED Recorded
      BY <1>2, <2>1, ReadData DEF ChainInv, Pause, ReadBeat, history, device, Recorded
    <2>4. Mapped("fetch", Origin, 0, 0) /\ Mapped("fetch", Origin, 0, 0)' /\ Origin' = Origin
      BY <1>2, <2>1, <2>2 DEF Reading, Fetch, Origin
    <2> QED BY <2>3, <2>4 DEF Mapped, Recorded, Chain!vars, Offset
  <1>3. CASE qspi_busy = 0
    <2>1. /\ Fetch /\ next_state = "NEW_OP" /\ View!owner = "FETCH" /\ write_pending = 0
          /\ UNCHANGED Recorded
      BY <1>3, StateActions, StepQuiet, CommandOf DEF ChainInv, View!owner, next_state, yields,
         resume_next
    <2>2. /\ View!owner' = "NEW_OP" /\ task_ctrl_desc' = task_ctrl_desc /\ desc' = desc
          /\ write_pending' = 0
      BY <2>1, DescriptorSteps DEF ChainInv, Recorded, Fetch
    <2>3. /\ remaining' = remaining /\ behind' = behind /\ Origin' = Origin
          /\ NextTcd(task_ctrl_desc)' = NextTcd(task_ctrl_desc)
          /\ quit(task_ctrl_desc)' = quit(task_ctrl_desc) /\ HeadTcd' = HeadTcd
          /\ quit(task_ctrl_desc) \in {0, 1} /\ Dispatches /\ Dispatches'
      BY <1>3, <2>1, <2>2, QuitType DEF remaining, behind, Origin, NextTcd, HeadTcd, Fetch,
         Dispatches, ChainInv, IInv, CoreTypeOK, TypeOK
    <2>4. UNCHANGED <<View!phase, View!at, View!moved, Offset>>
      BY <2>3 DEF Reading, Mapped
    <2> QED BY <2>1, <2>4 DEF Recorded, Chain!vars, Offset
  <1> QED BY <1>1, <1>2, <1>3, RequestType DEF ChainInv

\* NEW_OP only dispatches.
LEMMA StepNewOp ==
  ASSUME ChainInv, ChainInv', Reading, Reading', Next, rst_n = 1, curr_state = "NEW_OP"
  PROVE  UNCHANGED Chain!vars
  <1>1. /\ NewOp /\ qspi_busy = 0 /\ UNCHANGED Recorded /\ View!owner = "NEW_OP"
        /\ desc' = desc /\ write_pending' = write_pending /\ Origin' = Origin
        /\ write_pending \in {0, 1} /\ quit(task_ctrl_desc) \in {0, 1}
        /\ task_ctrl_desc \in tcd_t /\ HeadTcd' = HeadTcd
        /\ write_pending = 1 => quit(task_ctrl_desc) = 0 /\ remaining # 0
    BY StateActions, RequestType, StepQuiet, QuitType DEF ChainInv, TxnStates, View!owner,
       NewOp, Origin, HeadTcd, Recorded, IInv, CoreTypeOK, TypeOK, Bit, ControlInv, Active
  <1>2. next_state = "STALL" \/ next_state = after_fetch_or_read
    BY <1>1 DEF next_state, resume_next
  <1>3. /\ next_state = "STALL" => View!owner' = "NEW_OP"
        /\ next_state # "STALL" => View!owner' = next_state
        /\ next_state \in TxnStates => Len(xfer') = 0 /\ qspi_busy' = 1
    BY <1>1, DescriptorSteps, StepQuiet DEF ChainInv, TxnStates
  <1>4. CASE quit(task_ctrl_desc) = 1
    <2>1. write_pending = 0
      BY <1>1, <1>4
    <2>2. Mapped("idle", HeadTcd, 0, 0)
      BY <1>1, <1>4, <2>1 DEF Reading, Dispatches
    <2>3. quit(task_ctrl_desc') = 1
      BY <1>1, <1>4, QuitFields DEF NewOp
    <2>4. View!owner' \in {"NEW_OP", "SYS_CTRL_IDLE"}
      BY <1>2, <1>3, <1>4 DEF after_fetch_or_read
    <2>5. Mapped("idle", HeadTcd, 0, 0)'
      BY <1>1, <2>1, <2>3, <2>4 DEF Reading, Dispatches, Idles
    <2> QED BY <1>1, <2>2, <2>5 DEF Mapped, Recorded, Chain!vars, Offset
  <1>5. CASE quit(task_ctrl_desc) = 0
    <2>1. /\ task_ctrl_desc' = task_ctrl_desc /\ remaining' = remaining /\ behind' = behind
          /\ NextTcd(task_ctrl_desc)' = NextTcd(task_ctrl_desc)
          /\ quit(task_ctrl_desc)' = quit(task_ctrl_desc)
      BY <1>1, <1>5 DEF NewOp, remaining, behind, NextTcd
    <2>2. CASE remaining = 0
      <3>1. Mapped("fetch", NextTcd(task_ctrl_desc), 0, 0)
        BY <1>1, <1>5, <2>2 DEF Reading, Dispatches
      <3>2. View!owner' \in {"NEW_OP", "NEW_FETCH"}
        BY <1>2, <1>3, <1>5, <2>2 DEF after_fetch_or_read
      <3>3. Mapped("fetch", NextTcd(task_ctrl_desc), 0, 0)'
        BY <1>1, <1>5, <2>1, <2>2, <3>2 DEF Reading, Dispatches
      <3> QED BY <1>1, <2>1, <3>1, <3>3 DEF Mapped, Recorded, Chain!vars, Offset
    <2>3. CASE remaining # 0 /\ write_pending = 0
      <3>1. Mapped("read", Origin, behind, 0)
        BY <1>1, <1>5, <2>3 DEF Reading, Dispatches
      <3>2. View!owner' = "NEW_OP" \/ (View!owner' = "READ" /\ qspi_busy' = 1)
        BY <1>2, <1>3, <1>5, <2>3 DEF after_fetch_or_read, TxnStates
      <3>3. Mapped("read", Origin, behind, 0)'
        BY <1>1, <1>5, <2>1, <2>3, <3>2 DEF Reading, Dispatches
      <3> QED BY <1>1, <2>1, <3>1, <3>3 DEF Mapped, Recorded, Chain!vars, Offset
    <2>4. CASE remaining # 0 /\ write_pending = 1
      <3>1. Mapped("write", Origin, behind, 0)
        BY <1>1, <2>4 DEF Reading, Keeps
      <3>2. \/ View!owner' = "NEW_OP"
            \/ View!owner' = "WRITE" /\ qspi_busy' = 1 /\ Len(xfer') = 0
        BY <1>2, <1>3, <1>5, <2>4 DEF after_fetch_or_read, TxnStates
      <3>3. /\ View!phase' = "write" /\ View!at' = Origin /\ View!moved' = behind
            /\ Offset' = 0
        BY <1>1, <2>1, <2>4, <3>2 DEF Reading, Keeps, Mapped
      <3> QED BY <1>1, <3>1, <3>3 DEF Mapped, Recorded, Chain!vars, Offset
    <2> QED BY <1>1, <2>2, <2>3, <2>4
  <1> QED BY <1>1, <1>4, <1>5

-------------------------------------------------------------------------------
(***************************************************************************)
(* A span of a descriptor that leaves its device is outside the contract   *)
(* (docs/human/architecture/system.md, firmware.md): the register's        *)
(* pointer runs over into address bit 23 and back to 0, the interpreter's  *)
(* does not.                                                               *)
(***************************************************************************)
SpansFit ==
  quit(desc) = 0 =>
    /\ WireAddr(src_ptr(desc)) + transfer_len(desc) <= ADDR_MAX + 1
    /\ WireAddr(dest_ptr(desc)) + transfer_len(desc) <= ADDR_MAX + 1

\* The request of a chunk is where the interpreter is.
LEMMA ChunkAddress ==
  ASSUME ChainInv, SpansFit, curr_state \in {"READ", "WRITE"}, View!moved = behind
  PROVE  /\ behind \in Nat /\ remaining \in 1 .. 255 /\ chunk \in 1 .. 8
         /\ behind = transfer_len(desc) - remaining
         /\ Chain!left = remaining /\ Chain!chunk = chunk
         /\ curr_state = "READ" =>
              /\ qspi_device_sel = Chain!src_device(desc)
              /\ WireAddr(qspi_addr) = Chain!src
         /\ curr_state = "WRITE" =>
              /\ qspi_device_sel = Chain!dest_device(desc)
              /\ WireAddr(qspi_addr) = Chain!dest
  <1>1. /\ View!owner = curr_state /\ quit(task_ctrl_desc) = 0 /\ remaining # 0 /\ ~fresh
        /\ IInv /\ RegisterInv /\ TargetInv
    BY DEF ChainInv, IInv, ControlInv, Active, View!owner, fresh, DescriptorInv
  <1>2. /\ SameTarget(task_ctrl_desc, desc)
        /\ behind \in Nat /\ remaining \in 0 .. 255 /\ transfer_len(desc) \in 0 .. 255
        /\ behind = transfer_len(desc) - remaining
        /\ src_ptr(desc) \in qspi_addr_t /\ dest_ptr(desc) \in qspi_addr_t
        /\ behind + 0 = behind
    BY <1>1, TargetActive
  <1>3. DMA_BUF_DEPTH \in 1 .. 8 /\ chunk \in 1 .. 8
    BY <1>1, <1>2, ChunkType DEF chunk
  <1>4. Chain!left = remaining
    BY <1>2, ChainNames DEF Chain!left
  <1>5. Chain!chunk = chunk
    BY <1>4 DEF Chain!chunk, chunk
  <1>6. quit(desc) = 0
    BY <1>1, <1>2 DEF SameTarget
  <1>7. behind < transfer_len(desc) /\ ADDR_MAX \in Nat
    BY <1>1, <1>2, AddrNumbers
  <1>8. WireAddr(src_ptr(desc)) \in Nat /\ WireAddr(dest_ptr(desc)) \in Nat
    <2>1. src_ptr(desc) \in Nat /\ dest_ptr(desc) \in Nat
      BY <1>2, AddrNumbers
    <2> QED BY <2>1, SMT DEF WireAddr, ADDR_MAX
  <1>9. /\ WireAddr(src_ptr(desc)) + behind <= ADDR_MAX
        /\ WireAddr(dest_ptr(desc)) + behind <= ADDR_MAX
    BY <1>2, <1>6, <1>7, <1>8 DEF SpansFit
  <1>10. /\ WireAddr(Ahead(src_ptr(desc), behind)) = WireAddr(src_ptr(desc)) + behind
         /\ WireAddr(Ahead(dest_ptr(desc), behind)) = WireAddr(dest_ptr(desc)) + behind
    BY <1>2, <1>9, WireAhead
  <1>11. CASE curr_state = "READ"
    <2>1. write_pending # 1
      BY <1>1, <1>11 DEF ControlInv, IInv
    <2>2. src_ptr(task_ctrl_desc) = Ahead(src_ptr(desc), behind)
      BY <1>1, <1>2, <1>11, <2>1, Zenon DEF TargetInv
    <2>3. qspi_addr = src_ptr(task_ctrl_desc) /\ qspi_device_sel = src_device(task_ctrl_desc)
      BY <1>11 DEF qspi_addr, qspi_device_sel
    <2>4. qspi_device_sel = Chain!src_device(desc)
      BY <1>2, <2>3, ChainNames DEF SameTarget
    <2>5. WireAddr(qspi_addr) = Chain!src
      BY <1>10, <2>2, <2>3, ChainNames DEF Chain!src
    <2> QED BY <1>1, <1>2, <1>3, <1>4, <1>5, <1>11, <2>4, <2>5
  <1>12. CASE curr_state = "WRITE"
    <2>2. dest_ptr(task_ctrl_desc) = Ahead(dest_ptr(desc), behind)
      BY <1>1, <1>2, <1>12, Zenon DEF TargetInv
    <2>3. qspi_addr = dest_ptr(task_ctrl_desc) /\ qspi_device_sel = dest_device(task_ctrl_desc)
      BY <1>12 DEF qspi_addr, qspi_device_sel
    <2>4. qspi_device_sel = Chain!dest_device(desc)
      BY <1>2, <2>3, ChainNames DEF SameTarget
    <2>5. WireAddr(qspi_addr) = Chain!dest
      BY <1>10, <2>2, <2>3, ChainNames DEF Chain!dest
    <2> QED BY <1>1, <1>2, <1>3, <1>4, <1>5, <1>12, <2>4, <2>5
  <1> QED BY <1>11, <1>12

\* The end of a read is the interpreter's: the chunk is that of the span.
LEMMA ReadEnds ==
  ASSUME ChainInv, ChainInv', Reading, Reading', SpansFit, Next, rst_n = 1,
         curr_state = "READ", qspi_busy = 1, FinishTxn
  PROVE  Chain!Read
  <1>1. /\ View!owner = "READ" /\ View!owner' = "READ" /\ qspi_busy' = 0
        /\ mem' = mem /\ desc' = desc /\ held' = xfer
        /\ txn' = [kind |-> "DATA_READ", device |-> req.device_sel,
                   address |-> WireAddr(req.addr), data |-> xfer]
        /\ task_ctrl_desc' = task_ctrl_desc /\ Origin' = Origin
    <2>1. next_state = "READ" /\ View!owner = "READ" /\ Read
      BY StateActions DEF ChainInv, View!owner
    <2>2. View!owner' = "READ"
      BY <2>1, DescriptorSteps DEF ChainInv
    <2> QED BY <2>1, <2>2 DEF FinishTxn, Engine!Finish, device, KindOf, Read, Origin
  <1>2. behind' = behind
    BY <1>1 DEF behind, remaining
  <1>3. Mapped("read", Origin, behind, 0) /\ Mapped("write", Origin, behind, 0)'
    BY <1>1 DEF Reading, Keeps
  <1>4. /\ Chain!chunk = chunk /\ chunk \in Nat
        /\ qspi_device_sel = Chain!src_device(desc) /\ WireAddr(qspi_addr) = Chain!src
    BY <1>3, ChunkAddress DEF Mapped
  <1>5. /\ req.device_sel = Chain!src_device(desc) /\ WireAddr(req.addr) = Chain!src
        /\ req.cmd = QSPI_CMD_FAST_READ /\ qspi_byte_len = chunk
    BY <1>4, RequestType, CommandOf, ChunkType DEF ChainInv
  <1>6. Chain!ReadSpan(mem, Chain!src_device(desc), Chain!src, Chain!chunk) = xfer
    BY <1>4, <1>5, SpanRead
  <1>7. txn' = Chain!Transaction("DATA_READ", Chain!src_device(desc), Chain!src, held')
    BY <1>1, <1>5 DEF Chain!Transaction
  <1> QED BY <1>1, <1>2, <1>3, <1>6, <1>7 DEF Mapped, Offset, Chain!Read

\* READ: the interpreter takes its step with the last clk of the transaction.
LEMMA StepRead ==
  ASSUME ChainInv, ChainInv', Reading, Reading', SpansFit, Next, rst_n = 1,
         curr_state = "READ"
  PROVE  Chain!Read \/ UNCHANGED Chain!vars
  <1>1. CASE qspi_busy = 1 /\ FinishTxn
    BY <1>1, ReadEnds
  <1>2. CASE qspi_busy = 1 /\ ~FinishTxn
    <2>1. /\ Read /\ next_state = "READ" /\ View!owner = "READ"
          /\ Pause \/ ReadBeat
      <3>1. ~WriteBeat
        BY CommandOf, RequestType, EngineCommands DEF ChainInv, WriteBeat, Engine!WriteBeat
      <3> QED BY <1>2, <3>1, StateActions DEF ChainInv, View!owner
    <2>2. View!owner' = "READ" /\ qspi_busy' = 1
      BY <1>2, <2>1, DescriptorSteps DEF ChainInv, Pause, ReadBeat, Engine!Wait,
         Engine!AskNibble, Engine!ReadBeat
    <2>3. UNCHANGED Recorded
      BY <1>2, <2>1, ReadData DEF ChainInv, Pause, ReadBeat, history, device, Recorded
    <2>4. task_ctrl_desc' = task_ctrl_desc /\ desc' = desc /\ Origin' = Origin
      BY <2>1, <2>3 DEF Read, Origin, Recorded
    <2>5. behind' = behind
      BY <2>4 DEF behind, remaining
    <2>6. Mapped("read", Origin, behind, 0) /\ Mapped("read", Origin, behind, 0)'
      BY <1>2, <2>1, <2>2 DEF Reading
    <2> QED BY <2>3, <2>4, <2>5, <2>6 DEF Mapped, Recorded, Chain!vars, Offset
  <1>3. CASE qspi_busy = 0
    <2>1. /\ Read /\ next_state = "NEW_OP" /\ View!owner = "READ" /\ UNCHANGED Recorded
      BY <1>3, StateActions, StepQuiet DEF ChainInv, View!owner, next_state, yields, resume_next
    <2>2. /\ View!owner' = "NEW_OP" /\ write_pending' = 1 /\ desc' = desc /\ Origin' = Origin
          /\ remaining' = remaining
      BY <2>1, DescriptorSteps, PointersOnly DEF ChainInv, Recorded, Read, Origin, remaining
    <2>3. behind' = behind
      BY <2>2 DEF behind
    <2>4. Mapped("write", Origin, behind, 0) /\ Mapped("write", Origin, behind, 0)'
      BY <1>3, <2>1, <2>2 DEF Reading, Keeps
    <2> QED BY <2>1, <2>2, <2>3, <2>4 DEF Mapped, Recorded, Chain!vars, Offset
  <1> QED BY <1>1, <1>2, <1>3, RequestType DEF ChainInv

\* A byte is stored where and as the interpreter stores it.
LEMMA StoreByte ==
  ASSUME ChainInv, ChainInv', Reading, Reading', SpansFit, Next, rst_n = 1,
         curr_state = "WRITE", qspi_busy = 1, WriteBeat
  PROVE  Chain!WriteByte \/ UNCHANGED Chain!vars
  <1>1. /\ View!owner = "WRITE" /\ View!owner' = "WRITE" /\ curr_state' = "WRITE"
        /\ qspi_busy' = 1
        /\ desc' = desc /\ held' = held /\ txn' = txn
        /\ task_ctrl_desc' = task_ctrl_desc /\ Origin' = Origin
    <2>1. next_state = "WRITE" /\ View!owner = "WRITE" /\ Write(qspi_wdata_next)
      BY StateActions DEF ChainInv, View!owner
    <2>2. View!owner' = "WRITE" /\ curr_state' = "WRITE"
      BY <2>1, DescriptorSteps DEF ChainInv
    <2> QED BY <2>1, <2>2 DEF WriteBeat, Engine!WriteBeat, history, Write, Origin
  <1>2. behind' = behind /\ chunk' = chunk
    BY <1>1 DEF behind, remaining, chunk
  <1>3. Mapped("write", Origin, behind, Len(xfer)) /\ Mapped("write", Origin, behind, Len(xfer))'
    BY <1>1 DEF Reading
  <1>4. /\ WireAddr(qspi_addr) = Chain!dest /\ qspi_device_sel = Chain!dest_device(desc)
    BY <1>3, ChunkAddress DEF Mapped
  <1>5. /\ req.device_sel = Chain!dest_device(desc) /\ WireAddr(req.addr) = Chain!dest
        /\ req.cmd = QSPI_CMD_WRITE
    BY <1>4, RequestType, CommandOf DEF ChainInv
  <1>6. PICK n \in Nibble : Transfer(n)
    BY BeatStream DEF ChainInv
  <1>7. CASE half = NO_NIBBLE
    <2>1. mem' = mem /\ xfer' = xfer
      BY <1>6, <1>7 DEF Transfer
    <2> QED BY <1>1, <1>2, <1>3, <2>1 DEF Mapped, Recorded, Chain!vars, Offset
  <1>8. CASE half # NO_NIBBLE
    <2>1. /\ xfer \in Seq(Byte) /\ Len(xfer) \in Nat /\ half \in 0 .. 16
      BY RequestType, NibblesOf DEF ChainInv, StreamInv
    <2>2. Len(xfer') = Len(xfer) + 1 /\ xfer'[Len(xfer) + 1] = 16 * half + n
      BY <1>6, <1>8, <2>1, TransferStream
    <2>3. mem' = Poke(mem, req.device_sel, WireAddr(req.addr) + Len(xfer), 16 * half + n)
      BY <1>5, <1>6, <1>8, Zenon DEF Transfer, transfer_addr
    <2>4. 16 * half + n = held[Len(xfer) + 1]
      <3>1. \A j \in 1 .. Len(xfer') : xfer'[j] = held'[j]
        BY <1>1 DEF ChainInv, RegisterInv, GivingInv
      <3>2. Len(xfer) + 1 \in 1 .. Len(xfer')
        BY <2>1, <2>2
      <3> QED BY <1>1, <2>2, <3>1, <3>2
    <2>5. Len(xfer) < Len(held)
      <3>1. sent + 1 <= 2 * chunk /\ Len(held) = chunk /\ chunk \in 0 .. 8
        BY Offered, ChunkType DEF ChainInv, RegisterInv, GivingInv
      <3>2. sent = 2 * Len(xfer) + 1
        BY <1>8 DEF sent
      <3> QED BY <2>1, <3>1, <3>2
    <2>6. mem' = Chain!Poke(mem, Chain!dest_device(desc), Chain!dest + Offset, held[Offset + 1])
      <3>1. Offset = Len(xfer)
        BY <1>3 DEF Mapped
      <3> QED BY <1>5, <2>3, <2>4, <3>1, SameMemory, Zenon
    <2>7. Offset' = Offset + 1 /\ Offset < Len(held) /\ View!phase = "write"
      BY <1>3, <2>2, <2>5 DEF Mapped
    <2> QED BY <1>1, <1>2, <1>3, <2>6, <2>7 DEF Mapped, Offset, Chain!WriteByte
  <1> QED BY <1>7, <1>8

\* The end of a write is the interpreter's: the chunk is done, and the payload may be.
LEMMA WriteEnds ==
  ASSUME ChainInv, ChainInv', Reading, Reading', SpansFit, Next, rst_n = 1,
         curr_state = "WRITE", qspi_busy = 1, FinishTxn
  PROVE  Chain!EndWrite
  <1>1. /\ View!owner = "WRITE" /\ View!owner' = "WRITE" /\ qspi_busy' = 0
        /\ mem' = mem /\ desc' = desc /\ held' = held
        /\ txn' = [kind |-> "DATA_WRITE", device |-> req.device_sel,
                   address |-> WireAddr(req.addr), data |-> xfer]
        /\ task_ctrl_desc' = task_ctrl_desc /\ Origin' = Origin
    <2>1. next_state = "WRITE" /\ View!owner = "WRITE" /\ Write(qspi_wdata_next)
      BY StateActions DEF ChainInv, View!owner
    <2>2. View!owner' = "WRITE"
      BY <2>1, DescriptorSteps DEF ChainInv
    <2> QED BY <2>1, <2>2 DEF FinishTxn, Engine!Finish, device, KindOf, Write, Origin
  <1>2. Mapped("write", Origin, behind, Len(xfer))
    BY <1>1 DEF Reading
  <1>3. /\ Chain!left = remaining /\ Chain!chunk = chunk /\ remaining \in 1 .. 255
        /\ behind \in Nat /\ chunk \in 1 .. 8 /\ behind = transfer_len(desc) - remaining
        /\ WireAddr(qspi_addr) = Chain!dest /\ qspi_device_sel = Chain!dest_device(desc)
    BY <1>2, ChunkAddress DEF Mapped
  <1>4. /\ req.device_sel = Chain!dest_device(desc) /\ WireAddr(req.addr) = Chain!dest
        /\ qspi_byte_len = chunk
    BY <1>3, RequestType, ChunkType DEF ChainInv
  <1>5. xfer = held
    <2>1. /\ xfer \in Seq(Byte) /\ held \in Seq(Byte) /\ Len(xfer) = chunk
          /\ Len(held) = chunk /\ \A j \in 1 .. Len(xfer) : xfer[j] = held[j]
      BY <1>4, Complete DEF ChainInv, StreamInv, RegisterInv, GivingInv
    <2> QED BY <2>1, SeqEqual
  <1>6. Offset = Len(held) /\ View!phase = "write"
    BY <1>2, <1>5 DEF Mapped
  <1>7. txn' = Chain!Transaction("DATA_WRITE", Chain!dest_device(desc), Chain!dest, held)
    BY <1>1, <1>4, <1>5 DEF Chain!Transaction
  <1>8. /\ left_over' = remaining - chunk /\ Closes'
        /\ transfer_len(desc)' - left_over' = behind + chunk
        /\ NextTcd(task_ctrl_desc)' = NextTcd(desc)
        /\ chunk <= remaining
    <2>1. remaining' = remaining /\ chunk' = chunk
      BY <1>1 DEF remaining, chunk
    <2>2. left_over' = remaining - chunk /\ Closes'
      BY <1>1, <2>1 DEF left_over, Closes
    <2>3. transfer_len(desc) \in 0 .. 255 /\ transfer_len(desc)' = transfer_len(desc)
      BY <1>1, FieldTypes DEF ChainInv, RegisterInv
    <2>4. chunk <= remaining
      BY <1>3 DEF chunk
    <2>5. SameTarget(task_ctrl_desc, desc)
      BY <1>1, TargetActive DEF ChainInv, IInv, ControlInv, Active, DescriptorInv
    <2>6. NextTcd(task_ctrl_desc)' = NextTcd(desc)
      BY <1>1, <2>5 DEF NextTcd, SameTarget
    <2> QED BY <1>3, <2>2, <2>3, <2>4, <2>6
  <1>9. CASE remaining > chunk
    <2>1. left_over' # 0
      BY <1>3, <1>8, <1>9
    <2>2. Mapped("read", Origin, transfer_len(desc) - left_over, 0)'
      BY <1>8, <2>1 DEF Reading
    <2>3. /\ View!phase' = "read" /\ View!moved' = View!moved + Chain!chunk
          /\ View!at' = View!at /\ Offset' = 0
      BY <1>1, <1>2, <1>3, <1>8, <2>2 DEF Mapped
    <2> QED BY <1>1, <1>3, <1>6, <1>7, <1>9, <2>3 DEF Offset, Chain!EndWrite
  <1>10. CASE ~(remaining > chunk)
    <2>1. left_over' = 0
      BY <1>3, <1>8, <1>10
    <2>2. Mapped("fetch", NextTcd(task_ctrl_desc), 0, 0)'
      BY <1>8, <2>1 DEF Reading
    <2>3. /\ View!phase' = "fetch" /\ View!moved' = 0
          /\ View!at' = Chain!Successor(desc) /\ Offset' = 0
      BY <1>8, <2>2, ChainNames DEF Mapped
    <2> QED BY <1>1, <1>3, <1>6, <1>7, <1>10, <2>3 DEF Offset, Chain!EndWrite
  <1> QED BY <1>9, <1>10

\* WRITE: a step for each byte stored, and one with the last clk of the transaction.
LEMMA StepWrite ==
  ASSUME ChainInv, ChainInv', Reading, Reading', SpansFit, Next, rst_n = 1,
         curr_state = "WRITE"
  PROVE  Chain!WriteByte \/ Chain!EndWrite \/ UNCHANGED Chain!vars
  <1>1. CASE qspi_busy = 1 /\ FinishTxn
    BY <1>1, WriteEnds
  <1>2. CASE qspi_busy = 1 /\ WriteBeat
    BY <1>2, StoreByte
  <1>3. CASE qspi_busy = 1 /\ ~FinishTxn /\ ~WriteBeat
    <2>1. /\ Write(qspi_wdata_next) /\ next_state = "WRITE" /\ View!owner = "WRITE"
          /\ Pause
      <3>1. ~ReadBeat
        BY CommandOf, RequestType, EngineCommands DEF ChainInv, ReadBeat, Engine!ReadBeat
      <3> QED BY <1>3, <3>1, StateActions DEF ChainInv, View!owner
    <2>2. View!owner' = "WRITE" /\ qspi_busy' = 1
      BY <1>3, <2>1, DescriptorSteps DEF ChainInv, Pause, Engine!Wait, Engine!AskNibble
    <2>3. UNCHANGED Recorded /\ desc' = desc /\ xfer' = xfer
      BY <2>1 DEF Pause, history, device, Recorded
    <2>4. task_ctrl_desc' = task_ctrl_desc /\ Origin' = Origin
      BY <2>1 DEF Write, Origin
    <2>5. behind' = behind
      BY <2>3, <2>4 DEF behind, remaining
    <2>6. /\ Mapped("write", Origin, behind, Len(xfer))
          /\ Mapped("write", Origin, behind, Len(xfer))'
      BY <1>3, <2>1, <2>2 DEF Reading
    <2> QED BY <2>3, <2>4, <2>5, <2>6 DEF Mapped, Recorded, Chain!vars, Offset
  <1>4. CASE qspi_busy = 0
    <2>1. /\ Write(qspi_wdata_next) /\ next_state = "UPDATE" /\ View!owner = "WRITE"
          /\ UNCHANGED Recorded
      BY <1>4, StateActions, StepQuiet DEF ChainInv, View!owner, next_state, yields, resume_next
    <2>2. /\ View!owner' = "UPDATE" /\ curr_state' = "UPDATE"
          /\ stalled_state' = "SYS_CTRL_IDLE" /\ desc' = desc /\ Origin' = Origin
          /\ remaining' = remaining
      BY <2>1, DescriptorSteps, PointersOnly DEF ChainInv, Recorded, Write, Origin, remaining
    <2>3. left_over' = left_over /\ transfer_len(desc)' = transfer_len(desc)
      BY <1>4, <2>1, <2>2 DEF left_over, fresh, chunk
    <2>4. NextTcd(task_ctrl_desc)' = NextTcd(task_ctrl_desc)
      <3>1. SameTarget(task_ctrl_desc, desc)
        BY <2>1, TargetActive DEF ChainInv, IInv, ControlInv, Active, DescriptorInv, View!owner
      <3>2. SameTarget(task_ctrl_desc', desc')
        <4>1. quit(task_ctrl_desc') = 0
          BY <2>2 DEF ChainInv, DescriptorInv
        <4> QED BY <2>2, <4>1 DEF ChainInv, DescriptorInv, TargetInv
      <3> QED BY <2>2, <3>1, <3>2 DEF SameTarget, NextTcd
    <2>5. Closes /\ Closes'
      BY <1>4, <2>1, <2>2 DEF Closes
    <2>6. UNCHANGED <<View!phase, View!at, View!moved, Offset>>
      BY <2>2, <2>3, <2>4, <2>5 DEF Reading, Mapped
    <2> QED BY <2>1, <2>6 DEF Recorded, Chain!vars, Offset
  <1> QED BY <1>1, <1>2, <1>3, <1>4, RequestType DEF ChainInv

\* UPDATE: the length register catches up with what was read out of it already.
LEMMA StepUpdate ==
  ASSUME ChainInv, ChainInv', Reading, Reading', Next, rst_n = 1, curr_state = "UPDATE"
  PROVE  UNCHANGED Chain!vars
  <1>1. /\ Update /\ qspi_busy = 0 /\ UNCHANGED Recorded /\ View!owner = "UPDATE"
        /\ desc' = desc /\ Origin' = Origin /\ (update_fresh <=> fresh)
        /\ write_pending' = 0 /\ quit(task_ctrl_desc) = 0
    BY StateActions, RequestType, StepQuiet, DescriptorSteps DEF ChainInv, TxnStates,
       View!owner, Update, Origin, Recorded, update_fresh, fresh, DescriptorInv
  <1>2. /\ next_state = "STALL" => View!owner' = "UPDATE"
        /\ next_state # "STALL" => next_state = after_update /\ View!owner' = next_state
        /\ ~fresh'
    BY <1>1, DescriptorSteps DEF ChainInv, next_state, resume_next, fresh, after_update
  <1>3. remaining' = left_over /\ left_over \in 0 .. 255
    <2>1. remaining \in 0 .. 255 /\ DMA_BUF_DEPTH \in 1 .. 8 /\ task_ctrl_desc \in tcd_t
      BY ChunkType DEF ChainInv
    <2>2. length_after = remaining - chunk /\ length_after \in 0 .. 255
      BY <2>1 DEF length_after, chunk
    <2>3. CASE fresh
      <3>1. task_ctrl_desc' = WithLength(task_ctrl_desc, length_after)
        BY <1>1, <2>3 DEF Update
      <3>2. transfer_len(task_ctrl_desc') = length_after
        BY <2>1, <2>2, <3>1, LengthField
      <3> QED BY <2>2, <2>3, <3>2 DEF remaining, left_over
    <2>4. CASE ~fresh
      BY <1>1, <2>1, <2>4 DEF Update, remaining, left_over
    <2> QED BY <2>3, <2>4
  <1>4. /\ next_state = "NEW_FETCH" => left_over = 0
        /\ next_state = "NEW_OP" => left_over # 0
        /\ next_state \in {"STALL", "NEW_FETCH", "NEW_OP"}
    <2>1. remaining \in 0 .. 255 /\ DMA_BUF_DEPTH \in 1 .. 8
      BY ChunkType DEF ChainInv
    <2>2. /\ after_update = "NEW_FETCH" => left_over = 0
          /\ after_update = "NEW_OP" => left_over # 0
          /\ after_update \in {"NEW_FETCH", "NEW_OP"}
      BY <1>1, <2>1 DEF after_update, left_over, chunk
    <2> QED BY <1>2, <2>2
  <1>5. /\ left_over' = left_over \/ ~Closes'
        /\ transfer_len(desc)' = transfer_len(desc) /\ behind' = transfer_len(desc) - left_over
    BY <1>1, <1>2, <1>3, <1>4 DEF left_over, behind, Closes
  <1>6. NextTcd(task_ctrl_desc)' = NextTcd(task_ctrl_desc) /\ quit(task_ctrl_desc)' = 0
    <2>1. SameTarget(task_ctrl_desc', task_ctrl_desc)
      <3>1. task_ctrl_desc \in tcd_t /\ length_after \in 0 .. 255
        <4>1. remaining \in 0 .. 255 /\ DMA_BUF_DEPTH \in 1 .. 8 /\ task_ctrl_desc \in tcd_t
          BY ChunkType DEF ChainInv
        <4> QED BY <4>1 DEF length_after
      <3>2. SameTarget(task_ctrl_desc, task_ctrl_desc)
        BY DEF SameTarget
      <3> QED BY <1>1, <3>1, <3>2, LengthField DEF Update
    <2> QED BY <1>1, <2>1 DEF NextTcd, SameTarget
  <1>7. Closes
    BY <1>1 DEF Closes
  <1>8. CASE left_over = 0
    <2>1. View!owner' \in {"UPDATE", "NEW_FETCH"}
      BY <1>2, <1>4, <1>8
    <2>2. Mapped("fetch", NextTcd(task_ctrl_desc), 0, 0)
      BY <1>7, <1>8 DEF Reading
    <2>3. Mapped("fetch", NextTcd(task_ctrl_desc), 0, 0)'
      BY <1>5, <1>8, <2>1 DEF Reading, Closes
    <2> QED BY <1>1, <1>6, <2>2, <2>3 DEF Mapped, Recorded, Chain!vars, Offset
  <1>9. CASE left_over # 0
    <2>1. View!owner' \in {"UPDATE", "NEW_OP"}
      BY <1>2, <1>4, <1>9
    <2>2. Mapped("read", Origin, transfer_len(desc) - left_over, 0)
      BY <1>7, <1>9 DEF Reading
    <2>3. CASE View!owner' = "UPDATE"
      <3>1. Mapped("read", Origin, transfer_len(desc) - left_over, 0)' /\ left_over' = left_over
        BY <1>5, <1>9, <2>3 DEF Reading, Closes
      <3> QED BY <1>1, <1>5, <2>2, <3>1 DEF Mapped, Recorded, Chain!vars, Offset
    <2>4. CASE View!owner' = "NEW_OP"
      <3>1. Mapped("read", Origin, behind, 0)'
        BY <1>1, <1>3, <1>6, <1>9, <2>4 DEF Reading, Dispatches
      <3> QED BY <1>1, <1>5, <2>2, <3>1 DEF Mapped, Recorded, Chain!vars, Offset
    <2> QED BY <2>1, <2>3, <2>4
  <1> QED BY <1>8, <1>9

\* A posedge is a step of the interpreter, or none.
LEMMA ChainStep ==
  ASSUME ChainInv, ChainInv', Reading, Reading', SpansFit, [Next]_vars
  PROVE  [Chain!Next]_(Chain!vars)
  <1>1. CASE Next /\ rst_n = 0
    BY <1>1, StepReset DEF Chain!Next
  <1>2. CASE Next /\ rst_n = 1
    <2>1. curr_state \in sys_control_state_t
      BY <1>2, StateActions DEF ChainInv
    <2> QED BY <1>2, <2>1, StepIdle, StepNewFetch, StepFetch, StepNewOp, StepRead, StepWrite,
            StepUpdate DEF sys_control_state_t, Chain!Next
  <1>3. CASE UNCHANGED vars
    <2>1. UNCHANGED <<View!owner, View!remaining, View!chunk>>
      BY <1>3 DEF vars, core, flops, datapath, View!owner, View!remaining, View!chunk
    <2>2. UNCHANGED <<View!bytes_left, View!after_tcd>>
      BY <1>3, <2>1 DEF vars, core, flops, datapath, engine, View!bytes_left, View!after_tcd
    <2>3. UNCHANGED View!phase
      BY <1>3, <2>1, <2>2 DEF vars, core, flops, datapath, engine, View!phase,
         View!after_write
    <2>4. UNCHANGED <<View!at, View!moved, Offset>>
      BY <1>3, <2>1, <2>2, <2>3 DEF vars, core, flops, datapath, engine, device, history,
         View!at, View!fetching, View!moved, Offset, View!writing_out
    <2> QED BY <1>3, <2>3, <2>4 DEF vars, core, device, history, Chain!vars, Offset
  <1> QED BY <1>1, <1>2, <1>3, RequestType DEF ChainInv

\* The chip's transactions and what they leave in memory are those of the chain
\* interpreter of the verification and of the firmware, for every depth of the buffer,
\* every staged memory, every timing of the engine and every schedule of BUS_REQ, START
\* and reset, as long as no descriptor fetched has a span that leaves its device.
THEOREM ChainIsImplemented == Spec /\ []SpansFit => ImplementsChain
  <1>1. Init => Chain!Init
    <2> SUFFICES ASSUME Init PROVE Chain!Init
      OBVIOUS
    <2>1. Reading /\ Idles
      BY ChainInit, ReadAs DEF Init, ResetValues, Idles, View!owner
    <2>2. Mapped("idle", Chain!HEAD, 0, 0)
      BY <2>1, ChainNames DEF Reading
    <2> QED BY <2>2 DEF Init, Mapped, Offset, Chain!Init, Chain!NO_TCD, Chain!NO_TXN,
          TCD_LEN, Chain!TCD_LEN
  <1>2. ChainInv => Reading
    BY ReadAs
  <1>3. ChainInv /\ ChainInv' /\ Reading /\ Reading' /\ SpansFit /\ [Next]_vars
          => [Chain!Next]_(Chain!vars)
    BY ChainStep
  <1> QED BY <1>1, <1>2, <1>3, ChainInvariant, PTL DEF Spec, ImplementsChain, Chain!Spec
=============================================================================
