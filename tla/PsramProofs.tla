------------------------------ MODULE PsramProofs ------------------------------
(***************************************************************************)
(* The PSRAM driver of firmware/psram.py and firmware/board/qspi.py, for   *)
(* every SCK frequency it accepts, spans of any length within a device,    *)
(* any number of calls and an interrupt between any two operations.        *)
(*                                                                         *)
(* First the chunk planner: each CE# pulse ends within tCEM, its frame     *)
(* fits the FIFO of its state machine, and the pulses of a span tile it.   *)
(* Then the calls.  A call is a list of operations; the proof follows an   *)
(* outline that says what is known before each of them.  Every program the *)
(* driver builds leads through the outline, every step of a state machine  *)
(* keeps what is known, and every operation takes it to what is known      *)
(* next.                                                                   *)
(***************************************************************************)
EXTENDS Psram, SequenceTheorems, WellFoundedInduction, TLAPS

-------------------------------------------------------------------------------
(***************************************************************************)
(* The chunk planner.                                                      *)
(***************************************************************************)
LEMMA LeastBounds ==
  ASSUME NEW a \in Int, NEW b \in Int
  PROVE  /\ Least(a, b) \in Int /\ Least(a, b) <= a /\ Least(a, b) <= b
         /\ Least(a, b) = a \/ Least(a, b) = b
BY DEF Least

LEMMA PayloadMaxIsFour == MCU_QPI_PAYLOAD_MAX = 4
BY DEF MCU_QPI_PAYLOAD_MAX, Least, MCU_QPI_WRITE_PAYLOAD_FIFO_MAX, MCU_QPI_READ_FRAME_MAX,
       QPI_WRITE_TX_FIFO_WORDS, QPI_READ_RX_FIFO_WORDS, QPI_READ_DUMMY_WORDS,
       QPI_READ_LAG_WORDS, QPI_DUMMY_CYCLES, SCK_PER_BYTE_QPI

\* A chunk and its overhead stay within the SCK budget of tCEM, and a chunk within what
\* either FIFO takes.
LEMMA ChunkBounds ==
  ASSUME NEW overhead \in Nat, NEW fifo_max \in Nat
  PROVE  /\ qpi_chunk_bytes(overhead, fifo_max) \in Int
         /\ overhead + 2 * qpi_chunk_bytes(overhead, fifo_max) <= sck_budget
         /\ qpi_chunk_bytes(overhead, fifo_max) <= 4
<1> DEFINE in_tcem == (sck_budget - overhead) \div SCK_PER_BYTE_QPI
           in_fifos == Least(fifo_max, MCU_QPI_PAYLOAD_MAX)
<1>1. in_tcem \in Int /\ overhead + 2 * in_tcem <= sck_budget
  BY SckAssumption DEF sck_budget, SCK_PER_BYTE_QPI
<1>2. in_fifos \in Int /\ in_fifos <= 4
  BY PayloadMaxIsFour, LeastBounds
<1>3. qpi_chunk_bytes(overhead, fifo_max) = Least(in_tcem, in_fifos)
  BY DEF qpi_chunk_bytes
<1>4. sck_budget \in Int
  BY SckAssumption DEF sck_budget
<1> HIDE DEF in_tcem, in_fifos
<1>5. /\ Least(in_tcem, in_fifos) \in Int
      /\ Least(in_tcem, in_fifos) <= in_tcem /\ Least(in_tcem, in_fifos) <= in_fifos
  BY <1>1, <1>2, LeastBounds
<1>6. QED
  BY <1>1, <1>2, <1>3, <1>4, <1>5

\* psram.py and qspi.py, "one extra byte hangs on put()", "the SM cannot stall mid-burst
\* without losing bit alignment": at every SCK frequency that Psram.__init__ accepts, a
\* pulse of a full chunk is within tCEM, a write frame within the TX FIFO, and the words
\* a read pushes within the RX FIFO, so that the checks of the transport never refuse one.
THEOREM PulsesFit ==
  /\ WR_OVERHEAD_SCK + 2 * wr_chunk <= sck_budget
  /\ EB_OVERHEAD_SCK + 2 * eb_chunk <= sck_budget
  /\ wr_chunk \in 1..4 /\ 4 + wr_chunk <= QPI_WRITE_TX_FIFO_WORDS
  /\ eb_chunk \in 1..4 /\ read_words(eb_chunk) <= QPI_READ_RX_FIFO_WORDS
<1>1. /\ wr_chunk \in Int /\ wr_chunk <= 4 /\ WR_OVERHEAD_SCK + 2 * wr_chunk <= sck_budget
  <2>1. WR_OVERHEAD_SCK \in Nat /\ MCU_QPI_WRITE_PAYLOAD_FIFO_MAX \in Nat
    BY DEF WR_OVERHEAD_SCK, MCU_QPI_WRITE_PAYLOAD_FIFO_MAX, QPI_WRITE_TX_FIFO_WORDS
  <2>2. QED
    BY <2>1, ChunkBounds DEF wr_chunk
<1>2. /\ eb_chunk \in Int /\ eb_chunk <= 4 /\ EB_OVERHEAD_SCK + 2 * eb_chunk <= sck_budget
  <2>1. EB_OVERHEAD_SCK \in Nat /\ MCU_QPI_READ_FRAME_MAX \in Nat
    BY DEF EB_OVERHEAD_SCK, MCU_QPI_READ_FRAME_MAX, QPI_READ_RX_FIFO_WORDS,
           QPI_READ_DUMMY_WORDS, QPI_READ_LAG_WORDS, QPI_DUMMY_CYCLES, SCK_PER_BYTE_QPI
  <2>2. QED
    BY <2>1, ChunkBounds DEF eb_chunk
<1>3. wr_chunk >= 1 /\ eb_chunk >= 1
  BY SckAssumption DEF SckAccepted
<1>4. read_words(eb_chunk) = eb_chunk + 4
  BY <1>2, <1>3 DEF read_words, QPI_READ_DUMMY_WORDS, QPI_READ_LAG_WORDS, QPI_DUMMY_CYCLES,
                    SCK_PER_BYTE_QPI
<1>5. QED
  BY <1>1, <1>2, <1>3, <1>4 DEF QPI_WRITE_TX_FIFO_WORDS, QPI_READ_RX_FIFO_WORDS

\* The first pulse of a span begins at its first byte, each one where the one before it
\* ended, the last one ends at its last byte, and none is empty or longer than a chunk:
\* no byte of a span is sent twice or left out, whatever its length.
THEOREM PulsesTile ==
  ASSUME NEW chunk \in 1..4, NEW n \in Nat \ {0}
  PROVE  LET offsets == Offsets(n, chunk)
         IN  /\ Len(offsets) >= 1 /\ offsets[1] = 0
             /\ \A i \in 1..Len(offsets) :
                  /\ piece(n, offsets[i], chunk) \in 1..chunk
                  /\ offsets[i] + piece(n, offsets[i], chunk)
                       = IF i = Len(offsets) THEN n ELSE offsets[i + 1]
<1> DEFINE offsets == Offsets(n, chunk)
           count == (n + chunk - 1) \div chunk
<1>1. count \in Nat /\ chunk * count <= n + chunk - 1 /\ n <= chunk * count
  <2>1. CASE chunk = 1 BY <2>1
  <2>2. CASE chunk = 2 BY <2>2
  <2>3. CASE chunk = 3 BY <2>3
  <2>4. CASE chunk = 4 BY <2>4
  <2>5. QED BY <2>1, <2>2, <2>3, <2>4
<1>2. count >= 1
  <2>1. CASE count = 0 BY <1>1, <2>1
  <2>2. QED BY <1>1, <2>1
<1>3. offsets = [i \in 1..count |-> (i - 1) * chunk] /\ Len(offsets) = count
  <2>1. offsets = [i \in 1..count |-> (i - 1) * chunk]
    BY DEF Offsets
  <2> HIDE DEF offsets, count
  <2>2. QED
    BY <1>1, <2>1
<1> HIDE DEF offsets, count
<1>4. ASSUME NEW i \in 1..count
      PROVE  /\ offsets[i] = (i - 1) * chunk
             /\ i < count => offsets[i] + chunk = offsets[i + 1] /\ offsets[i + 1] < n
             /\ i = count => offsets[i] < n /\ n - offsets[i] <= chunk
  <2>1. CASE chunk = 1 BY <1>1, <1>3, <2>1
  <2>2. CASE chunk = 2 BY <1>1, <1>3, <2>2
  <2>3. CASE chunk = 3 BY <1>1, <1>3, <2>3
  <2>4. CASE chunk = 4 BY <1>1, <1>3, <2>4
  <2>5. QED BY <2>1, <2>2, <2>3, <2>4
<1>5. ASSUME NEW i \in 1..count
      PROVE  /\ piece(n, offsets[i], chunk) \in 1..chunk
             /\ offsets[i] + piece(n, offsets[i], chunk)
                  = IF i = count THEN n ELSE offsets[i + 1]
  <2>1. offsets[i] \in Int
    BY <1>1, <1>4
  <2>2. CASE i = count
    BY <1>4, <2>1, <2>2 DEF piece, Least
  <2>3. CASE i < count
    BY <1>4, <2>1, <2>3 DEF piece, Least
  <2>4. QED
    BY <1>1, <2>2, <2>3
<1>6. offsets[1] = 0
  BY <1>1, <1>2, <1>4
<1>7. QED
  BY <1>2, <1>3, <1>5, <1>6 DEF offsets

-------------------------------------------------------------------------------
(***************************************************************************)
(* Proof outline of a call.  What is known before an operation is a fact   *)
(* about the list that is left; a context <<at, m, i>> names it: a place   *)
(* in a CE# pulse, the bytes of the span that are done, and what the place *)
(* counts (words put or words got).                                        *)
(***************************************************************************)
ByteValues == 0 .. 255

Total(c) == IF c.name \in {"write", "read"} THEN Len(c.data) ELSE 0
Chunk(c) == IF c.name = "read" THEN eb_chunk ELSE wr_chunk
Piece(c, m) == piece(Len(c.data), m, Chunk(c))

\* The frame of the pulse at offset m, the address in it, and the bytes done after it.
Frame(c, m) ==
  CASE c.name = "write" -> <<QSPI_CMD_WRITE>> \o be24(c.addr + m)
                             \o SubSeq(c.data, m + 1, m + Piece(c, m))
    [] c.name = "read" -> <<QSPI_CMD_FAST_READ>> \o be24(c.addr + m)
    [] OTHER -> <<CMD_EXIT_QPI>>
After(c, m) == IF c.name = "write" THEN m + Piece(c, m) ELSE m

ReadPlaces ==
  {"handing", "floating", "primed", "reading", "read", "unframed"}
Within ==
  {"selected", "sending", "sent", "handing", "floating", "primed", "reading", "read"}
Places(c) ==
  CASE c.name = "enter" -> {"rest", "armed", "spi ready", "spi selected"}
    [] c.name = "exit" -> {"rest", "armed", "quiet", "clean", "filling", "selected",
                           "sending", "sent", "closing", "over"}
    [] c.name = "write" -> {"rest", "armed", "quiet", "clean", "filling", "selected",
                            "sending", "sent", "closing"}
    [] c.name = "read" -> {"rest", "armed", "quiet", "clean", "filling", "selected",
                           "sending", "sent"} \cup ReadPlaces
    [] OTHER -> {"rest"}
At(c, at, m) ==
  /\ at \in Places(c) /\ m \in 0 .. Total(c)
  /\ c.name \in {"write", "read"} /\ at \notin {"rest", "closing"} => m < Total(c)

Step(c, a, o, b) ==
  LET at == a[1] m == a[2] i == a[3] IN
  /\ At(c, at, m) /\ At(c, b[1], b[2])
  /\ \/ o[1] = "release" /\ at = "rest" /\ b = a
     \/ o[1] = "fits" /\ o[2] <= o[3] /\ at = "rest" /\ b = a
     \/ o[1] = "arm" /\ at = "rest" /\ b = <<"armed", m, 0>>
     \/ o[1] = "stop" /\ at \in {"armed", "quiet"} /\ b = a
     \/ o[1] = "stop" /\ o[2] = "spi" /\ at = "armed" /\ b = <<"quiet", m, 0>>
     \/ o[1] = "park" /\ at \in {"rest", "over", "armed", "quiet", "handing", "unframed"} /\ b = a
     \/ o[1] = "restart wr" /\ at = "quiet" /\ b = <<"clean", m, 0>>
     \/ o[1] = "pindirs" /\ at = "clean" /\ b = <<"filling", m, 0>>
     \/ o[1] = "put" /\ at = "filling" /\ i < Len(Frame(c, m))
          /\ o[2] = pack_qpi_byte(Frame(c, m)[i + 1]) /\ b = <<"filling", m, i + 1>>
     \/ o[1] = "select" /\ o[2] = c.d /\ at = "filling" /\ i = Len(Frame(c, m))
          /\ b = <<"selected", m, 0>>
     \/ o[1] = "start" /\ o[2] = "wr" /\ at = "selected" /\ b = <<"sending", m, 0>>
     \/ o[1] = "drained" /\ at = "sending" /\ b = <<"sent", m, 0>>
     \/ o[1] = "deselect" /\ at = "sent" /\ b = <<"closing", After(c, m), 0>>
     \/ o[1] = "stop" /\ o[2] = "wr" /\ at = "closing"
          /\ b = <<IF c.name = "exit" THEN "over" ELSE "rest", m, 0>>
     \/ o[1] = "stop" /\ o[2] = "wr" /\ at = "sent" /\ b = <<"handing", m, 0>>
     \/ o[1] = "pindirs" /\ o[2] = "RX" /\ at = "handing" /\ b = <<"floating", m, 0>>
     \/ o[1] = "prime rx" /\ at = "floating" /\ b = <<"primed", m, 0>>
     \/ o[1] = "start" /\ o[2] = "rd" /\ at = "primed" /\ b = <<"reading", m, 0>>
     \/ o[1] = "skip" /\ at = "reading" /\ i < 3 /\ b = <<"reading", m, i + 1>>
     \/ o[1] = "get" /\ at = "reading" /\ 3 <= i /\ i < Piece(c, m) + 4
          /\ b = <<"reading", m, i + 1>>
     \/ o[1] = "stop" /\ o[2] = "rd" /\ at = "reading" /\ i = Piece(c, m) + 4
          /\ b = <<"read", m, 0>>
     \/ o[1] = "deselect" /\ at = "read" /\ b = <<"unframed", m, 0>>
     \/ o[1] = "realign" /\ o[2] = Piece(c, m) /\ at = "unframed"
          /\ b = <<"rest", m + Piece(c, m), 0>>
     \/ o[1] = "pindirs" /\ at = "over" /\ b = a
     \/ o[1] = "pindirs" /\ o[2] = "SPI" /\ at = "armed" /\ b = <<"spi ready", m, 0>>
     \/ o[1] = "start" /\ o[2] = "spi" /\ at = "spi ready" /\ b = a
     \/ o[1] = "select" /\ o[2] \in Devices /\ at = "spi ready" /\ b = <<"spi selected", m, 0>>
     \/ o[1] = "spi" /\ at = "spi selected" /\ b = a
     \/ o[1] = "deselect" /\ at = "spi selected" /\ b = <<"rest", m, 0>>

Finish(c) == <<IF c.name = "exit" THEN "over" ELSE "rest", Total(c), 0>>

\* The operations of s, one after the other, lead from context a to context b.
Leads(c, a, s, b) ==
  /\ \E S : s \in Seq(S)
  /\ \E path : /\ path[0] = a /\ path[Len(s)] = b
               /\ \A i \in 1 .. Len(s) : Step(c, path[i - 1], s[i], path[i])

-------------------------------------------------------------------------------
(***************************************************************************)
(* What the contexts say.                                                  *)
(***************************************************************************)
\* The contents when m bytes of a write have been stored.
Stored(c, m) ==
  [d \in Devices |-> [a \in 0 .. Top |->
     IF c.name = "write" /\ d = c.d /\ a \in c.addr .. c.addr + m - 1
     THEN c.data[a - c.addr + 1] ELSE before[d][a]]]

IsDevice(p) ==
  p = [phase |-> p.phase, count |-> p.count, opcode |-> p.opcode, address |-> p.address,
       start |-> p.start, half |-> p.half, drive |-> p.drive, bytes |-> p.bytes]

\* The part of an address a device has when u bytes of its frame have reached it, and
\* after one more nibble.
AfterByte(A, u) == A \div <<16777216, 65536, 256, 1>>[u]
AfterNibble(A, u) == A \div <<1048576, 4096, 16>>[u]

\* The selected device when u bytes of the frame have reached it, and after one more
\* nibble.
Whole(c, m, u) ==
  LET F == Frame(c, m) IN
  /\ dev.drive = NONE /\ dev.half = NONE
  /\ u = 0 => dev.phase = "CMD" /\ dev.count = 0 /\ dev.opcode = 0 /\ dev.address = 0
  /\ u > 0 => dev.opcode = F[1]
  /\ u > 0 /\ c.name = "exit" => dev.phase = "IGNORE"
  /\ u \in 1 .. 3 /\ c.name # "exit" =>
       /\ dev.phase = "ADDR" /\ dev.count = 2 * u - 2
       /\ dev.address = AfterByte(c.addr + m, u)
  /\ u >= 4 =>
       /\ dev.phase = IF c.name = "read" THEN "DUMMY" ELSE "DATA"
       /\ dev.address = c.addr + m + u - 4
       /\ c.name = "read" => dev.count = 0
Half(c, m, u) ==
  LET F == Frame(c, m) IN
  /\ dev.drive = NONE
  /\ u < 4 => dev.half = NONE
  /\ u = 0 => /\ dev.phase = "CMD" /\ dev.count = 1 /\ dev.opcode = F[1] \div 16
              /\ dev.address = 0
  /\ u > 0 => dev.opcode = F[1]
  /\ u \in 1 .. 3 =>
       /\ dev.phase = "ADDR" /\ dev.count = 2 * u - 1
       /\ dev.address = AfterNibble(c.addr + m, u)
  /\ u >= 4 => /\ dev.phase = "DATA" /\ dev.address = c.addr + m + u - 4
               /\ dev.half = F[u + 1] \div 16

\* The words of a frame after its first u bytes.
Words(F, u) == [j \in 1 .. Len(F) - u |-> pack_qpi_byte(F[u + j])]

StoredBy(c, m, u) == IF c.name = "write" /\ u > 4 THEN m + u - 4 ELSE m

\* The machine "wr" has sent u bytes of the frame: between two bytes, with the next one
\* pulled, or in the middle of it.
SentSoFar(c, m, u) ==
  LET F == Frame(c, m) IN
  /\ mem = Stored(c, StoredBy(c, m, u))
  /\ \/ osr = <<>> /\ wpc = "out" /\ txf = Words(F, u) /\ Whole(c, m, u)
     \/ /\ u < Len(F) /\ osr = pack_qpi_byte(F[u + 1]) /\ wpc = "nop" /\ sck = 0
        /\ txf = Words(F, u + 1) /\ Whole(c, m, u)
     \/ /\ u < Len(F) /\ osr = <<expand(F[u + 1] % 16)>> /\ (wpc = "nop" => sck = 0)
        /\ wpc \in {"out", "nop"}
        /\ txf = Words(F, u + 1) /\ Half(c, m, u)
Sending(c, m) == \E u \in 0 .. Len(Frame(c, m)) : SentSoFar(c, m, u)

\* The j-th nibble a device puts out for the pulse at offset m, and the j-th sample: the
\* dummy cycles and the lag come first.
ByteOf(c, m, k) ==
  IF c.addr + m + k \in 0 .. Top THEN before[c.d][c.addr + m + k] ELSE FILL
NibbleOf(c, m, j) ==
  IF j % 2 = 1 THEN ByteOf(c, m, (j - 1) \div 2) \div 16 ELSE ByteOf(c, m, (j - 1) \div 2) % 16
SampleOf(c, m, j) == IF j <= 7 THEN 15 ELSE NibbleOf(c, m, j - 7)
SymbolOf(c, m, j) == expand(SampleOf(c, m, j))

\* The device in a read, after r rising edges and e falling edges that launched a nibble.
Answering(c, m, r, e) ==
  /\ dev.opcode = QSPI_CMD_FAST_READ /\ dev.address = c.addr + m + (e \div 2)
  /\ dev.phase = IF r < 6 THEN "DUMMY" ELSE "DATA"
  /\ r < 6 => dev.count = r
  /\ dev.half = IF e % 2 = 1 THEN NibbleOf(c, m, e + 1) ELSE NONE
  /\ dev.drive = IF e = 0 THEN NONE ELSE NibbleOf(c, m, e)

\* The machine "rd" has taken s samples and p words have been got.  The pipeline is known
\* for the eight words that fit the FIFO: the machine cannot stall before the ninth.
Samples(p) == 2 * (p + Len(rxf)) + Len(isr)
Pipeline(c, m, s) ==
  /\ ~stalled
  /\ \/ /\ rpc = "nop" /\ sck = (IF s = 0 THEN 0 ELSE 1)
        /\ Answering(c, m, s, IF s <= 6 THEN 0 ELSE s - 6)
     \/ /\ rpc = "in" /\ sck = 0 /\ Answering(c, m, s, IF s <= 5 THEN 0 ELSE s - 5)
        /\ late = IF s <= 6 THEN NONE ELSE NibbleOf(c, m, s - 6)
Reading(c, m, p) ==
  /\ isr = <<>> \/ (\E x : isr = <<x>>)
  /\ \E S : rxf \in Seq(S)
  /\ \A j \in 1 .. Len(rxf) :
       p + j <= 8 => rxf[j] = <<SymbolOf(c, m, 2 * (p + j) - 1), SymbolOf(c, m, 2 * (p + j))>>
  /\ Samples(p) <= 15 =>
       /\ isr # <<>> => isr = <<SymbolOf(c, m, Samples(p))>>
       /\ Pipeline(c, m, Samples(p))
  /\ dev.opcode = QSPI_CMD_FAST_READ /\ dev.phase \in {"DUMMY", "DATA"}

Got(c, m) == [j \in 1 .. m |-> before[c.d][c.addr + j - 1]]
Raw(c, m, p) ==
  [j \in 1 .. (IF p <= 3 THEN 0 ELSE p - 3) |->
     16 * SampleOf(c, m, 2 * j + 5) + SampleOf(c, m, 2 * j + 6)]

\* The device, the wires and the state machines at each place.
DeviceFact(c, at, m, i) ==
  /\ IsDevice(dev)
  /\ at \notin Within \cup {"spi selected"} => cs = NOBODY /\ dev = Deselected
  /\ at \in Within => cs = c.d
  /\ at = "spi selected" => cs \in Devices /\ dev.drive = NONE
  /\ at = "selected" => dev = BeginTransaction
  /\ at \in {"sent", "handing", "floating", "primed"} => Whole(c, m, Len(Frame(c, m)))
  /\ at = "read" => dev.opcode = QSPI_CMD_FAST_READ /\ dev.phase \in {"DUMMY", "DATA"}
  /\ at = "sending" => Sending(c, m)
  /\ at = "reading" => Reading(c, m, i)
  /\ at # "sending" => mem = Stored(c, IF at = "sent" THEN After(c, m) ELSE m)
PadFact(at) ==
  /\ at \in {"floating", "primed", "reading", "read"} => pindirs = "RX"
  /\ at \in {"spi ready", "spi selected"} => pindirs = "SPI"
  /\ at \in {"filling", "selected", "sent", "handing", "floating", "primed", "closing"} => sck = 0
MachineFact(c, at, m, i) ==
  /\ at \in {"rest", "over", "armed", "spi ready", "spi selected"} => active \subseteq {"spi"}
  /\ at \in {"sending", "sent", "closing"} => active = {"wr"}
  /\ at = "reading" => active = {"rd"}
  /\ at \in {"quiet", "clean", "filling", "selected", "handing", "floating", "primed", "read",
             "unframed"} => active = {}
  /\ at \in {"rest", "over"} => (armed => txf = <<>>)
  /\ at \notin {"rest", "over", "filling", "selected", "sending"} => txf = <<>>
  /\ at = "filling" => i \in 0 .. Len(Frame(c, m))
                       /\ txf = [j \in 1 .. i |-> pack_qpi_byte(Frame(c, m)[j])]
  /\ at = "selected" => txf = Words(Frame(c, m), 0)
  /\ at \in {"clean", "filling", "selected", "sent", "closing"} => osr = <<>> /\ wpc = "out"
  /\ at = "primed" => rxf = <<>> /\ isr = <<>> /\ rpc = "nop" /\ ~stalled
ModeFact(c, at) ==
  /\ mode \in [Devices -> {"SPI", "QPI"}]
  /\ \/ c.name \in {"write", "read"}
     \/ c.name = "exit" /\ at \notin {"closing", "over"}
     => mode[c.d] = "QPI"
BytesFact(c, at, m, i) ==
  c.name = "read" =>
    /\ got = Got(c, m)
    /\ at \notin {"reading", "read", "unframed"} => raw = <<>>
    /\ at = "reading" => i \in 0 .. Piece(c, m) + 4 /\ raw = Raw(c, m, i)
    /\ at \in {"read", "unframed"} => raw = Raw(c, m, Piece(c, m) + 4)

FactAt(c, at, m, i) ==
  /\ i \in Nat /\ At(c, at, m) /\ DeviceFact(c, at, m, i) /\ PadFact(at)
  /\ MachineFact(c, at, m, i) /\ ModeFact(c, at) /\ BytesFact(c, at, m, i)
Fact(c, a) == a = <<a[1], a[2], a[3]>> /\ FactAt(c, a[1], a[2], a[3])

-------------------------------------------------------------------------------
(***************************************************************************)
(* The inductive invariant: a call that nothing has cut off follows the    *)
(* outline; of one cut off, what was known then still holds while the      *)
(* machines run on, until the pins are released.                           *)
(***************************************************************************)
CallFact(c) ==
  \/ c.name = "none"
  \/ c.name \in {"enter", "exit"} /\ c.d \in Devices
  \/ /\ c.name \in {"write", "read"} /\ c.d \in Devices /\ c.addr \in Nat
     /\ c.data \in Seq(ByteValues) /\ c.addr + Len(c.data) <= Top + 1

\* After the release of a call that was cut off.
Released ==
  /\ cs = NOBODY /\ dev = Deselected /\ active = {} /\ ~armed
  /\ mode \in [Devices -> {"SPI", "QPI"}]
  /\ \E m \in 0 .. Total(call) : mem = Stored(call, m)

IInv ==
  /\ CallFact(call) /\ before \in [Devices -> [0 .. Top -> ByteValues]]
  /\ ~failed => \E a : Fact(call, a) /\ Leads(call, a, todo, Finish(call))
  /\ failed /\ todo = <<>> => Released
  /\ failed /\ todo # <<>> => todo = << <<"release">> >> /\ \E a : Fact(call, a)

-------------------------------------------------------------------------------
(***************************************************************************)
(* Induction on the naturals, from the well-foundedness of their order.    *)
(***************************************************************************)
Below == {pair \in Nat \X Nat : pair[1] < pair[2]}

LEMMA BelowIsWellFounded == IsWellFoundedOn(Below, Nat)
BY NatLessThanWellFounded DEF OpToRel, Below

\* A set of naturals with 0 and the successor of each member has them all.
LEMMA Induct ==
  ASSUME NEW T, 0 \in T, \A n \in Nat : n \in T => n + 1 \in T
  PROVE  Nat \subseteq T
<1> SUFFICES ASSUME ~(Nat \subseteq T) PROVE FALSE
  OBVIOUS
<1>1. PICK x \in Nat \ T : \A y \in Nat \ T : <<y, x>> \notin Below
  <2>1. Nat \ T \subseteq Nat /\ Nat \ T # {}
    OBVIOUS
  <2>2. QED
    BY <2>1, BelowIsWellFounded, WFMin, Zenon
<1>2. ASSUME NEW y \in Nat \ T PROVE x <= y
  <2>1. <<y, x>> \in Nat \X Nat /\ <<y, x>> \notin Below
    BY <1>1
  <2>2. ~(y < x)
    BY <2>1 DEF Below
  <2>3. QED
    BY <2>2
<1>3. x # 0 /\ x - 1 \in Nat /\ x - 1 \in T
  BY <1>2
<1>4. QED
  BY <1>3

\* FlattenSeq appends one list after the other.
Flattened(s) ==
  LET flatten[i \in 1 .. Len(s)] == IF i = 1 THEN s[i] ELSE flatten[i - 1] \o s[i]
  IN  flatten

LEMMA FlattenedIsRecursive ==
  ASSUME NEW S, NEW s \in Seq(S)
  PROVE  /\ Flattened(s) = [i \in 1 .. Len(s) |->
                IF i = 1 THEN s[i] ELSE Flattened(s)[i - 1] \o s[i]]
         /\ Len(s) = 0 => FlattenSeq(s) = s
         /\ Len(s) # 0 => FlattenSeq(s) = Flattened(s)[Len(s)]
<1> DEFINE Upto(f, n) == f = [i \in 1 .. n |-> IF i = 1 THEN s[i] ELSE f[i - 1] \o s[i]]
           T == {n \in Nat : \E f : Upto(f, n)}
<1>1. 0 \in T
  <2>1. Upto([i \in 1 .. 0 |-> s], 0)
    OBVIOUS
  <2>2. QED
    BY <2>1
<1>2. ASSUME NEW n \in Nat, n \in T PROVE n + 1 \in T
  <2>1. PICK f : Upto(f, n)
    BY <1>2
  <2>0. \A i \in 1 .. n : f[i] = IF i = 1 THEN s[i] ELSE f[i - 1] \o s[i]
    <3> DEFINE body(i) == IF i = 1 THEN s[i] ELSE f[i - 1] \o s[i]
    <3>1. f = [i \in 1 .. n |-> body(i)]
      BY <2>1
    <3> HIDE DEF body
    <3>2. \A i \in 1 .. n : f[i] = body(i)
      BY <3>1
    <3>3. QED
      BY <3>2 DEF body
  <2> DEFINE g == [i \in 1 .. n + 1 |->
                     IF i <= n THEN f[i] ELSE IF i = 1 THEN s[i] ELSE f[i - 1] \o s[i]]
             h == [i \in 1 .. n + 1 |-> IF i = 1 THEN s[i] ELSE g[i - 1] \o s[i]]
  <2>2. ASSUME NEW i \in 1 .. n + 1 PROVE g[i] = h[i]
    <3>1. CASE i = 1
      BY <2>0, <3>1
    <3>2. CASE i # 1
      <4>1. i - 1 \in 1 .. n /\ g[i - 1] = f[i - 1]
        BY <3>2
      <4>2. CASE i <= n
        <5>1. f[i] = f[i - 1] \o s[i]
          <6>1. i \in 1 .. n
            BY <4>2
          <6>2. QED
            BY <2>0, <3>2, <6>1, Zenon
        <5>2. QED
          BY <3>2, <4>1, <4>2, <5>1
      <4>3. QED
        BY <3>2, <4>1, <4>2
    <3>3. QED
      BY <3>1, <3>2
  <2>3. DOMAIN g = DOMAIN h /\ g = [i \in DOMAIN g |-> g[i]] /\ h = [i \in DOMAIN h |-> h[i]]
    OBVIOUS
  <2> HIDE DEF g
  <2>4. g = h
    BY <2>2, <2>3
  <2>5. Upto(g, n + 1)
    BY <2>4
  <2> HIDE DEF Upto
  <2>6. \E e : Upto(e, n + 1)
    BY <2>5
  <2>7. QED
    BY <2>6
<1>3. Len(s) \in T
  BY <1>1, <1>2, Induct, LenProperties
<1>4. \E f : Upto(f, Len(s))
  BY <1>3
<1>5. Upto(Flattened(s), Len(s))
  BY <1>4 DEF Flattened
<1>6. /\ Len(s) = 0 => FlattenSeq(s) = s
      /\ Len(s) # 0 => FlattenSeq(s) = Flattened(s)[Len(s)]
  BY DEF FlattenSeq, Flattened
<1>7. Len(s) \in Nat
  BY LenProperties
<1> HIDE DEF T
<1>8. QED
  BY <1>5, <1>6, <1>7, Zenon

\* A function on 1..k is a list of k elements.
LEMMA ListOf ==
  ASSUME NEW k \in Nat, NEW S, NEW Q, Q \in [1 .. k -> S]
  PROVE  Q \in Seq(S) /\ Len(Q) = k
<1>1. Q \in Seq(S)
  BY SeqDef
<1>2. DOMAIN Q = 1 .. k /\ DOMAIN Q = 1 .. Len(Q) /\ Len(Q) \in Nat
  BY <1>1, LenProperties
<1>3. QED
  BY <1>1, <1>2

-------------------------------------------------------------------------------
(***************************************************************************)
(* Lists of operations that follow the outline.                            *)
(***************************************************************************)

\* An empty list leads nowhere else.
LEMMA LeadsNowhere ==
  ASSUME NEW c, NEW a, NEW b
  PROVE  Leads(c, a, <<>>, b) <=> a = b
<1>1. <<>> \in Seq({}) /\ Len(<<>>) = 0
  BY EmptySeq
<1>2. ASSUME a = b PROVE Leads(c, a, <<>>, b)
  <2> DEFINE path == [i \in {0} |-> a]
  <2>1. path[0] = a /\ \A i \in 1 .. 0 : Step(c, path[i - 1], <<>>[i], path[i])
    OBVIOUS
  <2>2. QED
    BY <1>1, <1>2, <2>1 DEF Leads
<1>3. ASSUME Leads(c, a, <<>>, b) PROVE a = b
  BY <1>1, <1>3 DEF Leads
<1>4. QED
  BY <1>2, <1>3

\* The first operation leads to where the rest goes on from.
LEMMA LeadsOn ==
  ASSUME NEW c, NEW a, NEW s, NEW z, Leads(c, a, s, z), s # <<>>
  PROVE  \E b : Step(c, a, Head(s), b) /\ Leads(c, b, Tail(s), z)
<1>1. PICK path :
        /\ path[0] = a /\ path[Len(s)] = z
        /\ \A i \in 1 .. Len(s) : Step(c, path[i - 1], s[i], path[i])
  BY DEF Leads
<1>2. PICK S : s \in Seq(S)
  BY DEF Leads
<1>3. /\ Len(s) \in Nat \ {0} /\ Head(s) = s[1] /\ Tail(s) \in Seq(S)
      /\ Len(Tail(s)) = Len(s) - 1
      /\ \A i \in 1 .. Len(Tail(s)) : Tail(s)[i] = s[i + 1]
  BY <1>2, EmptySeq, HeadTailProperties
<1>4. Step(c, a, Head(s), path[1])
  BY <1>1, <1>3
<1> DEFINE rest == [i \in 0 .. Len(s) - 1 |-> path[i + 1]]
<1>5. rest[0] = path[1] /\ rest[Len(Tail(s))] = z
  BY <1>1, <1>3
<1>6. ASSUME NEW i \in 1 .. Len(Tail(s)) PROVE Step(c, rest[i - 1], Tail(s)[i], rest[i])
  <2>1. i + 1 \in 1 .. Len(s) /\ i - 1 \in 0 .. Len(s) - 1 /\ i \in 0 .. Len(s) - 1
    BY <1>3
  <2>2. rest[i - 1] = path[(i + 1) - 1] /\ rest[i] = path[i + 1] /\ Tail(s)[i] = s[i + 1]
    BY <1>3, <2>1
  <2>3. QED
    BY <1>1, <2>1, <2>2
<1> HIDE DEF rest
<1>7. Leads(c, path[1], Tail(s), z)
  BY <1>3, <1>5, <1>6 DEF Leads
<1>8. QED
  BY <1>4, <1>7

\* One list after the other.
LEMMA LeadsThen ==
  ASSUME NEW c, NEW a, NEW s, NEW b, NEW t, NEW z, Leads(c, a, s, b), Leads(c, b, t, z)
  PROVE  Leads(c, a, s \o t, z)
<1>1. PICK p :
        /\ p[0] = a /\ p[Len(s)] = b
        /\ \A i \in 1 .. Len(s) : Step(c, p[i - 1], s[i], p[i])
  BY DEF Leads
<1>2. PICK q :
        /\ q[0] = b /\ q[Len(t)] = z
        /\ \A i \in 1 .. Len(t) : Step(c, q[i - 1], t[i], q[i])
  BY DEF Leads
<1>3. \E S : s \in Seq(S) /\ t \in Seq(S)
  <2>1. PICK S, T : s \in Seq(S) /\ t \in Seq(T)
    BY DEF Leads
  <2>2. s \in Seq(S \cup T) /\ t \in Seq(S \cup T)
    BY <2>1
  <2>3. QED
    BY <2>2
<1>4. PICK S : s \in Seq(S) /\ t \in Seq(S)
  BY <1>3
<1>5. /\ s \o t \in Seq(S) /\ Len(s \o t) = Len(s) + Len(t)
      /\ \A i \in 1 .. Len(s) + Len(t) :
           (s \o t)[i] = IF i <= Len(s) THEN s[i] ELSE t[i - Len(s)]
  BY <1>4, ConcatProperties
<1>6. Len(s) \in Nat /\ Len(t) \in Nat
  BY <1>4, LenProperties
<1> DEFINE r == [i \in 0 .. Len(s) + Len(t) |-> IF i <= Len(s) THEN p[i] ELSE q[i - Len(s)]]
<1>7. r[0] = a /\ r[Len(s \o t)] = z
  <2>1. r[0] = a
    BY <1>1, <1>6
  <2>2. CASE Len(t) = 0
    BY <1>1, <1>2, <1>5, <1>6, <2>1, <2>2
  <2>3. CASE Len(t) # 0
    <3>1. /\ Len(s) + Len(t) \in 0 .. Len(s) + Len(t) /\ ~(Len(s) + Len(t) <= Len(s))
          /\ (Len(s) + Len(t)) - Len(s) = Len(t)
      BY <1>6, <2>3
    <3>2. QED
      BY <1>2, <1>5, <2>1, <3>1
  <2>4. QED
    BY <2>2, <2>3
<1>8. ASSUME NEW i \in 1 .. Len(s \o t) PROVE Step(c, r[i - 1], (s \o t)[i], r[i])
  <2>1. CASE i <= Len(s)
    <3>1. r[i - 1] = p[i - 1] /\ r[i] = p[i] /\ (s \o t)[i] = s[i] /\ i \in 1 .. Len(s)
      BY <1>5, <1>6, <2>1
    <3>2. QED
      BY <1>1, <3>1
  <2>2. CASE i > Len(s)
    <3>1. i - Len(s) \in 1 .. Len(t) /\ (s \o t)[i] = t[i - Len(s)]
      BY <1>5, <1>6, <2>2
    <3>2. r[i] = q[i - Len(s)]
      BY <1>5, <1>6, <2>2
    <3>3. r[i - 1] = q[(i - Len(s)) - 1]
      <4>1. CASE i - 1 = Len(s)
        BY <1>1, <1>2, <1>5, <1>6, <4>1
      <4>2. CASE i - 1 > Len(s)
        BY <1>5, <1>6, <4>2
      <4>3. QED
        BY <1>5, <1>6, <2>2, <4>1, <4>2
    <3>4. QED
      BY <1>2, <3>1, <3>2, <3>3
  <2>3. QED
    BY <1>5, <1>6, <2>1, <2>2
<1> HIDE DEF r
<1>9. QED
  BY <1>5, <1>7, <1>8 DEF Leads

\* Lists of one to six operations, given one by one.
LEMMA Leads1 ==
  ASSUME NEW c, NEW a, NEW o, NEW b, Step(c, a, o, b)
  PROVE  Leads(c, a, <<o>>, b)
<1> DEFINE path == [i \in 0 .. 1 |-> IF i = 0 THEN a ELSE b]
<1>1. path[0] = a /\ path[1] = b
  OBVIOUS
<1>2. <<o>> \in Seq({o}) /\ Len(<<o>>) = 1 /\ <<o>>[1] = o
  OBVIOUS
<1>3. \A i \in 1 .. 1 : Step(c, path[i - 1], <<o>>[i], path[i])
  BY <1>1, <1>2
<1> HIDE DEF path
<1>4. QED
  BY <1>1, <1>2, <1>3 DEF Leads

LEMMA Leads2 ==
  ASSUME NEW c, NEW c0, NEW o1, NEW c1, Step(c, c0, o1, c1), NEW o2, NEW c2, Step(c, c1, o2, c2)
  PROVE  Leads(c, c0, <<o1, o2>>, c2)
<1>1. <<o1, o2>> = <<o1>> \o <<o2>>
  OBVIOUS
<1>2. Leads(c, c0, <<o1>>, c1) /\ Leads(c, c1, <<o2>>, c2)
  BY Leads1
<1>3. QED
  BY <1>1, <1>2, LeadsThen

LEMMA Leads3 ==
  ASSUME NEW c, NEW c0, NEW o1, NEW c1, Step(c, c0, o1, c1), NEW o2, NEW c2, Step(c, c1, o2, c2),
         NEW o3, NEW c3, Step(c, c2, o3, c3)
  PROVE  Leads(c, c0, <<o1, o2, o3>>, c3)
<1>1. <<o1, o2, o3>> = <<o1>> \o <<o2, o3>>
  OBVIOUS
<1>2. Leads(c, c0, <<o1>>, c1) /\ Leads(c, c1, <<o2, o3>>, c3)
  BY Leads1, Leads2
<1>3. QED
  BY <1>1, <1>2, LeadsThen

LEMMA Leads4 ==
  ASSUME NEW c, NEW c0, NEW o1, NEW c1, Step(c, c0, o1, c1), NEW o2, NEW c2, Step(c, c1, o2, c2),
         NEW o3, NEW c3, Step(c, c2, o3, c3), NEW o4, NEW c4, Step(c, c3, o4, c4)
  PROVE  Leads(c, c0, <<o1, o2, o3, o4>>, c4)
<1>1. <<o1, o2, o3, o4>> = <<o1>> \o <<o2, o3, o4>>
  OBVIOUS
<1>2. Leads(c, c0, <<o1>>, c1) /\ Leads(c, c1, <<o2, o3, o4>>, c4)
  BY Leads1, Leads3
<1>3. QED
  BY <1>1, <1>2, LeadsThen

LEMMA Leads6 ==
  ASSUME NEW c, NEW c0, NEW o1, NEW c1, Step(c, c0, o1, c1), NEW o2, NEW c2, Step(c, c1, o2, c2),
         NEW o3, NEW c3, Step(c, c2, o3, c3), NEW o4, NEW c4, Step(c, c3, o4, c4),
         NEW o5, NEW c5, Step(c, c4, o5, c5), NEW o6, NEW c6, Step(c, c5, o6, c6)
  PROVE  Leads(c, c0, <<o1, o2, o3, o4, o5, o6>>, c6)
<1>1. <<o1, o2, o3, o4, o5, o6>> = <<o1, o2, o3>> \o <<o4, o5, o6>>
  OBVIOUS
<1>2. Leads(c, c0, <<o1, o2, o3>>, c3) /\ Leads(c, c3, <<o4, o5, o6>>, c6)
  BY Leads3
<1>3. QED
  BY <1>1, <1>2, LeadsThen

-------------------------------------------------------------------------------
(***************************************************************************)
(* The calls follow the outline.                                           *)
(***************************************************************************)
Pulse(c, m) ==
  /\ CallFact(c) /\ c.name \in {"write", "read", "exit"} /\ m \in 0 .. Total(c)
  /\ c.name # "exit" => m < Total(c)

\* A pulse has one to four bytes of the span.
LEMMA PieceBounds ==
  ASSUME NEW c, NEW m, Pulse(c, m), c.name # "exit"
  PROVE  /\ Len(c.data) \in Nat /\ Total(c) = Len(c.data)
         /\ Chunk(c) \in 1 .. 4 /\ Piece(c, m) \in 1 .. 4 /\ m + Piece(c, m) \in 1 .. Len(c.data)
         /\ Piece(c, m) <= Chunk(c)
<1>1. /\ Len(c.data) \in Nat /\ Total(c) = Len(c.data) /\ m \in Nat /\ m < Len(c.data)
  BY LenProperties DEF Pulse, CallFact, Total
<1>2. Chunk(c) \in 1 .. 4
  BY PulsesFit DEF Chunk
<1>3. QED
  BY <1>1, <1>2 DEF Piece, piece, Least

LEMMA AddressLimit == ADDR_MAX \in Nat /\ ADDR_MAX <= 8388607
BY SMT DEF ADDR_MAX

LEMMA ByteRange ==
  /\ ByteValues \subseteq Nat /\ \A x \in ByteValues : x <= 255
  /\ \A x \in Nat : x <= 255 => x \in ByteValues
BY DEF ByteValues

LEMMA Be24Bytes ==
  ASSUME NEW addr \in Nat, addr <= ADDR_MAX
  PROVE  /\ be24(addr) = <<addr \div 65536, (addr \div 256) % 256, addr % 256>>
         /\ be24(addr) \in Seq(ByteValues) /\ Len(be24(addr)) = 3
         /\ addr \div 65536 \in 0 .. 127
<1>1. addr \div 65536 \in 0 .. 127
  BY AddressLimit, SMT
<1>2. (addr \div 65536) % 256 = addr \div 65536
  BY <1>1, SMT
<1>3. (addr \div 256) % 256 \in ByteValues /\ addr % 256 \in ByteValues
  BY ByteRange
<1>4. be24(addr) = <<addr \div 65536, (addr \div 256) % 256, addr % 256>>
  BY <1>2 DEF be24
<1> HIDE DEF be24
<1>5. QED
  BY <1>1, <1>3, <1>4, ByteRange

LEMMA Joined ==
  ASSUME NEW w, NEW x, NEW y, NEW z, NEW F, F = <<w>> \o <<x, y, z>>
  PROVE  Len(F) = 4 /\ F[1] = w /\ F[2] = x /\ F[3] = y /\ F[4] = z
<1>1. <<w, x, y, z>> = <<w>> \o <<x, y, z>>
  OBVIOUS
<1>2. QED
  BY <1>1

\* An opcode, an address and a body.
LEMMA JoinedFrame ==
  ASSUME NEW opcode \in ByteValues, NEW x \in ByteValues, NEW y \in ByteValues,
         NEW z \in ByteValues, NEW body \in Seq(ByteValues),
         NEW F, F = <<opcode>> \o <<x, y, z>> \o body
  PROVE  /\ F \in Seq(ByteValues) /\ Len(F) = 4 + Len(body)
         /\ F[1] = opcode /\ F[2] = x /\ F[3] = y /\ F[4] = z
         /\ \A j \in 1 .. Len(body) : F[4 + j] = body[j]
<1> DEFINE H == <<opcode>> \o <<x, y, z>>
<1>1. <<opcode>> \in Seq(ByteValues) /\ <<x, y, z>> \in Seq(ByteValues)
  OBVIOUS
<1>2. H \in Seq(ByteValues)
  BY <1>1
<1>3. H = <<opcode>> \o <<x, y, z>>
  OBVIOUS
<1>4. F = H \o body
  OBVIOUS
<1> HIDE DEF H
<1>5. Len(H) = 4 /\ H[1] = opcode /\ H[2] = x /\ H[3] = y /\ H[4] = z
  BY <1>3, Joined
<1>6. /\ F \in Seq(ByteValues) /\ Len(F) = Len(H) + Len(body)
      /\ \A j \in 1 .. Len(H) + Len(body) : F[j] = IF j <= Len(H) THEN H[j] ELSE body[j - Len(H)]
  <2>1. /\ H \o body \in Seq(ByteValues) /\ Len(H \o body) = Len(H) + Len(body)
        /\ \A j \in 1 .. Len(H) + Len(body) :
             (H \o body)[j] = IF j <= Len(H) THEN H[j] ELSE body[j - Len(H)]
    BY <1>2, ConcatProperties
  <2>2. QED
    BY <1>4, <2>1, Zenon
<1>7. Len(body) \in Nat
  BY LenProperties
<1>8. F[1] = H[1] /\ F[2] = H[2] /\ F[3] = H[3] /\ F[4] = H[4]
  BY <1>5, <1>6, <1>7
<1>9. ASSUME NEW j \in 1 .. Len(body) PROVE F[4 + j] = body[j]
  <2>1. 4 + j \in 1 .. 4 + Len(body) /\ ~(4 + j <= 4) /\ (4 + j) - 4 = j
    BY <1>7
  <2>2. QED
    BY <1>5, <1>6, <2>1
<1>10. QED
  BY <1>5, <1>6, <1>8, <1>9

\* The bytes of a frame: the opcode, the address and, in a write, the piece.
LEMMA WriteFrame ==
  ASSUME NEW c, NEW m, Pulse(c, m), c.name = "write"
  PROVE  LET F == Frame(c, m) A == c.addr + m IN
         /\ F \in Seq(ByteValues) /\ Len(F) = 4 + Piece(c, m)
         /\ F[1] = QSPI_CMD_WRITE
         /\ F[2] = A \div 65536 /\ F[3] = (A \div 256) % 256 /\ F[4] = A % 256
         /\ \A j \in 1 .. Piece(c, m) : F[4 + j] = c.data[m + j]
<1> DEFINE F == Frame(c, m) A == c.addr + m
           body == SubSeq(c.data, m + 1, m + Piece(c, m))
<1>1. /\ m \in Nat /\ Piece(c, m) \in 1 .. 4 /\ m + Piece(c, m) <= Len(c.data)
      /\ c.data \in Seq(ByteValues)
      /\ \A j \in 1 .. Len(c.data) : c.data[j] \in ByteValues
  BY PieceBounds, ElementOfSeq DEF Pulse, CallFact
<1>2. /\ body \in Seq(ByteValues) /\ Len(body) = Piece(c, m)
      /\ \A j \in 1 .. Piece(c, m) : body[j] = c.data[m + j]
  <2> DEFINE lo == m + 1 hi == m + Piece(c, m)
  <2>1. lo \in Int /\ hi \in Int /\ \A j \in lo .. hi : c.data[j] \in ByteValues
    BY <1>1
  <2>2. body = SubSeq(c.data, lo, hi)
    OBVIOUS
  <2> HIDE DEF lo, hi, body
  <2>3. /\ body \in Seq(ByteValues)
        /\ Len(body) = IF lo <= hi THEN hi - lo + 1 ELSE 0
        /\ \A j \in 1 .. hi - lo + 1 : body[j] = c.data[lo + j - 1]
    <3>1. /\ SubSeq(c.data, lo, hi) \in Seq(ByteValues)
          /\ Len(SubSeq(c.data, lo, hi)) = IF lo <= hi THEN hi - lo + 1 ELSE 0
          /\ \A j \in 1 .. hi - lo + 1 : SubSeq(c.data, lo, hi)[j] = c.data[lo + j - 1]
      BY <2>1, SubSeqProperties
    <3>2. QED
      BY <2>2, <3>1, Zenon
  <2>4. hi - lo + 1 = Piece(c, m) /\ lo <= hi
    BY <1>1 DEF lo, hi
  <2>5. ASSUME NEW j \in 1 .. Piece(c, m) PROVE body[j] = c.data[m + j]
    <3>1. lo + j - 1 = m + j
      BY <1>1 DEF lo
    <3>2. QED
      BY <2>3, <2>4, <3>1
  <2>6. QED
    BY <2>3, <2>4, <2>5
<1>3. A \in Nat /\ A <= ADDR_MAX
  BY <1>1, SpanAssumption, AddressLimit, PieceBounds DEF Pulse, CallFact
<1>4. F = <<QSPI_CMD_WRITE>> \o be24(A) \o body
  BY DEF Frame
<1>5. QSPI_CMD_WRITE \in ByteValues
  BY ByteRange DEF QSPI_CMD_WRITE
<1> HIDE DEF F, A, body
<1>6. /\ F \in Seq(ByteValues) /\ Len(F) = 4 + Len(body)
      /\ F[1] = QSPI_CMD_WRITE
      /\ F[2] = A \div 65536 /\ F[3] = (A \div 256) % 256 /\ F[4] = A % 256
      /\ \A j \in 1 .. Len(body) : F[4 + j] = body[j]
  <2> DEFINE opcode == QSPI_CMD_WRITE
             x == A \div 65536
             y == (A \div 256) % 256
             z == A % 256
  <2>1. opcode \in ByteValues /\ body \in Seq(ByteValues)
    BY <1>2, <1>5
  <2>2. x \in ByteValues /\ y \in ByteValues /\ z \in ByteValues /\ be24(A) = <<x, y, z>>
    BY <1>3, Be24Bytes, ByteRange
  <2> HIDE DEF opcode, x, y, z
  <2>3. F = <<opcode>> \o <<x, y, z>> \o body
    BY <1>4, <2>2 DEF opcode
  <2>4. /\ F \in Seq(ByteValues) /\ Len(F) = 4 + Len(body)
        /\ F[1] = opcode /\ F[2] = x /\ F[3] = y /\ F[4] = z
        /\ \A j \in 1 .. Len(body) : F[4 + j] = body[j]
    BY <2>1, <2>2, <2>3, JoinedFrame
  <2>5. QED
    BY <2>4 DEF opcode, x, y, z
<1>7. \A j \in 1 .. Piece(c, m) : F[4 + j] = c.data[m + j]
  BY <1>2, <1>6
<1>8. Len(F) = 4 + Piece(c, m)
  BY <1>2, <1>6
<1>9. QED
  BY <1>6, <1>7, <1>8 DEF F, A

LEMMA ReadFrame ==
  ASSUME NEW c, NEW m, Pulse(c, m), c.name = "read"
  PROVE  LET F == Frame(c, m) A == c.addr + m IN
         /\ F \in Seq(ByteValues) /\ Len(F) = 4
         /\ F[1] = QSPI_CMD_FAST_READ
         /\ F[2] = A \div 65536 /\ F[3] = (A \div 256) % 256 /\ F[4] = A % 256
<1> DEFINE F == Frame(c, m) A == c.addr + m
<1>1. A \in Nat /\ A <= ADDR_MAX
  BY SpanAssumption, AddressLimit, PieceBounds DEF Pulse, CallFact
<1> HIDE DEF F, A
<1>2. be24(A) \in Seq(ByteValues)
  BY <1>1, Be24Bytes
<1>3. F = <<QSPI_CMD_FAST_READ>> \o be24(A)
  BY DEF F, A, Frame
<1>4. QSPI_CMD_FAST_READ \in ByteValues
  BY ByteRange DEF QSPI_CMD_FAST_READ
<1>5. F \in Seq(ByteValues)
  BY <1>2, <1>3, <1>4
<1>6. be24(A) = <<A \div 65536, (A \div 256) % 256, A % 256>>
  BY <1>1, Be24Bytes
<1>7. F = <<QSPI_CMD_FAST_READ>> \o <<A \div 65536, (A \div 256) % 256, A % 256>>
  BY <1>3, <1>6
<1>8. /\ Len(F) = 4 /\ F[1] = QSPI_CMD_FAST_READ
      /\ F[2] = A \div 65536 /\ F[3] = (A \div 256) % 256 /\ F[4] = A % 256
  BY <1>7, Joined
<1>9. QED
  BY <1>5, <1>8 DEF F, A

LEMMA ExitFrame ==
  ASSUME NEW c, NEW m, c.name = "exit"
  PROVE  LET F == Frame(c, m) IN F \in Seq(ByteValues) /\ Len(F) = 1 /\ F[1] = CMD_EXIT_QPI
<1>1. Frame(c, m) = <<CMD_EXIT_QPI>>
  BY DEF Frame
<1>2. <<CMD_EXIT_QPI>> \in Seq(ByteValues)
  BY ByteRange DEF CMD_EXIT_QPI
<1>3. QED
  BY <1>1, <1>2

LEMMA FrameLength ==
  ASSUME NEW c, NEW m, Pulse(c, m)
  PROVE  /\ Frame(c, m) \in Seq(ByteValues) /\ Len(Frame(c, m)) \in Nat
         /\ 1 <= Len(Frame(c, m)) /\ Len(Frame(c, m)) <= 8
         /\ \A j \in 1 .. Len(Frame(c, m)) : Frame(c, m)[j] \in ByteValues
<1>1. CASE c.name = "write"
  <2>1. Frame(c, m) \in Seq(ByteValues) /\ Len(Frame(c, m)) = 4 + Piece(c, m)
    BY <1>1, WriteFrame
  <2>2. Piece(c, m) \in 1 .. 4
    BY <1>1, PieceBounds
  <2>3. QED
    BY <2>1, <2>2, ElementOfSeq
<1>2. CASE c.name = "read"
  BY <1>2, ReadFrame, ElementOfSeq
<1>3. CASE c.name = "exit"
  BY <1>3, ExitFrame, ElementOfSeq
<1>4. QED
  BY <1>1, <1>2, <1>3 DEF Pulse

\* Every place of a pulse is one of its call.
LEMMA PulsePlaces ==
  ASSUME NEW c, NEW m, Pulse(c, m)
  PROVE  /\ \A at \in Places(c) : At(c, at, m)
         /\ {"rest", "armed", "quiet", "clean", "filling", "selected", "sending", "sent"}
              \subseteq Places(c)
         /\ c.name = "read" => ReadPlaces \subseteq Places(c) /\ At(c, "rest", m + Piece(c, m))
         /\ c.name = "write" => At(c, "closing", m + Piece(c, m)) /\ At(c, "rest", m + Piece(c, m))
         /\ c.name = "exit" => {"closing", "over"} \subseteq Places(c)
<1>1. \A at \in Places(c) : At(c, at, m)
  BY DEF Pulse, At
<1>2. c.name # "exit" => m + Piece(c, m) \in 0 .. Total(c)
  BY PieceBounds
<1>3. QED
  BY <1>1, <1>2 DEF Pulse, Places, At

LEMMA ToWrFollows ==
  ASSUME NEW c, NEW m, Pulse(c, m)
  PROVE  Leads(c, <<"rest", m, 0>>, to_wr, <<"filling", m, 0>>)
<1>1. /\ Step(c, <<"rest", m, 0>>, <<"arm">>, <<"armed", m, 0>>)
      /\ Step(c, <<"armed", m, 0>>, <<"stop", "spi">>, <<"quiet", m, 0>>)
      /\ Step(c, <<"quiet", m, 0>>, <<"park">>, <<"quiet", m, 0>>)
      /\ \A sm : Step(c, <<"quiet", m, 0>>, <<"stop", sm>>, <<"quiet", m, 0>>)
      /\ Step(c, <<"quiet", m, 0>>, <<"restart wr">>, <<"clean", m, 0>>)
      /\ Step(c, <<"clean", m, 0>>, <<"pindirs", "TX">>, <<"filling", m, 0>>)
  BY PulsePlaces DEF Step
<1>2. Leads(c, <<"rest", m, 0>>, << <<"arm">> >>, <<"armed", m, 0>>)
  BY <1>1, Leads1
<1>3. Leads(c, <<"armed", m, 0>>, park("spi"), <<"quiet", m, 0>>)
  BY <1>1, Leads2 DEF park
<1>4. Leads(c, <<"quiet", m, 0>>, park("rd"), <<"quiet", m, 0>>)
  BY <1>1, Leads2 DEF park
<1>5. Leads(c, <<"quiet", m, 0>>, << <<"stop", "wr">>, <<"restart wr">>, <<"pindirs", "TX">> >>,
            <<"filling", m, 0>>)
  BY <1>1, Leads3
<1>6. Leads(c, <<"rest", m, 0>>, << <<"arm">> >> \o park("spi"), <<"quiet", m, 0>>)
  BY <1>2, <1>3, LeadsThen
<1>7. Leads(c, <<"rest", m, 0>>, << <<"arm">> >> \o park("spi") \o park("rd"), <<"quiet", m, 0>>)
  BY <1>4, <1>6, LeadsThen
<1>8. QED
  BY <1>5, <1>7, LeadsThen DEF to_wr

LEMMA PrefillFollows ==
  ASSUME NEW c, NEW m, Pulse(c, m)
  PROVE  Leads(c, <<"filling", m, 0>>, prefill(Frame(c, m)),
               <<"filling", m, Len(Frame(c, m))>>)
<1> DEFINE F == Frame(c, m)
           s == prefill(F)
           path == [i \in 0 .. Len(F) |-> <<"filling", m, i>>]
<1>1. Len(F) \in Nat /\ F \in Seq(ByteValues)
  BY FrameLength
<1>2. s = [i \in 1 .. Len(F) |-> <<"put", pack_qpi_byte(F[i])>>]
  BY DEF prefill, Each
<1>3. At(c, "filling", m)
  BY PulsePlaces
<1> HIDE DEF F, s
<1>4. Len(s) = Len(F) /\ s \in Seq({s[i] : i \in 1 .. Len(F)})
  BY <1>1, <1>2
<1>5. path[0] = <<"filling", m, 0>> /\ path[Len(F)] = <<"filling", m, Len(F)>>
  BY <1>1
<1>6. ASSUME NEW i \in 1 .. Len(F) PROVE Step(c, path[i - 1], s[i], path[i])
  <2>1. /\ path[i - 1] = <<"filling", m, i - 1>> /\ path[i] = <<"filling", m, i>>
        /\ s[i] = <<"put", pack_qpi_byte(F[i])>> /\ i - 1 < Len(F) /\ (i - 1) + 1 = i
    BY <1>1, <1>2
  <2>2. Step(c, <<"filling", m, i - 1>>, <<"put", pack_qpi_byte(F[i])>>, <<"filling", m, i>>)
    BY <1>3, <2>1 DEF Step, F
  <2>3. QED
    BY <2>1, <2>2
<1> HIDE DEF path
<1>7. QED
  BY <1>4, <1>5, <1>6 DEF Leads, F, s

LEMMA FitsFollows ==
  ASSUME NEW c, NEW m, Pulse(c, m)
  PROVE  /\ c.name # "read" => Leads(c, <<"rest", m, 0>>,
              << <<"fits", Len(Frame(c, m)), QPI_WRITE_TX_FIFO_WORDS>> >>, <<"rest", m, 0>>)
         /\ c.name = "read" => Leads(c, <<"rest", m, 0>>,
              << <<"fits", read_words(Piece(c, m)), QPI_READ_RX_FIFO_WORDS>> >>, <<"rest", m, 0>>)
<1>1. At(c, "rest", m)
  BY PulsePlaces
<1>2. Len(Frame(c, m)) <= QPI_WRITE_TX_FIFO_WORDS
  BY FrameLength DEF QPI_WRITE_TX_FIFO_WORDS
<1>3. c.name = "read" => read_words(Piece(c, m)) <= QPI_READ_RX_FIFO_WORDS
  BY PieceBounds DEF read_words, QPI_READ_RX_FIFO_WORDS, QPI_READ_DUMMY_WORDS,
                     QPI_READ_LAG_WORDS, QPI_DUMMY_CYCLES, SCK_PER_BYTE_QPI
<1>4. ASSUME NEW x, NEW y, x <= y
      PROVE  Leads(c, <<"rest", m, 0>>, << <<"fits", x, y>> >>, <<"rest", m, 0>>)
  <2>1. Step(c, <<"rest", m, 0>>, <<"fits", x, y>>, <<"rest", m, 0>>)
    BY <1>1, <1>4 DEF Step
  <2>2. QED
    BY <2>1, Leads1
<1>5. QED
  BY <1>2, <1>3, <1>4

LEMMA SelectFollows ==
  ASSUME NEW c, NEW m, Pulse(c, m)
  PROVE  /\ Step(c, <<"filling", m, Len(Frame(c, m))>>, <<"select", c.d>>, <<"selected", m, 0>>)
         /\ Step(c, <<"selected", m, 0>>, <<"start", "wr">>, <<"sending", m, 0>>)
         /\ Step(c, <<"sending", m, 0>>, <<"drained">>, <<"sent", m, 0>>)
BY PulsePlaces DEF Step

\* A write pulse, and the frame that ends QPI mode.
LEMMA WritePulseFollows ==
  ASSUME NEW c, NEW m, Pulse(c, m), c.name # "read"
  PROVE  Leads(c, <<"rest", m, 0>>, qpi_write(c.d, Frame(c, m)),
               <<IF c.name = "exit" THEN "over" ELSE "rest", After(c, m), 0>>)
<1> DEFINE last == IF c.name = "exit" THEN "over" ELSE "rest"
           F == Frame(c, m)
<1>1. At(c, "closing", After(c, m)) /\ At(c, last, After(c, m))
  BY PulsePlaces DEF After, Pulse
<1>2. /\ Step(c, <<"sent", m, 0>>, <<"deselect">>, <<"closing", After(c, m), 0>>)
      /\ Step(c, <<"closing", After(c, m), 0>>, <<"stop", "wr">>, <<last, After(c, m), 0>>)
      /\ Step(c, <<last, After(c, m), 0>>, <<"park">>, <<last, After(c, m), 0>>)
  BY <1>1, PulsePlaces DEF Step
<1> HIDE DEF F, last
<1>3. Leads(c, <<"filling", m, Len(F)>>,
            << <<"select", c.d>>, <<"start", "wr">>, <<"drained">>, <<"deselect">>,
               <<"stop", "wr">>, <<"park">> >>, <<last, After(c, m), 0>>)
  BY <1>2, SelectFollows, Leads6 DEF F
<1>4. Leads(c, <<"rest", m, 0>>, << <<"fits", Len(F), QPI_WRITE_TX_FIFO_WORDS>> >>,
            <<"rest", m, 0>>)
  BY FitsFollows DEF F
<1>5. Leads(c, <<"rest", m, 0>>, << <<"fits", Len(F), QPI_WRITE_TX_FIFO_WORDS>> >> \o to_wr,
            <<"filling", m, 0>>)
  BY <1>4, ToWrFollows, LeadsThen
<1>6. Leads(c, <<"rest", m, 0>>,
            << <<"fits", Len(F), QPI_WRITE_TX_FIFO_WORDS>> >> \o to_wr \o prefill(F),
            <<"filling", m, Len(F)>>)
  BY <1>5, PrefillFollows, LeadsThen DEF F
<1>7. QED
  BY <1>3, <1>6, LeadsThen DEF qpi_write, F, last

LEMMA TimesFollow ==
  ASSUME NEW c, NEW m, NEW o, NEW p \in Nat, NEW n \in Nat,
         \A i \in p .. p + n - 1 : Step(c, <<"reading", m, i>>, o, <<"reading", m, i + 1>>)
  PROVE  Leads(c, <<"reading", m, p>>, Times(n, o), <<"reading", m, p + n>>)
<1> DEFINE s == Times(n, o)
           path == [i \in 0 .. n |-> <<"reading", m, p + i>>]
<1>1. s = [i \in 1 .. n |-> o]
  BY DEF Times
<1> HIDE DEF s
<1>2. Len(s) = n /\ s \in Seq({o})
  BY <1>1
<1>3. path[0] = <<"reading", m, p>> /\ path[n] = <<"reading", m, p + n>>
  OBVIOUS
<1>4. ASSUME NEW i \in 1 .. n PROVE Step(c, path[i - 1], s[i], path[i])
  <2>1. /\ path[i - 1] = <<"reading", m, p + i - 1>> /\ path[i] = <<"reading", m, p + i>>
        /\ s[i] = o /\ p + i - 1 \in p .. p + n - 1 /\ (p + i - 1) + 1 = p + i
    BY <1>1
  <2> DEFINE q == p + i - 1
  <2>2. Step(c, <<"reading", m, q>>, o, <<"reading", m, q + 1>>)
    BY <2>1
  <2>3. q + 1 = p + i
    OBVIOUS
  <2>4. QED
    BY <2>1, <2>2, <2>3
<1> HIDE DEF path
<1>5. QED
  BY <1>2, <1>3, <1>4 DEF Leads, s

LEMMA DummyWords == QPI_READ_DUMMY_WORDS = 3 /\ QPI_READ_LAG_WORDS = 1
BY DEF QPI_READ_DUMMY_WORDS, QPI_READ_LAG_WORDS, QPI_DUMMY_CYCLES, SCK_PER_BYTE_QPI

LEMMA ReadPulseFollows ==
  ASSUME NEW c, NEW m, Pulse(c, m), c.name = "read"
  PROVE  Leads(c, <<"rest", m, 0>>, qpi_read(c.d, Frame(c, m), Piece(c, m)),
               <<"rest", m + Piece(c, m), 0>>)
<1> DEFINE F == Frame(c, m)
           n == Piece(c, m)
           fits == << <<"fits", read_words(n), QPI_READ_RX_FIFO_WORDS>> >>
           start == << <<"select", c.d>>, <<"start", "wr">>, <<"drained">> >>
           skips == Times(QPI_READ_DUMMY_WORDS, <<"skip">>)
           gets == Times(read_words(n) - QPI_READ_DUMMY_WORDS, <<"get">>)
           end == << <<"stop", "rd">>, <<"deselect">>, <<"park">>, <<"realign", n>> >>
<1>1. n \in Nat /\ 1 <= n /\ n <= 4
  BY PieceBounds
<1>2. /\ \A at \in {"filling", "sent"} \cup ReadPlaces : At(c, at, m)
      /\ At(c, "rest", m + n)
  BY PulsePlaces
<1>3. /\ Step(c, <<"sent", m, 0>>, <<"stop", "wr">>, <<"handing", m, 0>>)
      /\ Step(c, <<"handing", m, 0>>, <<"park">>, <<"handing", m, 0>>)
      /\ Step(c, <<"handing", m, 0>>, <<"pindirs", "RX">>, <<"floating", m, 0>>)
      /\ Step(c, <<"floating", m, 0>>, <<"prime rx">>, <<"primed", m, 0>>)
      /\ Step(c, <<"primed", m, 0>>, <<"start", "rd">>, <<"reading", m, 0>>)
  BY <1>2 DEF Step, ReadPlaces
<1>4. \A i \in 0 .. 2 : Step(c, <<"reading", m, i>>, <<"skip">>, <<"reading", m, i + 1>>)
  BY <1>2 DEF Step, ReadPlaces
<1>5. \A i \in 3 .. n + 3 : Step(c, <<"reading", m, i>>, <<"get">>, <<"reading", m, i + 1>>)
  <2>1. ASSUME NEW i \in 3 .. n + 3
        PROVE  Step(c, <<"reading", m, i>>, <<"get">>, <<"reading", m, i + 1>>)
    <3>1. 3 <= i /\ i < n + 4
      BY <1>1
    <3>2. QED
      BY <1>2, <3>1 DEF Step, ReadPlaces
  <2>2. QED
    BY <2>1
<1>6. /\ Step(c, <<"reading", m, n + 4>>, <<"stop", "rd">>, <<"read", m, 0>>)
      /\ Step(c, <<"read", m, 0>>, <<"deselect">>, <<"unframed", m, 0>>)
      /\ Step(c, <<"unframed", m, 0>>, <<"park">>, <<"unframed", m, 0>>)
      /\ Step(c, <<"unframed", m, 0>>, <<"realign", n>>, <<"rest", m + n, 0>>)
  BY <1>2 DEF Step, ReadPlaces
<1>7. read_words(n) - QPI_READ_DUMMY_WORDS = n + 1
  BY <1>1, DummyWords DEF read_words
<1>8. Leads(c, <<"rest", m, 0>>, fits, <<"rest", m, 0>>)
  BY FitsFollows
<1>9. Leads(c, <<"filling", m, Len(F)>>, start, <<"sent", m, 0>>)
  BY SelectFollows, Leads3
<1>10. Leads(c, <<"sent", m, 0>>, park("wr"), <<"handing", m, 0>>)
  BY <1>3, Leads2 DEF park
<1>11. Leads(c, <<"handing", m, 0>>, turnaround, <<"reading", m, 0>>)
  BY <1>3, Leads3 DEF turnaround
<1>12. Leads(c, <<"reading", m, 0>>, skips, <<"reading", m, 3>>)
  <2>1. Leads(c, <<"reading", m, 0>>, Times(3, <<"skip">>), <<"reading", m, 0 + 3>>)
    <3>1. \A i \in 0 .. 0 + 3 - 1 :
            Step(c, <<"reading", m, i>>, <<"skip">>, <<"reading", m, i + 1>>)
      BY <1>4
    <3>2. QED
      BY <3>1, TimesFollow
  <2>2. QED
    BY <2>1, DummyWords
<1>13. Leads(c, <<"reading", m, 3>>, gets, <<"reading", m, n + 4>>)
  <2>1. \A i \in 3 .. 3 + (n + 1) - 1 :
          Step(c, <<"reading", m, i>>, <<"get">>, <<"reading", m, i + 1>>)
    BY <1>1, <1>5
  <2> DEFINE k == n + 1
  <2>2. k \in Nat /\ 3 + k = n + 4
    BY <1>1
  <2>3. \A i \in 3 .. 3 + k - 1 :
          Step(c, <<"reading", m, i>>, <<"get">>, <<"reading", m, i + 1>>)
    BY <2>1
  <2>4. gets = Times(k, <<"get">>)
    BY <1>7
  <2> HIDE DEF k, gets
  <2>5. Leads(c, <<"reading", m, 3>>, Times(k, <<"get">>), <<"reading", m, 3 + k>>)
    BY <2>2, <2>3, TimesFollow
  <2>6. QED
    BY <2>2, <2>4, <2>5
<1>14. Leads(c, <<"reading", m, n + 4>>, end, <<"rest", m + n, 0>>)
  BY <1>6, Leads4
<1>15. Leads(c, <<"rest", m, 0>>, to_wr, <<"filling", m, 0>>)
       /\ Leads(c, <<"filling", m, 0>>, prefill(F), <<"filling", m, Len(F)>>)
  BY ToWrFollows, PrefillFollows
<1>16. qpi_read(c.d, F, n)
         = fits \o to_wr \o prefill(F) \o start \o park("wr") \o turnaround \o skips \o gets \o end
  BY DEF qpi_read
<1> HIDE DEF F, n, fits, start, skips, gets, end
<1>17. Leads(c, <<"rest", m, 0>>, fits \o to_wr, <<"filling", m, 0>>)
  BY <1>8, <1>15, LeadsThen
<1>18. Leads(c, <<"rest", m, 0>>, fits \o to_wr \o prefill(F), <<"filling", m, Len(F)>>)
  BY <1>15, <1>17, LeadsThen
<1>19. Leads(c, <<"rest", m, 0>>, fits \o to_wr \o prefill(F) \o start, <<"sent", m, 0>>)
  BY <1>9, <1>18, LeadsThen
<1>20. Leads(c, <<"rest", m, 0>>, fits \o to_wr \o prefill(F) \o start \o park("wr"),
             <<"handing", m, 0>>)
  BY <1>10, <1>19, LeadsThen
<1>21. Leads(c, <<"rest", m, 0>>, fits \o to_wr \o prefill(F) \o start \o park("wr") \o turnaround,
             <<"reading", m, 0>>)
  BY <1>11, <1>20, LeadsThen
<1>22. Leads(c, <<"rest", m, 0>>,
             fits \o to_wr \o prefill(F) \o start \o park("wr") \o turnaround \o skips,
             <<"reading", m, 3>>)
  BY <1>12, <1>21, LeadsThen
<1>23. Leads(c, <<"rest", m, 0>>,
             fits \o to_wr \o prefill(F) \o start \o park("wr") \o turnaround \o skips \o gets,
             <<"reading", m, n + 4>>)
  BY <1>13, <1>22, LeadsThen
<1>24. Leads(c, <<"rest", m, 0>>,
             fits \o to_wr \o prefill(F) \o start \o park("wr") \o turnaround
               \o skips \o gets \o end,
             <<"rest", m + n, 0>>)
  BY <1>14, <1>23, LeadsThen
<1>25. QED
  BY <1>16, <1>24 DEF F, n

\* The frames of SPI mode.
LEMMA SpiFollows ==
  ASSUME NEW c, c.name = "enter", NEW d \in Devices, NEW byte
  PROVE  Leads(c, <<"rest", 0, 0>>, spi_write(d, byte), <<"rest", 0, 0>>)
<1>1. \A at \in {"rest", "armed", "spi ready", "spi selected"} : At(c, at, 0)
  <2>1. \A at \in {"rest", "armed", "spi ready", "spi selected"} : at \in Places(c)
    BY DEF Places
  <2>2. 0 \in 0 .. Total(c) /\ c.name \notin {"write", "read"}
    BY DEF Total
  <2>3. QED
    BY <2>1, <2>2 DEF At
<1>2. /\ Step(c, <<"rest", 0, 0>>, <<"arm">>, <<"armed", 0, 0>>)
      /\ \A sm : Step(c, <<"armed", 0, 0>>, <<"stop", sm>>, <<"armed", 0, 0>>)
      /\ Step(c, <<"armed", 0, 0>>, <<"park">>, <<"armed", 0, 0>>)
      /\ Step(c, <<"armed", 0, 0>>, <<"pindirs", "SPI">>, <<"spi ready", 0, 0>>)
      /\ Step(c, <<"spi ready", 0, 0>>, <<"start", "spi">>, <<"spi ready", 0, 0>>)
      /\ Step(c, <<"spi ready", 0, 0>>, <<"select", d>>, <<"spi selected", 0, 0>>)
      /\ Step(c, <<"spi selected", 0, 0>>, <<"spi", byte>>, <<"spi selected", 0, 0>>)
      /\ Step(c, <<"spi selected", 0, 0>>, <<"deselect">>, <<"rest", 0, 0>>)
  BY <1>1 DEF Step
<1>3. Leads(c, <<"rest", 0, 0>>, << <<"arm">> >>, <<"armed", 0, 0>>)
  BY <1>2, Leads1
<1>4. \A sm : Leads(c, <<"armed", 0, 0>>, park(sm), <<"armed", 0, 0>>)
  BY <1>2, Leads2 DEF park
<1>5. Leads(c, <<"armed", 0, 0>>, << <<"pindirs", "SPI">> >>, <<"spi ready", 0, 0>>)
  BY <1>2, Leads1
<1>6. Leads(c, <<"spi ready", 0, 0>>,
            << <<"start", "spi">>, <<"select", d>>, <<"spi", byte>>, <<"deselect">> >>,
            <<"rest", 0, 0>>)
  BY <1>2, Leads4
<1>7. Leads(c, <<"rest", 0, 0>>, << <<"arm">> >> \o park("wr"), <<"armed", 0, 0>>)
  BY <1>3, <1>4, LeadsThen
<1>8. Leads(c, <<"rest", 0, 0>>, << <<"arm">> >> \o park("wr") \o park("rd"), <<"armed", 0, 0>>)
  BY <1>4, <1>7, LeadsThen
<1>9. Leads(c, <<"rest", 0, 0>>, to_spi, <<"spi ready", 0, 0>>)
  BY <1>5, <1>8, LeadsThen DEF to_spi
<1>10. QED
  BY <1>6, <1>9, LeadsThen DEF spi_write

\* Where the pulses begin.
LEMMA OffsetsAre ==
  ASSUME NEW n \in Nat, NEW chunk \in 1 .. 4
  PROVE  /\ Len(Offsets(n, chunk)) \in Nat
         /\ \A i \in 1 .. Len(Offsets(n, chunk)) : Offsets(n, chunk)[i] = (i - 1) * chunk
         /\ n = 0 => Len(Offsets(n, chunk)) = 0
<1> DEFINE count == (n + chunk - 1) \div chunk
           offsets == Offsets(n, chunk)
<1>1. count \in Nat /\ (n = 0 => count = 0)
  <2>1. CASE chunk = 1 BY <2>1
  <2>2. CASE chunk = 2 BY <2>2
  <2>3. CASE chunk = 3 BY <2>3
  <2>4. CASE chunk = 4 BY <2>4
  <2>5. QED BY <2>1, <2>2, <2>3, <2>4
<1>2. offsets = [i \in 1 .. count |-> (i - 1) * chunk]
  BY DEF Offsets
<1> HIDE DEF offsets, count
<1>3. Len(offsets) = count /\ \A i \in 1 .. count : offsets[i] = (i - 1) * chunk
  BY <1>1, <1>2
<1>4. QED
  BY <1>1, <1>3 DEF offsets

\* The pulses of a span, one after the other.
LEMMA PulsesFollow ==
  ASSUME NEW c, CallFact(c), c.name \in {"write", "read"},
         NEW P, P = [i \in 1 .. Len(Offsets(Total(c), Chunk(c))) |-> P[i]],
         \A i \in 1 .. Len(Offsets(Total(c), Chunk(c))) :
           LET m == Offsets(Total(c), Chunk(c))[i]
           IN  Pulse(c, m) => Leads(c, <<"rest", m, 0>>, P[i], <<"rest", m + Piece(c, m), 0>>)
  PROVE  Leads(c, <<"rest", 0, 0>>, FlattenSeq(P), <<"rest", Total(c), 0>>)
<1> DEFINE n == Total(c)
           chunk == Chunk(c)
           offsets == Offsets(n, chunk)
           k == Len(offsets)
<1>1. n \in Nat /\ n = Len(c.data) /\ chunk \in 1 .. 4
  BY PulsesFit, LenProperties DEF CallFact, Total, Chunk
<1>2. k \in Nat /\ \A i \in 1 .. k : offsets[i] = (i - 1) * chunk
  <2> HIDE DEF n, chunk
  <2>1. QED
    BY <1>1, OffsetsAre
<1>3. CASE n = 0
  <2>1. k = 0
    <3> HIDE DEF n, chunk
    <3>1. QED
      BY <1>1, <1>3, OffsetsAre
  <2>2. P = <<>>
    BY <2>1
  <2>3. FlattenSeq(P) = P
    BY <2>2, FlattenedIsRecursive, EmptySeq
  <2>4. QED
    BY <1>3, <2>2, <2>3, LeadsNowhere, SMTT(30)
<1>4. CASE n # 0
  <2>1. /\ k >= 1 /\ offsets[1] = 0
        /\ \A i \in 1 .. k :
             /\ piece(n, offsets[i], chunk) \in 1 .. chunk
             /\ offsets[i] + piece(n, offsets[i], chunk) = IF i = k THEN n ELSE offsets[i + 1]
    <3> HIDE DEF n, chunk
    <3>1. n \in Nat \ {0} /\ chunk \in 1 .. 4
      BY <1>1, <1>4
    <3>2. QED
      BY <3>1, PulsesTile, Zenon
  <2> DEFINE S == {P[i] : i \in 1 .. k}
  <2>2. P \in Seq(S) /\ Len(P) = k
    <3> HIDE DEF k, offsets
    <3>1. P = [i \in 1 .. k |-> P[i]] /\ k \in Nat
      BY <1>2 DEF k, offsets, n, chunk
    <3> DEFINE Q == [i \in 1 .. k |-> P[i]]
    <3>2. Q \in Seq(S) /\ Len(Q) = k
      <4>1. \A i \in 1 .. k : P[i] \in S
        OBVIOUS
      <4>2. Q \in [1 .. k -> S]
        BY <4>1
      <4> HIDE DEF S, Q
      <4>3. QED
        BY <3>1, <4>2, ListOf
    <3>3. P = Q
      BY <3>1
    <3> HIDE DEF Q, S
    <3>4. QED
      BY <3>2, <3>3
  <2>3. ASSUME NEW i \in 1 .. k
        PROVE  /\ Pulse(c, offsets[i]) /\ Piece(c, offsets[i]) = piece(n, offsets[i], chunk)
               /\ offsets[i] \in Nat
    <3>1. offsets[i] \in Nat
      <4>1. offsets[i] = (i - 1) * chunk /\ i - 1 \in Nat
        BY <1>2
      <4> HIDE DEF offsets, chunk
      <4>2. QED
        BY <1>1, <4>1
    <3>2. piece(n, offsets[i], chunk) >= 1
      BY <1>1, <2>1
    <3> DEFINE m == offsets[i]
    <3> HIDE DEF m, n, chunk
    <3>3. m < n
      BY <1>1, <3>1, <3>2 DEF piece, Least, m
    <3>4. QED
      BY <1>1, <3>1, <3>3 DEF Pulse, Piece, m, n, chunk
  <2> DEFINE E(i) == IF i = k THEN n ELSE offsets[i + 1]
  <2>4. ASSUME NEW i \in 1 .. k
        PROVE  Leads(c, <<"rest", offsets[i], 0>>, P[i], <<"rest", E(i), 0>>)
    <3>1. Leads(c, <<"rest", offsets[i], 0>>, P[i],
                <<"rest", offsets[i] + Piece(c, offsets[i]), 0>>)
      BY <2>3
    <3>2. offsets[i] + Piece(c, offsets[i]) = E(i)
      BY <2>1, <2>3
    <3>3. QED
      BY <3>1, <3>2
  <2>5. /\ FlattenSeq(P) = Flattened(P)[k]
        /\ Flattened(P) = [i \in 1 .. k |-> IF i = 1 THEN P[i] ELSE Flattened(P)[i - 1] \o P[i]]
    <3> HIDE DEF k, S
    <3>1. k # 0
      BY <1>2, <2>1 DEF k
    <3>2. QED
      BY <2>2, <3>1, FlattenedIsRecursive
  <2> DEFINE f == Flattened(P)
  <2>6. \A i \in 1 .. k : f[i] = IF i = 1 THEN P[i] ELSE f[i - 1] \o P[i]
    <3> DEFINE body(i) == IF i = 1 THEN P[i] ELSE f[i - 1] \o P[i]
    <3>1. f = [i \in 1 .. k |-> body(i)]
      BY <2>5
    <3> HIDE DEF body, f, k
    <3>2. \A i \in 1 .. k : f[i] = body(i)
      BY <3>1
    <3>3. QED
      BY <3>2 DEF body
  <2> DEFINE T == {j \in Nat : j + 1 \in 1 .. k =>
                                 Leads(c, <<"rest", 0, 0>>, f[j + 1], <<"rest", E(j + 1), 0>>)}
  <2> HIDE DEF f, k, offsets, E, n, chunk
  <2>7. 0 \in T
    <3>0. 1 \in 1 .. k
      BY <1>2, <2>1 DEF k, offsets, n, chunk
    <3>1. f[1] = P[1]
      BY <2>6, <3>0, Zenon
    <3>2. Leads(c, <<"rest", 0, 0>>, f[1], <<"rest", E(1), 0>>)
      <4>1. Leads(c, <<"rest", offsets[1], 0>>, P[1], <<"rest", E(1), 0>>)
        BY <2>4, <3>0
      <4>2. QED
        BY <2>1, <3>1, <4>1
    <3>3. QED
      BY <3>2
  <2>8. ASSUME NEW j \in Nat, j \in T PROVE j + 1 \in T
    <3> SUFFICES ASSUME j + 2 \in 1 .. k
                 PROVE  Leads(c, <<"rest", 0, 0>>, f[j + 2], <<"rest", E(j + 2), 0>>)
      OBVIOUS
    <3>1. j + 1 \in 1 .. k /\ j + 1 # k /\ j + 2 # 1 /\ (j + 2) - 1 = j + 1 /\ (j + 1) + 1 = j + 2
      BY <1>2
    <3>2. Leads(c, <<"rest", 0, 0>>, f[j + 1], <<"rest", E(j + 1), 0>>)
      BY <2>8, <3>1
    <3>3. E(j + 1) = offsets[j + 2]
      BY <3>1 DEF E
    <3>4. f[j + 2] = f[j + 1] \o P[j + 2]
      <4>1. f[j + 2] = IF j + 2 = 1 THEN P[j + 2] ELSE f[(j + 2) - 1] \o P[j + 2]
        BY <2>6
      <4>2. QED
        BY <3>1, <4>1, Zenon
    <3>5. Leads(c, <<"rest", offsets[j + 2], 0>>, P[j + 2], <<"rest", E(j + 2), 0>>)
      BY <2>4
    <3>6. QED
      <4>1. Leads(c, <<"rest", E(j + 1), 0>>, P[j + 2], <<"rest", E(j + 2), 0>>)
        BY <3>3, <3>5, Zenon
      <4>2. QED
        BY <3>2, <3>4, <4>1, LeadsThen
  <2>9. k - 1 \in T
    <3> HIDE DEF T
    <3>1. Nat \subseteq T
      BY <2>7, <2>8, Induct
    <3>2. QED
      BY <1>2, <2>1, <3>1 DEF k, offsets, n, chunk
  <2>10. E(k) = n
    BY DEF E
  <2>11. Leads(c, <<"rest", 0, 0>>, f[k], <<"rest", n, 0>>)
    <3>1. (k - 1) + 1 = k /\ k \in 1 .. k
      BY <1>2, <2>1 DEF k
    <3>2. QED
      BY <2>9, <2>10, <3>1
  <2>12. QED
    BY <2>5, <2>11 DEF f, n, k
<1>5. QED
  BY <1>3, <1>4

LEMMA WriteFollows ==
  ASSUME NEW c, CallFact(c), c.name = "write"
  PROVE  Leads(c, <<"rest", 0, 0>>, write(c.d, c.addr, c.data), <<"rest", Total(c), 0>>)
<1> DEFINE offsets == Offsets(Len(c.data), wr_chunk)
           pulse(o) == write_pulse(c.d, c.addr + o,
                         SubSeq(c.data, o + 1, o + piece(Len(c.data), o, wr_chunk)))
           P == [i \in 1 .. Len(offsets) |-> pulse(offsets[i])]
<1>1. Total(c) = Len(c.data) /\ Chunk(c) = wr_chunk
  BY DEF Total, Chunk
<1>2. write(c.d, c.addr, c.data) = FlattenSeq(P)
  BY DEF write, Each
<1>3. ASSUME NEW m, Pulse(c, m)
      PROVE  Leads(c, <<"rest", m, 0>>, pulse(m), <<"rest", m + Piece(c, m), 0>>)
  <2>1. pulse(m) = qpi_write(c.d, Frame(c, m))
    BY <1>1 DEF write_pulse, Frame, Piece
  <2>2. Leads(c, <<"rest", m, 0>>, qpi_write(c.d, Frame(c, m)), <<"rest", After(c, m), 0>>)
    BY <1>3, WritePulseFollows
  <2>3. QED
    BY <2>1, <2>2 DEF After
<1> HIDE DEF pulse, offsets
<1>4. P = [i \in 1 .. Len(offsets) |-> P[i]]
  OBVIOUS
<1>5. \A i \in 1 .. Len(offsets) : P[i] = pulse(offsets[i])
  OBVIOUS
<1> HIDE DEF P
<1>6. Leads(c, <<"rest", 0, 0>>, FlattenSeq(P), <<"rest", Total(c), 0>>)
  <2>1. offsets = Offsets(Total(c), Chunk(c))
    BY <1>1 DEF offsets
  <2>2. QED
    BY <1>3, <1>4, <1>5, <2>1, PulsesFollow
<1>7. QED
  BY <1>2, <1>6

LEMMA ReadFollows ==
  ASSUME NEW c, CallFact(c), c.name = "read"
  PROVE  Leads(c, <<"rest", 0, 0>>, read(c.d, c.addr, Len(c.data)), <<"rest", Total(c), 0>>)
<1> DEFINE offsets == Offsets(Len(c.data), eb_chunk)
           pulse(o) == read_pulse(c.d, c.addr + o, piece(Len(c.data), o, eb_chunk))
           P == [i \in 1 .. Len(offsets) |-> pulse(offsets[i])]
<1>1. Total(c) = Len(c.data) /\ Chunk(c) = eb_chunk
  BY DEF Total, Chunk
<1>2. read(c.d, c.addr, Len(c.data)) = FlattenSeq(P)
  BY DEF read, Each
<1>3. ASSUME NEW m, Pulse(c, m)
      PROVE  Leads(c, <<"rest", m, 0>>, pulse(m), <<"rest", m + Piece(c, m), 0>>)
  <2>1. pulse(m) = qpi_read(c.d, Frame(c, m), Piece(c, m))
    BY <1>1 DEF read_pulse, Frame, Piece
  <2>2. QED
    BY <1>3, <2>1, ReadPulseFollows
<1> HIDE DEF pulse, offsets
<1>4. P = [i \in 1 .. Len(offsets) |-> P[i]]
  OBVIOUS
<1>5. \A i \in 1 .. Len(offsets) : P[i] = pulse(offsets[i])
  OBVIOUS
<1> HIDE DEF P
<1>6. Leads(c, <<"rest", 0, 0>>, FlattenSeq(P), <<"rest", Total(c), 0>>)
  <2>1. offsets = Offsets(Total(c), Chunk(c))
    BY <1>1 DEF offsets
  <2>2. QED
    BY <1>3, <1>4, <1>5, <2>1, PulsesFollow
<1>7. QED
  BY <1>2, <1>6

LEMMA EnterFollows ==
  ASSUME NEW c, c.name = "enter", NEW d \in Devices
  PROVE  Leads(c, <<"rest", 0, 0>>, spi_reset(d) \o enter_qpi(d), Finish(c))
<1>1. \A byte : Leads(c, <<"rest", 0, 0>>, spi_write(d, byte), <<"rest", 0, 0>>)
  BY SpiFollows
<1>2. Leads(c, <<"rest", 0, 0>>, spi_reset(d), <<"rest", 0, 0>>)
  BY <1>1, LeadsThen DEF spi_reset
<1>3. Leads(c, <<"rest", 0, 0>>, enter_qpi(d), <<"rest", 0, 0>>)
  BY <1>1 DEF enter_qpi
<1>4. Finish(c) = <<"rest", 0, 0>>
  BY DEF Finish, Total
<1>5. QED
  BY <1>2, <1>3, <1>4, LeadsThen

LEMMA ExitFollows ==
  ASSUME NEW c, CallFact(c), c.name = "exit"
  PROVE  Leads(c, <<"rest", 0, 0>>, exit_qpi(c.d), Finish(c))
<1>1. Pulse(c, 0) /\ Total(c) = 0
  BY DEF Pulse, Total
<1>2. Frame(c, 0) = <<CMD_EXIT_QPI>> /\ After(c, 0) = 0 /\ Finish(c) = <<"over", 0, 0>>
  BY <1>1 DEF Frame, After, Finish
<1>3. Leads(c, <<"rest", 0, 0>>, qpi_write(c.d, <<CMD_EXIT_QPI>>), <<"over", 0, 0>>)
  BY <1>1, <1>2, WritePulseFollows
<1>4. Step(c, <<"over", 0, 0>>, <<"pindirs", "SPI">>, <<"over", 0, 0>>)
  <2>1. At(c, "over", 0)
    BY <1>1, PulsePlaces
  <2>2. QED
    BY <2>1 DEF Step
<1>5. Leads(c, <<"over", 0, 0>>, << <<"pindirs", "SPI">> >>, <<"over", 0, 0>>)
  BY <1>4, Leads1
<1>6. QED
  BY <1>2, <1>3, <1>5, LeadsThen DEF exit_qpi

\* A call may begin with a release.
LEMMA ReleaseFollows ==
  ASSUME NEW c, CallFact(c), NEW s, NEW b, Leads(c, <<"rest", 0, 0>>, s, b),
         c.name \in {"write", "read", "enter", "exit"}
  PROVE  Leads(c, <<"rest", 0, 0>>, << <<"release">> >> \o s, b)
<1>1. At(c, "rest", 0)
  <2>1. Total(c) \in Nat
    BY LenProperties DEF CallFact, Total
  <2>2. QED
    BY <2>1 DEF At, Places
<1>2. Step(c, <<"rest", 0, 0>>, <<"release">>, <<"rest", 0, 0>>)
  BY <1>1 DEF Step
<1>3. QED
  BY <1>2, Leads1, LeadsThen

-------------------------------------------------------------------------------
(***************************************************************************)
(* The device, edge by edge.                                               *)
(***************************************************************************)
LEMMA DeselectedIs ==
  /\ IsDevice(Deselected) /\ Deselected.phase = "IDLE" /\ Deselected.drive = NONE
  /\ IsDevice(BeginTransaction) /\ BeginTransaction.phase = "CMD" /\ BeginTransaction.count = 0
  /\ BeginTransaction.opcode = 0 /\ BeginTransaction.address = 0
  /\ BeginTransaction.half = NONE /\ BeginTransaction.drive = NONE
BY DEF Deselected, BeginTransaction, IsDevice

LEMMA FallIsQuiet ==
  ASSUME NEW p, IsDevice(p), NEW image, p.phase # "DATA" \/ Sampling(p),
         NEW q, q = OnSckFall(p, image)
  PROVE  /\ IsDevice(q) /\ q.phase = p.phase /\ q.count = p.count /\ q.opcode = p.opcode
         /\ q.address = p.address /\ q.half = p.half /\ q.drive = NONE
<1>1. q = [p EXCEPT !.drive = NONE]
  BY DEF OnSckFall
<1>2. QED
  BY <1>1 DEF IsDevice

LEMMA CountIs ==
  ASSUME NEW p, IsDevice(p)
  PROVE  /\ IsDevice(Count(p)) /\ Count(p).phase = p.phase /\ Count(p).count = p.count + 1
         /\ Count(p).opcode = p.opcode /\ Count(p).address = p.address
         /\ Count(p).start = p.start /\ Count(p).bytes = p.bytes
         /\ Count(p).half = p.half /\ Count(p).drive = p.drive
BY DEF Count, IsDevice

LEMMA EnterIs ==
  ASSUME NEW p, IsDevice(p), NEW phase, NEW q, q = Enter(p, phase)
  PROVE  /\ IsDevice(q) /\ q.phase = phase /\ q.count = 0 /\ q.opcode = p.opcode
         /\ q.address = p.address /\ q.half = p.half /\ q.drive = p.drive
<1>1. q = [phase |-> phase, count |-> 0, opcode |-> p.opcode, address |-> p.address,
           start |-> p.start, half |-> p.half, drive |-> p.drive, bytes |-> p.bytes]
  BY DEF Enter, IsDevice
<1>2. QED
  BY <1>1 DEF IsDevice

LEMMA RiseInCmd ==
  ASSUME NEW p, IsDevice(p), NEW nibble \in Nat, p.phase = "CMD", p.count \in Nat,
         NEW q, q = OnSckRise(p, nibble)
  PROVE  /\ IsDevice(q) /\ q.address = p.address /\ q.half = p.half /\ q.drive = p.drive
         /\ q.opcode = (16 * p.opcode + nibble) % 256
         /\ IF p.count + 1 < 2 THEN q.phase = "CMD" /\ q.count = p.count + 1
            ELSE /\ q.count = 0
                 /\ q.phase = IF q.opcode \in qspi_cmd_t THEN "ADDR" ELSE "IGNORE"
<1>1. q = CmdNibble(p, nibble)
  BY DEF OnSckRise, Sampling
<1> DEFINE r == [Count(p) EXCEPT !.opcode = (16 * @ + nibble) % 256]
<1>2. /\ IsDevice(r) /\ r.phase = "CMD" /\ r.count = p.count + 1
      /\ r.opcode = (16 * p.opcode + nibble) % 256 /\ r.address = p.address
      /\ r.half = p.half /\ r.drive = p.drive
  <2> DEFINE s == Count(p)
  <2>1. /\ IsDevice(s) /\ s.phase = "CMD" /\ s.count = p.count + 1 /\ s.opcode = p.opcode
        /\ s.address = p.address /\ s.half = p.half /\ s.drive = p.drive
    BY CountIs
  <2> DEFINE x == (16 * s.opcode + nibble) % 256
  <2>2. r = [s EXCEPT !.opcode = x]
    OBVIOUS
  <2> HIDE DEF s, x, r
  <2>3. /\ IsDevice(r) /\ r.phase = s.phase /\ r.count = s.count /\ r.opcode = x
        /\ r.address = s.address /\ r.half = s.half /\ r.drive = s.drive
    BY <2>1, <2>2 DEF IsDevice
  <2>4. QED
    BY <2>1, <2>3 DEF x
<1>3. q = IF r.count < 2 THEN r
          ELSE Enter(r, IF r.opcode \in qspi_cmd_t THEN "ADDR" ELSE "IGNORE")
  BY <1>1 DEF CmdNibble
<1> HIDE DEF r
<1>4. CASE p.count + 1 < 2
  BY <1>2, <1>3, <1>4
<1>5. CASE ~(p.count + 1 < 2)
  <2>1. q = Enter(r, IF r.opcode \in qspi_cmd_t THEN "ADDR" ELSE "IGNORE")
    BY <1>2, <1>3, <1>5
  <2>2. QED
    BY <1>2, <1>5, <2>1, EnterIs
<1>6. QED
  BY <1>4, <1>5

LEMMA RiseInAddr ==
  ASSUME NEW p, IsDevice(p), NEW nibble \in Nat, p.phase = "ADDR", p.count \in Nat,
         NEW q, q = OnSckRise(p, nibble)
  PROVE  /\ IsDevice(q) /\ q.opcode = p.opcode /\ q.half = p.half /\ q.drive = p.drive
         /\ p.count + 1 < 6 =>
              /\ q.phase = "ADDR" /\ q.count = p.count + 1
              /\ q.address = (16 * p.address + nibble) % QSPI_ADDR_SPACE
         /\ ~(p.count + 1 < 6) =>
              /\ q.phase = PhaseAfterAddress(p.opcode) /\ q.count = 0
              /\ q.address = WireAddr((16 * p.address + nibble) % QSPI_ADDR_SPACE)
<1>1. q = AddrNibbleIn(p, nibble)
  BY DEF OnSckRise, Sampling
<1> DEFINE r == [Count(p) EXCEPT !.address = (16 * @ + nibble) % QSPI_ADDR_SPACE]
<1>2. /\ IsDevice(r) /\ r.phase = "ADDR" /\ r.count = p.count + 1
      /\ r.address = (16 * p.address + nibble) % QSPI_ADDR_SPACE /\ r.opcode = p.opcode
      /\ r.half = p.half /\ r.drive = p.drive
  <2> DEFINE s == Count(p)
  <2>1. /\ IsDevice(s) /\ s.phase = "ADDR" /\ s.count = p.count + 1 /\ s.opcode = p.opcode
        /\ s.address = p.address /\ s.half = p.half /\ s.drive = p.drive
    BY CountIs
  <2> DEFINE x == (16 * s.address + nibble) % QSPI_ADDR_SPACE
  <2>2. r = [s EXCEPT !.address = x]
    OBVIOUS
  <2> HIDE DEF s, x, r
  <2>3. /\ IsDevice(r) /\ r.phase = s.phase /\ r.count = s.count /\ r.opcode = s.opcode
        /\ r.address = x /\ r.half = s.half /\ r.drive = s.drive
    BY <2>1, <2>2 DEF IsDevice
  <2>4. QED
    BY <2>1, <2>3 DEF x
<1>3. q = IF r.count < 6 THEN r
          ELSE [Enter(r, PhaseAfterAddress(r.opcode)) EXCEPT
                  !.address = WireAddr(@), !.start = WireAddr(r.address)]
  BY <1>1 DEF AddrNibbleIn
<1> HIDE DEF r
<1>4. CASE p.count + 1 < 6
  BY <1>2, <1>3, <1>4
<1>5. CASE ~(p.count + 1 < 6)
  <2>1. q = [Enter(r, PhaseAfterAddress(r.opcode)) EXCEPT
                  !.address = WireAddr(@), !.start = WireAddr(r.address)]
    BY <1>2, <1>3, <1>5
  <2> DEFINE s == Enter(r, PhaseAfterAddress(r.opcode))
  <2>2. /\ IsDevice(s) /\ s.phase = PhaseAfterAddress(p.opcode) /\ s.count = 0
        /\ s.opcode = p.opcode /\ s.address = r.address /\ s.half = p.half /\ s.drive = p.drive
    BY <1>2, EnterIs
  <2>3. q = [s EXCEPT !.address = WireAddr(@), !.start = WireAddr(r.address)]
    BY <2>1
  <2> HIDE DEF s
  <2>4. /\ IsDevice(q) /\ q.phase = s.phase /\ q.count = s.count /\ q.opcode = s.opcode
        /\ q.address = WireAddr(s.address) /\ q.half = s.half /\ q.drive = s.drive
    BY <2>2, <2>3 DEF IsDevice
  <2>5. QED
    BY <1>2, <1>5, <2>2, <2>4
<1>6. QED
  BY <1>4, <1>5

LEMMA RiseInWrite ==
  ASSUME NEW p, IsDevice(p), NEW nibble, Sampling(p), NEW q, q = OnSckRise(p, nibble)
  PROVE  /\ IsDevice(q) /\ q.phase = "DATA" /\ q.opcode = p.opcode /\ q.drive = p.drive
         /\ p.half = NONE => q.half = nibble /\ q.address = p.address
         /\ p.half # NONE => q.half = NONE /\ q.address = p.address + 1
<1>1. q = WriteNibble(p, nibble) /\ p.phase = "DATA"
  BY DEF OnSckRise, Sampling
<1>2. CASE p.half = NONE
  BY <1>1, <1>2 DEF WriteNibble, Count, IsDevice
<1>3. CASE p.half # NONE
  BY <1>1, <1>3 DEF WriteNibble, Count, IsDevice
<1>4. QED
  BY <1>2, <1>3

LEMMA RiseWhileReading ==
  ASSUME NEW p, IsDevice(p), p.opcode = QSPI_CMD_FAST_READ, p.phase \in {"DUMMY", "DATA"},
         NEW nibble, NEW q, q = OnSckRise(p, nibble)
  PROVE  /\ IsDevice(q) /\ q.opcode = p.opcode /\ q.half = p.half /\ q.drive = p.drive
         /\ q.address = p.address /\ ~CommitsByte(p)
         /\ p.phase = "DATA" => q.phase = "DATA"
         /\ p.phase = "DUMMY" => IF p.count + 1 < 6 THEN q.phase = "DUMMY" /\ q.count = p.count + 1
                                 ELSE q.phase = "DATA"
<1>1. ~Sampling(p)
  BY DEF Sampling, QSPI_CMD_WRITE, QSPI_CMD_FAST_READ
<1>2. CASE p.phase = "DATA"
  <2>1. q = Count(p)
    BY <1>1, <1>2 DEF OnSckRise
  <2>2. QED
    BY <1>1, <1>2, <2>1 DEF Count, IsDevice, CommitsByte
<1>3. CASE p.phase = "DUMMY"
  <2>1. q = DummyClock(p)
    BY <1>3 DEF OnSckRise, Sampling
  <2>2. q = IF p.count + 1 < 6 THEN Count(p) ELSE Enter(p, "DATA")
    BY <2>1 DEF DummyClock, qspi_wait_cycles
  <2>3. QED
    BY <1>1, <1>3, <2>2, CountIs, EnterIs DEF CommitsByte
<1>4. QED
  BY <1>2, <1>3

-------------------------------------------------------------------------------
(***************************************************************************)
(* Sending: the machine "wr" shifts a frame out.                           *)
(***************************************************************************)
LEMMA Nibbles ==
  ASSUME NEW b \in ByteValues
  PROVE  /\ b \div 16 \in 0 .. 15 /\ b % 16 \in 0 .. 15
         /\ 16 * (b \div 16) + (b % 16) = b
<1>1. b \in Nat /\ b <= 255
  BY ByteRange
<1>2. /\ b \div 16 \in Nat /\ b \div 16 <= 15 /\ b % 16 \in Nat /\ b % 16 <= 15
      /\ 16 * (b \div 16) + (b % 16) = b
  BY <1>1, SMT
<1>3. \A x \in Nat : x <= 15 => x \in 0 .. 15
  OBVIOUS
<1>4. QED
  BY <1>2, <1>3

LEMMA CompactIsInverse ==
  ASSUME NEW x \in 0 .. 15
  PROVE  compact(expand(x)) = x
<1>1. /\ x % 4 \in Int /\ 0 <= x % 4 /\ x % 4 <= 3
      /\ x \div 4 \in Int /\ 0 <= x \div 4 /\ x \div 4 <= 3
      /\ x = 4 * (x \div 4) + (x % 4)
  BY SMT
<1>2. \A h \in 0 .. 3 : \A l \in 0 .. 3 :
        (l + h * 8) % 4 = l /\ (l + h * 8) \div 8 = h
  OBVIOUS
<1>3. QED
  BY <1>1, <1>2 DEF compact, expand

LEMMA WordsShrink ==
  ASSUME NEW F, F \in Seq(ByteValues), NEW u \in Nat, u <= Len(F)
  PROVE  /\ u < Len(F) <=> Words(F, u) # <<>>
         /\ u < Len(F) => /\ Head(Words(F, u)) = pack_qpi_byte(F[u + 1])
                          /\ Tail(Words(F, u)) = Words(F, u + 1)
<1> DEFINE n == Len(F)
           W == Words(F, u)
<1>1. n \in Nat
  BY LenProperties
<1>2. W = [j \in 1 .. n - u |-> pack_qpi_byte(F[u + j])] /\ n - u \in Nat
  BY <1>1 DEF Words
<1>3. W \in Seq({pack_qpi_byte(x) : x \in ByteValues}) /\ Len(W) = n - u
  <2>1. \A j \in 1 .. n - u : F[u + j] \in ByteValues
    BY <1>1, ElementOfSeq
  <2>2. W \in [1 .. n - u -> {pack_qpi_byte(x) : x \in ByteValues}]
    BY <1>2, <2>1
  <2> HIDE DEF W, n
  <2>3. QED
    BY <1>2, <2>2, ListOf
<1>4. CASE u = n
  BY <1>1, <1>3, <1>4, EmptySeq
<1>5. CASE u < n
  <2>1. W # <<>>
    BY <1>1, <1>3, <1>5, EmptySeq
  <2>2. Head(W) = pack_qpi_byte(F[u + 1])
    BY <1>1, <1>2, <1>3, <1>5
  <2> DEFINE V == Words(F, u + 1)
  <2>3. /\ V = [j \in 1 .. n - (u + 1) |-> pack_qpi_byte(F[u + 1 + j])]
        /\ n - (u + 1) \in Nat
    BY <1>1, <1>5 DEF Words
  <2>4. /\ Tail(W) \in Seq({pack_qpi_byte(x) : x \in ByteValues}) /\ Len(Tail(W)) = n - (u + 1)
        /\ \A j \in 1 .. n - (u + 1) : Tail(W)[j] = W[j + 1]
    BY <1>1, <1>3, <2>1, HeadTailProperties
  <2>5. \A j \in 1 .. n - (u + 1) : Tail(W)[j] = V[j]
    <3> SUFFICES ASSUME NEW j \in 1 .. n - (u + 1)
                 PROVE  Tail(W)[j] = V[j]
      OBVIOUS
    <3>1. j + 1 \in 1 .. n - u /\ u + (j + 1) = u + 1 + j
      BY <1>1
    <3> HIDE DEF W, V, n
    <3>2. QED
      BY <1>2, <2>3, <2>4, <3>1
  <2>6. Tail(W) = [j \in 1 .. n - (u + 1) |-> Tail(W)[j]]
    <3> DEFINE T == Tail(W)
    <3>1. T \in Seq({pack_qpi_byte(x) : x \in ByteValues}) /\ Len(T) = n - (u + 1)
      BY <2>4
    <3> HIDE DEF T, n
    <3>2. T = [j \in 1 .. n - (u + 1) |-> T[j]]
      BY <3>1
    <3>3. QED
      BY <3>2 DEF T
  <2>7. Tail(W) = V
    <3> HIDE DEF W, n, V
    <3>1. QED
      BY <2>3, <2>5, <2>6
  <2>8. QED
    BY <1>5, <2>1, <2>2, <2>7
<1>6. QED
  BY <1>4, <1>5, <1>1

\* The shifts of an address, nibble by nibble.
LEMMA AddressShifts ==
  ASSUME NEW A \in Nat, A <= ADDR_MAX
  PROVE  /\ A \div 16777216 = 0
         /\ (A \div 65536) \div 16 = A \div 1048576
         /\ 16 * (A \div 1048576) + ((A \div 65536) % 16) = A \div 65536
         /\ 16 * (A \div 65536) + ((A \div 256) % 256) \div 16 = A \div 4096
         /\ 16 * (A \div 4096) + (((A \div 256) % 256) % 16) = A \div 256
         /\ 16 * (A \div 256) + (A % 256) \div 16 = A \div 16
         /\ 16 * (A \div 16) + ((A % 256) % 16) = A
<1>0. A \in Int /\ A <= 8388607
  BY AddressLimit, SMT
<1>1. A \div 16777216 = 0
  BY <1>0, SMT
<1>2. (A \div 65536) \div 16 = A \div 1048576
  BY <1>0, SMT
<1>3. 16 * (A \div 1048576) + ((A \div 65536) % 16) = A \div 65536
  BY <1>0, SMT
<1>9. \A B \in Nat : /\ 16 * (B \div 256) + (B % 256) \div 16 = B \div 16
                     /\ 16 * (B \div 16) + ((B % 256) % 16) = B
  <2> SUFFICES ASSUME NEW B \in Nat
               PROVE  /\ 16 * (B \div 256) + (B % 256) \div 16 = B \div 16
                      /\ 16 * (B \div 16) + ((B % 256) % 16) = B
    OBVIOUS
  <2>1. PICK q \in Nat, r \in Nat : B = 256 * q + r /\ r < 256 /\ q = B \div 256 /\ r = B % 256
    <3>1. B \div 256 \in Nat /\ B % 256 \in Nat /\ B = 256 * (B \div 256) + (B % 256)
          /\ B % 256 < 256
      BY SMT
    <3>2. QED
      BY <3>1
  <2>2. PICK h \in Nat, l \in Nat : r = 16 * h + l /\ l < 16 /\ h = r \div 16 /\ l = r % 16
    <3>1. r \div 16 \in Nat /\ r % 16 \in Nat /\ r = 16 * (r \div 16) + (r % 16) /\ r % 16 < 16
      BY SMT
    <3>2. QED
      BY <3>1
  <2>3. B \div 16 = 16 * q + h
    BY <2>1, <2>2, SMT
  <2>4. B \div 256 = q /\ B % 256 = r
    BY <2>1
  <2>5. (B % 256) \div 16 = h /\ (B % 256) % 16 = l
    <3>1. r \div 16 = h /\ r % 16 = l
      BY <2>2
    <3>2. QED
      BY <2>4, <3>1
  <2>6. 16 * (16 * q + h) + l = B
    <3>1. 16 * (16 * q + h) + l = 256 * q + (16 * h + l)
      BY <2>1, <2>2
    <3>2. QED
      BY <2>1, <2>2, <3>1
  <2>7. QED
    BY <2>3, <2>4, <2>5, <2>6
<1>10. A \div 256 \in Nat /\ (A \div 256) \div 256 = A \div 65536
        /\ (A \div 256) \div 16 = A \div 4096
  BY <1>0, SMT
<1>4. 16 * (A \div 65536) + ((A \div 256) % 256) \div 16 = A \div 4096
  BY <1>9, <1>10
<1>5. 16 * (A \div 4096) + (((A \div 256) % 256) % 16) = A \div 256
  BY <1>9, <1>10
<1>6. 16 * (A \div 256) + (A % 256) \div 16 = A \div 16
  BY <1>9
<1>7. 16 * (A \div 16) + ((A % 256) % 16) = A
  BY <1>9
<1>8. QED
  BY <1>1, <1>2, <1>3, <1>4, <1>5, <1>6, <1>7

\* No address leaves the 24 bits of the field, nor the 23 of the device.
LEMMA AddressesFit ==
  ASSUME NEW x \in Nat, x <= ADDR_MAX
  PROVE  x % QSPI_ADDR_SPACE = x /\ WireAddr(x) = x
<1>1. \A y \in Nat : y <= 8388607 => y % 16777216 = y /\ y % 8388608 = y
  BY SMT
<1>2. ADDR_MAX + 1 = 8388608 /\ ADDR_MAX = 8388607
  BY SMT DEF ADDR_MAX
<1>3. QED
  BY <1>1, <1>2, SMT DEF QSPI_ADDR_SPACE, WireAddr

LEMMA AddressGrows ==
  ASSUME NEW A \in Nat, A <= ADDR_MAX, NEW u \in 1 .. 3, NEW b,
         u = 1 => b = A \div 65536,
         u = 2 => b = (A \div 256) % 256,
         u = 3 => b = A % 256
  PROVE  /\ AfterNibble(A, u) = (16 * AfterByte(A, u) + (b \div 16)) % QSPI_ADDR_SPACE
         /\ AfterByte(A, u + 1) = (16 * AfterNibble(A, u) + (b % 16)) % QSPI_ADDR_SPACE
         /\ AfterByte(A, 1) = 0 /\ AfterByte(A, 4) = A /\ WireAddr(A) = A
<1>1. /\ AfterByte(A, 1) = A \div 16777216 /\ AfterByte(A, 2) = A \div 65536
      /\ AfterByte(A, 3) = A \div 256 /\ AfterByte(A, 4) = A \div 1
      /\ AfterNibble(A, 1) = A \div 1048576 /\ AfterNibble(A, 2) = A \div 4096
      /\ AfterNibble(A, 3) = A \div 16
  BY SMT DEF AfterByte, AfterNibble
<1>2. A \div 1 = A
  BY SMT
<1>3. /\ A \div 1048576 \in Nat /\ A \div 1048576 <= A /\ A \div 65536 \in Nat /\ A \div 65536 <= A
      /\ A \div 4096 \in Nat /\ A \div 4096 <= A /\ A \div 256 \in Nat /\ A \div 256 <= A
      /\ A \div 16 \in Nat /\ A \div 16 <= A
  BY SMT
<1>4. /\ (A \div 1048576) % QSPI_ADDR_SPACE = A \div 1048576
      /\ (A \div 65536) % QSPI_ADDR_SPACE = A \div 65536
      /\ (A \div 4096) % QSPI_ADDR_SPACE = A \div 4096
      /\ (A \div 256) % QSPI_ADDR_SPACE = A \div 256
      /\ (A \div 16) % QSPI_ADDR_SPACE = A \div 16
      /\ A % QSPI_ADDR_SPACE = A /\ WireAddr(A) = A
  <2>1. \A x \in Nat : x <= A => x % QSPI_ADDR_SPACE = x
    BY AddressesFit, AddressLimit
  <2>2. WireAddr(A) = A
    BY AddressesFit
  <2>3. QED
    BY <1>3, <2>1, <2>2
<1>5. A \div 16777216 = 0 /\ 16 * 0 + (A \div 1048576) = A \div 1048576
  BY AddressShifts, SMT
<1>6. CASE u = 1
  <2>1. 16 * AfterByte(A, 1) + (b \div 16) = A \div 1048576
    BY <1>1, <1>5, <1>6, AddressShifts, SMT
  <2>2. 16 * AfterNibble(A, 1) + (b % 16) = A \div 65536
    BY <1>1, <1>6, AddressShifts, SMT
  <2>3. QED
    BY <1>1, <1>2, <1>4, <1>5, <1>6, <2>1, <2>2, SMT
<1>7. CASE u = 2
  <2>1. 16 * AfterByte(A, 2) + (b \div 16) = A \div 4096
    BY <1>1, <1>7, AddressShifts, SMT
  <2>2. 16 * AfterNibble(A, 2) + (b % 16) = A \div 256
    BY <1>1, <1>7, AddressShifts, SMT
  <2>3. QED
    BY <1>1, <1>2, <1>4, <1>5, <1>7, <2>1, <2>2, SMT
<1>8. CASE u = 3
  <2>1. 16 * AfterByte(A, 3) + (b \div 16) = A \div 16
    BY <1>1, <1>8, AddressShifts, SMT
  <2>2. 16 * AfterNibble(A, 3) + (b % 16) = A
    BY <1>1, <1>8, AddressShifts, SMT
  <2>3. QED
    BY <1>1, <1>2, <1>4, <1>5, <1>8, <2>1, <2>2, SMT
<1>9. QED
  BY <1>6, <1>7, <1>8

LEMMA PokeStores ==
  ASSUME NEW c, CallFact(c), c.name = "write", NEW k \in Nat, k < Len(c.data)
  PROVE  Poke(Stored(c, k), c.d, c.addr + k, c.data[k + 1]) = Stored(c, k + 1)
<1> DEFINE M == Stored(c, k)
           N == Stored(c, k + 1)
           p == c.addr + k
<1>1. /\ c.d \in Devices /\ c.addr \in Nat /\ Len(c.data) \in Nat /\ Top \in Nat
      /\ p \in 0 .. Top /\ Top <= ADDR_MAX
  BY SpanAssumption, LenProperties DEF CallFact
<1>2. /\ M = [d \in Devices |-> M[d]] /\ \A d \in Devices : M[d] = [a \in 0 .. Top |-> M[d][a]]
      /\ N = [d \in Devices |-> N[d]] /\ \A d \in Devices : N[d] = [a \in 0 .. Top |-> N[d][a]]
  BY DEF Stored
<1>3. \A d \in Devices : \A a \in 0 .. Top :
        N[d][a] = IF d = c.d /\ a = p THEN c.data[k + 1] ELSE M[d][a]
  <2> SUFFICES ASSUME NEW d \in Devices, NEW a \in 0 .. Top
               PROVE  N[d][a] = IF d = c.d /\ a = p THEN c.data[k + 1] ELSE M[d][a]
    OBVIOUS
  <2>1. M[d][a] = IF d = c.d /\ a \in c.addr .. c.addr + k - 1
                  THEN c.data[a - c.addr + 1] ELSE before[d][a]
    BY DEF Stored
  <2>2. N[d][a] = IF d = c.d /\ a \in c.addr .. c.addr + (k + 1) - 1
                  THEN c.data[a - c.addr + 1] ELSE before[d][a]
    BY DEF Stored
  <2> HIDE DEF M, N
  <2>3. CASE a = p
    BY <1>1, <2>1, <2>2, <2>3, SMTT(30)
  <2>4. CASE a # p
    <3>1. a \in Int /\ k \in Int /\ c.addr \in Int
      BY <1>1
    <3>2. a \in c.addr .. c.addr + (k + 1) - 1 <=> a \in c.addr .. c.addr + k - 1
      BY <2>4, <3>1, SMTT(30)
    <3>3. QED
      BY <2>1, <2>2, <2>4, <3>2
  <2>5. QED
    BY <2>3, <2>4
<1> HIDE DEF M, N
<1>4. Poke(M, c.d, p, c.data[k + 1]) =
        [M EXCEPT ![c.d] = [a \in 0 .. Top |-> IF a = p THEN c.data[k + 1] ELSE M[c.d][a]]]
  <2>1. ~(p > ADDR_MAX)
    BY <1>1, AddressLimit
  <2>2. DOMAIN M[c.d] \cup {p} = 0 .. Top
    BY <1>1, <1>2
  <2> HIDE DEF p
  <2>3. QED
    BY <2>1, <2>2 DEF Poke
<1>5. N[c.d] = [a \in 0 .. Top |-> IF a = p THEN c.data[k + 1] ELSE M[c.d][a]]
  <2>1. \A a \in 0 .. Top : N[c.d][a] = IF a = p THEN c.data[k + 1] ELSE M[c.d][a]
    BY <1>1, <1>3, Zenon
  <2>2. N[c.d] = [a \in 0 .. Top |-> N[c.d][a]]
    BY <1>1, <1>2, Zenon
  <2> HIDE DEF p
  <2>3. QED
    BY <2>1, <2>2
<1>6. \A d \in Devices : d # c.d => N[d] = M[d]
  <2> SUFFICES ASSUME NEW d \in Devices, d # c.d  PROVE  N[d] = M[d]
    OBVIOUS
  <2>1. \A a \in 0 .. Top : N[d][a] = M[d][a]
    BY <1>3, Zenon
  <2>2. N[d] = [a \in 0 .. Top |-> N[d][a]] /\ M[d] = [a \in 0 .. Top |-> M[d][a]]
    BY <1>2, Zenon
  <2>3. QED
    BY <2>1, <2>2
<1>7. N = [M EXCEPT ![c.d] = N[c.d]]
  BY <1>1, <1>2, <1>6
<1>8. QED
  BY <1>4, <1>5, <1>7 DEF M, N, p

LEMMA WholeKept ==
  ASSUME NEW CONSTANT c, NEW CONSTANT m, NEW CONSTANT u,
         dev'.phase = dev.phase, dev'.count = dev.count, dev'.opcode = dev.opcode,
         dev'.address = dev.address, dev'.half = dev.half, dev'.drive = NONE
  PROVE  /\ Whole(c, m, u) => Whole(c, m, u)'
         /\ Half(c, m, u) => Half(c, m, u)'
BY DEF Whole, Half

\* While the frame goes in, the device launches nothing.
LEMMA NoLaunch ==
  ASSUME NEW CONSTANT c, NEW CONSTANT m, NEW CONSTANT u, Pulse(c, m), u \in Nat,
         u <= Len(Frame(c, m)), Whole(c, m, u) \/ (u < Len(Frame(c, m)) /\ Half(c, m, u))
  PROVE  dev.phase # "DATA" \/ Sampling(dev)
<1> DEFINE F == Frame(c, m)
<1>1. CASE c.name = "exit"
  <2>1. Len(F) = 1
    BY <1>1, ExitFrame
  <2> HIDE DEF F
  <2>2. u = 0 \/ (u = 1 /\ Whole(c, m, u))
    BY <2>1 DEF F
  <2>3. QED
    BY <1>1, <2>2 DEF Whole, Half
<1>2. CASE c.name = "read"
  <2>1. Len(F) = 4
    BY <1>2, ReadFrame
  <2> HIDE DEF F
  <2>2. u \in 0 .. 3 \/ (u = 4 /\ Whole(c, m, u))
    BY <2>1 DEF F
  <2>3. QED
    BY <1>2, <2>2 DEF Whole, Half
<1>3. CASE c.name = "write"
  <2>1. F[1] = QSPI_CMD_WRITE
    BY <1>3, WriteFrame
  <2>2. QED
    BY <1>3, <2>1 DEF Whole, Half, Sampling
<1>4. QED
  BY <1>1, <1>2, <1>3 DEF Pulse

LEMMA Opcodes ==
  /\ QSPI_CMD_WRITE \in qspi_cmd_t /\ QSPI_CMD_FAST_READ \in qspi_cmd_t
  /\ CMD_EXIT_QPI \notin qspi_cmd_t
  /\ PhaseAfterAddress(QSPI_CMD_WRITE) = "DATA"
  /\ PhaseAfterAddress(QSPI_CMD_FAST_READ) = "DUMMY"
BY DEF QSPI_CMD_WRITE, QSPI_CMD_FAST_READ, CMD_EXIT_QPI, qspi_cmd_t, PhaseAfterAddress,
       qspi_wait_cycles

\* Where an address and the bytes of it are.
LEMMA FrameIs ==
  ASSUME NEW c, NEW m, Pulse(c, m), NEW F, F = Frame(c, m)
  PROVE  /\ F \in Seq(ByteValues) /\ Len(F) \in Nat /\ 1 <= Len(F) /\ Len(F) <= 8
         /\ \A j \in 1 .. Len(F) : F[j] \in ByteValues
         /\ c.name = "exit" => Len(F) = 1 /\ F[1] = CMD_EXIT_QPI
         /\ c.name = "read" => Len(F) = 4 /\ F[1] = QSPI_CMD_FAST_READ
         /\ c.name = "write" =>
              /\ Len(F) = 4 + Piece(c, m) /\ F[1] = QSPI_CMD_WRITE
              /\ \A j \in 1 .. Piece(c, m) : F[4 + j] = c.data[m + j]
         /\ c.name # "exit" =>
              /\ c.addr + m \in Nat /\ c.addr + m <= ADDR_MAX
              /\ F[2] = (c.addr + m) \div 65536 /\ F[3] = ((c.addr + m) \div 256) % 256
              /\ F[4] = (c.addr + m) % 256
<1>1. /\ F \in Seq(ByteValues) /\ Len(F) \in Nat /\ 1 <= Len(F) /\ Len(F) <= 8
      /\ \A j \in 1 .. Len(F) : F[j] \in ByteValues
  <2>1. /\ F \in Seq(ByteValues) /\ Len(F) \in Nat /\ 1 <= Len(F) /\ Len(F) <= 8
        /\ \A j \in 1 .. Len(F) : F[j] \in ByteValues
    BY FrameLength
  <2>2. QED
    BY <2>1
<1>2. CASE c.name = "exit"
  BY <1>1, <1>2, ExitFrame
<1>3. c.name # "exit" => c.addr + m \in Nat /\ c.addr + m <= ADDR_MAX
  <2> SUFFICES ASSUME c.name # "exit"
               PROVE  c.addr + m \in Nat /\ c.addr + m <= ADDR_MAX
    OBVIOUS
  <2>1. m \in Nat /\ m <= Len(c.data) /\ Len(c.data) \in Nat
    <3>1. m + Piece(c, m) <= Len(c.data) /\ Piece(c, m) \in 1 .. 4 /\ Len(c.data) \in Nat
      BY PieceBounds
    <3>2. m \in Nat
      <4>1. m \in 0 .. Total(c) /\ Total(c) \in Nat
        BY PieceBounds DEF Pulse
      <4>2. QED
        BY <4>1
    <3>3. QED
      BY <3>1, <3>2
  <2>2. m < Len(c.data)
    BY PieceBounds DEF Pulse
  <2>3. c.addr \in Nat /\ c.addr + Len(c.data) <= Top + 1 /\ Top \in Nat /\ Top <= ADDR_MAX
    BY SpanAssumption, SMTT(30) DEF Pulse, CallFact
  <2>4. QED
    BY <2>1, <2>2, <2>3, AddressLimit, SMTT(30)
<1>4. CASE c.name = "read"
  BY <1>1, <1>3, <1>4, ReadFrame, SMTT(30)
<1>5. CASE c.name = "write"
  BY <1>1, <1>3, <1>5, WriteFrame, SMTT(30)
<1>6. QED
  BY <1>2, <1>4, <1>5, SMTT(30) DEF Pulse

LEMMA AddressOf ==
  ASSUME NEW c, NEW m, Pulse(c, m), c.name # "exit", NEW F, F = Frame(c, m),
         NEW A, A = c.addr + m, NEW u \in 1 .. 3
  PROVE  /\ A \in Nat /\ A <= ADDR_MAX
         /\ AfterNibble(A, u) = (16 * AfterByte(A, u) + (F[u + 1] \div 16)) % QSPI_ADDR_SPACE
         /\ AfterByte(A, u + 1) = (16 * AfterNibble(A, u) + (F[u + 1] % 16)) % QSPI_ADDR_SPACE
         /\ AfterByte(A, 1) = 0 /\ AfterByte(A, 4) = A /\ WireAddr(A) = A
<1>1. /\ A \in Nat /\ A <= ADDR_MAX
      /\ F[2] = A \div 65536 /\ F[3] = (A \div 256) % 256 /\ F[4] = A % 256
  BY FrameIs, SMTT(30)
<1> DEFINE b == F[u + 1]
<1>2. /\ u = 1 => b = A \div 65536
      /\ u = 2 => b = (A \div 256) % 256
      /\ u = 3 => b = A % 256
  BY <1>1, SMTT(30)
<1> HIDE DEF b
<1>3. QED
  BY <1>1, <1>2, AddressGrows, SMTT(30) DEF b

LEMMA HighNibble ==
  ASSUME NEW CONSTANT c, NEW CONSTANT m, NEW CONSTANT u, Pulse(c, m), u \in Nat,
         NEW CONSTANT F, F = Frame(c, m), u < Len(F),
         IsDevice(dev), Whole(c, m, u), dev' = OnSckRise(dev, F[u + 1] \div 16)
  PROVE  IsDevice(dev)' /\ Half(c, m, u)'
<1> DEFINE A == c.addr + m
           x == F[u + 1] \div 16
<1>1. /\ Len(F) \in Nat /\ Len(F) <= 8
      /\ c.name = "exit" => Len(F) = 1
      /\ c.name = "read" => Len(F) = 4
      /\ c.name = "write" => F[1] = QSPI_CMD_WRITE
      /\ c.name \in {"write", "read", "exit"}
  BY FrameIs DEF Pulse
<1>2. F[u + 1] \in ByteValues
  <2>1. u + 1 \in 1 .. Len(F)
    BY <1>1
  <2>2. QED
    BY <2>1, FrameIs
<1>3. x \in 0 .. 15
  BY <1>2, Nibbles
<1>4. dev.drive = NONE /\ dev.half = NONE
  BY DEF Whole
<1> HIDE DEF x, A
<1>5. dev' = OnSckRise(dev, x) /\ x \in Nat
  BY <1>3 DEF x
<1>6. CASE u = 0
  <2>1. /\ dev.phase = "CMD" /\ dev.count = 0 /\ dev.opcode = 0 /\ dev.address = 0
    BY <1>6 DEF Whole
  <2>2. dev.count \in Nat /\ dev.count + 1 = 1 /\ dev.count + 1 < 2
    BY <2>1
  <2>3. /\ IsDevice(dev') /\ dev'.address = 0 /\ dev'.half = NONE /\ dev'.drive = NONE
        /\ dev'.opcode = (16 * dev.opcode + x) % 256 /\ dev'.phase = "CMD" /\ dev'.count = 1
    <3>1. /\ IsDevice(dev') /\ dev'.address = dev.address /\ dev'.half = dev.half
          /\ dev'.drive = dev.drive /\ dev'.opcode = (16 * dev.opcode + x) % 256
          /\ dev'.phase = "CMD" /\ dev'.count = dev.count + 1
      BY <1>5, <2>1, <2>2, RiseInCmd, SMTT(30)
    <3>2. QED
      BY <1>4, <2>1, <2>2, <3>1
  <2>4. dev'.opcode = F[1] \div 16
    <3>1. (16 * 0 + x) % 256 = x
      BY <1>3
    <3>2. QED
      BY <1>6, <2>1, <2>3, <3>1 DEF x
  <2>5. QED
    BY <1>6, <2>3, <2>4 DEF Half, IsDevice
<1>7. CASE u \in 1 .. 3
  <2>1. c.name # "exit"
    BY <1>1, <1>7
  <2>2. /\ dev.opcode = F[1] /\ dev.phase = "ADDR" /\ dev.count = 2 * u - 2
        /\ dev.address = AfterByte(A, u)
    BY <1>7, <2>1 DEF Whole, A
  <2>3. dev.count \in Nat /\ dev.count + 1 < 6 /\ dev.count + 1 = 2 * u - 1
    BY <1>7, <2>2
  <2>4. /\ IsDevice(dev') /\ dev'.opcode = F[1] /\ dev'.half = NONE /\ dev'.drive = NONE
        /\ dev'.phase = "ADDR" /\ dev'.count = 2 * u - 1
        /\ dev'.address = (16 * AfterByte(A, u) + x) % QSPI_ADDR_SPACE
    BY <1>4, <1>5, <2>2, <2>3, RiseInAddr, SMTT(30)
  <2>5. dev'.address = AfterNibble(A, u)
    BY <1>7, <2>1, <2>4, AddressOf DEF A, x
  <2>6. u # 0 /\ u > 0 /\ u < 4 /\ ~(u >= 4)
    BY <1>7
  <2>7. QED
    BY <1>7, <2>4, <2>5, <2>6 DEF Half, A
<1>8. CASE u >= 4
  <2>1. c.name = "write"
    BY <1>1, <1>8
  <2>2. /\ dev.opcode = QSPI_CMD_WRITE /\ dev.phase = "DATA" /\ dev.address = A + u - 4
    BY <1>1, <1>8, <2>1 DEF Whole, A
  <2>3. /\ IsDevice(dev') /\ dev'.phase = "DATA" /\ dev'.opcode = F[1] /\ dev'.drive = NONE
        /\ dev'.half = x /\ dev'.address = A + u - 4
    BY <1>1, <1>4, <1>5, <2>1, <2>2, RiseInWrite, SMTT(30) DEF Sampling
  <2>4. QED
    BY <1>8, <2>3 DEF Half, A, x, IsDevice
<1>9. QED
  BY <1>6, <1>7, <1>8

LEMMA LowNibble ==
  ASSUME NEW CONSTANT c, NEW CONSTANT m, NEW CONSTANT u, Pulse(c, m), u \in Nat,
         NEW CONSTANT F, F = Frame(c, m), u < Len(F),
         IsDevice(dev), Half(c, m, u), dev' = OnSckRise(dev, F[u + 1] % 16)
  PROVE  IsDevice(dev)' /\ Whole(c, m, u + 1)'
<1> DEFINE A == c.addr + m
           x == F[u + 1] % 16
<1>1. /\ Len(F) \in Nat /\ Len(F) <= 8 /\ F[1] \in ByteValues
      /\ c.name = "exit" => Len(F) = 1 /\ F[1] = CMD_EXIT_QPI
      /\ c.name = "read" => Len(F) = 4 /\ F[1] = QSPI_CMD_FAST_READ
      /\ c.name = "write" => F[1] = QSPI_CMD_WRITE
      /\ c.name \in {"write", "read", "exit"}
  BY FrameIs DEF Pulse
<1>2. F[u + 1] \in ByteValues
  <2>1. u + 1 \in 1 .. Len(F)
    BY <1>1
  <2>2. QED
    BY <2>1, FrameIs
<1>3. x \in 0 .. 15
  BY <1>2, Nibbles
<1>4. dev.drive = NONE /\ (u < 4 => dev.half = NONE)
  BY DEF Half
<1> HIDE DEF x, A
<1>5. dev' = OnSckRise(dev, x) /\ x \in Nat
  BY <1>3 DEF x
<1>6. CASE u = 0
  <2>1. /\ dev.phase = "CMD" /\ dev.count = 1 /\ dev.opcode = F[1] \div 16 /\ dev.address = 0
    BY <1>6 DEF Half
  <2>2. dev.count \in Nat /\ ~(dev.count + 1 < 2) /\ dev.half = NONE
    BY <1>4, <1>6, <2>1
  <2>3. /\ IsDevice(dev') /\ dev'.address = 0 /\ dev'.half = NONE /\ dev'.drive = NONE
        /\ dev'.opcode = (16 * (F[1] \div 16) + x) % 256 /\ dev'.count = 0
        /\ dev'.phase = IF dev'.opcode \in qspi_cmd_t THEN "ADDR" ELSE "IGNORE"
    BY <1>4, <1>5, <2>1, <2>2, RiseInCmd, SMTT(30)
  <2>4. dev'.opcode = F[1]
    <3>1. 16 * (F[1] \div 16) + x = F[1]
      BY <1>1, <1>6, Nibbles DEF x
    <3>2. F[1] \in Nat /\ F[1] <= 255
      <4>1. F[1] \in ByteValues
        BY <1>1
      <4>2. QED
        BY <4>1, ByteRange
    <3>3. F[1] % 256 = F[1]
      BY <3>2
    <3>4. QED
      BY <2>3, <3>1, <3>3
  <2>5. CASE c.name = "exit"
    BY <1>1, <1>6, <2>3, <2>4, <2>5, Opcodes DEF Whole, IsDevice
  <2>6. CASE c.name # "exit"
    <3>1. dev'.phase = "ADDR"
      BY <1>1, <2>3, <2>4, <2>6, Opcodes
    <3>2. AfterByte(A, 1) = 0
      <4>1. 1 \in 1 .. 3
        OBVIOUS
      <4>2. QED
        BY <2>6, <4>1, AddressOf DEF A
    <3>3. 0 + 1 = 1 /\ 2 * 1 - 2 = 0
      OBVIOUS
    <3>4. QED
      BY <1>6, <2>3, <2>4, <2>6, <3>1, <3>2, <3>3 DEF Whole, A, IsDevice
  <2>7. QED
    BY <2>5, <2>6
<1>7. CASE u \in 1 .. 3
  <2>1. c.name # "exit"
    BY <1>1, <1>7
  <2>2. /\ dev.opcode = F[1] /\ dev.phase = "ADDR" /\ dev.count = 2 * u - 1
        /\ dev.address = AfterNibble(A, u) /\ dev.half = NONE
    BY <1>4, <1>7, <2>1 DEF Half, A
  <2>3. dev.count \in Nat
    BY <1>7, <2>2
  <2>4. /\ (16 * AfterNibble(A, u) + x) % QSPI_ADDR_SPACE = AfterByte(A, u + 1)
        /\ AfterByte(A, 4) = A /\ WireAddr(A) = A
    BY <1>7, <2>1, AddressOf DEF A, x
  <2>5. CASE u # 3
    <3>1. dev.count + 1 < 6 /\ dev.count + 1 = 2 * (u + 1) - 2
      BY <1>7, <2>2, <2>5
    <3>2. /\ IsDevice(dev') /\ dev'.opcode = F[1] /\ dev'.half = NONE /\ dev'.drive = NONE
          /\ dev'.phase = "ADDR" /\ dev'.count = 2 * (u + 1) - 2
          /\ dev'.address = AfterByte(A, u + 1)
      <4>1. /\ IsDevice(dev') /\ dev'.opcode = dev.opcode /\ dev'.half = dev.half
            /\ dev'.drive = dev.drive /\ dev'.phase = "ADDR" /\ dev'.count = dev.count + 1
            /\ dev'.address = (16 * dev.address + x) % QSPI_ADDR_SPACE
        BY <1>5, <2>2, <2>3, <3>1, RiseInAddr, SMTT(30)
      <4>2. QED
        BY <1>4, <2>2, <2>4, <3>1, <4>1
    <3>3. u + 1 \in 1 .. 3 /\ u + 1 # 0 /\ u + 1 > 0 /\ ~(u + 1 >= 4)
      BY <1>7, <2>5
    <3>4. QED
      BY <2>1, <3>2, <3>3 DEF Whole, A
  <2>6. CASE u = 3
    <3>1. ~(dev.count + 1 < 6) /\ u + 1 = 4
      BY <2>2, <2>6
    <3>2. /\ IsDevice(dev') /\ dev'.opcode = F[1] /\ dev'.half = NONE /\ dev'.drive = NONE
          /\ dev'.phase = PhaseAfterAddress(F[1]) /\ dev'.count = 0
          /\ dev'.address = WireAddr(AfterByte(A, u + 1))
      BY <1>4, <1>5, <2>2, <2>3, <2>4, <3>1, RiseInAddr, SMTT(30)
    <3>3. dev'.address = A
      BY <2>4, <3>1, <3>2
    <3>4. dev'.phase = IF c.name = "read" THEN "DUMMY" ELSE "DATA"
      BY <1>1, <2>1, <3>2, Opcodes
    <3>5. A + 4 - 4 = A
      <4>1. A \in Nat
        BY <1>7, <2>1, AddressOf DEF A
      <4>2. QED
        BY <4>1
    <3>6. QED
      BY <2>1, <3>1, <3>2, <3>3, <3>4, <3>5 DEF Whole, A, IsDevice
  <2>7. QED
    BY <2>5, <2>6
<1>8. CASE u >= 4
  <2>1. c.name = "write"
    BY <1>1, <1>8
  <2>2. /\ dev.opcode = QSPI_CMD_WRITE /\ dev.phase = "DATA" /\ dev.address = A + u - 4
        /\ dev.half = F[u + 1] \div 16
    BY <1>1, <1>8, <2>1 DEF Half, A
  <2>3. dev.half # NONE
    <3>1. dev.half \in 0 .. 15
      BY <1>2, <2>2, Nibbles
    <3>2. QED
      BY <3>1, SMTT(30) DEF NONE
  <2>4. /\ IsDevice(dev') /\ dev'.phase = "DATA" /\ dev'.opcode = F[1] /\ dev'.drive = NONE
        /\ dev'.half = NONE /\ dev'.address = A + u - 4 + 1
    BY <1>1, <1>4, <1>5, <2>1, <2>2, <2>3, RiseInWrite, SMTT(30) DEF Sampling
  <2>5. A + u - 4 + 1 = A + (u + 1) - 4 /\ u + 1 > 4
    <3>1. A \in Nat
      BY <2>1, FrameIs DEF A
    <3>2. QED
      BY <1>8, <3>1
  <2>6. QED
    BY <2>1, <2>4, <2>5 DEF Whole, A, IsDevice
<1>9. QED
  BY <1>6, <1>7, <1>8

LEMMA StoredByNext ==
  ASSUME NEW c, NEW m, Pulse(c, m), NEW u \in Nat, u < Len(Frame(c, m))
  PROVE  /\ u < 4 \/ c.name # "write" => StoredBy(c, m, u + 1) = StoredBy(c, m, u)
         /\ u >= 4 /\ c.name = "write" =>
              /\ StoredBy(c, m, u) = m + u - 4 /\ StoredBy(c, m, u + 1) = m + u - 4 + 1
              /\ m + u - 4 \in Nat /\ m + u - 4 < Len(c.data)
              /\ c.addr + m + u - 4 = c.addr + (m + u - 4)
              /\ c.data[m + u - 4 + 1] = Frame(c, m)[u + 1]
<1>1. m \in Nat
  BY LenProperties DEF Pulse, Total, CallFact
<1>2. CASE u < 4 \/ c.name # "write"
  BY <1>1, <1>2 DEF StoredBy
<1>3. CASE u >= 4 /\ c.name = "write"
  <2>1. /\ Len(Frame(c, m)) = 4 + Piece(c, m) /\ Piece(c, m) \in 1 .. 4 /\ Len(c.data) \in Nat
        /\ m + Piece(c, m) \in 1 .. Len(c.data) /\ c.addr \in Nat
        /\ \A j \in 1 .. Piece(c, m) : Frame(c, m)[4 + j] = c.data[m + j]
    <3>1. /\ Piece(c, m) \in 1 .. 4 /\ Len(c.data) \in Nat
          /\ m + Piece(c, m) \in 1 .. Len(c.data)
      BY <1>3, PieceBounds
    <3>2. /\ Len(Frame(c, m)) = 4 + Piece(c, m)
          /\ \A j \in 1 .. Piece(c, m) : Frame(c, m)[4 + j] = c.data[m + j]
      BY <1>3, FrameIs
    <3>3. c.addr \in Nat
      BY <1>3 DEF Pulse, CallFact
    <3>4. QED
      BY <3>1, <3>2, <3>3
  <2>2. /\ u - 3 \in 1 .. Piece(c, m) /\ 4 + (u - 3) = u + 1 /\ m + (u - 3) = m + u - 4 + 1
    BY <1>1, <1>3, <2>1
  <2>3. c.data[m + u - 4 + 1] = Frame(c, m)[u + 1]
    BY <2>1, <2>2
  <2>4. /\ m + u - 4 \in Nat /\ m + u - 4 < Len(c.data)
        /\ c.addr + m + u - 4 = c.addr + (m + u - 4)
    <3>1. PICK n, k, A : n = Piece(c, m) /\ k = Len(c.data) /\ A = c.addr
      OBVIOUS
    <3>2. n \in Nat /\ k \in Nat /\ A \in Nat /\ m + n <= k /\ u < 4 + n /\ u >= 4
      BY <1>3, <2>1, <3>1
    <3>3. m + u - 4 \in Nat /\ m + u - 4 < k /\ A + m + u - 4 = A + (m + u - 4)
      BY <1>1, <3>2
    <3>4. QED
      BY <3>1, <3>3
  <2>5. StoredBy(c, m, u) = m + u - 4 /\ StoredBy(c, m, u + 1) = m + u - 4 + 1
    BY <1>1, <1>3 DEF StoredBy
  <2>6. QED
    BY <1>3, <2>3, <2>4, <2>5
<1>4. QED
  BY <1>2, <1>3

\* out(): the next word is pulled; the falling edge launches nothing.
LEMMA WrOutSends ==
  ASSUME NEW CONSTANT c, NEW CONSTANT m, Pulse(c, m), IsDevice(dev), cs = c.d,
         Sending(c, m), WrOut, before' = before
  PROVE  Sending(c, m)' /\ IsDevice(dev)'
<1> DEFINE F == Frame(c, m)
<1>1. F \in Seq(ByteValues) /\ Len(F) \in Nat
  BY FrameIs
<1> HIDE DEF F
<1>2. PICK u \in 0 .. Len(F) : SentSoFar(c, m, u)
  BY DEF Sending, F
<1>3. u \in Nat /\ u <= Len(F)
  BY <1>1
<1>4. /\ mem' = mem /\ sck' = 0 /\ wpc = "out"
      /\ \/ osr # <<>> /\ osr' = osr /\ wpc' = "nop" /\ txf' = txf
         \/ osr = <<>> /\ txf # <<>> /\ osr' = Head(txf) /\ txf' = Tail(txf) /\ wpc' = "nop"
         \/ osr = <<>> /\ txf = <<>> /\ osr' = osr /\ wpc' = wpc /\ txf' = txf
  BY DEF WrOut, wr
<1>5. /\ Whole(c, m, u) \/ (u < Len(F) /\ Half(c, m, u))
      /\ mem = Stored(c, StoredBy(c, m, u))
  BY <1>2 DEF SentSoFar, F
<1>6. /\ IsDevice(dev')
      /\ Whole(c, m, u) => Whole(c, m, u)'
      /\ Half(c, m, u) => Half(c, m, u)'
  <2>1. dev.phase # "DATA" \/ Sampling(dev)
    BY <1>3, <1>5, NoLaunch DEF F
  <2>2. dev.drive = NONE
    BY <1>5 DEF Whole, Half
  <2>3. dev' = dev \/ dev' = OnSckFall(dev, mem[cs])
    BY DEF WrOut, Fall
  <2>4. /\ IsDevice(dev') /\ dev'.phase = dev.phase /\ dev'.count = dev.count
        /\ dev'.opcode = dev.opcode /\ dev'.address = dev.address
        /\ dev'.half = dev.half /\ dev'.drive = NONE
    BY <2>1, <2>2, <2>3, FallIsQuiet
  <2>5. QED
    BY <2>4, WholeKept
<1>7. mem' = Stored(c, StoredBy(c, m, u))'
  BY <1>4, <1>5 DEF Stored, StoredBy
<1>8. SentSoFar(c, m, u)'
  <2>1. CASE osr = <<>>
    <3>1. txf = Words(F, u) /\ Whole(c, m, u)
      <4>1. u < Len(F) => osr # pack_qpi_byte(F[u + 1])
        BY <2>1 DEF pack_qpi_byte
      <4>2. u < Len(F) => osr # <<expand(F[u + 1] % 16)>>
        BY <2>1
      <4>3. QED
        BY <1>2, <4>1, <4>2 DEF SentSoFar, F
    <3>2. CASE txf # <<>>
      <4>1. u < Len(F) /\ osr' = pack_qpi_byte(F[u + 1]) /\ txf' = Words(F, u + 1)
        BY <1>1, <1>3, <1>4, <2>1, <3>1, <3>2, WordsShrink
      <4>2. QED
        BY <1>4, <1>6, <1>7, <2>1, <3>1, <3>2, <4>1 DEF SentSoFar, F
    <3>3. CASE txf = <<>>
      BY <1>4, <1>6, <1>7, <2>1, <3>1, <3>3 DEF SentSoFar, F
    <3>4. QED
      BY <3>2, <3>3
  <2>2. CASE osr # <<>>
    BY <1>2, <1>4, <1>6, <1>7, <2>2 DEF SentSoFar, F
  <2>3. QED
    BY <2>1, <2>2
<1>9. QED
  BY <1>6, <1>8 DEF Sending, F

\* nop().side(1): a nibble goes in; the second of a data byte stores the byte.
LEMMA WrNopSends ==
  ASSUME NEW CONSTANT c, NEW CONSTANT m, Pulse(c, m), IsDevice(dev), cs = c.d,
         Sending(c, m), WrNop, before' = before
  PROVE  Sending(c, m)' /\ IsDevice(dev)'
<1> DEFINE F == Frame(c, m)
<1>1. F \in Seq(ByteValues) /\ Len(F) \in Nat
  BY FrameIs
<1>2. \A j \in 1 .. Len(F) : F[j] \in ByteValues
  BY FrameIs
<1> HIDE DEF F
<1>3. PICK u \in 0 .. Len(F) : SentSoFar(c, m, u)
  BY DEF Sending, F
<1>4. /\ wpc = "nop" /\ sck' = 1 /\ Rise(compact(Head(osr))) /\ osr' = Tail(osr)
      /\ wpc' = "out" /\ txf' = txf
  BY DEF WrNop
<1>5. /\ dev' = OnSckRise(dev, compact(Head(osr)))
      /\ mem' = IF CommitsByte(dev)
                THEN Poke(mem, c.d, dev.address, 16 * dev.half + compact(Head(osr))) ELSE mem
  <2>1. c.d \in Devices
    BY DEF Pulse, CallFact
  <2>2. QED
    BY <1>4, <2>1 DEF Rise, Selected
<1>6. u \in Nat /\ u < Len(F) /\ u + 1 \in 1 .. Len(F)
  <2>1. u < Len(F)
    BY <1>3, <1>4 DEF SentSoFar, F
  <2>2. QED
    BY <1>1, <2>1
<1>7. F[u + 1] \in ByteValues
  BY <1>2, <1>6
<1>8. CASE osr = pack_qpi_byte(F[u + 1]) /\ Whole(c, m, u)
  <2>1. Head(osr) = expand(F[u + 1] \div 16) /\ Tail(osr) = <<expand(F[u + 1] % 16)>>
    BY <1>8 DEF pack_qpi_byte
  <2>2. compact(Head(osr)) = F[u + 1] \div 16
    BY <1>7, <2>1, Nibbles, CompactIsInverse
  <2>3. IsDevice(dev)' /\ Half(c, m, u)'
    BY <1>5, <1>6, <1>8, <2>2, HighNibble DEF F
  <2>4. ~CommitsByte(dev)
    BY <1>8 DEF Whole, CommitsByte
  <2>5. mem' = Stored(c, StoredBy(c, m, u))' /\ txf = Words(F, u + 1)
    <3>1. mem = Stored(c, StoredBy(c, m, u)) /\ txf = Words(F, u + 1)
      BY <1>3, <1>4, <1>8 DEF SentSoFar, F
    <3>2. QED
      BY <1>5, <2>4, <3>1 DEF Stored, StoredBy
  <2>6. SentSoFar(c, m, u)'
    BY <1>4, <1>6, <2>1, <2>3, <2>5 DEF SentSoFar, F
  <2>7. QED
    BY <2>3, <2>6 DEF Sending, F
<1>9. CASE osr = <<expand(F[u + 1] % 16)>> /\ Half(c, m, u)
  <2>1. Head(osr) = expand(F[u + 1] % 16) /\ Tail(osr) = <<>>
    BY <1>9
  <2>2. compact(Head(osr)) = F[u + 1] % 16
    BY <1>7, <2>1, Nibbles, CompactIsInverse
  <2>3. IsDevice(dev)' /\ Whole(c, m, u + 1)'
    BY <1>5, <1>6, <1>9, <2>2, LowNibble DEF F
  <2>4. mem = Stored(c, StoredBy(c, m, u)) /\ txf = Words(F, u + 1)
    BY <1>3, <1>4, <1>9 DEF SentSoFar, F
  <2>5. mem' = Stored(c, StoredBy(c, m, u + 1))
    <3>1. CASE u < 4
      <4>1. ~CommitsByte(dev)
        BY <1>9, <3>1 DEF Half, CommitsByte
      <4>2. QED
        BY <1>5, <1>6, <2>4, <3>1, <4>1, StoredByNext DEF F
    <3>2. CASE ~(u < 4)
      <4>1. c.name = "write" /\ F[1] = QSPI_CMD_WRITE
        BY <1>6, <3>2, FrameIs, SMTT(30) DEF F, Pulse
      <4>2. /\ dev.phase = "DATA" /\ dev.opcode = F[1] /\ dev.address = c.addr + m + u - 4
            /\ dev.half = F[u + 1] \div 16
        BY <1>6, <1>9, <3>2 DEF Half, F
      <4>3. dev.half # NONE
        <5>1. dev.half \in 0 .. 15
          BY <1>7, <4>2, Nibbles
        <5>2. QED
          BY <5>1, SMTT(30) DEF NONE
      <4>4. CommitsByte(dev)
        BY <4>1, <4>2, <4>3 DEF CommitsByte, Sampling
      <4> DEFINE k == m + u - 4
      <4>5. /\ StoredBy(c, m, u) = k /\ StoredBy(c, m, u + 1) = k + 1
            /\ k \in Nat /\ k < Len(c.data) /\ c.addr + m + u - 4 = c.addr + k
            /\ c.data[k + 1] = F[u + 1]
        BY <1>6, <3>2, <4>1, StoredByNext DEF F
      <4>6. 16 * dev.half + compact(Head(osr)) = F[u + 1]
        BY <1>7, <2>2, <4>2, Nibbles
      <4> HIDE DEF k
      <4>7. mem' = Poke(Stored(c, k), c.d, c.addr + k, c.data[k + 1])
        BY <1>5, <2>4, <4>2, <4>4, <4>5, <4>6
      <4>8. QED
        BY <4>1, <4>5, <4>7, PokeStores DEF Pulse
    <3>3. QED
      BY <3>1, <3>2
  <2>6. mem' = Stored(c, StoredBy(c, m, u + 1))'
    BY <2>5 DEF Stored, StoredBy
  <2>7. SentSoFar(c, m, u + 1)'
    BY <1>4, <2>1, <2>3, <2>4, <2>6 DEF SentSoFar, F
  <2>8. u + 1 \in 0 .. Len(F)
    BY <1>1, <1>6
  <2>9. QED
    BY <2>3, <2>7, <2>8 DEF Sending, F
<1>10. QED
  BY <1>3, <1>4, <1>8, <1>9 DEF SentSoFar, F

-------------------------------------------------------------------------------
(***************************************************************************)
(* Reading: the device answers, the machine "rd" samples.                  *)
(***************************************************************************)
Spanned(c, m) == CallFact(c) /\ c.name = "read" /\ Pulse(c, m)
                   /\ before \in [Devices -> [0 .. Top -> ByteValues]]

LEMMA NibblesAre ==
  ASSUME NEW c, NEW m, Spanned(c, m), NEW k \in Nat
  PROVE  /\ ByteOf(c, m, k) \in ByteValues
         /\ NibbleOf(c, m, 2 * k + 1) = ByteOf(c, m, k) \div 16
         /\ NibbleOf(c, m, 2 * k + 2) = ByteOf(c, m, k) % 16
<1>1. ByteOf(c, m, k) \in ByteValues
  <2>1. c.d \in Devices
    BY DEF Spanned, CallFact
  <2>2. before[c.d] \in [0 .. Top -> ByteValues]
    BY <2>1 DEF Spanned
  <2>3. FILL \in ByteValues
    BY ByteRange DEF FILL
  <2>4. QED
    BY <2>2, <2>3 DEF ByteOf
<1>2. /\ (2 * k + 1) % 2 = 1 /\ (2 * k + 1 - 1) \div 2 = k
      /\ (2 * k + 2) % 2 = 0 /\ (2 * k + 2 - 1) \div 2 = k
  OBVIOUS
<1>3. NibbleOf(c, m, 2 * k + 1) = ByteOf(c, m, k) \div 16
  BY <1>2 DEF NibbleOf
<1>4. NibbleOf(c, m, 2 * k + 2) = ByteOf(c, m, k) % 16
  BY <1>2 DEF NibbleOf
<1>5. QED
  BY <1>1, <1>3, <1>4

LEMMA OddOrEven ==
  ASSUME NEW e \in Nat
  PROVE  \E k \in Nat : /\ e = 2 * k \/ e = 2 * k + 1
                        /\ e \div 2 = k
<1>1. e \div 2 \in Nat /\ (e = 2 * (e \div 2) \/ e = 2 * (e \div 2) + 1)
  BY SMT
<1>2. QED
  BY <1>1

LEMMA NibbleIsNibble ==
  ASSUME NEW c, NEW m, Spanned(c, m), NEW j \in Nat, j >= 1
  PROVE  NibbleOf(c, m, j) \in 0 .. 15
<1>1. j - 1 \in Nat
  OBVIOUS
<1>2. PICK k \in Nat : j = 2 * k + 1 \/ j = 2 * k + 2
  <2>1. PICK k \in Nat : j - 1 = 2 * k \/ j - 1 = 2 * k + 1
    BY <1>1, OddOrEven
  <2>2. j = 2 * k + 1 \/ j = 2 * k + 2
    BY <2>1
  <2>3. QED
    BY <2>2
<1>3. QED
  <2>1. ByteOf(c, m, k) \in ByteValues
    BY NibblesAre
  <2>2. ByteOf(c, m, k) \div 16 \in 0 .. 15 /\ ByteOf(c, m, k) % 16 \in 0 .. 15
    BY <2>1, Nibbles
  <2>3. CASE j = 2 * k + 1
    BY <2>2, <2>3, NibblesAre
  <2>4. CASE j = 2 * k + 2
    BY <2>2, <2>4, NibblesAre
  <2>5. QED
    BY <1>2, <2>3, <2>4

\* A falling edge in a read.
LEMMA FallWhileReading ==
  ASSUME NEW p, IsDevice(p), p.opcode = QSPI_CMD_FAST_READ, NEW image,
         NEW q, q = OnSckFall(p, image),
         NEW byte, byte = IF p.address \in DOMAIN image THEN image[p.address] ELSE FILL
  PROVE  /\ IsDevice(q) /\ q.opcode = p.opcode /\ q.phase = p.phase
         /\ p.phase # "DATA" =>
              q.count = p.count /\ q.address = p.address /\ q.half = p.half /\ q.drive = NONE
         /\ p.phase = "DATA" /\ p.half = NONE =>
              q.drive = byte \div 16 /\ q.half = byte % 16 /\ q.address = p.address
         /\ p.phase = "DATA" /\ p.half # NONE =>
              q.drive = p.half /\ q.half = NONE /\ q.address = p.address + 1
<1>1. ~Sampling(p)
  BY DEF Sampling, QSPI_CMD_WRITE, QSPI_CMD_FAST_READ
<1>2. CASE p.phase # "DATA"
  <2>1. q = [p EXCEPT !.drive = NONE]
    BY <1>2 DEF OnSckFall
  <2>2. QED
    BY <1>2, <2>1 DEF IsDevice
<1>3. CASE p.phase = "DATA" /\ p.half = NONE
  <2>1. q = [p EXCEPT !.drive = byte \div 16, !.half = byte % 16,
                      !.bytes = Append(@, byte)]
    BY <1>1, <1>3 DEF OnSckFall
  <2>2. q = [phase |-> p.phase, count |-> p.count, opcode |-> p.opcode, address |-> p.address,
             start |-> p.start, half |-> byte % 16, drive |-> byte \div 16,
             bytes |-> Append(p.bytes, byte)]
    <3> DEFINE r == [p EXCEPT !.drive = byte \div 16, !.half = byte % 16]
    <3>1. q = [r EXCEPT !.bytes = Append(r.bytes, byte)]
      BY <2>1 DEF IsDevice
    <3>2. r = [phase |-> p.phase, count |-> p.count, opcode |-> p.opcode,
               address |-> p.address, start |-> p.start, half |-> byte % 16,
               drive |-> byte \div 16, bytes |-> p.bytes]
      <4> DEFINE high == byte \div 16
                 low == byte % 16
                 t == [p EXCEPT !.drive = high]
      <4>1. t = [phase |-> p.phase, count |-> p.count, opcode |-> p.opcode,
                 address |-> p.address, start |-> p.start, half |-> p.half,
                 drive |-> high, bytes |-> p.bytes]
        <5> HIDE DEF high
        <5>1. QED
          BY DEF IsDevice
      <4>2. r = [t EXCEPT !.half = low]
        OBVIOUS
      <4> HIDE DEF t, low, high, r
      <4>3. r = [phase |-> p.phase, count |-> p.count, opcode |-> p.opcode,
                 address |-> p.address, start |-> p.start, half |-> low,
                 drive |-> high, bytes |-> p.bytes]
        BY <4>1, <4>2
      <4>4. QED
        BY <4>3 DEF low, high
    <3> HIDE DEF r
    <3>3. QED
      BY <3>1, <3>2
  <2>3. QED
    BY <1>3, <2>2 DEF IsDevice
<1>4. CASE p.phase = "DATA" /\ p.half # NONE
  <2>1. q = [p EXCEPT !.drive = p.half, !.half = NONE, !.address = @ + 1]
    BY <1>1, <1>4 DEF OnSckFall
  <2>2. q = [phase |-> p.phase, count |-> p.count, opcode |-> p.opcode,
             address |-> p.address + 1, start |-> p.start, half |-> NONE, drive |-> p.half,
             bytes |-> p.bytes]
    BY <2>1 DEF IsDevice
  <2>3. QED
    BY <1>4, <2>2 DEF IsDevice
<1>5. QED
  BY <1>2, <1>3, <1>4

\* Falling and rising edges take the device through its answer.
LEMMA FallAnswers ==
  ASSUME NEW CONSTANT c, NEW CONSTANT m, NEW CONSTANT r, NEW CONSTANT e, r \in Nat, e \in Nat,
         Spanned(c, m), IsDevice(dev), before' = before, mem[c.d] = before[c.d],
         r < 6 => e = 0, Answering(c, m, r, e), dev' = OnSckFall(dev, mem[c.d])
  PROVE  IsDevice(dev)' /\ Answering(c, m, r, IF r < 6 THEN 0 ELSE e + 1)'
<1> DEFINE A == c.addr + m
           byte == IF dev.address \in DOMAIN mem[c.d] THEN mem[c.d][dev.address] ELSE FILL
<1>1. /\ IsDevice(dev') /\ dev'.opcode = dev.opcode /\ dev'.phase = dev.phase
      /\ dev.phase # "DATA" => /\ dev'.count = dev.count /\ dev'.address = dev.address
                               /\ dev'.half = dev.half /\ dev'.drive = NONE
      /\ dev.phase = "DATA" /\ dev.half = NONE =>
           dev'.drive = byte \div 16 /\ dev'.half = byte % 16 /\ dev'.address = dev.address
      /\ dev.phase = "DATA" /\ dev.half # NONE =>
           dev'.drive = dev.half /\ dev'.half = NONE /\ dev'.address = dev.address + 1
  BY FallWhileReading DEF Answering
<1>2. /\ dev.opcode = QSPI_CMD_FAST_READ /\ dev.address = A + (e \div 2)
      /\ dev.phase = IF r < 6 THEN "DUMMY" ELSE "DATA"
      /\ r < 6 => dev.count = r
      /\ dev.half = IF e % 2 = 1 THEN NibbleOf(c, m, e + 1) ELSE NONE
  BY DEF Answering, A
<1>3. A \in Nat /\ before[c.d] \in [0 .. Top -> ByteValues]
  <2>1. A \in Nat
    BY FrameIs DEF Spanned, A
  <2>2. QED
    BY <2>1 DEF Spanned, CallFact
<1>4. \A j \in Nat : NibbleOf(c, m, j)' = NibbleOf(c, m, j)
  BY DEF NibbleOf, ByteOf
<1> HIDE DEF A, byte
<1>5. CASE r < 6
  <2>1. e = 0 /\ 0 % 2 = 0 /\ 0 \div 2 = 0
    BY <1>5
  <2>2. QED
    BY <1>1, <1>2, <1>5, <2>1 DEF Answering, A
<1>6. CASE ~(r < 6)
  <2>1. PICK k \in Nat : (e = 2 * k \/ e = 2 * k + 1) /\ e \div 2 = k
    BY OddOrEven
  <2>2. dev.phase = "DATA" /\ dev.address = A + k
    BY <1>2, <1>6, <2>1
  <2>3. /\ ByteOf(c, m, k) \in ByteValues
        /\ NibbleOf(c, m, 2 * k + 1) = ByteOf(c, m, k) \div 16
        /\ NibbleOf(c, m, 2 * k + 2) = ByteOf(c, m, k) % 16
    BY NibblesAre
  <2>4. CASE e = 2 * k
    <3>1. e % 2 = 0 /\ (e + 1) % 2 = 1 /\ (e + 1) \div 2 = k /\ e + 1 # 0
      BY <2>4
    <3>2. dev.half = NONE
      BY <1>2, <3>1
    <3>3. byte = ByteOf(c, m, k)
      BY <1>3, <2>2 DEF byte, ByteOf, A
    <3>4. /\ dev'.drive = NibbleOf(c, m, e + 1) /\ dev'.half = NibbleOf(c, m, e + 1 + 1)
          /\ dev'.address = A + ((e + 1) \div 2)
      BY <1>1, <2>2, <2>3, <2>4, <3>1, <3>2, <3>3
    <3>5. /\ dev'.drive = NibbleOf(c, m, e + 1)' /\ dev'.half = NibbleOf(c, m, e + 1 + 1)'
      BY <1>4, <3>4
    <3>6. QED
      BY <1>1, <1>2, <1>6, <3>1, <3>4, <3>5 DEF Answering, A
  <2>5. CASE e = 2 * k + 1
    <3>1. e % 2 = 1 /\ (e + 1) % 2 = 0 /\ (e + 1) \div 2 = k + 1 /\ e + 1 # 0 /\ e + 1 = 2 * k + 2
      BY <2>5
    <3>2. dev.half = NibbleOf(c, m, e + 1) /\ dev.half # NONE
      <4>1. dev.half = NibbleOf(c, m, e + 1)
        BY <1>2, <3>1
      <4>2. dev.half \in 0 .. 15
        BY <2>3, <3>1, <4>1, Nibbles
      <4>3. QED
        BY <4>1, <4>2 DEF NONE
    <3>3. /\ dev'.drive = NibbleOf(c, m, e + 1) /\ dev'.half = NONE
          /\ dev'.address = A + ((e + 1) \div 2)
      BY <1>1, <1>3, <2>2, <3>1, <3>2
    <3>4. dev'.drive = NibbleOf(c, m, e + 1)'
      BY <1>4, <3>3
    <3>5. QED
      BY <1>1, <1>2, <1>6, <3>1, <3>3, <3>4 DEF Answering, A
  <2>6. QED
    BY <2>1, <2>4, <2>5
<1>7. QED
  BY <1>5, <1>6

LEMMA RiseAnswers ==
  ASSUME NEW CONSTANT c, NEW CONSTANT m, NEW CONSTANT r, NEW CONSTANT e, r \in Nat, e \in Nat,
         IsDevice(dev), before' = before, Answering(c, m, r, e), dev' = OnSckRise(dev, 0)
  PROVE  IsDevice(dev)' /\ Answering(c, m, r + 1, e)'
<1>1. /\ IsDevice(dev') /\ dev'.opcode = dev.opcode /\ dev'.half = dev.half
      /\ dev'.drive = dev.drive /\ dev'.address = dev.address
      /\ dev.phase = "DATA" => dev'.phase = "DATA"
      /\ dev.phase = "DUMMY" =>
           IF dev.count + 1 < 6 THEN dev'.phase = "DUMMY" /\ dev'.count = dev.count + 1
           ELSE dev'.phase = "DATA"
  BY RiseWhileReading DEF Answering
<1>2. \A j \in Nat : NibbleOf(c, m, j)' = NibbleOf(c, m, j)
  BY DEF NibbleOf, ByteOf
<1>3. NibbleOf(c, m, e)' = NibbleOf(c, m, e) /\ NibbleOf(c, m, e + 1)' = NibbleOf(c, m, e + 1)
  BY <1>2
<1>4. /\ dev'.phase = IF r + 1 < 6 THEN "DUMMY" ELSE "DATA"
      /\ r + 1 < 6 => dev'.count = r + 1
  BY <1>1 DEF Answering
<1>5. QED
  BY <1>1, <1>3, <1>4 DEF Answering

LEMMA SymbolsStay ==
  ASSUME NEW CONSTANT c, NEW CONSTANT m, before' = before
  PROVE  /\ \A j \in Nat : NibbleOf(c, m, j)' = NibbleOf(c, m, j)
         /\ \A j \in Nat : SymbolOf(c, m, j)' = SymbolOf(c, m, j)
         /\ \A j \in Nat : SampleOf(c, m, j)' = SampleOf(c, m, j)
BY DEF SymbolOf, SampleOf, NibbleOf, ByteOf

LEMMA SamplesAre ==
  ASSUME NEW CONSTANT c, NEW CONSTANT m, NEW CONSTANT p, p \in Nat, Reading(c, m, p)
  PROVE  /\ Len(rxf) \in Nat /\ Len(isr) \in {0, 1} /\ Samples(p) \in Nat
         /\ isr = <<>> => Len(isr) = 0 /\ Samples(p) = 2 * (p + Len(rxf))
         /\ isr # <<>> => Len(isr) = 1 /\ Samples(p) = 2 * (p + Len(rxf)) + 1
<1>1. Len(rxf) \in Nat
  BY LenProperties DEF Reading
<1>2. isr = <<>> => Len(isr) = 0
  BY EmptySeq
<1>3. isr # <<>> => Len(isr) = 1
  BY DEF Reading
<1>4. Samples(p) = 2 * (p + Len(rxf)) + Len(isr)
  BY DEF Samples
<1>5. CASE isr = <<>>
  BY <1>1, <1>2, <1>4, <1>5
<1>6. CASE isr # <<>>
  <2>1. Len(isr) = 1
    BY <1>3, <1>6
  <2>2. Samples(p) = 2 * (p + Len(rxf)) + 1
    BY <1>4, <2>1
  <2>3. 2 * (p + Len(rxf)) + 1 \in Nat
    BY <1>1
  <2>4. QED
    BY <1>1, <1>6, <2>1, <2>2, <2>3
<1>7. QED
  BY <1>5, <1>6

\* nop().side(0): a falling edge, and the input of before it.
LEMMA RdNopReads ==
  ASSUME NEW CONSTANT c, NEW CONSTANT m, NEW CONSTANT p, p \in Nat, Spanned(c, m),
         IsDevice(dev), cs = c.d, before' = before, mem[c.d] = before[c.d],
         Reading(c, m, p), RdNop
  PROVE  Reading(c, m, p)' /\ IsDevice(dev)'
<1>0. PICK s : s = Samples(p)
  OBVIOUS
<1>1. s \in Nat
  BY <1>0, SamplesAre
<1>2. /\ rpc = "nop" /\ late' = dev.drive /\ sck' = 0 /\ rpc' = "in"
      /\ rxf' = rxf /\ isr' = isr /\ stalled' = stalled
      /\ dev' = IF sck = 1 THEN OnSckFall(dev, mem[c.d]) ELSE dev
  <2>1. c.d \in Devices
    BY DEF Spanned, CallFact
  <2>2. QED
    BY <2>1 DEF RdNop, Fall, Selected
<1>3. IsDevice(dev') /\ dev'.opcode = dev.opcode /\ dev'.phase = dev.phase
  <2>1. CASE sck = 1
    BY <1>2, <2>1, FallWhileReading DEF Reading
  <2>2. CASE sck # 1
    BY <1>2, <2>2
  <2>3. QED
    BY <2>1, <2>2
<1>4. Samples(p)' = s
  BY <1>0, <1>2 DEF Samples
<1>5. ASSUME s <= 15
      PROVE  Pipeline(c, m, s)'
  <2> DEFINE e == IF s <= 6 THEN 0 ELSE s - 6
             f == IF s <= 5 THEN 0 ELSE s - 5
  <2>1. /\ ~stalled /\ sck = (IF s = 0 THEN 0 ELSE 1) /\ Answering(c, m, s, e)
    BY <1>0, <1>2, <1>5 DEF Reading, Pipeline
  <2>2. e \in Nat /\ f \in Nat /\ (s < 6 => e = 0) /\ f = (IF s < 6 THEN 0 ELSE e + 1)
        /\ (s <= 6 <=> e = 0) /\ (s > 6 => e = s - 6)
    BY <1>1
  <2> HIDE DEF e, f
  <2>3. Answering(c, m, s, f)'
    <3>1. CASE s = 0
      <4>1. dev' = dev /\ e = 0 /\ f = 0
        BY <1>2, <2>1, <2>2, <3>1
      <4>2. \A j \in Nat : NibbleOf(c, m, j)' = NibbleOf(c, m, j)
        BY SymbolsStay
      <4>3. NibbleOf(c, m, 0 + 1)' = NibbleOf(c, m, 0 + 1) /\ NibbleOf(c, m, 0)' = NibbleOf(c, m, 0)
        BY <4>2
      <4>4. Answering(c, m, s, 0)
        BY <2>1, <4>1
      <4>5. Answering(c, m, s, 0)'
        BY <4>1, <4>3, <4>4 DEF Answering
      <4>6. QED
        BY <4>1, <4>5
    <3>2. CASE s # 0
      <4>1. dev' = OnSckFall(dev, mem[c.d])
        BY <1>2, <2>1, <3>2
      <4>2. Answering(c, m, s, IF s < 6 THEN 0 ELSE e + 1)'
        BY <1>1, <2>1, <2>2, <4>1, FallAnswers
      <4>3. QED
        BY <2>2, <4>2
    <3>3. QED
      BY <3>1, <3>2
  <2>4. late' = IF s <= 6 THEN NONE ELSE NibbleOf(c, m, s - 6)'
    <3>1. late' = IF e = 0 THEN NONE ELSE NibbleOf(c, m, e)
      BY <1>2, <2>1 DEF Answering
    <3>2. NibbleOf(c, m, e)' = NibbleOf(c, m, e)
      BY <2>2, SymbolsStay
    <3>3. QED
      BY <1>1, <2>2, <3>1, <3>2
  <2>5. QED
    BY <1>2, <2>1, <2>3, <2>4 DEF Pipeline, f
<1>6. /\ \A j \in 1 .. Len(rxf') :
           p + j <= 8 => rxf'[j] = <<SymbolOf(c, m, 2 * (p + j) - 1)',
                      SymbolOf(c, m, 2 * (p + j))'>>
      /\ s <= 15 /\ isr' # <<>> => isr' = <<SymbolOf(c, m, s)'>>
  <2>1. \A j \in 1 .. Len(rxf) : 2 * (p + j) - 1 \in Nat /\ 2 * (p + j) \in Nat
    BY SamplesAre
  <2>2. \A j \in Nat : SymbolOf(c, m, j)' = SymbolOf(c, m, j)
    BY SymbolsStay
  <2>3. QED
    BY <1>0, <1>1, <1>2, <2>1, <2>2 DEF Reading
<1>7. QED
  BY <1>0, <1>2, <1>3, <1>4, <1>5, <1>6 DEF Reading

\* A push, of a sample x that is the next one while the pipeline is known.
LEMMA PushReads ==
  ASSUME NEW CONSTANT c, NEW CONSTANT m, NEW CONSTANT p, p \in Nat, before' = before,
         Reading(c, m, p), NEW CONSTANT s, s = Samples(p), NEW CONSTANT x, Push(x),
         s <= 15 => expand(IF x = NONE THEN 15 ELSE x) = SymbolOf(c, m, s + 1)
  PROVE  /\ isr' = <<>> \/ (\E y : isr' = <<y>>)
         /\ \E S : rxf' \in Seq(S)
         /\ \A j \in 1 .. Len(rxf') : p + j <= 8 =>
              rxf'[j] = <<SymbolOf(c, m, 2 * (p + j) - 1)', SymbolOf(c, m, 2 * (p + j))'>>
         /\ Samples(p)' = s + 1
         /\ s + 1 <= 15 /\ isr' # <<>> => isr' = <<SymbolOf(c, m, s + 1)'>>
<1> DEFINE y == expand(IF x = NONE THEN 15 ELSE x)
<1>1. /\ Len(rxf) \in Nat /\ s \in Nat
      /\ isr = <<>> => s = 2 * (p + Len(rxf))
      /\ isr # <<>> => s = 2 * (p + Len(rxf)) + 1
  BY SamplesAre
<1>2. PICK S : rxf \in Seq(S)
  BY DEF Reading
<1>3. \A j \in Nat : SymbolOf(c, m, j)' = SymbolOf(c, m, j)
  BY SymbolsStay
<1>4. \A j \in 1 .. Len(rxf) : p + j <= 8 =>
        rxf[j] = <<SymbolOf(c, m, 2 * (p + j) - 1)', SymbolOf(c, m, 2 * (p + j))'>>
  <2>1. \A j \in 1 .. Len(rxf) : 2 * (p + j) - 1 \in Nat /\ 2 * (p + j) \in Nat
    BY <1>1
  <2>2. QED
    BY <1>3, <2>1 DEF Reading
<1>5. s <= 15 => y = SymbolOf(c, m, s + 1)'
  <2>1. s + 1 \in Nat
    BY <1>1
  <2>2. SymbolOf(c, m, s + 1)' = SymbolOf(c, m, s + 1)
    BY <1>3, <2>1
  <2>3. QED
    BY <2>2
<1>6. /\ Len(Append(isr, y)) = 2 => rxf' = Append(rxf, Append(isr, y)) /\ isr' = <<>>
      /\ Len(Append(isr, y)) # 2 => isr' = Append(isr, y) /\ rxf' = rxf
  BY DEF Push
<1> HIDE DEF y
<1>7. CASE isr = <<>>
  <2>1. Append(isr, y) = <<y>> /\ Len(<<y>>) = 1
    BY <1>7
  <2>2. isr' = <<y>> /\ rxf' = rxf
    BY <1>6, <2>1
  <2>3. Samples(p)' = s + 1
    BY <1>1, <1>7, <2>1, <2>2 DEF Samples
  <2>4. s <= 15 => isr' = <<SymbolOf(c, m, s + 1)'>>
    BY <1>5, <2>2
  <2>5. \E S1 : rxf' \in Seq(S1)
    BY <1>2, <2>2
  <2>6. \E y1 : isr' = <<y1>>
    BY <2>2
  <2>7. s + 1 <= 15 => s <= 15
    BY <1>1
  <2>8. \A j \in 1 .. Len(rxf') : p + j <= 8 =>
          rxf'[j] = <<SymbolOf(c, m, 2 * (p + j) - 1)', SymbolOf(c, m, 2 * (p + j))'>>
    BY <1>4, <2>2
  <2>9. QED
    BY <2>3, <2>4, <2>5, <2>6, <2>7, <2>8
<1>8. CASE isr # <<>>
  <2>1. PICK z : isr = <<z>>
    BY <1>8 DEF Reading
  <2>2. Append(isr, y) = <<z, y>> /\ Len(<<z, y>>) = 2
    <3>1. <<z, y>> = Append(<<z>>, y)
      BY SMT
    <3>2. QED
      BY <2>1, <3>1
  <2>3. isr' = <<>> /\ rxf' = Append(rxf, <<z, y>>)
    BY <1>6, <2>2
  <2> DEFINE T == S \cup {<<z, y>>}
  <2>0. PICK n : n = Len(rxf)
    OBVIOUS
  <2>4. /\ rxf \in Seq(T) /\ <<z, y>> \in T
    <3>1. \A j \in 1 .. Len(rxf) : rxf[j] \in S
      BY <1>2, ElementOfSeq
    <3>2. rxf \in [1 .. Len(rxf) -> T]
      BY <1>2, <3>1, LenProperties
    <3> HIDE DEF T
    <3>3. rxf \in Seq(T)
      BY <1>1, <3>2, ListOf
    <3>4. QED
      BY <3>3 DEF T
  <2> HIDE DEF T
  <2>5. /\ rxf' \in Seq(T) /\ Len(rxf') = n + 1 /\ rxf'[n + 1] = <<z, y>>
        /\ \A j \in 1 .. n : rxf'[j] = rxf[j]
    BY <2>0, <2>3, <2>4, AppendProperties
  <2>6. Samples(p)' = s + 1
    <3>1. Len(isr') = 0
      BY <2>3, EmptySeq
    <3>2. QED
      BY <1>1, <1>8, <2>0, <2>5, <3>1 DEF Samples
  <2>7. s = 2 * (p + n) + 1
    BY <1>1, <1>8, <2>0
  <2>8. n \in Nat
    BY <1>1, <2>0
  <2>9. p + (n + 1) <= 8 => <<z, y>> =
              <<SymbolOf(c, m, 2 * (p + (n + 1)) - 1)', SymbolOf(c, m, 2 * (p + (n + 1)))'>>
    <3> SUFFICES ASSUME p + (n + 1) <= 8
                 PROVE  <<z, y>> =
                          <<SymbolOf(c, m, 2 * (p + (n + 1)) - 1)', SymbolOf(c, m, 2 * (p + (n + 1)))'>>
      OBVIOUS
    <3>1. s <= 15 /\ 2 * (p + (n + 1)) - 1 = s /\ 2 * (p + (n + 1)) = s + 1 /\ s \in Nat
      BY <2>7, <2>8
    <3>2. isr = <<SymbolOf(c, m, s)>>
      BY <1>8, <3>1 DEF Reading
    <3>3. z = SymbolOf(c, m, s)
      BY <2>1, <3>2
    <3>4. SymbolOf(c, m, s)' = SymbolOf(c, m, s)
      BY <1>3, <3>1
    <3>5. y = SymbolOf(c, m, s + 1)'
      BY <1>5, <3>1
    <3>6. QED
      BY <3>1, <3>3, <3>4, <3>5
  <2>10. \A j \in 1 .. Len(rxf') : p + j <= 8 =>
           rxf'[j] = <<SymbolOf(c, m, 2 * (p + j) - 1)', SymbolOf(c, m, 2 * (p + j))'>>
    <3> SUFFICES ASSUME NEW j \in 1 .. Len(rxf'), p + j <= 8
                 PROVE  rxf'[j] = <<SymbolOf(c, m, 2 * (p + j) - 1)', SymbolOf(c, m, 2 * (p + j))'>>
      OBVIOUS
    <3>1. j \in 1 .. n \/ j = n + 1
      BY <2>5, <2>8
    <3>2. CASE j \in 1 .. n
      BY <1>4, <2>0, <2>5, <3>2
    <3>3. CASE j = n + 1
      BY <2>5, <2>9, <3>3
    <3>4. QED
      BY <3>1, <3>2, <3>3
  <2>11. QED
    BY <2>3, <2>5, <2>6, <2>10
<1>9. QED
  BY <1>7, <1>8

\* in_(pins, 5).side(1): a rising edge, and a sample if the FIFO has room for it.
LEMMA RdInReads ==
  ASSUME NEW CONSTANT c, NEW CONSTANT m, NEW CONSTANT p, p \in Nat, Spanned(c, m),
         IsDevice(dev), cs = c.d, before' = before, Reading(c, m, p), RdIn
  PROVE  Reading(c, m, p)' /\ IsDevice(dev)' /\ mem' = mem
<1>0. PICK s : s = Samples(p)
  OBVIOUS
<1>1. /\ Len(rxf) \in Nat /\ s \in Nat
      /\ isr = <<>> => Len(isr) = 0 /\ s = 2 * (p + Len(rxf))
      /\ isr # <<>> => Len(isr) = 1 /\ s = 2 * (p + Len(rxf)) + 1
  BY <1>0, SamplesAre
<1>2. /\ dev.opcode = QSPI_CMD_FAST_READ /\ dev.phase \in {"DUMMY", "DATA"}
      /\ s <= 15 => Pipeline(c, m, s) /\ ~stalled
  BY <1>0 DEF Reading, Pipeline
<1>3. CASE stalled
  <2>1. Push(dev.drive) /\ stalled' = FALSE /\ sck' = sck /\ dev' = dev /\ mem' = mem
    BY <1>3 DEF RdIn
  <2>2. ~(s <= 15)
    BY <1>2, <1>3
  <2>3. PICK x : x = dev.drive
    OBVIOUS
  <2>4. /\ isr' = <<>> \/ (\E y : isr' = <<y>>)
        /\ \E S : rxf' \in Seq(S)
        /\ \A j \in 1 .. Len(rxf') : p + j <= 8 =>
             rxf'[j] = <<SymbolOf(c, m, 2 * (p + j) - 1)', SymbolOf(c, m, 2 * (p + j))'>>
        /\ Samples(p)' = s + 1
    BY <1>0, <2>1, <2>2, <2>3, PushReads
  <2>5. ~(Samples(p)' <= 15)
    BY <1>1, <2>2, <2>4
  <2>6. QED
    BY <1>2, <2>1, <2>4, <2>5 DEF Reading
<1>4. CASE ~stalled
  <2>1. /\ sck' = 1 /\ Rise(0) /\ rpc = "in"
        /\ \/ RxRoom /\ Push(late) /\ stalled' = stalled
           \/ ~RxRoom /\ stalled' = TRUE /\ rxf' = rxf /\ isr' = isr /\ rpc' = rpc
    BY <1>4 DEF RdIn
  <2>2. dev' = OnSckRise(dev, 0) /\ mem' = mem
    <3>1. cs \in Devices
      BY DEF Spanned, CallFact
    <3>2. ~CommitsByte(dev)
      BY <1>2 DEF CommitsByte, Sampling, QSPI_CMD_WRITE, QSPI_CMD_FAST_READ
    <3>3. QED
      BY <2>1, <3>1, <3>2 DEF Rise, Selected
  <2>3. IsDevice(dev') /\ dev'.opcode = QSPI_CMD_FAST_READ /\ dev'.phase \in {"DUMMY", "DATA"}
    BY <1>2, <2>2, RiseWhileReading
  <2>4. CASE ~RxRoom
    <3>1. ~(s <= 15)
      BY <1>1, <2>4 DEF RxRoom, rx_fifo_depth
    <3>2. rxf' = rxf /\ isr' = isr
      BY <2>1, <2>4
    <3>3. Samples(p)' = s
      BY <1>0, <3>2 DEF Samples
    <3>4. \A j \in 1 .. Len(rxf') : p + j <= 8 =>
            rxf'[j] = <<SymbolOf(c, m, 2 * (p + j) - 1)', SymbolOf(c, m, 2 * (p + j))'>>
      <4>1. \A j \in 1 .. Len(rxf) : 2 * (p + j) - 1 \in Nat /\ 2 * (p + j) \in Nat
        BY <1>1
      <4>2. \A j \in Nat : SymbolOf(c, m, j)' = SymbolOf(c, m, j)
        BY SymbolsStay
      <4>3. QED
        BY <3>2, <4>1, <4>2 DEF Reading
    <3>5. QED
      BY <2>2, <2>3, <3>1, <3>2, <3>3, <3>4 DEF Reading
  <2>5. CASE RxRoom
    <3>1. Push(late) /\ stalled' = stalled /\ rpc' = "nop"
      BY <2>1, <2>5 DEF Push
    <3>2. s <= 15 => /\ Answering(c, m, s, IF s <= 5 THEN 0 ELSE s - 5)
                     /\ late = IF s <= 6 THEN NONE ELSE NibbleOf(c, m, s - 6)
      BY <1>2, <2>1 DEF Pipeline
    <3>3. PICK x : x = late
      OBVIOUS
    <3>4. s <= 15 => expand(IF x = NONE THEN 15 ELSE x) = SymbolOf(c, m, s + 1)
      <4> SUFFICES ASSUME s <= 15
                   PROVE  expand(IF x = NONE THEN 15 ELSE x) = SymbolOf(c, m, s + 1)
        OBVIOUS
      <4>1. CASE s <= 6
        <5>1. x = NONE /\ s + 1 <= 7
          BY <1>1, <3>2, <3>3, <4>1
        <5>2. QED
          BY <5>1 DEF SymbolOf, SampleOf
      <4>2. CASE ~(s <= 6)
        <5>1. x = NibbleOf(c, m, s - 6) /\ ~(s + 1 <= 7) /\ s + 1 - 7 = s - 6
              /\ s - 6 \in Nat /\ s - 6 >= 1
          BY <1>1, <3>2, <3>3, <4>2
        <5>2. NibbleOf(c, m, s - 6) \in 0 .. 15
          BY <5>1, NibbleIsNibble
        <5>3. x # NONE
          BY <5>1, <5>2 DEF NONE
        <5>4. SampleOf(c, m, s + 1) = NibbleOf(c, m, s + 1 - 7)
          BY <1>1, <5>1 DEF SampleOf
        <5>5. SampleOf(c, m, s + 1) = x
          BY <5>1, <5>4
        <5>6. QED
          BY <5>3, <5>5 DEF SymbolOf
      <4>3. QED
        BY <4>1, <4>2
    <3>5. /\ isr' = <<>> \/ (\E y : isr' = <<y>>)
          /\ \E S : rxf' \in Seq(S)
          /\ \A j \in 1 .. Len(rxf') : p + j <= 8 =>
               rxf'[j] = <<SymbolOf(c, m, 2 * (p + j) - 1)', SymbolOf(c, m, 2 * (p + j))'>>
          /\ Samples(p)' = s + 1
          /\ s + 1 <= 15 /\ isr' # <<>> => isr' = <<SymbolOf(c, m, s + 1)'>>
      BY <1>0, <3>1, <3>3, <3>4, PushReads
    <3>6. s + 1 <= 15 => Pipeline(c, m, s + 1)'
      <4> SUFFICES ASSUME s + 1 <= 15
                   PROVE  Pipeline(c, m, s + 1)'
        OBVIOUS
      <4> DEFINE e == IF s <= 5 THEN 0 ELSE s - 5
      <4>1. s <= 15 /\ e \in Nat /\ e = (IF s + 1 <= 6 THEN 0 ELSE s + 1 - 6) /\ s + 1 # 0
        BY <1>1
      <4>2. Answering(c, m, s, e)
        BY <3>2, <4>1
      <4> HIDE DEF e
      <4>3. Answering(c, m, s + 1, e)'
        BY <1>1, <2>2, <4>1, <4>2, RiseAnswers
      <4>4. ~stalled'
        BY <1>4, <3>1
      <4>5. PICK t : t = s + 1
        OBVIOUS
      <4> DEFINE k == IF t <= 6 THEN 0 ELSE t - 6
      <4>6. k = e /\ t # 0
        BY <1>1, <4>1, <4>5
      <4> HIDE DEF k
      <4>7. Answering(c, m, t, k)'
        BY <4>3, <4>5, <4>6
      <4>8. sck' = IF t = 0 THEN 0 ELSE 1
        BY <2>1, <4>6
      <4>9. Pipeline(c, m, t)'
        BY <3>1, <4>4, <4>7, <4>8 DEF Pipeline, k
      <4>10. QED
        BY <4>5, <4>9
    <3>7. QED
      BY <2>2, <2>3, <3>5, <3>6 DEF Reading
  <2>6. QED
    BY <2>4, <2>5
<1>5. QED
  BY <1>3, <1>4

\* get: the word that is taken is the one of the next two samples.
LEMMA GetReads ==
  ASSUME NEW CONSTANT c, NEW CONSTANT m, NEW CONSTANT p, p \in Nat, p <= 7,
         before' = before, Reading(c, m, p), rxf # <<>>, rxf' = Tail(rxf), isr' = isr,
         dev' = dev, sck' = sck, rpc' = rpc, stalled' = stalled, late' = late
  PROVE  /\ Reading(c, m, p + 1)'
         /\ Head(rxf) = <<SymbolOf(c, m, 2 * p + 1), SymbolOf(c, m, 2 * p + 2)>>
<1>0. PICK s, n : s = Samples(p) /\ n = Len(rxf)
  OBVIOUS
<1>1. n \in Nat /\ s \in Nat
  BY <1>0, SamplesAre
<1>2. PICK S : rxf \in Seq(S)
  BY DEF Reading
<1>3. /\ n >= 1 /\ Head(rxf) = rxf[1] /\ rxf' \in Seq(S) /\ Len(rxf') = n - 1
      /\ \A j \in 1 .. n - 1 : rxf'[j] = rxf[j + 1]
  <2>1. n # 0
    BY <1>0, <1>2, EmptySeq
  <2>2. QED
    BY <1>0, <1>1, <1>2, <2>1, HeadTailProperties
<1>4. Head(rxf) = <<SymbolOf(c, m, 2 * p + 1), SymbolOf(c, m, 2 * p + 2)>>
  <2>1. 1 \in 1 .. n /\ p + 1 <= 8 /\ 2 * (p + 1) - 1 = 2 * p + 1 /\ 2 * (p + 1) = 2 * p + 2
    BY <1>1, <1>3
  <2>2. rxf[1] = <<SymbolOf(c, m, 2 * (p + 1) - 1), SymbolOf(c, m, 2 * (p + 1))>>
    BY <1>0, <2>1 DEF Reading
  <2>3. QED
    BY <1>3, <2>1, <2>2
<1>5. Samples(p + 1)' = s
  <2>1. /\ s = 2 * (p + n) + Len(isr) /\ Samples(p + 1)' = 2 * (p + 1 + (n - 1)) + Len(isr)
    BY <1>0, <1>3 DEF Samples
  <2>2. p + 1 + (n - 1) = p + n
    BY <1>1
  <2>3. QED
    BY <2>1, <2>2
<1>6. \A j \in Nat : /\ NibbleOf(c, m, j)' = NibbleOf(c, m, j)
                     /\ SymbolOf(c, m, j)' = SymbolOf(c, m, j)
  BY SymbolsStay
<1>7. \A j \in 1 .. Len(rxf') : p + 1 + j <= 8 =>
        rxf'[j] = <<SymbolOf(c, m, 2 * (p + 1 + j) - 1)', SymbolOf(c, m, 2 * (p + 1 + j))'>>
  <2> SUFFICES ASSUME NEW j \in 1 .. Len(rxf'), p + 1 + j <= 8
               PROVE  rxf'[j] = <<SymbolOf(c, m, 2 * (p + 1 + j) - 1)',
                          SymbolOf(c, m, 2 * (p + 1 + j))'>>
    OBVIOUS
  <2>1. /\ j \in 1 .. n - 1 /\ j + 1 \in 1 .. n /\ p + (j + 1) = p + 1 + j
        /\ 2 * (p + 1 + j) - 1 \in Nat /\ 2 * (p + 1 + j) \in Nat
    BY <1>1, <1>3
  <2>2. rxf[j + 1] = <<SymbolOf(c, m, 2 * (p + (j + 1)) - 1), SymbolOf(c, m, 2 * (p + (j + 1)))>>
    BY <1>0, <2>1 DEF Reading
  <2>3. QED
    BY <1>3, <1>6, <2>1, <2>2
<1>8. s <= 15 => /\ isr' # <<>> => isr' = <<SymbolOf(c, m, s)'>>
                 /\ Pipeline(c, m, s)'
  <2> SUFFICES ASSUME s <= 15
               PROVE  /\ isr' # <<>> => isr' = <<SymbolOf(c, m, s)'>>
                      /\ Pipeline(c, m, s)'
    OBVIOUS
  <2>1. isr # <<>> => isr = <<SymbolOf(c, m, s)>>
    BY <1>0 DEF Reading
  <2>2. Pipeline(c, m, s)
    BY <1>0 DEF Reading
  <2>3. \A r \in Nat : \A e \in Nat : Answering(c, m, r, e) => Answering(c, m, r, e)'
    <3> SUFFICES ASSUME NEW r \in Nat, NEW e \in Nat, Answering(c, m, r, e)
                 PROVE  Answering(c, m, r, e)'
      OBVIOUS
    <3>1. NibbleOf(c, m, e)' = NibbleOf(c, m, e) /\ NibbleOf(c, m, e + 1)' = NibbleOf(c, m, e + 1)
      BY <1>6
    <3>2. QED
      BY <3>1 DEF Answering
  <2>4. s > 6 => NibbleOf(c, m, s - 6)' = NibbleOf(c, m, s - 6)
    BY <1>1, <1>6
  <2>5. Pipeline(c, m, s)'
    <3> DEFINE e == IF s <= 6 THEN 0 ELSE s - 6
               f == IF s <= 5 THEN 0 ELSE s - 5
    <3>1. e \in Nat /\ f \in Nat
      BY <1>1
    <3>2. CASE rpc = "nop"
      <4>1. Answering(c, m, s, e)
        BY <2>2, <3>2 DEF Pipeline
      <4> HIDE DEF e
      <4>2. Answering(c, m, s, e)'
        BY <1>1, <2>3, <3>1, <4>1
      <4>3. QED
        BY <2>2, <3>2, <4>2 DEF Pipeline, e
    <3>3. CASE rpc = "in"
      <4>1. Answering(c, m, s, f)
        BY <2>2, <3>3 DEF Pipeline
      <4> HIDE DEF f
      <4>2. Answering(c, m, s, f)'
        BY <1>1, <2>3, <3>1, <4>1
      <4>3. late' = IF s <= 6 THEN NONE ELSE NibbleOf(c, m, s - 6)'
        BY <1>1, <2>2, <2>4, <3>3 DEF Pipeline
      <4>4. QED
        BY <2>2, <3>3, <4>2, <4>3 DEF Pipeline, f
    <3>4. QED
      BY <2>2, <3>2, <3>3 DEF Pipeline
  <2>6. SymbolOf(c, m, s)' = SymbolOf(c, m, s)
    BY <1>1, <1>6
  <2>7. QED
    BY <2>1, <2>5, <2>6
<1>9. QED
  BY <1>3, <1>4, <1>5, <1>7, <1>8 DEF Reading

\* Q is P, of length k, and then R, of length n.
Spliced(Q, P, k, R, n) ==
  (\A j \in 1 .. k : Q[j] = P[j]) /\ (\A j \in 1 .. n : Q[k + j] = R[j])

LEMMA ListJoins ==
  ASSUME NEW k \in Nat, NEW n \in Nat, NEW S, NEW P, P \in [1 .. k -> S],
         NEW R, R \in [1 .. n -> S], NEW Q, Q \in [1 .. k + n -> S],
         Spliced(Q, P, k, R, n)
  PROVE  Q = P \o R
<1>2. P \in Seq(S) /\ Len(P) = k /\ R \in Seq(S) /\ Len(R) = n
  BY ListOf
<1> DEFINE T == P \o R
<1>3. /\ T \in Seq(S) /\ Len(T) = k + n
      /\ \A i \in 1 .. k + n : T[i] = IF i <= k THEN P[i] ELSE R[i - k]
  BY <1>2, ConcatProperties
<1> HIDE DEF T
<1>4. T = [j \in 1 .. k + n |-> T[j]]
  BY <1>3
<1>5. \A i \in 1 .. k + n : Q[i] = T[i]
  <2> SUFFICES ASSUME NEW i \in 1 .. k + n
               PROVE  Q[i] = T[i]
    OBVIOUS
  <2>1. CASE i <= k
    <3>1. i \in 1 .. k
      BY <2>1
    <3>2. QED
      BY <1>3, <2>1, <3>1 DEF Spliced
  <2>2. CASE ~(i <= k)
    <3>1. i - k \in 1 .. n /\ k + (i - k) = i
      BY <2>2
    <3>2. QED
      BY <1>3, <2>2, <3>1 DEF Spliced
  <2>3. QED
    BY <2>1, <2>2
<1>6. Q = T
  BY <1>4, <1>5
<1>7. QED
  BY <1>6 DEF T

LEMMA SampleIsNibble ==
  ASSUME NEW c, NEW m, Spanned(c, m), NEW j \in Nat
  PROVE  SampleOf(c, m, j) \in 0 .. 15
<1>1. CASE j <= 7
  BY <1>1 DEF SampleOf
<1>2. CASE ~(j <= 7)
  <2>1. j - 7 \in Nat /\ j - 7 >= 1
    BY <1>2
  <2>2. QED
    BY <1>2, <2>1, NibbleIsNibble DEF SampleOf
<1>3. QED
  BY <1>1, <1>2

\* What is got of a read: three words of it are skipped.
LEMMA RawGrows ==
  ASSUME NEW c, NEW m, Spanned(c, m), NEW p \in Nat, NEW w,
         w = <<SymbolOf(c, m, 2 * p + 1), SymbolOf(c, m, 2 * p + 2)>>
  PROVE  /\ p < 3 => Raw(c, m, p) = <<>> /\ Raw(c, m, p + 1) = <<>>
         /\ p >= 3 => Raw(c, m, p + 1) = Append(Raw(c, m, p), unpack_qpi_word(w))
<1>1. CASE p < 3
  <2>1. (IF p <= 3 THEN 0 ELSE p - 3) = 0 /\ (IF p + 1 <= 3 THEN 0 ELSE p + 1 - 3) = 0
    BY <1>1
  <2>2. \A q : (IF q <= 3 THEN 0 ELSE q - 3) = 0 => Raw(c, m, q) = <<>>
    BY DEF Raw
  <2>3. QED
    BY <1>1, <2>1, <2>2
<1>2. CASE p >= 3
  <2> DEFINE k == p - 3
             P == Raw(c, m, p)
             Q == Raw(c, m, p + 1)
             x == unpack_qpi_word(w)
  <2>1. k \in Nat /\ (IF p <= 3 THEN 0 ELSE p - 3) = k
      /\ (IF p + 1 <= 3 THEN 0 ELSE p + 1 - 3) = k + 1
    BY <1>2
  <2>2. P = [j \in 1 .. k |-> 16 * SampleOf(c, m, 2 * j + 5) + SampleOf(c, m, 2 * j + 6)]
    BY <2>1 DEF Raw
  <2>3. Q = [j \in 1 .. k + 1 |-> 16 * SampleOf(c, m, 2 * j + 5) + SampleOf(c, m, 2 * j + 6)]
    BY <2>1 DEF Raw
  <2>4. x = 16 * SampleOf(c, m, 2 * p + 1) + SampleOf(c, m, 2 * p + 2)
    <3>1. w[1] = expand(SampleOf(c, m, 2 * p + 1)) /\ w[2] = expand(SampleOf(c, m, 2 * p + 2))
      BY DEF SymbolOf
    <3>2. 2 * p + 1 \in Nat /\ 2 * p + 2 \in Nat
      OBVIOUS
    <3>3. /\ compact(w[1]) = SampleOf(c, m, 2 * p + 1)
          /\ compact(w[2]) = SampleOf(c, m, 2 * p + 2)
      BY <3>1, <3>2, SampleIsNibble, CompactIsInverse
    <3>4. QED
      BY <3>3 DEF unpack_qpi_word
  <2>5. 2 * (k + 1) + 5 = 2 * p + 1 /\ 2 * (k + 1) + 6 = 2 * p + 2 /\ k + 1 \in 1 .. k + 1
    BY <1>2
  <2> HIDE DEF k, P, Q, x
  <2>6. Q[k + 1] = x
    BY <2>3, <2>4, <2>5
  <2>7. /\ P = [j \in 1 .. k |-> P[j]] /\ Q = [j \in 1 .. k + 1 |-> Q[j]]
        /\ \A j \in 1 .. k : Q[j] = P[j]
    BY <2>1, <2>2, <2>3
  <2> DEFINE R == <<x>>
  <2>8. R = [j \in 1 .. 1 |-> R[j]] /\ R[1] = x
    OBVIOUS
  <2> HIDE DEF R
  <2>9. \A j \in 1 .. 1 : Q[k + j] = R[j]
    BY <2>6, <2>8
  <2>10. Q = P \o R
    <3> DEFINE S == {Q[j] : j \in 1 .. k + 1}
    <3>1. 1 \in Nat /\ k \in Nat
      BY <2>1
    <3>2. \A j \in 1 .. k + 1 : Q[j] \in S
      OBVIOUS
    <3>3. \A j \in 1 .. k : j \in 1 .. k + 1
      BY <3>1
    <3>4. \A j \in 1 .. 1 : k + j \in 1 .. k + 1
      BY <3>1
    <3> HIDE DEF S
    <3>5. Q \in [1 .. k + 1 -> S]
      BY <2>7, <3>2
    <3>6. P \in [1 .. k -> S]
      BY <2>7, <3>2, <3>3
    <3>7. R \in [1 .. 1 -> S]
      BY <2>8, <2>9, <3>2, <3>4
    <3>8. Spliced(Q, P, k, R, 1)
      BY <2>7, <2>9 DEF Spliced
    <3>9. QED
      BY <3>1, <3>5, <3>6, <3>7, <3>8, ListJoins, Zenon
  <2>11. Append(P, x) = P \o <<x>>
    <3>1. PICK S : P \in Seq(S)
      <4> DEFINE S == {P[j] : j \in 1 .. k}
      <4>1. P \in [1 .. k -> S]
        BY <2>7
      <4> HIDE DEF S
      <4>2. QED
        BY <2>1, <4>1, ListOf
    <3> DEFINE T == S \cup {x}
    <3>2. P \in Seq(T) /\ x \in T
      <4>1. P \in [1 .. k -> T]
        <5>1. \A j \in 1 .. Len(P) : P[j] \in S
          BY <3>1, ElementOfSeq
        <5>2. Len(P) = k
          BY <2>1, <2>7, <3>1, LenProperties
        <5>3. QED
          BY <2>7, <5>1, <5>2
      <4> HIDE DEF T
      <4>2. P \in Seq(T)
        BY <2>1, <4>1, ListOf
      <4>3. QED
        BY <4>2 DEF T
    <3> HIDE DEF T
    <3>3. QED
      BY <3>2, AppendIsConcat
  <2>12. QED
    BY <1>2, <2>10, <2>11 DEF P, Q, R, x
<1>3. QED
  BY <1>1, <1>2

\* The nibbles of a capture, one late and with the spare byte, are paired anew.
LEMMA RealignedIsRead ==
  ASSUME NEW c, NEW m, Spanned(c, m), NEW n, n = Piece(c, m)
  PROVE  Got(c, m) \o realign_qpi_nibbles(Raw(c, m, n + 4), n) = Got(c, m + n)
<1> DEFINE B == Raw(c, m, n + 4)
           N == ToNibbles(B)
           R == realign_qpi_nibbles(B, n)
<1>1. n \in 1 .. 4 /\ m \in Nat /\ m + n <= Len(c.data) /\ Len(c.data) \in Nat
  <2>1. n \in 1 .. 4 /\ m + n \in 1 .. Len(c.data) /\ Len(c.data) \in Nat
    BY PieceBounds DEF Spanned
  <2>2. m \in Nat
    BY <2>1, PieceBounds DEF Spanned, Pulse
  <2>3. QED
    BY <2>1, <2>2
<1>2. B = [j \in 1 .. n + 1 |-> 16 * SampleOf(c, m, 2 * j + 5) + SampleOf(c, m, 2 * j + 6)]
  <2>1. PICK q : q = n + 4
    OBVIOUS
  <2>2. (IF q <= 3 THEN 0 ELSE q - 3) = n + 1
    BY <1>1, <2>1
  <2>3. Raw(c, m, q) = [j \in 1 .. n + 1 |->
                          16 * SampleOf(c, m, 2 * j + 5) + SampleOf(c, m, 2 * j + 6)]
    BY <2>2 DEF Raw
  <2>4. QED
    BY <2>1, <2>3
<1>3. Len(B) = n + 1
  <2>1. n + 1 \in Nat
    BY <1>1
  <2> HIDE DEF B
  <2>2. QED
    BY <1>2, <2>1
<1>4. \A j \in 1 .. n + 1 : /\ B[j] \div 16 = SampleOf(c, m, 2 * j + 5)
                           /\ B[j] % 16 = SampleOf(c, m, 2 * j + 6)
  <2> SUFFICES ASSUME NEW j \in 1 .. n + 1
               PROVE  /\ B[j] \div 16 = SampleOf(c, m, 2 * j + 5)
                      /\ B[j] % 16 = SampleOf(c, m, 2 * j + 6)
    OBVIOUS
  <2>1. 2 * j + 5 \in Nat /\ 2 * j + 6 \in Nat
    BY <1>1
  <2>2. SampleOf(c, m, 2 * j + 5) \in 0 .. 15 /\ SampleOf(c, m, 2 * j + 6) \in 0 .. 15
    BY <2>1, SampleIsNibble
  <2>3. B[j] = 16 * SampleOf(c, m, 2 * j + 5) + SampleOf(c, m, 2 * j + 6)
    BY <1>2
  <2>4. \A x \in 0 .. 15 : \A y \in 0 .. 15 : (16 * x + y) \div 16 = x /\ (16 * x + y) % 16 = y
    BY SMT
  <2> HIDE DEF B
  <2>5. QED
    BY <2>2, <2>3, <2>4
<1> HIDE DEF B
<1>5. N = [k \in 1 .. 2 * (n + 1) |->
            IF k % 2 = 1 THEN B[(k + 1) \div 2] \div 16 ELSE B[k \div 2] % 16]
  BY <1>3 DEF ToNibbles
<1> HIDE DEF N
<1>6. \A i \in 1 .. n : /\ N[2 * i] = SampleOf(c, m, 2 * i + 6)
                        /\ N[2 * i + 1] = SampleOf(c, m, 2 * i + 7)
  <2> SUFFICES ASSUME NEW i \in 1 .. n
               PROVE  /\ N[2 * i] = SampleOf(c, m, 2 * i + 6)
                      /\ N[2 * i + 1] = SampleOf(c, m, 2 * i + 7)
    OBVIOUS
  <2>1. /\ 2 * i \in 1 .. 2 * (n + 1) /\ (2 * i) % 2 = 0 /\ (2 * i) \div 2 = i
        /\ 2 * i + 1 \in 1 .. 2 * (n + 1) /\ (2 * i + 1) % 2 = 1 /\ (2 * i + 1 + 1) \div 2 = i + 1
        /\ i \in 1 .. n + 1 /\ i + 1 \in 1 .. n + 1 /\ 2 * (i + 1) + 5 = 2 * i + 7
    BY <1>1
  <2>2. N[2 * i] = B[i] % 16
    BY <1>5, <2>1
  <2>3. N[2 * i + 1] = B[i + 1] \div 16
    BY <1>5, <2>1
  <2>4. QED
    BY <1>4, <2>1, <2>2, <2>3
<1>7. R = [i \in 1 .. n |-> 16 * N[1 + 2 * i - 1] + N[1 + 2 * i]]
  BY DEF realign_qpi_nibbles, QPI_READ_LAG_NIBBLES, N
<1> HIDE DEF R
<1>8. \A i \in 1 .. n : R[i] = before[c.d][c.addr + (m + i) - 1]
  <2> SUFFICES ASSUME NEW i \in 1 .. n
               PROVE  R[i] = before[c.d][c.addr + (m + i) - 1]
    OBVIOUS
  <2> DEFINE k == i - 1
  <2>1. /\ 1 + 2 * i - 1 = 2 * i /\ 1 + 2 * i = 2 * i + 1 /\ k \in Nat
        /\ ~(2 * i + 6 <= 7) /\ ~(2 * i + 7 <= 7)
        /\ 2 * i + 6 - 7 = 2 * k + 1 /\ 2 * i + 7 - 7 = 2 * k + 2
    BY <1>1
  <2>2. /\ N[2 * i] = SampleOf(c, m, 2 * i + 6)
        /\ N[2 * i + 1] = SampleOf(c, m, 2 * i + 7)
    BY <1>6
  <2>3. R[i] = 16 * N[2 * i] + N[2 * i + 1]
    BY <1>7, <2>1
  <2>4. SampleOf(c, m, 2 * i + 6) = NibbleOf(c, m, 2 * k + 1)
    BY <2>1 DEF SampleOf
  <2>5. SampleOf(c, m, 2 * i + 7) = NibbleOf(c, m, 2 * k + 2)
    BY <2>1 DEF SampleOf
  <2>6. R[i] = ByteOf(c, m, k)
    <3>1. /\ ByteOf(c, m, k) \in ByteValues
          /\ NibbleOf(c, m, 2 * k + 1) = ByteOf(c, m, k) \div 16
          /\ NibbleOf(c, m, 2 * k + 2) = ByteOf(c, m, k) % 16
      BY <2>1, NibblesAre
    <3> HIDE DEF k
    <3>2. R[i] = 16 * (ByteOf(c, m, k) \div 16) + (ByteOf(c, m, k) % 16)
      BY <2>2, <2>3, <2>4, <2>5, <3>1
    <3>3. QED
      BY <3>1, <3>2, Nibbles
  <2>7. c.addr + m + k = c.addr + (m + i) - 1 /\ c.addr + m + k \in 0 .. Top
    <3>1. c.addr \in Nat /\ c.addr + Len(c.data) <= Top + 1 /\ Top \in Nat
      BY SpanAssumption DEF Spanned, CallFact
    <3>2. i \in Nat /\ i >= 1 /\ i <= n /\ n \in Nat
      BY <1>1
    <3>3. c.addr + m + k = c.addr + (m + i) - 1
      BY <1>1, <3>1, <3>2
    <3>4. c.addr + m + k \in Nat /\ c.addr + m + k <= Top
      BY <1>1, <3>1, <3>2, SMTT(30)
    <3>5. QED
      BY <3>1, <3>3, <3>4
  <2>8. QED
    BY <2>6, <2>7 DEF ByteOf
<1> DEFINE P == Got(c, m)
           Q == Got(c, m + n)
<1>9. /\ P = [j \in 1 .. m |-> before[c.d][c.addr + j - 1]]
      /\ Q = [j \in 1 .. m + n |-> before[c.d][c.addr + j - 1]]
  BY DEF Got
<1> HIDE DEF P, Q
<1>10. /\ P = [j \in 1 .. m |-> P[j]] /\ Q = [j \in 1 .. m + n |-> Q[j]]
       /\ R = [j \in 1 .. n |-> R[j]]
       /\ \A j \in 1 .. m : Q[j] = P[j]
  BY <1>1, <1>7, <1>9
<1>11. \A j \in 1 .. n : Q[m + j] = R[j]
  <2>1. \A j \in 1 .. n : m + j \in 1 .. m + n
    BY <1>1
  <2>2. QED
    BY <1>8, <1>9, <2>1
<1>12. Q = P \o R
  <2>1. n \in Nat
    BY <1>1
  <2>2. QED
    <3> DEFINE S == {Q[j] : j \in 1 .. m + n}
    <3>1. \A j \in 1 .. m + n : Q[j] \in S
      OBVIOUS
    <3>2. \A j \in 1 .. m : j \in 1 .. m + n
      BY <1>1, <2>1
    <3>3. \A j \in 1 .. n : m + j \in 1 .. m + n
      BY <1>1, <2>1
    <3> HIDE DEF S
    <3>4. Q \in [1 .. m + n -> S]
      BY <1>10, <3>1
    <3>5. P \in [1 .. m -> S]
      BY <1>10, <3>1, <3>2
    <3>6. R \in [1 .. n -> S]
      BY <1>10, <1>11, <3>1, <3>3
    <3>7. Spliced(Q, P, m, R, n)
      BY <1>10, <1>11 DEF Spliced
    <3>8. m \in Nat
      BY <1>1
    <3>9. QED
      BY <2>1, <3>4, <3>5, <3>6, <3>7, <3>8, ListJoins, Zenon
<1>13. QED
  BY <1>12 DEF P, Q, R, B

-------------------------------------------------------------------------------
(***************************************************************************)
(* The state machines keep what is known, wherever Python is.              *)
(***************************************************************************)
Known(c) == CallFact(c) /\ before \in [Devices -> [0 .. Top -> ByteValues]]

LEMMA Stays ==
  ASSUME NEW CONSTANT c, NEW CONSTANT m, before' = before
  PROVE  /\ Stored(c, m)' = Stored(c, m) /\ Got(c, m)' = Got(c, m)
         /\ \A p \in Nat : Raw(c, m, p)' = Raw(c, m, p)
<1>1. Stored(c, m)' = Stored(c, m) /\ Got(c, m)' = Got(c, m)
  BY DEF Stored, Got
<1>2. \A p \in Nat : Raw(c, m, p)' = Raw(c, m, p)
  BY DEF Raw, SampleOf, NibbleOf, ByteOf
<1>3. QED
  BY <1>1, <1>2

LEMMA ReadStoresNothing ==
  ASSUME NEW c, NEW m, Known(c), c.name # "write"
  PROVE  Stored(c, m) = before
<1>1. /\ Stored(c, m) = [d \in Devices |-> [a \in 0 .. Top |-> before[d][a]]]
  BY DEF Stored
<1>2. before = [d \in Devices |-> [a \in 0 .. Top |-> before[d][a]]]
  <2>1. \A d \in Devices : before[d] = [a \in 0 .. Top |-> before[d][a]]
    BY DEF Known
  <2>2. before = [d \in Devices |-> before[d]]
    BY DEF Known
  <2>3. QED
    BY <2>1, <2>2
<1>3. QED
  BY <1>1, <1>2

LEMMA PlacesArePulses ==
  ASSUME NEW c, NEW at, NEW m, Known(c), At(c, at, m),
         at \notin {"rest", "armed", "over", "closing", "spi ready", "spi selected"}
  PROVE  /\ Pulse(c, m) /\ c.d \in Devices
         /\ at \in ReadPlaces => c.name = "read" /\ Spanned(c, m)
<1>1. c.name \in {"write", "read", "exit"}
  BY DEF Known, CallFact, At, Places
<1>2. Pulse(c, m)
  BY <1>1 DEF At, Pulse, Known
<1>3. c.d \in Devices
  BY <1>1 DEF Known, CallFact
<1>4. at \in ReadPlaces => c.name = "read"
  BY <1>1 DEF At, Places, ReadPlaces
<1>5. QED
  BY <1>2, <1>3, <1>4 DEF Spanned, Known

\* The machine "wr" is active at three places, "rd" at one, and "spi" at those of no
\* pulse.
LEMMA PlacesAre ==
  ASSUME NEW c, NEW at, NEW m, At(c, at, m)
  PROVE  \/ at \in {"rest", "over", "armed", "spi ready", "spi selected"}
         \/ at \in {"sending", "sent", "closing"}
         \/ at = "reading"
         \/ at \in {"quiet", "clean", "filling", "selected", "handing", "floating", "primed",
                   "read", "unframed"}
<1>1. CASE c.name = "enter"
  BY <1>1 DEF At, Places
<1>2. CASE c.name = "exit"
  BY <1>2 DEF At, Places
<1>3. CASE c.name = "write"
  BY <1>3 DEF At, Places
<1>4. CASE c.name = "read"
  BY <1>4 DEF At, Places, ReadPlaces
<1>5. CASE c.name \notin {"enter", "exit", "write", "read"}
  BY <1>5 DEF At, Places
<1>6. QED
  BY <1>1, <1>2, <1>3, <1>4, <1>5

LEMMA ActiveMachine ==
  ASSUME NEW c, NEW at, NEW m, NEW i, At(c, at, m), MachineFact(c, at, m, i)
  PROVE  /\ "wr" \in active => at \in {"sending", "sent", "closing"}
         /\ "rd" \in active => at = "reading"
<1>1. CASE at \in {"rest", "over", "armed", "spi ready", "spi selected"}
  <2>1. active \subseteq {"spi"}
    BY <1>1 DEF MachineFact
  <2>2. QED
    BY <2>1
<1>2. CASE at \in {"sending", "sent", "closing"}
  <2>1. active = {"wr"}
    BY <1>2 DEF MachineFact
  <2>2. QED
    BY <1>2, <2>1
<1>3. CASE at = "reading"
  <2>1. active = {"rd"}
    BY <1>3 DEF MachineFact
  <2>2. QED
    BY <1>3, <2>1
<1>4. CASE at \in {"quiet", "clean", "filling", "selected", "handing", "floating", "primed",
                  "read", "unframed"}
  <2>1. active = {}
    BY <1>4 DEF MachineFact
  <2>2. QED
    BY <2>1
<1>5. QED
  BY <1>1, <1>2, <1>3, <1>4, PlacesAre

LEMMA PioKeepsFact ==
  ASSUME NEW CONSTANT c, NEW CONSTANT at, NEW CONSTANT m, NEW CONSTANT i, Known(c),
         FactAt(c, at, m, i), Pio, before' = before
  PROVE  FactAt(c, at, m, i)'
<1>1. /\ Stored(c, m)' = Stored(c, m) /\ Got(c, m)' = Got(c, m)
      /\ \A p \in Nat : Raw(c, m, p)' = Raw(c, m, p)
  BY Stays
<1>2. i \in Nat /\ At(c, at, m) /\ IsDevice(dev)
  BY DEF FactAt, DeviceFact
<1>3. CASE WrOut \/ WrNop
  <2>1. "wr" \in active
    BY <1>3 DEF WrOut, WrNop
  <2>2. at \in {"sending", "sent", "closing"}
    BY <2>1, ActiveMachine DEF FactAt
  <2>3. at = "sending"
    <3> SUFFICES ASSUME at \in {"sent", "closing"}
                 PROVE  FALSE
      BY <2>2
    <3>1. txf = <<>> /\ osr = <<>> /\ wpc = "out" /\ sck = 0
      BY DEF FactAt, MachineFact, PadFact
    <3>2. QED
      BY <1>3, <3>1 DEF WrOut, WrNop
  <2>4. Pulse(c, m) /\ cs = c.d /\ Sending(c, m)
    BY <1>2, <2>3, PlacesArePulses DEF FactAt, DeviceFact, Within
  <2>5. Sending(c, m)' /\ IsDevice(dev)'
    BY <1>2, <1>3, <2>4, WrOutSends, WrNopSends
  <2>6. /\ cs' = cs /\ active' = active /\ mode' = mode /\ raw' = raw /\ got' = got
    BY <1>3 DEF WrOut, WrNop, python
  <2>7. DeviceFact(c, at, m, i)'
    BY <2>3, <2>4, <2>5, <2>6 DEF DeviceFact, Within
  <2>8. PadFact(at)' /\ MachineFact(c, at, m, i)'
    BY <2>3, <2>6 DEF FactAt, PadFact, MachineFact
  <2>9. ModeFact(c, at)'
    BY <2>3, <2>6 DEF FactAt, ModeFact
  <2>10. BytesFact(c, at, m, i)'
    BY <1>1, <2>3, <2>6 DEF FactAt, BytesFact
  <2>11. QED
    BY <1>2, <2>7, <2>8, <2>9, <2>10 DEF FactAt
<1>4. CASE RdNop \/ RdIn
  <2>1. "rd" \in active
    BY <1>4 DEF RdNop, RdIn
  <2>2. at = "reading"
    BY <2>1, ActiveMachine DEF FactAt
  <2>3. Spanned(c, m) /\ c.name = "read" /\ cs = c.d /\ Reading(c, m, i) /\ mem = Stored(c, m)
    BY <1>2, <2>2, PlacesArePulses DEF FactAt, DeviceFact, Within, ReadPlaces
  <2>4. mem[c.d] = before[c.d]
    BY <2>3, ReadStoresNothing
  <2>5. Reading(c, m, i)' /\ IsDevice(dev)' /\ mem' = mem
    <3>1. CASE RdNop
      <4>1. mem' = mem
        BY <3>1 DEF RdNop
      <4>2. QED
        BY <1>2, <2>3, <2>4, <3>1, <4>1, RdNopReads
    <3>2. CASE RdIn
      BY <1>2, <2>3, <3>2, RdInReads
    <3>3. QED
      BY <1>4, <3>1, <3>2
  <2>6. /\ cs' = cs /\ active' = active /\ mode' = mode /\ raw' = raw /\ got' = got
        /\ pindirs' = pindirs
    BY <1>4 DEF RdNop, RdIn, python
  <2>7. DeviceFact(c, at, m, i)'
    BY <1>1, <2>2, <2>3, <2>5, <2>6 DEF DeviceFact, Within
  <2>8. PadFact(at)' /\ MachineFact(c, at, m, i)'
    <3>1. pindirs = "RX" /\ active = {"rd"}
      BY <2>2 DEF FactAt, PadFact, MachineFact
    <3>2. pindirs' = "RX" /\ active' = {"rd"}
      BY <2>6, <3>1
    <3>3. txf' = txf
      BY <1>4 DEF RdNop, RdIn, wr
    <3>4. txf = <<>>
      BY <2>2 DEF FactAt, MachineFact
    <3>5. PadFact(at)'
      BY <2>2, <3>2 DEF PadFact
    <3>6. MachineFact(c, at, m, i)'
      BY <2>2, <3>2, <3>3, <3>4 DEF MachineFact
    <3>7. QED
      BY <3>5, <3>6
  <2>9. ModeFact(c, at)'
    BY <2>2, <2>6 DEF FactAt, ModeFact
  <2>10. BytesFact(c, at, m, i)'
    BY <1>1, <1>2, <2>2, <2>6 DEF FactAt, BytesFact
  <2>11. QED
    BY <1>2, <2>7, <2>8, <2>9, <2>10 DEF FactAt
<1>5. QED
  BY <1>3, <1>4 DEF Pio

-------------------------------------------------------------------------------
(***************************************************************************)
(* Every operation takes what is known before it to what is known after.   *)
(***************************************************************************)
Outside(at) == at \notin Within \cup {"spi selected"}
Gathering == {"reading", "read", "unframed"}
TurnPlaces == {"sent", "handing", "floating", "primed"}

\* An operation that touches no PSRAM and no byte of the result.
Aside == dev' = dev /\ cs' = cs /\ mem' = mem /\ mode' = mode /\ raw' = raw /\ got' = got

LEMMA RawStays ==
  ASSUME NEW CONSTANT c, NEW CONSTANT m, NEW CONSTANT p, before' = before
  PROVE  Raw(c, m, p)' = Raw(c, m, p)
BY DEF Raw, SampleOf, NibbleOf, ByteOf

LEMMA OutsideFact ==
  ASSUME NEW c, NEW at, NEW m, NEW i, Outside(at)
  PROVE  DeviceFact(c, at, m, i) <=>
           IsDevice(dev) /\ cs = NOBODY /\ dev = Deselected /\ mem = Stored(c, m)
<1>1. at \notin Within /\ at # "spi selected"
  BY DEF Outside
<1>2. /\ at # "selected" /\ at \notin {"sent", "handing", "floating", "primed"} /\ at # "read"
      /\ at # "sending" /\ at # "reading" /\ at # "sent"
  BY <1>1 DEF Within
<1>3. QED
  BY <1>1, <1>2 DEF DeviceFact

LEMMA OutsideStays ==
  ASSUME NEW CONSTANT c, NEW CONSTANT at, NEW CONSTANT m, NEW CONSTANT i,
         NEW CONSTANT at2, NEW CONSTANT j, FactAt(c, at, m, i), before' = before, Aside,
         Outside(at), Outside(at2)
  PROVE  DeviceFact(c, at2, m, j)'
<1>1. DeviceFact(c, at2, m, j)
  BY OutsideFact DEF FactAt
<1>2. Stored(c, m)' = Stored(c, m)
  BY Stays
<1>3. IsDevice(dev) /\ cs = NOBODY /\ dev = Deselected /\ mem = Stored(c, m)
  BY <1>1, OutsideFact
<1>4. IsDevice(dev)' /\ cs' = NOBODY /\ dev' = Deselected /\ mem' = Stored(c, m)'
  BY <1>2, <1>3 DEF Aside, IsDevice
<1>5. at2 \notin Within /\ at2 # "spi selected"
  BY DEF Outside
<1>6. /\ at2 # "selected" /\ at2 \notin {"sent", "handing", "floating", "primed"}
      /\ at2 # "read" /\ at2 # "sending" /\ at2 # "reading" /\ at2 # "sent"
  BY <1>5 DEF Within
<1>7. QED
  BY <1>4, <1>5, <1>6 DEF DeviceFact

LEMMA BytesStay ==
  ASSUME NEW CONSTANT c, NEW CONSTANT at, NEW CONSTANT m, NEW CONSTANT i,
         NEW CONSTANT at2, NEW CONSTANT j, BytesFact(c, at, m, i), before' = before,
         raw' = raw, got' = got,
         \/ at \notin Gathering /\ at2 \notin Gathering
         \/ at = "read" /\ at2 = "unframed"
         \/ at = at2 /\ i = j
  PROVE  BytesFact(c, at2, m, j)'
<1>1. Got(c, m)' = Got(c, m)
  BY Stays
<1>2. Raw(c, m, j)' = Raw(c, m, j) /\ Raw(c, m, Piece(c, m) + 4)' = Raw(c, m, Piece(c, m) + 4)
  <2>1. Raw(c, m, j)' = Raw(c, m, j)
    BY RawStays
  <2>2. PICK p : p = Piece(c, m) + 4
    OBVIOUS
  <2>3. Raw(c, m, p)' = Raw(c, m, p)
    BY RawStays
  <2>4. Piece(c, m)' = Piece(c, m)
    BY DEF Piece, Chunk
  <2>5. QED
    BY <2>1, <2>2, <2>3, <2>4
<1>3. Piece(c, m)' = Piece(c, m)
  BY DEF Piece, Chunk
<1>4. QED
  BY <1>1, <1>2, <1>3 DEF BytesFact, Gathering

LEMMA ModeStays ==
  ASSUME NEW CONSTANT c, NEW CONSTANT at, NEW CONSTANT at2, ModeFact(c, at), mode' = mode,
         c.name = "exit" /\ at \in {"closing", "over"} => at2 \in {"closing", "over"}
  PROVE  ModeFact(c, at2)'
BY DEF ModeFact

\* From one place outside a CE# pulse to another.
LEMMA Moved ==
  ASSUME NEW CONSTANT c, NEW CONSTANT at, NEW CONSTANT m, NEW CONSTANT i,
         NEW CONSTANT at2, NEW CONSTANT j, FactAt(c, at, m, i), before' = before, Aside,
         Outside(at), Outside(at2), At(c, at2, m), j \in Nat,
         (at \notin Gathering /\ at2 \notin Gathering) \/ (at = at2 /\ i = j),
         c.name = "exit" /\ at \in {"closing", "over"} => at2 \in {"closing", "over"},
         PadFact(at2)', MachineFact(c, at2, m, j)'
  PROVE  FactAt(c, at2, m, j)'
<1>1. DeviceFact(c, at2, m, j)'
  BY OutsideStays
<1>2. ModeFact(c, at2)'
  BY ModeStays DEF FactAt, Aside
<1>3. BytesFact(c, at2, m, j)'
  BY BytesStay DEF FactAt, Aside
<1>4. QED
  BY <1>1, <1>2, <1>3 DEF FactAt

\* From one place of the turnaround to the next.
LEMMA MovedTurning ==
  ASSUME NEW CONSTANT c, NEW CONSTANT at, NEW CONSTANT m, NEW CONSTANT i,
         NEW CONSTANT at2, FactAt(c, at, m, i), before' = before, Aside,
         at \in TurnPlaces, at2 \in TurnPlaces \ {"sent"}, At(c, at2, m), c.name = "read",
         PadFact(at2)', MachineFact(c, at2, m, 0)'
  PROVE  FactAt(c, at2, m, 0)'
<1>1. /\ IsDevice(dev) /\ cs = c.d /\ Whole(c, m, Len(Frame(c, m))) /\ mem = Stored(c, m)
  <2>1. After(c, m) = m
    BY DEF After
  <2>2. at \in Within /\ at # "sending"
    BY DEF TurnPlaces, Within
  <2>3. QED
    BY <2>1, <2>2 DEF FactAt, DeviceFact, TurnPlaces
<1>2. DeviceFact(c, at2, m, 0)'
  <2>1. Stored(c, m)' = Stored(c, m)
    BY Stays
  <2>2. PICK u : u = Len(Frame(c, m))
    OBVIOUS
  <2>3. Whole(c, m, u)' /\ Frame(c, m)' = Frame(c, m)
    <3>1. dev'.drive = NONE
      BY <1>1 DEF Aside, Whole
    <3>2. Whole(c, m, u)'
      BY <1>1, <2>2, <3>1, WholeKept DEF Aside
    <3>3. QED
      BY <3>2 DEF Frame, Piece, Chunk
  <2>4. IsDevice(dev)' /\ cs' = c.d /\ mem' = Stored(c, m)' /\ Whole(c, m, Len(Frame(c, m)))'
    BY <1>1, <2>1, <2>2, <2>3 DEF Aside, IsDevice
  <2>5. at2 \in {"handing", "floating", "primed"}
    BY DEF TurnPlaces
  <2>6. QED
    BY <2>4, <2>5 DEF DeviceFact, Within
<1>3. at \notin Gathering /\ at2 \notin Gathering /\ at2 \notin {"closing", "over"}
      /\ at \notin {"closing", "over"}
  BY DEF Gathering, TurnPlaces
<1>4. ModeFact(c, at2)'
  BY <1>3, ModeStays DEF FactAt, Aside
<1>5. BytesFact(c, at2, m, 0)'
  BY <1>3, BytesStay DEF FactAt, Aside
<1>6. QED
  BY <1>2, <1>4, <1>5 DEF FactAt

LEMMA Unselected ==
  ASSUME NEW c, NEW at, NEW m, NEW i, FactAt(c, at, m, i), Outside(at)
  PROVE  ~Selected /\ cs = NOBODY /\ dev = Deselected
BY OutsideFact DEF FactAt, Selected, Devices, NOBODY

-------------------------------------------------------------------------------
(***************************************************************************)
(* The operations outside a CE# pulse.                                     *)
(***************************************************************************)
OutsidePlaces == {"rest", "over", "armed", "quiet", "clean", "filling", "closing", "unframed",
                  "spi ready"}

LEMMA OutsideIs ==
  \A at \in OutsidePlaces : Outside(at) /\ (at # "unframed" => at \notin Gathering)
BY DEF OutsidePlaces, Outside, Within, Gathering

\* An edge of SCK means nothing while CE# is high, and none comes while SCK is low.
LEMMA NoEdge ==
  ASSUME Fall, ~Selected \/ sck = 0
  PROVE  dev' = dev
<1>1. ~(Selected /\ sck = 1)
  OBVIOUS
<1>2. QED
  BY <1>1 DEF Fall

LEMMA ReleaseFact ==
  ASSUME NEW CONSTANT c, NEW CONSTANT m, NEW CONSTANT i, FactAt(c, "rest", m, i), Release,
         before' = before
  PROVE  FactAt(c, "rest", m, i)'
<1>1. Outside("rest") /\ "rest" \notin Gathering
  BY OutsideIs DEF OutsidePlaces
<1>2. ~Selected /\ cs = NOBODY /\ dev = Deselected
  BY <1>1, Unselected
<1>3. Aside
  BY <1>2 DEF Release, EndFrame, Aside
<1>4. At(c, "rest", m) /\ i \in Nat
  BY DEF FactAt
<1>5. PadFact("rest")'
  BY DEF PadFact
<1>6. MachineFact(c, "rest", m, i)'
  <2>1. active' = {} /\ armed' = FALSE
    BY DEF Release
  <2>2. QED
    BY <2>1 DEF MachineFact
<1>7. QED
  BY <1>1, <1>3, <1>4, <1>5, <1>6, Moved

LEMMA FitsFact ==
  ASSUME NEW CONSTANT c, NEW CONSTANT m, NEW CONSTANT i, FactAt(c, "rest", m, i), Fits,
         before' = before
  PROVE  FactAt(c, "rest", m, i)'
<1>1. Outside("rest") /\ "rest" \notin Gathering
  BY OutsideIs DEF OutsidePlaces
<1>2. Aside
  BY DEF Fits, Aside, pads, psrams
<1>3. At(c, "rest", m) /\ i \in Nat
  BY DEF FactAt
<1>4. PadFact("rest")'
  BY DEF PadFact
<1>5. MachineFact(c, "rest", m, i)'
  <2>1. active' = active /\ armed' = armed /\ txf' = txf
    BY DEF Fits, wr
  <2>2. active \subseteq {"spi"} /\ (armed => txf = <<>>)
    BY DEF FactAt, MachineFact
  <2>3. QED
    BY <2>1, <2>2 DEF MachineFact
<1>6. QED
  BY <1>1, <1>2, <1>3, <1>4, <1>5, Moved

LEMMA ArmFact ==
  ASSUME NEW CONSTANT c, NEW CONSTANT m, NEW CONSTANT i, FactAt(c, "rest", m, i), Arm,
         before' = before, At(c, "armed", m)
  PROVE  FactAt(c, "armed", m, 0)'
<1>1. /\ Outside("rest") /\ "rest" \notin Gathering /\ Outside("armed")
      /\ "armed" \notin Gathering
  BY OutsideIs DEF OutsidePlaces
<1>2. Aside
  BY DEF Arm, Aside, psrams
<1>3. PadFact("armed")'
  BY DEF PadFact
<1>4. MachineFact(c, "armed", m, 0)'
  <2>1. active \subseteq {"spi"} /\ (armed => txf = <<>>)
    BY DEF FactAt, MachineFact
  <2>2. active' \subseteq {"spi"} /\ txf' = <<>>
    BY <2>1 DEF Arm, wr
  <2>3. QED
    BY <2>2 DEF MachineFact
<1>5. QED
  BY <1>1, <1>2, <1>3, <1>4, Moved

\* The machines that are stopped while CE# is high.
LEMMA StopFact ==
  ASSUME NEW CONSTANT c, NEW CONSTANT at, NEW CONSTANT m, NEW CONSTANT i,
         FactAt(c, at, m, i), Stop, before' = before
  PROVE  /\ at \in {"armed", "quiet"} => FactAt(c, at, m, i)'
         /\ at = "armed" /\ op[2] = "spi" /\ At(c, "quiet", m) => FactAt(c, "quiet", m, 0)'
         /\ at = "closing" /\ op[2] = "wr" /\ At(c, "rest", m) /\ c.name # "exit"
              => FactAt(c, "rest", m, 0)'
         /\ at = "closing" /\ op[2] = "wr" /\ At(c, "over", m) => FactAt(c, "over", m, 0)'
<1>1. Aside /\ txf' = txf /\ active' = active \ {op[2]}
  BY DEF Stop, Aside, pads, psrams, wr
<1>2. At(c, at, m) /\ i \in Nat
  BY DEF FactAt
<1>3. \A p \in {"armed", "quiet", "rest", "over", "closing"} : Outside(p) /\ p \notin Gathering
  BY OutsideIs DEF OutsidePlaces
<1>4. CASE at = "armed"
  <2>1. active \subseteq {"spi"} /\ txf = <<>>
    BY <1>4 DEF FactAt, MachineFact
  <2>2. active' \subseteq {"spi"} /\ txf' = <<>>
    BY <1>1, <2>1
  <2>3. FactAt(c, "armed", m, i)'
    <3>1. PadFact("armed")'
      BY DEF PadFact
    <3>2. MachineFact(c, "armed", m, i)'
      BY <2>2 DEF MachineFact
    <3>3. QED
      BY <1>1, <1>2, <1>3, <1>4, <3>1, <3>2, Moved
  <2>4. ASSUME op[2] = "spi", At(c, "quiet", m)
        PROVE  FactAt(c, "quiet", m, 0)'
    <3>1. active' = {}
      BY <1>1, <2>1, <2>4
    <3>2. PadFact("quiet")'
      BY DEF PadFact
    <3>3. MachineFact(c, "quiet", m, 0)'
      BY <2>2, <3>1 DEF MachineFact
    <3>4. QED
      BY <1>1, <1>3, <1>4, <2>4, <3>2, <3>3, Moved
  <2>5. QED
    BY <1>4, <2>3, <2>4
<1>5. CASE at = "quiet"
  <2>1. active = {} /\ txf = <<>>
    BY <1>5 DEF FactAt, MachineFact
  <2>2. active' = {} /\ txf' = <<>>
    BY <1>1, <2>1
  <2>3. PadFact("quiet")'
    BY DEF PadFact
  <2>4. MachineFact(c, "quiet", m, i)'
    BY <2>2 DEF MachineFact
  <2>5. FactAt(c, "quiet", m, i)'
    BY <1>1, <1>2, <1>3, <1>5, <2>3, <2>4, Moved
  <2>6. QED
    BY <1>5, <2>5
<1>6. CASE at = "closing"
  <2>1. active = {"wr"} /\ txf = <<>>
    BY <1>6 DEF FactAt, MachineFact
  <2>2. SUFFICES ASSUME op[2] = "wr"
                 PROVE  /\ At(c, "rest", m) /\ c.name # "exit" => FactAt(c, "rest", m, 0)'
                        /\ At(c, "over", m) => FactAt(c, "over", m, 0)'
    BY <1>6
  <2>3. active' = {} /\ txf' = <<>>
    BY <1>1, <2>1, <2>2
  <2>4. PadFact("rest")' /\ PadFact("over")'
    BY DEF PadFact
  <2>5. MachineFact(c, "rest", m, 0)' /\ MachineFact(c, "over", m, 0)'
    BY <2>3 DEF MachineFact
  <2>6. At(c, "rest", m) /\ c.name # "exit" => FactAt(c, "rest", m, 0)'
    BY <1>1, <1>3, <1>6, <2>4, <2>5, Moved
  <2>7. At(c, "over", m) => FactAt(c, "over", m, 0)'
    BY <1>1, <1>3, <1>6, <2>4, <2>5, Moved
  <2>8. QED
    BY <2>6, <2>7
<1>7. QED
  BY <1>4, <1>5, <1>6

LEMMA ParkFact ==
  ASSUME NEW CONSTANT c, NEW CONSTANT at, NEW CONSTANT m, NEW CONSTANT i,
         FactAt(c, at, m, i), ParkSck, before' = before,
         at \in {"rest", "over", "armed", "quiet", "unframed"}
  PROVE  FactAt(c, at, m, i)'
<1>1. Outside(at)
  BY OutsideIs DEF OutsidePlaces
<1>2. Aside
  <2>1. dev' = dev
    BY <1>1, NoEdge, Unselected DEF ParkSck
  <2>2. QED
    BY <2>1 DEF ParkSck, Aside
<1>3. At(c, at, m) /\ i \in Nat
  BY DEF FactAt
<1>4. active' = active /\ txf' = txf /\ armed' = armed
  BY DEF ParkSck, wr
<1>5. PadFact(at)'
  BY DEF PadFact
<1>6. MachineFact(c, at, m, i)'
  <2>1. CASE at \in {"rest", "over"}
    <3>1. active \subseteq {"spi"} /\ (armed => txf = <<>>)
      BY <2>1 DEF FactAt, MachineFact
    <3>2. QED
      BY <1>4, <2>1, <3>1 DEF MachineFact
  <2>2. CASE at = "armed"
    <3>1. active \subseteq {"spi"} /\ txf = <<>>
      BY <2>2 DEF FactAt, MachineFact
    <3>2. QED
      BY <1>4, <2>2, <3>1 DEF MachineFact
  <2>3. CASE at \in {"quiet", "unframed"}
    <3>1. active = {} /\ txf = <<>>
      BY <2>3 DEF FactAt, MachineFact
    <3>2. QED
      BY <1>4, <2>3, <3>1 DEF MachineFact
  <2>4. QED
    BY <2>1, <2>2, <2>3
<1>7. QED
  BY <1>1, <1>2, <1>3, <1>5, <1>6, Moved

LEMMA RestartFact ==
  ASSUME NEW CONSTANT c, NEW CONSTANT m, NEW CONSTANT i, FactAt(c, "quiet", m, i), RestartWr,
         before' = before, At(c, "clean", m)
  PROVE  FactAt(c, "clean", m, 0)'
<1>1. /\ Outside("quiet") /\ "quiet" \notin Gathering /\ Outside("clean")
      /\ "clean" \notin Gathering
  BY OutsideIs DEF OutsidePlaces
<1>2. Aside
  BY DEF RestartWr, Aside, pads, psrams
<1>3. PadFact("clean")'
  BY DEF PadFact
<1>4. MachineFact(c, "clean", m, 0)'
  <2>1. active = {} /\ txf = <<>>
    BY DEF FactAt, MachineFact
  <2>2. active' = {} /\ txf' = <<>> /\ osr' = <<>> /\ wpc' = "out"
    BY <2>1 DEF RestartWr
  <2>3. QED
    BY <2>2 DEF MachineFact
<1>5. QED
  BY <1>1, <1>2, <1>3, <1>4, Moved

\* The pads change their driver while no PSRAM is selected.
LEMMA SetPindirsFact ==
  ASSUME NEW CONSTANT c, NEW CONSTANT at, NEW CONSTANT m, NEW CONSTANT i,
         Known(c), FactAt(c, at, m, i), SetPindirs, before' = before
  PROVE  /\ at = "clean" /\ At(c, "filling", m) => FactAt(c, "filling", m, 0)'
         /\ at = "over" => FactAt(c, "over", m, i)'
         /\ at = "armed" /\ op[2] = "SPI" /\ At(c, "spi ready", m)
              => FactAt(c, "spi ready", m, 0)'
<1>1. /\ txf' = txf /\ active' = active /\ osr' = osr /\ wpc' = wpc /\ armed' = armed
      /\ sck' = 0 /\ pindirs' = op[2] /\ Fall
  BY DEF SetPindirs, wr
<1>2. \A p \in {"clean", "filling", "over", "armed", "spi ready"} :
        Outside(p) /\ p \notin Gathering
  BY OutsideIs DEF OutsidePlaces
<1>3. Outside(at) => Aside
  <2>1. Outside(at) => dev' = dev
    BY <1>1, NoEdge, Unselected
  <2>2. QED
    BY <2>1 DEF SetPindirs, Aside
<1>4. At(c, at, m) /\ i \in Nat
  BY DEF FactAt
<1>5. CASE at = "clean"
  <2>1. active = {} /\ txf = <<>> /\ osr = <<>> /\ wpc = "out"
    BY <1>5 DEF FactAt, MachineFact
  <2>2. active' = {} /\ txf' = <<>> /\ osr' = <<>> /\ wpc' = "out" /\ sck' = 0
    BY <1>1, <2>1
  <2>3. PadFact("filling")'
    BY <2>2 DEF PadFact
  <2>4. MachineFact(c, "filling", m, 0)'
    <3>1. PICK F : F = Frame(c, m)
      OBVIOUS
    <3>2. 0 \in 0 .. Len(F)
      <4>1. Pulse(c, m)
        BY <1>4, <1>5, PlacesArePulses
      <4>2. Len(F) \in Nat
        BY <3>1, <4>1, FrameLength
      <4>3. QED
        BY <4>2
    <3>3. Frame(c, m)' = F
      BY <3>1 DEF Frame, Piece, Chunk
    <3>4. txf' = [j \in 1 .. 0 |-> pack_qpi_byte(F[j])]
      BY <2>2
    <3>5. QED
      BY <2>2, <3>2, <3>3, <3>4 DEF MachineFact
  <2>5. QED
    BY <1>2, <1>3, <1>5, <2>3, <2>4, Moved
<1>6. CASE at = "over"
  <2>1. active \subseteq {"spi"} /\ (armed => txf = <<>>)
    BY <1>6 DEF FactAt, MachineFact
  <2>2. PadFact("over")'
    BY DEF PadFact
  <2>3. MachineFact(c, "over", m, i)'
    BY <1>1, <2>1 DEF MachineFact
  <2>4. FactAt(c, "over", m, i)'
    BY <1>2, <1>3, <1>4, <1>6, <2>2, <2>3, Moved
  <2>5. QED
    BY <1>6, <2>4
<1>7. CASE at = "armed"
  <2> SUFFICES ASSUME op[2] = "SPI", At(c, "spi ready", m)
               PROVE  FactAt(c, "spi ready", m, 0)'
    BY <1>7
  <2>1. active \subseteq {"spi"} /\ txf = <<>>
    BY <1>7 DEF FactAt, MachineFact
  <2>2. PadFact("spi ready")'
    BY <1>1 DEF PadFact
  <2>3. MachineFact(c, "spi ready", m, 0)'
    BY <1>1, <2>1 DEF MachineFact
  <2>4. QED
    BY <1>2, <1>3, <1>7, <2>2, <2>3, Moved
<1>8. QED
  BY <1>5, <1>6, <1>7

LEMMA PutFact ==
  ASSUME NEW CONSTANT c, NEW CONSTANT m, NEW CONSTANT i, Known(c), FactAt(c, "filling", m, i),
         Put, before' = before, i < Len(Frame(c, m)),
         op[2] = pack_qpi_byte(Frame(c, m)[i + 1])
  PROVE  FactAt(c, "filling", m, i + 1)'
<1>1. Outside("filling") /\ "filling" \notin Gathering
  BY OutsideIs DEF OutsidePlaces
<1>2. Aside /\ active' = active /\ osr' = osr /\ wpc' = wpc /\ sck' = sck
  BY DEF Put, Aside, pads, psrams
<1>3. PICK F : F = Frame(c, m)
  OBVIOUS
<1>4. At(c, "filling", m) /\ i \in Nat /\ Pulse(c, m)
  BY PlacesArePulses DEF FactAt
<1>5. Len(F) \in Nat
  BY <1>3, <1>4, FrameLength
<1>6. /\ active = {} /\ osr = <<>> /\ wpc = "out" /\ sck = 0
      /\ txf = [j \in 1 .. i |-> pack_qpi_byte(F[j])]
  BY <1>3 DEF FactAt, MachineFact, PadFact
<1>7. txf' = [j \in 1 .. i + 1 |-> pack_qpi_byte(F[j])]
  <2>1. txf' = Append(txf, pack_qpi_byte(F[i + 1]))
    BY <1>3 DEF Put
  <2>2. PICK w : w = [j \in 1 .. i + 1 |-> pack_qpi_byte(F[j])]
    OBVIOUS
  <2>3. Append([j \in 1 .. i |-> w[j]], w[i + 1]) = [j \in 1 .. i + 1 |-> w[j]]
    BY <1>4, SMT
  <2>4. [j \in 1 .. i |-> w[j]] = txf /\ w[i + 1] = pack_qpi_byte(F[i + 1])
    BY <1>4, <1>6, <2>2
  <2>5. [j \in 1 .. i + 1 |-> w[j]] = w
    BY <2>2
  <2>6. QED
    BY <2>1, <2>2, <2>3, <2>4, <2>5
<1>8. PadFact("filling")'
  BY <1>2, <1>6 DEF PadFact
<1>9. MachineFact(c, "filling", m, i + 1)'
  <2>1. i + 1 \in 0 .. Len(F)
    BY <1>3, <1>4, <1>5
  <2>2. Frame(c, m)' = F
    BY <1>3 DEF Frame, Piece, Chunk
  <2>3. active' = {} /\ osr' = <<>> /\ wpc' = "out"
    BY <1>2, <1>6
  <2>4. QED
    BY <1>7, <2>1, <2>2, <2>3 DEF MachineFact
<1>10. i + 1 \in Nat
  BY <1>4
<1>11. QED
  BY <1>1, <1>2, <1>4, <1>8, <1>9, <1>10, Moved

\* The FIFO holds the frame when the device is selected.
LEMMA SelectFact ==
  ASSUME NEW CONSTANT c, NEW CONSTANT m, NEW CONSTANT i, Known(c), FactAt(c, "filling", m, i),
         Select, before' = before, i = Len(Frame(c, m)), op[2] = c.d
  PROVE  FactAt(c, "selected", m, 0)'
<1>1. Pulse(c, m) /\ c.d \in Devices
  BY PlacesArePulses DEF FactAt
<1>2. mode[c.d] = "QPI"
  BY <1>1 DEF FactAt, ModeFact, Pulse
<1>3. dev' = BeginTransaction /\ cs' = c.d
  BY <1>2 DEF Select
<1>4. /\ mem' = mem /\ active' = active /\ txf' = txf /\ osr' = osr /\ wpc' = wpc
      /\ sck' = sck /\ mode' = mode /\ raw' = raw /\ got' = got
  BY DEF Select, wr
<1>5. At(c, "selected", m)
  BY <1>1, PulsePlaces
<1>6. DeviceFact(c, "selected", m, 0)'
  <2>1. mem = Stored(c, m)
    BY OutsideIs, OutsideFact DEF OutsidePlaces, FactAt
  <2>2. Stored(c, m)' = Stored(c, m)
    BY Stays
  <2>3. IsDevice(dev)'
    BY <1>3, DeselectedIs DEF IsDevice
  <2>4. QED
    BY <1>3, <1>4, <2>1, <2>2, <2>3 DEF DeviceFact, Within
<1>7. PadFact("selected")'
  <2>1. sck = 0
    BY DEF FactAt, PadFact
  <2>2. QED
    BY <1>4, <2>1 DEF PadFact
<1>8. MachineFact(c, "selected", m, 0)'
  <2>1. /\ active = {} /\ osr = <<>> /\ wpc = "out"
        /\ txf = [j \in 1 .. i |-> pack_qpi_byte(Frame(c, m)[j])]
    BY DEF FactAt, MachineFact
  <2>2. PICK F : F = Frame(c, m)
    OBVIOUS
  <2>3. Len(F) \in Nat
    BY <1>1, <2>2, FrameLength
  <2>4. txf = Words(F, 0)
    <3>1. 1 .. Len(F) = 1 .. Len(F) - 0 /\ \A j \in 1 .. Len(F) : 0 + j = j
      BY <2>3
    <3>2. QED
      BY <2>1, <2>2, <3>1 DEF Words
  <2>5. Frame(c, m)' = F
    BY <2>2 DEF Frame, Piece, Chunk
  <2>6. txf' = Words(Frame(c, m), 0)'
    BY <1>4, <2>4, <2>5 DEF Words
  <2>7. active' = {} /\ osr' = <<>> /\ wpc' = "out"
    BY <1>4, <2>1
  <2>8. QED
    BY <2>6, <2>7 DEF MachineFact
<1>9. ModeFact(c, "selected")'
  BY <1>4, ModeStays DEF FactAt
<1>10. BytesFact(c, "selected", m, 0)'
  BY <1>4, BytesStay DEF FactAt, Gathering
<1>11. QED
  BY <1>5, <1>6, <1>7, <1>8, <1>9, <1>10 DEF FactAt

-------------------------------------------------------------------------------
(***************************************************************************)
(* The operations inside a CE# pulse, up to the turnaround.                *)
(***************************************************************************)
LEMMA StartWrFact ==
  ASSUME NEW CONSTANT c, NEW CONSTANT m, NEW CONSTANT i, Known(c), FactAt(c, "selected", m, i),
         Start, before' = before, op[2] = "wr"
  PROVE  FactAt(c, "sending", m, 0)'
<1>1. Pulse(c, m) /\ c.d \in Devices
  BY PlacesArePulses DEF FactAt
<1>2. /\ dev' = dev /\ cs' = cs /\ mem' = mem /\ txf' = txf /\ osr' = osr /\ wpc' = wpc
      /\ mode' = mode /\ raw' = raw /\ got' = got /\ active' = active \cup {"wr"}
  BY DEF Start, pads, psrams, wr
<1>3. PICK F : F = Frame(c, m)
  OBVIOUS
<1>4. Len(F) \in Nat
  BY <1>1, <1>3, FrameLength
<1>5. At(c, "sending", m)
  BY <1>1, PulsePlaces
<1>6. /\ dev = BeginTransaction /\ cs = c.d /\ mem = Stored(c, m) /\ IsDevice(dev)
  BY DEF FactAt, DeviceFact, Within
<1>7. /\ active = {} /\ txf = Words(F, 0) /\ osr = <<>> /\ wpc = "out"
  BY <1>3 DEF FactAt, MachineFact
<1>8. Whole(c, m, 0)
  BY <1>6, DeselectedIs DEF Whole
<1>9. SentSoFar(c, m, 0)
  <2>1. StoredBy(c, m, 0) = m
    BY DEF StoredBy
  <2>2. QED
    BY <1>3, <1>6, <1>7, <1>8, <2>1 DEF SentSoFar
<1>10. SentSoFar(c, m, 0)'
  <2>1. Whole(c, m, 0)'
    <3>1. dev'.drive = NONE
      BY <1>2, <1>8 DEF Whole
    <3>2. QED
      BY <1>2, <1>8, <3>1, WholeKept
  <2>2. StoredBy(c, m, 0) = m /\ StoredBy(c, m, 0)' = m
    BY DEF StoredBy
  <2>3. Stored(c, m)' = Stored(c, m)
    BY Stays
  <2>4. Frame(c, m)' = F
    BY <1>3 DEF Frame, Piece, Chunk
  <2>5. Words(F, 0)' = Words(F, 0)
    BY DEF Words
  <2>6. mem' = Stored(c, StoredBy(c, m, 0))'
    <3>1. mem' = Stored(c, m)'
      BY <1>2, <1>6, <2>3
    <3>2. QED
      BY <2>2, <3>1 DEF Stored
  <2>7. txf' = Words(Frame(c, m), 0)'
    BY <1>2, <1>7, <2>4 DEF Words
  <2>8. osr' = <<>> /\ wpc' = "out"
    BY <1>2, <1>7
  <2>9. QED
    BY <2>1, <2>6, <2>7, <2>8 DEF SentSoFar
<1>11. Sending(c, m)'
  <2>1. 0 \in 0 .. Len(F)
    BY <1>4
  <2>2. Frame(c, m)' = F
    BY <1>3 DEF Frame, Piece, Chunk
  <2>3. QED
    BY <1>10, <2>1, <2>2 DEF Sending
<1>12. DeviceFact(c, "sending", m, 0)'
  <2>1. IsDevice(dev)' /\ cs' = c.d
    BY <1>2, <1>6 DEF IsDevice
  <2>2. QED
    BY <1>11, <2>1 DEF DeviceFact, Within
<1>13. PadFact("sending")' /\ MachineFact(c, "sending", m, 0)'
  <2>1. active' = {"wr"}
    BY <1>2, <1>7
  <2>2. QED
    BY <2>1 DEF PadFact, MachineFact
<1>14. ModeFact(c, "sending")'
  BY <1>2, ModeStays DEF FactAt
<1>15. BytesFact(c, "sending", m, 0)'
  BY <1>2, BytesStay DEF FactAt, Gathering
<1>16. QED
  BY <1>5, <1>12, <1>13, <1>14, <1>15 DEF FactAt

\* With the FIFO empty and the machine at rest, the whole frame has reached the device.
LEMMA DrainedIsSent ==
  ASSUME NEW c, NEW m, Pulse(c, m), Sending(c, m), txf = <<>>, osr = <<>>
  PROVE  Whole(c, m, Len(Frame(c, m))) /\ mem = Stored(c, After(c, m))
<1>1. PICK F : F = Frame(c, m)
  OBVIOUS
<1>2. /\ F \in Seq(ByteValues) /\ Len(F) \in Nat
      /\ c.name = "exit" => Len(F) = 1
      /\ c.name = "read" => Len(F) = 4
      /\ c.name = "write" => Len(F) = 4 + Piece(c, m)
  BY <1>1, FrameIs
<1>3. PICK u \in 0 .. Len(F) : SentSoFar(c, m, u)
  BY <1>1 DEF Sending
<1>4. /\ mem = Stored(c, StoredBy(c, m, u)) /\ txf = Words(F, u) /\ Whole(c, m, u)
  <2>1. osr # pack_qpi_byte(F[u + 1]) /\ osr # <<expand(F[u + 1] % 16)>>
    BY DEF pack_qpi_byte
  <2>2. QED
    BY <1>1, <1>3, <2>1 DEF SentSoFar
<1>5. u = Len(F)
  <2>1. u \in Nat /\ u <= Len(F)
    BY <1>2, <1>3
  <2>2. ~(u < Len(F))
    BY <1>2, <1>4, <2>1, WordsShrink
  <2>3. QED
    BY <1>2, <2>1, <2>2
<1>6. StoredBy(c, m, u) = After(c, m)
  <2>1. CASE c.name = "write"
    <3>1. Piece(c, m) \in 1 .. 4 /\ m \in Nat
      BY <2>1, PieceBounds DEF Pulse
    <3>2. u = 4 + Piece(c, m)
      BY <1>2, <1>5, <2>1
    <3>3. u > 4 /\ m + u - 4 = m + Piece(c, m)
      BY <3>1, <3>2
    <3>4. QED
      BY <2>1, <3>3 DEF StoredBy, After
  <2>2. CASE c.name # "write"
    BY <2>2 DEF StoredBy, After
  <2>3. QED
    BY <2>1, <2>2
<1>7. QED
  BY <1>1, <1>4, <1>5, <1>6

LEMMA DrainedFact ==
  ASSUME NEW CONSTANT c, NEW CONSTANT m, NEW CONSTANT i, Known(c), FactAt(c, "sending", m, i),
         Drained, before' = before
  PROVE  FactAt(c, "sent", m, 0)'
<1>1. Pulse(c, m)
  BY PlacesArePulses DEF FactAt
<1>2. /\ dev' = dev /\ cs' = cs /\ mem' = mem /\ txf' = txf /\ osr' = osr /\ wpc' = wpc
      /\ mode' = mode /\ raw' = raw /\ got' = got /\ active' = active /\ sck' = sck
      /\ txf = <<>> /\ osr = <<>> /\ wpc = "out" /\ sck = 0
  BY DEF Drained, pads, psrams, wr
<1>3. At(c, "sent", m)
  BY <1>1, PulsePlaces
<1>4. /\ cs = c.d /\ Sending(c, m) /\ IsDevice(dev)
  BY DEF FactAt, DeviceFact, Within
<1>5. PICK u : u = Len(Frame(c, m))
  OBVIOUS
<1>6. PICK k : k = After(c, m)
  OBVIOUS
<1>7. Whole(c, m, u) /\ mem = Stored(c, k)
  BY <1>1, <1>2, <1>4, <1>5, <1>6, DrainedIsSent
<1>8. DeviceFact(c, "sent", m, 0)'
  <2>1. dev'.drive = NONE
    BY <1>2, <1>7 DEF Whole
  <2>2. Whole(c, m, u)'
    BY <1>2, <1>7, <2>1, WholeKept
  <2>3. Len(Frame(c, m))' = u /\ After(c, m)' = k
    BY <1>5, <1>6 DEF Frame, After, Piece, Chunk
  <2>4. Whole(c, m, Len(Frame(c, m)))'
    BY <2>2, <2>3 DEF Whole, Frame, Piece, Chunk
  <2>5. mem' = Stored(c, k)'
    BY <1>2, <1>7 DEF Stored
  <2>6. mem' = Stored(c, After(c, m))'
    BY <2>3, <2>5 DEF Stored
  <2>7. IsDevice(dev)' /\ cs' = c.d
    BY <1>2, <1>4 DEF IsDevice
  <2>8. QED
    BY <2>4, <2>6, <2>7 DEF DeviceFact, Within
<1>9. PadFact("sent")' /\ MachineFact(c, "sent", m, 0)'
  <2>1. active = {"wr"}
    BY DEF FactAt, MachineFact
  <2>2. active' = {"wr"} /\ txf' = <<>> /\ osr' = <<>> /\ wpc' = "out" /\ sck' = 0
    BY <1>2, <2>1
  <2>3. QED
    BY <2>2 DEF PadFact, MachineFact
<1>10. ModeFact(c, "sent")'
  BY <1>2, ModeStays DEF FactAt
<1>11. BytesFact(c, "sent", m, 0)'
  BY <1>2, BytesStay DEF FactAt, Gathering
<1>12. QED
  BY <1>3, <1>8, <1>9, <1>10, <1>11 DEF FactAt

\* CE# rises over a frame that is complete.
LEMMA DeselectSentFact ==
  ASSUME NEW CONSTANT c, NEW CONSTANT m, NEW CONSTANT i, NEW CONSTANT k, Known(c),
         FactAt(c, "sent", m, i), Deselect, before' = before, k = After(c, m),
         At(c, "closing", k)
  PROVE  FactAt(c, "closing", k, 0)'
<1>1. Pulse(c, m) /\ c.d \in Devices
  BY PlacesArePulses DEF FactAt
<1>2. c.name # "read"
  BY DEF At, Places, ReadPlaces
<1>3. /\ cs' = NOBODY /\ dev' = Deselected /\ mem' = mem /\ txf' = txf /\ osr' = osr
      /\ wpc' = wpc /\ sck' = sck /\ active' = active
  BY DEF Deselect, EndFrame, wr
<1>4. cs = c.d /\ mem = Stored(c, k) /\ Whole(c, m, Len(Frame(c, m)))
  BY DEF FactAt, DeviceFact, Within
<1>5. mode \in [Devices -> {"SPI", "QPI"}]
  BY DEF FactAt, ModeFact
<1>6. mode' \in [Devices -> {"SPI", "QPI"}]
  BY <1>1, <1>4, <1>5 DEF Deselect, EndFrame
<1>7. ModeFact(c, "closing")'
  <2>1. CASE c.name = "exit"
    BY <1>6, <2>1 DEF ModeFact
  <2>2. CASE c.name = "write"
    <3>1. mode[c.d] = "QPI"
      BY <2>2 DEF FactAt, ModeFact
    <3>2. PICK u : u = Len(Frame(c, m))
      OBVIOUS
    <3>3. u \in Nat /\ u >= 4
      <4>1. Piece(c, m) \in Nat
        BY <1>1, <2>2, PieceBounds
      <4>2. u = 4 + Piece(c, m)
        BY <1>1, <2>2, <3>2, FrameIs
      <4>3. QED
        BY <4>1, <4>2
    <3>4. dev.phase = "DATA"
      BY <1>4, <2>2, <3>2, <3>3 DEF Whole
    <3>5. mode' = mode
      BY <3>4 DEF Deselect, EndFrame
    <3>6. QED
      BY <1>6, <3>1, <3>5 DEF ModeFact
  <2>3. QED
    BY <1>1, <1>2, <2>1, <2>2 DEF Pulse
<1>8. DeviceFact(c, "closing", k, 0)'
  <2>1. Stored(c, k)' = Stored(c, k)
    BY Stays
  <2>2. IsDevice(dev)'
    BY <1>3, DeselectedIs DEF IsDevice
  <2>3. QED
    BY <1>3, <1>4, <2>1, <2>2 DEF DeviceFact, Within
<1>9. PadFact("closing")' /\ MachineFact(c, "closing", k, 0)'
  <2>1. active = {"wr"} /\ txf = <<>> /\ osr = <<>> /\ wpc = "out" /\ sck = 0
    BY DEF FactAt, MachineFact, PadFact
  <2>2. active' = {"wr"} /\ txf' = <<>> /\ osr' = <<>> /\ wpc' = "out" /\ sck' = 0
    BY <1>3, <2>1
  <2>3. QED
    BY <2>2 DEF PadFact, MachineFact
<1>10. BytesFact(c, "closing", k, 0)'
  BY <1>2 DEF BytesFact
<1>11. QED
  BY <1>7, <1>8, <1>9, <1>10 DEF FactAt

-------------------------------------------------------------------------------
(***************************************************************************)
(* The turnaround of a read.                                               *)
(***************************************************************************)
LEMMA HandOverFact ==
  ASSUME NEW CONSTANT c, NEW CONSTANT m, NEW CONSTANT i, Known(c), FactAt(c, "sent", m, i),
         Stop, before' = before, op[2] = "wr", At(c, "handing", m)
  PROVE  FactAt(c, "handing", m, 0)'
<1>1. c.name = "read"
  BY PlacesArePulses DEF ReadPlaces
<1>2. Aside /\ active' = active \ {"wr"} /\ txf' = txf /\ sck' = sck
  BY DEF Stop, Aside, pads, psrams, wr
<1>3. active = {"wr"} /\ txf = <<>> /\ sck = 0
  BY DEF FactAt, MachineFact, PadFact
<1>4. active' = {} /\ txf' = <<>> /\ sck' = 0
  BY <1>2, <1>3
<1>5. PadFact("handing")' /\ MachineFact(c, "handing", m, 0)'
  BY <1>4 DEF PadFact, MachineFact
<1>6. QED
  BY <1>1, <1>2, <1>5, MovedTurning DEF TurnPlaces

LEMMA ParkedFact ==
  ASSUME NEW CONSTANT c, NEW CONSTANT m, NEW CONSTANT i, Known(c), FactAt(c, "handing", m, i),
         ParkSck, before' = before
  PROVE  FactAt(c, "handing", m, i)'
<1>1. c.name = "read" /\ At(c, "handing", m)
  BY PlacesArePulses DEF FactAt, ReadPlaces
<1>2. active = {} /\ txf = <<>> /\ sck = 0
  BY DEF FactAt, MachineFact, PadFact
<1>3. Aside /\ active' = active /\ txf' = txf /\ sck' = 0
  <2>1. dev' = dev
    BY <1>2, NoEdge DEF ParkSck
  <2>2. QED
    BY <2>1 DEF ParkSck, Aside, wr
<1>4. PadFact("handing")' /\ MachineFact(c, "handing", m, 0)'
  BY <1>2, <1>3 DEF PadFact, MachineFact
<1>5. FactAt(c, "handing", m, 0)'
  BY <1>1, <1>3, <1>4, MovedTurning DEF TurnPlaces
<1>6. DeviceFact(c, "handing", m, i)' /\ MachineFact(c, "handing", m, i)'
      /\ BytesFact(c, "handing", m, i)'
  BY <1>5 DEF FactAt, DeviceFact, MachineFact, BytesFact
<1>7. i \in Nat
  BY DEF FactAt
<1>8. QED
  BY <1>5, <1>6, <1>7 DEF FactAt

LEMMA FloatFact ==
  ASSUME NEW CONSTANT c, NEW CONSTANT m, NEW CONSTANT i, Known(c), FactAt(c, "handing", m, i),
         SetPindirs, before' = before, op[2] = "RX"
  PROVE  FactAt(c, "floating", m, 0)'
<1>1. c.name = "read" /\ At(c, "floating", m)
  <2>1. c.name = "read" /\ Pulse(c, m)
    BY PlacesArePulses DEF FactAt, ReadPlaces
  <2>2. QED
    BY <2>1, PulsePlaces DEF ReadPlaces
<1>2. active = {} /\ txf = <<>> /\ sck = 0
  BY DEF FactAt, MachineFact, PadFact
<1>3. Aside /\ active' = active /\ txf' = txf /\ sck' = 0 /\ pindirs' = "RX"
  <2>1. dev' = dev
    BY <1>2, NoEdge DEF SetPindirs
  <2>2. QED
    BY <2>1 DEF SetPindirs, Aside, wr
<1>4. PadFact("floating")' /\ MachineFact(c, "floating", m, 0)'
  BY <1>2, <1>3 DEF PadFact, MachineFact
<1>5. QED
  BY <1>1, <1>3, <1>4, MovedTurning DEF TurnPlaces

LEMMA PrimeFact ==
  ASSUME NEW CONSTANT c, NEW CONSTANT m, NEW CONSTANT i, Known(c), FactAt(c, "floating", m, i),
         PrimeRx, before' = before
  PROVE  FactAt(c, "primed", m, 0)'
<1>1. c.name = "read" /\ At(c, "primed", m)
  <2>1. c.name = "read" /\ Pulse(c, m)
    BY PlacesArePulses DEF FactAt, ReadPlaces
  <2>2. QED
    BY <2>1, PulsePlaces DEF ReadPlaces
<1>2. active = {} /\ txf = <<>> /\ sck = 0 /\ pindirs = "RX"
  BY DEF FactAt, MachineFact, PadFact
<1>3. /\ Aside /\ active' = active \ {"rd"} /\ txf' = txf /\ sck' = sck /\ pindirs' = pindirs
      /\ rxf' = <<>> /\ isr' = <<>> /\ rpc' = "nop" /\ stalled' = FALSE
  BY DEF PrimeRx, Aside, pads, psrams, wr
<1>4. active' = {} /\ txf' = <<>> /\ sck' = 0 /\ pindirs' = "RX"
  BY <1>2, <1>3
<1>5. PadFact("primed")' /\ MachineFact(c, "primed", m, 0)'
  BY <1>3, <1>4 DEF PadFact, MachineFact
<1>6. QED
  BY <1>1, <1>3, <1>5, MovedTurning DEF TurnPlaces

\* The machine "rd" starts with an empty FIFO and a device in its first dummy cycle.
LEMMA StartRdFact ==
  ASSUME NEW CONSTANT c, NEW CONSTANT m, NEW CONSTANT i, Known(c), FactAt(c, "primed", m, i),
         Start, before' = before, op[2] = "rd"
  PROVE  FactAt(c, "reading", m, 0)'
<1>1. c.name = "read" /\ Spanned(c, m) /\ Pulse(c, m)
  BY PlacesArePulses DEF FactAt, ReadPlaces
<1>2. At(c, "reading", m)
  BY <1>1, PulsePlaces DEF ReadPlaces
<1>3. /\ dev' = dev /\ cs' = cs /\ mem' = mem /\ txf' = txf /\ sck' = sck
      /\ pindirs' = pindirs /\ mode' = mode /\ raw' = raw /\ got' = got
      /\ active' = active \cup {"rd"} /\ rxf' = rxf /\ isr' = isr /\ rpc' = rpc
      /\ stalled' = stalled
  BY DEF Start, pads, psrams, wr, rd
<1>4. /\ active = {} /\ txf = <<>> /\ sck = 0 /\ pindirs = "RX"
      /\ rxf = <<>> /\ isr = <<>> /\ rpc = "nop" /\ ~stalled
  BY DEF FactAt, MachineFact, PadFact
<1>5. /\ IsDevice(dev) /\ cs = c.d /\ mem = Stored(c, m) /\ Whole(c, m, Len(Frame(c, m)))
  BY DEF FactAt, DeviceFact, Within
<1>6. Answering(c, m, 0, 0)
  <2>1. PICK F : F = Frame(c, m)
    OBVIOUS
  <2>2. Len(F) = 4 /\ F[1] = QSPI_CMD_FAST_READ
    BY <1>1, <2>1, FrameIs
  <2>3. Whole(c, m, 4)
    BY <1>5, <2>1, <2>2
  <2>4. /\ dev.opcode = QSPI_CMD_FAST_READ /\ dev.phase = "DUMMY" /\ dev.count = 0
        /\ dev.address = c.addr + m + 4 - 4 /\ dev.half = NONE /\ dev.drive = NONE
    BY <1>1, <2>1, <2>2, <2>3 DEF Whole
  <2>5. c.addr \in Nat /\ m \in Nat
    BY <1>1 DEF Spanned, CallFact, Pulse, Total
  <2>6. dev.address = c.addr + m + (0 \div 2)
    BY <2>4, <2>5
  <2>7. QED
    BY <2>4, <2>6 DEF Answering
<1>7. Reading(c, m, 0)'
  <2>1. rxf' = <<>> /\ isr' = <<>> /\ rpc' = "nop" /\ ~stalled' /\ sck' = 0
    BY <1>3, <1>4
  <2>2. Len(rxf') = 0 /\ Len(isr') = 0
    BY <2>1
  <2>3. Samples(0)' = 0
    BY <2>2 DEF Samples
  <2>4. Answering(c, m, 0, 0)'
    BY <1>3, <1>6 DEF Answering, NibbleOf, ByteOf
  <2>5. Pipeline(c, m, 0)'
    BY <2>1, <2>4 DEF Pipeline
  <2>6. Pipeline(c, m, Samples(0))'
    <3>1. PICK s : s = Samples(0)'
      OBVIOUS
    <3>2. s = 0
      BY <2>3, <3>1
    <3>3. QED
      BY <2>1, <2>3, <2>4 DEF Pipeline, Answering
  <2>7. <<>> \in Seq({})
    OBVIOUS
  <2>8. \E S : rxf' \in Seq(S)
    BY <2>1, <2>7
  <2>9. dev'.opcode = QSPI_CMD_FAST_READ /\ dev'.phase = "DUMMY"
    BY <1>3, <1>6 DEF Answering
  <2>10. \A j \in 1 .. Len(rxf') : FALSE
    BY <2>2
  <2>11. QED
    BY <2>1, <2>6, <2>8, <2>9, <2>10 DEF Reading
<1>8. DeviceFact(c, "reading", m, 0)'
  <2>1. Stored(c, m)' = Stored(c, m)
    BY Stays
  <2>2. IsDevice(dev)' /\ cs' = c.d /\ mem' = Stored(c, m)'
    BY <1>3, <1>5, <2>1 DEF IsDevice
  <2>3. QED
    BY <1>7, <2>2 DEF DeviceFact, Within
<1>9. PadFact("reading")' /\ MachineFact(c, "reading", m, 0)'
  <2>1. active' = {"rd"} /\ txf' = <<>> /\ pindirs' = "RX"
    BY <1>3, <1>4
  <2>2. QED
    BY <2>1 DEF PadFact, MachineFact
<1>10. ModeFact(c, "reading")'
  BY <1>3, ModeStays DEF FactAt
<1>11. BytesFact(c, "reading", m, 0)'
  <2>1. got = Got(c, m) /\ raw = <<>>
    BY <1>1 DEF FactAt, BytesFact
  <2>2. Got(c, m)' = Got(c, m)
    BY Stays
  <2>3. PICK n : n = Piece(c, m)
    OBVIOUS
  <2>4. 0 \in 0 .. n + 4
    BY <1>1, <2>3, PieceBounds
  <2>5. raw' = Raw(c, m, 0)'
    <3>1. Raw(c, m, 0)' = <<>>
      BY DEF Raw
    <3>2. QED
      BY <1>3, <2>1, <3>1
  <2>6. Piece(c, m)' = n
    BY <2>3 DEF Piece, Chunk
  <2>7. got' = Got(c, m)'
    BY <1>3, <2>1, <2>2
  <2>8. QED
    BY <2>4, <2>5, <2>6, <2>7 DEF BytesFact, Gathering
<1>12. QED
  BY <1>2, <1>8, <1>9, <1>10, <1>11 DEF FactAt

-------------------------------------------------------------------------------
(***************************************************************************)
(* The words of a burst, and the end of a read.                            *)
(***************************************************************************)
LEMMA GetFact ==
  ASSUME NEW CONSTANT c, NEW CONSTANT m, NEW CONSTANT i, Known(c), FactAt(c, "reading", m, i),
         Get, before' = before,
         \/ op[1] = "skip" /\ i < 3
         \/ op[1] = "get" /\ 3 <= i /\ i < Piece(c, m) + 4
  PROVE  FactAt(c, "reading", m, i + 1)'
<1>1. c.name = "read" /\ Spanned(c, m) /\ Pulse(c, m) /\ At(c, "reading", m) /\ i \in Nat
  BY PlacesArePulses DEF FactAt, ReadPlaces
<1>2. PICK n : n = Piece(c, m)
  OBVIOUS
<1>3. n \in 1 .. 4
  BY <1>1, <1>2, PieceBounds
<1>4. i <= 7 /\ i + 1 \in 0 .. n + 4 /\ i + 1 \in Nat
  BY <1>1, <1>2, <1>3
<1>5. /\ rxf # <<>> /\ rxf' = Tail(rxf) /\ isr' = isr /\ dev' = dev /\ sck' = sck
      /\ rpc' = rpc /\ stalled' = stalled /\ late' = late /\ cs' = cs /\ mem' = mem
      /\ txf' = txf /\ pindirs' = pindirs /\ mode' = mode /\ got' = got /\ active' = active
      /\ raw' = IF op[1] = "get" THEN Append(raw, unpack_qpi_word(Head(rxf))) ELSE raw
  BY DEF Get, pads, psrams, wr
<1>6. IsDevice(dev) /\ cs = c.d /\ mem = Stored(c, m) /\ Reading(c, m, i)
  BY DEF FactAt, DeviceFact, Within
<1>7. PICK w : w = Head(rxf)
  OBVIOUS
<1>8. Reading(c, m, i + 1)' /\ w = <<SymbolOf(c, m, 2 * i + 1), SymbolOf(c, m, 2 * i + 2)>>
  BY <1>1, <1>4, <1>5, <1>6, <1>7, GetReads
<1>9. DeviceFact(c, "reading", m, i + 1)'
  <2>1. Stored(c, m)' = Stored(c, m)
    BY Stays
  <2>2. IsDevice(dev)' /\ cs' = c.d /\ mem' = Stored(c, m)'
    BY <1>5, <1>6, <2>1 DEF IsDevice
  <2>3. QED
    BY <1>8, <2>2 DEF DeviceFact, Within
<1>10. PadFact("reading")' /\ MachineFact(c, "reading", m, i + 1)'
  <2>1. active = {"rd"} /\ txf = <<>> /\ pindirs = "RX"
    BY DEF FactAt, MachineFact, PadFact
  <2>2. active' = {"rd"} /\ txf' = <<>> /\ pindirs' = "RX"
    BY <1>5, <2>1
  <2>3. QED
    BY <2>2 DEF PadFact, MachineFact
<1>11. ModeFact(c, "reading")'
  BY <1>5, ModeStays DEF FactAt
<1>12. BytesFact(c, "reading", m, i + 1)'
  <2>1. got = Got(c, m) /\ raw = Raw(c, m, i)
    BY <1>1 DEF FactAt, BytesFact
  <2>2. Got(c, m)' = Got(c, m)
    BY Stays
  <2>3. Raw(c, m, i + 1)' = Raw(c, m, i + 1)
    BY RawStays
  <2>4. raw' = Raw(c, m, i + 1)
    <3>1. CASE op[1] = "skip"
      <4>1. i < 3
        BY <1>1, <1>2, <1>3, <3>1
      <4>2. Raw(c, m, i) = <<>> /\ Raw(c, m, i + 1) = <<>>
        BY <1>1, <1>8, <4>1, RawGrows
      <4>3. raw' = raw
        BY <1>5, <3>1
      <4>4. QED
        BY <2>1, <4>2, <4>3
    <3>2. CASE op[1] = "get"
      <4>1. i >= 3
        BY <1>1, <3>2
      <4>2. Raw(c, m, i + 1) = Append(Raw(c, m, i), unpack_qpi_word(w))
        BY <1>1, <1>8, <4>1, RawGrows
      <4>3. raw' = Append(raw, unpack_qpi_word(w))
        BY <1>5, <1>7, <3>2
      <4>4. QED
        BY <2>1, <4>2, <4>3
    <3>3. QED
      BY <3>1, <3>2
  <2>5. raw' = Raw(c, m, i + 1)'
    BY <2>3, <2>4
  <2>6. Piece(c, m)' = n
    BY <1>2 DEF Piece, Chunk
  <2>7. got' = Got(c, m)'
    BY <1>5, <2>1, <2>2
  <2>8. QED
    BY <1>4, <2>5, <2>6, <2>7 DEF BytesFact, Gathering
<1>13. QED
  BY <1>1, <1>4, <1>9, <1>10, <1>11, <1>12 DEF FactAt

LEMMA StopRdFact ==
  ASSUME NEW CONSTANT c, NEW CONSTANT m, NEW CONSTANT i, Known(c), FactAt(c, "reading", m, i),
         Stop, before' = before, op[2] = "rd", i = Piece(c, m) + 4
  PROVE  FactAt(c, "read", m, 0)'
<1>1. c.name = "read" /\ Spanned(c, m) /\ Pulse(c, m)
  BY PlacesArePulses DEF FactAt, ReadPlaces
<1>2. At(c, "read", m)
  BY <1>1, PulsePlaces DEF ReadPlaces
<1>3. /\ dev' = dev /\ cs' = cs /\ mem' = mem /\ txf' = txf /\ pindirs' = pindirs
      /\ mode' = mode /\ got' = got /\ raw' = raw /\ active' = active \ {"rd"}
  BY DEF Stop, pads, psrams, wr
<1>4. /\ IsDevice(dev) /\ cs = c.d /\ mem = Stored(c, m)
      /\ dev.opcode = QSPI_CMD_FAST_READ /\ dev.phase \in {"DUMMY", "DATA"}
  <2>1. Reading(c, m, i) /\ IsDevice(dev) /\ cs = c.d /\ mem = Stored(c, m)
    BY DEF FactAt, DeviceFact, Within
  <2>2. QED
    BY <2>1 DEF Reading
<1>5. DeviceFact(c, "read", m, 0)'
  <2>1. Stored(c, m)' = Stored(c, m)
    BY Stays
  <2>2. IsDevice(dev)' /\ cs' = c.d /\ mem' = Stored(c, m)'
    BY <1>3, <1>4, <2>1 DEF IsDevice
  <2>3. QED
    BY <1>3, <1>4, <2>2 DEF DeviceFact, Within
<1>6. PadFact("read")' /\ MachineFact(c, "read", m, 0)'
  <2>1. active = {"rd"} /\ txf = <<>> /\ pindirs = "RX"
    BY DEF FactAt, MachineFact, PadFact
  <2>2. active' = {} /\ txf' = <<>> /\ pindirs' = "RX"
    BY <1>3, <2>1
  <2>3. QED
    BY <2>2 DEF PadFact, MachineFact
<1>7. ModeFact(c, "read")'
  BY <1>3, ModeStays DEF FactAt
<1>8. BytesFact(c, "read", m, 0)'
  <2>1. got = Got(c, m) /\ raw = Raw(c, m, i)
    BY <1>1 DEF FactAt, BytesFact
  <2>2. Got(c, m)' = Got(c, m)
    BY Stays
  <2>3. Raw(c, m, i)' = Raw(c, m, i)
    BY RawStays
  <2>4. Piece(c, m)' + 4 = i
    BY DEF Piece, Chunk
  <2>5. raw' = Raw(c, m, i)' /\ got' = Got(c, m)'
    BY <1>3, <2>1, <2>2, <2>3
  <2>6. raw' = Raw(c, m, Piece(c, m) + 4)'
    BY <2>4, <2>5 DEF Raw, SampleOf, NibbleOf, ByteOf
  <2>7. QED
    BY <2>5, <2>6 DEF BytesFact, Gathering
<1>9. QED
  BY <1>2, <1>5, <1>6, <1>7, <1>8 DEF FactAt

\* CE# rises in the middle of the answer: no opcode of a read changes the mode.
LEMMA DeselectReadFact ==
  ASSUME NEW CONSTANT c, NEW CONSTANT m, NEW CONSTANT i, Known(c), FactAt(c, "read", m, i),
         Deselect, before' = before
  PROVE  FactAt(c, "unframed", m, 0)'
<1>1. c.name = "read" /\ Pulse(c, m)
  BY PlacesArePulses DEF FactAt, ReadPlaces
<1>2. At(c, "unframed", m)
  BY <1>1, PulsePlaces DEF ReadPlaces
<1>3. /\ dev.phase \in {"DUMMY", "DATA"} /\ mem = Stored(c, m)
  BY DEF FactAt, DeviceFact, Within
<1>4. /\ cs' = NOBODY /\ dev' = Deselected /\ mem' = mem /\ txf' = txf
      /\ raw' = raw /\ got' = got /\ active' = active
  BY DEF Deselect, EndFrame, wr
<1>5. mode' = mode
  BY <1>3 DEF Deselect, EndFrame
<1>6. DeviceFact(c, "unframed", m, 0)'
  <2>1. Stored(c, m)' = Stored(c, m)
    BY Stays
  <2>2. IsDevice(dev)'
    BY <1>4, DeselectedIs DEF IsDevice
  <2>3. QED
    BY <1>3, <1>4, <2>1, <2>2 DEF DeviceFact, Within
<1>7. PadFact("unframed")' /\ MachineFact(c, "unframed", m, 0)'
  <2>1. active = {} /\ txf = <<>>
    BY DEF FactAt, MachineFact
  <2>2. active' = {} /\ txf' = <<>>
    BY <1>4, <2>1
  <2>3. QED
    BY <2>2 DEF PadFact, MachineFact
<1>8. ModeFact(c, "unframed")'
  BY <1>5, ModeStays DEF FactAt
<1>9. BytesFact(c, "unframed", m, 0)'
  BY <1>4, BytesStay DEF FactAt
<1>10. QED
  BY <1>2, <1>6, <1>7, <1>8, <1>9 DEF FactAt

LEMMA RealignFact ==
  ASSUME NEW CONSTANT c, NEW CONSTANT m, NEW CONSTANT i, NEW CONSTANT k, Known(c),
         FactAt(c, "unframed", m, i), Realign, before' = before, op[2] = Piece(c, m),
         k = m + Piece(c, m), At(c, "rest", k)
  PROVE  FactAt(c, "rest", k, 0)'
<1>1. c.name = "read" /\ Spanned(c, m)
  BY PlacesArePulses DEF FactAt, ReadPlaces
<1>2. PICK n : n = Piece(c, m)
  OBVIOUS
<1>3. /\ dev' = dev /\ cs' = cs /\ mem' = mem /\ mode' = mode /\ active' = active
      /\ txf' = txf /\ raw' = <<>> /\ got' = got \o realign_qpi_nibbles(raw, n)
  BY <1>2 DEF Realign, pads, psrams, wr
<1>4. /\ IsDevice(dev) /\ cs = NOBODY /\ dev = Deselected /\ mem = Stored(c, m)
  BY OutsideIs, OutsideFact DEF OutsidePlaces, FactAt
<1>5. DeviceFact(c, "rest", k, 0)'
  <2>1. Stored(c, k)' = Stored(c, k)
    BY Stays
  <2>2. Stored(c, m) = before /\ Stored(c, k) = before
    BY <1>1, ReadStoresNothing
  <2>3. IsDevice(dev)' /\ mem' = Stored(c, k)' /\ cs' = NOBODY /\ dev' = Deselected
    BY <1>3, <1>4, <2>1, <2>2 DEF IsDevice
  <2>4. QED
    BY <2>3 DEF DeviceFact, Within
<1>6. PadFact("rest")' /\ MachineFact(c, "rest", k, 0)'
  <2>1. active = {} /\ txf = <<>>
    BY DEF FactAt, MachineFact
  <2>2. active' = {} /\ txf' = <<>>
    BY <1>3, <2>1
  <2>3. QED
    BY <2>2 DEF PadFact, MachineFact
<1>7. ModeFact(c, "rest")'
  BY <1>3, ModeStays DEF FactAt
<1>8. BytesFact(c, "rest", k, 0)'
  <2>1. got = Got(c, m) /\ raw = Raw(c, m, n + 4)
    BY <1>1, <1>2 DEF FactAt, BytesFact
  <2>2. Got(c, m) \o realign_qpi_nibbles(Raw(c, m, n + 4), n) = Got(c, m + n)
    BY <1>1, <1>2, RealignedIsRead
  <2>3. got' = Got(c, k)
    BY <1>2, <1>3, <2>1, <2>2
  <2>4. Got(c, k)' = Got(c, k)
    BY Stays
  <2>5. QED
    BY <1>3, <2>3, <2>4 DEF BytesFact
<1>9. QED
  BY <1>5, <1>6, <1>7, <1>8 DEF FactAt

-------------------------------------------------------------------------------
(***************************************************************************)
(* The bytes the SPI machine sends.                                        *)
(***************************************************************************)
LEMMA StartSpiFact ==
  ASSUME NEW CONSTANT c, NEW CONSTANT m, NEW CONSTANT i, FactAt(c, "spi ready", m, i),
         Start, before' = before, op[2] = "spi"
  PROVE  FactAt(c, "spi ready", m, i)'
<1>1. Outside("spi ready") /\ "spi ready" \notin Gathering
  BY OutsideIs DEF OutsidePlaces
<1>2. Aside /\ active' = active \cup {"spi"} /\ txf' = txf /\ pindirs' = pindirs
  BY DEF Start, Aside, pads, psrams, wr
<1>3. active \subseteq {"spi"} /\ txf = <<>> /\ pindirs = "SPI"
  BY DEF FactAt, MachineFact, PadFact
<1>4. active' \subseteq {"spi"} /\ txf' = <<>> /\ pindirs' = "SPI"
  BY <1>2, <1>3
<1>5. PadFact("spi ready")' /\ MachineFact(c, "spi ready", m, i)'
  BY <1>4 DEF PadFact, MachineFact
<1>6. At(c, "spi ready", m) /\ i \in Nat
  BY DEF FactAt
<1>7. QED
  BY <1>1, <1>2, <1>5, <1>6, Moved

LEMMA SpiPlaces ==
  ASSUME NEW c, NEW at \in {"spi ready", "spi selected"}, NEW m, At(c, at, m)
  PROVE  c.name = "enter"
BY DEF At, Places, ReadPlaces

LEMMA SelectSpiFact ==
  ASSUME NEW CONSTANT c, NEW CONSTANT m, NEW CONSTANT i, FactAt(c, "spi ready", m, i),
         Select, before' = before, op[2] \in Devices, At(c, "spi selected", m)
  PROVE  FactAt(c, "spi selected", m, 0)'
<1>1. c.name = "enter"
  BY SpiPlaces
<1>2. /\ mem' = mem /\ mode' = mode /\ active' = active /\ txf' = txf /\ pindirs' = pindirs
      /\ cs' \in Devices /\ dev' \in {BeginTransaction, Deselected}
  BY DEF Select, wr
<1>3. /\ mem = Stored(c, m)
  BY OutsideIs, OutsideFact DEF OutsidePlaces, FactAt
<1>4. DeviceFact(c, "spi selected", m, 0)'
  <2>1. Stored(c, m)' = Stored(c, m)
    BY Stays
  <2>2. IsDevice(dev)' /\ dev'.drive = NONE
    BY <1>2, DeselectedIs DEF IsDevice
  <2>3. QED
    BY <1>2, <1>3, <2>1, <2>2 DEF DeviceFact, Within
<1>5. active \subseteq {"spi"} /\ txf = <<>> /\ pindirs = "SPI"
  BY DEF FactAt, MachineFact, PadFact
<1>6. PadFact("spi selected")' /\ MachineFact(c, "spi selected", m, 0)'
  BY <1>2, <1>5 DEF PadFact, MachineFact
<1>7. ModeFact(c, "spi selected")' /\ BytesFact(c, "spi selected", m, 0)'
  BY <1>1, <1>2 DEF FactAt, ModeFact, BytesFact
<1>8. QED
  BY <1>4, <1>6, <1>7 DEF FactAt

LEMMA ShiftFact ==
  ASSUME NEW CONSTANT c, NEW CONSTANT m, NEW CONSTANT i, FactAt(c, "spi selected", m, i),
         ShiftSpi, before' = before
  PROVE  FactAt(c, "spi selected", m, i)'
<1>1. c.name = "enter"
  BY SpiPlaces DEF FactAt
<1>2. /\ mem' = mem /\ active' = active /\ txf' = txf /\ pindirs' = pindirs
      /\ cs' = cs /\ dev' = dev
  BY DEF ShiftSpi, wr, pads
<1>3. /\ mem = Stored(c, m) /\ cs \in Devices /\ dev.drive = NONE /\ IsDevice(dev)
  BY DEF FactAt, DeviceFact, Within
<1>4. DeviceFact(c, "spi selected", m, i)'
  <2>1. Stored(c, m)' = Stored(c, m)
    BY Stays
  <2>2. QED
    BY <1>2, <1>3, <2>1 DEF DeviceFact, Within, IsDevice
<1>5. active \subseteq {"spi"} /\ txf = <<>> /\ pindirs = "SPI"
  BY DEF FactAt, MachineFact, PadFact
<1>6. PadFact("spi selected")' /\ MachineFact(c, "spi selected", m, i)'
  BY <1>2, <1>5 DEF PadFact, MachineFact
<1>7. mode' \in [Devices -> {"SPI", "QPI"}]
  <2>1. mode \in [Devices -> {"SPI", "QPI"}]
    BY DEF FactAt, ModeFact
  <2>2. QED
    BY <1>3, <2>1 DEF ShiftSpi
<1>8. ModeFact(c, "spi selected")' /\ BytesFact(c, "spi selected", m, i)'
  BY <1>1, <1>7 DEF ModeFact, BytesFact
<1>9. QED
  BY <1>4, <1>6, <1>8 DEF FactAt

LEMMA DeselectSpiFact ==
  ASSUME NEW CONSTANT c, NEW CONSTANT m, NEW CONSTANT i, FactAt(c, "spi selected", m, i),
         Deselect, before' = before, At(c, "rest", m)
  PROVE  FactAt(c, "rest", m, 0)'
<1>1. c.name = "enter"
  BY SpiPlaces DEF FactAt
<1>2. /\ mem' = mem /\ active' = active /\ txf' = txf /\ dev' = Deselected /\ cs' = NOBODY
  BY DEF Deselect, EndFrame, wr
<1>3. mem = Stored(c, m) /\ cs \in Devices
  BY DEF FactAt, DeviceFact, Within
<1>4. DeviceFact(c, "rest", m, 0)'
  <2>1. Stored(c, m)' = Stored(c, m)
    BY Stays
  <2>2. IsDevice(dev)'
    BY <1>2, DeselectedIs DEF IsDevice
  <2>3. QED
    BY <1>2, <1>3, <2>1, <2>2 DEF DeviceFact, Within
<1>5. active \subseteq {"spi"} /\ txf = <<>>
  BY DEF FactAt, MachineFact
<1>6. PadFact("rest")' /\ MachineFact(c, "rest", m, 0)'
  BY <1>2, <1>5 DEF PadFact, MachineFact
<1>7. mode' \in [Devices -> {"SPI", "QPI"}]
  <2>1. mode \in [Devices -> {"SPI", "QPI"}]
    BY DEF FactAt, ModeFact
  <2>2. QED
    BY <1>3, <2>1 DEF Deselect, EndFrame
<1>8. ModeFact(c, "rest")' /\ BytesFact(c, "rest", m, 0)'
  BY <1>1, <1>7 DEF ModeFact, BytesFact
<1>9. QED
  BY <1>4, <1>6, <1>8 DEF FactAt

-------------------------------------------------------------------------------
(***************************************************************************)
(* One operation of the list, and the fact after it.                       *)
(***************************************************************************)
LEMMA OperationIs ==
  ASSUME Python
  PROVE  /\ op[1] = "release" => Release
         /\ op[1] = "fits" => Fits
         /\ op[1] = "arm" => Arm
         /\ op[1] = "stop" => Stop
         /\ op[1] = "park" => ParkSck
         /\ op[1] = "restart wr" => RestartWr
         /\ op[1] = "pindirs" => SetPindirs
         /\ op[1] = "put" => Put
         /\ op[1] = "select" => Select
         /\ op[1] = "start" => Start
         /\ op[1] = "drained" => Drained
         /\ op[1] = "deselect" => Deselect
         /\ op[1] = "prime rx" => PrimeRx
         /\ op[1] \in {"skip", "get"} => Get
         /\ op[1] = "realign" => Realign
         /\ op[1] = "spi" => ShiftSpi
<1>1. /\ Release => op[1] = "release"
      /\ Fits => op[1] = "fits"
      /\ Arm => op[1] = "arm"
      /\ Stop => op[1] = "stop"
  BY DEF Release, Fits, Arm, Stop, Operation
<1>2. /\ ParkSck => op[1] = "park"
      /\ RestartWr => op[1] = "restart wr"
      /\ SetPindirs => op[1] = "pindirs"
      /\ Put => op[1] = "put"
  BY DEF ParkSck, RestartWr, SetPindirs, Put, Operation
<1>3. /\ Select => op[1] = "select"
      /\ Start => op[1] = "start"
      /\ Drained => op[1] = "drained"
      /\ Deselect => op[1] = "deselect"
  BY DEF Select, Start, Drained, Deselect, Operation
<1>4. /\ PrimeRx => op[1] = "prime rx"
      /\ Get => op[1] \in {"skip", "get"}
      /\ Realign => op[1] = "realign"
      /\ ShiftSpi => op[1] = "spi"
  BY DEF PrimeRx, Get, Realign, ShiftSpi, Operation
<1>5. QED
  BY <1>1, <1>2, <1>3, <1>4 DEF Python

LEMMA OperationKeepsFact ==
  ASSUME NEW CONSTANT c, NEW CONSTANT a, NEW CONSTANT o, NEW CONSTANT b, Known(c), Fact(c, a),
         Step(c, a, o, b), o = op, Python, before' = before
  PROVE  Fact(c, b)'
<1>1. PICK at, m, i : a = <<at, m, i>>
  BY DEF Fact
<1>2. a[1] = at /\ a[2] = m /\ a[3] = i
  BY <1>1
<1>3. FactAt(c, at, m, i)
  BY <1>2 DEF Fact
<1>4. At(c, at, m) /\ At(c, b[1], b[2])
  BY <1>2 DEF Step
<1>5. \A p, k, j : b = <<p, k, j>> => At(c, p, k) /\ (FactAt(c, p, k, j)' => Fact(c, b)')
  <2> SUFFICES ASSUME NEW CONSTANT p, NEW CONSTANT k, NEW CONSTANT j, b = <<p, k, j>>
               PROVE  At(c, p, k) /\ (FactAt(c, p, k, j)' => Fact(c, b)')
    OBVIOUS
  <2>1. b[1] = p /\ b[2] = k /\ b[3] = j
    OBVIOUS
  <2>2. QED
    BY <1>4, <2>1 DEF Fact
<1>6. FactAt(c, at, m, i)' /\ b = a => Fact(c, b)'
  BY <1>1, <1>5
<1>7. CASE o[1] = "release"
  <2>1. Release
    BY <1>7, OperationIs
  <2>2. at = "rest" /\ b = a
    BY <1>2, <1>7 DEF Step
  <2>3. FactAt(c, at, m, i)'
    BY <1>3, <2>1, <2>2, ReleaseFact
  <2>4. QED
    BY <1>6, <2>2, <2>3
<1>8. CASE o[1] = "fits"
  <2>1. Fits
    BY <1>8, OperationIs
  <2>2. at = "rest" /\ b = a
    BY <1>2, <1>8 DEF Step
  <2>3. FactAt(c, at, m, i)'
    BY <1>3, <2>1, <2>2, FitsFact
  <2>4. QED
    BY <1>6, <2>2, <2>3
<1>9. CASE o[1] = "arm"
  <2>1. Arm
    BY <1>9, OperationIs
  <2>2. at = "rest" /\ b = <<"armed", m, 0>>
    BY <1>2, <1>9 DEF Step
  <2>3. FactAt(c, "armed", m, 0)'
    BY <1>3, <1>5, <2>1, <2>2, ArmFact
  <2>4. QED
    BY <1>5, <2>2, <2>3
<1>10. CASE o[1] = "stop"
  <2>1. Stop
    BY <1>10, OperationIs
  <2>2. \/ at \in {"armed", "quiet"} /\ b = a
        \/ o[2] = "spi" /\ at = "armed" /\ b = <<"quiet", m, 0>>
        \/ o[2] = "wr" /\ at = "closing"
           /\ b = <<IF c.name = "exit" THEN "over" ELSE "rest", m, 0>>
        \/ o[2] = "wr" /\ at = "sent" /\ b = <<"handing", m, 0>>
        \/ o[2] = "rd" /\ at = "reading" /\ i = Piece(c, m) + 4 /\ b = <<"read", m, 0>>
    BY <1>2, <1>10 DEF Step
  <2>3. CASE at \in {"armed", "quiet"} /\ b = a
    <3>1. FactAt(c, at, m, i)'
      BY <1>3, <2>1, <2>3, StopFact
    <3>2. QED
      BY <1>6, <2>3, <3>1
  <2>4. CASE o[2] = "spi" /\ at = "armed" /\ b = <<"quiet", m, 0>>
    <3>1. FactAt(c, "quiet", m, 0)'
      BY <1>3, <1>5, <2>1, <2>4, StopFact
    <3>2. QED
      BY <1>5, <2>4, <3>1
  <2>5. CASE o[2] = "wr" /\ at = "closing"
             /\ b = <<IF c.name = "exit" THEN "over" ELSE "rest", m, 0>>
    <3>1. CASE c.name = "exit"
      <4>1. b = <<"over", m, 0>>
        BY <2>5, <3>1
      <4>2. FactAt(c, "over", m, 0)'
        BY <1>3, <1>5, <2>1, <2>5, <3>1, <4>1, StopFact
      <4>3. QED
        BY <1>5, <4>1, <4>2
    <3>2. CASE c.name # "exit"
      <4>1. b = <<"rest", m, 0>>
        BY <2>5, <3>2
      <4>2. FactAt(c, "rest", m, 0)'
        BY <1>3, <1>5, <2>1, <2>5, <3>2, <4>1, StopFact
      <4>3. QED
        BY <1>5, <4>1, <4>2
    <3>3. QED
      BY <3>1, <3>2
  <2>6. CASE o[2] = "wr" /\ at = "sent" /\ b = <<"handing", m, 0>>
    <3>1. FactAt(c, "handing", m, 0)'
      BY <1>3, <1>5, <2>1, <2>6, HandOverFact
    <3>2. QED
      BY <1>5, <2>6, <3>1
  <2>7. CASE o[2] = "rd" /\ at = "reading" /\ i = Piece(c, m) + 4 /\ b = <<"read", m, 0>>
    <3>1. FactAt(c, "read", m, 0)'
      BY <1>3, <1>5, <2>1, <2>7, StopRdFact
    <3>2. QED
      BY <1>5, <2>7, <3>1
  <2>8. QED
    BY <2>2, <2>3, <2>4, <2>5, <2>6, <2>7
<1>11. CASE o[1] = "park"
  <2>1. ParkSck
    BY <1>11, OperationIs
  <2>2. at \in {"rest", "over", "armed", "quiet", "handing", "unframed"} /\ b = a
    BY <1>2, <1>11 DEF Step
  <2>3. CASE at = "handing"
    BY <1>3, <1>6, <2>1, <2>2, <2>3, ParkedFact
  <2>4. CASE at # "handing"
    BY <1>3, <1>6, <2>1, <2>2, <2>4, ParkFact
  <2>5. QED
    BY <2>3, <2>4
<1>12. CASE o[1] = "restart wr"
  <2>1. RestartWr
    BY <1>12, OperationIs
  <2>2. at = "quiet" /\ b = <<"clean", m, 0>>
    BY <1>2, <1>12 DEF Step
  <2>3. FactAt(c, "clean", m, 0)'
    BY <1>3, <1>5, <2>1, <2>2, RestartFact
  <2>4. QED
    BY <1>5, <2>2, <2>3
<1>13. CASE o[1] = "pindirs"
  <2>1. SetPindirs
    BY <1>13, OperationIs
  <2>2. \/ at = "clean" /\ b = <<"filling", m, 0>>
        \/ o[2] = "RX" /\ at = "handing" /\ b = <<"floating", m, 0>>
        \/ at = "over" /\ b = a
        \/ o[2] = "SPI" /\ at = "armed" /\ b = <<"spi ready", m, 0>>
    BY <1>2, <1>13 DEF Step
  <2>3. CASE at = "clean" /\ b = <<"filling", m, 0>>
    <3>1. FactAt(c, "filling", m, 0)'
      BY <1>3, <1>5, <2>1, <2>3, SetPindirsFact
    <3>2. QED
      BY <1>5, <2>3, <3>1
  <2>4. CASE o[2] = "RX" /\ at = "handing" /\ b = <<"floating", m, 0>>
    <3>1. FactAt(c, "floating", m, 0)'
      BY <1>3, <1>5, <2>1, <2>4, FloatFact
    <3>2. QED
      BY <1>5, <2>4, <3>1
  <2>5. CASE at = "over" /\ b = a
    <3>1. FactAt(c, at, m, i)'
      BY <1>3, <2>1, <2>5, SetPindirsFact
    <3>2. QED
      BY <1>6, <2>5, <3>1
  <2>6. CASE o[2] = "SPI" /\ at = "armed" /\ b = <<"spi ready", m, 0>>
    <3>1. FactAt(c, "spi ready", m, 0)'
      BY <1>3, <1>5, <2>1, <2>6, SetPindirsFact
    <3>2. QED
      BY <1>5, <2>6, <3>1
  <2>7. QED
    BY <2>2, <2>3, <2>4, <2>5, <2>6
<1>14. CASE o[1] = "put"
  <2>1. Put
    BY <1>14, OperationIs
  <2>2. at = "filling" /\ i < Len(Frame(c, m))
           /\ o[2] = pack_qpi_byte(Frame(c, m)[i + 1]) /\ b = <<"filling", m, i + 1>>
    BY <1>2, <1>14 DEF Step
  <2>3. FactAt(c, "filling", m, i + 1)'
    BY <1>3, <1>5, <2>1, <2>2, PutFact
  <2>4. QED
    BY <1>5, <2>2, <2>3
<1>15. CASE o[1] = "select"
  <2>1. Select
    BY <1>15, OperationIs
  <2>2. \/ o[2] = c.d /\ at = "filling" /\ i = Len(Frame(c, m)) /\ b = <<"selected", m, 0>>
        \/ o[2] \in Devices /\ at = "spi ready" /\ b = <<"spi selected", m, 0>>
    BY <1>2, <1>15 DEF Step
  <2>3. CASE o[2] = c.d /\ at = "filling" /\ i = Len(Frame(c, m)) /\ b = <<"selected", m, 0>>
    <3>1. FactAt(c, "selected", m, 0)'
      BY <1>3, <1>5, <2>1, <2>3, SelectFact
    <3>2. QED
      BY <1>5, <2>3, <3>1
  <2>4. CASE o[2] \in Devices /\ at = "spi ready" /\ b = <<"spi selected", m, 0>>
    <3>1. FactAt(c, "spi selected", m, 0)'
      BY <1>3, <1>5, <2>1, <2>4, SelectSpiFact
    <3>2. QED
      BY <1>5, <2>4, <3>1
  <2>5. QED
    BY <2>2, <2>3, <2>4
<1>16. CASE o[1] = "start"
  <2>1. Start
    BY <1>16, OperationIs
  <2>2. \/ o[2] = "wr" /\ at = "selected" /\ b = <<"sending", m, 0>>
        \/ o[2] = "rd" /\ at = "primed" /\ b = <<"reading", m, 0>>
        \/ o[2] = "spi" /\ at = "spi ready" /\ b = a
    BY <1>2, <1>16 DEF Step
  <2>3. CASE o[2] = "wr" /\ at = "selected" /\ b = <<"sending", m, 0>>
    <3>1. FactAt(c, "sending", m, 0)'
      BY <1>3, <1>5, <2>1, <2>3, StartWrFact
    <3>2. QED
      BY <1>5, <2>3, <3>1
  <2>4. CASE o[2] = "rd" /\ at = "primed" /\ b = <<"reading", m, 0>>
    <3>1. FactAt(c, "reading", m, 0)'
      BY <1>3, <1>5, <2>1, <2>4, StartRdFact
    <3>2. QED
      BY <1>5, <2>4, <3>1
  <2>5. CASE o[2] = "spi" /\ at = "spi ready" /\ b = a
    <3>1. FactAt(c, at, m, i)'
      BY <1>3, <2>1, <2>5, StartSpiFact
    <3>2. QED
      BY <1>6, <2>5, <3>1
  <2>6. QED
    BY <2>2, <2>3, <2>4, <2>5
<1>17. CASE o[1] = "drained"
  <2>1. Drained
    BY <1>17, OperationIs
  <2>2. at = "sending" /\ b = <<"sent", m, 0>>
    BY <1>2, <1>17 DEF Step
  <2>3. FactAt(c, "sent", m, 0)'
    BY <1>3, <1>5, <2>1, <2>2, DrainedFact
  <2>4. QED
    BY <1>5, <2>2, <2>3
<1>18. CASE o[1] = "deselect"
  <2>1. Deselect
    BY <1>18, OperationIs
  <2>2. \/ at = "sent" /\ b = <<"closing", After(c, m), 0>>
        \/ at = "read" /\ b = <<"unframed", m, 0>>
        \/ at = "spi selected" /\ b = <<"rest", m, 0>>
    BY <1>2, <1>18 DEF Step
  <2>3. CASE at = "sent" /\ b = <<"closing", After(c, m), 0>>
    <3>1. PICK k : k = After(c, m)
      OBVIOUS
    <3>2. At(c, "closing", k)
      BY <1>5, <2>3, <3>1
    <3>3. FactAt(c, "closing", k, 0)'
      BY <1>3, <2>1, <2>3, <3>1, <3>2, DeselectSentFact
    <3>4. QED
      BY <1>5, <2>3, <3>1, <3>3
  <2>4. CASE at = "read" /\ b = <<"unframed", m, 0>>
    <3>1. FactAt(c, "unframed", m, 0)'
      BY <1>3, <1>5, <2>1, <2>4, DeselectReadFact
    <3>2. QED
      BY <1>5, <2>4, <3>1
  <2>5. CASE at = "spi selected" /\ b = <<"rest", m, 0>>
    <3>1. FactAt(c, "rest", m, 0)'
      BY <1>3, <1>5, <2>1, <2>5, DeselectSpiFact
    <3>2. QED
      BY <1>5, <2>5, <3>1
  <2>6. QED
    BY <2>2, <2>3, <2>4, <2>5
<1>19. CASE o[1] = "prime rx"
  <2>1. PrimeRx
    BY <1>19, OperationIs
  <2>2. at = "floating" /\ b = <<"primed", m, 0>>
    BY <1>2, <1>19 DEF Step
  <2>3. FactAt(c, "primed", m, 0)'
    BY <1>3, <1>5, <2>1, <2>2, PrimeFact
  <2>4. QED
    BY <1>5, <2>2, <2>3
<1>20. CASE o[1] = "skip"
  <2>1. Get
    BY <1>20, OperationIs
  <2>2. at = "reading" /\ i < 3 /\ b = <<"reading", m, i + 1>>
    BY <1>2, <1>20 DEF Step
  <2>3. FactAt(c, "reading", m, i + 1)'
    BY <1>3, <1>5, <2>1, <2>2, <1>20, GetFact
  <2>4. QED
    BY <1>5, <2>2, <2>3
<1>21. CASE o[1] = "get"
  <2>1. Get
    BY <1>21, OperationIs
  <2>2. at = "reading" /\ 3 <= i /\ i < Piece(c, m) + 4 /\ b = <<"reading", m, i + 1>>
    BY <1>2, <1>21 DEF Step
  <2>3. FactAt(c, "reading", m, i + 1)'
    BY <1>3, <1>5, <2>1, <2>2, <1>21, GetFact
  <2>4. QED
    BY <1>5, <2>2, <2>3
<1>22. CASE o[1] = "realign"
  <2>1. Realign
    BY <1>22, OperationIs
  <2>2. o[2] = Piece(c, m) /\ at = "unframed" /\ b = <<"rest", m + Piece(c, m), 0>>
    BY <1>2, <1>22 DEF Step
  <2>3. PICK k : k = m + Piece(c, m)
    OBVIOUS
  <2>4. At(c, "rest", k)
    BY <1>5, <2>2, <2>3
  <2>5. FactAt(c, "rest", k, 0)'
    BY <1>3, <2>1, <2>2, <2>3, <2>4, RealignFact
  <2>6. QED
    BY <1>5, <2>2, <2>3, <2>5
<1>23. CASE o[1] = "spi"
  <2>1. ShiftSpi
    BY <1>23, OperationIs
  <2>2. at = "spi selected" /\ b = a
    BY <1>2, <1>23 DEF Step
  <2>3. FactAt(c, at, m, i)'
    BY <1>3, <2>1, <2>2, ShiftFact
  <2>4. QED
    BY <1>6, <2>2, <2>3
<1>24. QED
  <2>1. o[1] \in {"release", "fits", "arm", "stop", "park", "restart wr", "pindirs", "put",
                  "select", "start", "drained", "deselect", "prime rx", "skip", "get",
                  "realign", "spi"}
    BY DEF Step
  <2>2. QED
    BY <2>1, <1>7, <1>8, <1>9, <1>10, <1>11, <1>12, <1>13, <1>14, <1>15,
       <1>16, <1>17, <1>18, <1>19, <1>20, <1>21, <1>22, <1>23

-------------------------------------------------------------------------------
(***************************************************************************)
(* What a fact says of the contents and of the pads.                       *)
(***************************************************************************)
LEMMA TotalIs ==
  ASSUME NEW c, CallFact(c)
  PROVE  Total(c) \in Nat
BY DEF CallFact, Total

LEMMA StoredIsMemory ==
  ASSUME NEW c, NEW k, Known(c), k \in 0 .. Total(c)
  PROVE  Stored(c, k) \in [Devices -> [0 .. Top -> ByteValues]]
<1>1. \A d \in Devices : \A a \in 0 .. Top :
        (IF c.name = "write" /\ d = c.d /\ a \in c.addr .. c.addr + k - 1
         THEN c.data[a - c.addr + 1] ELSE before[d][a]) \in ByteValues
  <2> SUFFICES ASSUME NEW d \in Devices, NEW a \in 0 .. Top
               PROVE  (IF c.name = "write" /\ d = c.d /\ a \in c.addr .. c.addr + k - 1
                       THEN c.data[a - c.addr + 1] ELSE before[d][a]) \in ByteValues
    OBVIOUS
  <2>1. CASE c.name = "write" /\ d = c.d /\ a \in c.addr .. c.addr + k - 1
    <3>1. c.addr \in Nat /\ c.data \in Seq(ByteValues) /\ k \in Nat /\ k <= Len(c.data)
      BY <2>1 DEF Known, CallFact, Total
    <3>2. Top \in Nat
      BY SpanAssumption
    <3>3. a - c.addr + 1 \in 1 .. Len(c.data)
      BY <2>1, <3>1, <3>2
    <3>4. c.data[a - c.addr + 1] \in ByteValues
      BY <3>1, <3>3
    <3>5. QED
      BY <2>1, <3>4
  <2>2. CASE ~(c.name = "write" /\ d = c.d /\ a \in c.addr .. c.addr + k - 1)
    <3>1. before[d][a] \in ByteValues
      BY DEF Known
    <3>2. QED
      BY <2>2, <3>1
  <2>3. QED
    BY <2>1, <2>2
<1>2. QED
  BY <1>1 DEF Stored

\* Wherever a call is, the contents are those of a write cut off at some byte.
LEMMA MemoryIsStored ==
  ASSUME NEW c, NEW a, Known(c), Fact(c, a)
  PROVE  \E k \in 0 .. Total(c) : mem = Stored(c, k)
<1>1. PICK at, m, i : a = <<at, m, i>>
  BY DEF Fact
<1>2. FactAt(c, at, m, i)
  <2>1. a[1] = at /\ a[2] = m /\ a[3] = i
    BY <1>1
  <2>2. QED
    BY <2>1 DEF Fact
<1>3. At(c, at, m) /\ DeviceFact(c, at, m, i) /\ m \in 0 .. Total(c) /\ Total(c) \in Nat
  BY <1>2, TotalIs DEF FactAt, At, Known
<1>4. CASE at = "sent"
  <2>1. mem = Stored(c, After(c, m))
    BY <1>3, <1>4 DEF DeviceFact
  <2>2. After(c, m) \in 0 .. Total(c)
    <3>1. Pulse(c, m)
      BY <1>3, <1>4, PlacesArePulses
    <3>2. CASE c.name = "write"
      <4>1. /\ m + Piece(c, m) \in 1 .. Len(c.data) /\ Total(c) = Len(c.data)
        BY <3>1, <3>2, PieceBounds
      <4>2. After(c, m) = m + Piece(c, m)
        BY <3>2 DEF After
      <4>3. QED
        BY <1>3, <4>1, <4>2
    <3>3. CASE c.name # "write"
      BY <1>3, <3>3 DEF After
    <3>4. QED
      BY <3>2, <3>3
  <2>3. QED
    BY <2>1, <2>2
<1>5. CASE at = "sending"
  <2>1. Pulse(c, m)
    BY <1>3, <1>5, PlacesArePulses
  <2>2. PICK F : F = Frame(c, m)
    OBVIOUS
  <2>3. PICK u \in 0 .. Len(F) : mem = Stored(c, StoredBy(c, m, u))
    BY <1>3, <1>5, <2>2 DEF DeviceFact, Sending, SentSoFar
  <2>4. StoredBy(c, m, u) \in 0 .. Total(c)
    <3>1. CASE c.name = "write" /\ u > 4
      <4>1. /\ m + Piece(c, m) \in 1 .. Len(c.data) /\ Total(c) = Len(c.data)
            /\ Piece(c, m) \in 1 .. 4
        BY <2>1, <3>1, PieceBounds
      <4>2. Len(F) = 4 + Piece(c, m)
        BY <2>1, <2>2, <3>1, FrameIs
      <4>3. u \in Nat /\ u <= 4 + Piece(c, m)
        BY <2>3, <4>1, <4>2
      <4>4. StoredBy(c, m, u) = m + u - 4
        BY <3>1 DEF StoredBy
      <4>5. QED
        BY <1>3, <3>1, <4>1, <4>3, <4>4
    <3>2. CASE ~(c.name = "write" /\ u > 4)
      BY <1>3, <3>2 DEF StoredBy
    <3>3. QED
      BY <3>1, <3>2
  <2>5. QED
    BY <2>3, <2>4
<1>6. CASE at \notin {"sent", "sending"}
  BY <1>3, <1>6 DEF DeviceFact
<1>7. QED
  BY <1>4, <1>5, <1>6

LEMMA QuietDevice ==
  ASSUME NEW c, NEW at, NEW m, NEW i, Known(c), FactAt(c, at, m, i)
  PROVE  dev.drive # NONE => pindirs = "RX"
<1>1. At(c, at, m) /\ DeviceFact(c, at, m, i) /\ PadFact(at)
  BY DEF FactAt
<1>2. CASE at \in {"floating", "primed", "reading", "read"}
  BY <1>1, <1>2 DEF PadFact
<1>3. CASE at = "sending"
  BY <1>1, <1>3 DEF DeviceFact, Sending, SentSoFar, Whole, Half
<1>4. CASE at \in {"sent", "handing"}
  <2>1. PICK u : Whole(c, m, u)
    BY <1>1, <1>4 DEF DeviceFact
  <2>2. QED
    BY <2>1 DEF Whole
<1>5. CASE at = "selected"
  BY <1>1, <1>5, DeselectedIs DEF DeviceFact
<1>6. CASE at = "spi selected"
  BY <1>1, <1>6 DEF DeviceFact
<1>7. CASE at \notin Within \cup {"spi selected"}
  BY <1>1, <1>7, DeselectedIs DEF DeviceFact
<1>8. QED
  BY <1>2, <1>3, <1>4, <1>5, <1>6, <1>7 DEF Within

LEMMA OneMachine ==
  ASSUME NEW c, NEW at, NEW m, NEW i, FactAt(c, at, m, i)
  PROVE  active = {} \/ active = {"spi"} \/ active = {"wr"} \/ active = {"rd"}
<1>1. At(c, at, m) /\ MachineFact(c, at, m, i)
  BY DEF FactAt
<1>2. CASE at \in {"rest", "over", "armed", "spi ready", "spi selected"}
  <2>1. active \subseteq {"spi"}
    BY <1>1, <1>2 DEF MachineFact
  <2>2. QED
    BY <2>1
<1>3. CASE at \in {"sending", "sent", "closing"}
  BY <1>1, <1>3 DEF MachineFact
<1>4. CASE at = "reading"
  BY <1>1, <1>4 DEF MachineFact
<1>5. CASE at \in {"quiet", "clean", "filling", "selected", "handing", "floating", "primed",
                  "read", "unframed"}
  BY <1>1, <1>5 DEF MachineFact
<1>6. QED
  BY <1>1, <1>2, <1>3, <1>4, <1>5, PlacesAre

\* A step that leaves the wires, the machines and the PSRAMs alone.
LEMMA FactStays ==
  ASSUME NEW CONSTANT c, NEW CONSTANT a, Known(c), Fact(c, a), before' = before,
         UNCHANGED <<pads, armed, active, wr, rd, psrams, raw, got>>
  PROVE  Fact(c, a)'
<1>1. PICK at, m, i : at = a[1] /\ m = a[2] /\ i = a[3]
  OBVIOUS
<1>2. FactAt(c, at, m, i) /\ a = <<at, m, i>>
  BY <1>1 DEF Fact
<1>3. /\ sck' = sck /\ pindirs' = pindirs /\ cs' = cs /\ armed' = armed /\ active' = active
      /\ txf' = txf /\ osr' = osr /\ wpc' = wpc /\ rxf' = rxf /\ isr' = isr /\ rpc' = rpc
      /\ stalled' = stalled /\ late' = late /\ dev' = dev /\ mode' = mode /\ mem' = mem
      /\ raw' = raw /\ got' = got
  BY DEF pads, wr, rd, psrams
<1>4. i \in Nat /\ At(c, at, m)
  BY <1>2 DEF FactAt
<1>5. PadFact(at)'
  BY <1>2, <1>3 DEF FactAt, PadFact
<1>6. ModeFact(c, at)'
  BY <1>2, <1>3 DEF FactAt, ModeFact
<1>7. BytesFact(c, at, m, i)'
  BY <1>2, <1>3, BytesStay DEF FactAt
<1>8. MachineFact(c, at, m, i)'
  <2>1. PICK F : F = Frame(c, m)
    OBVIOUS
  <2>2. Frame(c, m)' = F
    BY <2>1 DEF Frame, Piece, Chunk
  <2>3. MachineFact(c, at, m, i)
    BY <1>2 DEF FactAt
  <2>4. at = "filling" => /\ i \in 0 .. Len(F)
                          /\ txf' = [j \in 1 .. i |-> pack_qpi_byte(F[j])]
    BY <1>3, <2>1, <2>3 DEF MachineFact
  <2>5. at = "selected" => txf' = Words(F, 0)
    BY <1>3, <2>1, <2>3 DEF MachineFact
  <2>6. /\ at \in {"rest", "over", "armed", "spi ready", "spi selected"} => active' \subseteq {"spi"}
        /\ at \in {"sending", "sent", "closing"} => active' = {"wr"}
        /\ at = "reading" => active' = {"rd"}
        /\ at \in {"quiet", "clean", "filling", "selected", "handing", "floating", "primed",
                  "read", "unframed"} => active' = {}
    BY <1>3, <2>3 DEF MachineFact
  <2>7. /\ at \in {"rest", "over"} => (armed' => txf' = <<>>)
        /\ at \notin {"rest", "over", "filling", "selected", "sending"} => txf' = <<>>
    <3>1. at \in {"rest", "over"} => (armed => txf = <<>>)
      BY <2>3 DEF MachineFact
    <3>2. at \notin {"rest", "over", "filling", "selected", "sending"} => txf = <<>>
      BY <2>3 DEF MachineFact
    <3>3. QED
      BY <1>3, <3>1, <3>2
  <2>8. /\ at \in {"clean", "filling", "selected", "sent", "closing"} => osr' = <<>> /\ wpc' = "out"
        /\ at = "primed" => rxf' = <<>> /\ isr' = <<>> /\ rpc' = "nop" /\ ~stalled'
    BY <1>3, <2>3 DEF MachineFact
  <2>9. QED
    BY <2>2, <2>4, <2>5, <2>6, <2>7, <2>8 DEF MachineFact
<1>9. DeviceFact(c, at, m, i)'
  <2>1. DeviceFact(c, at, m, i)
    BY <1>2 DEF FactAt
  <2>2. IsDevice(dev)'
    BY <1>3, <2>1 DEF DeviceFact, IsDevice
  <2>3. at = "sending" => Sending(c, m)'
    <3>1. \A k : Stored(c, k)' = Stored(c, k)
      BY DEF Stored
    <3>2. \A u : Whole(c, m, u)' = Whole(c, m, u) /\ Half(c, m, u)' = Half(c, m, u)
      BY <1>3 DEF Whole, Half, Frame, Piece, Chunk
    <3> SUFFICES ASSUME at = "sending"
                 PROVE  Sending(c, m)'
      OBVIOUS
    <3>3. PICK F : F = Frame(c, m)
      OBVIOUS
    <3>4. PICK u \in 0 .. Len(F) : SentSoFar(c, m, u)
      BY <2>1, <3>3 DEF DeviceFact, Sending
    <3>5. Frame(c, m)' = F
      BY <3>3 DEF Frame, Piece, Chunk
    <3>6. PICK k : k = StoredBy(c, m, u)
      OBVIOUS
    <3>7. StoredBy(c, m, u)' = k
      BY <3>6 DEF StoredBy
    <3>8. mem' = Stored(c, k)'
      BY <1>3, <3>1, <3>4, <3>6 DEF SentSoFar
    <3>9. mem' = Stored(c, StoredBy(c, m, u))'
      BY <3>7, <3>8 DEF Stored
    <3>10. SentSoFar(c, m, u)'
      <4>1. CASE osr = <<>> /\ wpc = "out" /\ txf = Words(F, u) /\ Whole(c, m, u)
        BY <1>3, <3>2, <3>5, <3>9, <4>1 DEF SentSoFar
      <4>2. CASE /\ u < Len(F) /\ osr = pack_qpi_byte(F[u + 1]) /\ wpc = "nop" /\ sck = 0
                 /\ txf = Words(F, u + 1) /\ Whole(c, m, u)
        BY <1>3, <3>2, <3>5, <3>9, <4>2 DEF SentSoFar
      <4>3. CASE /\ u < Len(F) /\ osr = <<expand(F[u + 1] % 16)>> /\ (wpc = "nop" => sck = 0)
                 /\ wpc \in {"out", "nop"} /\ txf = Words(F, u + 1) /\ Half(c, m, u)
        BY <1>3, <3>2, <3>5, <3>9, <4>3 DEF SentSoFar
      <4>4. QED
        BY <3>3, <3>4, <4>1, <4>2, <4>3 DEF SentSoFar
    <3>11. QED
      BY <3>4, <3>5, <3>10 DEF Sending
  <2>4. at = "reading" => Reading(c, m, i)'
    <3>1. \A r, e : Answering(c, m, r, e)' = Answering(c, m, r, e)
      BY <1>3 DEF Answering, NibbleOf, ByteOf
    <3>2. \A s : Pipeline(c, m, s)' = Pipeline(c, m, s)
      BY <1>3, <3>1 DEF Pipeline, NibbleOf, ByteOf
    <3>3. Samples(i)' = Samples(i)
      BY <1>3 DEF Samples
    <3>4. \A j : SymbolOf(c, m, j)' = SymbolOf(c, m, j)
      BY DEF SymbolOf, SampleOf, NibbleOf, ByteOf
    <3>5. Reading(c, m, i)' = Reading(c, m, i)
      BY <1>3, <3>2, <3>3, <3>4 DEF Reading
    <3>6. QED
      BY <2>1, <3>5 DEF DeviceFact
  <2>5. Stored(c, IF at = "sent" THEN After(c, m) ELSE m)'
          = Stored(c, IF at = "sent" THEN After(c, m) ELSE m)
    BY DEF Stored, After, Piece, Chunk
  <2>6. Whole(c, m, Len(Frame(c, m)))' = Whole(c, m, Len(Frame(c, m)))
    BY <1>3 DEF Whole, Frame, Piece, Chunk
  <2>7. QED
    BY <1>3, <2>1, <2>2, <2>3, <2>4, <2>5, <2>6 DEF DeviceFact
<1>10. QED
  BY <1>1, <1>2, <1>4, <1>5, <1>6, <1>7, <1>8, <1>9 DEF Fact, FactAt

-------------------------------------------------------------------------------
(***************************************************************************)
(* The beginning of a call.                                                *)
(***************************************************************************)
\* Between two calls.
Resting ==
  /\ cs = NOBODY /\ dev = Deselected /\ active \subseteq {"spi"} /\ (armed => txf = <<>>)
  /\ mode \in [Devices -> {"SPI", "QPI"}]
  /\ mem \in [Devices -> [0 .. Top -> ByteValues]]

LEMMA FinishedIsResting ==
  ASSUME NEW c, Known(c), Fact(c, Finish(c))
  PROVE  Resting /\ mem = Stored(c, Total(c)) /\ (c.name = "read" => got = Got(c, Total(c)))
<1>1. PICK at, m : Finish(c) = <<at, m, 0>> /\ at \in {"rest", "over"} /\ m = Total(c)
  BY DEF Finish
<1>2. FactAt(c, at, m, 0)
  <2>1. Finish(c)[1] = at /\ Finish(c)[2] = m /\ Finish(c)[3] = 0
    BY <1>1
  <2>2. QED
    BY <2>1 DEF Fact
<1>3. cs = NOBODY /\ dev = Deselected /\ mem = Stored(c, m)
  <2>1. Outside(at)
    BY <1>1, OutsideIs DEF OutsidePlaces
  <2>2. QED
    BY <1>2, <2>1, OutsideFact DEF FactAt
<1>4. active \subseteq {"spi"} /\ (armed => txf = <<>>)
  BY <1>1, <1>2 DEF FactAt, MachineFact
<1>5. mode \in [Devices -> {"SPI", "QPI"}]
  BY <1>2 DEF FactAt, ModeFact
<1>6. mem \in [Devices -> [0 .. Top -> ByteValues]]
  <2>1. m \in 0 .. Total(c)
    BY <1>1, TotalIs DEF Known
  <2>2. QED
    BY <1>3, <2>1, StoredIsMemory
<1>7. c.name = "read" => got = Got(c, m)
  BY <1>2 DEF FactAt, BytesFact
<1>8. QED
  BY <1>1, <1>3, <1>4, <1>5, <1>6, <1>7 DEF Resting

LEMMA ReleasedIsResting ==
  ASSUME CallFact(call), before \in [Devices -> [0 .. Top -> ByteValues]], Released
  PROVE  Resting
<1>1. PICK k \in 0 .. Total(call) : mem = Stored(call, k)
  BY DEF Released
<1>2. mem \in [Devices -> [0 .. Top -> ByteValues]]
  BY <1>1, StoredIsMemory DEF Known
<1>3. QED
  BY <1>2 DEF Released, Resting

\* What a program of a new call starts from.
LEMMA BeginsAtRest ==
  ASSUME NEW CONSTANT c, CallFact(c), Resting, before' = mem, raw' = <<>>, got' = <<>>,
         UNCHANGED <<pads, armed, active, wr, rd, psrams>>,
         c.name \in {"write", "read", "exit"} => mode[c.d] = "QPI"
  PROVE  Fact(c, <<"rest", 0, 0>>)'
<1>1. Total(c) \in Nat
  BY TotalIs
<1>2. /\ cs' = cs /\ dev' = dev /\ active' = active /\ armed' = armed /\ txf' = txf
      /\ mode' = mode /\ mem' = mem
  BY DEF pads, psrams, wr
<1>3. At(c, "rest", 0)
  BY <1>1 DEF At, Places
<1>4. mem' = Stored(c, 0)'
  <2>1. mem = [d \in Devices |-> [a \in 0 .. Top |-> mem[d][a]]]
    <3>1. \A d \in Devices : mem[d] = [a \in 0 .. Top |-> mem[d][a]]
      BY DEF Resting
    <3>2. mem = [d \in Devices |-> mem[d]]
      BY DEF Resting
    <3>3. QED
      BY <3>1, <3>2
  <2>2. \A a \in 0 .. Top : c.name = "write" => a \notin c.addr .. c.addr + 0 - 1
    <3>1. c.name = "write" => c.addr \in Nat
      BY DEF CallFact
    <3>2. Top \in Nat
      BY SpanAssumption
    <3>3. QED
      BY <3>1, <3>2
  <2>3. Stored(c, 0)' = [d \in Devices |-> [a \in 0 .. Top |-> mem[d][a]]]
    BY <2>2 DEF Stored
  <2>4. QED
    BY <1>2, <2>1, <2>3
<1>5. DeviceFact(c, "rest", 0, 0)'
  <2>1. IsDevice(dev)' /\ cs' = NOBODY /\ dev' = Deselected
    BY <1>2, DeselectedIs DEF Resting, IsDevice
  <2>2. QED
    BY <1>4, <2>1 DEF DeviceFact, Within
<1>6. PadFact("rest")' /\ MachineFact(c, "rest", 0, 0)'
  <2>1. active' \subseteq {"spi"} /\ (armed' => txf' = <<>>)
    BY <1>2 DEF Resting
  <2>2. QED
    BY <2>1 DEF PadFact, MachineFact
<1>7. ModeFact(c, "rest")'
  BY <1>2 DEF ModeFact, Resting
<1>8. BytesFact(c, "rest", 0, 0)'
  <2>1. Got(c, 0)' = <<>>
    BY DEF Got
  <2>2. QED
    BY <2>1 DEF BytesFact
<1>9. FactAt(c, "rest", 0, 0)'
  BY <1>3, <1>5, <1>6, <1>7, <1>8 DEF FactAt
<1>10. QED
  BY <1>9 DEF Fact

LEMMA SpanIsCall ==
  ASSUME NEW r \in Requests, NEW data, data = [i \in 1 .. r[3] |-> Written(r[2] + i - 1)],
         NEW name \in {"write", "read"}, NEW c,
         c = [name |-> name, d |-> r[1], addr |-> r[2], data |-> data]
  PROVE  CallFact(c) /\ Len(c.data) = r[3]
<1>1. r[1] \in Devices /\ r[2] \in Nat /\ r[3] \in Nat /\ r[2] + r[3] <= Top + 1
  BY SpanAssumption
<1>2. \A i \in 1 .. r[3] : Written(r[2] + i - 1) \in ByteValues
  <2> SUFFICES ASSUME NEW i \in 1 .. r[3]
               PROVE  Written(r[2] + i - 1) \in ByteValues
    OBVIOUS
  <2>1. PICK x \in Nat : x = 59 * (r[2] + i - 1 + 1) + 101
    BY <1>1
  <2>2. Written(r[2] + i - 1) = x % 256
    BY <2>1 DEF Written
  <2>3. x % 256 \in Nat /\ x % 256 <= 255
    BY <2>1
  <2>4. QED
    BY <2>2, <2>3, ByteRange
<1>3. data \in [1 .. r[3] -> ByteValues]
  BY <1>2
<1>4. data \in Seq(ByteValues) /\ Len(data) = r[3]
  BY <1>1, <1>3, ListOf
<1>5. c.name = name /\ c.d = r[1] /\ c.addr = r[2] /\ c.data = data
  OBVIOUS
<1>6. QED
  BY <1>1, <1>4, <1>5 DEF CallFact

\* Every call of Call has a program that leads through the outline.
LEMMA CallsFollow ==
  ASSUME Call
  PROVE  \E c, s : /\ Begin(c, s) /\ CallFact(c)
                   /\ c.name \in {"write", "read", "enter", "exit"}
                   /\ c.name \in {"write", "read", "exit"} => mode[c.d] = "QPI"
                   /\ Leads(c, <<"rest", 0, 0>>, s, Finish(c))
<1>1. CASE \E r \in Requests : LET d == r[1] a == r[2] n == r[3] IN
             /\ mode[d] = "QPI"
             /\ LET data == [i \in 1..n |-> Written(a + i - 1)] IN
                \/ Begin([name |-> "write", d |-> d, addr |-> a, data |-> data],
                         write(d, a, data))
                \/ Begin([name |-> "read", d |-> d, addr |-> a, data |-> data], read(d, a, n))
  <2>1. PICK r \in Requests : LET d == r[1] a == r[2] n == r[3] IN
             /\ mode[d] = "QPI"
             /\ LET data == [i \in 1..n |-> Written(a + i - 1)] IN
                \/ Begin([name |-> "write", d |-> d, addr |-> a, data |-> data],
                         write(d, a, data))
                \/ Begin([name |-> "read", d |-> d, addr |-> a, data |-> data], read(d, a, n))
    BY <1>1
  <2>2. PICK data : data = [i \in 1 .. r[3] |-> Written(r[2] + i - 1)]
    OBVIOUS
  <2>3. PICK c, s : /\ c.name \in {"write", "read"}
                    /\ c = [name |-> c.name, d |-> r[1], addr |-> r[2], data |-> data]
                    /\ s = IF c.name = "write" THEN write(r[1], r[2], data)
                                               ELSE read(r[1], r[2], r[3])
                    /\ Begin(c, s) /\ mode[r[1]] = "QPI"
    <3>1. CASE Begin([name |-> "write", d |-> r[1], addr |-> r[2], data |-> data],
                     write(r[1], r[2], data))
      BY <2>1, <3>1
    <3>2. CASE Begin([name |-> "read", d |-> r[1], addr |-> r[2], data |-> data],
                     read(r[1], r[2], r[3]))
      BY <2>1, <3>2
    <3>3. QED
      BY <2>1, <2>2, <3>1, <3>2
  <2>4. CallFact(c) /\ Len(c.data) = r[3]
    BY <2>2, <2>3, SpanIsCall
  <2>5. c.d = r[1] /\ c.addr = r[2] /\ c.data = data
    BY <2>3
  <2>6. Finish(c) = <<"rest", Total(c), 0>>
    BY <2>3 DEF Finish
  <2>7. Leads(c, <<"rest", 0, 0>>, s, Finish(c))
    <3>1. CASE c.name = "write"
      BY <2>3, <2>4, <2>5, <2>6, <3>1, WriteFollows
    <3>2. CASE c.name = "read"
      BY <2>3, <2>4, <2>5, <2>6, <3>2, ReadFollows
    <3>3. QED
      BY <2>3, <3>1, <3>2
  <2>8. QED
    BY <2>3, <2>4, <2>5, <2>7
<1>2. CASE \E d \in Devices : mode[d] = "SPI"
                /\ Begin([name |-> "enter", d |-> d], spi_reset(d) \o enter_qpi(d))
  <2>1. PICK d \in Devices : Begin([name |-> "enter", d |-> d], spi_reset(d) \o enter_qpi(d))
    BY <1>2
  <2>2. PICK c : c = [name |-> "enter", d |-> d]
    OBVIOUS
  <2>3. c.name = "enter" /\ c.d = d
    BY <2>2
  <2>4. CallFact(c)
    BY <2>3 DEF CallFact
  <2>5. Leads(c, <<"rest", 0, 0>>, spi_reset(d) \o enter_qpi(d), Finish(c))
    BY <2>3, EnterFollows
  <2>6. QED
    BY <2>1, <2>2, <2>3, <2>4, <2>5
<1>3. CASE \E d \in Devices : mode[d] = "QPI" /\ Begin([name |-> "exit", d |-> d], exit_qpi(d))
  <2>1. PICK d \in Devices : mode[d] = "QPI" /\ Begin([name |-> "exit", d |-> d], exit_qpi(d))
    BY <1>3
  <2>2. PICK c : c = [name |-> "exit", d |-> d]
    OBVIOUS
  <2>3. c.name = "exit" /\ c.d = d
    BY <2>2
  <2>4. CallFact(c)
    BY <2>3 DEF CallFact
  <2>5. Leads(c, <<"rest", 0, 0>>, exit_qpi(d), Finish(c))
    BY <2>3, <2>4, ExitFollows
  <2>6. QED
    BY <2>1, <2>2, <2>3, <2>4, <2>5
<1>4. QED
  BY <1>1, <1>2, <1>3 DEF Call

-------------------------------------------------------------------------------
(***************************************************************************)
(* The invariant is inductive.                                             *)
(***************************************************************************)
LEMMA InitIsInductive ==
  ASSUME Init
  PROVE  IInv
<1>1. CallFact(call) /\ call.name = "none"
  BY DEF Init, CallFact
<1>2. mem \in [Devices -> [0 .. Top -> ByteValues]]
  <2>1. \A a \in 0 .. Top : Fresh(a) \in ByteValues
    <3> SUFFICES ASSUME NEW a \in 0 .. Top
                 PROVE  Fresh(a) \in ByteValues
      OBVIOUS
    <3>1. a \in Nat
      BY SpanAssumption
    <3>2. PICK x \in Nat : x = 59 * (a + 1)
      BY <3>1
    <3>3. x % 256 \in Nat /\ x % 256 <= 255
      BY <3>2
    <3>4. QED
      BY <3>2, <3>3, ByteRange DEF Fresh
  <2>2. QED
    BY <2>1 DEF Init
<1>3. before = mem
  BY DEF Init
<1>4. Total(call) = 0 /\ Finish(call) = <<"rest", 0, 0>>
  BY <1>1 DEF Total, Finish
<1>5. Stored(call, 0) = mem
  BY <1>1, <1>2, <1>3, ReadStoresNothing DEF Known
<1>6. FactAt(call, "rest", 0, 0)
  <2>1. At(call, "rest", 0)
    BY <1>1, <1>4 DEF At, Places
  <2>2. DeviceFact(call, "rest", 0, 0)
    <3>1. IsDevice(dev) /\ cs = NOBODY /\ dev = Deselected
      BY DeselectedIs DEF Init
    <3>2. QED
      BY <1>5, <3>1 DEF DeviceFact, Within
  <2>3. PadFact("rest")
    BY DEF PadFact
  <2>4. MachineFact(call, "rest", 0, 0)
    <3>1. active = {} /\ txf = <<>>
      BY DEF Init
    <3>2. QED
      BY <3>1 DEF MachineFact
  <2>5. ModeFact(call, "rest") /\ BytesFact(call, "rest", 0, 0)
    BY <1>1 DEF Init, ModeFact, BytesFact
  <2>6. QED
    BY <2>1, <2>2, <2>3, <2>4, <2>5 DEF FactAt
<1>7. Fact(call, <<"rest", 0, 0>>)
  BY <1>6 DEF Fact
<1>8. todo = <<>> /\ ~failed
  BY DEF Init
<1>9. Leads(call, <<"rest", 0, 0>>, todo, Finish(call))
  BY <1>4, <1>8, LeadsNowhere
<1>10. QED
  BY <1>1, <1>2, <1>3, <1>7, <1>8, <1>9 DEF IInv

\* What is known of a call in progress, whether or not it was cut off.
LEMMA SomeFact ==
  ASSUME IInv, todo # <<>>
  PROVE  \E a : Fact(call, a)
BY DEF IInv

LEMMA OperationsGoOn ==
  ASSUME Python, op[1] = "fits" => op[2] <= op[3]
  PROVE  todo # <<>> /\ todo' = Tail(todo) /\ failed' = failed
<1>1. CASE Arm \/ Stop \/ Start \/ ParkSck \/ SetPindirs
  BY <1>1 DEF Arm, Stop, Start, ParkSck, SetPindirs, Done, Operation
<1>2. CASE RestartWr \/ PrimeRx \/ Put \/ Get \/ Realign
  BY <1>2 DEF RestartWr, PrimeRx, Put, Get, Realign, Done, Operation
<1>3. CASE Drained \/ Select \/ Deselect \/ ShiftSpi \/ Release
  BY <1>3 DEF Drained, Select, Deselect, ShiftSpi, Release, Done, Operation
<1>4. CASE Fits
  BY <1>4 DEF Fits, Done, Operation
<1>5. QED
  BY <1>1, <1>2, <1>3, <1>4 DEF Python

LEMMA ReleaseIsReleased ==
  ASSUME NEW CONSTANT c, NEW CONSTANT a, c = call, Known(c), Fact(c, a), Release,
         call' = call, before' = before
  PROVE  Released'
<1>1. PICK k \in 0 .. Total(c) : mem = Stored(c, k)
  BY MemoryIsStored
<1>2. mem' = Stored(c, k)'
  <2>1. Stored(c, k)' = Stored(c, k)
    BY Stays
  <2>2. QED
    BY <1>1, <2>1 DEF Release
<1>3. \E j \in 0 .. Total(call)' : mem' = Stored(call, j)'
  BY <1>1, <1>2 DEF Total, Stored
<1>4. mode' \in [Devices -> {"SPI", "QPI"}]
  <2>1. mode \in [Devices -> {"SPI", "QPI"}]
    BY DEF Fact, FactAt, ModeFact
  <2>2. QED
    BY <2>1 DEF Release, EndFrame, Selected
<1>5. cs' = NOBODY /\ dev' = Deselected /\ active' = {} /\ ~armed'
  BY DEF Release, EndFrame
<1>6. QED
  BY <1>3, <1>4, <1>5 DEF Released

LEMMA BeginIsInductive ==
  ASSUME IInv, Call
  PROVE  IInv'
<1>1. PICK c, s : /\ Begin(c, s) /\ CallFact(c)
                  /\ c.name \in {"write", "read", "enter", "exit"}
                  /\ c.name \in {"write", "read", "exit"} => mode[c.d] = "QPI"
                  /\ Leads(c, <<"rest", 0, 0>>, s, Finish(c))
  BY CallsFollow
<1>2. /\ todo = <<>> /\ call' = c /\ before' = mem /\ raw' = <<>> /\ got' = <<>> /\ ~failed'
      /\ UNCHANGED <<pads, armed, active, wr, rd, psrams>>
      /\ todo' = s \/ todo' = << <<"release">> >> \o s
  BY <1>1 DEF Begin
<1>3. Resting
  <2>1. CASE failed
    BY <1>2, <2>1, ReleasedIsResting DEF IInv
  <2>2. CASE ~failed
    <3>1. PICK a : Fact(call, a) /\ Leads(call, a, todo, Finish(call))
      BY <2>2 DEF IInv
    <3>2. a = Finish(call)
      BY <1>2, <3>1, LeadsNowhere
    <3>3. Known(call)
      BY DEF IInv, Known
    <3>4. QED
      BY <3>1, <3>2, <3>3, FinishedIsResting
  <2>3. QED
    BY <2>1, <2>2
<1>4. Fact(c, <<"rest", 0, 0>>)'
  BY <1>1, <1>2, <1>3, BeginsAtRest
<1>5. Leads(c, <<"rest", 0, 0>>, todo', Finish(c))
  <2>1. Leads(c, <<"rest", 0, 0>>, << <<"release">> >> \o s, Finish(c))
    BY <1>1, ReleaseFollows
  <2>2. QED
    BY <1>1, <1>2, <2>1
<1>6. before' \in [Devices -> [0 .. Top -> ByteValues]]
  BY <1>2, <1>3 DEF Resting
<1>7. PICK z : z = <<"rest", 0, 0>>
  OBVIOUS
<1>8. Fact(c, z)' /\ Leads(c, z, todo', Finish(c))
  BY <1>4, <1>5, <1>7
<1>9. Fact(call, z)' /\ Leads(call', z, todo', Finish(call'))
  BY <1>2, <1>8
<1>10. CallFact(call')
  BY <1>1, <1>2
<1>11. QED
  BY <1>2, <1>6, <1>9, <1>10 DEF IInv

LEMMA InterruptIsInductive ==
  ASSUME IInv, Interrupt
  PROVE  IInv'
<1>1. /\ todo # <<>> /\ todo' = << <<"release">> >> /\ failed' = TRUE /\ call' = call
      /\ before' = before /\ UNCHANGED <<pads, armed, active, wr, rd, psrams, raw, got>>
  BY DEF Interrupt
<1>2. PICK c : c = call
  OBVIOUS
<1>3. PICK a : Fact(c, a)
  BY <1>1, <1>2, SomeFact
<1>4. Known(c)
  BY <1>2 DEF IInv, Known
<1>5. Fact(c, a)'
  BY <1>1, <1>3, <1>4, FactStays
<1>6. Fact(call, a)'
  BY <1>1, <1>2, <1>5
<1>7. todo' # <<>>
  BY <1>1
<1>8. CallFact(call)' /\ before' \in [Devices -> [0 .. Top -> ByteValues]]
  BY <1>1, <1>2, <1>4 DEF Known
<1>9. QED
  BY <1>1, <1>6, <1>7, <1>8 DEF IInv

LEMMA PythonIsInductive ==
  ASSUME IInv, Python, call' = call, before' = before
  PROVE  IInv'
<1>1. PICK c : c = call
  OBVIOUS
<1>2. Known(c) /\ CallFact(call)' /\ before' \in [Devices -> [0 .. Top -> ByteValues]]
  BY <1>1 DEF IInv, Known
<1>3. todo # <<>>
  <2>1. CASE Fits
    BY <2>1 DEF Fits, Operation
  <2>2. CASE ~Fits
    BY <2>2 DEF Python, Arm, Stop, Start, ParkSck, SetPindirs, RestartWr, PrimeRx, Put, Get,
                Realign, Drained, Select, Deselect, ShiftSpi, Release, Operation
  <2>3. QED
    BY <2>1, <2>2
<1>4. CASE failed
  <2>1. todo = << <<"release">> >>
    BY <1>3, <1>4 DEF IInv
  <2>2. PICK a : Fact(c, a)
    BY <1>1, <1>3, SomeFact
  <2>3. op[1] = "release"
    BY <2>1 DEF op
  <2>4. Release
    BY <2>3, OperationIs
  <2>5. todo' = <<>> /\ failed' = failed
    <3>1. todo' = Tail(todo) /\ failed' = failed
      BY <2>4 DEF Release, Done
    <3>2. QED
      BY <2>1, <3>1
  <2>6. Released'
    BY <1>1, <1>2, <2>2, <2>4, ReleaseIsReleased
  <2>7. QED
    BY <1>2, <1>4, <2>5, <2>6 DEF IInv
<1>5. CASE ~failed
  <2>1. PICK a : Fact(c, a) /\ Leads(c, a, todo, Finish(c))
    BY <1>1, <1>5 DEF IInv
  <2>2. PICK o : o = op
    OBVIOUS
  <2>3. PICK b : Step(c, a, o, b) /\ Leads(c, b, Tail(todo), Finish(c))
    BY <1>3, <2>1, <2>2, LeadsOn DEF op
  <2>4. op[1] = "fits" => op[2] <= op[3]
    BY <2>2, <2>3 DEF Step
  <2>5. todo' = Tail(todo) /\ failed' = failed
    BY <2>4, OperationsGoOn
  <2>6. Fact(c, b)'
    BY <1>2, <2>1, <2>2, <2>3, OperationKeepsFact
  <2>7. Fact(call, b)'
    BY <1>1, <2>6
  <2>8. Leads(call', b, todo', Finish(call'))
    BY <1>1, <2>3, <2>5
  <2>9. QED
    BY <1>2, <1>5, <2>5, <2>7, <2>8 DEF IInv
<1>6. QED
  BY <1>4, <1>5

LEMMA PioIsInductive ==
  ASSUME IInv, Pio, call' = call, before' = before
  PROVE  IInv'
<1>1. PICK c : c = call
  OBVIOUS
<1>2. Known(c) /\ CallFact(call)' /\ before' \in [Devices -> [0 .. Top -> ByteValues]]
  BY <1>1 DEF IInv, Known
<1>3. todo' = todo /\ failed' = failed
  BY DEF Pio, WrOut, WrNop, RdNop, RdIn, python
<1>4. active # {}
  BY DEF Pio, WrOut, WrNop, RdNop, RdIn
<1>5. \A a : Fact(c, a) => Fact(call, a)'
  <2> SUFFICES ASSUME NEW CONSTANT a, Fact(c, a)
               PROVE  Fact(call, a)'
    OBVIOUS
  <2>1. PICK at, m, i : at = a[1] /\ m = a[2] /\ i = a[3]
    OBVIOUS
  <2>2. FactAt(c, at, m, i) /\ a = <<at, m, i>>
    BY <2>1 DEF Fact
  <2>3. FactAt(c, at, m, i)'
    BY <1>2, <2>2, PioKeepsFact
  <2>4. Fact(c, a)'
    BY <2>1, <2>2, <2>3 DEF Fact
  <2>5. QED
    BY <1>1, <2>4
<1>6. CASE failed
  <2>1. todo # <<>>
    BY <1>4, <1>6 DEF IInv, Released
  <2>2. todo = << <<"release">> >> /\ \E a : Fact(c, a)
    BY <1>1, <1>6, <2>1 DEF IInv
  <2>3. QED
    BY <1>2, <1>3, <1>5, <1>6, <2>1, <2>2 DEF IInv
<1>7. CASE ~failed
  <2>1. PICK a : Fact(c, a) /\ Leads(c, a, todo, Finish(c))
    BY <1>1, <1>7 DEF IInv
  <2>2. Fact(call, a)'
    BY <1>5, <2>1
  <2>3. Leads(call', a, todo', Finish(call'))
    BY <1>1, <1>3, <2>1
  <2>4. QED
    BY <1>2, <1>3, <1>7, <2>2, <2>3 DEF IInv
<1>8. QED
  BY <1>6, <1>7

LEMMA StutterIsInductive ==
  ASSUME IInv, UNCHANGED vars
  PROVE  IInv'
<1>1. /\ todo' = todo /\ failed' = failed /\ call' = call /\ before' = before
      /\ UNCHANGED <<pads, armed, active, wr, rd, psrams, raw, got>>
      /\ cs' = cs /\ dev' = dev /\ active' = active /\ armed' = armed /\ mode' = mode /\ mem' = mem
  BY DEF vars, python, pads, psrams
<1>2. PICK c : c = call
  OBVIOUS
<1>3. Known(c) /\ CallFact(call)' /\ before' \in [Devices -> [0 .. Top -> ByteValues]]
  BY <1>1, <1>2 DEF IInv, Known
<1>4. \A a : Fact(c, a) => Fact(call, a)'
  <2> SUFFICES ASSUME NEW CONSTANT a, Fact(c, a)
               PROVE  Fact(call, a)'
    OBVIOUS
  <2>1. Fact(c, a)'
    BY <1>1, <1>3, FactStays
  <2>2. QED
    BY <1>1, <1>2, <2>1
<1>5. CASE failed /\ todo # <<>>
  <2>1. todo = << <<"release">> >> /\ \E a : Fact(c, a)
    BY <1>2, <1>5 DEF IInv
  <2>2. QED
    BY <1>1, <1>3, <1>4, <1>5, <2>1 DEF IInv
<1>6. CASE failed /\ todo = <<>>
  <2>1. Released'
    <3>1. Released
      BY <1>6 DEF IInv
    <3>2. QED
      BY <1>1, <3>1 DEF Released, Stored, Total
  <2>2. QED
    BY <1>1, <1>3, <1>6, <2>1 DEF IInv
<1>7. CASE ~failed
  <2>1. PICK a : Fact(c, a) /\ Leads(c, a, todo, Finish(c))
    BY <1>2, <1>7 DEF IInv
  <2>2. Fact(call, a)' /\ Leads(call', a, todo', Finish(call'))
    BY <1>1, <1>2, <1>4, <2>1
  <2>3. QED
    BY <1>1, <1>3, <1>7, <2>2 DEF IInv
<1>8. QED
  BY <1>5, <1>6, <1>7

LEMMA IsInductive ==
  ASSUME IInv, [Next]_vars
  PROVE  IInv'
<1>1. CASE Call
  BY <1>1, BeginIsInductive
<1>2. CASE Interrupt
  BY <1>2, InterruptIsInductive
<1>3. CASE Work
  <2>1. (Python \/ Pio) /\ call' = call /\ before' = before
    BY <1>3 DEF Work
  <2>2. QED
    BY <2>1, PythonIsInductive, PioIsInductive
<1>4. CASE UNCHANGED vars
  BY <1>4, StutterIsInductive
<1>5. QED
  BY <1>1, <1>2, <1>3, <1>4 DEF Next

-------------------------------------------------------------------------------
(***************************************************************************)
(* The theorems.                                                           *)
(***************************************************************************)
LEMMA Invariance == Spec => []IInv
<1>1. Init => IInv
  BY InitIsInductive
<1>2. IInv /\ [Next]_vars => IInv'
  BY IsInductive
<1>3. QED
  BY <1>1, <1>2, PTL DEF Spec

LEMMA MemoryOfCall ==
  ASSUME IInv
  PROVE  /\ Known(call)
         /\ \E k \in 0 .. Total(call) : mem = Stored(call, k)
         /\ returned => mem = Stored(call, Total(call))
                        /\ (call.name = "read" => got = Got(call, Total(call)))
<1>1. Known(call)
  BY DEF IInv, Known
<1>2. \E k \in 0 .. Total(call) : mem = Stored(call, k)
  <2>1. CASE failed /\ todo = <<>>
    BY <2>1 DEF IInv, Released
  <2>2. CASE ~(failed /\ todo = <<>>)
    <3>1. PICK a : Fact(call, a)
      BY <2>2 DEF IInv
    <3>2. QED
      BY <1>1, <3>1, MemoryIsStored
  <2>3. QED
    BY <2>1, <2>2
<1>3. returned => mem = Stored(call, Total(call))
                  /\ (call.name = "read" => got = Got(call, Total(call)))
  <2> SUFFICES ASSUME returned
               PROVE  mem = Stored(call, Total(call))
                      /\ (call.name = "read" => got = Got(call, Total(call)))
    OBVIOUS
  <2>1. todo = <<>> /\ ~failed
    BY DEF returned
  <2>2. PICK a : Fact(call, a) /\ Leads(call, a, todo, Finish(call))
    BY <2>1 DEF IInv
  <2>3. a = Finish(call)
    BY <2>1, <2>2, LeadsNowhere
  <2>4. QED
    BY <1>1, <2>2, <2>3, FinishedIsResting
<1>4. QED
  BY <1>1, <1>2, <1>3

\* Whatever spans the caller writes, however the planner cuts them into CE# pulses, and
\* wherever a ctrl-C cuts a pulse off: a write changes no byte but its own, and all of
\* them once Psram.write has returned.
THEOREM WritesAreExact == Spec => []WriteExact
<1>1. ASSUME IInv
      PROVE  WriteExact
  <2> SUFFICES ASSUME call.name = "write", NEW d \in Devices, NEW a \in 0 .. Top,
                      NEW new, new = IF d = call.d /\ a \in Span
                                     THEN call.data[a - call.addr + 1] ELSE before[d][a]
               PROVE  mem[d][a] \in (IF returned THEN {new} ELSE {new, before[d][a]})
    BY DEF WriteExact
  <2>1. Known(call)
    BY <1>1, MemoryOfCall
  <2>2. /\ call.addr \in Nat /\ Len(call.data) \in Nat /\ Total(call) = Len(call.data)
    BY <2>1 DEF Known, CallFact, Total
  <2>3. a \in Int
    BY SpanAssumption
  <2>4. \A k : mem = Stored(call, k) =>
          mem[d][a] = IF d = call.d /\ a \in call.addr .. call.addr + k - 1
                      THEN call.data[a - call.addr + 1] ELSE before[d][a]
    BY DEF Stored
  <2>5. PICK k \in 0 .. Total(call) : mem = Stored(call, k)
    BY <1>1, MemoryOfCall
  <2>6. mem[d][a] \in {new, before[d][a]}
    <3>1. a \in call.addr .. call.addr + k - 1 => a \in Span
      BY <2>2, <2>3, <2>5 DEF Span
    <3>2. QED
      BY <2>4, <2>5, <3>1
  <2>7. returned => mem[d][a] = new
    <3>1. returned => mem = Stored(call, Len(call.data))
      BY <1>1, <2>2, MemoryOfCall
    <3>2. Span = call.addr .. call.addr + Len(call.data) - 1
      BY DEF Span
    <3>3. QED
      BY <2>4, <3>1, <3>2
  <2>8. QED
    BY <2>6, <2>7
<1>2. QED
  BY <1>1, Invariance, PTL

\* Psram.read returns the bytes of its span: no dummy cycle, no late nibble and no word
\* of an earlier burst is among them, and the PSRAMs keep their contents.
THEOREM ReadsAreExact == Spec => []ReadExact
<1>1. ASSUME IInv
      PROVE  ReadExact
  <2> SUFFICES ASSUME call.name = "read"
               PROVE  /\ mem = before
                      /\ returned => got = [i \in 1..Len(call.data) |->
                                              before[call.d][call.addr + i - 1]]
    BY DEF ReadExact
  <2>1. PICK k \in 0 .. Total(call) : mem = Stored(call, k)
    BY <1>1, MemoryOfCall
  <2>2. mem = before
    BY <1>1, <2>1, MemoryOfCall, ReadStoresNothing
  <2>3. Total(call) = Len(call.data)
    BY DEF Total
  <2>4. returned => got = Got(call, Total(call))
    BY <1>1, MemoryOfCall
  <2>5. QED
    BY <2>2, <2>3, <2>4 DEF Got
<1>2. QED
  BY <1>1, Invariance, PTL

\* At every instant a pad has one owner: the pads float while a PSRAM drives SIO, one
\* state machine at most can move SCK under a low CE#, and an opcode in SPI mode leaves
\* WP# and HOLD# to their pull-ups.
THEOREM PadsHaveOneOwner == Spec => []PadsOwned
<1>1. ASSUME IInv
      PROVE  PadsOwned
  <2>1. Known(call)
    BY <1>1 DEF IInv, Known
  <2>2. CASE failed /\ todo = <<>>
    <3>1. dev = Deselected /\ active = {}
      BY <1>1, <2>2 DEF IInv, Released
    <3>2. dev.drive = NONE
      BY <3>1, DeselectedIs
    <3>3. QED
      BY <2>2, <3>1, <3>2 DEF PadsOwned, NoContention, OneMaster, SpiPadsSafe
  <2>3. CASE ~(failed /\ todo = <<>>)
    <3>1. PICK a : /\ Fact(call, a)
                   /\ ~failed => Leads(call, a, todo, Finish(call))
      BY <1>1, <2>3 DEF IInv
    <3>2. PICK at, m, i : at = a[1] /\ m = a[2] /\ i = a[3]
      OBVIOUS
    <3>3. FactAt(call, at, m, i)
      BY <3>1, <3>2 DEF Fact
    <3>4. NoContention
      <4>1. dev.drive # NONE => pindirs = "RX"
        BY <2>1, <3>3, QuietDevice
      <4>2. QED
        BY <4>1 DEF NoContention
    <3>5. OneMaster
      <4>1. active = {} \/ active = {"spi"} \/ active = {"wr"} \/ active = {"rd"}
        BY <3>3, OneMachine
      <4>2. QED
        BY <4>1 DEF OneMaster
    <3>6. SpiPadsSafe
      <4> SUFFICES ASSUME todo # <<>>, op[1] = "spi"
                   PROVE  pindirs = "SPI"
        BY DEF SpiPadsSafe
      <4>1. CASE failed
        <5>1. todo = << <<"release">> >>
          BY <1>1, <4>1 DEF IInv
        <5>2. op[1] = "release"
          BY <5>1 DEF op
        <5>3. QED
          BY <5>2
      <4>2. CASE ~failed
        <5>1. PICK b : Step(call, a, op, b)
          BY <3>1, <4>2, LeadsOn DEF op
        <5>2. at = "spi selected"
          BY <3>2, <5>1 DEF Step
        <5>3. QED
          BY <3>3, <5>2 DEF FactAt, PadFact
      <4>3. QED
        BY <4>1, <4>2
    <3>7. QED
      BY <3>4, <3>5, <3>6 DEF PadsOwned
  <2>4. QED
    BY <2>2, <2>3
<1>2. QED
  BY <1>1, Invariance, PTL

\* qspi.py refuses a frame that would not fit a FIFO, with an exception.  No pulse of the
\* planner is refused: a call that did not return was interrupted.
THEOREM OnlyInterruptsFail == Spec => [](failed => interrupts > 0)
<1> DEFINE Inv == interrupts \in Nat /\ (failed => interrupts > 0)
<1>1. Init => Inv
  BY DEF Init
<1>2. IInv /\ Inv /\ [Next]_vars => Inv'
  <2> SUFFICES ASSUME IInv, Inv, [Next]_vars
               PROVE  Inv'
    OBVIOUS
  <2>1. CASE Call
    <3>1. PICK c, s : Begin(c, s)
      BY <2>1, CallsFollow
    <3>2. QED
      BY <3>1 DEF Begin
  <2>2. CASE Interrupt
    BY <2>2 DEF Interrupt
  <2>3. CASE Work /\ Pio
    BY <2>3 DEF Work, Pio, WrOut, WrNop, RdNop, RdIn, python
  <2>4. CASE Work /\ Python
    <3>1. interrupts' = interrupts
      BY <2>4 DEF Work
    <3>2. ASSUME ~failed
          PROVE  failed' = failed
      <4>1. PICK a : Leads(call, a, todo, Finish(call))
        BY <3>2 DEF IInv
      <4>2. CASE op[1] # "fits"
        BY <2>4, <4>2, OperationsGoOn
      <4>3. CASE op[1] = "fits"
        <5>1. Fits
          BY <2>4, <4>3, OperationIs
        <5>2. todo # <<>>
          BY <5>1 DEF Fits, Operation
        <5>3. PICK b : Step(call, a, op, b)
          BY <4>1, <5>2, LeadsOn DEF op
        <5>4. op[2] <= op[3]
          BY <4>3, <5>3 DEF Step
        <5>5. QED
          BY <2>4, <5>4, OperationsGoOn
      <4>4. QED
        BY <4>2, <4>3
    <3>3. QED
      BY <3>1, <3>2
  <2>5. CASE UNCHANGED vars
    BY <2>5 DEF vars, python
  <2>6. QED
    BY <2>1, <2>2, <2>3, <2>4, <2>5 DEF Next, Work
<1>3. Inv => (failed => interrupts > 0)
  OBVIOUS
<1>4. QED
  BY <1>1, <1>2, <1>3, Invariance, PTL DEF Spec
===============================================================================
