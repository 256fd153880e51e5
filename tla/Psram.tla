--------------------------------- MODULE Psram ---------------------------------
(***************************************************************************)
(* firmware/psram.py: the calls of the PSRAM driver, each cut into CE#     *)
(* pulses that PioTransport carries out.  A call is made under a grant; at *)
(* its end, or after an exception, the session releases the pins, and the  *)
(* next grant arms the transport anew.                                     *)
(***************************************************************************)
EXTENDS PioTransport

CONSTANTS
  SckMHz,                   \* the SCK frequency of the target profile
  Top,                      \* the addresses in play are 0..Top
  Requests,                 \* the spans a caller asks for: <<device, address, bytes>>
  MaxCalls, Interrupts      \* the most calls, the most ctrl-C

VARIABLES
  call,                     \* the call in progress or the last one, its device, span and data
  calls, interrupts,
  before                    \* the contents of the PSRAMs when it began

vars == <<pads, armed, active, wr, rd, psrams, python, call, calls, interrupts, before>>

-------------------------------------------------------------------------------
(***************************************************************************)
(* The chunk planner.                                                      *)
(***************************************************************************)
EB_OVERHEAD_SCK == 14
WR_OVERHEAD_SCK == 8
MCU_QPI_WRITE_PAYLOAD_FIFO_MAX == QPI_WRITE_TX_FIFO_WORDS - 4
MCU_QPI_READ_FRAME_MAX == QPI_READ_RX_FIFO_WORDS - QPI_READ_DUMMY_WORDS - QPI_READ_LAG_WORDS

Least(a, b) == IF a < b THEN a ELSE b

MCU_QPI_PAYLOAD_MAX == Least(MCU_QPI_WRITE_PAYLOAD_FIFO_MAX, MCU_QPI_READ_FRAME_MAX)

sck_budget == 3 * SckMHz    \* TCEM_US_DEFAULT = 4, TCEM_MARGIN_DEFAULT = 1/4

\* Mutant: only tCEM bounds a pulse.
chunk_in_tcem(overhead, fifo_max) == (sck_budget - overhead) \div SCK_PER_BYTE_QPI

qpi_chunk_bytes(overhead, fifo_max) ==
  Least((sck_budget - overhead) \div SCK_PER_BYTE_QPI, Least(fifo_max, MCU_QPI_PAYLOAD_MAX))

eb_chunk == qpi_chunk_bytes(EB_OVERHEAD_SCK, MCU_QPI_READ_FRAME_MAX)
wr_chunk == qpi_chunk_bytes(WR_OVERHEAD_SCK, MCU_QPI_WRITE_PAYLOAD_FIFO_MAX)

\* Psram.__init__ refuses an SCK too slow for one byte.
SckAccepted == sck_budget >= EB_OVERHEAD_SCK /\ eb_chunk >= 1 /\ wr_chunk >= 1
ASSUME SckAssumption == SckMHz \in Nat /\ SckAccepted

\* psram.py takes any span; the callers keep theirs within a device (tcd.py, cases.py).
ASSUME SpanAssumption ==
  /\ Top \in Nat /\ Top <= ADDR_MAX
  /\ Requests \subseteq Devices \X (0 .. Top) \X Nat
  /\ \A r \in Requests : r[2] + r[3] <= Top + 1

-------------------------------------------------------------------------------
(***************************************************************************)
(* The calls.                                                              *)
(***************************************************************************)
be24(addr) == <<(addr \div 65536) % 256, (addr \div 256) % 256, addr % 256>>

\* The offsets at which the pulses of an n-byte span begin, in order.
Offsets(n, chunk) == [i \in 1 .. (n + chunk - 1) \div chunk |-> (i - 1) * chunk]

write_pulse(d, addr, data) == qpi_write(d, <<QSPI_CMD_WRITE>> \o be24(addr) \o data)
read_pulse(d, addr, n) == qpi_read(d, <<QSPI_CMD_FAST_READ>> \o be24(addr), n)

piece(n, offset, chunk) == Least(chunk, n - offset)

write(d, addr, data) ==
  FlattenSeq(Each(Offsets(Len(data), wr_chunk), LAMBDA o :
    write_pulse(d, addr + o, SubSeq(data, o + 1, o + piece(Len(data), o, wr_chunk)))))

read(d, addr, n) ==
  FlattenSeq(Each(Offsets(n, eb_chunk), LAMBDA o :
    read_pulse(d, addr + o, piece(n, o, eb_chunk))))

spi_reset(d) == spi_write(d, CMD_RESET_ENABLE) \o spi_write(d, CMD_RESET)
enter_qpi(d) == spi_write(d, CMD_ENTER_QPI)
exit_qpi(d) == qpi_write(d, <<CMD_EXIT_QPI>>) \o << <<"pindirs", "SPI">> >>

-------------------------------------------------------------------------------
\* Contents in which all nibbles of neighbouring bytes differ; a call writes others.
Fresh(a) == (59 * (a + 1)) % 256
Written(a) == (59 * (a + 1) + 101) % 256

Init ==
  /\ sck = 0 /\ pindirs = "none" /\ cs = NOBODY
  /\ armed = FALSE /\ active = {}
  /\ txf = <<>> /\ osr = <<>> /\ wpc = "out"
  /\ rxf = <<>> /\ isr = <<>> /\ rpc = "nop" /\ stalled = FALSE /\ late = NONE
  /\ dev = Deselected /\ mode \in [Devices -> {"SPI", "QPI"}]
  /\ mem = [d \in Devices |-> [a \in 0..Top |-> Fresh(a)]]
  /\ todo = <<>> /\ raw = <<>> /\ got = <<>> /\ failed = FALSE
  /\ call = [name |-> "none"] /\ calls = 0 /\ interrupts = 0 /\ before = mem

\* A call begins under the grant of the one before, unless that one has failed, or
\* under a grant of its own.
Begin(c, program) ==
  /\ todo = <<>> /\ calls < MaxCalls
  /\ calls' = calls + 1 /\ call' = c /\ before' = mem
  /\ \/ ~failed /\ todo' = program
     \/ todo' = << <<"release">> >> \o program
  /\ raw' = <<>> /\ got' = <<>> /\ failed' = FALSE
  /\ UNCHANGED <<pads, armed, active, wr, rd, psrams, interrupts>>

\* The session makes the calls of QPI mode only while the devices are in it.
Call ==
  \/ \E r \in Requests : LET d == r[1] a == r[2] n == r[3] IN
       /\ mode[d] = "QPI"
       /\ LET data == [i \in 1..n |-> Written(a + i - 1)] IN
          \/ Begin([name |-> "write", d |-> d, addr |-> a, data |-> data], write(d, a, data))
          \/ Begin([name |-> "read", d |-> d, addr |-> a, data |-> data], read(d, a, n))
  \/ \E d \in Devices :
       \/ mode[d] = "SPI" /\ Begin([name |-> "enter", d |-> d], spi_reset(d) \o enter_qpi(d))
       \/ mode[d] = "QPI" /\ Begin([name |-> "exit", d |-> d], exit_qpi(d))

\* The exception leaves the grant through release_pins.
Interrupt ==
  /\ todo # <<>> /\ op[1] # "release" /\ interrupts < Interrupts
  /\ interrupts' = interrupts + 1 /\ todo' = << <<"release">> >> /\ failed' = TRUE
  /\ UNCHANGED <<pads, armed, active, wr, rd, psrams, raw, got, call, calls, before>>

Work ==
  /\ Python \/ Pio
  /\ UNCHANGED <<call, calls, interrupts, before>>

Next == Call \/ Interrupt \/ Work

Spec == Init /\ [][Next]_vars

\* Python runs, and an active state machine is clocked.
FairSpec == Spec /\ WF_vars(Python /\ Work) /\ WF_vars(Pio /\ Work)

-------------------------------------------------------------------------------
(***************************************************************************)
(* Properties.                                                             *)
(***************************************************************************)
Span == call.addr .. call.addr + Len(call.data) - 1
returned == todo = <<>> /\ ~failed

\* A write touches its own span and nothing else, each byte holds the old or the new
\* value, and all hold the new one when the call returns, however the span was cut into
\* pulses, and wherever an interrupt cut a pulse off.
WriteExact ==
  call.name = "write" =>
    \A d \in Devices : \A a \in 0..Top :
      LET new == IF d = call.d /\ a \in Span THEN call.data[a - call.addr + 1]
                 ELSE before[d][a]
      IN  mem[d][a] \in (IF returned THEN {new} ELSE {new, before[d][a]})

\* A read that returns has the bytes of its span and changes none: the capture, a nibble
\* late and with no way to tell a dummy cycle from data, is re-paired right, and no word
\* of an earlier burst is among it.
ReadExact ==
  call.name = "read" =>
    /\ mem = before
    /\ returned => got = [i \in 1..Len(call.data) |-> before[call.d][call.addr + i - 1]]

\* The pads float before the PSRAM drives SIO, in the middle of a CE# pulse.
NoContention == dev.drive # NONE => pindirs # "TX" /\ pindirs # "SPI"

\* park_and_switch_sm: "No overlapping active(1)".  While a CE# is low only one state
\* machine can move SCK.
OneMaster == Selected => \A a, b \in active : a = b

\* A PSRAM in SPI mode takes an opcode only with WP# and HOLD# left to their pull-ups.
SpiPadsSafe == todo # <<>> /\ op[1] = "spi" => pindirs = "SPI"

\* Each pad has one owner, over every hand-over between the state machines and the PSRAM.
PadsOwned == NoContention /\ OneMaster /\ SpiPadsSafe

\* No put and no get blocks for good: every call returns, and without an interrupt it
\* returns without an error, so no pulse of the planner is refused.
CallsReturn == (todo # <<>> ~> todo = <<>>) /\ [](failed => interrupts > 0)
=============================================================================
