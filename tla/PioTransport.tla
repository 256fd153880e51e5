------------------------------ MODULE PioTransport ------------------------------
(***************************************************************************)
(* firmware/board/qspi.py: the QSPI bus as the microcontroller masters it. *)
(* Three PIO state machines share the pads: "spi" (spi_cpha0), "wr"        *)
(* (qpi_write_cpha0, its TX FIFO filled while it is stopped) and "rd"      *)
(* (qpi_read_cpha0, which runs freely while it is active).  The Python     *)
(* code is a list of operations on them; the state machines run on between *)
(* two operations, and the PSRAM at the other end is PsramDevice.          *)
(*                                                                         *)
(* A symbol is what the five pads GPIO26..30 carry: SIO0, SIO1, SCK, SIO2, *)
(* SIO3.  A FIFO word is two symbols.                                      *)
(***************************************************************************)
EXTENDS PsramDevice, SequencesExt

VARIABLES                   \* the pads: SCK, who drives SIO, the CE# that is low
  sck, pindirs, cs

VARIABLES                   \* the state machines
  armed, active, txf, osr, wpc, rxf, isr, rpc, stalled, late

VARIABLES                   \* the PSRAMs: the frame of the selected one, modes, contents
  dev, mode, mem

VARIABLES                   \* the Python code
  todo, raw, got, failed

pads == <<sck, pindirs, cs>>
wr == <<txf, osr, wpc>>
rd == <<rxf, isr, rpc, stalled, late>>
psrams == <<dev, mode, mem>>
python == <<todo, raw, got, failed>>

Devices == {0, 1}
NOBODY == 2                 \* cs: both CE# high

CMD_RESET_ENABLE == 102     \* 0x66
CMD_RESET == 153            \* 0x99
CMD_ENTER_QPI == 53         \* 0x35
CMD_EXIT_QPI == 245         \* 0xF5

QPI_WRITE_TX_FIFO_WORDS == 8
QPI_READ_RX_FIFO_WORDS == 8
QPI_DUMMY_CYCLES == 6
SCK_PER_BYTE_QPI == 2
QPI_READ_DUMMY_WORDS == QPI_DUMMY_CYCLES \div SCK_PER_BYTE_QPI

\* Mutant: the capture is taken to be in phase with the launch.
no_lag == 0

QPI_READ_LAG_NIBBLES == 1
QPI_READ_LAG_WORDS == 1

\* Mutant: fifo_join=JOIN_TX is left out.
fifo_unjoined == 4

tx_fifo_depth == 8          \* fifo_join=JOIN_TX
rx_fifo_depth == 8          \* fifo_join=JOIN_RX

-------------------------------------------------------------------------------
(***************************************************************************)
(* Symbols and words.                                                      *)
(***************************************************************************)
expand(nibble) == (nibble % 4) + (nibble \div 4) * 8

\* Mutant: the bit of SCK is not taken out.
compact_raw(symbol) == symbol

compact(symbol) == (symbol % 4) + (symbol \div 8) * 4

pack_qpi_byte(value) == <<expand(value \div 16), expand(value % 16)>>
unpack_qpi_word(word) == 16 * compact(word[1]) + compact(word[2])

realign_qpi_nibbles(bytes, n) ==
  LET nibbles == ToNibbles(bytes) IN
  [i \in 1..n |-> 16 * nibbles[QPI_READ_LAG_NIBBLES + 2 * i - 1]
                    + nibbles[QPI_READ_LAG_NIBBLES + 2 * i]]

\* The words a read frame pushes: the dummy cycles, the data, and the spare byte.
read_words(n) ==
  QPI_READ_DUMMY_WORDS + n + (IF n > 0 THEN QPI_READ_LAG_WORDS ELSE 0)

-------------------------------------------------------------------------------
(***************************************************************************)
(* SCK edges, as the selected PSRAM sees them.                             *)
(***************************************************************************)
Selected == cs \in Devices

Fall ==
  dev' = IF Selected /\ sck = 1 THEN OnSckFall(dev, mem[cs]) ELSE dev

Rise(nibble) ==
  IF Selected
  THEN /\ dev' = OnSckRise(dev, nibble)
       /\ mem' = IF CommitsByte(dev)
                 THEN Poke(mem, cs, dev.address, 16 * dev.half + nibble) ELSE mem
  ELSE UNCHANGED <<dev, mem>>

\* Python holds CE# with three pins; the frame of a device ends when its own rises,
\* and an Exit Quad frame takes effect.
EndFrame ==
  /\ dev' = Deselected
  /\ mode' = IF Selected /\ dev.phase = "IGNORE" /\ dev.opcode = CMD_EXIT_QPI
             THEN [mode EXCEPT ![cs] = "SPI"] ELSE mode

-------------------------------------------------------------------------------
(***************************************************************************)
(* The PIO programs.                                                       *)
(***************************************************************************)
\* out(pins, 5).side(0): an empty OSR is pulled; with an empty FIFO the machine
\* stalls, SCK low.
WrOut ==
  /\ "wr" \in active /\ wpc = "out"
  /\ IF osr # <<>> THEN osr' = osr /\ wpc' = "nop" /\ UNCHANGED txf
     ELSE IF txf # <<>> THEN osr' = Head(txf) /\ txf' = Tail(txf) /\ wpc' = "nop"
     ELSE sck = 1 /\ UNCHANGED wr
  /\ Fall /\ sck' = 0
  /\ UNCHANGED <<pindirs, cs, armed, active, rd, mode, mem, python>>

\* nop().side(1)
WrNop ==
  /\ "wr" \in active /\ wpc = "nop"
  /\ sck' = 1 /\ Rise(compact(Head(osr)))
  /\ osr' = Tail(osr) /\ wpc' = "out"
  /\ UNCHANGED <<pindirs, cs, armed, active, txf, rd, mode, python>>

\* nop().side(0): the input the next instruction samples is the one of before this edge.
RdNop ==
  /\ "rd" \in active /\ rpc = "nop"
  /\ late' = dev.drive
  /\ Fall /\ sck' = 0 /\ rpc' = "in"
  /\ UNCHANGED <<pindirs, cs, armed, active, wr, rxf, isr, stalled, mode, mem, python>>

\* A SIO line nobody drives is pulled up.
Push(nibble) ==
  LET symbols == Append(isr, expand(IF nibble = NONE THEN 15 ELSE nibble)) IN
  /\ rpc' = "nop"
  /\ IF Len(symbols) = 2 THEN rxf' = Append(rxf, symbols) /\ isr' = <<>>
     ELSE isr' = symbols /\ UNCHANGED rxf

RxRoom == Len(isr) = 0 \/ Len(rxf) < rx_fifo_depth

\* in_(pins, 5).side(1): a full FIFO stalls the machine with SCK high, and the sample
\* it takes at last is of what the PSRAM drives by then.
RdIn ==
  /\ "rd" \in active /\ rpc = "in"
  /\ IF stalled THEN /\ RxRoom /\ Push(dev.drive) /\ stalled' = FALSE
                     /\ UNCHANGED <<sck, dev, mem>>
     ELSE /\ sck' = 1 /\ Rise(0)
          /\ IF RxRoom THEN Push(late) /\ UNCHANGED stalled
             ELSE stalled' = TRUE /\ UNCHANGED <<rxf, isr, rpc>>
  /\ UNCHANGED <<pindirs, cs, armed, active, wr, late, mode, python>>

Pio == WrOut \/ WrNop \/ RdNop \/ RdIn

-------------------------------------------------------------------------------
(***************************************************************************)
(* The transactions, as lists of operations.                               *)
(***************************************************************************)
Each(s, Op(_)) == [i \in 1..Len(s) |-> Op(s[i])]
Times(n, op) == [i \in 1..n |-> op]

\* park_and_switch_sm(sm, None, park_sck): the machine is stopped, SCK parked low.
park(sm) == << <<"stop", sm>>, <<"park">> >>

\* arm(), and the switch of every transaction to its own state machine.
\* Mutant: restore_spi_pins is left to arm.
to_spi_unrestored == << <<"arm">> >> \o park("wr") \o park("rd")

to_spi == << <<"arm">> >> \o park("wr") \o park("rd") \o << <<"pindirs", "SPI">> >>
\* Mutant: the SPI machine stays active beside the QPI one.
to_wr_shared == << <<"arm">> >> \o park("rd")
           \o << <<"stop", "wr">>, <<"restart wr">>, <<"pindirs", "TX">> >>

to_wr == << <<"arm">> >> \o park("spi") \o park("rd")
           \o << <<"stop", "wr">>, <<"restart wr">>, <<"pindirs", "TX">> >>

prefill(frame) == Each(frame, LAMBDA b : <<"put", pack_qpi_byte(b)>>)

spi_write(d, byte) ==
  to_spi \o << <<"start", "spi">>, <<"select", d>>, <<"spi", byte>>, <<"deselect">> >>

qpi_write(d, frame) ==
  << <<"fits", Len(frame), QPI_WRITE_TX_FIFO_WORDS>> >> \o to_wr \o prefill(frame)
    \o << <<"select", d>>, <<"start", "wr">>, <<"drained">>, <<"deselect">>,
          <<"stop", "wr">>, <<"park">> >>

\* Mutant: the pads still drive SIO while the PSRAM answers.
turnaround_late == << <<"prime rx">>, <<"start", "rd">>, <<"pindirs", "RX">> >>

turnaround == << <<"pindirs", "RX">>, <<"prime rx">>, <<"start", "rd">> >>

qpi_read(d, header, n) ==
  << <<"fits", read_words(n), QPI_READ_RX_FIFO_WORDS>> >> \o to_wr \o prefill(header)
    \o << <<"select", d>>, <<"start", "wr">>, <<"drained">> >> \o park("wr") \o turnaround
    \o Times(QPI_READ_DUMMY_WORDS, <<"skip">>)
    \o Times(read_words(n) - QPI_READ_DUMMY_WORDS, <<"get">>)
    \o << <<"stop", "rd">>, <<"deselect">>, <<"park">>, <<"realign", n>> >>

-------------------------------------------------------------------------------
(***************************************************************************)
(* The operations.                                                         *)
(***************************************************************************)
op == Head(todo)
Operation(name) == todo # <<>> /\ op[1] = name
Done == todo' = Tail(todo) /\ UNCHANGED failed

\* A new state machine starts stopped, with empty FIFOs; PIOSPI activates its own.
\* restore_spi_pins is part of arm.
Arm ==
  /\ Operation("arm") /\ Done
  /\ IF armed THEN UNCHANGED <<armed, active, pindirs, wr, rd>>
     ELSE /\ armed' = TRUE /\ active' = {"spi"} /\ pindirs' = "SPI"
          /\ txf' = <<>> /\ osr' = <<>> /\ wpc' = "out"
          /\ rxf' = <<>> /\ isr' = <<>> /\ rpc' = "nop" /\ stalled' = FALSE /\ late' = NONE
  /\ UNCHANGED <<sck, cs, psrams, raw, got>>

Stop ==
  /\ Operation("stop") /\ Done
  /\ active' = active \ {op[2]}
  /\ UNCHANGED <<pads, armed, wr, rd, psrams, raw, got>>

Start ==
  /\ Operation("start") /\ Done
  /\ active' = active \cup {op[2]}
  /\ UNCHANGED <<pads, armed, wr, rd, psrams, raw, got>>

\* The word that is executed side-sets SCK to 0.
ParkSck ==
  /\ Operation("park") /\ Done
  /\ Fall /\ sck' = 0
  /\ UNCHANGED <<pindirs, cs, armed, active, wr, rd, mode, mem, raw, got>>

SetPindirs ==
  /\ Operation("pindirs") /\ Done
  /\ pindirs' = op[2] /\ Fall /\ sck' = 0
  /\ UNCHANGED <<cs, armed, active, wr, rd, mode, mem, raw, got>>

RestartWr ==
  /\ Operation("restart wr") /\ Done
  /\ osr' = <<>> /\ wpc' = "out"
  /\ UNCHANGED <<pads, armed, active, txf, rd, psrams, raw, got>>

\* Mutant: the words an earlier burst left are not read away.
PrimeRxKeepsWords ==
  /\ Operation("prime rx") /\ Done
  /\ active' = active \ {"rd"} /\ isr' = <<>> /\ rpc' = "nop" /\ stalled' = FALSE
  /\ UNCHANGED <<pads, armed, wr, rxf, late, psrams, raw, got>>

PrimeRx ==
  /\ Operation("prime rx") /\ Done
  /\ active' = active \ {"rd"}
  /\ isr' = <<>> /\ rpc' = "nop" /\ stalled' = FALSE /\ rxf' = <<>>
  /\ UNCHANGED <<pads, armed, wr, late, psrams, raw, got>>

Fits ==
  /\ Operation("fits")
  /\ IF op[2] <= op[3] THEN Done ELSE todo' = << <<"release">> >> /\ failed' = TRUE
  /\ UNCHANGED <<pads, armed, active, wr, rd, psrams, raw, got>>

\* put blocks while the FIFO is full, get while it is empty.
Put ==
  /\ Operation("put") /\ Len(txf) < tx_fifo_depth /\ Done
  /\ txf' = Append(txf, op[2])
  /\ UNCHANGED <<pads, armed, active, osr, wpc, rd, psrams, raw, got>>

Get ==
  /\ Operation("get") \/ Operation("skip")
  /\ rxf # <<>> /\ Done
  /\ rxf' = Tail(rxf)
  /\ raw' = IF op[1] = "get" THEN Append(raw, unpack_qpi_word(Head(rxf))) ELSE raw
  /\ UNCHANGED <<pads, armed, active, wr, isr, rpc, stalled, late, psrams, got>>

Realign ==
  /\ Operation("realign") /\ Done
  /\ got' = got \o realign_qpi_nibbles(raw, op[2]) /\ raw' = <<>>
  /\ UNCHANGED <<pads, armed, active, wr, rd, psrams>>

\* _drain_bytes sleeps for as long as the words take to shift out.
Drained ==
  /\ Operation("drained") /\ txf = <<>> /\ osr = <<>> /\ wpc = "out" /\ sck = 0 /\ Done
  /\ UNCHANGED <<pads, armed, active, wr, rd, psrams, raw, got>>

Select ==
  /\ Operation("select") /\ Done
  /\ cs' = op[2]
  /\ dev' = IF mode[op[2]] = "QPI" THEN BeginTransaction ELSE Deselected
  /\ UNCHANGED <<sck, pindirs, armed, active, wr, rd, mode, mem, raw, got>>

Deselect ==
  /\ Operation("deselect") /\ Done
  /\ cs' = NOBODY /\ EndFrame
  /\ UNCHANGED <<sck, pindirs, armed, active, wr, rd, mem, raw, got>>

\* PIOSPI.write reads back a byte for each it sends: all eight SCK are over.
ShiftSpi ==
  /\ Operation("spi") /\ "spi" \in active /\ Done
  /\ mode' = CASE op[2] = CMD_ENTER_QPI -> [mode EXCEPT ![cs] = "QPI"]
               [] op[2] = CMD_RESET -> [mode EXCEPT ![cs] = "SPI"]
               [] OTHER -> mode
  /\ UNCHANGED <<pads, armed, active, wr, rd, dev, mem, raw, got>>

\* release_pins: every pad is an SIO input again, and CE# is pulled up.
Release ==
  /\ Operation("release") /\ Done
  /\ armed' = FALSE /\ active' = {} /\ pindirs' = "none" /\ cs' = NOBODY /\ sck' = 0
  /\ EndFrame
  /\ UNCHANGED <<wr, rd, mem, raw, got>>

Python == Arm \/ Stop \/ Start \/ ParkSck \/ SetPindirs \/ RestartWr \/ PrimeRx \/ Fits \/ Put
            \/ Get \/ Realign \/ Drained \/ Select \/ Deselect \/ ShiftSpi \/ Release
=============================================================================
