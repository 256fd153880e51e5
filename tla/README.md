# TinyDMA in TLA+

TinyDMA is a scatter-gather DMA engine for a Tiny Tapeout die. A host MCU stages
descriptors and data in two PSRAM chips, pulses START, and the ASIC walks the
chain of descriptors over a QPI bus that it shares with the host. This directory
models the ASIC, the devices, the host's firmware down to its PIO programs, the
link to it and the FPGA test flow in TLA+, checks them with TLC, and proves with TLAPS
what the engine, the controller, the chip's shared bus, the serial link, the chunk
planner and the test flow promise. Paths such as `src/src/top.v` are those of the repository.

## 1. Inventory

| Part | Source | State | Operations |
|---|---|---|---|
| Types | `src/src/types.svh` | none | widths, encodings, descriptor layout (11 bytes, 22 nibbles) |
| QSPI engine | `src/src/qspi_engine.sv` | phase FSM, nibble counter, SCK, SIO and its OE, two CE# flops, captured nibble | one transaction per `txn_valid`: command, address, wait, payload, padding |
| Controller | `src/src/sys_controller.sv` | 8-state FSM, stalled state, descriptor register, fetch pointer, write flag, N-byte buffer, DONE, BUS_GNT | one action per FSM state, reset |
| Top | `src/src/top.v` | START and BUS_REQ synchronisers, edge detector | wiring, output enables of the eight shared pads |
| Device model | `src/test/models/psram.py` | framing phase, pointer, half byte, memory | CE#, rising SCK, falling SCK |
| Chain oracle | `src/test/reference/chain.py` | memory images, log of transactions | `interpret_chain`, `commit_prefix` |
| Engine BFM | `src/test/common/engine_bfm.py` | request and payload in hand | `engine_qpi_read`, `engine_qpi_write` |
| DmaController | `src/firmware/dma.py` | BUS_REQ, OE, `_awaiting_done_fall`, `_saw_busy` | request, drive, release, start, wait, kill, reset |
| Session | `src/firmware/session.py` | `in_qpi`, the objects of a session | bring-up, recover, START, span reads and writes |
| PSRAM driver | `src/firmware/psram.py`, `board/qspi.py` | three PIO state machines with FIFOs and shift registers, pads, PSRAM modes | CE# pulses of at most a chunk, opcodes, release |
| Links | `src/firmware/link.py`, `src/hil/link.py` | `_opened`, handle, `_dirty`; the cable, the REPL | one envelope per call, resynchronise, reconnect, reset, never retry |
| FPGA bitstream tool | `src/hil/fpga/tool.py` | stage, product, published bitstream, flash of the board | stage, harden (native, official), publish, vet, upload, reset, wait |
| Hardware tests | `src/hil/conftest.py`, `checks.py`, `cases.py`, `tests/` | the cells of the PSRAMs, over tests and runs | install, poison, reinstall, check the head, START, check |
| Fake hardware | `src/hil/fake_hw.py` | as the board | the loopback behind the same calls |
| Test selection, reporting, monitors, scoreboard, generators, CI | `src/hil/run.py`, `detail.py`, `cli.py`, `src/test` | - | select, observe, report |

How they interact:

- Host to ASIC: three asynchronous pins. START and BUS_REQ pass two flops each;
  DONE and BUS_GNT come back registered; `rst_n` is sampled by every flop and
  gates the output enables at once.
- Controller to engine: a request that the engine does **not** latch. It is
  opened by a one-clk `txn_valid` while `~busy`, and its fields have to be held
  until `busy` falls. Read nibbles come with `rdata_valid`; write nibbles are
  asked for by `wdata_next` and are due in the same clk.
- ASIC and host to devices: one shared bus. The ASIC parks or drives it while
  `rst_n & ~BUS_GNT`, the host only otherwise.
- The chain lives in the memory that it rewrites.
- Firmware to devices: three PIO state machines on the same five pads run on while
  Python goes from one line to the next; Python feeds and drains their FIFOs.
- Test host to firmware: statements and replies over USB serial, which lose step
  after a timeout; a ctrl-C brings them back, in the middle of whatever runs.
- Developer to FPGA: sources are copied to a stage, built, published, uploaded, and
  seen by the board when it boots, while they are edited.

What is hard here: BUS_REQ, START and `rst_n` at any clk of a state that lasts a
single clk; the unlatched request computed from a register that shifts during
its own fetch; pulses that must be counted exactly; pads that hand over between
three drivers; an UPDATE that is executed twice when a stall falls into it; a
reset that cuts a frame between two nibbles; a capture one nibble late that cannot
tell a dummy cycle from data; a reply that outlives its call; a bitstream older or
newer than it looks; a test that passes on bytes left by another. The complete list, each hazard at
its line and with the properties that cover it, is `hazards` in `PROJECT.json`.

What makes each part correct:

- engine: the devices see exactly the frame that was requested; CE#, SCK and SIO
  keep their order in time; the port contract holds; every request ends;
- controller: bus grants never tear a transaction; requests are legal and
  stable; DONE and START mean what firmware takes them for; the transactions are
  those of the oracle, under any schedule of the host;
- top and devices: no pad has two drivers; what the devices store is what the
  oracle stores, and what a reset leaves is a prefix of it;
- firmware: after each call the mode of the devices, the owner of the bus and the
  outcome told to the caller agree with the chip;
- PSRAM driver: spans of any length are written and read exactly, whatever a pulse
  left in a FIFO, and no pad has two drivers;
- link: a statement runs at most once and its own envelope comes back;
- bitstream tool and tests: what is tested is what was built from the tree, a red
  test blames the tree, a green one means that the DMA wrote.

## 2. Modules

    QspiPkg            types                  MemoryImage   two sparse memories
    QspiEngine         the engine             DmaChain      the oracle, abstract
    QspiContract       its port contract      ChainView     registers -> oracle state
    QspiEngineBfm      engine + consumer      PsramDevice   one device
    SysController      the controller         Staging       staged chains for TLC
    DmaCore            controller + contract + memories + free host
    TinyDma            controller + engine + top + devices + firmware host
    HostPort           the chip as its host sees it, abstract
    HostSession        the firmware session against HostPort
    PioTransport       the PIO state machines, pads and PsramDevice
    Psram              the PSRAM driver's calls over PioTransport
    LinkContract       what a call promises, abstract
    HilLink            Link, SerialTransport, cable and REPL
    FpgaBitstream      from the RTL to the design in the FPGA
    HilCase            one hardware test
    HilRun             FpgaBitstream + HilCase: commands, test runs, defects
    QspiEngineProofs, DmaCoreProofs, DmaChainProofs, TinyDmaProofs, HostSessionProofs,
    PsramProofs, HilLinkProofs, HilRunProofs
                       theorems about QspiEngineBfm, DmaCore (two modules), TinyDma,
                       HostSession, Psram, HilLink and HilRun
    MCQspiEngine, MCDmaCore, MCTinyDma, MCHostSession, MCPsram, MCHilLink, MCHilRun
                       TLC instances

One step is one posedge of clk in the hardware modules. Every flop is a variable with its
source name, every combinational signal an operator; input ports are the
variables that whoever instantiates the module changes. `curr_state` is
`ctl_state` and `engine_state` in `TinyDma`, where both FSMs meet. Operators
commented *Mutant:* are never used by a model: each is a plausible wrong version
of the definition below it, kept to show that a property can tell the two apart.

**QspiEngine** has one action for reset and one for each kind of clk: the pads
states, a rising and a falling SCK. The RTL writes the next-state logic as a
`case` with one comparison per phase; the model says it once: a phase ends when
the counter is at `phase_sck`, and `phase_after` follows. The counter keeps its
five bits and the address its 24.

**QspiContract** is the port contract in the header of the RTL, without pins:
`left` payload nibbles to come, one action per kind of clk. It is an abstract
specification that `QspiEngine` implements, and the engine of `DmaCore`.

**QspiEngineBfm** adds the consumer of the contract and observers of the pads.
The consumer asserts `txn_valid` in the first idle clk if it likes, earlier than
the test bench does; it does not request in the clk after a one-clk reset,
because consumer and engine share the reset.

**SysController** has one action per FSM state; `Control` is the part every
posedge performs. A descriptor is its 22 nibbles in wire order, so the shift of
FETCH and the field slices are those of the RTL. `data_buffer` is its nibbles.
`qspi_wdata_next` is passed as an argument, because the engine computes it from
the request this module drives.

**DmaCore** joins the controller with `QspiContract`: any timing of the beats,
including none the engine has. Memory accesses happen per nibble and a byte is
stored with its second nibble. The host is free: START, BUS_REQ and `rst_n`
change at any clk, START being a one-clk pulse as behind the edge detector.

**PsramDevice** is the device agent of the test bench, a record per device and
one operator per edge. Accesses past the top of a device are skipped, as the
agent does; no staged chain makes one (the oracle rejects such chains).

**TinyDma** is the chip from its input pins to the memory cells. Its host keeps
the ownership rules of `DmaController`: one pin write at a time, BUS_REQ only
after the last release has been seen through, drive only under grant or reset,
release before BUS_REQ falls, and `kill_dma` at any time as its three writes in
order. START may be toggled at any time, also when firmware refuses to. A request
or release that times out ends in the same kill.

**HostPort** is what the controller promises at START, BUS_REQ, `rst_n`, DONE and
BUS_GNT: a grant stays while it is requested and only a chain delays it, a START
that meets an idle chip with a free bus clears DONE, one that meets a grant on its
way back is lost, reset ends everything. When a chain ends is open. `DmaCore`
implements it, by TLC and by proof, and `HostSession` runs against it.

**HostSession** is `firmware/session.py` with `dma.py`, `psram.py` and `board/`
below it. Nothing on the microcontroller runs between two calls, so a call is the
list of its operations (a pin write, an OE write, a check, a wait, a frame to a
device, a line of bookkeeping) under the names of the source, and one action per
kind of operation carries them out while the chip runs on. `Raise` is what an
exception leaves to do: the release in the `finally` of the caller, if it was in
the `try`. A wait whose predicate does not hold may time out at any moment, which
makes `kill_dma` and then raises. A pin write is sampled by the chip before the
next operation ("the GPIO write duration already covers the two-flop
synchronizer", `src/firmware/dma.py:9`). Both devices power up in SPI; a frame in
the format of the other mode does nothing. `Interrupt` is the ctrl-C with which
the link resynchronises (`src/hil/link.py:305`): it is no `Exception`, so a call
ends before any of its operations with nothing but the `finally` of its `try`.
`cut` says that a ctrl-C has come and that no `reset_recovery` of
`src/hil/session.py` (a `reset_dma` and a `recover`) has succeeded since.

**PioTransport** has one action per PIO instruction and one per operation of the
Python code on a state machine; the two interleave freely, which is what separates
a call that stops a machine from one that hopes it has stopped. A transaction is
the list of its operations, as in `HostSession`. `rd` runs freely: it pushes dummy
cycles, data and whatever the pads carry afterwards, and stalls with SCK high on a
full FIFO. The sample it takes is the one of before the falling edge, a nibble late,
so the words are re-paired (`realign_qpi_nibbles`). The PSRAM at the other end is
the same `PsramDevice` as the chip's. **Psram** has the chunk planner and the calls.
`PIOSPI` and the timing of `_drain_bytes` are external: a transfer is over when they
return.

**LinkContract** is a call over the loopback: its statement starts at most once, and
it returns what its entry point printed or raises. **HilLink** is the same over a
cable of two queues, with `_dirty` and `_opened`, a port that comes and goes, a wait
that times out at any moment, a `Link.reset`, and a board that reboots by itself.

**FpgaBitstream** counts time in edits: the mtime of a file is the edit that made it,
which is also its version, and `seen` has the versions of each file that have been in the
tree since the command began. A command is copied, built, published and sent step by
step; every step may fail, the tool is free to write nothing, and what it leaves is
what the next command finds. The tools outside the repository (Yosys, nextpnr, icepack,
`tt_fpga.py`, `mpremote`) do what `tool.py` takes them to do. **HilCase** is
`_run_case` or `test_hw_random_chain` on the cells of two PSRAMs; the chain is
reduced to the copies it makes. **HilRun** runs tests on the bitstream that was
sent: some version of a file may be *broken*, and a design built from it loses writes or makes a
stray one. `DestWritesMatch`, `GuardBytesKept`, `DescriptorsIntact` and `CheckHead`
are the checks of `checks.py`.

**DmaChain** is `interpret_chain`: fetch, read and write transactions with their
effect on the memories, and no host. It writes a byte at a time, because a reset
may cut a write there (`commit_prefix`). **ChainView** is the refinement mapping
both compositions use: the state that a stall resumes into stands for the stall,
and a register that a step ahead of the bus has changed is read back.

## 3. Runs

| Run | Question | Instance | Size |
|---|---|---|---|
| `engine` | the pins of the engine, and its contract | reads of 1, 5, 11 and writes of 1, 2, 5 bytes, both devices, two SIO values, `rst_n` at any clk | 15,256 states |
| `core` | controller against any engine timing, free host | N = 2, `CrossChain` and `SelfChain` | 124,996 states |
| `core_live` | grants are served | N = 2, `CrossChain` | 53,376 states |
| `chip` | the whole chip with two devices and a firmware host | N = 2, `CrossChain` | 331,027 states |
| `chip_live` | completion with the real engine, fairness of the clock only | N = 2, `ShortChain` | 93,315 states |
| `host` | every sequence of calls, timeouts anywhere, ctrl-C between operations | two ctrl-C | 149,765 states |
| `psram` | spans exact, turnaround clean, nothing blocks, ctrl-C anywhere | SCK 20 MHz, a span of 5 bytes and one of 1, two calls, one ctrl-C | 376,783 states |
| `link` | at most once, own reply, every call ends | 3 calls, 2 attempts to connect, one reset, one reboot | 290,889 states |
| `hil` | what is tested, and what red and green mean | one RTL file and `info.yaml`, two edits, two commands, two tests; the second version of the RTL broken | 664,676 states |
| `host_drive`, `link_preamble`, `hil_poison` | three sentences of the repository, each violated | 1 ctrl-C; 2 calls; a defect in the second version | findings below |

Deadlock is checked in all of them but `psram` and `hil`, where the bounds on calls,
commands and tests end the behaviour, and `hil_poison` for the same reason. What each property says is the comment above
it; in short:

- `engine`: `FrameExact` (every device sees its frame, the whole frame, and nothing
  else; this includes device selection and the number of wait cycles), `PadTiming`
  (`CeAndSckApart`, `SioStableAtRise`, `CeHighGap`), `CeLowBound`, `ReadTurnaround`,
  `ImplementsContract` and `BusyEnds`.
- `core`: `GrantIsQuiet`, `RequestStable`, `RequestLegal`, `DoneMeansIdle`,
  `StartNotQueued`, and `ImplementsChain`: the core implements `DmaChain` under
  every schedule of BUS_REQ, START and reset. A repeated or skipped chunk, a
  wrong address, a chain that starts elsewhere than at the head, a torn write and
  a wrong order of transactions all violate it. `ImplementsHostPort`: the pins keep
  the protocol the firmware model relies on.
- `core_live`: `GrantServed`.
- `chip`: `NoContention` (no pad with two drivers), `DoneMeansQuiet`,
  `ImplementsChain` from pins to cells.
- `chip_live`: `ChainCompletes`, for a copy, an empty descriptor and a QUIT (`ShortChain`).
- `host`: `DriveLegal` (the microcontroller drives under grant or in reset only),
  `BusReturned` (however a call ends, the bus is the chip's and START is low),
  `InQpiTruthful` (while the chip has the bus, `in_qpi` is never wrongly true),
  `StartTaken` and `IdleReported` (a START that passes the checks begins a chain, and
  idle is only reported of a chain that ran and ended): all of them up to a ctrl-C and
  again from the `reset_recovery` after it. `RecoveredIsUsable`: a `recover` that
  returns repairs whatever was cut. `CallsEnd`.
- `psram`: `WriteExact` (also in a call that is cut off: each byte of the span is the
  old or the new one, and nothing else changes), `ReadExact`, `PadsOwned`
  (`NoContention`, `OneMaster`, `SpiPadsSafe`) and `CallsReturn` (no put and no get
  blocks for good, and no pulse of the planner is refused).
- `link`: `Implements` (`LinkContract`), `StreamInStep` (when a statement is about to
  be sent nothing of an earlier call is left anywhere), `ResetResolves`, `CallEnds`.
- `hil`: `BoardAgrees` (the tests run on the published bitstream), `BuildIsFresh` (a
  default run tests only versions that were in the tree when it began or came there since),
  `ReuseIsCurrent`, `RedIsOfTheTree` (when a test of a default run fails, a file of the
  tested bitstream is broken in the version built, which has been in the tree since the run
  began), `PoisonCatches` (a pass over a poison of known bytes lost no write),
  `CommandEnds`.

### Where the code and its own words part

- `host_drive`. One ctrl-C between the grant and the `try` leaves the drive on;
  the next `init` zeroes BUS_REQ first and releases the OE later, so BUS_GNT falls
  while the microcontroller drives (`src/firmware/session.py:14`).
- `link_preamble`. `Link.open` sets `_opened` before it sends the preamble
  (`src/hil/link.py:453`). If that fails, every later call of the Link runs without it
  and ends in a NameError, until a reset or a new Link; line 450 says that
  `session.<name>(...)` resolves after it.
- `hil_poison`. `_poison_extents` inverts what the destination *holds*. Where it holds
  the expected bytes of an earlier run of the same case, as when
  `test_hw_all_cases_parametrized` runs every case again, the two poisons of TC-RESTART
  invert them and invert them back: a design whose STARTs write nothing passes, which
  `src/hil/tests/test_directed.py:10` excludes. The random campaign inverts the expected
  bytes instead, and `PoisonCatches` holds for it from any contents.

Smaller disagreements met while modelling, without a run of their own:

- `shutdown` (without `exit_qpi`) and `init` clear `in_qpi` and leave the devices in
  QPI, so the next `bring_up_psram` sends SPI 0x66 to a device in QPI, which
  `src/firmware/session.py:54` rules out; the repository knows it
  (`src/docs/llm/12-firmware.md:178`, `src/hil/tests/test_session.py:363`).
- One ctrl-C between the Exit Quad of device 0 and `in_qpi = False` leaves `in_qpi`
  true with device 0 in SPI (`src/firmware/session.py:53`), until `reset_recovery`.
- `Link.reset` without a handle, or over a handle that has died, sends no
  `machine.reset` and then reconnects to a board that was not reset
  (`src/hil/link.py:360`).
- `stale_inputs` says "An empty tuple means the bitstream is current". A source that
  is edited after it was copied to the stage and before icepack ends is older than
  the bitstream and not in it; a deleted source is skipped; and a ctrl-C within the
  `copy2` of the publication leaves a truncated file with a fresh mtime.
  `ReuseIsCurrent` names these exceptions (`late`, `tree[f] = 0`, `whole`) and holds
  for everything else.
- `--bitstream=reuse` compares sources only: a bitstream timed for one `TT_FPGA_FREQ`
  is run at another, although `src/hil/fpga/tool.py:62` says that both are the same. A
  run that builds reads the same value twice. Frequencies are not modelled.

Why the bounds are enough. With N = 2 a payload of 5 bytes has two full chunks
and a partial one, so UPDATE takes both exits and the buffer is used full and in
part. `CrossChain` copies between the devices, passes an empty descriptor on the
other device and ends in a QUIT whose other fields are not zero. `SelfChain`
copies onto an overlapping range and rewrites its own head into a QUIT, so what
START does depends on how far the last chain came. A START is possible after
every end and reset, so runs contain any number of chains. Nothing else in the
system counts: no bound cuts a behaviour. The engine run covers the shortest
requests and the longest one, 11 bytes, whose 22 nibbles are the largest count
the engine meets. Numbers of bytes in between differ by iterations only. Other
values of N are left to the proofs, which hold for 1 to 8. The session has no
counter but the interruptions, so call sequences have any length. Two interruptions
cut a call and its repair. In `HostSession` two chunks stand for the
chunks of a span; their number changes nothing that is looked at there. In `psram`
the chunks are real: at 20 MHz the FIFOs bound a pulse to 4 bytes, so 5 bytes
take a full pulse and a short one, and a second call finds whatever the first, or
its interruption, left in the machines. Nothing in the driver remembers more than
one call; other frequencies and lengths are the theorems'. In `link` one call is left behind by a failure, one meets what it left, and one
follows; with two attempts a connection is retried and given up. In `hil` the second
command meets what the first built, published or broke off, and the second test what the
first left in the PSRAMs. One edit is enough for every order of an edit and a copy; with two,
an edit breaks a good design and another replaces it, so that a bitstream of the superseded
version, or what it left in the PSRAMs, meets a design that works. A second source would
only repeat the first (`info.yaml` is the other file).

Fairness. The clock never stops: weak fairness of `Next` with respect to the
flops, so that a posedge that would change one comes. The host's pins are left out
of the subscript: fairness never makes the host act. `DmaCore` has an engine with free timing, so it also assumes that
the engine makes progress (`EngineProgress`); the `engine` run shows that the real
one does (`BusyEnds`), and `chip_live` checks completion without that assumption.
`HostSession` assumes that the clock runs and that the
microcontroller carries on with a call; it is not assumed that a chain ends, that a
grant comes, or that the host calls anything. `Psram` assumes that Python goes on and
that an active PIO machine is clocked. `HilLink` assumes that the host's code runs (each
of its waits has a timeout) and that a board at its prompt reads; not that a
port comes back. `HilRun` assumes that a command that can do something does something,
aborting included, since every subprocess has a time limit; not that the board boots or that anyone edits.
Nothing is assumed of the host: `ChainCompletes` is stated for hosts that from
some clk on leave BUS_REQ and `rst_n` alone.

## 4. Proofs

### The controller

`DmaCoreProofs` proves, for every N from 1 to 8 (`DepthAssumption`, the
elaboration check of the RTL), every memory and every engine timing:

| Theorem | Property |
|---|---|
| `TypeCorrect` | `CoreTypeOK`: registers and ports keep their widths, the index of the write nibble is inside the buffer |
| `RequestIsStable` | `RequestStable` |
| `GrantNeverTears` | `GrantIsQuiet` |
| `RequestsAreLegal` | `RequestLegal` |
| `DoneIsIdle` | `DoneMeansIdle` |
| `HostPortIsKept` | `ImplementsHostPort`, a refinement: initial state to initial state, every step to a step of `HostPort` or a stutter |
| `StartIsNotQueued` | `StartNotQueued`, an action property |

The argument. Types come first, bottom-up from lemmas about nibbles and 24-bit
words to one step per FSM state. None of the other properties is inductive by
itself. `ControlInv` adds what they rest on: a stall never begins within a
transaction (`stalled_state` is one of four states), BUS_GNT is the STALL state,
DONE is the idle owner, the engine is only busy in FETCH, READ and WRITE, and
`write_pending` marks the span from the end of a READ to the end of its WRITE, in
which the descriptor is neither a QUIT nor empty. The last part is needed
because otherwise NEW_OP could leave for IDLE with the write flag up.
`IInv == CoreTypeOK /\ ControlInv /\ RequestStable` is inductive: `BusyStep` says
that a busy engine either was busy with the same request or has just accepted the
one on its ports, and `RequestNext` follows the request from NEW_FETCH into FETCH
(through the kept pointer, while the descriptor shifts) and from NEW_OP into READ
or WRITE.

`HostPortIsKept` needs the same invariant: which step of `HostPort` a posedge is
depends on the owner that `OwnerStep` follows, and DONE and BUS_GNT name the owner
only by `ControlInv`.

### The chain

`DmaChainProofs` proves `ChainIsImplemented`: `DmaCore` implements `DmaChain`, the
property `ImplementsChain` of the `core` run, for every buffer depth, every staged memory,
any timing of the beats and any schedule of BUS_REQ, START and `rst_n`. Chains that
rewrite themselves are included. It assumes:

- `DepthAssumption`, and `ImagesAssumption`: a staged memory holds bytes for both devices;
- `[]SpansFit`: no descriptor that is not a QUIT names a span that ends past the top of
  its device. The architecture gives such a chain no meaning ("Validate complete spans
  before START. Out-of-range is undefined at runtime", `firmware.md`) and the interpreter
  raises on it (`_check_span`, `test/reference/chain.py`). It is a hypothesis about
  behaviours, since a chain may write its own descriptors. It holds in the `core` run; a
  copy of three bytes from the second byte below the top breaks the refinement, because the pointer
  register goes on into bit 23 where the interpreter stops.

A refinement step compares two states, and the controller's registers determine the
interpreter's state only through what the device and the engine are in the middle of.
`ChainInv`, inductive on top of `IInv`, adds three parts. `StreamInv` is the device's
side: the nibbles sent or sampled and the beats left make up the request, and what a read
has sent is what memory holds there. `RegisterInv` ties the registers to that stream: the
low nibbles of descriptor and buffer are the stream so far (`TakingInv`), the buffer holds
the whole chunk from the end of its read to the beginning of its write (`HoldingInv`),
also across a stall, and during the write it lags the stream by the nibble the controller
has looked ahead (`GivingInv`). `DescriptorInv` says that the shifting register is still
the descriptor of memory, its pointers moved on by the bytes that are behind the length
(`TargetInv`): one chunk more between the end of a read and the decrement of the length,
for the source, and in the first clk of UPDATE, for both, which is where a stall could
count a chunk twice.

`ReadAs` turns `ChainInv` into `Reading`, the interpreter's state case by case. Then there
is one lemma per FSM state (`StepIdle`, `StepFetch` and so on): a posedge in it is one
step of the interpreter or none. The interpreter moves where the registers commit: on the
nibble that ends a read, on every second nibble of a write (`StoreByte`, since a reset
may cut there), and on START and reset. `ChunkAddress` is where `SpansFit` is used: under
it the 24-bit pointer with bit 23 cleared is the interpreter's.

### The engine

`QspiEngineProofs` is about the engine behind any consumer of its contract: every set of
legal requests (1 to 11 bytes) and whatever a device puts on SIO.

| Theorem | Property |
|---|---|
| `FramesAreExact` | `FrameExact` |
| `PadsKeepTiming` | `PadTiming` |
| `CeLowIsBounded` | `CeLowBound` |
| `ReadsLeaveTheBus` | `ReadTurnaround` |
| `EngineKeepsContract` | `ImplementsContract`, a refinement |

The next-state logic is tabulated first: from `PhaseInv`, a phase has between 1 and 22
rising SCK edges, so the five bits of the count never wrap and a phase ends exactly on its
last falling edge. `FrameInv` is the heart: the length of the frame so far is
`sck_before[curr_state]` plus the count, CE# has been low for as long as that takes, and
the nibble waiting on the pads is the next one of the frame. That a write nibble is the
right one needs `ConsumerInv`, which says how far the consumer has got when the engine
samples `wdata`.

### The chip

`TinyDmaProofs` is about the whole of `TinyDma`, for every buffer depth and every staged
memory; nothing is assumed of the descriptors.

| Theorem | Property |
|---|---|
| `BusHasOneDriver` | `NoContention` |
| `DoneIsQuiet` | `DoneMeansQuiet` |

The three drivers of the bus are kept apart for three reasons. The host drives only under
a grant it has seen or in reset (`HostInv`), and a grant it has seen cannot go away under
it, since no old request can still be in the synchroniser when BUS_REQ rises (`SyncInv`).
The ASIC drives SIO by the phase of its engine, and CE# names the device of the request
(`PadInv`), which the controller keeps although it computes it from a descriptor that
shifts meanwhile. A device drives only in the data phase of a read; `DeviceInv` steps
each of the two devices along with the engine, edge by edge, so a driving device is a
selected one whose phase is the engine's, and there the engine has floated SIO.
`DoneIsQuiet` then follows from `ControllerInv`: the engine is at work only inside a
transaction.

### The session

`HostSessionProofs` is about `HostSession` with any number of calls, refusals, timeouts and
ctrl-C, in any order; it needs no assumption.

| Theorem | Property |
|---|---|
| `DriveIsLegal` | `DriveLegal` |
| `BusIsReturned` | `BusReturned` |
| `ModesAreTruthful` | `InQpiTruthful` |
| `IdleIsReported` | `IdleReported` |
| `RecoverIsUsable` | `RecoveredIsUsable` |
| `StartIsTaken` | `StartTaken`, an action property |

A call is a list of operations, so its invariant has to say what holds before each of
them. Instead of annotating every list at every point, the module has five *proof
outlines*. An outline has a few contexts, each a fact about the state, and says which
operation leads from which context to which: in the outline of the bus, `bus_req 1` leads
from *free* to *asked* and a wait for the grant from there to *owned*. `Leads(Steps, a, s, b)`
says that the operations of `s` lead from `a` to `b`, and the invariant is that the state
satisfies some context from which the operations left lead to the context that the call
ends in. Then there are two kinds of lemmas. That the lists of `session.py` follow the
outline is put together like the lists, with `LeadsThen` for `\o`. That a step keeps the
invariant is one lemma per action, where a timeout, an exception or a `finally` has to lead
to the end from wherever it strikes.

| Outline | Contexts follow |
|---|---|
| `BusInv` | request, grant, drive and release, START between its two writes; until a ctrl-C |
| `ModeInv` | which devices are in QPI while `in_qpi` is not yet, or no longer, true of them |
| `BegunInv` | a START on its way to the chip, so that a reported end is the end of a chain |
| `UpInv` | a `recover`, from a first context that assumes nothing, hence also after a ctrl-C |
| `LowInv` | START from a `reset_dma` on, which a `recover` after it relies on |

`SampledInv` says what the chip has sampled once a pin write has settled. The outlines lean
on each other: the modes change only with the bus (`BusIsOwned`), a bring-up ends in QPI
only because the chip does not take the bus back (`GrantStays`), and the bus is known again
after a ctrl-C because of `UpInv` and `LowInv` together: a `recover` brings the bus and the
modes back but leaves `ui_start` alone, which is why only a `reset_dma` before it ends what
the ctrl-C began.

### The PSRAM driver

`PsramProofs` is about `Psram` with any number of calls and ctrl-C, spans of any length
and every SCK frequency that `Psram.__init__` accepts (`SckAssumption`). It assumes that a
span asked for stays within its device (`SpanAssumption`). `psram.py` itself takes any
span; its callers keep theirs within a device (the layouts of `src/hil/cases.py`, the dumps
of `src/hil/checks.py`, which are cut at `ADDR_MAX`). The debug helpers may be asked for one
that runs over the top; what the device then wraps around is in neither the run nor the
theorems.

| Theorem | Property |
|---|---|
| `PulsesFit`, `PulsesTile` | the chunk planner, below |
| `WritesAreExact` | `WriteExact` |
| `ReadsAreExact` | `ReadExact` |
| `PadsHaveOneOwner` | `PadsOwned` |
| `OnlyInterruptsFail` | a call fails by a ctrl-C and nothing else: the safety half of `CallsReturn` |

The planner is arithmetic. `PulsesFit`: a pulse of a full chunk keeps CE# low for no longer
than tCEM, and a read command with its words, or a write with its payload, fits the FIFOs,
so that no check of the transport refuses one and no put blocks. `PulsesTile`: the pulses
of a span begin at its first byte, each begins where the one before it ended, the last ends
at the last byte, and none is empty or longer than a chunk.

The calls have one proof outline, used as in the session. A context is a place in a CE#
pulse, the number of bytes of the span that are done, and what the place counts (words put
or got); `Fact` says what is known there, and `Step` which operation leads from which
context to which. Three kinds of lemmas make the invariant `IInv`:

- *The programs follow the outline.* `write` and `read` are a pulse per chunk, put
  together by `FlattenSeq`; the lemma about them goes by induction over the pulses, with
  `PulsesTile` for where each begins. Induction here is about a *set* of naturals
  (`Induct`, from the well-foundedness of `<`), which needs no operator as a parameter.
- *A state machine keeps what is known* (`PioKeepsFact`). While `wr` sends, the words left
  in the FIFO, in its shift register and the nibbles in the device are always the frame of
  the pulse (`Sending`): the device has the address after six nibbles, and from then on two
  more of them store the next byte of the span. While `rd` receives, the samples it has
  taken are those of the device one falling edge late (`Reading`): six dummy cycles, the
  lag, and then the nibbles of the span. That is known for the eight words that fit the
  FIFO with none in hand, and no pulse gets more; what the free-running machine queues
  after that is left open, as is where it stops.
- *An operation leads to the next fact* (`OperationKeepsFact`). The harder ones are
  `realign`, which pairs the nibbles of the words anew, and the `stop` and `park` of a
  machine before the pads change hands.

At rest the invariant says that the bytes done are in memory, or in `got`, and that the
machines are stopped; queued leftovers of an earlier burst are allowed, since `stop` and
`restart` clear them. After a ctrl-C the fact of some context still holds while the
machines run on, until the release; from then on `Released`, with a prefix of the write in
memory. TLC checked `IInv` on the `psram` instance, its contexts enumerated, before it was
proved.

### The link

`HilLinkProofs` is about `HilLink` with any number of calls, attempts, resets and reboots.

| Theorem | Property |
|---|---|
| `StreamIsInStep` | `StreamInStep` |
| `ResetsResolve` | `ResetResolves` |
| `LinkKeepsContract` | `Implements`, a refinement of `LinkContract` |

All three rest on what the cable can hold (`CableInv`): at most one statement is anywhere
between the host's send and the board's reply, behind it at most one ctrl-C and ctrl-A,
and a banner is the last thing the board said. So a host that has read the banner has read
everything before it, and `HostInv` says what a handle that is not `_dirty` then stands
for. `FollowInv` and `AnswerInv` follow one call: the reply being read is that of the
statement sent last, it was started once, and its last line is the envelope of its own
entry point.

### The test flow

`HilRunProofs` is about `HilRun` with any number of source files, commands, cases,
defects, edits, failures and tests. It assumes that a command is a name and an engine
(`CommandsAssumption`) and what the catalog gives: a case installs every cell its chain
reads, its chain does not write its own descriptors, and no case of the random campaign
restarts (`CasesAssumption`).

| Theorem | Property |
|---|---|
| `TestsRunOnTheBitstream` | `BoardAgrees` |
| `BuildsAreFresh` | `BuildIsFresh` |
| `RedBlamesTheTree` | `RedIsOfTheTree` |
| `PoisonIsDecisive` | `PoisonCatches` |
| `ReusedIsCurrent` | `ReuseIsCurrent`, an action property |

The inductive invariant has six parts, each resting on those before it. `FilesInv`: no
file is newer than now, and while a command runs what is in the tree has been `seen`.
`BuildInv` follows the bitstream of a
build: until the tools have run there is no product, since staging removed it, the stage holds only what has been seen, and so the product, what is
published and what is sent are `Fresh`. Without the removal an earlier product would pass for this one. `BoardInv`: from the end of the copy on the flash holds the published file, and
what the board loads after its reset is that or nothing. `CaseInv` says which cells
still hold what the case installed: all of them before a random poison, and from the
check of the head on those that the poison spares (`Kept`, the cells that are no
destination or are read); with a working design the checks then pass, hence a failing
one has a broken version among its inputs, and `BuildInv` says that it has been in the tree
since the run began. `ImagesInv` says of every image, wherever it is, that a
source in it is the one in the tree, newer than it, gone, or edited while it was built.
`PoisonInv` says what a destination holds from the poison to the dump: the inverse of what
the check expects unless a START wrote it.

### What is left to the model checker

Every liveness property (`BusyEnds`, `GrantServed`, `ChainCompletes`, `CallsEnd`,
`CallsReturn`, `CallEnds`, `CommandEnds`), which the prover cannot reach, and the refinement
`ImplementsChain` of the chip with its engine and pads, of which `DmaChainProofs` proves the
controller's part and `QspiEngineProofs` the engine's. That the chip of `HostSession`
is the chip of `DmaCore` is proved, and that the engine of `DmaCore` is `QspiEngine`; the
synchronisers between host and controller are `TinyDma`'s.

## 5. Not modelled

The nanosecond timing of pads and devices: clk periods stand for it. X and Z
values: SIO that nobody drives reads as 0. Metastability of the synchronisers,
and the two START pulses the host could form within one clk. In `TinyDma` the
host releases the bus without having written, and `HostSession` has no memory: the
host's writes to the memories under grant are in neither; `Psram` has them, without
the chip. An interruption within a PIO-driven frame is in `Psram` and not in
`HostSession`. The objects an earlier `init` left behind when a later one is cut
short. Payloads and arguments of the calls in `HostSession`. The base64 and JSON of an
envelope. In the FPGA flow: `doctor`, which only reads, the search for
tt-support-tools, script texts, and the edits of `config.ini` that
`tt_fpga.py` makes. Clock frequencies. The
catalog of cases is represented by two layouts (one that restarts, one whose
destination is a source) and the random campaign by one. Widths of addresses: a chain
that crosses the top of a device is rejected by the oracle, so none is staged.

`run.py`, `detail.py` and `cli.py` (menus, argument vectors, report texts), the debug
helpers of the firmware (the same calls in a loop), test benches, monitors, the SymbiYosys
stubs, CI and documentation hold no state of a protocol and are not modelled.

## 6. Plan

Done: the engine and its contract, the controller, the oracle, the core, the chip,
the host port, the firmware session, its PSRAM driver, the link, the bitstream tool and
the tests, and the theorems above. Next, in this order:

1. Host writes to the memories under grant in `DmaCore`, with the oracle extended
   by a host step: a stalled chain sees them from the next transaction on.
2. Proofs: `TinyDma` from `DmaCore`, its engine's beats mapped to those of the contract,
   so that `ChainIsImplemented` carries over to the pads.
3. The wrap at the top of a device in the PSRAM driver, for the debug helpers.
