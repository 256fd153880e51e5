------------------------------ MODULE HostSession ------------------------------
(***************************************************************************)
(* The firmware on the microcontroller: firmware/session.py over dma.py,   *)
(* psram.py and board/.  Between two calls nothing runs; a call is the     *)
(* list of its operations on pins, devices and bookkeeping, carried out    *)
(* one by one while the chip, which is HostPort, runs on.                  *)
(*                                                                         *)
(* A pin write outlasts the chip's synchronisers (dma.py: "the GPIO write  *)
(* duration already covers the two-flop synchronizer"), so the operation   *)
(* after one waits until the chip has sampled it.  A ctrl-C, which the     *)
(* link sends to resynchronise, may end a call before any operation: it is *)
(* no Exception, so only the release in a finally clause still runs.       *)
(***************************************************************************)
EXTENDS Sequences, Naturals

CONSTANT Interrupts         \* the most ctrl-C that arrive

ASSUME InterruptsAssumption == Interrupts \in Nat

VARIABLES                   \* the chip: pins, and the flop of top.v's edge detector
  rst_n, ui_start, bus_req, start_d, done, bus_gnt

VARIABLES                   \* what the microcontroller drives; the devices' modes
  oe, pads, mode

VARIABLES                   \* the objects behind a session
  live, in_qpi, awaiting_done_fall, saw_busy

VARIABLES                   \* the call in progress, how the last one ended, and
                            \* whether a ctrl-C has cut a call off since the last recovery
  call, todo, in_try, failed, polled, began, seen, last, interrupts, cut

pins == <<rst_n, ui_start, bus_req>>
chip == <<start_d, done, bus_gnt>>
drive == <<oe, pads>>
session == <<live, in_qpi, awaiting_done_fall, saw_busy>>
progress == <<call, todo, in_try, failed, polled, began, seen, last, interrupts, cut>>
vars == <<pins, chip, drive, mode, session, progress>>

Devices == {0, 1}
NONE == "none"

start == IF ui_start = 1 /\ start_d = 0 THEN 1 ELSE 0

Chip == INSTANCE HostPort

Init ==
  /\ rst_n = 1 /\ ui_start = 0 /\ bus_req = 0 /\ start_d = 0 /\ Chip!Init
  /\ oe = "HIZ" /\ pads = NONE /\ mode = [d \in Devices |-> "SPI"]
  /\ live = FALSE /\ in_qpi = FALSE /\ awaiting_done_fall = FALSE /\ saw_busy = FALSE
  /\ call = NONE /\ todo = <<>> /\ in_try = FALSE /\ failed = FALSE
  /\ polled = FALSE /\ began = FALSE /\ seen = TRUE /\ last = <<NONE, TRUE>>
  /\ interrupts = 0 /\ cut = FALSE

-------------------------------------------------------------------------------
(***************************************************************************)
(* The calls, as lists of operations.                                      *)
(***************************************************************************)
hiz == << <<"release_pins">>, <<"oe", "HIZ">> >>

kill_dma ==
  hiz \o << <<"zero_ui_in">>, <<"rst_n", 0>>, <<"oe", "HIZ">>, <<"forget_start">> >>

request_bus(dir) ==
  << <<"may_request">>, <<"bus_req", 1>>, <<"wait", "BUS_GNT">>, <<"drive", dir>> >>

\* Mutant: the pads are released after the request is dropped.
release_bus_late == << <<"bus_req", 0>> >> \o hiz \o << <<"wait", "BUS_GNT low">> >>

\* Mutant: the grant is not waited for.
release_bus_unwaited == hiz \o << <<"bus_req", 0>> >>

release_bus == hiz \o << <<"bus_req", 0>>, <<"wait", "BUS_GNT low">> >>

pulse_start ==
  hiz \o << <<"may_start">>, <<"ui_start", 1>>, <<"poll">>,
            <<"ui_start", 0>>, <<"poll">>, <<"record_poll">> >>

spi(d, cmd) == << <<"drive", "SPI">>, <<"spi", d, cmd>> >>
spi_reset(d) == spi(d, "RESET_ENABLE") \o << <<"spi", d, "RESET">> >>
enter_qpi(d) == spi(d, "ENTER_QPI")
exit_qpi(d) ==
  << <<"drive", "QPI">>, <<"qpi", d, "EXIT_QPI">>, <<"restore_spi_pins">>, <<"drive", "SPI">> >>

bring_up_both ==
  spi_reset(0) \o enter_qpi(0) \o spi_reset(1) \o enter_qpi(1) \o << <<"in_qpi", TRUE>> >>

\* Mutant: the session still counts the devices as in QPI.
exit_qpi_unrecorded == exit_qpi(0) \o exit_qpi(1)

exit_qpi_both == exit_qpi(0) \o exit_qpi(1) \o << <<"in_qpi", FALSE>> >>

\* request_bus; try: body; finally: release_bus
granted(dir, body) == request_bus(dir) \o << <<"try">> >> \o body \o << <<"finally">> >>

exit_if_in_qpi == IF in_qpi THEN exit_qpi_both ELSE <<>>

\* The two Hi-Z writes of enable_design, with the clock and mux switched between
\* them, are one.
init ==
  << <<"new_objects">>, <<"zero_ui_in">>, <<"rst_n", 0>>, <<"oe", "HIZ">>, <<"rst_n", 1>>,
     <<"expect_idle">>, <<"forget_start">>, <<"ready">> >>

bring_up_psram(force) ==
  IF in_qpi /\ ~force THEN <<>> ELSE granted("SPI", exit_if_in_qpi \o bring_up_both)

write_span(d) ==            \* two chunks, a CE# pulse each
  granted("QPI", << <<"drive", "QPI">>, <<"qpi", d, "WRITE">>, <<"qpi", d, "WRITE">> >>)

read_span(d) ==
  granted("READ", << <<"drive", "READ">>, <<"qpi", d, "READ">>, <<"qpi", d, "READ">> >>)

qpi_probe_read(d) == granted("READ", << <<"qpi", d, "READ">> >>)

wait_idle == << <<"wait_busy">> >>

recover ==
  << <<"rst_n", 1>>, <<"expect_idle">> >> \o granted("QPI", exit_if_in_qpi \o bring_up_both)

shutdown(exit) ==
  (IF exit /\ in_qpi THEN granted("QPI", exit_qpi_both) ELSE <<>>)
    \o hiz \o << <<"zero_ui_in">>, <<"clear_state">> >>

-------------------------------------------------------------------------------
(***************************************************************************)
(* Carrying out a call.                                                    *)
(***************************************************************************)
op == Head(todo)

\* How the call before ended matters to no call but recover.
Begin(name, program) ==
  /\ call = NONE
  /\ call' = name /\ todo' = program /\ in_try' = FALSE /\ failed' = FALSE
  /\ began' = FALSE /\ last' = IF name = "recover" THEN last ELSE <<NONE, TRUE>>
  /\ UNCHANGED <<pins, chip, drive, mode, session, polled, seen, interrupts, cut>>

\* hil/session.py's reset_recovery, a reset_dma and then a recover, ends what a ctrl-C
\* began.
Recovered == call = "recover" /\ ~failed /\ last = <<"reset_dma", TRUE>>

Return ==
  /\ call # NONE /\ todo = <<>>
  /\ last' = <<call, ~failed>> /\ call' = NONE
  /\ cut' = (cut /\ ~Recovered) /\ polled' = FALSE
  /\ UNCHANGED <<pins, chip, drive, mode, session, todo, in_try, failed, began, seen,
                 interrupts>>

\* What an exception leaves to do.
Raise ==
  /\ todo' = IF in_try THEN release_bus ELSE <<>>
  /\ in_try' = FALSE /\ failed' = TRUE

Operation(name) == todo # <<>> /\ op[1] = name /\ seen
Done == todo' = Tail(todo) /\ UNCHANGED <<in_try, failed>>
Check(passes) == IF passes THEN Done ELSE Raise

\* An operation that neither writes a pin nor polls leaves these alone.
Same == UNCHANGED <<call, polled, began, seen, last, interrupts, cut, chip>>

SetPin ==                   \* GPIO writes of ui_in and rst_n
  /\ \/ Operation("ui_start") /\ ui_start' = op[2] /\ UNCHANGED <<bus_req, rst_n>>
     \/ Operation("bus_req") /\ bus_req' = op[2] /\ UNCHANGED <<ui_start, rst_n>>
     \/ Operation("zero_ui_in") /\ ui_start' = 0 /\ bus_req' = 0 /\ UNCHANGED rst_n
     \/ Operation("rst_n") /\ rst_n' = op[2] /\ UNCHANGED <<ui_start, bus_req>>
  /\ seen' = FALSE /\ Done
  /\ UNCHANGED <<chip, drive, mode, session, call, polled, began, last, interrupts, cut>>

\* rst_n stands for the Board's record of it: only an interrupted init separates them.
drive_legal == bus_gnt = 1 \/ rst_n = 0

SetDrive ==                 \* OE register and PIO-owned pads
  /\ \/ Operation("oe") /\ oe' = op[2] /\ pads' = pads /\ Done
     \/ /\ Operation("drive") /\ pads' = pads /\ Check(drive_legal)
        /\ oe' = IF drive_legal THEN op[2] ELSE oe
     \/ Operation("release_pins") /\ pads' = NONE /\ oe' = oe /\ Done
     \/ Operation("restore_spi_pins") /\ pads' = "SPI" /\ oe' = oe /\ Done
  /\ UNCHANGED <<pins, mode, session>> /\ Same

\* A frame in the other mode's format is no command at all: an SPI opcode is
\* short or has SD2 and SD3 pulled high, which no QPI opcode has in both nibbles.
mode_after(m, bus, cmd) ==
  IF bus # m THEN m
  ELSE IF cmd = "ENTER_QPI" THEN "QPI" ELSE IF cmd = "EXIT_QPI" THEN "SPI" ELSE m

Frame ==                    \* one CE# pulse
  /\ \/ /\ Operation("spi") /\ pads' = "SPI"
        /\ mode' = [mode EXCEPT ![op[2]] = mode_after(@, "SPI", op[3])]
     \/ /\ Operation("qpi") /\ pads' = IF op[3] = "READ" THEN "READ" ELSE "QPI"
        /\ mode' = [mode EXCEPT ![op[2]] = mode_after(@, "QPI", op[3])]
  /\ Done /\ UNCHANGED <<pins, oe, session>> /\ Same

\* Mutant: START does not look at DONE.
start_legal_busy == bus_req = 0 /\ bus_gnt = 0

start_legal == bus_req = 0 /\ bus_gnt = 0 /\ done = 1

\* Mutant: a session is recovered while a chain runs.
port_idle_granted == bus_gnt = 0

port_idle == done = 1 /\ bus_gnt = 0

Guard ==                    \* the checks that raise
  /\ \/ Operation("may_request") /\ Check(~(awaiting_done_fall /\ done = 1))
     \/ Operation("may_start") /\ Check(start_legal)
     \/ Operation("expect_idle") /\ Check(port_idle)
     \/ Operation("raise") /\ Raise
  /\ UNCHANGED <<pins, drive, mode, session>> /\ Same

holds ==
  [p \in {"BUS_GNT", "BUS_GNT low", "DONE"} |->
     CASE p = "BUS_GNT" -> bus_gnt = 1
       [] p = "BUS_GNT low" -> bus_gnt = 0
       [] p = "DONE" -> done = 1]

\* Mutant: a wait without a timeout.
timed_out_never(p) == FALSE

timed_out(p) == ~holds[p]

Wait ==                     \* poll_until; a timeout kills, then raises
  /\ Operation("wait")
  /\ \/ holds[op[2]] /\ Done
     \/ /\ timed_out(op[2])
        /\ todo' = kill_dma \o << <<"raise">> >> /\ UNCHANGED <<in_try, failed>>
  /\ UNCHANGED <<pins, drive, mode, session>> /\ Same

Poll ==                     \* DONE low is the acknowledge of START
  /\ Operation("poll") /\ polled' = (polled \/ done = 0) /\ Done
  /\ UNCHANGED <<pins, chip, drive, mode, session, call, began, seen, last, interrupts, cut>>

\* Mutant: the acknowledge of START is taken for the end of the chain.
after_ack_done(busy) == <<>>

after_ack(busy) == IF busy THEN << <<"wait", "DONE">>, <<"forget_start">> >> ELSE <<>>

WaitBusy ==
  /\ Operation("wait_busy")
  /\ saw_busy' = (saw_busy \/ done = 0) /\ awaiting_done_fall' = FALSE
  /\ todo' = after_ack(saw_busy') \o Tail(todo) /\ UNCHANGED <<in_try, failed>>
  /\ UNCHANGED <<pins, drive, mode, live, in_qpi>> /\ Same

Bookkeeping ==
  /\ \/ /\ Operation("record_poll")
        /\ saw_busy' = polled /\ awaiting_done_fall' = ~polled
        /\ UNCHANGED <<live, in_qpi>>
     \/ /\ Operation("forget_start") \/ Operation("new_objects")
        /\ saw_busy' = FALSE /\ awaiting_done_fall' = FALSE
        /\ UNCHANGED <<live, in_qpi>>
     \/ /\ Operation("in_qpi") /\ in_qpi' = op[2]
        /\ UNCHANGED <<live, awaiting_done_fall, saw_busy>>
     \/ /\ Operation("ready") /\ live' = TRUE /\ in_qpi' = FALSE
        /\ UNCHANGED <<awaiting_done_fall, saw_busy>>
     \/ /\ Operation("clear_state") /\ live' = FALSE /\ in_qpi' = FALSE
        /\ awaiting_done_fall' = FALSE /\ saw_busy' = FALSE
  /\ Done /\ UNCHANGED <<pins, drive, mode>> /\ Same

TryFinally ==
  /\ \/ Operation("try") /\ in_try' = TRUE /\ todo' = Tail(todo)
     \/ Operation("finally") /\ in_try' = FALSE /\ todo' = release_bus \o Tail(todo)
  /\ UNCHANGED <<failed, pins, drive, mode, session>> /\ Same

Execute ==
  \/ SetPin \/ SetDrive \/ Frame \/ Guard \/ Wait \/ Poll \/ WaitBusy \/ Bookkeeping
  \/ TryFinally \/ Return

Interrupt ==
  /\ todo # <<>> /\ interrupts < Interrupts
  /\ interrupts' = interrupts + 1 /\ cut' = TRUE /\ Raise
  /\ UNCHANGED <<pins, chip, drive, mode, session, call, polled, began, seen, last>>

Clk ==                      \* the chip, and the edge detector in front of START
  /\ Chip!Next
  /\ start_d' = IF rst_n = 0 THEN 0 ELSE ui_start
  /\ seen' = TRUE /\ began' = (began \/ (done = 1 /\ done' = 0))
  /\ UNCHANGED <<pins, drive, mode, session, call, todo, in_try, failed, polled, last,
                 interrupts, cut>>

-------------------------------------------------------------------------------
(***************************************************************************)
(* The host's calls, in any order it likes.                                *)
(***************************************************************************)
Call ==
  \/ Begin("init", init)
  \/ /\ live
     /\ \/ \E force \in BOOLEAN : Begin("bring_up_psram", bring_up_psram(force))
        \/ \E d \in Devices : \/ Begin("write_span", write_span(d))
                              \/ Begin("read_span", read_span(d))
                              \/ Begin("qpi_probe_read", qpi_probe_read(d))
        \/ Begin("pulse_start", pulse_start)
        \/ Begin("wait_idle", wait_idle)
        \/ Begin("start_and_wait", pulse_start \o wait_idle)
        \/ Begin("reset_dma", kill_dma)
        \/ Begin("recover", recover)
        \/ \E exit \in BOOLEAN : Begin("shutdown", shutdown(exit))
        \/ Begin("clear_state", << <<"clear_state">> >>)

Next == Call \/ Execute \/ Interrupt \/ Clk

\* The project clock runs and the microcontroller keeps executing a call; when a
\* poll times out, and when the host calls, is open.
Spec == Init /\ [][Next]_vars /\ WF_vars(Execute) /\ WF_vars(Clk)

-------------------------------------------------------------------------------
(***************************************************************************)
(* Properties.                                                             *)
(***************************************************************************)
released == oe = "HIZ" /\ pads = NONE

\* What session.py says: "MCU QSPI OE is Hi-Z unless BUS_GNT=1 or rst_n=0".
HizUnlessGranted == released \/ bus_gnt = 1 \/ rst_n = 0

\* The microcontroller drives the QSPI pins, through the OE register or through
\* pads it gave to the PIO, only under BUS_GNT or in reset (D26): from the start up to
\* the first ctrl-C, and again from the reset_recovery after it.
DriveLegal == cut \/ HizUnlessGranted

\* However a call ends, by return, refusal or timeout, the bus is the chip's again
\* and START is low: a START that a ctrl-C left high is low after reset_recovery.
BusReturned ==
  call = NONE /\ ~cut => released /\ bus_req = 0 /\ bus_gnt = 0 /\ ui_start = 0

\* Whenever the chip has the bus, a session that counts the devices as in QPI is
\* right, so the chip's descriptors and bytes are read in the mode it speaks.
InQpiTruthful == ~cut /\ in_qpi /\ bus_gnt = 0 => \A d \in Devices : mode[d] = "QPI"

\* A START that the firmware lets through to a chip out of reset begins a chain.
StartTaken == [][~cut /\ Clk /\ start = 1 /\ rst_n = 1 => done = 1 /\ done' = 0]_vars

\* When the firmware says that the chip is idle after START, it is, and when it
\* says so to a chip out of reset the chain has run: results are never read back
\* from a chain in progress or one that was not begun.
IdleReported ==
  call = NONE /\ ~cut =>
    /\ last = <<"wait_idle", TRUE>> => done = 1
    /\ last = <<"start_and_wait", TRUE>> => done = 1 /\ (began \/ rst_n = 0)

\* Whatever calls, timeouts and interruptions came before, a recover that returns
\* leaves the chip idle, out of reset and with the bus, and both devices in QPI.
RecoveredIsUsable ==
  call = NONE /\ last = <<"recover", TRUE>> =>
    /\ rst_n = 1 /\ done = 1 /\ bus_gnt = 0 /\ bus_req = 0 /\ released
    /\ in_qpi /\ \A d \in Devices : mode[d] = "QPI"

\* Every call ends, whatever the chain does.
CallsEnd == call # NONE ~> call = NONE
=============================================================================
