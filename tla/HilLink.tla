-------------------------------- MODULE HilLink --------------------------------
(***************************************************************************)
(* The host's link to the microcontroller: hil/link.py's Link over one     *)
(* SerialTransport, the raw REPL at the far end of the USB cable, and the  *)
(* envelope firmware/link.py prints.  The cable is two queues; a timeout   *)
(* may come at any moment of a wait; the port may be held by another       *)
(* program, and the board may reboot by itself.                            *)
(*                                                                         *)
(* mpremote is outside the repository.  Of it this module takes what       *)
(* link.py says of it: enter_raw_repl sends ctrl-C, flushes what has       *)
(* arrived and waits for the banner of its own ctrl-A; exec_raw sends one  *)
(* statement and takes the next reply; a handle whose port has dropped     *)
(* raises.                                                                 *)
(***************************************************************************)
EXTENDS Naturals, Sequences, SequencesExt

CONSTANTS
  Calls,                    \* the most calls
  Attempts,                 \* the connection attempts before _connect's deadline
  Resets,                   \* the most Link.reset
  Reboots                   \* the most reboots nobody asked for

ASSUME HilLinkAssumption ==
  Calls \in Nat /\ Attempts \in Nat \ {0} /\ Resets \in Nat /\ Reboots \in Nat

VARIABLES                   \* Link and SerialTransport
  opened,                   \* Link._opened
  repl,                     \* _repl: "none", or a handle: "open", "raw" or "dead"
  dirty                     \* _dirty

VARIABLES                   \* the host's place in its call
  pc, todo, tries

VARIABLES                   \* the cable and the board
  inp, out, port, heap, running

VARIABLES                   \* the calls so far, see LinkContract
  call, answer, outcome

VARIABLES                   \* how often the environment acted; how the last reset went
  resets, reboots, reset

link == <<opened, repl, dirty>>
place == <<pc, todo, tries>>
board == <<inp, out, port, heap, running>>
calls == <<call, answer, outcome>>
faults == <<resets, reboots, reset>>
vars == <<link, place, board, calls, faults>>

Contract == INSTANCE LinkContract
NONE == Contract!NONE
TRANSPORT_ERROR == Contract!TRANSPORT_ERROR

CTRL_C == <<"ctrl-C">>
CTRL_A == <<"ctrl-A">>
BANNER == <<"banner">>
PREAMBLE == <<"preamble">>          \* import firmware.session as session
HARD_RESET == <<"hard reset">>
Statement(c) == <<"call", c>>

Reply(lines, err) == <<"reply", lines, err>>

Init ==
  /\ opened = FALSE /\ repl = "none" /\ dirty = FALSE
  /\ pc = "idle" /\ todo = <<>> /\ tries = 0
  /\ inp = <<>> /\ out = <<>> /\ port = "up" /\ heap = FALSE /\ running = <<>>
  /\ Contract!Init
  /\ resets = 0 /\ reboots = 0 /\ reset = "none"

-------------------------------------------------------------------------------
(***************************************************************************)
(* firmware/link.py and its mirror: a statement prints lines, the last of  *)
(* them its envelope.  Lines printed before come from debug helpers, or    *)
(* from an enveloped entry point called by another.                        *)
(***************************************************************************)
\* "text" stands for any line that is neither an OK nor an ERR line.
Printed(e) == {before \o <<e>> : before \in {<<>>, <<"text">>, <<"OK">>}}

\* Mutant: the first line is taken for the envelope.
envelope_first(lines) == IF lines = <<>> THEN "text" ELSE Head(lines)

envelope_line(lines) == IF lines = <<>> THEN "text" ELSE Last(lines)

parse_payload(lines) ==
  IF envelope_line(lines) \in {"OK", "ERR"} THEN envelope_line(lines) ELSE TRANSPORT_ERROR

-------------------------------------------------------------------------------
(***************************************************************************)
(* SerialTransport.                                                        *)
(***************************************************************************)
\* What the board has not read yet, up to the last statement.
unread_statements ==
  SubSeq(inp, 1, Max({0} \cup {i \in 1..Len(inp) : inp[i] \notin {CTRL_C, CTRL_A}}))

\* enter_raw_repl(soft_reset=False): a ctrl-C and ctrl-A the board has not read yet
\* are one with the new ones, which it answers once.
EnterRawRepl(handle) ==
  /\ inp' = IF handle = "dead" THEN inp ELSE unread_statements \o <<CTRL_C, CTRL_A>>
  /\ out' = IF handle = "dead" THEN out ELSE <<>>

\* What an exception does to the call; the statements left are not sent.
Raise ==
  /\ pc' = "idle" /\ todo' = <<>>
  /\ outcome' = IF call > 0 /\ outcome[call] = NONE
                THEN [outcome EXCEPT ![call] = TRANSPORT_ERROR] ELSE outcome
  /\ reset' = IF reset = "going" THEN "none" ELSE reset

\* _drop: leaving the raw REPL of a live handle is a ctrl-B that nothing waits for.
Drop == repl' = "none" /\ dirty' = FALSE

EnsureConnected ==
  /\ pc = "ensure"
  /\ \/ /\ repl = "none"
        /\ pc' = "connect" /\ tries' = 0 /\ UNCHANGED <<inp, out>>
     \/ /\ repl # "none" /\ dirty
        /\ EnterRawRepl(repl) /\ pc' = "resync" /\ UNCHANGED tries
     \/ /\ repl # "none" /\ ~dirty
        /\ pc' = "send" /\ UNCHANGED <<tries, inp, out>>
  /\ UNCHANGED <<link, todo, port, heap, running, calls, faults>>

OpenPort ==
  /\ pc = "connect" /\ port = "up"
  /\ repl' = "open" /\ EnterRawRepl("open") /\ pc' = "enter"
  /\ UNCHANGED <<opened, dirty, todo, tries, port, heap, running, calls, faults>>

\* Mutant: the deadline is never looked at.
retry_forever == tries' = tries

retry == tries < Attempts /\ tries' = tries + 1

\* The port is gone or held, or no banner came: a transient error is retried until
\* the deadline; any other, and the last one, is raised.
ConnectFails ==
  /\ pc \in {"connect", "enter"}
  /\ Drop
  /\ \/ retry /\ pc' = "connect" /\ UNCHANGED <<todo, outcome, reset>>
     \/ Raise /\ UNCHANGED tries
  /\ UNCHANGED <<opened, board, call, answer, resets, reboots>>

ResyncFails ==
  /\ pc = "resync"
  /\ Drop /\ pc' = "connect" /\ tries' = 0
  /\ UNCHANGED <<opened, todo, board, calls, faults>>

\* The banner ends both; after a reset, Link.open sends the preamble next.
Entered ==
  /\ pc \in {"enter", "resync"} /\ repl # "dead"
  /\ \E i \in 1..Len(out) : out[i] = BANNER /\ out' = SubSeq(out, i + 1, Len(out))
  /\ repl' = "raw" /\ dirty' = FALSE /\ opened' = TRUE
  /\ pc' = IF todo = <<>> THEN "idle" ELSE "send"
  /\ reset' = IF todo = <<>> THEN "done" ELSE reset
  /\ UNCHANGED <<todo, tries, inp, port, heap, running, calls, resets, reboots>>

Send ==
  /\ pc = "send" /\ repl = "raw"
  /\ inp' = Append(inp, Head(todo)) /\ pc' = "follow"
  /\ UNCHANGED <<link, todo, tries, out, port, heap, running, calls, faults>>

\* Mutant: the stream is taken to be still in step.
ExecFailsClean ==
  /\ pc \in {"send", "follow"}
  /\ Raise
  /\ UNCHANGED <<link, tries, board, call, answer, resets, reboots>>

\* Mutant: the statement is sent again after a resync.
ExecRetries ==
  /\ pc \in {"send", "follow"}
  /\ dirty' = TRUE /\ pc' = "ensure"
  /\ UNCHANGED <<opened, repl, todo, tries, board, calls, faults>>

\* A timeout, or a handle that raises.
ExecFails ==
  /\ pc \in {"send", "follow"}
  /\ dirty' = TRUE /\ Raise
  /\ UNCHANGED <<opened, repl, tries, board, call, answer, resets, reboots>>

Returned(lines) ==
  /\ todo' = Tail(todo)
  /\ IF Head(todo) = PREAMBLE
     THEN /\ pc' = IF Tail(todo) = <<>> THEN "idle" ELSE "ensure"
          /\ reset' = IF Tail(todo) = <<>> THEN "done" ELSE reset
          /\ UNCHANGED outcome
     ELSE /\ pc' = "idle" /\ outcome' = [outcome EXCEPT ![call] = parse_payload(lines)]
          /\ UNCHANGED reset

\* exec_raw returns the next reply; text on stderr is an error.
Follow ==
  /\ pc = "follow" /\ repl = "raw" /\ out # <<>> /\ Head(out) # BANNER
  /\ out' = Tail(out)
  /\ IF Head(out)[3] THEN dirty' = TRUE /\ Raise
     ELSE Returned(Head(out)[2]) /\ UNCHANGED dirty
  /\ UNCHANGED <<opened, repl, tries, inp, port, heap, running, call, answer,
                 resets, reboots>>

\* exec_raw_no_follow(HARD_RESET_CODE): without a prompt, or on a dead handle, it
\* raises, which is ignored; the lock is dropped either way.
SendHardReset ==
  /\ pc = "reset"
  /\ \/ repl = "raw" /\ running = <<>> /\ inp = <<>> /\ inp' = <<HARD_RESET>>
     \/ UNCHANGED inp
  /\ Drop /\ pc' = "settle"
  /\ UNCHANGED <<opened, todo, tries, out, port, heap, running, calls, faults>>

\* settle_s outlasts the 100 ms before machine.reset.
Settle ==
  /\ pc = "settle" /\ HARD_RESET \notin Range(inp \o running)
  /\ pc' = "connect" /\ tries' = 0
  /\ UNCHANGED <<link, todo, board, calls, faults>>

-------------------------------------------------------------------------------
(***************************************************************************)
(* Link.                                                                   *)
(***************************************************************************)
\* open() counts as done before its statement is sent.
Exec ==
  /\ pc = "idle" /\ call < Calls
  /\ call' = call + 1
  /\ todo' = (IF opened THEN <<>> ELSE <<PREAMBLE>>) \o <<Statement(call + 1)>>
  /\ opened' = TRUE /\ pc' = "ensure"
  /\ UNCHANGED <<repl, dirty, tries, board, answer, outcome, faults>>

\* Mutant: the preamble is not sent again.
ResetKeepsOpened ==
  /\ pc = "idle" /\ resets < Resets
  /\ resets' = resets + 1 /\ reset' = "going"
  /\ todo' = <<>>
  /\ pc' = IF repl = "none" THEN "settle" ELSE "reset"
  /\ UNCHANGED <<link, tries, board, calls, reboots>>

Reset ==
  /\ pc = "idle" /\ resets < Resets
  /\ resets' = resets + 1 /\ reset' = "going"
  /\ opened' = FALSE /\ todo' = <<PREAMBLE>>
  /\ pc' = IF repl = "none" THEN "settle" ELSE "reset"
  /\ UNCHANGED <<repl, dirty, tries, board, calls, reboots>>

\* One Link closes, the next test's Link begins on the same transport.
Close(owns_transport) ==
  /\ pc = "idle"
  /\ opened' = FALSE
  /\ IF owns_transport THEN Drop ELSE UNCHANGED <<repl, dirty>>
  /\ UNCHANGED <<place, board, calls, faults>>

-------------------------------------------------------------------------------
(***************************************************************************)
(* The board: its REPL reads one message at a time, and a ctrl-C at the    *)
(* head of the queue interrupts the statement that runs.                   *)
(***************************************************************************)
Answered(e) ==
  answer' = IF running # <<>> /\ running[1][1] = "call" /\ answer[running[1][2]] = "running"
            THEN [answer EXCEPT ![running[1][2]] = e] ELSE answer

\* MicroPython forgets everything, and the CDC port drops under any handle.
Dies ==
  /\ port' = "gone" /\ heap' = FALSE /\ running' = <<>> /\ inp' = <<>> /\ out' = <<>>
  /\ repl' = IF repl = "none" THEN "none" ELSE "dead"
  /\ Answered("cut")
  /\ UNCHANGED <<opened, dirty, place, call, outcome>>

Reads ==
  /\ port = "up" /\ running = <<>> /\ inp # <<>>
  /\ inp' = Tail(inp)
  /\ LET m == Head(inp) IN
     IF m \in {CTRL_C, CTRL_A}
     THEN /\ out' = IF m = CTRL_A THEN Append(out, BANNER) ELSE out
          /\ UNCHANGED <<running, answer>>
     ELSE /\ running' = <<m>>
          /\ answer' = IF m[1] = "call" /\ heap
                       THEN [answer EXCEPT ![m[2]] = IF @ = NONE THEN "running" ELSE "again"]
                       ELSE answer
          /\ UNCHANGED out
  /\ UNCHANGED <<link, place, port, heap, call, outcome, faults>>

\* An entry point ends with its envelope; without the preamble there is no session.
Runs ==
  /\ running # <<>> /\ running[1] # HARD_RESET
  /\ running' = <<>>
  /\ IF running[1] = PREAMBLE
     THEN heap' = TRUE /\ out' = Append(out, Reply(<<>>, FALSE)) /\ UNCHANGED answer
     ELSE /\ UNCHANGED heap
          /\ IF heap
             THEN \E e \in Contract!Envelopes : \E lines \in Printed(e) :
                    out' = Append(out, Reply(lines, FALSE)) /\ Answered(e)
             ELSE out' = Append(out, Reply(<<>>, TRUE)) /\ UNCHANGED answer
  /\ UNCHANGED <<link, place, inp, port, call, outcome, faults>>

Interrupted ==
  /\ running # <<>> /\ inp # <<>> /\ Head(inp) = CTRL_C
  /\ running' = <<>> /\ inp' = Tail(inp) /\ out' = Append(out, Reply(<<>>, TRUE))
  /\ Answered("cut")
  /\ UNCHANGED <<link, place, port, heap, call, outcome, faults>>

HardResets == running = <<HARD_RESET>> /\ Dies /\ UNCHANGED <<resets, reboots, reset>>

Reboot ==
  /\ port = "up" /\ reboots < Reboots
  /\ reboots' = reboots + 1 /\ Dies
  /\ reset' = IF reset = "done" THEN "none" ELSE reset
  /\ UNCHANGED resets

PortReturns ==
  /\ port = "gone" /\ port' = "up"
  /\ UNCHANGED <<link, place, inp, out, heap, running, calls, faults>>

-------------------------------------------------------------------------------
Host == EnsureConnected \/ OpenPort \/ ConnectFails \/ ResyncFails \/ Entered \/ Send
          \/ ExecFails \/ Follow \/ SendHardReset \/ Settle

Board == Reads \/ Runs \/ Interrupted \/ HardResets

Next ==
  \/ Host \/ Board \/ Exec \/ Reset \/ PortReturns \/ Reboot
  \/ \E owns_transport \in BOOLEAN : Close(owns_transport)

Spec == Init /\ [][Next]_vars

\* The host's code runs, every wait of it has a timeout, and a board at its prompt
\* reads what was sent.
FairSpec == Spec /\ WF_vars(Host) /\ WF_vars(Board)

-------------------------------------------------------------------------------
(***************************************************************************)
(* Properties.                                                             *)
(***************************************************************************)
\* The serial link keeps the contract of the loopback: a statement is never sent
\* twice, not even after a failed exec ("Never retries the failed statement", _resync),
\* and a call that returns returns what its own entry point printed last.
Implements == Contract!Spec

\* "the next call resyncs instead of poisoning the run" (exec): when a statement is
\* about to be sent, nothing of an earlier call runs, waits to run, or has a reply on
\* the way, however that call failed.
StreamInStep ==
  pc = "send" =>
    /\ running = <<>>
    /\ repl # "dead" => \A i \in 1..Len(inp) : inp[i] \in {CTRL_C, CTRL_A}
    /\ out = <<>>

\* After a Link.reset that returned, until the board reboots by itself, the entry
\* points resolve: the preamble ran after the last time the board forgot it.
ResetResolves == reset = "done" => heap

\* Every call returns or raises, whatever the port and the board do.
CallEnds == pc # "idle" ~> pc = "idle"

\* What Link.open's docstring says, for a board that never reboots by itself: "Send the
\* preamble once, so `session.<name>(...)` resolves remotely."
PreambleResolves == running # <<>> /\ running[1][1] = "call" => heap
=============================================================================
