--------------------------------- MODULE HilRun ---------------------------------
(***************************************************************************)
(* A test run on the FPGA target: the bitstream fixture of                 *)
(* src/hil/conftest.py builds or vets a bitstream and sends it, then the   *)
(* tests run one after the other on the design the board has loaded.       *)
(***************************************************************************)
EXTENDS FpgaBitstream, HilCase

CONSTANTS
  Defects,                 \* sets of <<file, version>> that move bytes wrongly
  MaxTests                 \* bound: tests begun

VARIABLES
  tests,                   \* tests begun
  broken                   \* the <<file, version>> that move bytes wrongly

run_vars == <<fpga_vars, case_vars, tests, broken>>

Works(image) == \A f \in bitstream_inputs : <<f, image.built[f]>> \notin broken

Init == FpgaInit /\ CaseInit /\ tests = 0 /\ broken \in Defects

Command_(c) == Begin(c) /\ UNCHANGED <<case_vars, tests>>

Harden ==
  \/ FallBack \/ StageStart \/ StageCopy \/ Staged
  \/ harden_native \/ harden_official \/ PublishOpen \/ PublishEnd
Upload ==
  \/ Vet \/ SendOpen \/ SendEnd \/ SendOfficial \/ Reset \/ PortBack \/ PortGone
Prepare == (Harden \/ Upload) /\ UNCHANGED <<case_vars, tests>>

\* The link, target_profile and session fixtures, then the test.
Test(c) ==
  /\ tests < MaxTests /\ tests' = tests + 1
  /\ Enable /\ BeginCase(c)

CaseStep ==
  /\ pc = "testing" /\ up /\ loaded # NONE
  /\ \/ Install \/ Poison \/ Reinstall \/ CheckHead
     \/ StartAndWait(Works(loaded)) \/ Decide(Works(loaded))
  /\ UNCHANGED <<fpga_vars, tests>>

CaseErrs == Errs /\ UNCHANGED <<fpga_vars, tests>>

RunOver == step = "over" /\ RunEnds /\ Forget /\ UNCHANGED tests

Interrupted == Abort /\ Forget /\ UNCHANGED tests

Process ==
  \/ \E c \in Commands : Command_(c)
  \/ Prepare \/ RunOver \/ Interrupted
  \/ (\E c \in Cases : Test(c)) \/ CaseStep \/ CaseErrs

Developer ==
  /\ \E f \in bitstream_inputs : Edit(f) \/ Delete(f)
  /\ UNCHANGED <<case_vars, tests>>

Board ==
  \/ Boot /\ UNCHANGED <<case_vars, tests>>
  \/ PowerCycle /\ LosePower /\ UNCHANGED tests

Next == (Process \/ Developer \/ Board) /\ UNCHANGED broken

Spec == Init /\ [][Next]_run_vars

\* The process goes on or fails; nobody has to edit, and a board may stay down.
FairSpec == Spec /\ WF_run_vars(Process /\ UNCHANGED broken)

-------------------------------------------------------------------------------
(***************************************************************************)
(* Properties.                                                             *)
(***************************************************************************)
\* conftest.py: every policy ends with an upload, so that what the tests run on
\* is the file in hil/fpga/build, whatever failed or was left by earlier commands.
BoardAgrees == pc = "testing" => flash = bin /\ bin # NONE /\ loaded \in {bin, NONE}

\* conftest.py: a plain --target=fpga run never tests something older than the
\* source.  Every file of its bitstream has been in the tree since the run began, and
\* the bitstream is complete.
BuildIsFresh ==
  pc \in {"send", "sending", "reset", "wait", "testing"} /\ cmd.name = "build"
    => bin.whole /\ \A f \in bitstream_inputs : bin.built[f] \in seen[f]

\* A bitstream that reuse or upload takes for current is built from the files of
\* the tree, but for those that were edited while it was being built, or deleted;
\* a bitstream whose publication was cut off is not covered.
ReuseIsCurrent ==
  [][pc = "vet" /\ pc' = "send" /\ ~AcceptsStale /\ bin.whole =>
       \A f \in bitstream_inputs :
         bin.built[f] = tree[f] \/ f \in bin.late \/ tree[f] = 0]_run_vars

\* A red test of a default run blames the RTL: a file of the tested bitstream moves bytes
\* wrongly, in the version built, which has been in the tree since the run began.  No
\* older bitstream, nothing that a defective design or an earlier test left in the
\* PSRAMs, and not the poison of the test itself turns a design that works red.
RedIsOfTheTree ==
  pc = "testing" /\ cmd.name = "build" /\ verdict = "fail"
    => \E f \in bitstream_inputs : bin.built[f] \in seen[f] /\ <<f, bin.built[f]>> \in broken

\* A green test whose poison went over known bytes, those of a good run of the same case
\* or a random chain, lost no write of its last START but one that would have put back
\* the byte the test itself had installed there.
PoisonCatches ==
  verdict = "pass" /\ armed =>
    \A c \in lost : c \in DOMAIN case.spans /\ case.spans[c] = expected_writes[c]

\* test_directed.py:10 says it of every test.
PoisonPreventsFalsePass == verdict = "pass" => lost = {}

\* Every command ends: the official flow is left for the native one, the port is
\* not awaited for ever.
CommandEnds == (pc # "idle") ~> (pc = "idle")
=============================================================================
