----------------------------- MODULE FpgaBitstream -----------------------------
(***************************************************************************)
(* The way of the RTL to the demoboard: src/hil/fpga/tool.py, its command  *)
(* line (src/hil/fpga/__main__.py) and the bitstream fixture of the test   *)
(* run (src/hil/conftest.py).  A command copies the sources one by one     *)
(* into a stage, runs Yosys, nextpnr and icepack there, publishes the      *)
(* product under hil/fpga/build/, and sends it to the board, which looks   *)
(* for bitstreams only while it boots.  The developer edits the sources    *)
(* meanwhile; any step of a command may fail or be interrupted, and leaves *)
(* its files as they are.                                                  *)
(*                                                                         *)
(* Time counts edits, from 1: a file's mtime is the edit that made it,     *)
(* which is also its version (0: no such file), and a file written by a    *)
(* command is as old as the last edit before it.  What Yosys, nextpnr and  *)
(* icepack do is external: they read the stage and nothing else.           *)
(***************************************************************************)
EXTENDS Naturals, Sequences

CONSTANTS
  Sources,                 \* source_files of info.yaml, in its order
  Commands,                \* what the developer types
  MaxEdits, MaxCommands    \* bounds

VARIABLES
  now, tree,               \* time; [file -> version]
  stage, todo, product,    \* hil/fpga/stage, files still to copy, its build/*.bin
  bin,                     \* hil/fpga/build/<top>.bin
  cmd, pc, commands,       \* the command, its next step, commands begun
  seen,                    \* history: the versions in the tree since the command began
  flash, shuttle,          \* /bitstreams/<top>.bin of the board; known to tt.shuttle
  up, loaded               \* the board has booted; the design in the FPGA

files == <<now, tree>>
harness == <<stage, todo, product, bin>>
process == <<cmd, pc, commands, seen>>
board == <<flash, shuttle, up, loaded>>
fpga_vars == <<files, harness, process, board>>

INFO == "info.yaml"
bitstream_inputs == {INFO} \cup {Sources[i] : i \in DOMAIN Sources}
NONE == [whole |-> FALSE, mtime |-> 0]           \* no such bitstream
NO_FILES == [f \in bitstream_inputs |-> 0]
NOT_SEEN == [f \in bitstream_inputs |-> {}]

Hardens(name) == name \in {"build", "bitstream"}
Command(name, engine) == [name |-> name, engine |-> engine]
NO_COMMAND == Command("none", "native")

ASSUME CommandsAssumption == \A c \in Commands : c = Command(c.name, c.engine)

\* bitstream_policy: the commands that run tests; --bitstream=stale, --stale.
RunsTests == cmd.name \in {"build", "reuse", "stale"}
AcceptsStale == cmd.name \in {"stale", "upload --stale"}

FpgaInit ==
  /\ now = 1 /\ tree = [f \in bitstream_inputs |-> 1]
  /\ stage = NO_FILES /\ todo = <<>> /\ product = NONE /\ bin = NONE
  /\ cmd = NO_COMMAND /\ pc = "idle" /\ commands = 0 /\ seen = NOT_SEEN
  /\ flash = NONE /\ shuttle = FALSE /\ up = TRUE /\ loaded = NONE

\* info.yaml can be read.
load_project_info == tree[INFO] # 0

Goto(step) == pc' = step /\ UNCHANGED <<cmd, commands, seen>>

\* The process is gone, and what it knew.
Exit == pc' = "idle" /\ cmd' = NO_COMMAND /\ seen' = NOT_SEEN /\ UNCHANGED commands

-------------------------------------------------------------------------------
(***************************************************************************)
(* The developer.                                                          *)
(***************************************************************************)
Change(f, version) ==
  /\ now <= MaxEdits
  /\ now' = now + 1 /\ tree' = [tree EXCEPT ![f] = version]
  /\ seen' = IF pc = "idle" THEN seen ELSE [seen EXCEPT ![f] = @ \cup ({version} \ {0})]
  /\ UNCHANGED <<harness, cmd, pc, commands, board>>

Edit(f) == Change(f, now + 1)
Delete(f) == tree[f] # 0 /\ Change(f, 0)

Begin(c) ==
  /\ pc = "idle" /\ commands < MaxCommands
  /\ cmd' = c /\ commands' = commands + 1
  /\ seen' = [f \in bitstream_inputs |-> {tree[f]} \ {0}]
  /\ pc' = IF Hardens(c.name) THEN "harden" ELSE "vet"
  /\ UNCHANGED <<files, harness, board>>

\* An error that no caller handles, a time limit, a ctrl-C.
Abort ==
  /\ pc # "idle" /\ Exit /\ todo' = <<>>
  /\ UNCHANGED <<files, stage, product, bin, board>>

-------------------------------------------------------------------------------
(***************************************************************************)
(* harden.                                                                 *)
(***************************************************************************)
missing == {f \in bitstream_inputs : stage[f] = 0}

\* The errors that are FpgaToolError: the tools are not found or fail, a source is
\* missing, no product was written.
ToolError ==
  \/ pc \in {"harden", "tools"}
  \/ pc = "copy" /\ todo = <<>> /\ missing # {}
  \/ pc = "publish" /\ product = NONE

\* Mutant: the official flow is tried again.
FallBack_again ==
  /\ ToolError /\ cmd.engine = "official"
  /\ pc' = "harden"
  /\ UNCHANGED <<files, harness, cmd, commands, seen, board>>

\* harden: an official flow that raises FpgaToolError is tried again natively.
FallBack ==
  /\ ToolError /\ cmd.engine = "official"
  /\ cmd' = [cmd EXCEPT !.engine = "native"] /\ pc' = "harden"
  /\ UNCHANGED <<files, harness, commands, seen, board>>

\* Mutant: an old product survives in the stage.
StageStart_keeps_build ==
  /\ pc = "harden" /\ load_project_info
  /\ stage' = NO_FILES /\ UNCHANGED product
  /\ todo' = <<INFO>> \o Sources
  /\ Goto("copy") /\ UNCHANGED <<files, bin, board>>

\* The info is read, tt-support-tools is found, the stage and its products removed.
StageStart ==
  /\ pc = "harden" /\ load_project_info
  /\ stage' = NO_FILES /\ product' = NONE
  /\ todo' = <<INFO>> \o Sources
  /\ Goto("copy") /\ UNCHANGED <<files, bin, board>>

\* A source that is missing is noted and the next one copied.
StageCopy ==
  /\ pc = "copy" /\ todo # <<>>
  /\ Head(todo) = INFO => tree[INFO] # 0
  /\ stage' = [stage EXCEPT ![Head(todo)] = tree[Head(todo)]]
  /\ todo' = Tail(todo)
  /\ UNCHANGED <<files, product, bin, process, board>>

Staged ==
  /\ pc = "copy" /\ todo = <<>>
  /\ missing = {}
  /\ Goto("tools") /\ UNCHANGED <<files, harness, board>>

\* What icepack writes.  late: the files edited after they were copied.
Pack ==
  [whole |-> TRUE, mtime |-> now, built |-> stage,
   late |-> {f \in bitstream_inputs : tree[f] # stage[f]}]

\* The tools, which may exit 0 and leave no product: Yosys, nextpnr and icepack
\* one after the other, or tt_fpga.py, which runs the same.
RunTools ==
  /\ pc = "tools"
  /\ product' \in {Pack, product}
  /\ Goto("publish") /\ UNCHANGED <<files, stage, todo, bin, board>>

harden_native == cmd.engine = "native" /\ RunTools
harden_official == cmd.engine = "official" /\ RunTools

\* copy2 truncates the old bitstream first and sets the mtime last.
PublishOpen ==
  /\ pc = "publish" /\ product # NONE
  /\ bin' = [product EXCEPT !.whole = FALSE, !.mtime = now]
  /\ Goto("publishing") /\ UNCHANGED <<files, stage, todo, product, board>>

\* Mutant: copy instead of copy2, so the mtime is that of the publication.
Published_now(image) == [image EXCEPT !.mtime = now]

\* copy2 keeps the mtime of the product.
Published(image) == image

PublishEnd ==
  /\ pc = "publishing"
  /\ bin' = Published(product)
  /\ IF RunsTests THEN Goto("send") ELSE Exit
  /\ UNCHANGED <<files, stage, todo, product, board>>

-------------------------------------------------------------------------------
(***************************************************************************)
(* Staleness and upload.                                                   *)
(***************************************************************************)
\* The inputs that exist and are newer than the bitstream.
stale_inputs(image) == {f \in bitstream_inputs : tree[f] # 0 /\ tree[f] > image.mtime}

\* vet_existing_bitstream, and the same decision of the upload command; configure
\* uploads without asking, which is upload --stale.
Vet ==
  /\ pc = "vet" /\ bin # NONE /\ load_project_info
  /\ AcceptsStale \/ stale_inputs(bin) = {}
  /\ Goto("send") /\ UNCHANGED <<files, harness, board>>

configure_official == cmd.engine = "official"

\* mkdir may fail; fs cp writes the file on the board piece by piece.
SendOpen ==
  /\ pc = "send" /\ bin # NONE /\ up
  /\ ~configure_official
  /\ flash' = [bin EXCEPT !.whole = FALSE]
  /\ Goto("sending") /\ UNCHANGED <<files, harness, shuttle, up, loaded>>

\* Mutant: the return code of the copy is not looked at.
Sent_unchecked(complete) == TRUE

\* Return code 0.
Sent(complete) == complete

SendEnd ==
  /\ pc = "sending" /\ up
  /\ \E complete \in BOOLEAN :
       /\ Sent(complete)
       /\ flash' = IF complete THEN bin ELSE flash
  /\ Goto("reset") /\ UNCHANGED <<files, harness, shuttle, up, loaded>>

\* tt_fpga.py copies from the stage, which may lack its info.yaml, and resets nothing.
SendOfficial ==
  /\ pc = "send" /\ bin # NONE /\ up /\ load_project_info
  /\ configure_official
  /\ product' = bin /\ flash' = bin
  /\ stage' = [stage EXCEPT ![INFO] = IF @ = 0 THEN tree[INFO] ELSE @]
  /\ Exit /\ UNCHANGED <<files, todo, bin, shuttle, up, loaded>>

Restart == up' = FALSE /\ shuttle' = FALSE /\ loaded' = NONE /\ UNCHANGED flash

Reset ==
  /\ pc = "reset" /\ up /\ Restart
  /\ Goto("wait") /\ UNCHANGED <<files, harness>>

\* wait_for_mpremote_port: probes again until one succeeds.
PortBack ==
  /\ pc = "wait" /\ up
  /\ IF RunsTests THEN Goto("testing") ELSE Exit
  /\ UNCHANGED <<files, harness, board>>

\* ... or until its deadline.
PortGone ==
  /\ pc = "wait" /\ ~up
  /\ Exit /\ UNCHANGED <<files, harness, board>>

-------------------------------------------------------------------------------
(***************************************************************************)
(* The board, and the first and last steps of a test run on it.            *)
(***************************************************************************)
Boot ==
  /\ ~up /\ up' = TRUE /\ shuttle' = (flash # NONE)
  /\ UNCHANGED <<files, harness, process, flash, loaded>>

PowerCycle == up /\ Restart /\ UNCHANGED <<files, harness, process>>

\* session.init: an unknown name or a truncated file is an error of the test.
Enable ==
  /\ pc = "testing" /\ up /\ shuttle /\ flash.whole
  /\ loaded' = flash /\ UNCHANGED <<files, harness, process, flash, shuttle, up>>

RunEnds ==
  /\ pc = "testing" /\ Exit
  /\ UNCHANGED <<files, harness, board>>
=============================================================================
