------------------------------ MODULE HilRunProofs ------------------------------
(***************************************************************************)
(* Theorems about HilRun, for every project, every set of commands, cases  *)
(* and defects, and whatever fails, is interrupted or edited on the way.   *)
(***************************************************************************)
EXTENDS HilRun, TLAPS

-------------------------------------------------------------------------------
(***************************************************************************)
(* The inductive invariant.                                                *)
(***************************************************************************)
\* Time goes on: no file is newer than now; and a command has seen what is in the tree.
FilesInv ==
  /\ now \in Nat /\ cmd = Command(cmd.name, cmd.engine)
  /\ tree \in [bitstream_inputs -> Nat] /\ stage \in [bitstream_inputs -> Nat]
  /\ seen \in [bitstream_inputs -> SUBSET Nat]
  /\ \A f \in bitstream_inputs :
       /\ tree[f] <= now /\ stage[f] <= now
       /\ pc = "idle" \/ tree[f] = 0 \/ tree[f] \in seen[f]

Fresh(image) == \A f \in bitstream_inputs : image.built[f] \in seen[f]

\* The bitstream of a build comes from a stage that was emptied when it began.
BuildInv ==
  /\ pc \in {"copy", "tools"} =>
       /\ product = NONE
       /\ \A f \in bitstream_inputs : stage[f] = 0 \/ stage[f] \in seen[f]
  /\ pc = "tools" => missing = {}
  /\ pc \in {"publish", "publishing"} => product = NONE \/ (product.whole /\ Fresh(product))
  /\ pc = "publishing" => product # NONE
  /\ pc = "vet" => cmd.name # "build"
  /\ pc \in {"send", "sending", "reset", "wait", "testing"} /\ cmd.name = "build"
       => bin.whole /\ Fresh(bin)

\* The board has the published bitstream from the end of the copy on.
BoardInv ==
  /\ pc \in {"sending", "reset", "wait", "testing"} => bin # NONE
  /\ pc \in {"reset", "wait", "testing"} => flash = bin
  /\ pc = "wait" => loaded = NONE
  /\ pc = "testing" => loaded \in {bin, NONE}

\* What a test has installed is still there when it matters; with a design that works the
\* checks then find what they expect, so only another design turns a test red.
Kept == DOMAIN case.spans \ (Destinations \ read_addresses)

CaseInv ==
  /\ step # "over" => case \in Cases /\ (again => ~case.random)
  /\ loaded # NONE =>
       /\ step = "poison" /\ case.random => Untouched(DOMAIN case.spans)
       /\ step \in {"head", "start"} => Untouched(Kept)
       /\ step = "check" /\ Works(loaded) =>
            DestWritesMatch /\ GuardBytesKept /\ DescriptorsIntact
  /\ verdict = "fail" => pc = "testing" /\ ~Works(bin)

\* A bitstream is built from the tree but for what is newer than it, gone, or was edited
\* while it was built.
Current(image) ==
  /\ "whole" \in DOMAIN image
  /\ image.whole =>
       /\ image.mtime \in Nat /\ image.mtime <= now
       /\ \A f \in bitstream_inputs :
            \/ tree[f] = 0 \/ tree[f] > image.mtime
            \/ image.built[f] = tree[f] \/ f \in image.late

ImagesInv == Current(bin) /\ Current(product)

\* The destinations that hold a poison when START is pulsed, and the writes of a START
\* that went unmade where the dump cannot tell.
Poisoned == Destinations \ (IF case.random THEN read_addresses ELSE DOMAIN case.spans)
LostUnseen ==
  \A c \in lost :
    mem[c] = expected_writes[c] => c \in DOMAIN case.spans /\ case.spans[c] = expected_writes[c]

\* proven is what its comment says; an armed poison is the inverse of what is expected.
PoisonInv ==
  /\ proven \subseteq Cases /\ lost \subseteq Destinations
  /\ \A p \in proven : \A d \in DOMAIN p.copies \ DOMAIN p.spans :
       mem[d] = p.spans[p.copies[d]]
  /\ step \notin {"over", "install"} => proven \subseteq {case}
  /\ step = "reinstall" => ~case.random
  /\ loaded # NONE =>
       /\ step \in {"head", "start"} /\ ~case.random => Untouched(DOMAIN case.spans)
       /\ step \in {"reinstall", "head", "start"} /\ armed =>
            \A c \in Poisoned : mem[c] = Inverted(expected_writes[c])
       /\ step = "check" /\ armed => LostUnseen
  /\ step = "install" => ~armed
  /\ step # "over" => verdict # "pass"
  /\ PoisonCatches

-------------------------------------------------------------------------------
(***************************************************************************)
(* The files and the builds.                                               *)
(***************************************************************************)
LEMMA NoFiles ==
  NO_FILES \in [bitstream_inputs -> Nat] /\ \A f \in bitstream_inputs : NO_FILES[f] = 0
BY DEF NO_FILES

LEMMA NothingSeen == NOT_SEEN \in [bitstream_inputs -> SUBSET Nat]
BY DEF NOT_SEEN

LEMMA NoCommand == NO_COMMAND = Command(NO_COMMAND.name, NO_COMMAND.engine)
BY DEF NO_COMMAND, Command

LEMMA FilesInvInit == Init => FilesInv
BY NoFiles, NothingSeen, NoCommand DEF Init, FpgaInit, FilesInv

LEMMA FilesInvExit == ASSUME FilesInv, Exit, UNCHANGED <<now, tree, stage>> PROVE FilesInv'
BY NothingSeen, NoCommand DEF FilesInv, Exit

\* A step that leaves the files and the command alone.
LEMMA FilesInvKept ==
  ASSUME FilesInv, UNCHANGED <<now, tree, stage, cmd, seen>>, pc = "idle" => pc' = "idle"
  PROVE  FilesInv'
BY DEF FilesInv

LEMMA FilesInvStep == ASSUME FilesInv, [Next]_run_vars PROVE FilesInv'
<1>1. CASE \E c \in Commands : Command_(c)
  <2>1. PICK c \in Commands : Begin(c)
    BY <1>1 DEF Command_
  <2>2. /\ UNCHANGED <<now, tree, stage>> /\ cmd' = Command(cmd'.name, cmd'.engine)
        /\ seen' = [f \in bitstream_inputs |-> {tree[f]} \ {0}]
    BY <2>1, CommandsAssumption DEF Begin, files, harness
  <2>3. \A f \in bitstream_inputs : tree[f] = 0 \/ tree[f] \in seen'[f]
    BY <2>2
  <2>4. seen' \in [bitstream_inputs -> SUBSET Nat]
    BY <2>2 DEF FilesInv
  <2>5. QED
    BY <2>2, <2>3, <2>4 DEF FilesInv
<1>2. CASE Harden /\ UNCHANGED <<case_vars, tests>>
  <2>1. CASE FallBack
    <3>1. /\ cmd' = [cmd EXCEPT !.engine = "native"] /\ UNCHANGED <<now, tree, stage, seen>>
          /\ pc # "idle"
      BY <2>1 DEF FallBack, ToolError, files, harness
    <3>2. cmd' = Command(cmd.name, "native") /\ cmd' = Command(cmd'.name, cmd'.engine)
      BY <3>1 DEF FilesInv, Command
    <3>3. QED
      BY <3>1, <3>2 DEF FilesInv
  <2>2. CASE StageStart
    BY <2>2, NoFiles DEF StageStart, Goto, files, FilesInv
  <2>3. CASE StageCopy
    <3>1. /\ stage' = [stage EXCEPT ![Head(todo)] = tree[Head(todo)]]
          /\ UNCHANGED <<now, tree, pc, cmd, seen>>
      BY <2>3 DEF StageCopy, files, process
    <3>2. QED
      BY <3>1 DEF FilesInv
  <2>4. CASE PublishEnd
    <3>1. /\ UNCHANGED <<now, tree, stage>> /\ (Goto("send") \/ Exit)
          /\ pc # "idle"
      BY <2>4 DEF PublishEnd, files
    <3>2. CASE Goto("send")
      BY <3>1, <3>2, FilesInvKept DEF Goto
    <3>3. QED
      BY <3>1, <3>2, FilesInvExit
  <2>5. CASE Staged \/ harden_native \/ harden_official \/ PublishOpen
    <3>1. UNCHANGED <<now, tree, stage, cmd, seen>> /\ pc # "idle"
      BY <2>5 DEF Staged, harden_native, harden_official, RunTools, PublishOpen, Goto, files, harness
    <3>2. QED
      BY <3>1, FilesInvKept
  <2>6. QED
    BY <1>2, <2>1, <2>2, <2>3, <2>4, <2>5 DEF Harden
<1>3. CASE Upload /\ UNCHANGED <<case_vars, tests>>
  <2>1. CASE SendOfficial
    <3>1. UNCHANGED <<now, tree>> /\ Exit
          /\ stage' = [stage EXCEPT ![INFO] = IF @ = 0 THEN tree[INFO] ELSE @]
      BY <2>1 DEF SendOfficial, files
    <3>2. INFO \in bitstream_inputs
      BY DEF bitstream_inputs
    <3> DEFINE staged == IF stage[INFO] = 0 THEN tree[INFO] ELSE stage[INFO]
    <3>3. staged \in Nat /\ staged <= now /\ stage' = [stage EXCEPT ![INFO] = staged]
      BY <3>1, <3>2 DEF FilesInv
    <3> HIDE DEF staged
    <3>4. stage' \in [bitstream_inputs -> Nat] /\ \A f \in bitstream_inputs : stage'[f] <= now
      BY <3>3 DEF FilesInv
    <3>5. /\ now' = now /\ tree' = tree /\ seen' = NOT_SEEN /\ cmd' = NO_COMMAND
          /\ pc' = "idle"
      BY <3>1 DEF Exit
    <3>6. QED
      BY <3>4, <3>5, NothingSeen, NoCommand DEF FilesInv
  <2>2. CASE ~SendOfficial
    <3>1. /\ UNCHANGED <<now, tree, stage>> /\ (UNCHANGED <<cmd, seen>> \/ Exit)
          /\ pc # "idle"
      BY <1>3, <2>2 DEF Upload, Vet, SendOpen, SendEnd, Reset, PortBack, PortGone, Goto, files,
                        harness
    <3>2. CASE UNCHANGED <<cmd, seen>>
      BY <3>1, <3>2, FilesInvKept
    <3>3. QED
      BY <3>1, <3>2, FilesInvExit
  <2>3. QED
    BY <2>1, <2>2
<1>4. CASE RunOver \/ Interrupted
  BY <1>4, FilesInvExit DEF RunOver, Interrupted, RunEnds, Abort, files, harness
<1>5. CASE (\E c \in Cases : Test(c)) \/ CaseStep \/ CaseErrs
  BY <1>5, FilesInvKept DEF Test, Enable, CaseStep, CaseErrs, fpga_vars, files, harness, process
<1>6. CASE Developer
  <2>1. PICK f \in bitstream_inputs : Change(f, now + 1) \/ Change(f, 0)
    BY <1>6 DEF Developer, Edit, Delete
  <2>2. PICK version \in {0, now + 1} : Change(f, version)
    BY <2>1
  <2>3. /\ now' = now + 1 /\ UNCHANGED <<stage, cmd, pc>>
        /\ tree' = [tree EXCEPT ![f] = version]
        /\ seen' = IF pc = "idle" THEN seen
                   ELSE [seen EXCEPT ![f] = @ \cup ({version} \ {0})]
    BY <2>2 DEF Change, harness
  <2>4. seen' \in [bitstream_inputs -> SUBSET Nat] /\ version \in Nat /\ version <= now + 1
    BY <2>3 DEF FilesInv
  <2>5. pc = "idle" \/ \A g \in bitstream_inputs : tree'[g] = 0 \/ tree'[g] \in seen'[g]
    BY <2>3 DEF FilesInv
  <2>6. tree' \in [bitstream_inputs -> Nat] /\ \A g \in bitstream_inputs : tree'[g] <= now'
    BY <2>3, <2>4 DEF FilesInv
  <2>7. QED
    BY <2>3, <2>4, <2>5, <2>6 DEF FilesInv
<1>7. CASE Board
  BY <1>7, FilesInvKept DEF Board, Boot, PowerCycle, files, harness, process
<1>8. CASE UNCHANGED run_vars
  BY <1>8, FilesInvKept DEF run_vars, fpga_vars, files, harness, process
<1>9. QED
  BY <1>1, <1>2, <1>3, <1>4, <1>5, <1>6, <1>7, <1>8 DEF Next, Process, Prepare

LEMMA BuildInvInit == Init => BuildInv
BY DEF Init, FpgaInit, BuildInv

\* No step between two commands, and no step that leaves the harness and the command alone,
\* disturbs a build.
LEMMA BuildInvIdle == ASSUME Exit PROVE BuildInv'
BY DEF Exit, BuildInv

LEMMA BuildInvKept ==
  ASSUME BuildInv, \A f \in bitstream_inputs : seen[f] \subseteq seen'[f],
         UNCHANGED <<stage, product, bin, pc, cmd>>
  PROVE  BuildInv'
<1>1. (Fresh(product) => Fresh(product)') /\ (Fresh(bin) => Fresh(bin)')
  BY DEF Fresh
<1>2. QED
  BY <1>1 DEF BuildInv, missing

LEMMA BuildInvStep == ASSUME FilesInv, BuildInv, [Next]_run_vars PROVE BuildInv'
<1>0. seen' = seen => (Fresh(bin) /\ bin' = bin => Fresh(bin)')
                      /\ (Fresh(product) /\ bin' = product => Fresh(bin)')
  BY DEF Fresh
<1>1. CASE \E c \in Commands : Command_(c)
  BY <1>1 DEF Command_, Begin, BuildInv, Hardens
<1>2. CASE Harden /\ UNCHANGED <<case_vars, tests>>
  <2>1. CASE FallBack
    BY <2>1 DEF FallBack, BuildInv
  <2>2. CASE StageStart
    BY <2>2, NoFiles DEF StageStart, Goto, BuildInv
  <2>3. CASE StageCopy
    <3>1. /\ pc = "copy" /\ pc' = "copy" /\ product' = product /\ UNCHANGED <<seen, tree>>
          /\ stage' = [stage EXCEPT ![Head(todo)] = tree[Head(todo)]]
      BY <2>3 DEF StageCopy, process, files
    <3>2. \A f \in bitstream_inputs : stage'[f] \in {stage[f], tree[f]}
      BY <3>1 DEF FilesInv
    <3>3. \A f \in bitstream_inputs : stage'[f] = 0 \/ stage'[f] \in seen'[f]
      BY <3>1, <3>2 DEF FilesInv, BuildInv
    <3>4. QED
      BY <3>1, <3>3 DEF BuildInv
  <2>4. CASE Staged
    BY <2>4 DEF Staged, Goto, files, harness, BuildInv, missing
  <2>5. CASE harden_native \/ harden_official
    <3>1. /\ pc = "tools" /\ pc' = "publish" /\ product' \in {Pack, product}
          /\ UNCHANGED <<seen, stage>>
      BY <2>5 DEF harden_native, harden_official, RunTools, Goto, files
    <3>2. \A f \in bitstream_inputs : stage[f] \in seen[f]
      BY <3>1 DEF BuildInv, missing
    <3>3. CASE product' = product
      BY <3>1, <3>3 DEF BuildInv
    <3>4. CASE product' = Pack
      <4>1. product'.whole /\ product'.built = stage
        BY <3>4 DEF Pack
      <4>2. Fresh(product)'
        BY <3>1, <3>2, <4>1 DEF Fresh
      <4>3. QED
        BY <3>1, <4>1, <4>2 DEF BuildInv
    <3>5. QED
      BY <3>1, <3>3, <3>4
  <2>6. CASE PublishOpen
    <3>1. /\ pc = "publish" /\ pc' = "publishing" /\ product # NONE
          /\ UNCHANGED <<product, seen>>
      BY <2>6 DEF PublishOpen, Goto, files
    <3>2. Fresh(product) => Fresh(product)'
      BY <3>1 DEF Fresh
    <3>3. QED
      BY <3>1, <3>2 DEF BuildInv
  <2>7. CASE PublishEnd
    <3>1. /\ pc = "publishing" /\ bin' = product
          /\ Exit \/ (Goto("send"))
      BY <2>7 DEF PublishEnd, Published, files
    <3>2. CASE Goto("send")
      BY <1>0, <3>1, <3>2 DEF Goto, BuildInv
    <3>3. QED
      BY <3>1, <3>2, BuildInvIdle
  <2>8. QED
    BY <1>2, <2>1, <2>2, <2>3, <2>4, <2>5, <2>6, <2>7 DEF Harden
<1>3. CASE Upload /\ UNCHANGED <<case_vars, tests>>
  <2>1. CASE Vet
    BY <2>1 DEF Vet, Goto, BuildInv
  <2>2. CASE SendOpen \/ SendEnd \/ Reset \/ (PortBack /\ pc' = "testing")
    <3>1. /\ pc \in {"send", "sending", "reset", "wait"}
          /\ pc' \in {"sending", "reset", "wait", "testing"}
          /\ UNCHANGED <<bin, cmd, seen>>
      BY <2>2 DEF SendOpen, SendEnd, Reset, PortBack, Goto, Exit, files, harness
    <3>2. QED
      BY <1>0, <3>1 DEF BuildInv
  <2>3. CASE Exit
    BY <2>3, BuildInvIdle
  <2>4. QED
    BY <1>3, <2>1, <2>2, <2>3 DEF Upload, SendOfficial, PortBack, PortGone, Goto
<1>4. CASE RunOver \/ Interrupted
  BY <1>4, BuildInvIdle DEF RunOver, Interrupted, RunEnds, Abort
<1>5. CASE (\E c \in Cases : Test(c)) \/ CaseStep \/ CaseErrs
  <2>1. UNCHANGED <<stage, product, bin, pc, cmd, seen>>
    BY <1>5 DEF Test, Enable, CaseStep, CaseErrs, fpga_vars, files, harness, process
  <2>2. QED
    BY <2>1, BuildInvKept
<1>6. CASE Developer
  <2>1. PICK f \in bitstream_inputs, version \in {0, now + 1} : Change(f, version)
    BY <1>6 DEF Developer, Edit, Delete
  <2>2. /\ UNCHANGED <<stage, product, bin, pc, cmd>>
        /\ seen' \in {seen, [seen EXCEPT ![f] = @ \cup ({version} \ {0})]}
    BY <2>1 DEF Change, harness
  <2>3. \A g \in bitstream_inputs : seen[g] \subseteq seen'[g]
    BY <2>2 DEF FilesInv
  <2>4. QED
    BY <2>2, <2>3, BuildInvKept
<1>7. CASE Board \/ UNCHANGED run_vars
  <2>1. UNCHANGED <<stage, product, bin, pc, cmd, seen>>
    BY <1>7 DEF Board, Boot, PowerCycle, run_vars, fpga_vars, files, harness, process
  <2>2. QED
    BY <2>1, BuildInvKept
<1>8. QED
  BY <1>1, <1>2, <1>3, <1>4, <1>5, <1>6, <1>7 DEF Next, Process, Prepare

LEMMA BoardInvInit == Init => BoardInv
BY DEF Init, FpgaInit, BoardInv

LEMMA BoardInvStep == ASSUME BoardInv, [Next]_run_vars PROVE BoardInv'
<1> USE DEF BoardInv, Goto, Exit, files, harness, process, board, case_vars
<1>1. CASE \E c \in Commands : Command_(c)
  BY <1>1 DEF Command_, Begin
<1>2. CASE Harden /\ UNCHANGED <<case_vars, tests>>
  BY <1>2 DEF Harden, FallBack, StageStart, StageCopy, Staged, harden_native, harden_official,
              RunTools, PublishOpen, PublishEnd, ToolError
<1>3. CASE Upload /\ UNCHANGED <<case_vars, tests>>
  BY <1>3 DEF Upload, Vet, SendOpen, SendEnd, SendOfficial, Reset, PortBack, PortGone, Sent, Restart
<1>4. CASE RunOver \/ Interrupted
  BY <1>4 DEF RunOver, Interrupted, RunEnds, Abort
<1>5. CASE (\E c \in Cases : Test(c)) \/ CaseStep \/ CaseErrs
  BY <1>5 DEF Test, Enable, CaseStep, CaseErrs, fpga_vars
<1>6. CASE Developer
  BY <1>6 DEF Developer, Edit, Delete, Change
<1>7. CASE Board
  BY <1>7 DEF Board, Boot, PowerCycle, Restart
<1>8. CASE UNCHANGED run_vars
  BY <1>8 DEF run_vars, fpga_vars
<1>9. QED
  BY <1>1, <1>2, <1>3, <1>4, <1>5, <1>6, <1>7, <1>8 DEF Next, Process, Prepare

-------------------------------------------------------------------------------
(***************************************************************************)
(* The tests.                                                              *)
(***************************************************************************)
LEMMA CaseInvInit == Init => CaseInv
BY DEF Init, FpgaInit, CaseInit, CaseInv

\* A step of anything but the tests keeps what is known of the cells while a design is
\* loaded.
LEMMA CaseInvKept ==
  ASSUME CaseInv, UNCHANGED <<case_vars, broken>>, loaded' \in {loaded, NONE},
         verdict = "fail" => pc' = "testing" /\ bin' = bin
  PROVE  CaseInv'
<1>1. UNCHANGED <<mem, case, step, again, verdict>>
  BY DEF case_vars
<1>2. loaded' = loaded => Works(loaded)' = Works(loaded)
  BY DEF Works
<1>3. bin' = bin => Works(bin)' = Works(bin)
  BY DEF Works
<1>4. QED
  BY <1>1, <1>2, <1>3 DEF CaseInv, Untouched, Kept, Destinations, read_addresses, DestWritesMatch,
       expected_writes, Chunk, GuardBytesKept, Guards, DescriptorsIntact

\* The steps of one test, on a board that stays as it is.
LEMMA InstallStep ==
  ASSUME CaseInv, Install, UNCHANGED <<fpga_vars, broken>>
  PROVE  CaseInv'
<1>1. case \in Cases /\ step = "install" /\ step' = "poison"
      /\ mem' = Overwrite(mem, case.spans) /\ UNCHANGED <<case, again, verdict>>
  BY DEF Install, CaseInv
<1>2. \A c \in DOMAIN case.spans : mem'[c] = case.spans[c]
  BY <1>1, CasesAssumption DEF Overwrite
<1>3. UNCHANGED <<pc, bin, loaded>>
  BY DEF fpga_vars, process, harness, board
<1>4. QED
  BY <1>1, <1>2, <1>3 DEF CaseInv, Untouched, Works

LEMMA PoisonStep ==
  ASSUME CaseInv, Poison, UNCHANGED <<fpga_vars, broken>>
  PROVE  CaseInv'
<1>1. case \in Cases /\ step = "poison" /\ UNCHANGED <<case, again, verdict>>
      /\ mem' = Overwrite(mem, IF case.random THEN RandomPoison ELSE DirectedPoison)
      /\ step' = IF case.random THEN "head" ELSE "reinstall"
  BY DEF Poison, CaseInv
<1>2. UNCHANGED <<pc, bin, loaded>>
  BY DEF fpga_vars, process, harness, board
<1>3. CASE case.random
  <2>1. mem' = Overwrite(mem, RandomPoison) /\ step' = "head"
    BY <1>1, <1>3
  <2>2. DOMAIN RandomPoison = Destinations \ read_addresses
    BY DEF RandomPoison
  <2>3. \A c \in Kept : mem'[c] = mem[c]
    BY <1>1, <2>1, <2>2, CasesAssumption DEF Overwrite, Kept
  <2>4. loaded # NONE => \A c \in Kept : mem[c] = case.spans[c]
    BY <1>1, <1>3 DEF CaseInv, Untouched, Kept
  <2>5. Kept' = Kept
    BY <1>1 DEF Kept, Destinations, read_addresses
  <2>6. loaded # NONE => Untouched(Kept)'
    BY <1>1, <2>3, <2>4, <2>5 DEF Untouched
  <2>7. QED
    BY <1>1, <1>2, <2>1, <2>6 DEF CaseInv, Works
<1>4. CASE ~case.random
  BY <1>1, <1>2, <1>4 DEF CaseInv, Works
<1>5. QED
  BY <1>3, <1>4

LEMMA ReinstallStep ==
  ASSUME CaseInv, Reinstall, UNCHANGED <<fpga_vars, broken>>
  PROVE  CaseInv'
<1>1. case \in Cases /\ step = "reinstall" /\ step' = "head"
      /\ mem' = Overwrite(mem, case.spans) /\ UNCHANGED <<case, again, verdict>>
  BY DEF Reinstall, CaseInv
<1>2. \A c \in Kept : mem'[c] = case.spans[c]
  BY <1>1, CasesAssumption DEF Overwrite, Kept
<1>3. Kept' = Kept
  BY <1>1 DEF Kept, Destinations, read_addresses
<1>4. UNCHANGED <<pc, bin, loaded>>
  BY DEF fpga_vars, process, harness, board
<1>5. QED
  BY <1>1, <1>2, <1>3, <1>4 DEF CaseInv, Untouched, Works

LEMMA CheckHeadStep ==
  ASSUME CaseInv, CheckHead, UNCHANGED <<fpga_vars, broken>>
  PROVE  CaseInv'
<1>1. step = "head" /\ step' = "start" /\ UNCHANGED <<mem, case, again, verdict>>
  BY DEF CheckHead
<1>2. UNCHANGED <<pc, bin, loaded>>
  BY DEF fpga_vars, process, harness, board
<1>3. Kept' = Kept
  BY <1>1 DEF Kept, Destinations, read_addresses
<1>4. QED
  BY <1>1, <1>2, <1>3 DEF CaseInv, Untouched, Works

\* A START of a design that works makes every copy, from sources that are as installed.
LEMMA StartStep ==
  ASSUME CaseInv, loaded # NONE, StartAndWait(Works(loaded)), UNCHANGED <<fpga_vars, broken>>
  PROVE  CaseInv'
<1>1. case \in Cases /\ step = "start" /\ again' = FALSE /\ UNCHANGED <<case, verdict>>
      /\ step' = IF again THEN "poison" ELSE "check"
  BY DEF StartAndWait, AfterStart, CaseInv
<1>2. UNCHANGED <<pc, bin, loaded>>
  BY DEF fpga_vars, process, harness, board
<1>3. again => ~case.random
  BY <1>1 DEF CaseInv
<1>4. Untouched(Kept)
  BY <1>1 DEF CaseInv
<1>5. ASSUME Works(loaded)
      PROVE  (DestWritesMatch /\ GuardBytesKept /\ DescriptorsIntact)'
  <2>1. mem' = Overwrite(mem, Restrict(Chunk(mem), Destinations))
    BY <1>5 DEF StartAndWait
  <2>2. \A c \in Destinations : c \in Cells /\ mem'[c] = mem[case.copies[c]]
    BY <1>1, <2>1, CasesAssumption DEF Overwrite, Restrict, Chunk, Destinations
  <2>3. \A c \in DOMAIN case.spans \ Destinations : mem'[c] = mem[c]
    BY <1>1, <2>1, CasesAssumption DEF Overwrite, Restrict, Chunk, Destinations
  <2>4. \A c \in Destinations : case.copies[c] \in Kept
    BY <1>1, CasesAssumption DEF Kept, Destinations, read_addresses
  <2>5. DOMAIN case.spans \ Destinations \subseteq Kept
    BY DEF Kept
  <2>6. case.descriptors \subseteq DOMAIN case.spans \ Destinations
    BY <1>1, CasesAssumption DEF Destinations
  <2>7. \A c \in Destinations : mem'[c] = case.spans[case.copies[c]]
    BY <1>4, <2>2, <2>4 DEF Untouched
  <2>8. \A c \in DOMAIN case.spans \ Destinations : mem'[c] = case.spans[c]
    BY <1>4, <2>3, <2>5 DEF Untouched
  <2>9. DestWritesMatch'
    BY <1>1, <2>7 DEF DestWritesMatch, expected_writes, Chunk, Destinations
  <2>10. GuardBytesKept'
    BY <1>1, <2>8 DEF GuardBytesKept, Guards, Untouched, Destinations
  <2>11. DescriptorsIntact'
    BY <1>1, <2>6, <2>8 DEF DescriptorsIntact, Untouched
  <2>12. QED
    BY <2>9, <2>10, <2>11
<1>6. Works(loaded)' = Works(loaded) /\ Works(bin)' = Works(bin)
  BY <1>2 DEF Works
<1>7. QED
  BY <1>1, <1>2, <1>3, <1>5, <1>6 DEF CaseInv

\* The verdict on a design that works is a pass.
LEMMA DecideStep ==
  ASSUME BoardInv, CaseInv, pc = "testing", loaded # NONE, Decide(Works(loaded)),
         UNCHANGED <<fpga_vars, broken>>
  PROVE  CaseInv'
<1>1. step = "check" /\ step' = "over" /\ UNCHANGED <<mem, case, again>>
  BY DEF Decide
<1>2. UNCHANGED <<pc, bin, loaded>>
  BY DEF fpga_vars, process, harness, board
<1>3. loaded = bin
  BY DEF BoardInv
<1>4. Works(loaded) => verdict' = "pass"
  BY <1>1 DEF Decide, CaseInv
<1>5. Works(bin)' = Works(bin)
  BY <1>2 DEF Works
<1>6. QED
  BY <1>1, <1>2, <1>3, <1>4, <1>5 DEF CaseInv

LEMMA CaseInvStep ==
  ASSUME BoardInv, CaseInv, [Next]_run_vars
  PROVE  CaseInv'
<1>0. verdict = "fail" => pc = "testing"
  BY DEF CaseInv
<1>1. CASE (\E c \in Commands : Command_(c)) /\ UNCHANGED broken
  <2>1. pc # "testing" /\ UNCHANGED <<case_vars, broken, loaded>>
    BY <1>1 DEF Command_, Begin, board
  <2>2. QED
    BY <1>0, <2>1, CaseInvKept
<1>2. CASE Prepare /\ UNCHANGED broken
  <2>1. pc # "testing" /\ UNCHANGED <<case_vars, broken>> /\ loaded' \in {loaded, NONE}
    BY <1>2 DEF Prepare, Harden, FallBack, StageStart, StageCopy, Staged, harden_native,
         harden_official, RunTools, PublishOpen, PublishEnd, ToolError, Upload, Vet, SendOpen,
         SendEnd, SendOfficial, Reset, Restart, PortBack, PortGone, board
  <2>2. QED
    BY <1>0, <2>1, CaseInvKept
<1>3. CASE (RunOver \/ Interrupted) /\ UNCHANGED broken
  <2>1. step' = "over" /\ verdict' = "none" /\ again' = FALSE
    BY <1>3 DEF RunOver, Interrupted, Forget
  <2>2. QED
    BY <2>1 DEF CaseInv
<1>4. CASE (\E c \in Cases : Test(c)) /\ UNCHANGED broken
  <2>1. PICK c \in Cases : Test(c)
    BY <1>4
  <2>2. case' = c /\ again' = c.restart /\ step' = "install" /\ verdict' = "none"
    BY <2>1 DEF Test, BeginCase
  <2>3. QED
    BY <2>2, CasesAssumption DEF CaseInv
<1>5. CASE CaseStep /\ UNCHANGED broken
  <2>1. UNCHANGED <<fpga_vars, broken>> /\ pc = "testing" /\ loaded # NONE
    BY <1>5 DEF CaseStep
  <2>2. QED
    BY <1>5, <2>1, InstallStep, PoisonStep, ReinstallStep, CheckHeadStep, StartStep, DecideStep
    DEF CaseStep
<1>6. CASE CaseErrs /\ UNCHANGED broken
  <2>1. step' = "over" /\ UNCHANGED <<verdict, pc, bin>>
    BY <1>6 DEF CaseErrs, Errs, fpga_vars, process, harness
  <2>2. Works(bin)' = Works(bin)
    BY <1>6, <2>1 DEF Works
  <2>3. QED
    BY <2>1, <2>2 DEF CaseInv
<1>7. CASE Developer /\ UNCHANGED broken
  <2>1. UNCHANGED <<case_vars, broken, loaded, pc, bin>>
    BY <1>7 DEF Developer, Edit, Delete, Change, board, process, harness
  <2>2. QED
    BY <1>0, <2>1, CaseInvKept
<1>8. CASE Boot /\ UNCHANGED <<case_vars, broken>>
  <2>1. UNCHANGED <<case_vars, broken, loaded, pc, bin>>
    BY <1>8 DEF Boot, process, harness
  <2>2. QED
    BY <1>0, <2>1, CaseInvKept
<1>9. CASE PowerCycle /\ LosePower /\ UNCHANGED broken
  <2>1. loaded' = NONE /\ UNCHANGED <<case, step, again, verdict, pc, bin>>
    BY <1>9 DEF PowerCycle, Restart, LosePower, process, harness
  <2>2. Works(bin)' = Works(bin)
    BY <1>9, <2>1 DEF Works
  <2>3. QED
    BY <2>1, <2>2 DEF CaseInv
<1>10. CASE UNCHANGED run_vars
  <2>1. UNCHANGED <<case_vars, broken, loaded, pc, bin>>
    BY <1>10 DEF run_vars, fpga_vars, board, process, harness
  <2>2. QED
    BY <1>0, <2>1, CaseInvKept
<1>11. QED
  BY <1>1, <1>2, <1>3, <1>4, <1>5, <1>6, <1>7, <1>8, <1>9, <1>10 DEF Next, Process, Board

-------------------------------------------------------------------------------
(***************************************************************************)
(* The bitstreams, and what a reuse of one stands for.                     *)
(***************************************************************************)
LEMMA ImagesInvInit == Init => ImagesInv
BY DEF Init, FpgaInit, ImagesInv, Current, NONE

\* No step of the developer makes an image worse: an edit is newer than every image.
LEMMA ImagesInvEdit ==
  ASSUME FilesInv, ImagesInv, Developer
  PROVE  ImagesInv'
<1>1. PICK f \in bitstream_inputs : Edit(f) \/ Delete(f)
  BY DEF Developer
<1>2. /\ now' = now + 1 /\ UNCHANGED <<bin, product>>
      /\ \E v \in {0, now + 1} : tree' = [tree EXCEPT ![f] = v]
  BY <1>1 DEF Edit, Delete, Change, harness
<1>3. now \in Nat /\ tree \in [bitstream_inputs -> Nat]
  BY DEF FilesInv
<1>4. \A g \in bitstream_inputs : tree'[g] = tree[g] \/ tree'[g] = 0 \/ tree'[g] = now + 1
  BY <1>2, <1>3
<1>5. QED
  BY <1>2, <1>3, <1>4 DEF ImagesInv, Current

LEMMA ImagesInvKept ==
  ASSUME ImagesInv, UNCHANGED <<now, tree>>,
         bin' \in {bin, product} \/ bin' = [product EXCEPT !.whole = FALSE, !.mtime = now],
         product' \in {bin, product, NONE}
  PROVE  ImagesInv'
<1>1. Current(bin)'
  <2>1. CASE bin' \in {bin, product}
    BY <2>1 DEF ImagesInv, Current
  <2>2. CASE bin' = [product EXCEPT !.whole = FALSE, !.mtime = now]
    <3>1. "whole" \in DOMAIN product
      BY DEF ImagesInv, Current
    <3>2. "whole" \in DOMAIN bin' /\ bin'.whole = FALSE
      BY <2>2, <3>1
    <3>3. QED
      BY <3>2 DEF Current
  <2>3. QED
    BY <2>1, <2>2
<1>2. Current(product)'
  BY DEF ImagesInv, Current, NONE
<1>3. QED
  BY <1>1, <1>2 DEF ImagesInv

LEMMA ImagesInvStep == ASSUME FilesInv, ImagesInv, [Next]_run_vars PROVE ImagesInv'
<1>1. CASE \E c \in Commands : Command_(c)
  BY <1>1, ImagesInvKept DEF Command_, Begin, files, harness
<1>2. CASE Harden /\ UNCHANGED <<case_vars, tests>>
  <2>1. CASE FallBack \/ StageStart \/ StageCopy \/ Staged
    BY <2>1, ImagesInvKept DEF FallBack, StageStart, StageCopy, Staged, files, harness
  <2>2. CASE harden_native \/ harden_official
    <3>1. UNCHANGED <<now, tree, bin>> /\ product' \in {Pack, product}
      BY <2>2 DEF harden_native, harden_official, RunTools, files
    <3>2. Pack.whole /\ Pack.mtime = now /\ Pack.built = stage /\ "whole" \in DOMAIN Pack
          /\ Pack.late = {f \in bitstream_inputs : tree[f] # stage[f]}
      BY DEF Pack
    <3>3. now \in Nat
      BY DEF FilesInv
    <3>4. Current(Pack)
      <4> HIDE DEF Pack
      <4>1. QED
        BY <3>2, <3>3 DEF Current
    <3>5. QED
      BY <3>1, <3>4 DEF ImagesInv, Current
  <2>3. CASE PublishOpen \/ PublishEnd
    BY <2>3, ImagesInvKept DEF PublishOpen, PublishEnd, Published, files
  <2>4. QED
    BY <1>2, <2>1, <2>2, <2>3 DEF Harden
<1>3. CASE Upload /\ UNCHANGED <<case_vars, tests>>
  BY <1>3, ImagesInvKept DEF Upload, Vet, SendOpen, SendEnd, SendOfficial, Reset, PortBack,
     PortGone, files, harness
<1>4. CASE RunOver \/ Interrupted
  BY <1>4, ImagesInvKept DEF RunOver, Interrupted, RunEnds, Abort, files, harness
<1>5. CASE (\E c \in Cases : Test(c)) \/ CaseStep \/ CaseErrs
  BY <1>5, ImagesInvKept DEF Test, Enable, CaseStep, CaseErrs, fpga_vars, files, harness
<1>6. CASE Developer
  BY <1>6, ImagesInvEdit
<1>7. CASE Board \/ UNCHANGED run_vars
  BY <1>7, ImagesInvKept DEF Board, Boot, PowerCycle, run_vars, fpga_vars, files, harness
<1>8. QED
  BY <1>1, <1>2, <1>3, <1>4, <1>5, <1>6, <1>7 DEF Next, Process, Prepare

-------------------------------------------------------------------------------
(***************************************************************************)
(* The poison.                                                             *)
(***************************************************************************)
LEMMA PoisonInvInit == Init => PoisonInv
BY DEF Init, FpgaInit, CaseInit, PoisonInv, PoisonCatches

\* A byte is not its inverse.
LEMMA InverseDiffers ==
  ASSUME case \in Cases, NEW c \in Destinations
  PROVE  Inverted(expected_writes[c]) # expected_writes[c]
<1>1. expected_writes[c] = case.spans[case.copies[c]] /\ case.copies[c] \in DOMAIN case.spans
  BY CasesAssumption DEF expected_writes, Chunk, Destinations
<1>2. expected_writes[c] \in 0 .. 255
  BY <1>1, CasesAssumption
<1>3. QED
  BY <1>2 DEF Inverted

\* A step of anything but the tests keeps what is known of the poison.
LEMMA PoisonInvKept ==
  ASSUME PoisonInv, UNCHANGED case_vars, loaded' \in {loaded, NONE}
  PROVE  PoisonInv'
BY DEF PoisonInv, case_vars, Untouched, Poisoned, LostUnseen, PoisonCatches, Destinations,
   read_addresses, expected_writes, Chunk

LEMMA PoisonInvForget ==
  ASSUME PoisonInv, Forget
  PROVE  PoisonInv'
BY DEF PoisonInv, Forget, PoisonCatches

\* The operators on a case, while it runs.
LEMMA CaseKept ==
  ASSUME UNCHANGED case
  PROVE  /\ Destinations' = Destinations /\ read_addresses' = read_addresses
         /\ expected_writes' = expected_writes /\ Poisoned' = Poisoned
BY DEF Destinations, read_addresses, expected_writes, Chunk, Poisoned

LEMMA PoisonInvInstall ==
  ASSUME CaseInv, PoisonInv, Install, UNCHANGED loaded
  PROVE  PoisonInv'
<1>1. /\ case \in Cases /\ step' = "poison" /\ proven' = proven \cap {case}
      /\ mem' = Overwrite(mem, case.spans) /\ UNCHANGED <<case, verdict, armed, lost>>
      /\ step = "install"
  BY DEF Install, CaseInv
<1>2. \A d \in DOMAIN case.copies \ DOMAIN case.spans : mem'[d] = mem[d]
  BY <1>1, CasesAssumption DEF Overwrite
<1>3. QED
  BY <1>1, <1>2, CaseKept DEF PoisonInv, PoisonCatches

LEMMA PoisonInvPoison ==
  ASSUME CaseInv, PoisonInv, Poison, UNCHANGED loaded
  PROVE  PoisonInv'
<1>1. /\ case \in Cases /\ step = "poison" /\ proven' = {} /\ UNCHANGED <<case, verdict, lost>>
      /\ mem' = Overwrite(mem, IF case.random THEN RandomPoison ELSE DirectedPoison)
      /\ step' = IF case.random THEN "head" ELSE "reinstall"
      /\ armed' = (case.random \/ case \in proven)
  BY DEF Poison, CaseInv
<1>2. Destinations \subseteq Cells
  BY <1>1, CasesAssumption DEF Destinations
<1>3. verdict # "pass"
  BY <1>1 DEF PoisonInv
<1>5. ASSUME armed'
      PROVE  \A c \in Poisoned : mem'[c] = Inverted(expected_writes[c])
  <2>1. CASE case.random
    BY <1>1, <1>2, <2>1 DEF Poisoned, Overwrite, RandomPoison
  <2>2. CASE ~case.random
    <3>1. case \in proven
      BY <1>1, <1>5, <2>2
    <3>2. \A c \in Poisoned : mem[c] = expected_writes[c]
      BY <2>2, <3>1 DEF PoisonInv, Poisoned, Destinations, expected_writes, Chunk
    <3>3. \A c \in Poisoned : mem'[c] = Inverted(mem[c])
      BY <1>1, <1>2, <2>2 DEF Poisoned, Overwrite, DirectedPoison
    <3>4. QED
      BY <3>2, <3>3
  <2>3. QED
    BY <2>1, <2>2
<1>6. QED
  BY <1>1, <1>3, <1>5, CaseKept DEF PoisonInv, PoisonCatches

LEMMA PoisonInvReinstall ==
  ASSUME CaseInv, PoisonInv, Reinstall, UNCHANGED loaded
  PROVE  PoisonInv'
<1>1. /\ case \in Cases /\ step = "reinstall" /\ step' = "head"
      /\ mem' = Overwrite(mem, case.spans) /\ UNCHANGED <<case, verdict, proven, armed, lost>>
      /\ ~case.random /\ proven \subseteq {case}
  BY DEF Reinstall, CaseInv, PoisonInv
<1>2. /\ \A c \in DOMAIN case.spans : mem'[c] = case.spans[c]
      /\ \A c \in DOMAIN case.copies \ DOMAIN case.spans : mem'[c] = mem[c]
  BY <1>1, CasesAssumption DEF Overwrite
<1>3. Untouched(DOMAIN case.spans)'
  BY <1>1, <1>2 DEF Untouched
<1>4. \A c \in Poisoned : mem'[c] = mem[c]
  BY <1>1, <1>2 DEF Poisoned, Destinations
<1>5. QED
  BY <1>1, <1>2, <1>3, <1>4, CaseKept DEF PoisonInv, PoisonCatches

LEMMA PoisonInvCheckHead ==
  ASSUME PoisonInv, CheckHead, UNCHANGED loaded
  PROVE  PoisonInv'
<1>1. step = "head" /\ step' = "start" /\ UNCHANGED <<mem, case, verdict, proven, armed, lost>>
  BY DEF CheckHead
<1>2. QED
  BY <1>1, CaseKept DEF PoisonInv, Untouched, PoisonCatches

\* A write that is not made leaves the poison, or the stimulus.
LEMMA PoisonInvStart ==
  ASSUME CaseInv, PoisonInv, loaded # NONE, NEW works, StartAndWait(works),
         UNCHANGED loaded
  PROVE  PoisonInv'
<1>1. /\ case \in Cases /\ step = "start" /\ UNCHANGED <<case, verdict, armed>>
      /\ step' \in {"poison", "check"} /\ verdict # "pass"
  BY DEF StartAndWait, AfterStart, CaseInv, PoisonInv
<1>2. PICK made \in SUBSET Destinations :
        /\ LET image == Overwrite(mem, Restrict(Chunk(mem), made))
           IN  mem' \in {image} \cup
                 {[image EXCEPT ![c] = b] :
                    c \in IF works THEN {} ELSE Cells \ Destinations, b \in Stray}
        /\ lost' = Destinations \ made
        /\ proven' = IF lost' = {} THEN {case} ELSE {}
  BY DEF StartAndWait
<1>3. Destinations \subseteq Cells
  BY <1>1, CasesAssumption DEF Destinations
<1>4. /\ \A c \in made : mem'[c] = mem[case.copies[c]]
      /\ \A c \in Destinations \ made : mem'[c] = mem[c]
  <2> DEFINE image == Overwrite(mem, Restrict(Chunk(mem), made))
  <2>1. /\ \A c \in made : image[c] = mem[case.copies[c]]
        /\ \A c \in Destinations \ made : image[c] = mem[c]
    BY <1>3 DEF Overwrite, Restrict, Chunk, Destinations
  <2>2. \A c \in Destinations : mem'[c] = image[c]
    <3>1. \/ mem' = image
          \/ \E s \in Cells \ Destinations : \E b \in Stray : mem' = [image EXCEPT ![s] = b]
      BY <1>2
    <3>2. \A c \in Destinations : c \in DOMAIN image
      BY <1>3 DEF Overwrite
    <3> HIDE DEF image
    <3>3. QED
      BY <3>1, <3>2
  <2>3. QED
    BY <2>1, <2>2
<1>5. Untouched(Kept) /\ read_addresses \subseteq Kept
  BY <1>1, CasesAssumption DEF CaseInv, Kept, read_addresses, Destinations
<1>6. \A c \in made : mem'[c] = expected_writes[c]
  <2>1. \A c \in Destinations : case.copies[c] \in Kept
    BY <1>5 DEF read_addresses
  <2>2. QED
    BY <1>4, <1>5, <2>1 DEF Untouched, expected_writes, Chunk
<1>7. proven' # {} =>
        \A d \in DOMAIN case.copies \ DOMAIN case.spans : mem'[d] = case.spans[case.copies[d]]
  BY <1>2, <1>6 DEF expected_writes, Chunk, Destinations
<1>8. ASSUME armed
      PROVE  \A c \in Destinations \ made :
               mem'[c] = expected_writes[c]
                 => c \in DOMAIN case.spans /\ case.spans[c] = expected_writes[c]
  <2>1. TAKE c \in Destinations \ made
  <2>2. HAVE mem'[c] = expected_writes[c]
  <2>3. mem[c] = expected_writes[c]
    BY <1>4, <2>2
  <2>4. c \notin Poisoned
    BY <1>1, <1>8, <2>3, InverseDiffers DEF PoisonInv
  <2>5. c \in DOMAIN case.spans /\ mem[c] = case.spans[c]
    <3>1. CASE case.random
      BY <1>5, <2>4, <3>1 DEF Poisoned, Untouched, Kept
    <3>2. CASE ~case.random
      BY <1>1, <2>4, <3>2 DEF Poisoned, PoisonInv, Untouched
    <3>3. QED
      BY <3>1, <3>2
  <2>6. QED
    BY <2>3, <2>5
<1>9. armed' => LostUnseen'
  BY <1>1, <1>2, <1>8, CaseKept DEF LostUnseen
<1>10. \A p \in proven' : \A d \in DOMAIN p.copies \ DOMAIN p.spans :
         mem'[d] = p.spans[p.copies[d]]
  BY <1>2, <1>7
<1>11. lost' \subseteq Destinations /\ proven' \subseteq {case}
  BY <1>2
<1>12. QED
  BY <1>1, <1>9, <1>10, <1>11, CaseKept DEF PoisonInv, PoisonCatches

LEMMA PoisonInvDecide ==
  ASSUME PoisonInv, CaseInv, loaded # NONE, NEW works, Decide(works), UNCHANGED loaded
  PROVE  PoisonInv'
<1>1. step = "check" /\ step' = "over" /\ UNCHANGED <<mem, case, proven, armed, lost>>
  BY DEF Decide
<1>2. verdict' = "pass" => DestWritesMatch
  BY DEF Decide
<1>3. case \in Cases
  BY <1>1 DEF CaseInv
<1>4. ASSUME verdict' = "pass", armed
      PROVE  \A c \in lost :
               c \in DOMAIN case.spans /\ case.spans[c] = expected_writes[c]
  BY <1>1, <1>2, <1>4 DEF PoisonInv, LostUnseen, DestWritesMatch
<1>5. QED
  BY <1>1, <1>4, CaseKept DEF PoisonInv, PoisonCatches

LEMMA PoisonInvStep ==
  ASSUME CaseInv, PoisonInv, [Next]_run_vars
  PROVE  PoisonInv'
<1>1. CASE (\E c \in Commands : Command_(c)) \/ Prepare \/ Developer
  <2>1. UNCHANGED case_vars /\ loaded' \in {loaded, NONE}
    BY <1>1 DEF Command_, Begin, Prepare, Harden, FallBack, StageStart, StageCopy, Staged,
         harden_native, harden_official, RunTools, PublishOpen, PublishEnd, Upload, Vet,
         SendOpen, SendEnd, SendOfficial, Reset, Restart, PortBack, PortGone, Developer, Edit,
         Delete, Change, board
  <2>2. QED
    BY <2>1, PoisonInvKept
<1>2. CASE RunOver \/ Interrupted
  BY <1>2, PoisonInvForget DEF RunOver, Interrupted
<1>3. CASE \E c \in Cases : Test(c)
  <2>1. PICK c \in Cases : Test(c)
    BY <1>3
  <2>2. /\ step = "over" /\ case' = c /\ step' = "install" /\ verdict' = "none"
        /\ armed' = FALSE /\ lost' = {} /\ UNCHANGED <<mem, proven>>
    BY <2>1 DEF Test, BeginCase
  <2>3. QED
    BY <2>2 DEF PoisonInv, PoisonCatches
<1>4. CASE CaseStep
  <2>1. UNCHANGED loaded /\ loaded # NONE
    BY <1>4 DEF CaseStep, fpga_vars, board
  <2>2. QED
    BY <1>4, <2>1, PoisonInvInstall, PoisonInvPoison, PoisonInvReinstall, PoisonInvCheckHead,
       PoisonInvStart, PoisonInvDecide DEF CaseStep
<1>5. CASE CaseErrs
  <2>1. step # "over" /\ step' = "over" /\ UNCHANGED <<mem, case, verdict, proven, armed, lost>>
    BY <1>5 DEF CaseErrs, Errs
  <2>2. QED
    BY <2>1, CaseKept DEF PoisonInv, PoisonCatches
<1>6. CASE Boot /\ UNCHANGED case_vars
  BY <1>6, PoisonInvKept DEF Boot
<1>7. CASE PowerCycle /\ LosePower
  <2>1. loaded' = NONE /\ proven' = {} /\ UNCHANGED <<case, step, verdict, armed, lost>>
    BY <1>7 DEF PowerCycle, Restart, LosePower
  <2>2. QED
    BY <2>1, CaseKept DEF PoisonInv, PoisonCatches
<1>8. CASE UNCHANGED run_vars
  BY <1>8, PoisonInvKept DEF run_vars, fpga_vars, board
<1>9. QED
  BY <1>1, <1>2, <1>3, <1>4, <1>5, <1>6, <1>7, <1>8 DEF Next, Process, Board

-------------------------------------------------------------------------------
(***************************************************************************)
(* The theorems.                                                           *)
(***************************************************************************)
IInv == FilesInv /\ BuildInv /\ BoardInv /\ CaseInv /\ ImagesInv /\ PoisonInv

LEMMA Invariance == Spec => []IInv
<1>1. Init => IInv
  BY FilesInvInit, BuildInvInit, BoardInvInit, CaseInvInit, ImagesInvInit, PoisonInvInit
  DEF IInv
<1>2. IInv /\ [Next]_run_vars => IInv'
  BY FilesInvStep, BuildInvStep, BoardInvStep, CaseInvStep, ImagesInvStep, PoisonInvStep
  DEF IInv
<1>3. QED
  BY <1>1, <1>2, PTL DEF Spec

\* conftest.py: the tests run on the file in hil/fpga/build, whatever failed before.
THEOREM TestsRunOnTheBitstream == Spec => []BoardAgrees
<1>1. IInv => BoardAgrees
  BY DEF IInv, BoardInv, BoardAgrees
<1>2. QED
  BY <1>1, Invariance, PTL

\* conftest.py: a default run tests no file that has not been in the tree since it began.
THEOREM BuildsAreFresh == Spec => []BuildIsFresh
<1>1. IInv => BuildIsFresh
  BY DEF IInv, BuildInv, FilesInv, Fresh, BuildIsFresh
<1>2. QED
  BY <1>1, Invariance, PTL

\* A red test of a default run blames a file of the tested bitstream, in a version that
\* moves bytes wrongly and has been in the tree since the run began.
THEOREM RedBlamesTheTree == Spec => []RedIsOfTheTree
<1>1. ASSUME IInv PROVE RedIsOfTheTree
  <2>1. SUFFICES ASSUME pc = "testing", cmd.name = "build", verdict = "fail"
                 PROVE  \E f \in bitstream_inputs :
                          bin.built[f] \in seen[f] /\ <<f, bin.built[f]>> \in broken
    BY DEF RedIsOfTheTree
  <2>2. PICK f \in bitstream_inputs : <<f, bin.built[f]>> \in broken
    BY <1>1, <2>1 DEF IInv, CaseInv, Works
  <2>3. bin.built[f] \in seen[f]
    BY <1>1, <2>1 DEF IInv, BuildInv, Fresh
  <2>4. QED
    BY <2>2, <2>3
<1>2. QED
  BY <1>1, Invariance, PTL

\* A green test whose poison went over known bytes lost no write that could have shown:
\* the destinations still hold the inverse of what the checks expect (_poison_extents,
\* poison_destinations), or the stimulus of the test.
THEOREM PoisonIsDecisive == Spec => []PoisonCatches
<1>1. IInv => PoisonCatches
  BY DEF IInv, PoisonInv
<1>2. QED
  BY <1>1, Invariance, PTL

\* A whole bitstream that vet_existing_bitstream takes for current was built from the tree,
\* but for the files that were edited while it was being built and those that are gone.
THEOREM ReusedIsCurrent == Spec => ReuseIsCurrent
<1>1. IInv /\ [Next]_run_vars =>
        [pc = "vet" /\ pc' = "send" /\ ~AcceptsStale /\ bin.whole =>
           \A f \in bitstream_inputs :
             bin.built[f] = tree[f] \/ f \in bin.late \/ tree[f] = 0]_run_vars
  <2>1. SUFFICES ASSUME IInv, Next, pc = "vet", pc' = "send", ~AcceptsStale, bin.whole,
                        NEW f \in bitstream_inputs, tree[f] # 0
                 PROVE  bin.built[f] = tree[f] \/ f \in bin.late
    OBVIOUS
  <2>2. Vet
    <3>1. CASE Prepare
      BY <2>1, <3>1 DEF Prepare, Harden, FallBack, StageStart, StageCopy, Staged,
         harden_native, harden_official, RunTools, PublishOpen, PublishEnd, ToolError, Upload,
         SendOpen, SendEnd, SendOfficial, Reset, PortBack, PortGone, Goto, Exit
    <3>2. CASE (\E c \in Commands : Command_(c)) \/ RunOver \/ Interrupted
      BY <2>1, <3>2 DEF Command_, Begin, RunOver, Interrupted, RunEnds, Abort, Exit
    <3>3. CASE \/ \E c \in Cases : Test(c)
               \/ CaseStep \/ CaseErrs \/ Developer \/ Board
      BY <2>1, <3>3 DEF Test, Enable, CaseStep, CaseErrs, Developer, Edit, Delete, Change,
         Board, Boot, PowerCycle, fpga_vars, process
    <3>4. QED
      BY <2>1, <3>1, <3>2, <3>3 DEF Next, Process
  <2>3. stale_inputs(bin) = {}
    BY <2>1, <2>2 DEF Vet
  <2>4. ~(tree[f] > bin.mtime)
    BY <2>1, <2>3 DEF stale_inputs
  <2>5. QED
    BY <2>1, <2>4 DEF IInv, ImagesInv, Current
<1>2. QED
  BY <1>1, Invariance, PTL DEF Spec, ReuseIsCurrent
=============================================================================
