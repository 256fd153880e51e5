-------------------------------- MODULE HilCase --------------------------------
(***************************************************************************)
(* One hardware test of src/hil/tests: _run_case of test_directed.py or    *)
(* test_hw_random_chain of test_random.py, against a design that may lose  *)
(* writes or make a stray one.  A test installs its stimulus, poisons the  *)
(* destinations, looks at the head descriptor, pulses START, reads back    *)
(* and decides with the checks of src/hil/checks.py.                       *)
(*                                                                         *)
(* A case is what build_case computed: the bytes to install, the copies    *)
(* its chain makes, and the cells of its descriptors.  What a chain means  *)
(* is DmaChain; here it is one chunk, copied between the cells of the      *)
(* PSRAMs, which keep their bytes from test to test and from run to run.   *)
(***************************************************************************)
EXTENDS Naturals, FiniteSets, Functions

CONSTANTS
  Cells,                   \* addresses of the two devices
  Cases,                   \* the tests
  Garbage,                 \* what the cells may hold at power-up
  Stray                    \* bytes a defective design may write elsewhere

\* A case installs bytes where its chain reads, its chain leaves its descriptors alone,
\* and only a case of the catalog restarts.
ASSUME CasesAssumption ==
  \A c \in Cases :
    /\ DOMAIN c.spans \cup DOMAIN c.copies \subseteq Cells
    /\ \A d \in DOMAIN c.copies : c.copies[d] \in DOMAIN c.spans
    /\ c.descriptors \subseteq DOMAIN c.spans \ DOMAIN c.copies
    /\ c.random => ~c.restart
    /\ {c.random, c.restart} \subseteq BOOLEAN
    /\ \A a \in DOMAIN c.spans : c.spans[a] \in 0 .. 255

VARIABLES
  mem,                     \* [cell -> byte]
  case, step,              \* the test that runs, its next step
  again,                   \* TC-RESTART: the second START is still to come
  verdict,                 \* of the last test: "none", "pass" or "fail"
  proven,                  \* history: the case whose writes mem still holds, if any
  armed,                   \* history: the poison went over known bytes
  lost                     \* history: the destinations the last START did not write

case_vars == <<mem, case, step, again, verdict, proven, armed, lost>>

\* A case of the catalog, and a chain of the random campaign.  copies takes each
\* destination to its source.
Directed(name, spans, copies, descriptors, restart) ==
  [name |-> name, spans |-> spans, copies |-> copies,
   descriptors |-> descriptors, restart |-> restart, random |-> FALSE]
Random(name, spans, copies, descriptors) ==
  [name |-> name, spans |-> spans, copies |-> copies,
   descriptors |-> descriptors, restart |-> FALSE, random |-> TRUE]
NO_CASE == Random("none", <<>>, <<>>, {})

\* dump_extents; and interpret_chain over what the case installs.
Destinations == DOMAIN case.copies
Chunk(image) == [c \in Destinations |-> image[case.copies[c]]]
expected_writes == Chunk(case.spans)
read_addresses == case.descriptors \cup {case.copies[c] : c \in Destinations}

CaseInit ==
  /\ mem \in Garbage
  /\ case = NO_CASE /\ step = "over" /\ again = FALSE
  /\ verdict = "none" /\ proven = {} /\ armed = FALSE /\ lost = {}

Inverted(byte) == 255 - byte
Overwrite(image, bytes) ==
  [c \in Cells |-> IF c \in DOMAIN bytes THEN bytes[c] ELSE image[c]]

BeginCase(c) ==
  /\ step = "over"
  /\ case' = c /\ again' = c.restart /\ step' = "install"
  /\ verdict' = "none" /\ armed' = FALSE /\ lost' = {}
  /\ UNCHANGED <<mem, proven>>

\* write_spans(case.spans).
Install ==
  /\ step = "install" /\ step' = "poison"
  /\ mem' = Overwrite(mem, case.spans)
  /\ proven' = proven \cap {case}
  /\ UNCHANGED <<case, again, verdict, armed, lost>>

\* _poison_extents inverts what the destinations hold; poison_destinations of
\* the random campaign inverts what they should hold, where the chain reads nothing.
DirectedPoison == [c \in Destinations |-> Inverted(mem[c])]
RandomPoison ==
  [c \in Destinations \ read_addresses |-> Inverted(expected_writes[c])]

Poison ==
  /\ step = "poison"
  /\ mem' = Overwrite(mem, IF case.random THEN RandomPoison ELSE DirectedPoison)
  /\ step' = IF case.random THEN "head" ELSE "reinstall"
  /\ armed' = (case.random \/ case \in proven) /\ proven' = {}
  /\ UNCHANGED <<case, again, verdict, lost>>

\* Mutant: no second installation.
Reinstall_skipped ==
  /\ step = "reinstall" /\ step' = "head"
  /\ UNCHANGED <<mem, case, again, verdict, proven, armed, lost>>

\* Destinations that are also sources get their stimulus back.
Reinstall ==
  /\ step = "reinstall" /\ step' = "head"
  /\ mem' = Overwrite(mem, case.spans)
  /\ UNCHANGED <<case, again, verdict, proven, armed, lost>>

Untouched(cells) == \A c \in cells : mem[c] = case.spans[c]

\* check_head_tcd_installed.
CheckHead ==
  /\ step = "head"
  /\ Untouched(case.descriptors)
  /\ step' = "start"
  /\ UNCHANGED <<mem, case, again, verdict, proven, armed, lost>>

\* Mutant: no poison before the second START.
AfterStart_unpoisoned == IF again THEN "head" ELSE "check"

\* The second START of TC-RESTART begins with the poison.
AfterStart == IF again THEN "poison" ELSE "check"

\* start_and_wait.  A design that works makes every write of the chain; another
\* one makes some of them, and perhaps a write that is none of them.
StartAndWait(works) ==
  /\ step = "start"
  /\ \E made \in SUBSET Destinations :
       /\ works => made = Destinations
       /\ LET image == Overwrite(mem, Restrict(Chunk(mem), made))
          IN  mem' \in {image} \cup
                {[image EXCEPT ![c] = b] :
                   c \in IF works THEN {} ELSE Cells \ Destinations, b \in Stray}
       /\ lost' = Destinations \ made
  /\ proven' = IF lost' = {} THEN {case} ELSE {}
  /\ again' = FALSE /\ step' = AfterStart
  /\ UNCHANGED <<case, verdict, armed>>

\* check_dest_writes, over the dump of the destinations.
DestWritesMatch == \A c \in Destinations : mem[c] = expected_writes[c]

\* check_guard_bytes: the bytes around the destinations that the test installed.
Guards == DOMAIN case.spans \ Destinations
GuardBytesKept == case.random => Untouched(Guards)

\* check_descriptors_intact.
DescriptorsIntact == Untouched(case.descriptors)

\* check_host_status: a design that works leaves the host port idle.
Decide(works) ==
  /\ step = "check"
  /\ \E idle \in BOOLEAN :
       /\ works => idle
       /\ verdict' = IF DestWritesMatch /\ GuardBytesKept /\ DescriptorsIntact /\ idle
                     THEN "pass" ELSE "fail"
  /\ step' = "over"
  /\ UNCHANGED <<mem, case, again, proven, armed, lost>>

\* A call of the session raises: the test ends with an error, the cells stay.
Errs ==
  /\ step # "over" /\ step' = "over"
  /\ UNCHANGED <<mem, case, again, verdict, proven, armed, lost>>

\* The process of the test is gone.
Forget ==
  /\ case' = NO_CASE /\ step' = "over" /\ again' = FALSE
  /\ verdict' = "none" /\ armed' = FALSE /\ lost' = {}
  /\ UNCHANGED <<mem, proven>>

LosePower ==
  /\ mem' \in Garbage /\ proven' = {}
  /\ UNCHANGED <<case, step, again, verdict, armed, lost>>
=============================================================================
