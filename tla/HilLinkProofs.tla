---------------------------- MODULE HilLinkProofs ----------------------------
(***************************************************************************)
(* HilLink, for every number of calls, attempts, resets and reboots: the   *)
(* stream is in step when a statement is sent, a reset that returned       *)
(* leaves a board that resolves the entry points, and the serial link      *)
(* keeps LinkContract.                                                     *)
(*                                                                         *)
(* All three rest on what the cable can hold.  One statement at most is    *)
(* anywhere between the host's send and the board's reply, behind it at    *)
(* most one ctrl-C and ctrl-A, and a banner is the last thing the board    *)
(* said (CableInv); what the host believes of a clean handle is then true  *)
(* (HostInv), and how far each call is can be read off both (AnswerInv).   *)
(***************************************************************************)
EXTENDS HilLink, SequenceTheorems, TLAPS

Work == {PREAMBLE, HARD_RESET} \cup {Statement(c) : c \in 1..Calls}
Lines == {<<>>} \cup UNION {Printed(e) : e \in Contract!Envelopes}
Replies == {Reply(lines, err) : lines \in Lines, err \in BOOLEAN}

LinkTypes ==
  /\ pc \in {"idle", "ensure", "connect", "enter", "resync", "send", "follow",
             "reset", "settle"}
  /\ repl \in {"none", "open", "raw", "dead"}
  /\ dirty \in BOOLEAN /\ heap \in BOOLEAN
  /\ call \in 0..Calls
  /\ answer \in [1..Calls -> {NONE, "running", "cut"} \cup Contract!Envelopes]
  /\ outcome \in [1..Calls -> {NONE, TRANSPORT_ERROR} \cup Contract!Envelopes]
  /\ out \in Seq({BANNER} \cup Replies)

Empty == inp = <<>> /\ running = <<>> /\ out = <<>>

\* The message m is on its way to the board, or is being executed by it.
Waits(m) == inp \in {<<m>>, <<m, CTRL_C, CTRL_A>>} /\ running = <<>>
Executes(m) == inp \in {<<>>, <<CTRL_C, CTRL_A>>} /\ running = <<m>>

CableInv ==
  /\ \/ inp \in {<<>>, <<CTRL_A>>, <<CTRL_C, CTRL_A>>} /\ running = <<>>
     \/ \E m \in Work : Waits(m) \/ Executes(m)
  /\ Waits(HARD_RESET) \/ Executes(HARD_RESET) => pc = "settle" /\ Len(inp) < 2
  /\ \A i \in 1..Len(out) : out[i] = BANNER
       => i = Len(out) /\ inp = <<>> /\ running = <<>>

\* The banner of the last ctrl-A has been read, and no other is to come.
BannerRead ==
  /\ \A i \in 1..Len(out) : out[i] # BANNER
  /\ inp = <<>> \/ \E m \in Work : inp = <<m>>

\* Which handle goes with which place in the code, and what a clean one stands for.
HostInv ==
  /\ pc \in {"connect", "settle"} => repl = "none"
  /\ pc \in {"resync", "send", "follow", "reset"} => repl \in {"raw", "dead"}
  /\ pc = "enter" => repl \in {"open", "dead"}
  /\ repl = "open" => pc = "enter"
  /\ repl = "none" => ~dirty
  /\ pc \in {"send", "follow"} => ~dirty
  /\ repl = "dead" => Empty
  /\ repl = "raw" /\ ~dirty /\ pc # "follow" => Empty
  /\ repl = "raw" /\ pc # "resync" => BannerRead

\* What the reply of the statement just followed says.
Truthful(lines) ==
  IF Head(todo) = PREAMBLE THEN heap
  ELSE answer[call] \in Contract!Envelopes /\ parse_payload(lines) = answer[call]

FollowInv ==
  pc = "follow" /\ repl = "raw" =>
    \/ inp = <<Head(todo)>> /\ running = <<>> /\ out = <<>>
    \/ inp = <<>> /\ running = <<Head(todo)>> /\ out = <<>>
    \/ /\ inp = <<>> /\ running = <<>>
       /\ \E lines \in Lines, err \in BOOLEAN :
            out = <<Reply(lines, err)>> /\ (~err => Truthful(lines))

\* The latest call is under way, and its statement has not been sent.
Pending == todo \in {<<Statement(call)>>, <<PREAMBLE, Statement(call)>>}
Unsent == Pending /\ ~(pc = "follow" /\ todo = <<Statement(call)>>)

TodoInv ==
  /\ todo \in {<<>>, <<PREAMBLE>>} \/ Pending
  /\ pc = "idle" <=> todo = <<>>
  /\ Pending <=> call > 0 /\ outcome[call] = NONE
  /\ \A c \in 1..Calls : c > call => answer[c] = NONE /\ outcome[c] = NONE

\* A statement that has not been read was never started, and one that is being executed
\* was started once, if there was a session to start it in.
AnswerInv ==
  /\ \A c \in 1..Calls :
       /\ Waits(Statement(c)) => c <= call /\ answer[c] = NONE
       /\ Executes(Statement(c)) =>
            c <= call /\ answer[c] = IF heap THEN "running" ELSE NONE
  /\ Unsent => /\ answer[call] = NONE
               /\ ~Waits(Statement(call)) /\ ~Executes(Statement(call))

ResetInv ==
  /\ pc \in {"reset", "settle"} => todo = <<PREAMBLE>> /\ reset = "going"
  /\ reset = "done" => heap

IInv == LinkTypes /\ CableInv /\ HostInv /\ FollowInv /\ TodoInv /\ AnswerInv
          /\ ResetInv

-------------------------------------------------------------------------------
(***************************************************************************)
(* The messages, and what can be done to a queue of so few of them.        *)
(***************************************************************************)
LEMMA ControlMessages == CTRL_C # CTRL_A /\ PREAMBLE # HARD_RESET
BY DEF CTRL_C, CTRL_A, PREAMBLE, HARD_RESET

LEMMA Statements ==
  ASSUME NEW c
  PROVE  /\ Statement(c) \notin {CTRL_C, CTRL_A, PREAMBLE, HARD_RESET}
         /\ Statement(c)[1] = "call" /\ Statement(c)[2] = c
BY DEF Statement, CTRL_C, CTRL_A, PREAMBLE, HARD_RESET

LEMMA NoCalls ==
  /\ CTRL_C[1] # "call" /\ CTRL_A[1] # "call"
  /\ PREAMBLE[1] # "call" /\ HARD_RESET[1] # "call"
BY DEF CTRL_C, CTRL_A, PREAMBLE, HARD_RESET

LEMMA WorkIsNoControl == \A m \in Work : m \notin {CTRL_C, CTRL_A}
<1>1. PREAMBLE \notin {CTRL_C, CTRL_A} /\ HARD_RESET \notin {CTRL_C, CTRL_A}
  BY DEF CTRL_C, CTRL_A, PREAMBLE, HARD_RESET
<1>2. QED
  BY <1>1, Statements DEF Work

LEMMA ReplyFields ==
  ASSUME NEW lines, NEW err
  PROVE  /\ Reply(lines, err) # BANNER
         /\ Reply(lines, err)[2] = lines /\ Reply(lines, err)[3] = err
BY DEF Reply, BANNER

\* The queues that occur, and what the actions do to them.
LEMMA Queues ==
  ASSUME NEW m
  PROVE  /\ SubSeq(<<m>>, 1, 1) = <<m>> /\ SubSeq(<<m, CTRL_C, CTRL_A>>, 1, 1) = <<m>>
         /\ <<m>> \o <<CTRL_C, CTRL_A>> = <<m, CTRL_C, CTRL_A>>
         /\ <<>> \o <<CTRL_C, CTRL_A>> = <<CTRL_C, CTRL_A>>
         /\ Tail(<<m, CTRL_C, CTRL_A>>) = <<CTRL_C, CTRL_A>> /\ Tail(<<m>>) = <<>>
         /\ Tail(<<CTRL_C, CTRL_A>>) = <<CTRL_A>> /\ Append(<<>>, m) = <<m>>
<1> DEFINE T == {m, CTRL_C, CTRL_A}
<1>1. <<m>> \in Seq(T) /\ <<CTRL_C, CTRL_A>> \in Seq(T) /\ <<m, CTRL_C, CTRL_A>> \in Seq(T)
  OBVIOUS
<1>2. SubSeq(<<m>>, 1, 1) = <<m>>
  BY <1>1, SubSeqFull
<1>3. SubSeq(<<m, CTRL_C, CTRL_A>>, 1, 1) = <<m>>
  <2>1. /\ SubSeq(<<m, CTRL_C, CTRL_A>>, 1, 1) \in Seq(T)
        /\ Len(SubSeq(<<m, CTRL_C, CTRL_A>>, 1, 1)) = 1
        /\ SubSeq(<<m, CTRL_C, CTRL_A>>, 1, 1)[1] = m
    BY <1>1, SubSeqProperties
  <2>2. \A i \in 1..1 : SubSeq(<<m, CTRL_C, CTRL_A>>, 1, 1)[i] = <<m>>[i]
    BY <2>1
  <2>3. Len(<<m>>) = 1
    OBVIOUS
  <2>4. QED
    BY <1>1, <2>1, <2>2, <2>3, SeqEqual
<1>4. <<m>> \o <<CTRL_C, CTRL_A>> = <<m, CTRL_C, CTRL_A>>
  <2> DEFINE s == <<m>> \o <<CTRL_C, CTRL_A>>
  <2>1. s \in Seq(T) /\ Len(s) = 3 /\ s[1] = m /\ s[2] = CTRL_C /\ s[3] = CTRL_A
    BY <1>1, ConcatProperties
  <2>2. \A i \in 1..3 : s[i] = <<m, CTRL_C, CTRL_A>>[i]
    BY <2>1
  <2>3. QED
    BY <1>1, <2>1, <2>2, SeqEqual
<1>5. QED
  BY <1>2, <1>3, <1>4

LEMMA UnreadStatements ==
  ASSUME CableInv
  PROVE  \/ unread_statements = <<>> /\ inp \in {<<>>, <<CTRL_A>>, <<CTRL_C, CTRL_A>>}
         \/ \E m \in Work : Waits(m) /\ unread_statements = <<m>>
<1> DEFINE S == {0} \cup {i \in 1..Len(inp) : inp[i] \notin {CTRL_C, CTRL_A}}
<1>1. CASE inp \in {<<>>, <<CTRL_A>>, <<CTRL_C, CTRL_A>>}
  <2>1. S = {0}
    BY <1>1
  <2>2. Max(S) = 0
    BY <2>1 DEF Max
  <2>3. unread_statements = SubSeq(inp, 1, 0)
    BY <2>2 DEF unread_statements
  <2>4. QED
    BY <1>1, <2>3
<1>2. CASE \E m \in Work : Waits(m)
  <2>1. PICK m \in Work : Waits(m)
    BY <1>2
  <2>2. S = {0, 1}
    BY <2>1, WorkIsNoControl DEF Waits
  <2>3. Max(S) = 1
    BY <2>2 DEF Max
  <2>4. unread_statements = SubSeq(inp, 1, 1)
    BY <2>3 DEF unread_statements
  <2>5. QED
    BY <2>1, <2>4, Queues DEF Waits
<1>3. QED
  BY <1>1, <1>2 DEF CableInv, Executes

LEMMA Init_IInv == Init => IInv
<1> SUFFICES ASSUME Init PROVE IInv
  OBVIOUS
<1> USE HilLinkAssumption DEF Init, Contract!Init
<1>0. LinkTypes
  <2>1. out \in Seq({BANNER} \cup Replies)
    BY EmptySeq
  <2>2. answer = [c \in 1..Calls |-> NONE] /\ outcome = [c \in 1..Calls |-> NONE]
    BY DEF NONE, Contract!NONE
  <2> HIDE DEF Contract!Init
  <2>3. answer \in [1..Calls -> {NONE, "running", "cut"} \cup Contract!Envelopes]
        /\ outcome \in [1..Calls -> {NONE, TRANSPORT_ERROR} \cup Contract!Envelopes]
    BY <2>2
  <2>4. call \in 0..Calls
    BY DEF Contract!Init
  <2>5. QED
    BY <2>1, <2>3, <2>4 DEF LinkTypes
<1>1. HostInv /\ FollowInv /\ ResetInv
  BY DEF HostInv, FollowInv, ResetInv, Empty, BannerRead
<1>2. ~Pending
  BY DEF Pending
<1>3. TodoInv
  BY <1>2 DEF TodoInv, NONE, Contract!NONE
<1>4. \A m : ~Waits(m) /\ ~Executes(m)
  BY DEF Waits, Executes
<1>5. CableInv /\ AnswerInv
  BY <1>2, <1>4 DEF CableInv, AnswerInv, Unsent
<1>6. QED
  BY <1>0, <1>1, <1>3, <1>5 DEF IInv

-------------------------------------------------------------------------------
(***************************************************************************)
(* What the operations that several actions share leave behind.            *)
(***************************************************************************)
LEMMA WorkOnTheCable ==
  ASSUME NEW m \in Work
  PROVE  /\ Waits(m) <=> inp \in {<<m>>, <<m, CTRL_C, CTRL_A>>} /\ running = <<>>
         /\ Executes(m) <=> inp \in {<<>>, <<CTRL_C, CTRL_A>>} /\ running = <<m>>
BY DEF Waits, Executes

\* No new statement of a call is on its way or being executed.
NothingSent ==
  \A c \in 1..Calls : /\ Waits(Statement(c))' => Waits(Statement(c))
                      /\ Executes(Statement(c))' => Executes(Statement(c))

LEMMA CableKept ==
  ASSUME UNCHANGED <<inp, running>>
  PROVE  NothingSent
BY DEF NothingSent, Waits, Executes

LEMMA AnswersKept ==
  ASSUME LinkTypes, TodoInv, AnswerInv, NothingSent, UNCHANGED <<call, answer, heap>>, Unsent' => Unsent
  PROVE  AnswerInv'
<1>1. Unsent => call \in 1..Calls
  BY DEF LinkTypes, TodoInv, Unsent
<1>2. QED
  BY <1>1 DEF AnswerInv, NothingSent

LEMMA ReplEntered ==
  ASSUME CableInv, NEW handle, handle # "dead", EnterRawRepl(handle), running' = running,
         ~Waits(HARD_RESET), ~Executes(HARD_RESET)
  PROVE  CableInv' /\ NothingSent /\ out' = <<>>
<1>1. inp' = unread_statements \o <<CTRL_C, CTRL_A>> /\ out' = <<>>
  BY DEF EnterRawRepl
<1>2. CASE unread_statements = <<>> /\ inp \in {<<>>, <<CTRL_A>>, <<CTRL_C, CTRL_A>>}
  <2>1. inp' = <<CTRL_C, CTRL_A>>
    BY <1>1, <1>2, Queues
  <2>2. QED
    BY <1>1, <1>2, <2>1, Statements, WorkIsNoControl
       DEF CableInv, NothingSent, Waits, Executes
<1>3. CASE \E m \in Work : Waits(m) /\ unread_statements = <<m>>
  <2>1. PICK m \in Work : Waits(m) /\ unread_statements = <<m>>
    BY <1>3
  <2>2. inp' = <<m, CTRL_C, CTRL_A>>
    BY <1>1, <2>1, Queues
  <2>3. m # HARD_RESET
    BY <2>1
  <2>4. Waits(m)' /\ \A n \in Work : (Waits(n)' => n = m) /\ ~Executes(n)'
    BY <2>1, <2>2 DEF Waits, Executes
  <2>5. \A c \in 1..Calls : Statement(c) \in Work
    BY DEF Work
  <2>6. QED
    BY <1>1, <2>1, <2>2, <2>3, <2>4, <2>5 DEF CableInv, NothingSent, Work
<1>4. QED
  BY <1>2, <1>3, UnreadStatements

LEMMA Types ==
  ASSUME LinkTypes
  PROVE  /\ answer \in [1..Calls -> {NONE, "running", "cut"} \cup Contract!Envelopes]
         /\ outcome \in [1..Calls -> {NONE, TRANSPORT_ERROR} \cup Contract!Envelopes]
         /\ call \in 0..Calls /\ out \in Seq({BANNER} \cup Replies)
         /\ <<>> \in Seq({BANNER} \cup Replies)
BY EmptySeq DEF LinkTypes

LEMMA Outcomes ==
  /\ NONE = "none" /\ TRANSPORT_ERROR = "TransportError" /\ Contract!Envelopes = {"OK", "ERR"}
  /\ TRANSPORT_ERROR # NONE
BY DEF NONE, TRANSPORT_ERROR, Contract!NONE, Contract!TRANSPORT_ERROR, Contract!Envelopes

\* The forms of todo.
LEMMA Todos ==
  ASSUME TodoInv
  PROVE  /\ todo # <<>> => Head(todo) \in {PREAMBLE, Statement(call)}
         /\ todo # <<>> /\ Head(todo) = PREAMBLE =>
              \/ todo = <<PREAMBLE>> /\ ~Pending /\ Tail(todo) = <<>>
              \/ todo = <<PREAMBLE, Statement(call)>> /\ Pending
                 /\ Tail(todo) = <<Statement(call)>>
         /\ todo # <<>> /\ Head(todo) = Statement(call) =>
              todo = <<Statement(call)>> /\ Pending /\ Tail(todo) = <<>>
<1>1. Statement(call) # PREAMBLE
  BY Statements
<1> DEFINE S == Statement(call)
<1>0. /\ Head(<<PREAMBLE>>) = PREAMBLE /\ Tail(<<PREAMBLE>>) = <<>>
      /\ Head(<<S>>) = S /\ Tail(<<S>>) = <<>>
      /\ Head(<<PREAMBLE, S>>) = PREAMBLE /\ Tail(<<PREAMBLE, S>>) = <<S>>
  OBVIOUS
<1>2. \/ todo = <<>>
      \/ todo = <<PREAMBLE>> /\ Head(todo) = PREAMBLE /\ Tail(todo) = <<>>
      \/ todo = <<Statement(call)>> /\ Head(todo) = Statement(call) /\ Tail(todo) = <<>>
      \/ todo = <<PREAMBLE, Statement(call)>> /\ Head(todo) = PREAMBLE
         /\ Tail(todo) = <<Statement(call)>>
  BY <1>0 DEF TodoInv, Pending
<1>3. todo = <<PREAMBLE>> => ~Pending
  BY <1>1 DEF Pending
<1>4. QED
  BY <1>1, <1>2, <1>3 DEF Pending

\* An exception ends the call that is under way, if one is.
LEMMA Raised ==
  ASSUME LinkTypes, TodoInv, Raise, UNCHANGED <<call, answer>>
  PROVE  /\ TodoInv' /\ ~Unsent'
         /\ outcome' \in [1..Calls -> {NONE, TRANSPORT_ERROR} \cup Contract!Envelopes]
<1>1. pc' = "idle" /\ todo' = <<>>
      /\ outcome' = IF call > 0 /\ outcome[call] = NONE
                    THEN [outcome EXCEPT ![call] = TRANSPORT_ERROR] ELSE outcome
  BY DEF Raise
<1>2. call > 0 => call \in 1..Calls
  BY Types
<1>3. outcome' \in [1..Calls -> {NONE, TRANSPORT_ERROR} \cup Contract!Envelopes]
  BY <1>1, Types
<1>4. /\ call > 0 => outcome'[call] # NONE
      /\ \A c \in 1..Calls : c > call => outcome'[c] = outcome[c]
  BY <1>1, <1>2, Types, Outcomes
<1>5. ~Pending'
  BY <1>1 DEF Pending
<1>6. QED
  BY <1>1, <1>3, <1>4, <1>5 DEF TodoInv, Unsent

\* What the board's entry point leaves when it ends or is cut.
LEMMA AnsweredIs ==
  ASSUME LinkTypes, CableInv, NEW e \in {"cut"} \cup Contract!Envelopes, Answered(e)
  PROVE  /\ answer' \in [1..Calls -> {NONE, "running", "cut"} \cup Contract!Envelopes]
         /\ \A c \in 1..Calls :
              answer'[c] = IF running = <<Statement(c)>> /\ answer[c] = "running"
                           THEN e ELSE answer[c]
<1>1. CASE \E c \in 1..Calls : running = <<Statement(c)>>
  <2>1. PICK c \in 1..Calls : running = <<Statement(c)>>
    BY <1>1
  <2>2. running # <<>> /\ running[1][1] = "call" /\ running[1][2] = c
    BY <2>1, Statements
  <2>3. \A d \in 1..Calls : running = <<Statement(d)>> <=> d = c
    BY <2>1, Statements
  <2>4. answer' = IF answer[c] = "running" THEN [answer EXCEPT ![c] = e] ELSE answer
    BY <2>2 DEF Answered
  <2>5. QED
    BY <2>3, <2>4, Types
<1>2. CASE ~\E c \in 1..Calls : running = <<Statement(c)>>
  <2>1. running # <<>> => running[1][1] # "call"
    BY <1>2, NoCalls DEF CableInv, Work, Waits, Executes
  <2>2. answer' = answer
    BY <2>1 DEF Answered
  <2>3. QED
    BY <1>2, <2>2, Types
<1>3. QED
  BY <1>1, <1>2

LEMMA CableInvKept ==
  ASSUME CableInv, UNCHANGED <<inp, running>>, out' = out \/ out' = <<>>,
         Waits(HARD_RESET) \/ Executes(HARD_RESET) => pc' = "settle"
  PROVE  CableInv'
BY DEF CableInv, Waits, Executes

-------------------------------------------------------------------------------
(***************************************************************************)
(* The host's actions.                                                     *)
(***************************************************************************)
LEMMA EnsureConnected_IInv == ASSUME IInv, EnsureConnected PROVE IInv'
<1> USE DEF EnsureConnected, link, calls, faults
<1>1. ~Waits(HARD_RESET) /\ ~Executes(HARD_RESET)
  BY DEF IInv, CableInv
<1>2. /\ CableInv' /\ NothingSent /\ running' = running
      /\ out' = out \/ out' = <<>>
      /\ repl = "dead" => inp' = inp /\ out' = out
      /\ pc' # "resync" => inp' = inp /\ out' = out
  <2>1. CASE pc' = "resync" /\ repl # "dead"
    BY <1>1, <2>1, ReplEntered DEF IInv
  <2>2. CASE ~(pc' = "resync" /\ repl # "dead")
    <3>1. UNCHANGED <<inp, out, running>>
      BY <2>2 DEF EnterRawRepl
    <3>2. QED
      BY <1>1, <2>2, <3>1, CableKept, CableInvKept DEF IInv
  <2>3. QED
    BY <2>1, <2>2
<1>3. LinkTypes'
  BY <1>2, Types DEF IInv, LinkTypes
<1>4. HostInv' /\ FollowInv'
  BY <1>2 DEF IInv, LinkTypes, HostInv, FollowInv, Empty, BannerRead
<1>5. TodoInv' /\ ResetInv' /\ (Unsent' => Unsent)
  BY DEF IInv, TodoInv, ResetInv, Pending, Unsent
<1>6. AnswerInv'
  BY <1>2, <1>5, AnswersKept DEF IInv
<1>7. QED
  BY <1>2, <1>3, <1>4, <1>5, <1>6 DEF IInv

LEMMA OpenPort_IInv == ASSUME IInv, OpenPort PROVE IInv'
<1> USE DEF OpenPort, calls, faults
<1>1. ~Waits(HARD_RESET) /\ ~Executes(HARD_RESET)
  BY DEF IInv, CableInv
<1>2. CableInv' /\ NothingSent /\ out' = <<>>
  BY <1>1, ReplEntered DEF IInv
<1>3. LinkTypes'
  BY <1>2, Types DEF IInv, LinkTypes
<1>4. HostInv' /\ FollowInv'
  BY DEF IInv, HostInv, FollowInv
<1>5. TodoInv' /\ ResetInv' /\ (Unsent' => Unsent)
  BY DEF IInv, TodoInv, ResetInv, Pending, Unsent
<1>6. AnswerInv'
  BY <1>2, <1>5, AnswersKept DEF IInv
<1>7. QED
  BY <1>2, <1>3, <1>4, <1>5, <1>6 DEF IInv

LEMMA ConnectFails_IInv == ASSUME IInv, ConnectFails PROVE IInv'
<1> USE DEF ConnectFails, Drop, board
<1>1. CableInv' /\ NothingSent
  BY CableKept, CableInvKept DEF IInv, CableInv
<1>2. CASE Raise
  <2>1. TodoInv' /\ ~Unsent' /\ LinkTypes'
    BY <1>2, Raised, Types DEF IInv, LinkTypes, Raise
  <2>2. HostInv' /\ FollowInv' /\ ResetInv'
    BY <1>2 DEF IInv, HostInv, FollowInv, ResetInv, Raise
  <2>3. AnswerInv'
    BY <1>1, <2>1, AnswersKept DEF IInv
  <2>4. QED
    BY <1>1, <2>1, <2>2, <2>3 DEF IInv
<1>3. CASE retry /\ pc' = "connect" /\ UNCHANGED <<todo, outcome, reset>>
  <2>1. LinkTypes' /\ HostInv' /\ FollowInv' /\ ResetInv'
    BY <1>3 DEF IInv, LinkTypes, HostInv, FollowInv, ResetInv
  <2>2. TodoInv' /\ (Unsent' => Unsent)
    BY <1>3 DEF IInv, TodoInv, Pending, Unsent
  <2>3. AnswerInv'
    BY <1>1, <1>3, <2>2, AnswersKept DEF IInv
  <2>4. QED
    BY <1>1, <2>1, <2>2, <2>3 DEF IInv
<1>4. QED
  BY <1>2, <1>3

LEMMA ResyncFails_IInv == ASSUME IInv, ResyncFails PROVE IInv'
<1> USE DEF ResyncFails, Drop, board, calls, faults
<1>1. CableInv' /\ NothingSent
  BY CableKept, CableInvKept DEF IInv, CableInv
<1>2. LinkTypes' /\ HostInv' /\ FollowInv' /\ ResetInv'
  BY DEF IInv, LinkTypes, HostInv, FollowInv, ResetInv
<1>3. TodoInv' /\ (Unsent' => Unsent)
  BY DEF IInv, TodoInv, Pending, Unsent
<1>4. AnswerInv'
  BY <1>1, <1>3, AnswersKept DEF IInv
<1>5. QED
  BY <1>1, <1>2, <1>3, <1>4 DEF IInv

LEMMA Entered_IInv == ASSUME IInv, Entered PROVE IInv'
<1> USE DEF Entered, calls
<1>1. PICK i \in 1..Len(out) : out[i] = BANNER /\ out' = SubSeq(out, i + 1, Len(out))
  OBVIOUS
<1>2. i = Len(out) /\ inp = <<>> /\ running = <<>>
  BY <1>1 DEF IInv, CableInv
<1>3. out' = <<>>
  BY <1>1, <1>2, Types, SubSeqEmpty DEF IInv
<1>4. todo # <<>> /\ pc' = "send"
  BY DEF IInv, TodoInv
<1>5. CableInv' /\ NothingSent
  BY <1>2, <1>3, CableKept, CableInvKept DEF IInv, CableInv
<1>6. LinkTypes'
  BY <1>3, <1>4, Types DEF IInv, LinkTypes
<1>7. Empty' /\ BannerRead'
  <2>1. Empty'
    BY <1>2, <1>3 DEF Empty
  <2>2. Len(out') = 0
    BY <1>3
  <2>3. QED
    BY <2>1, <2>2 DEF Empty, BannerRead
<1>8. HostInv' /\ FollowInv' /\ ResetInv'
  BY <1>4, <1>7 DEF IInv, HostInv, FollowInv, ResetInv
<1>9. TodoInv' /\ (Unsent' => Unsent)
  BY <1>4 DEF IInv, TodoInv, Pending, Unsent
<1>10. AnswerInv'
  BY <1>5, <1>9, AnswersKept DEF IInv
<1>11. QED
  BY <1>5, <1>6, <1>8, <1>9, <1>10 DEF IInv

LEMMA Send_IInv == ASSUME IInv, Send PROVE IInv'
<1> USE DEF Send, link, calls, faults
<1> DEFINE m == Head(todo)
<1>1. Empty
  BY DEF IInv, HostInv
<1>2. inp' = <<m>> /\ running' = <<>> /\ out' = <<>>
  BY <1>1, Queues DEF Empty
<1>3. /\ m \in {PREAMBLE, Statement(call)} /\ m # HARD_RESET
      /\ m = Statement(call) => todo = <<Statement(call)>> /\ Pending
      /\ todo = <<Statement(call)>> => m = Statement(call)
  BY Todos, Statements, ControlMessages DEF IInv, TodoInv
<1>4. Pending => call \in 1..Calls /\ Unsent /\ answer[call] = NONE
  BY Types DEF IInv, TodoInv, AnswerInv, Unsent
<1>5. m \in Work
  BY <1>3, <1>4 DEF Work
<1>6. \A n : (Waits(n)' <=> n = m) /\ ~Executes(n)'
  <2>1. TAKE n
  <2> HIDE DEF m
  <2>2. /\ <<m>> # <<n, CTRL_C, CTRL_A>> /\ (<<m>> = <<n>> <=> n = m)
        /\ <<>> # <<n>>
    OBVIOUS
  <2>3. Waits(n)' <=> n = m
    BY <1>2, <2>2 DEF Waits
  <2>4. ~Executes(n)'
    BY <1>2, <2>2 DEF Executes
  <2>5. QED
    BY <2>3, <2>4
<1>7. CableInv'
  BY <1>2, <1>3, <1>5, <1>6 DEF CableInv
<1>8. LinkTypes' /\ HostInv' /\ ResetInv'
  BY <1>1, <1>2, <1>5 DEF IInv, LinkTypes, HostInv, ResetInv, Empty, BannerRead
<1>9. FollowInv'
  BY <1>2 DEF FollowInv
<1>10. TodoInv'
  BY DEF IInv, TodoInv, Pending
<1>11. AnswerInv'
  <2>1. \A c \in 1..Calls : Waits(Statement(c))' => c = call /\ Pending
    BY <1>3, <1>6, Statements
  <2>2. Unsent' => Pending /\ m # Statement(call)
    BY <1>3 DEF Unsent, Pending
  <2>3. QED
    BY <1>4, <1>6, <2>1, <2>2, Types DEF AnswerInv, IInv
<1>12. QED
  BY <1>7, <1>8, <1>9, <1>10, <1>11 DEF IInv

LEMMA ExecFails_IInv == ASSUME IInv, ExecFails PROVE IInv'
<1> USE DEF ExecFails, board
<1>1. CableInv' /\ NothingSent
  BY CableKept, CableInvKept DEF IInv, CableInv
<1>2. TodoInv' /\ ~Unsent' /\ LinkTypes'
  BY Raised, Types DEF IInv, LinkTypes, Raise
<1>3. HostInv' /\ FollowInv' /\ ResetInv'
  BY DEF IInv, HostInv, FollowInv, ResetInv, Raise, Empty, BannerRead
<1>4. AnswerInv'
  BY <1>1, <1>2, AnswersKept DEF IInv
<1>5. QED
  BY <1>1, <1>2, <1>3, <1>4 DEF IInv

\* The reply that is followed is that of the statement sent last.
LEMMA FollowedReply ==
  ASSUME IInv, Follow
  PROVE  /\ inp = <<>> /\ running = <<>> /\ out' = <<>>
         /\ Head(out)[3] \in BOOLEAN
         /\ ~Head(out)[3] => Truthful(Head(out)[2])
<1> USE DEF Follow
<1>1. PICK lines \in Lines, err \in BOOLEAN :
         out = <<Reply(lines, err)>> /\ (~err => Truthful(lines))
  BY DEF IInv, FollowInv
<1>2. Head(out) = Reply(lines, err) /\ Tail(out) = <<>>
  BY <1>1
<1>3. inp = <<>> /\ running = <<>>
  BY DEF IInv, FollowInv
<1>4. QED
  BY <1>1, <1>2, <1>3, ReplyFields

LEMMA Follow_IInv == ASSUME IInv, Follow PROVE IInv'
<1> USE DEF Follow
<1>1. inp = <<>> /\ running = <<>> /\ out' = <<>>
  BY FollowedReply
<1>2. CableInv' /\ NothingSent
  BY <1>1, CableKept, CableInvKept DEF IInv, CableInv
<1>3. CASE Head(out)[3]
  <2>1. dirty' = TRUE /\ Raise
    BY <1>3
  <2>2. TodoInv' /\ ~Unsent'
    BY <2>1, Raised DEF IInv
  <2>3. LinkTypes'
    BY <1>1, <2>1, Raised, Types DEF IInv, LinkTypes, Raise
  <2>4. HostInv' /\ FollowInv' /\ ResetInv'
    BY <1>1, <2>1 DEF IInv, HostInv, FollowInv, ResetInv, Raise, Empty, BannerRead
  <2>5. AnswerInv'
    BY <1>2, <2>2, AnswersKept DEF IInv
  <2>6. QED
    BY <1>2, <2>2, <2>3, <2>4, <2>5 DEF IInv
<1>4. CASE ~Head(out)[3] /\ Head(todo) = PREAMBLE
  <2>1. heap /\ Returned(Head(out)[2]) /\ dirty' = dirty
    BY <1>4, FollowedReply DEF Truthful
  <2>2. /\ todo' = Tail(todo) /\ outcome' = outcome
        /\ pc' = IF Tail(todo) = <<>> THEN "idle" ELSE "ensure"
        /\ reset' = IF Tail(todo) = <<>> THEN "done" ELSE reset
    BY <1>4, <2>1 DEF Returned
  <2>3. \/ todo' = <<>> /\ ~Pending
        \/ todo' = <<Statement(call)>> /\ Unsent
    BY <1>4, <2>2, Todos, Statements DEF IInv, TodoInv, Unsent
  <2>4. LinkTypes'
    BY <1>1, <2>1, <2>2, Types DEF IInv, LinkTypes
  <2>5. HostInv' /\ FollowInv' /\ ResetInv'
    BY <1>1, <2>1, <2>2 DEF IInv, HostInv, FollowInv, ResetInv, Empty, BannerRead
  <2>6. TodoInv' /\ (Unsent' => Unsent)
    BY <2>2, <2>3 DEF IInv, TodoInv, Pending, Unsent
  <2>7. AnswerInv'
    BY <1>2, <2>6, AnswersKept DEF IInv
  <2>8. QED
    BY <1>2, <2>4, <2>5, <2>6, <2>7 DEF IInv
<1>5. CASE ~Head(out)[3] /\ Head(todo) # PREAMBLE
  <2>1. /\ Returned(Head(out)[2]) /\ dirty' = dirty
        /\ answer[call] \in Contract!Envelopes
        /\ parse_payload(Head(out)[2]) = answer[call]
    BY <1>5, FollowedReply DEF Truthful
  <2>2. todo = <<Statement(call)>> /\ Pending /\ todo' = <<>>
    BY <1>5, <2>1, Todos DEF IInv, TodoInv, Returned
  <2>3. call \in 1..Calls
    BY <2>2, Types DEF IInv, TodoInv
  <2>4. /\ pc' = "idle" /\ outcome' = [outcome EXCEPT ![call] = answer[call]]
        /\ reset' = reset
    BY <1>5, <2>1 DEF Returned
  <2>5. LinkTypes'
    BY <1>1, <2>1, <2>3, <2>4, Types DEF IInv, LinkTypes
  <2>6. HostInv' /\ FollowInv' /\ ResetInv'
    BY <1>1, <2>1, <2>4 DEF IInv, HostInv, FollowInv, ResetInv, Empty, BannerRead
  <2>7. outcome'[call] # NONE /\ \A c \in 1..Calls : c > call => outcome'[c] = outcome[c]
    BY <2>1, <2>3, <2>4, Types, Outcomes DEF IInv
  <2>8. ~Pending'
    BY <2>2 DEF Pending
  <2>9. TodoInv' /\ ~Unsent'
    BY <2>2, <2>4, <2>7, <2>8 DEF IInv, TodoInv, Unsent
  <2>10. AnswerInv'
    BY <1>2, <2>9, AnswersKept DEF IInv
  <2>11. QED
    BY <1>2, <2>5, <2>6, <2>9, <2>10 DEF IInv
<1>6. QED
  BY <1>3, <1>4, <1>5

LEMMA SendHardReset_IInv == ASSUME IInv, SendHardReset PROVE IInv'
<1> USE DEF SendHardReset, Drop, calls, faults
<1>1. /\ ~Waits(HARD_RESET) /\ ~Executes(HARD_RESET)
      /\ todo = <<PREAMBLE>> /\ reset = "going"
  BY DEF IInv, CableInv, ResetInv
<1>3. CableInv' /\ NothingSent
  <2>1. CASE UNCHANGED inp
    BY <1>1, <2>1, CableKept, CableInvKept DEF IInv
  <2>2. CASE repl = "raw" /\ running = <<>> /\ inp = <<>> /\ inp' = <<HARD_RESET>>
    <3>1. Waits(HARD_RESET)' /\ HARD_RESET \in Work /\ Len(inp') < 2
      BY <2>2 DEF Waits, Work
    <3>2. \A c \in 1..Calls : ~Waits(Statement(c))' /\ ~Executes(Statement(c))'
      BY <2>2, Statements DEF Waits, Executes
    <3>3. \A i \in 1..Len(out) : out[i] # BANNER
      BY <2>2 DEF IInv, HostInv, BannerRead
    <3>4. QED
      BY <3>1, <3>2, <3>3 DEF CableInv, NothingSent
  <2>3. QED
    BY <2>1, <2>2
<1>4. LinkTypes' /\ HostInv' /\ FollowInv' /\ ResetInv'
  BY <1>1 DEF IInv, LinkTypes, HostInv, FollowInv, ResetInv
<1>5. TodoInv' /\ (Unsent' => Unsent)
  BY DEF IInv, TodoInv, Pending, Unsent
<1>6. AnswerInv'
  BY <1>3, <1>5, AnswersKept DEF IInv
<1>7. QED
  BY <1>3, <1>4, <1>5, <1>6 DEF IInv

LEMMA Settle_IInv == ASSUME IInv, Settle PROVE IInv'
<1> USE DEF Settle, link, board, calls, faults
<1>1. ~Waits(HARD_RESET) /\ ~Executes(HARD_RESET)
  <2>1. /\ <<HARD_RESET>> \o <<>> = <<HARD_RESET>> /\ <<>> \o <<HARD_RESET>> = <<HARD_RESET>>
        /\ HARD_RESET \in Range(<<HARD_RESET>>)
    <3>1. <<HARD_RESET>> \in Seq({HARD_RESET})
      OBVIOUS
    <3>2. QED
      BY <3>1, ConcatEmptySeq DEF Range
  <2>2. Waits(HARD_RESET) => inp = <<HARD_RESET>> /\ running = <<>>
    BY DEF IInv, CableInv, Waits
  <2>3. Executes(HARD_RESET) => inp = <<>> /\ running = <<HARD_RESET>>
    BY DEF IInv, CableInv, Executes
  <2>4. QED
    BY <2>1, <2>2, <2>3
<1>2. CableInv' /\ NothingSent
  BY <1>1, CableKept, CableInvKept DEF IInv
<1>3. LinkTypes' /\ HostInv' /\ FollowInv' /\ ResetInv'
  BY DEF IInv, LinkTypes, HostInv, FollowInv, ResetInv, Empty, BannerRead
<1>4. TodoInv' /\ (Unsent' => Unsent)
  BY DEF IInv, TodoInv, Pending, Unsent
<1>5. AnswerInv'
  BY <1>2, <1>4, AnswersKept DEF IInv
<1>6. QED
  BY <1>2, <1>3, <1>4, <1>5 DEF IInv

LEMMA Exec_IInv == ASSUME IInv, Exec PROVE IInv'
<1> USE DEF Exec, board, faults
<1>1. call + 1 \in 1..Calls /\ call \in 0..Calls
  BY Types, HilLinkAssumption DEF IInv
<1>2. \/ todo' = <<Statement(call')>>
      \/ todo' = <<PREAMBLE, Statement(call')>>
  <2> DEFINE S == Statement(call + 1)
  <2> DEFINE T == {PREAMBLE, S}
  <2>1. <<>> \in Seq(T) /\ <<PREAMBLE>> \in Seq(T) /\ <<S>> \in Seq(T)
        /\ <<PREAMBLE, S>> \in Seq(T)
    OBVIOUS
  <2>2. <<>> \o <<S>> = <<S>>
    BY <2>1, ConcatEmptySeq
  <2>3. <<PREAMBLE>> \o <<S>> = <<PREAMBLE, S>>
    <3> DEFINE s == <<PREAMBLE>> \o <<S>>
    <3>1. s \in Seq(T) /\ Len(s) = 2 /\ s[1] = PREAMBLE /\ s[2] = S
      BY <2>1, ConcatProperties
    <3>2. \A i \in 1..2 : s[i] = <<PREAMBLE, S>>[i]
      BY <3>1
    <3>3. QED
      BY <2>1, <3>1, <3>2, SeqEqual
  <2>4. QED
    BY <2>2, <2>3
<1>3. Pending' /\ todo' # <<>>
  BY <1>2 DEF Pending
<1>4. answer'[call'] = NONE /\ outcome'[call'] = NONE
  BY <1>1 DEF IInv, TodoInv
<1>5. TodoInv'
  BY <1>1, <1>3, <1>4 DEF IInv, TodoInv
<1>6. CableInv' /\ NothingSent
  BY CableKept, CableInvKept DEF IInv, CableInv
<1>7. LinkTypes' /\ HostInv' /\ FollowInv' /\ ResetInv'
  BY <1>1, Types DEF IInv, LinkTypes, HostInv, FollowInv, ResetInv, Empty, BannerRead
<1>8. AnswerInv'
  <2>1. ~Waits(Statement(call + 1)) /\ ~Executes(Statement(call + 1))
    BY <1>1 DEF IInv, AnswerInv
  <2>2. ~Waits(Statement(call))' /\ ~Executes(Statement(call))'
    BY <2>1 DEF Waits, Executes
  <2>3. \A c \in 1..Calls : c <= call => c <= call'
    BY <1>1
  <2>4. \A c \in 1..Calls :
          /\ Waits(Statement(c))' => c <= call' /\ answer'[c] = NONE
          /\ Executes(Statement(c))' =>
               c <= call' /\ answer'[c] = IF heap' THEN "running" ELSE NONE
    BY <1>6, <2>3 DEF IInv, AnswerInv, NothingSent
  <2>5. QED
    BY <1>4, <2>2, <2>4 DEF AnswerInv
<1>9. QED
  BY <1>5, <1>6, <1>7, <1>8 DEF IInv

LEMMA Reset_IInv == ASSUME IInv, Reset PROVE IInv'
<1> USE DEF Reset, board, calls
<1>1. ~Pending' /\ todo' # <<>> /\ ~Pending
  BY Statements DEF IInv, TodoInv, Pending
<1>2. CableInv' /\ NothingSent
  BY CableKept, CableInvKept DEF IInv, CableInv
<1>3. LinkTypes' /\ HostInv' /\ FollowInv' /\ ResetInv'
  BY DEF IInv, LinkTypes, HostInv, FollowInv, ResetInv, Empty, BannerRead
<1>4. TodoInv' /\ ~Unsent'
  BY <1>1 DEF IInv, TodoInv, Unsent
<1>5. AnswerInv'
  BY <1>2, <1>4, AnswersKept DEF IInv
<1>6. QED
  BY <1>2, <1>3, <1>4, <1>5 DEF IInv

LEMMA Close_IInv ==
  ASSUME IInv, NEW owns_transport \in BOOLEAN, Close(owns_transport)
  PROVE  IInv'
<1> USE DEF Close, Drop, place, board, calls, faults
<1>1. CableInv' /\ NothingSent
  BY CableKept, CableInvKept DEF IInv, CableInv
<1>2. LinkTypes' /\ HostInv' /\ FollowInv' /\ ResetInv'
  BY DEF IInv, LinkTypes, HostInv, FollowInv, ResetInv, Empty, BannerRead
<1>3. TodoInv' /\ (Unsent' => Unsent)
  BY DEF IInv, TodoInv, Pending, Unsent
<1>4. AnswerInv'
  BY <1>1, <1>3, AnswersKept DEF IInv
<1>5. QED
  BY <1>1, <1>2, <1>3, <1>4 DEF IInv

LEMMA PortReturns_IInv == ASSUME IInv, PortReturns PROVE IInv'
<1> USE DEF PortReturns, link, place, calls, faults
<1>1. CableInv' /\ NothingSent
  BY CableKept, CableInvKept DEF IInv, CableInv
<1>2. LinkTypes' /\ HostInv' /\ FollowInv' /\ ResetInv'
  BY DEF IInv, LinkTypes, HostInv, FollowInv, ResetInv, Empty, BannerRead,
         Truthful
<1>3. TodoInv' /\ (Unsent' => Unsent)
  BY DEF IInv, TodoInv, Pending, Unsent
<1>4. AnswerInv'
  BY <1>1, <1>3, AnswersKept DEF IInv
<1>5. QED
  BY <1>1, <1>2, <1>3, <1>4 DEF IInv

-------------------------------------------------------------------------------
(***************************************************************************)
(* The board's actions.                                                    *)
(***************************************************************************)
\* An entry point's last line is its envelope, whatever it printed before.
LEMMA PrintedEnvelope ==
  ASSUME NEW e \in Contract!Envelopes, NEW lines \in Printed(e)
  PROVE  lines \in Lines /\ parse_payload(lines) = e
<1>1. PICK before \in {<<>>, <<"text">>, <<"OK">>} : lines = before \o <<e>>
  BY DEF Printed
<1> DEFINE T == {"text", "OK", e}
<1>2. <<>> \in Seq(T) /\ <<"text">> \in Seq(T) /\ <<"OK">> \in Seq(T) /\ <<e>> \in Seq(T)
  OBVIOUS
<1>3. before \in Seq(T)
  BY <1>2
<1> HIDE DEF T
<1>4. Len(lines) = Len(before) + 1 /\ lines[Len(lines)] = e /\ lines # <<>>
  BY <1>1, <1>2, <1>3, ConcatProperties
<1>5. envelope_line(lines) = e
  BY <1>4 DEF envelope_line, Last
<1>6. lines \in Lines
  BY DEF Lines
<1>7. QED
  BY <1>5, <1>6, Outcomes DEF parse_payload

\* The board appends a reply: no banner was waiting behind the work it replies to.
LEMMA RepliedOut ==
  ASSUME LinkTypes, CableInv, running # <<>>, NEW lines \in Lines, NEW err \in BOOLEAN,
         out' = Append(out, Reply(lines, err))
  PROVE  /\ out' \in Seq({BANNER} \cup Replies)
         /\ \A i \in 1..Len(out') : out'[i] # BANNER
         /\ out = <<>> => out' = <<Reply(lines, err)>>
<1>1. Reply(lines, err) \in Replies /\ Reply(lines, err) # BANNER
  BY ReplyFields DEF Replies
<1>2. \A i \in 1..Len(out) : out[i] # BANNER
  BY DEF CableInv
<1>3. /\ out' \in Seq({BANNER} \cup Replies) /\ Len(out') = Len(out) + 1
      /\ \A i \in 1..Len(out) : out'[i] = out[i]
      /\ out'[Len(out) + 1] = Reply(lines, err)
  BY <1>1, Types, AppendProperties
<1>4. Len(out) \in Nat
  BY Types
<1>5. \A i \in 1..Len(out') : out'[i] # BANNER
  BY <1>1, <1>2, <1>3, <1>4
<1>6. out = <<>> => out' = <<Reply(lines, err)>>
  BY Queues
<1>7. QED
  BY <1>3, <1>5, <1>6

\* The board reads work: the statement of a call starts, for the first time, if there is a
\* session.
LEMMA WorkRead ==
  ASSUME IInv, Reads, NEW m \in Work, Waits(m)
  PROVE  /\ Tail(inp) \in {<<>>, <<CTRL_C, CTRL_A>>} /\ Head(inp) = m
         /\ running' = <<m>> /\ inp' = Tail(inp) /\ out' = out
         /\ \A c \in 1..Calls : m = Statement(c) => c <= call /\ answer[c] = NONE
         /\ \/ answer' = answer /\ (heap => \A c \in 1..Calls : m # Statement(c))
            \/ \E c \in 1..Calls : /\ heap /\ m = Statement(c)
                                  /\ answer' = [answer EXCEPT ![c] = "running"]
<1> USE DEF Reads
<1>2. Head(inp) = m /\ Tail(inp) \in {<<>>, <<CTRL_C, CTRL_A>>}
  <2>1. /\ Head(<<m>>) = m /\ Head(<<m, CTRL_C, CTRL_A>>) = m
        /\ Tail(<<m>>) = <<>> /\ Tail(<<m, CTRL_C, CTRL_A>>) = <<CTRL_C, CTRL_A>>
    BY Queues
  <2>2. inp = <<m>> \/ inp = <<m, CTRL_C, CTRL_A>>
    BY DEF Waits
  <2>3. QED
    BY <2>1, <2>2
<1>3. running' = <<m>> /\ inp' \in {<<>>, <<CTRL_C, CTRL_A>>} /\ out' = out
  BY <1>2, WorkIsNoControl
<1>4. answer' = IF m[1] = "call" /\ heap
                THEN [answer EXCEPT ![m[2]] = IF @ = NONE THEN "running" ELSE "again"]
                ELSE answer
  BY <1>2, WorkIsNoControl
<1>6. \A c \in 1..Calls :
        m = Statement(c) => c <= call /\ answer[c] = NONE
  BY DEF IInv, AnswerInv
<1>7. \/ answer' = answer /\ (heap => \A c \in 1..Calls : m # Statement(c))
      \/ \E c \in 1..Calls : /\ heap /\ m = Statement(c)
                             /\ answer' = [answer EXCEPT ![c] = "running"]
  <2>1. CASE m \in {PREAMBLE, HARD_RESET}
    BY <1>4, <2>1, NoCalls, Statements
  <2>2. CASE \E c \in 1..Calls : m = Statement(c)
    <3>1. PICK c \in 1..Calls : m = Statement(c)
      BY <2>2
    <3>2. m[1] = "call" /\ m[2] = c /\ answer[c] = NONE
      BY <1>6, <3>1, Statements
    <3>3. QED
      BY <1>4, <3>1, <3>2, Types DEF IInv
  <2>3. QED
    BY <2>1, <2>2 DEF Work
<1>8. QED
  BY <1>2, <1>3, <1>6, <1>7

LEMMA Reads_IInv == ASSUME IInv, Reads PROVE IInv'
<1> USE DEF Reads, link, place, faults
<1>1. \A i \in 1..Len(out) : out[i] # BANNER
  BY DEF IInv, CableInv
<1>2. ~Empty /\ repl # "dead" /\ (repl = "raw" => dirty \/ pc = "follow")
  BY DEF IInv, HostInv, LinkTypes, Empty
<1>3. CASE inp = <<CTRL_A>> \/ inp = <<CTRL_C, CTRL_A>>
  <2>1. /\ inp' \in {<<>>, <<CTRL_A>>} /\ running' = <<>> /\ answer' = answer
        /\ \/ out' = out
           \/ inp' = <<>> /\ out' = Append(out, BANNER)
    <3>1. CASE inp = <<CTRL_A>>
      BY <3>1
    <3>2. CASE inp = <<CTRL_C, CTRL_A>>
      BY <3>2, Queues, ControlMessages
    <3>3. QED
      BY <1>3, <3>1, <3>2
  <2>2. repl = "raw" => pc = "resync"
    BY <1>3, WorkIsNoControl DEF IInv, HostInv, BannerRead
  <2>3. LinkTypes'
    BY <2>1, Types DEF IInv, LinkTypes
  <2>4. CableInv' /\ NothingSent
    <3>1. \A i \in 1..Len(out') : out'[i] = BANNER => i = Len(out') /\ inp' = <<>>
      <4>1. Len(out) \in Nat
        BY Types DEF IInv
      <4>2. CASE out' = out
        BY <1>1, <4>2
      <4>3. CASE inp' = <<>> /\ out' = Append(out, BANNER)
        <5>1. Len(out') = Len(out) + 1 /\ \A i \in 1..Len(out) : out'[i] = out[i]
          BY <4>3, Types, AppendProperties DEF IInv
        <5>2. QED
          BY <1>1, <4>1, <4>3, <5>1
      <4>4. QED
        BY <2>1, <4>2, <4>3
    <3>2. \A m \in Work : ~Waits(m)' /\ ~Executes(m)'
      BY <2>1, WorkIsNoControl DEF Waits, Executes
    <3>3. \A c \in 1..Calls : Statement(c) \in Work
      BY DEF Work
    <3>4. QED
      BY <2>1, <3>1, <3>2, <3>3 DEF CableInv, NothingSent, Work
  <2>5. HostInv' /\ FollowInv' /\ ResetInv'
    BY <1>2, <2>2 DEF IInv, HostInv, FollowInv, ResetInv
  <2>6. TodoInv' /\ (Unsent' => Unsent)
    BY <2>1 DEF IInv, TodoInv, Pending, Unsent
  <2>7. AnswerInv'
    BY <2>1, <2>4, <2>6, AnswersKept DEF IInv
  <2>8. QED
    BY <2>3, <2>4, <2>5, <2>6, <2>7 DEF IInv
<1>4. CASE \E m \in Work : Waits(m)
  <2>1. PICK m \in Work : Waits(m)
    BY <1>4
  <2>2. Head(inp) = m /\ Tail(inp) \in {<<>>, <<CTRL_C, CTRL_A>>}
    BY <2>1, WorkRead
  <2>3. running' = <<m>> /\ inp' \in {<<>>, <<CTRL_C, CTRL_A>>} /\ out' = out
    BY <2>1, WorkRead
  <2>5. \A n \in Work : ~Waits(n)' /\ (Executes(n)' <=> n = m)
    BY <2>3 DEF Waits, Executes
  <2>6. \A c \in 1..Calls : m = Statement(c) => c <= call /\ answer[c] = NONE
    BY <2>1, WorkRead
  <2>7. \/ answer' = answer /\ (heap => \A c \in 1..Calls : m # Statement(c))
        \/ \E c \in 1..Calls : /\ heap /\ m = Statement(c)
                               /\ answer' = [answer EXCEPT ![c] = "running"]
    BY <2>1, WorkRead
  <2>8. /\ answer' \in [1..Calls -> {NONE, "running", "cut"} \cup Contract!Envelopes]
        /\ \A c \in 1..Calls :
             answer'[c] = IF heap /\ m = Statement(c) THEN "running" ELSE answer[c]
    <3>1. CASE answer' = answer /\ (heap => \A c \in 1..Calls : m # Statement(c))
      BY <3>1, Types DEF IInv
    <3>2. CASE \E c \in 1..Calls : /\ heap /\ m = Statement(c)
                                  /\ answer' = [answer EXCEPT ![c] = "running"]
      <4>1. PICK c \in 1..Calls : /\ heap /\ m = Statement(c)
                                 /\ answer' = [answer EXCEPT ![c] = "running"]
        BY <3>2
      <4>2. \A d \in 1..Calls : m = Statement(d) <=> d = c
        BY <4>1, Statements
      <4>3. QED
        BY <4>1, <4>2, Types DEF IInv
    <3>3. QED
      BY <2>7, <3>1, <3>2
  <2>9. LinkTypes'
    BY <2>3, <2>8, Types DEF IInv, LinkTypes
  <2>10. CableInv'
    <3>1. m = HARD_RESET => pc' = "settle" /\ Len(inp') < 2
      <4>1. m = HARD_RESET => pc' = "settle" /\ Len(inp) < 2
        BY <2>1 DEF IInv, CableInv
      <4>2. Len(inp') <= Len(inp)
        BY <2>1, <2>2, Queues DEF Waits
      <4>3. QED
        BY <2>1, <4>1, Queues DEF Waits
    <3>2. HARD_RESET \in Work
      BY DEF Work
    <3>3. QED
      BY <1>1, <2>3, <2>5, <3>1, <3>2 DEF CableInv
  <2>11. HostInv'
    <3>1. repl = "raw" /\ pc # "resync" => BannerRead'
      <4>1. repl = "raw" /\ pc # "resync" => BannerRead
        BY DEF IInv, HostInv
      <4>2. BannerRead => inp' = <<>>
        BY Queues DEF BannerRead
      <4>3. QED
        BY <1>1, <2>3, <4>1, <4>2 DEF BannerRead
    <3>2. QED
      BY <1>2, <3>1 DEF IInv, HostInv
  <2>12. FollowInv'
    <3>1. CASE pc = "follow" /\ repl = "raw"
      <4>1. inp = <<Head(todo)>> /\ out = <<>>
        BY <3>1 DEF IInv, FollowInv
      <4>2. inp' = <<>> /\ m = Head(todo)
        BY <2>2, <4>1
      <4>3. QED
        BY <2>3, <4>1, <4>2 DEF FollowInv
    <3>2. QED
      BY <3>1 DEF FollowInv
  <2>13. TodoInv' /\ ResetInv' /\ (Unsent' => Unsent)
    <3>1. \A c \in 1..Calls : c > call => answer'[c] = answer[c]
      BY <2>6, <2>8, Types DEF IInv
    <3>2. QED
      BY <3>1 DEF IInv, TodoInv, ResetInv, Pending, Unsent
  <2>14. AnswerInv'
    <3>1. \A c \in 1..Calls : ~Waits(Statement(c))' /\ (Executes(Statement(c))' => m = Statement(c))
      BY <2>5 DEF Work
    <3>2. Unsent => call \in 1..Calls /\ m # Statement(call)
      BY <2>1, Types DEF IInv, TodoInv, AnswerInv, Unsent
    <3>3. QED
      BY <2>6, <2>8, <2>13, <3>1, <3>2 DEF IInv, AnswerInv
  <2>15. QED
    BY <2>9, <2>10, <2>11, <2>12, <2>13, <2>14 DEF IInv
<1>5. QED
  BY <1>3, <1>4 DEF IInv, CableInv, Executes

\* What is being executed, when something is.
LEMMA WorkRuns ==
  ASSUME CableInv, running # <<>>
  PROVE  \E m \in Work : Executes(m) /\ running = <<m>>
BY DEF CableInv, Waits, Executes

\* A call that was cut, or that has answered, is not pending any more.
LEMMA AnswersAfter ==
  ASSUME LinkTypes, CableInv, TodoInv, AnswerInv, running # <<>>,
         NEW e \in {"cut"} \cup Contract!Envelopes, Answered(e) \/ UNCHANGED answer,
         running' = <<>>, \A c \in 1..Calls : ~Waits(Statement(c))',
         UNCHANGED <<pc, todo, call, outcome>>
  PROVE  /\ answer' \in [1..Calls -> {NONE, "running", "cut"} \cup Contract!Envelopes]
         /\ TodoInv' /\ AnswerInv'
<1>1. /\ answer' \in [1..Calls -> {NONE, "running", "cut"} \cup Contract!Envelopes]
      /\ \A c \in 1..Calls :
           answer'[c] = answer[c] \/ (answer[c] = "running" /\ answer'[c] = e)
  BY AnsweredIs, Types
<1>2. \A c \in 1..Calls : answer[c] = NONE => answer'[c] = NONE
  BY <1>1, Outcomes
<1>3. (Pending' <=> Pending) /\ (Unsent' <=> Unsent)
  BY DEF Pending, Unsent
<1>4. TodoInv'
  BY <1>2, <1>3 DEF TodoInv
<1>5. \A c \in 1..Calls : ~Executes(Statement(c))'
  BY DEF Executes
<1>6. Unsent => call \in 1..Calls
  BY Types DEF TodoInv, Unsent
<1>7. AnswerInv'
  BY <1>2, <1>3, <1>5, <1>6 DEF AnswerInv
<1>8. QED
  BY <1>1, <1>4, <1>7

LEMMA Runs_IInv == ASSUME IInv, Runs PROVE IInv'
<1> USE DEF Runs, link, place, faults
<1>1. PICK m \in Work : Executes(m) /\ running = <<m>>
  BY WorkRuns DEF IInv
<1>2. inp' \in {<<>>, <<CTRL_C, CTRL_A>>} /\ running' = <<>> /\ running[1] = m
  BY <1>1 DEF Executes
<1>3. \A n \in Work : ~Waits(n)' /\ ~Executes(n)'
  BY <1>2, WorkIsNoControl DEF Waits, Executes
<1>4. \A c \in 1..Calls : Statement(c) \in Work
  BY DEF Work
<1>5. ~Empty /\ repl # "dead" /\ (repl = "raw" => dirty \/ pc = "follow")
  BY DEF IInv, HostInv, LinkTypes, Empty
\* The three ways a statement ends.
<1>6. \E e \in Contract!Envelopes, lines \in Lines, err \in BOOLEAN :
        /\ out' = Append(out, Reply(lines, err))
        /\ \/ m = PREAMBLE /\ heap' = TRUE /\ answer' = answer
           \/ m # PREAMBLE /\ heap' = heap /\ ~heap /\ err /\ answer' = answer
           \/ /\ m # PREAMBLE /\ heap' = heap /\ heap /\ Answered(e)
              /\ parse_payload(lines) = e
  <2>1. <<>> \in Lines /\ "OK" \in Contract!Envelopes
    BY Outcomes DEF Lines
  <2>2. CASE m = PREAMBLE
    BY <1>2, <2>1, <2>2
  <2>3. CASE m # PREAMBLE /\ ~heap
    BY <1>2, <2>1, <2>3
  <2>4. CASE m # PREAMBLE /\ heap
    <3>1. PICK e \in Contract!Envelopes :
            \E lines \in Printed(e) :
              out' = Append(out, Reply(lines, FALSE)) /\ Answered(e) /\ heap' = heap
      BY <1>2, <2>4
    <3>2. PICK lines \in Printed(e) :
            out' = Append(out, Reply(lines, FALSE)) /\ Answered(e) /\ heap' = heap
      BY <3>1
    <3>3. QED
      BY <2>4, <3>2, PrintedEnvelope
  <2>5. QED
    BY <2>2, <2>3, <2>4
<1>7. PICK e \in Contract!Envelopes, lines \in Lines, err \in BOOLEAN :
        /\ out' = Append(out, Reply(lines, err))
        /\ \/ m = PREAMBLE /\ heap' = TRUE /\ answer' = answer
           \/ m # PREAMBLE /\ heap' = heap /\ ~heap /\ err /\ answer' = answer
           \/ /\ m # PREAMBLE /\ heap' = heap /\ heap /\ Answered(e)
              /\ parse_payload(lines) = e
  BY <1>6
<1>8. /\ out' \in Seq({BANNER} \cup Replies)
      /\ \A i \in 1..Len(out') : out'[i] # BANNER
      /\ out = <<>> => out' = <<Reply(lines, err)>>
  BY <1>7, RepliedOut DEF IInv
<1>9. /\ answer' \in [1..Calls -> {NONE, "running", "cut"} \cup Contract!Envelopes]
      /\ TodoInv' /\ AnswerInv'
  BY <1>2, <1>3, <1>4, <1>7, AnswersAfter DEF IInv
<1>10. LinkTypes'
  BY <1>7, <1>8, <1>9 DEF IInv, LinkTypes
<1>11. CableInv'
  BY <1>2, <1>3, <1>8 DEF CableInv, Work
<1>12. HostInv'
  <2>1. BannerRead => BannerRead'
    BY <1>8 DEF BannerRead
  <2>2. QED
    BY <1>5, <2>1 DEF IInv, HostInv
<1>13. FollowInv'
  <2>1. CASE pc = "follow" /\ repl = "raw"
    <3>1. inp = <<>> /\ running = <<Head(todo)>> /\ out = <<>>
      BY <2>1 DEF IInv, FollowInv
    <3>2. m = Head(todo) /\ m \in {PREAMBLE, Statement(call)}
      BY <1>2, <3>1, <2>1, Todos DEF IInv, TodoInv
    <3>3. ~err => Truthful(lines)'
      <4>1. CASE m = PREAMBLE
        BY <1>7, <3>2, <4>1 DEF Truthful
      <4>2. CASE m # PREAMBLE /\ ~err
        <5>1. m = Statement(call) /\ heap /\ Answered(e) /\ parse_payload(lines) = e
          BY <1>7, <3>2, <4>2
        <5>2. call \in 1..Calls
          BY <2>1, <3>2, <5>1, Todos, Types DEF IInv, TodoInv
        <5>3. answer[call] = "running"
          BY <1>1, <5>1, <5>2 DEF IInv, AnswerInv
        <5>4. answer'[call] = e
          BY <1>1, <5>1, <5>2, <5>3, AnsweredIs DEF IInv
        <5>5. parse_payload(lines)' = e
          BY <5>1 DEF parse_payload, envelope_line
        <5>6. QED
          BY <3>2, <4>2, <5>4, <5>5 DEF Truthful
      <4>3. QED
        BY <4>1, <4>2
    <3>4. out' = <<Reply(lines, err)>> /\ inp' = <<>>
      BY <1>8, <3>1
    <3>5. QED
      BY <1>2, <3>3, <3>4 DEF FollowInv
  <2>2. QED
    BY <2>1 DEF FollowInv
<1>14. ResetInv'
  BY <1>7 DEF IInv, ResetInv, LinkTypes
<1>15. QED
  BY <1>9, <1>10, <1>11, <1>12, <1>13, <1>14 DEF IInv

LEMMA Interrupted_IInv == ASSUME IInv, Interrupted PROVE IInv'
<1> USE DEF Interrupted, link, place, faults
<1>1. PICK m \in Work : Executes(m) /\ running = <<m>>
  BY WorkRuns DEF IInv
<1>2. inp = <<CTRL_C, CTRL_A>> /\ inp' = <<CTRL_A>> /\ running' = <<>>
  BY <1>1, Queues DEF Executes
<1>3. \A n \in Work : ~Waits(n)' /\ ~Executes(n)'
  BY <1>2, WorkIsNoControl DEF Waits, Executes
<1>4. \A c \in 1..Calls : Statement(c) \in Work
  BY DEF Work
<1>5. ~Empty /\ repl # "dead" /\ (repl = "raw" => dirty \/ pc = "follow")
  BY DEF IInv, HostInv, LinkTypes, Empty
<1>6. repl = "raw" => pc = "resync"
  BY <1>2, WorkIsNoControl DEF IInv, HostInv, BannerRead
<1>7. /\ out' \in Seq({BANNER} \cup Replies)
      /\ \A i \in 1..Len(out') : out'[i] # BANNER
  <2>1. <<>> \in Lines
    BY DEF Lines
  <2>2. QED
    BY <2>1, RepliedOut DEF IInv
<1>8. /\ answer' \in [1..Calls -> {NONE, "running", "cut"} \cup Contract!Envelopes]
      /\ TodoInv' /\ AnswerInv'
  BY <1>2, <1>3, <1>4, AnswersAfter DEF IInv
<1>9. LinkTypes'
  BY <1>7, <1>8 DEF IInv, LinkTypes
<1>10. CableInv'
  BY <1>2, <1>3, <1>7 DEF CableInv, Work
<1>11. HostInv' /\ FollowInv' /\ ResetInv'
  BY <1>5, <1>6 DEF IInv, HostInv, FollowInv, ResetInv
<1>12. QED
  BY <1>8, <1>9, <1>10, <1>11 DEF IInv

LEMMA Dies_IInv ==
  ASSUME IInv, Dies,
         reset' = reset \/ reset' = "none", reset' # "done",
         pc \in {"reset", "settle"} => reset' = reset
  PROVE  IInv'
<1> USE DEF Dies, place
<1>1. \A m : ~Waits(m)' /\ ~Executes(m)'
  BY DEF Waits, Executes
<1>2. /\ answer' \in [1..Calls -> {NONE, "running", "cut"} \cup Contract!Envelopes]
      /\ \A c \in 1..Calls : answer[c] = NONE => answer'[c] = NONE
  BY AnsweredIs, Outcomes DEF IInv
<1>3. LinkTypes'
  BY <1>2, EmptySeq DEF IInv, LinkTypes
<1>4. CableInv'
  BY <1>1 DEF CableInv
<1>5. Empty' /\ BannerRead'
  <2>1. Empty' /\ Len(out') = 0
    BY DEF Empty
  <2>2. QED
    BY <2>1 DEF Empty, BannerRead
<1>6. HostInv' /\ FollowInv' /\ ResetInv'
  BY <1>5 DEF IInv, HostInv, FollowInv, ResetInv, LinkTypes
<1>7. (Pending' <=> Pending) /\ (Unsent' <=> Unsent)
  BY DEF Pending, Unsent
<1>8. TodoInv'
  BY <1>2, <1>7 DEF IInv, TodoInv
<1>9. Unsent => call \in 1..Calls
  BY Types DEF IInv, TodoInv, Unsent
<1>10. AnswerInv'
  BY <1>1, <1>2, <1>7, <1>9 DEF IInv, AnswerInv
<1>11. QED
  BY <1>3, <1>4, <1>6, <1>8, <1>10 DEF IInv

LEMMA HardResets_IInv == ASSUME IInv, HardResets PROVE IInv'
<1>1. Executes(HARD_RESET)
  BY WorkRuns DEF IInv, HardResets, Executes
<1>2. reset = "going" /\ reset' = reset /\ Dies
  BY <1>1 DEF IInv, CableInv, ResetInv, HardResets
<1>3. QED
  BY <1>2, Dies_IInv

LEMMA Reboot_IInv == ASSUME IInv, Reboot PROVE IInv'
<1>1. /\ Dies /\ reset' = IF reset = "done" THEN "none" ELSE reset
      /\ pc \in {"reset", "settle"} => reset = "going"
  BY DEF IInv, ResetInv, Reboot
<1>2. QED
  BY <1>1, Dies_IInv

LEMMA Next_IInv == ASSUME IInv, [Next]_vars PROVE IInv'
<1>1. CASE UNCHANGED vars
  <2>1. UNCHANGED <<inp, running, out, pc>>
    BY <1>1 DEF vars, board, place
  <2>2. CableInv' /\ NothingSent
    BY <2>1, CableKept, CableInvKept DEF IInv, CableInv
  <2>3. LinkTypes' /\ HostInv' /\ FollowInv' /\ ResetInv'
    BY <1>1 DEF vars, link, place, board, calls, faults, IInv, LinkTypes, HostInv,
       FollowInv, ResetInv, Empty, BannerRead, Truthful, parse_payload
  <2>4. TodoInv' /\ (Unsent' => Unsent)
    BY <1>1 DEF vars, place, calls, IInv, TodoInv, Pending, Unsent
  <2>5. AnswerInv'
    BY <1>1, <2>2, <2>4, AnswersKept DEF vars, board, calls, IInv
  <2>6. QED
    BY <2>2, <2>3, <2>4, <2>5 DEF IInv
<1>2. CASE Host
  BY <1>2, EnsureConnected_IInv, OpenPort_IInv, ConnectFails_IInv, ResyncFails_IInv,
     Entered_IInv, Send_IInv, ExecFails_IInv, Follow_IInv, SendHardReset_IInv, Settle_IInv
     DEF Host
<1>3. CASE Board
  BY <1>3, Reads_IInv, Runs_IInv, Interrupted_IInv, HardResets_IInv DEF Board
<1>4. CASE Exec \/ Reset \/ PortReturns \/ Reboot
  BY <1>4, Exec_IInv, Reset_IInv, PortReturns_IInv, Reboot_IInv
<1>5. CASE \E owns_transport \in BOOLEAN : Close(owns_transport)
  BY <1>5, Close_IInv
<1>6. QED
  BY <1>1, <1>2, <1>3, <1>4, <1>5 DEF Next

-------------------------------------------------------------------------------
(***************************************************************************)
(* What the runs check, for every value of the constants.                  *)
(***************************************************************************)
LEMMA Spec_IInv == Spec => []IInv
BY Init_IInv, Next_IInv, PTL DEF Spec

\* However the calls before it failed, a statement is sent into a stream that is in
\* step: exec's promise that "the next call resyncs instead of poisoning the run".
THEOREM StreamIsInStep == Spec => []StreamInStep
<1>1. IInv => StreamInStep
  BY DEF IInv, HostInv, Empty, StreamInStep
<1>2. QED
  BY <1>1, Spec_IInv, PTL

\* Whatever failed before it, a Link.reset that returned leaves a board on which the
\* entry points resolve, until the board reboots by itself.
THEOREM ResetsResolve == Spec => []ResetResolves
<1>1. IInv => ResetResolves
  BY DEF IInv, ResetInv, ResetResolves
<1>2. QED
  BY <1>1, Spec_IInv, PTL

\* The answers of the calls: a raise and a return end the call under way, the board
\* starts a statement once, and stops the one that is running.
LEMMA RaiseReturns ==
  ASSUME IInv, Raise, UNCHANGED <<call, answer>>
  PROVE  Contract!Return \/ UNCHANGED outcome
BY Types DEF IInv, Raise, Contract!Return, NONE, TRANSPORT_ERROR

LEMMA FollowReturns ==
  ASSUME IInv, Follow
  PROVE  Contract!Return \/ UNCHANGED <<call, answer, outcome>>
<1> USE DEF Follow
<1>1. CASE Head(out)[3]
  BY <1>1, RaiseReturns
<1>2. CASE ~Head(out)[3] /\ Head(todo) = PREAMBLE
  BY <1>2 DEF Returned
<1>3. CASE ~Head(out)[3] /\ Head(todo) # PREAMBLE
  <2>1. /\ answer[call] \in Contract!Envelopes
        /\ outcome' = [outcome EXCEPT ![call] = answer[call]]
    BY <1>3, FollowedReply DEF Truthful, Returned
  <2>2. Pending
    BY <1>3, Todos DEF IInv, TodoInv
  <2>3. call > 0 /\ outcome[call] = Contract!NONE
    BY <2>2 DEF IInv, TodoInv, NONE
  <2>4. QED
    BY <2>1, <2>3 DEF Contract!Return
<1>4. QED
  BY <1>1, <1>2, <1>3

LEMMA ExecIsCalled == ASSUME IInv, Exec PROVE Contract!Exec
<1>1. ~Pending /\ todo = <<>>
  BY DEF IInv, TodoInv, Pending, Exec
<1>2. call > 0 => outcome[call] # Contract!NONE
  BY <1>1 DEF IInv, TodoInv, NONE
<1>3. QED
  BY <1>2 DEF Exec, board, Contract!Exec

LEMMA ReadsStart ==
  ASSUME IInv, Reads
  PROVE  (\E c \in 1..Calls : Contract!Start(c)) \/ UNCHANGED <<call, answer, outcome>>
<1>1. CASE \E m \in Work : Waits(m)
  <2>1. PICK m \in Work : Waits(m)
    BY <1>1
  <2>2. CASE answer' = answer
    BY <2>2 DEF Reads
  <2>3. CASE \E c \in 1..Calls : /\ m = Statement(c)
                                 /\ answer' = [answer EXCEPT ![c] = "running"]
    <3>1. PICK c \in 1..Calls : /\ m = Statement(c)
                                /\ answer' = [answer EXCEPT ![c] = "running"]
      BY <2>3
    <3>2. c <= call /\ answer[c] = Contract!NONE
      BY <2>1, <3>1, WorkRead DEF NONE
    <3>3. Contract!Start(c)
      BY <3>1, <3>2 DEF Reads, Contract!Start
    <3>4. QED
      BY <3>3
  <2>4. QED
    BY <2>1, <2>2, <2>3, WorkRead
<1>2. CASE Head(inp) \in {CTRL_C, CTRL_A}
  BY <1>2 DEF Reads
<1>3. QED
  BY <1>1, <1>2 DEF IInv, CableInv, Executes, Reads

LEMMA AnsweredStops ==
  ASSUME IInv, NEW e \in {"cut"} \cup Contract!Envelopes, Answered(e), UNCHANGED <<call, outcome>>
  PROVE  (\E c \in 1..Calls : Contract!Stop(c)) \/ UNCHANGED <<call, answer, outcome>>
<1> DEFINE Answers == {NONE, "running", "cut"} \cup Contract!Envelopes
<1>0. /\ answer \in [1..Calls -> Answers] /\ answer' \in [1..Calls -> Answers]
      /\ e \in Answers
      /\ \A c \in 1..Calls :
           answer'[c] = IF running = <<Statement(c)>> /\ answer[c] = "running"
                        THEN e ELSE answer[c]
  BY AnsweredIs, Types DEF IInv
<1> HIDE DEF Answers
<1>1. CASE \E c \in 1..Calls : running = <<Statement(c)>> /\ answer[c] = "running"
  <2>1. PICK c \in 1..Calls : running = <<Statement(c)>> /\ answer[c] = "running"
    BY <1>1
  <2>2. \A d \in 1..Calls : running = <<Statement(d)>> <=> d = c
    BY <2>1, Statements
  <2>3. answer' = [answer EXCEPT ![c] = e]
    <3>1. \A d \in 1..Calls : answer'[d] = [answer EXCEPT ![c] = e][d]
      BY <1>0, <2>1, <2>2
    <3>2. [answer EXCEPT ![c] = e] \in [1..Calls -> Answers]
      BY <1>0
    <3>3. QED
      BY <1>0, <3>1, <3>2
  <2>4. Contract!Stop(c)
    BY <2>1, <2>3 DEF Contract!Stop
  <2>5. QED
    BY <2>4
<1>2. CASE ~\E c \in 1..Calls : running = <<Statement(c)>> /\ answer[c] = "running"
  <2>1. \A c \in 1..Calls : answer'[c] = answer[c]
    BY <1>0, <1>2
  <2>2. answer' = answer
    <3>1. /\ answer = [c \in 1..Calls |-> answer[c]]
          /\ answer' = [c \in 1..Calls |-> answer'[c]]
      BY <1>0
    <3>2. QED
      BY <2>1, <3>1, Zenon
  <2>3. QED
    BY <2>2
<1>3. QED
  BY <1>1, <1>2

LEMMA StepKeepsContract ==
  ASSUME IInv, [Next]_vars
  PROVE  [Contract!Next]_(Contract!contract)
<1> USE DEF Contract!contract, Contract!Next
<1>1. CASE UNCHANGED vars
  BY <1>1 DEF vars, calls
<1>2. CASE Host
  <2>1. CASE EnsureConnected \/ OpenPort \/ ResyncFails \/ Entered \/ Send
             \/ SendHardReset \/ Settle
    BY <2>1 DEF EnsureConnected, OpenPort, ResyncFails, Entered, Send, SendHardReset,
       Settle, calls
  <2>2. CASE ConnectFails
    BY <2>2, RaiseReturns DEF ConnectFails
  <2>3. CASE ExecFails
    BY <2>3, RaiseReturns DEF ExecFails
  <2>4. CASE Follow
    BY <2>4, FollowReturns
  <2>5. QED
    BY <1>2, <2>1, <2>2, <2>3, <2>4 DEF Host
<1>3. CASE Board
  <2>1. CASE Reads
    BY <2>1, ReadsStart
  <2>2. CASE Runs
    BY <2>2, AnsweredStops DEF Runs
  <2>3. CASE Interrupted
    BY <2>3, AnsweredStops DEF Interrupted
  <2>4. CASE HardResets
    BY <2>4, AnsweredStops DEF HardResets, Dies
  <2>5. QED
    BY <1>3, <2>1, <2>2, <2>3, <2>4 DEF Board
<1>4. CASE Exec
  BY <1>4, ExecIsCalled
<1>5. CASE Reset \/ PortReturns
  BY <1>5 DEF Reset, PortReturns, calls
<1>6. CASE Reboot
  BY <1>6, AnsweredStops DEF Reboot, Dies
<1>7. CASE \E owns_transport \in BOOLEAN : Close(owns_transport)
  BY <1>7 DEF Close, calls
<1>8. QED
  BY <1>1, <1>2, <1>3, <1>4, <1>5, <1>6, <1>7 DEF Next

\* The serial link keeps the contract of the loopback: no statement is sent twice, and
\* a call that returns returns what its own entry point printed last.
THEOREM LinkKeepsContract == Spec => Implements
<1>1. Init => Contract!Init
  BY DEF Init
<1>2. QED
  BY <1>1, Spec_IInv, StepKeepsContract, PTL DEF Spec, Implements, Contract!Spec
=============================================================================
