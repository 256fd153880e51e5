------------------------------ MODULE LinkContract ------------------------------
(***************************************************************************)
(* What hil/link.py promises the caller of a remote entry point, whatever  *)
(* carries the statement.  LoopbackTransport keeps the promise by running  *)
(* the statement in its own process; HilLink shows that the serial cable   *)
(* keeps it too: a call runs its statement at most once, and returns the   *)
(* envelope that statement printed or raises TransportError.               *)
(***************************************************************************)
EXTENDS Naturals

CONSTANT Calls              \* the most calls

VARIABLES
  call,                     \* the number of the latest call
  answer,                   \* answer[c]: what the entry point of call c printed last
  outcome                   \* outcome[c]: what call c returned or raised

contract == <<call, answer, outcome>>

NONE == "none"
TRANSPORT_ERROR == "TransportError"
Envelopes == {"OK", "ERR"}

Init ==
  /\ call = 0
  /\ answer = [c \in 1..Calls |-> NONE] /\ outcome = [c \in 1..Calls |-> NONE]

Exec ==
  /\ call < Calls /\ (call > 0 => outcome[call] # NONE)
  /\ call' = call + 1 /\ UNCHANGED <<answer, outcome>>

\* The statement starts; it was never started before, even if its call has failed.
Start(c) ==
  /\ c <= call /\ answer[c] = NONE
  /\ answer' = [answer EXCEPT ![c] = "running"] /\ UNCHANGED <<call, outcome>>

Stop(c) ==
  /\ answer[c] = "running"
  /\ \E e \in Envelopes \cup {"cut"} : answer' = [answer EXCEPT ![c] = e]
  /\ UNCHANGED <<call, outcome>>

Return ==
  /\ call > 0 /\ outcome[call] = NONE
  /\ \E e \in (Envelopes \cap {answer[call]}) \cup {TRANSPORT_ERROR} :
       outcome' = [outcome EXCEPT ![call] = e]
  /\ UNCHANGED <<call, answer>>

Next == Exec \/ Return \/ \E c \in 1..Calls : Start(c) \/ Stop(c)

Spec == Init /\ [][Next]_contract
=============================================================================
