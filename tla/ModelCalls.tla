------------------------------ MODULE ModelCalls -------------------------------
(***************************************************************************)
(* What a session is to the run that started it: model requests, one at a  *)
(* time and each with one llm_call row, at least one and at most Max of    *)
(* them, and then an end.  RunLifecycle's Request, Answer and EndSession   *)
(* are these actions.                                                      *)
(***************************************************************************)
EXTENDS Naturals

CONSTANT Max  \* bound on the requests of a session

VARIABLES
  at,      \* "loop", "awaiting" or "ended"
  seq,     \* requests written ahead
  calls    \* llm_call rows

vars == <<at, seq, calls>>

Init == at = "loop" /\ seq = 0 /\ calls = 0

Request ==
  /\ at = "loop" /\ at' = "awaiting"
  /\ seq < Max
  /\ seq' = seq + 1
  /\ UNCHANGED calls

Answer ==
  /\ at = "awaiting" /\ at' = "loop"
  /\ calls' = calls + 1
  /\ UNCHANGED seq

EndSession ==
  /\ at = "loop" /\ at' = "ended"
  /\ seq > 0
  /\ UNCHANGED <<seq, calls>>

Next == Request \/ Answer \/ EndSession

Spec == Init /\ [][Next]_vars

===============================================================================
