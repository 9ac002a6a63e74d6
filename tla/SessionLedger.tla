---------------------------- MODULE SessionLedger -----------------------------
(***************************************************************************)
(* What the runner promises about a run, as its telemetry tells it: one    *)
(* session at a time; inside a session, model requests one at a time, each *)
(* asked once and settled before the next and before the session closes;   *)
(* and an end after which nothing happens.  Crashes and retries do not     *)
(* appear here: they must not be visible.                                  *)
(***************************************************************************)
EXTENDS Naturals

CONSTANT Requests  \* request_seq values of one session

VARIABLES
  last,   \* sessions opened so far: the number of the last one
  open,   \* is a session open?
  asked,  \* requests of the open session
  owed,   \* those of them with no recorded outcome
  over    \* has the run completed?

vars == <<last, open, asked, owed, over>>

Init ==
  /\ last = 0
  /\ open = FALSE
  /\ asked = {}
  /\ owed = {}
  /\ over = FALSE

Open ==
  /\ ~open
  /\ ~over
  /\ last' = last + 1
  /\ open' = TRUE
  /\ UNCHANGED <<asked, owed, over>>

Ask(q) ==
  /\ open
  /\ owed = {}
  /\ q \notin asked
  /\ asked' = asked \cup {q}
  /\ owed' = {q}
  /\ UNCHANGED <<last, open, over>>

Settle ==
  /\ owed /= {}
  /\ owed' = {}
  /\ UNCHANGED <<last, open, asked, over>>

Close ==
  /\ open
  /\ owed = {}
  /\ open' = FALSE
  /\ asked' = {}
  /\ UNCHANGED <<last, owed, over>>

Finish ==
  /\ ~open
  /\ ~over
  /\ over' = TRUE
  /\ UNCHANGED <<last, open, asked, owed>>

Next == Open \/ (\E q \in Requests : Ask(q)) \/ Settle \/ Close \/ Finish

Spec == Init /\ [][Next]_vars

===============================================================================
