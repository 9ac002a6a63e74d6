--------------------------- MODULE RunAccountsProofs ---------------------------
(***************************************************************************)
(* What the rows of RunLifecycle add up to, what its journal and its cache *)
(* say, that the stream implements SessionLedger and a session of it       *)
(* ModelCalls, and that an invocation ends: proofs for every bound and     *)
(* every budget, on top of StreamInv.                                      *)
(***************************************************************************)
EXTENDS RunLifecycleProofs

-------------------------------------------------------------------------------
(* What a step writes.                                                     *)

\* A step appends one row to the stream, or none; a request is the loop's next.
Asks(e) ==
  e.event = "llm_request" =>
    pc = "loop" /\ e.session = counter /\ e.request_seq = seq + 1 /\ seq < MaxRequests

LEMMA StepWrites ==
  ASSUME TypeInv, [Next]_vars
  PROVE  log' = log \/ \E e \in Event : Emit(e) /\ Asks(e)
<1> DEFINE Written == \E e \in Event : Emit(e) /\ Asks(e)
<1>0. /\ log \in Seq(Event) /\ counter \in Nat /\ seq \in Nat /\ calls \in Nat
      /\ events \in Seq(Event) /\ why \in Reasons
  BY DEF TypeInv, TypeOK
<1>1. ASSUME NEW e \in Event, Emit(e), e.event /= "llm_request"
      PROVE  Written
  BY <1>1 DEF Asks
<1>2. \A kind \in Kinds, n \in Nat : Row(kind, n) \in Event /\ Row(kind, n).event = kind
  BY RowTypes DEF Row, Kinds, Reasons
<1>3. \A n, q \in Nat, c \in {0, 1} :
        CallRow(n, q, c) \in Event /\ CallRow(n, q, c).event = "llm_call"
  BY RowTypes DEF CallRow, Row, Kinds, Reasons
<1>4. \A n, k \in Nat, r \in Reasons :
        /\ EndRow(n, r, k) \in Event /\ EndRow(n, r, k).event = "session_end"
        /\ CompleteRow(n, r, k) \in Event /\ CompleteRow(n, r, k).event = "run_complete"
  BY RowTypes DEF EndRow, CompleteRow, Row, Kinds
<1>5. /\ {"session_start", "session_refused", "schedule_next", "tool_call", "shell_state"}
           \subseteq Kinds
      /\ {"crash", "errors", "loop"} \subseteq Reasons
  BY DEF Kinds, Reasons
<1>6. CASE EmitPhantom
  <2> DEFINE s == CrashedSession(events)
  <2>1. PICK q \in PhantomRequests(events, s) : Emit(CallRow(s, q, 0))
    BY <1>6 DEF EmitPhantom
  <2>2. s \in Nat /\ q \in Nat
    BY <1>0, CrashedSessionIsOpen, PhantomType
  <2> HIDE DEF s
  <2> QED
    BY <1>1, <1>3, <2>1, <2>2
<1>7. CASE CloseCrashed
  <2> DEFINE s == CrashedSession(events)
  <2>1. Emit(EndRow(s, "crash", SessionCalls(events, s)))
    BY <1>7 DEF CloseCrashed
  <2>2. s \in Nat /\ SessionCalls(events, s) \in Nat
    BY <1>0, CrashedSessionIsOpen, CountsAreNat
  <2> HIDE DEF s
  <2> QED
    BY <1>1, <1>4, <1>5, <2>1, <2>2
<1>8. CASE Request
  <2> DEFINE e == [Row("llm_request", counter) EXCEPT !.request_seq = seq + 1]
  <2>1. seq + 1 \in Nat
    BY <1>0
  <2>2. e \in Event
    BY <1>0, <2>1, RowTypes DEF Kinds, Reasons
  <2>3. e.session = counter /\ e.request_seq = seq + 1
    BY DEF Row
  <2>4. Emit(e) /\ pc = "loop" /\ seq < MaxRequests
    BY <1>8 DEF Request, Goto
  <2> HIDE DEF e
  <2> QED
    BY <2>2, <2>3, <2>4 DEF Asks
<1>9. CASE Answer
  <2>1. PICK c \in {0, 1} : Emit(CallRow(counter, seq, c))
    BY <1>9 DEF Answer
  <2> QED
    BY <1>0, <1>1, <1>3, <2>1
<1>10. CASE HarnessFails \/ StartSession \/ ScheduleNext
  BY <1>0, <1>1, <1>2, <1>5, <1>10 DEF HarnessFails, StartSession, ScheduleNext
<1>11. CASE AbortEnd \/ EndSession
  BY <1>0, <1>1, <1>4, <1>5, <1>11 DEF AbortEnd, EndSession
<1>12. CASE Refused
  <2>1. counter - 1 \in Nat
    BY <1>0, <1>12 DEF Refused, Goto, TypeInv, Claiming
  <2> QED
    BY <1>1, <1>2, <1>5, <1>12, <2>1 DEF Refused
<1>13. CASE StopBooks \/ RevokeGrant \/ StopEnvironment
  BY <1>0, <1>1, <1>2, <1>5, <1>13 DEF StopBooks, RevokeGrant, StopEnvironment, TearDown
<1>14. CASE Complete
  <2>1. TotalCalls(events) \in Nat
    BY <1>0, CountsAreNat
  <2> QED
    BY <1>0, <1>1, <1>4, <1>14, <2>1 DEF Complete
<1>15. CASE JournalCrashed \/ RefreshCache \/ BoundaryTrips \/ ClaimNumber \/ JournalRaises
  BY <1>15 DEF JournalCrashed, RefreshCache, BoundaryTrips, ClaimNumber, JournalRaises, durable
<1>16. CASE Spawned \/ WriteJournal \/ Save \/ PersistComplete \/ DisableSupervisor
  BY <1>16 DEF Spawned, WriteJournal, Save, PersistComplete, DisableSupervisor, durable
<1>17. CASE ScheduledRun \/ ManualRun \/ EndRun
  BY <1>17 DEF ScheduledRun, ManualRun, EndRun, Fold, durable
<1>18. CASE Crash \/ WakeComesDue \/ RunExpires \/ UNCHANGED vars
  BY <1>18 DEF Crash, WakeComesDue, RunExpires, vars, durable
<1> QED
  BY <1>6, <1>7, <1>8, <1>9, <1>10, <1>11, <1>12, <1>13, <1>14, <1>15, <1>16, <1>17, <1>18
     DEF Next, Proceed, Recover, Boundary, RunOneSession, CompleteRun

-------------------------------------------------------------------------------
(* Counting calls.                                                         *)

\* The calls counted by a total of row j are those of the rows before it.
LEMMA CountsOfRow ==
  ASSUME log \in Seq(Event), NEW e \in Event, Emit(e)
  PROVE  /\ \A s : ~Is(e, "llm_call", s) => SessionCalls(log', s) = SessionCalls(log, s)
         /\ \A s \in Nat : Is(e, "llm_call", s) =>
              SessionCalls(log', s) = SessionCalls(log, s) + 1
         /\ e.event /= "llm_call" => /\ TotalCalls(log') = TotalCalls(log)
                                     /\ Spent(log') = Spent(log)
<1> DEFINE n == Len(log)
<1>1. /\ n \in Nat /\ DOMAIN log = 1..n /\ DOMAIN log' = 1..(n + 1)
      /\ \A i \in 1..n : log'[i] = log[i]
      /\ log'[n + 1] = e
  BY Appended
<1>2. \A i \in 1..(n + 1) : i \in 1..n \/ i = n + 1
  BY <1>1
<1> HIDE DEF n
<1>3. ASSUME NEW s, ~Is(e, "llm_call", s)
      PROVE  SessionCalls(log', s) = SessionCalls(log, s)
  <2>1. {i \in DOMAIN log' : Is(log'[i], "llm_call", s)}
          = {i \in DOMAIN log : Is(log[i], "llm_call", s)}
    BY <1>1, <1>2, <1>3
  <2> QED
    BY <2>1 DEF SessionCalls
<1>4. ASSUME NEW s \in Nat, Is(e, "llm_call", s)
      PROVE  SessionCalls(log', s) = SessionCalls(log, s) + 1
  <2> DEFINE S == {i \in DOMAIN log : Is(log[i], "llm_call", s)}
  <2>1. {i \in DOMAIN log' : Is(log'[i], "llm_call", s)} = S \cup {n + 1}
    BY <1>1, <1>2, <1>4
  <2>2. n + 1 \notin S
    BY <1>1
  <2>3. IsFiniteSet(S)
    <3>1. IsFiniteSet(1..n) /\ S \subseteq 1..n
      BY <1>1, FS_Interval
    <3> QED
      BY <3>1, FS_Subset
  <2> HIDE DEF S
  <2>4. Cardinality(S \cup {n + 1}) = Cardinality(S) + 1
    BY <2>2, <2>3, FS_AddElement
  <2> QED
    BY <2>1, <2>4 DEF SessionCalls, S
<1>5. ASSUME e.event /= "llm_call"
      PROVE  TotalCalls(log') = TotalCalls(log) /\ Spent(log') = Spent(log)
  <2>1. {i \in DOMAIN log' : log'[i].event = "llm_call"}
          = {i \in DOMAIN log : log[i].event = "llm_call"}
    BY <1>1, <1>2, <1>5
  <2>2. {i \in DOMAIN log' : log'[i].event = "llm_call" /\ log'[i].cost = 1}
          = {i \in DOMAIN log : log[i].event = "llm_call" /\ log[i].cost = 1}
    BY <1>1, <1>2, <1>5
  <2> QED
    BY <2>1, <2>2 DEF TotalCalls, Spent
<1> QED
  BY <1>3, <1>4, <1>5

\* The row e reports what the stream before it adds up to.
AddsUp(e) ==
  /\ e.event = "session_end" => e.llm_calls = SessionCalls(log, e.session)
  /\ e.event = "run_complete" => e.llm_calls = TotalCalls(log)
  /\ e.event = "session_start" => Spent(log) < Budget

LEMMA AccountsOfRow ==
  ASSUME log \in Seq(Event), TotalsAgree, NoSessionPastBudget,
         NEW e \in Event, Emit(e), AddsUp(e)
  PROVE  TotalsAgree' /\ NoSessionPastBudget'
<1> DEFINE n == Len(log)
           Calls(l, k, s) == {i \in 1..k : Is(l[i], "llm_call", s)}
           All(l, k) == {i \in 1..k : l[i].event = "llm_call"}
           Paid(l, k) == {i \in 1..k : l[i].event = "llm_call" /\ l[i].cost = 1}
<1>1. /\ n \in Nat /\ DOMAIN log = 1..n /\ DOMAIN log' = 1..(n + 1)
      /\ \A i \in 1..n : log'[i] = log[i]
      /\ log'[n + 1] = e
  BY Appended
<1>2. \A i \in 1..(n + 1) : i \in 1..n \/ i = n + 1
  BY <1>1
<1> HIDE DEF n
<1>3. ASSUME NEW k \in 0..n
      PROVE  /\ \A s : Calls(log', k, s) = Calls(log, k, s)
             /\ All(log', k) = All(log, k)
             /\ Paid(log', k) = Paid(log, k)
  <2>1. \A i \in 1..k : log'[i] = log[i]
    BY <1>1
  <2> QED
    BY <2>1
<1>4. \A s : SessionCalls(log, s) = Cardinality(Calls(log, n, s))
  BY <1>1 DEF SessionCalls
<1>5. TotalCalls(log) = Cardinality(All(log, n)) /\ Spent(log) = Cardinality(Paid(log, n))
  BY <1>1 DEF TotalCalls, Spent
<1>6. \A j \in 1..(n + 1) : j - 1 \in 0..n /\ (j = n + 1 => j - 1 = n)
  BY <1>1
<1>7. /\ \A j \in 1..n :
           /\ log[j].event = "session_end" =>
                log[j].llm_calls = Cardinality(Calls(log, j - 1, log[j].session))
           /\ log[j].event = "run_complete" =>
                log[j].llm_calls = Cardinality(All(log, j - 1))
           /\ log[j].event = "session_start" => Cardinality(Paid(log, j - 1)) < Budget
  BY <1>1 DEF TotalsAgree, NoSessionPastBudget
<1> HIDE DEF Calls, All, Paid
<1>8. ASSUME NEW j \in 1..(n + 1)
      PROVE  /\ log'[j].event = "session_end" =>
                  log'[j].llm_calls = Cardinality(Calls(log', j - 1, log'[j].session))
             /\ log'[j].event = "run_complete" =>
                  log'[j].llm_calls = Cardinality(All(log', j - 1))
             /\ log'[j].event = "session_start" => Cardinality(Paid(log', j - 1)) < Budget
  <2>1. CASE j \in 1..n
    BY <1>1, <1>3, <1>6, <1>7, <2>1
  <2>2. CASE j = n + 1
    <3>1. log'[j] = e /\ j - 1 = n /\ n \in 0..n
      BY <1>1, <2>2
    <3> QED
      BY <1>3, <1>4, <1>5, <3>1 DEF AddsUp
  <2> QED
    BY <1>2, <2>1, <2>2
<1>9. TotalsAgree'
  BY <1>1, <1>8 DEF TotalsAgree, Calls, All
<1>10. NoSessionPastBudget'
  BY <1>1, <1>8 DEF NoSessionPastBudget, Paid
<1> QED
  BY <1>9, <1>10

\* A session whose number has no row yet has no call.
LEMMA NoCallsYet ==
  ASSUME TypeInv, StreamInv, pc \in Claiming
  PROVE  SessionCalls(log, counter) = 0
<1>1. counter \in Nat /\ \A i \in DOMAIN log : log[i].session <= counter - 1
  BY DEF TypeInv, TypeOK, StreamInv, Known, CounterInv, Used, Claiming
<1>2. \A i \in DOMAIN log : log[i].session \in Nat
  BY RowFields DEF TypeInv, TypeOK
<1>3. {i \in DOMAIN log : Is(log[i], "llm_call", counter)} = {}
  BY <1>1, <1>2 DEF Is
<1> QED
  BY <1>3, FS_EmptySet DEF SessionCalls

-------------------------------------------------------------------------------
(* The sums, step by step.                                                 *)

Sums == TotalsAgree /\ NoSessionPastBudget /\ CallsInv /\ FoldedCallsInv /\ ClaimInv

\* Between two writes.
LEMMA SumsQuiet ==
  ASSUME Sums, log' = log, CallsInv', FoldedCallsInv', ClaimInv'
  PROVE  Sums'
BY DEF Sums, TotalsAgree, NoSessionPastBudget

LEMMA SumsFolded ==
  ASSUME TypeInv, StreamInv, Sums, Recover
  PROVE  Sums'
<1> USE DEF BeforeLoop, TearingDown, Unrecovered, Folded, Claiming
<1>0. log \in Seq(Event) /\ counter \in Nat /\ (pc \in Folded => events = log)
  BY DEF TypeInv, TypeOK, StreamInv, Known, Synced
<1>1. CASE EmitPhantom
  <2> DEFINE s == CrashedSession(log)
  <2>1. events = log /\ pc = "folded" /\ pc' = "folded" /\ calls' = calls
    BY <1>0, <1>1 DEF EmitPhantom
  <2>2. PICK q \in PhantomRequests(log, s) : Emit(CallRow(s, q, 0))
    BY <1>1, <2>1 DEF EmitPhantom
  <2>3. CallRow(s, q, 0) \in Event /\ CallRow(s, q, 0).event = "llm_call"
    <3>1. s \in Nat /\ q \in Nat
      BY <1>0, CrashedSessionIsOpen, PhantomType
    <3> HIDE DEF s
    <3> QED
      BY <3>1, RowTypes DEF CallRow, Row, Kinds, Reasons
  <2>4. TotalsAgree' /\ NoSessionPastBudget'
    BY <1>0, <2>2, <2>3, AccountsOfRow DEF AddsUp, Sums
  <2> QED
    BY <2>1, <2>4 DEF Sums, CallsInv, FoldedCallsInv, ClaimInv
<1>2. CASE CloseCrashed
  <2> DEFINE s == CrashedSession(log)
             e == EndRow(s, "crash", SessionCalls(log, s))
  <2>1. events = log /\ pc = "folded" /\ pc' = "journal_crashed" /\ calls' = calls /\ Emit(e)
    BY <1>0, <1>2 DEF CloseCrashed, Goto
  <2>2. s \in Nat /\ SessionCalls(log, s) \in Nat
    BY <1>0, CrashedSessionIsOpen, CountsAreNat
  <2>3. /\ e \in Event /\ e.event = "session_end" /\ e.session = s
        /\ e.llm_calls = SessionCalls(log, s)
    BY <2>2, RowTypes DEF EndRow, Row, Kinds, Reasons
  <2> HIDE DEF e, s
  <2>4. TotalsAgree' /\ NoSessionPastBudget'
    BY <1>0, <2>1, <2>3, AccountsOfRow DEF AddsUp, Sums
  <2> QED
    BY <2>1, <2>4 DEF Sums, CallsInv, FoldedCallsInv, ClaimInv
<1>3. CASE JournalCrashed
  BY <1>3, SumsQuiet
     DEF JournalCrashed, Goto, Sums, CallsInv, FoldedCallsInv, ClaimInv
<1>4. CASE RefreshCache
  <2>1. log' = log /\ events = log /\ calls = 0 /\ pc \in {"folded", "recovered"}
    BY <1>0, <1>4 DEF RefreshCache, Sums, CallsInv
  <2>2. \/ pc' = "idle" /\ calls' = 0
        \/ pc' \in {"stop_all", "boundary"} /\ events' = events /\ calls' = calls
    BY <1>4 DEF RefreshCache, Exit
  <2> QED
    BY <2>1, <2>2, SumsQuiet DEF Sums, CallsInv, FoldedCallsInv, ClaimInv
<1> QED
  BY <1>1, <1>2, <1>3, <1>4 DEF Recover

LEMMA SumsBoundary ==
  ASSUME TypeInv, StreamInv, Sums, Boundary
  PROVE  Sums'
<1> USE DEF BeforeLoop, TearingDown, Unrecovered, Folded, Claiming
<1>0. /\ log \in Seq(Event) /\ counter \in Nat /\ (pc \in Folded => events = log)
      /\ Spent(log) \in Nat /\ Budget \in Nat
  BY CountsAreNat, BoundsAssumption DEF TypeInv, TypeOK, StreamInv, Known, Synced
<1>1. CASE BoundaryTrips
  BY <1>0, <1>1, SumsQuiet
     DEF BoundaryTrips, Goto, durable, Sums, CallsInv, FoldedCallsInv, ClaimInv
<1>2. CASE ClaimNumber
  <2>1. /\ pc = "boundary" /\ pc' = "claimed" /\ log' = log /\ events = log /\ calls' = calls
        /\ BoundaryCheck(events, expired) = "none"
    BY <1>0, <1>2 DEF ClaimNumber, Goto
  <2>2. Spent(log) < Budget
    BY <1>0, <2>1 DEF BoundaryCheck
  <2>3. Spent(log') < Budget
    BY <2>1, <2>2
  <2> QED
    BY <2>1, <2>3, SumsQuiet DEF Sums, CallsInv, FoldedCallsInv, ClaimInv
<1>3. CASE JournalRaises
  BY <1>3, SumsQuiet
     DEF JournalRaises, Exit, durable, Sums, CallsInv, FoldedCallsInv, ClaimInv
<1> QED
  BY <1>1, <1>2, <1>3 DEF Boundary

\* A row that reports nothing, and is no call.
LEMMA SumsPlain ==
  ASSUME TypeInv, Sums, NEW e \in Event, Emit(e),
         e.event \in {"session_refused", "llm_request", "schedule_next", "tool_call",
                      "shell_state"}
  PROVE  /\ TotalsAgree' /\ NoSessionPastBudget'
         /\ \A s : SessionCalls(log', s) = SessionCalls(log, s)
         /\ TotalCalls(log') = TotalCalls(log)
<1>1. log \in Seq(Event)
  BY DEF TypeInv, TypeOK
<1>2. AddsUp(e) /\ \A s : ~Is(e, "llm_call", s)
  BY DEF AddsUp, Is
<1> QED
  BY <1>1, <1>2, AccountsOfRow, CountsOfRow DEF Sums

LEMMA SumsSession ==
  ASSUME TypeInv, StreamInv, Sums, RunOneSession
  PROVE  Sums'
<1> USE DEF BeforeLoop, TearingDown, Unrecovered, Folded, Claiming
<1>0. log \in Seq(Event) /\ counter \in Nat /\ calls \in Nat /\ seq \in Nat
  BY DEF TypeInv, TypeOK
<1>1. CASE HarnessFails \/ StartSession
  <2> DEFINE e == Row("session_start", counter)
  <2>1. /\ pc \in Claiming /\ pc' \in {"loop", "abort_end"} /\ Emit(e)
        /\ (pc' = "loop" => calls = 0)
        /\ calls' = calls /\ counter' = counter /\ events' = events
    BY <1>1 DEF HarnessFails, StartSession, Goto, memory, Sums, CallsInv
  <2>2. e \in Event /\ e.event = "session_start"
    BY <1>0, RowTypes DEF Row, Kinds, Reasons
  <2>3. TotalsAgree' /\ NoSessionPastBudget'
    BY <1>0, <2>1, <2>2, AccountsOfRow DEF AddsUp, Sums, ClaimInv
  <2>4. SessionCalls(log', counter) = 0
    BY <1>0, <2>1, <2>2, CountsOfRow, NoCallsYet DEF Is
  <2> HIDE DEF e
  <2> QED
    BY <2>1, <2>3, <2>4 DEF Sums, CallsInv, FoldedCallsInv, ClaimInv
<1>2. CASE AbortEnd
  <2> DEFINE e == EndRow(counter, "errors", 0)
  <2>1. pc = "abort_end" /\ pc' = "schedule" /\ Emit(e)
    BY <1>2 DEF AbortEnd, Goto
  <2>2. e \in Event /\ e.event = "session_end" /\ e.session = counter /\ e.llm_calls = 0
    BY <1>0, RowTypes DEF EndRow, Row, Kinds, Reasons
  <2> HIDE DEF e
  <2>3. TotalsAgree' /\ NoSessionPastBudget'
    BY <1>0, <2>1, <2>2, AccountsOfRow DEF AddsUp, Sums, CallsInv
  <2> QED
    BY <2>1, <2>3 DEF Sums, CallsInv, FoldedCallsInv, ClaimInv
<1>3. CASE Refused
  <2> DEFINE e == Row("session_refused", counter - 1)
  <2>1. /\ pc = "claimed" /\ pc' = "save" /\ Emit(e) /\ counter - 1 \in Nat
    BY <1>0, <1>3 DEF Refused, Goto, TypeInv
  <2>2. e \in Event /\ e.event = "session_refused"
    BY <2>1, RowTypes DEF Row, Kinds, Reasons
  <2> HIDE DEF e
  <2> QED
    BY <2>1, <2>2, SumsPlain DEF Sums, CallsInv, FoldedCallsInv, ClaimInv
<1>4. CASE Spawned
  <2>1. pc = "claimed" /\ pc' = "starting" /\ log' = log /\ calls' = calls
    BY <1>4 DEF Spawned, Goto, durable
  <2>2. Spent(log') = Spent(log)
    BY <2>1
  <2> QED
    BY <2>1, <2>2, SumsQuiet DEF Sums, CallsInv, FoldedCallsInv, ClaimInv
<1>5. CASE Request
  <2> DEFINE e == [Row("llm_request", counter) EXCEPT !.request_seq = seq + 1]
  <2>1. /\ pc = "loop" /\ pc' = "awaiting" /\ Emit(e) /\ counter' = counter /\ calls' = calls
    BY <1>5 DEF Request, Goto
  <2>2. e \in Event /\ e.event = "llm_request"
    <3>1. seq + 1 \in Nat
      BY <1>0
    <3>2. e \in Event
      BY <1>0, <3>1, RowTypes DEF Kinds, Reasons
    <3> QED
      BY <3>2 DEF Row
  <2> HIDE DEF e
  <2> QED
    BY <2>1, <2>2, SumsPlain DEF Sums, CallsInv, FoldedCallsInv, ClaimInv
<1>6. CASE Answer
  <2>1. PICK c \in {0, 1} : Emit(CallRow(counter, seq, c))
    BY <1>6 DEF Answer
  <2> DEFINE e == CallRow(counter, seq, c)
  <2>2. /\ pc = "awaiting" /\ pc' = "loop" /\ counter' = counter /\ calls' = calls + 1
    BY <1>6 DEF Answer, Goto
  <2>3. e \in Event /\ e.event = "llm_call" /\ e.session = counter
    BY <1>0, RowTypes DEF CallRow, Row, Kinds, Reasons
  <2>4. Emit(e)
    BY <2>1
  <2> HIDE DEF e
  <2>5. TotalsAgree' /\ NoSessionPastBudget'
    BY <1>0, <2>3, <2>4, AccountsOfRow DEF AddsUp, Sums
  <2>6. SessionCalls(log', counter) = SessionCalls(log, counter) + 1
    BY <1>0, <2>3, <2>4, CountsOfRow DEF Is
  <2> QED
    BY <2>2, <2>5, <2>6 DEF Sums, CallsInv, FoldedCallsInv, ClaimInv
<1>7. CASE EndSession
  <2> DEFINE e == EndRow(counter, "loop", calls)
  <2>1. pc = "loop" /\ pc' = "journaling" /\ Emit(e)
    BY <1>7 DEF EndSession, Goto
  <2>2. e \in Event /\ e.event = "session_end" /\ e.session = counter /\ e.llm_calls = calls
    BY <1>0, RowTypes DEF EndRow, Row, Kinds, Reasons
  <2> HIDE DEF e
  <2>3. TotalsAgree' /\ NoSessionPastBudget'
    BY <1>0, <2>1, <2>2, AccountsOfRow DEF AddsUp, Sums, CallsInv
  <2> QED
    BY <2>1, <2>3 DEF Sums, CallsInv, FoldedCallsInv, ClaimInv
<1>8. CASE WriteJournal
  BY <1>8, SumsQuiet DEF WriteJournal, Goto, Sums, CallsInv, FoldedCallsInv, ClaimInv
<1>9. CASE ScheduleNext
  <2> DEFINE e == Row("schedule_next", counter)
  <2>1. pc = "schedule" /\ pc' = "save" /\ Emit(e)
    BY <1>9 DEF ScheduleNext, Goto
  <2>2. e \in Event /\ e.event = "schedule_next"
    BY <1>0, RowTypes DEF Row, Kinds, Reasons
  <2> HIDE DEF e
  <2> QED
    BY <2>1, <2>2, SumsPlain DEF Sums, CallsInv, FoldedCallsInv, ClaimInv
<1>10. CASE Save
  BY <1>10, SumsQuiet DEF Save, Exit, Sums, CallsInv, FoldedCallsInv, ClaimInv
<1> QED
  BY <1>1, <1>2, <1>3, <1>4, <1>5, <1>6, <1>7, <1>8, <1>9, <1>10 DEF RunOneSession

LEMMA SumsComplete ==
  ASSUME TypeInv, StreamInv, Sums, CompleteRun
  PROVE  Sums'
<1> USE DEF BeforeLoop, TearingDown, Unrecovered, Folded, Claiming
<1>0. log \in Seq(Event) /\ counter \in Nat /\ events \in Seq(Event) /\ why \in Reasons
  BY DEF TypeInv, TypeOK
<1>1. ASSUME NEW from \in {"stop_all", "revoke", "stop_env"},
             NEW kind \in {"tool_call", "shell_state"},
             NEW to \in {"revoke", "stop_env", "complete"},
             TearDown(from, kind, to)
      PROVE  Sums'
  <2> DEFINE e == Row(kind, counter)
  <2>1. e \in Event /\ e.event = kind
    BY <1>0, RowTypes DEF Row, Kinds, Reasons
  <2>2. pc = from /\ pc' = to /\ Emit(e) /\ events' = events
    BY <1>1 DEF TearDown, Goto, memory
  <2> HIDE DEF e
  <2> QED
    BY <2>1, <2>2, SumsPlain DEF Sums, CallsInv, FoldedCallsInv, ClaimInv
<1>2. CASE StopBooks \/ RevokeGrant \/ StopEnvironment
  BY <1>1, <1>2 DEF StopBooks, RevokeGrant, StopEnvironment
<1>3. CASE Complete
  <2> DEFINE e == CompleteRow(counter, why, TotalCalls(events))
  <2>1. pc = "complete" /\ pc' = "persist" /\ Emit(e)
    BY <1>3 DEF Complete, Goto
  <2>2. TotalCalls(events) \in Nat
    BY <1>0, CountsAreNat
  <2>3. e \in Event /\ e.event = "run_complete" /\ e.llm_calls = TotalCalls(events)
    BY <1>0, <2>2, RowTypes DEF CompleteRow, Row, Kinds
  <2>4. TotalCalls(events) = TotalCalls(log)
    BY <2>1 DEF Sums, FoldedCallsInv
  <2> HIDE DEF e
  <2>5. TotalsAgree' /\ NoSessionPastBudget'
    BY <1>0, <2>1, <2>3, <2>4, AccountsOfRow DEF AddsUp, Sums
  <2> QED
    BY <2>1, <2>5 DEF Sums, CallsInv, FoldedCallsInv, ClaimInv
<1>4. CASE PersistComplete
  BY <1>4, SumsQuiet DEF PersistComplete, Goto, Sums, CallsInv, FoldedCallsInv, ClaimInv
<1>5. CASE DisableSupervisor
  BY <1>5, SumsQuiet DEF DisableSupervisor, Exit, Sums, CallsInv, FoldedCallsInv, ClaimInv
<1> QED
  BY <1>2, <1>3, <1>4, <1>5 DEF CompleteRun

LEMMA SumsStep ==
  ASSUME TypeInv, StreamInv, Sums, [Next]_vars
  PROVE  Sums'
<1> USE DEF BeforeLoop, TearingDown, Unrecovered, Folded, Claiming
<1>1. CASE Proceed
  BY <1>1, SumsFolded, SumsBoundary, SumsSession, SumsComplete DEF Proceed
<1>2. CASE ScheduledRun \/ ManualRun \/ EndRun
  <2>1. pc = "idle" /\ pc' = "folded" /\ log' = log /\ calls' = calls
    BY <1>2 DEF ScheduledRun, ManualRun, EndRun, Fold, durable
  <2> QED
    BY <2>1, SumsQuiet DEF Sums, CallsInv, FoldedCallsInv, ClaimInv
<1>3. CASE Crash
  BY <1>3, SumsQuiet DEF Crash, Exit, Sums, CallsInv, FoldedCallsInv, ClaimInv
<1>4. CASE WakeComesDue \/ RunExpires \/ UNCHANGED vars
  <2>1. log' = log /\ pc' = pc /\ calls' = calls /\ counter' = counter /\ events' = events
    BY <1>4 DEF WakeComesDue, RunExpires, vars, durable, memory
  <2> QED
    BY <2>1, SumsQuiet DEF Sums, CallsInv, FoldedCallsInv, ClaimInv
<1> QED
  BY <1>1, <1>2, <1>3, <1>4 DEF Next

-------------------------------------------------------------------------------
(* The cache.                                                              *)

\* Rolling keeps lines of the journal, and a new line is a line: only a kill
\* cuts a character.
LEMMA StaysReadable ==
  ASSUME NEW j \in Seq(Entry), NEW e \in Entry, e /= BadChar, ~Unreadable(j)
  PROVE  ~Unreadable(AppendEntry(j, e))
<1> DEFINE a == AddLine(j, e)
<1>1. Len(j) \in Nat /\ DOMAIN j = 1..Len(j) /\ JournalMax \in Nat
  BY LenProperties, BoundsAssumption
<1>2. a \in Seq(Entry) /\ ~Unreadable(a)
  <2>1. CASE j /= <<>> /\ ~j[Len(j)].whole
    <3>1. a = [j EXCEPT ![Len(j)] = Junk] /\ Len(j) \in 1..Len(j)
      BY <2>1, LenProperties, EmptySeq DEF AddLine
    <3>2. a \in Seq(Entry)
      BY <3>1, LineTypes, ExceptSeq
    <3>3. Junk /= BadChar
      BY DEF Junk, Line, BadChar
    <3> HIDE DEF a
    <3> QED
      BY <1>1, <3>1, <3>2, <3>3 DEF Unreadable
  <2>2. CASE ~(j /= <<>> /\ ~j[Len(j)].whole)
    <3>1. a = Append(j, e)
      BY <2>2 DEF AddLine
    <3>2. /\ a \in Seq(Entry) /\ Len(a) = Len(j) + 1 /\ DOMAIN a = 1..(Len(j) + 1)
          /\ \A i \in 1..Len(j) : a[i] = j[i]
          /\ a[Len(j) + 1] = e
      BY <3>1, AppendProperties, LenProperties
    <3> HIDE DEF a
    <3>3. \A i \in 1..(Len(j) + 1) : i \in 1..Len(j) \/ i = Len(j) + 1
      BY <1>1
    <3> QED
      BY <1>1, <3>2, <3>3 DEF Unreadable
  <2> QED
    BY <2>1, <2>2
<1> HIDE DEF a
<1>3. Len(a) \in Nat /\ DOMAIN a = 1..Len(a)
  BY <1>2, LenProperties
<1>4. CASE Len(a) <= JournalMax
  BY <1>2, <1>4 DEF AppendEntry, Roll, a
<1>5. CASE ~(Len(a) <= JournalMax)
  <2> DEFINE m == Len(a) - (IF JournalMax = 0 THEN 0 ELSE JournalMax - 1)
  <2>1. m \in Int /\ m >= 1 /\ m <= Len(a)
    BY <1>1, <1>3, <1>5
  <2> HIDE DEF m
  <2>2. \A i \in m..Len(a) : a[i] \in Entry
    BY <1>2, <1>3, <2>1, ElementOfSeq
  <2>3. /\ Len(SubSeq(a, m, Len(a))) = Len(a) - m + 1
        /\ \A i \in 1..(Len(a) - m + 1) : SubSeq(a, m, Len(a))[i] = a[m + i - 1]
        /\ SubSeq(a, m, Len(a)) \in Seq(Entry)
    BY <1>3, <2>1, <2>2, SubSeqProperties
  <2>4. \A i \in 1..(Len(a) - m + 1) : m + i - 1 \in 1..Len(a)
    BY <1>3, <2>1
  <2>5. DOMAIN SubSeq(a, m, Len(a)) = 1..(Len(a) - m + 1)
    BY <2>3, LenProperties
  <2>6. ~Unreadable(SubSeq(a, m, Len(a)))
    BY <1>2, <1>3, <2>3, <2>4, <2>5 DEF Unreadable
  <2> QED
    BY <1>5, <2>6 DEF AppendEntry, Roll, a, m
<1> QED
  BY <1>4, <1>5

LEMMA NextReadable ==
  ASSUME TypeInv, ~Unreadable(journal)
  PROVE  ~Unreadable(NextJournal)
<1>1. \A s, p \in Nat : Line(s, p) \in Entry /\ Line(s, p) /= BadChar
  BY LineTypes DEF Line, BadChar
<1>2. journal \in Seq(Entry) /\ counter \in Nat /\ prev \in Nat /\ LastEnded(journal) \in Nat
  BY JournalTypes DEF TypeInv, TypeOK
<1> QED
  BY <1>1, <1>2, StaysReadable DEF NextJournal

\* The stream's highest session number is the counter, once it has a row.
LEMMA CounterIsHighest ==
  ASSUME TypeInv, StreamInv, pc /= "idle", pc \notin Claiming
  PROVE  /\ \A i \in DOMAIN log : log[i].session <= counter
         /\ counter > 0 => \E i \in DOMAIN log : log[i].session = counter
<1>1. counter \in Nat /\ Used = counter
  BY DEF TypeInv, TypeOK, Used
<1>2. counter > 0 => counter \in 1..counter
  BY <1>1
<1> QED
  BY <1>1, <1>2 DEF StreamInv, Known, CounterInv, Is

CacheOK == CacheAgreesWithStream /\ CacheInv

\* A step that leaves the process running and the cache as it was, or no
\* longer "complete".
LEMMA CacheKept ==
  ASSUME CacheOK, pc' /= "idle",
         cache'.status = "complete" => cache.status = "complete",
         RunOver(log) => RunOver(log'),
         pc' = "persist" => RunOver(log'),
         pc' /= "disable",
         crashes' = crashes,
         Unreadable(journal') => Unreadable(journal)
  PROVE  CacheOK'
BY DEF CacheOK, CacheAgreesWithStream, CacheInv, RunOver

\* A process that ends after it has saved what the stream says.
LEMMA CacheSaved ==
  ASSUME TypeInv, StreamInv, CacheOK, pc /= "idle", pc \notin Claiming, pc' = "idle",
         log' = log, crashes' = crashes, journal' = journal,
         cache'.counter = counter, cache'.status = "complete" <=> RunOver(log)
  PROVE  CacheOK'
BY CounterIsHighest DEF CacheOK, CacheAgreesWithStream, CacheInv, RunOver

\* Rows stay.
LEMMA OverStays ==
  ASSUME log \in Seq(Event), NEW e \in Event, Emit(e)
  PROVE  /\ RunOver(log) => RunOver(log')
         /\ e.event = "run_complete" => RunOver(log')
<1>1. /\ Len(log) \in Nat /\ DOMAIN log = 1..Len(log) /\ DOMAIN log' = 1..(Len(log) + 1)
      /\ \A i \in 1..Len(log) : log'[i] = log[i]
      /\ log'[Len(log) + 1] = e
  BY Appended
<1> QED
  BY <1>1 DEF RunOver

LEMMA CacheStep ==
  ASSUME TypeInv, StreamInv, CacheOK, [Next]_vars
  PROVE  CacheOK'
<1>0. /\ log \in Seq(Event) /\ crashes \in Nat /\ (pc \in Folded => events = log)
  BY DEF TypeInv, TypeOK, StreamInv, Known, Synced
<1>1. RunOver(log) => RunOver(log')
  BY <1>0, StepWrites, OverStays
<1>2. ASSUME pc' \notin {"idle", "persist", "disable"}, crashes' = crashes,
             cache' = cache \/ cache'.status = "running", journal' = journal
      PROVE  CacheOK'
  BY <1>1, <1>2, CacheKept
<1>3. CASE Recover
  <2>1. CASE EmitPhantom \/ CloseCrashed
    BY <1>2, <2>1 DEF EmitPhantom, CloseCrashed, Goto
  <2>2. CASE JournalCrashed
    <3>1. /\ pc' = "recovered" /\ UNCHANGED <<cache, crashes>>
          /\ journal' = NextJournal /\ ~Unreadable(journal)
      BY <2>2 DEF JournalCrashed, Goto
    <3>2. ~Unreadable(journal')
      BY <3>1, NextReadable
    <3> QED
      BY <1>1, <3>1, <3>2, CacheKept
  <2>3. CASE RefreshCache
    <3>1. /\ pc \in {"folded", "recovered"} /\ log' = log /\ events = log
          /\ cache'.counter = counter
          /\ cache'.status = (IF RunOver(log) THEN "complete" ELSE "running")
          /\ UNCHANGED <<journal, crashes>>
      BY <1>0, <2>3 DEF RefreshCache, SaveState, Folded
    <3>2. CASE RunOver(log)
      <4>1. pc' = "idle"
        BY <2>3, <3>1, <3>2 DEF RefreshCache, Exit
      <4> QED
        BY <3>1, <3>2, <4>1, CacheSaved DEF Claiming
    <3>3. CASE ~RunOver(log)
      <4>1. pc' \in {"stop_all", "boundary"}
        BY <2>3, <3>1, <3>3 DEF RefreshCache
      <4> QED
        BY <1>2, <3>1, <3>3, <4>1
    <3> QED
      BY <3>2, <3>3
  <2> QED
    BY <1>3, <2>1, <2>2, <2>3 DEF Recover
<1>4. CASE BoundaryTrips \/ ClaimNumber
  BY <1>2, <1>4 DEF BoundaryTrips, ClaimNumber, Goto, durable, SaveState
<1>5. CASE JournalRaises
  BY <1>5 DEF JournalRaises, Exit, durable, CacheOK, CacheAgreesWithStream, CacheInv, RunOver
<1>6. CASE HarnessFails \/ AbortEnd \/ Refused \/ Spawned \/ StartSession
  BY <1>2, <1>6 DEF HarnessFails, AbortEnd, Refused, Spawned, StartSession, Goto, durable
<1>7. CASE Request \/ Answer \/ EndSession \/ ScheduleNext
  BY <1>2, <1>7 DEF Request, Answer, EndSession, ScheduleNext, Goto
<1>8. CASE WriteJournal
  <2>1. /\ pc' = "schedule" /\ UNCHANGED <<cache, crashes>> /\ journal' = NextJournal
    BY <1>8 DEF WriteJournal, Goto
  <2>2. Unreadable(journal') => Unreadable(journal)
    BY <2>1, NextReadable
  <2> QED
    BY <1>1, <2>1, <2>2, CacheKept
<1>9. CASE Save
  <2>1. ~RunOver(log)
    BY <1>9 DEF Save, StreamInv, Known, OverInv, Unrecovered
  <2>2. /\ pc = "save" /\ pc' = "idle" /\ log' = log /\ UNCHANGED <<crashes, journal>>
        /\ cache'.counter = counter /\ cache'.status = "running"
    BY <1>9 DEF Save, Exit, SaveState
  <2> QED
    BY <2>1, <2>2, CacheSaved DEF Claiming
<1>10. CASE StopBooks \/ RevokeGrant \/ StopEnvironment
  BY <1>2, <1>10 DEF StopBooks, RevokeGrant, StopEnvironment, TearDown, Goto
<1>11. CASE Complete
  <2> DEFINE e == CompleteRow(counter, why, TotalCalls(events))
  <2>1. e \in Event
    BY RowTypes, CountsAreNat DEF Kinds, TypeInv, TypeOK
  <2>2. e.event = "run_complete"
    BY DEF CompleteRow, Row
  <2>3. Emit(e) /\ pc' = "persist" /\ UNCHANGED <<cache, crashes, journal>>
    BY <1>11 DEF Complete, Goto
  <2> HIDE DEF e
  <2> QED
    BY <1>0, <2>1, <2>2, <2>3, OverStays, CacheKept
<1>12. CASE PersistComplete
  <2>1. /\ pc = "persist" /\ pc' = "disable" /\ log' = log
        /\ cache' = [counter |-> counter, status |-> "complete"] /\ counter' = counter
        /\ UNCHANGED <<journal, crashes>>
    BY <1>12 DEF PersistComplete, Goto, SaveState, memory
  <2>2. RunOver(log)
    BY <2>1 DEF CacheOK, CacheInv
  <2> QED
    BY <2>1, <2>2 DEF CacheOK, CacheInv, CacheAgreesWithStream, RunOver
<1>13. CASE DisableSupervisor
  <2>1. /\ pc = "disable" /\ pc' = "idle" /\ log' = log
        /\ UNCHANGED <<journal, crashes, cache>>
    BY <1>13 DEF DisableSupervisor, Exit
  <2>2. RunOver(log) /\ cache = [counter |-> counter, status |-> "complete"]
    BY <2>1 DEF CacheOK, CacheInv
  <2> QED
    BY <2>1, <2>2, CacheSaved DEF Claiming
<1>14. CASE ScheduledRun \/ ManualRun \/ EndRun
  BY <1>2, <1>14 DEF ScheduledRun, ManualRun, EndRun, Fold, durable
<1>15. CASE Crash
  <2>1. pc' = "idle" /\ log' = log /\ cache' = cache /\ crashes' > 0
    BY <1>0, <1>15 DEF Crash, Exit
  <2> QED
    BY <2>1 DEF CacheOK, CacheInv, CacheAgreesWithStream
<1>16. CASE WakeComesDue \/ RunExpires \/ UNCHANGED vars
  <2>1. /\ log' = log /\ pc' = pc /\ counter' = counter
        /\ UNCHANGED <<cache, journal, crashes>>
    BY <1>16 DEF WakeComesDue, RunExpires, vars, durable, memory
  <2> QED
    BY <2>1 DEF CacheOK, CacheInv, CacheAgreesWithStream, RunOver
<1> QED
  BY <1>3, <1>4, <1>5, <1>6, <1>7, <1>8, <1>9, <1>10, <1>11, <1>12, <1>13, <1>14, <1>15, <1>16
     DEF Next, Proceed, Boundary, RunOneSession, CompleteRun

-------------------------------------------------------------------------------
(* The journal.                                                            *)

\* A journal that tells a stretch of another's entries, each as it was.
PartOf(l, j, off) ==
  /\ \A i \in Entries(l) : /\ i + off \in Entries(j)
                           /\ l[i].session = j[i + off].session
                           /\ l[i].prev = j[i + off].prev
  /\ \A a, b \in Entries(l) : \A k \in Entries(j) :
       a + off < k /\ k < b + off => k - off \in Entries(l)

LEMMA PartIsChained ==
  ASSUME NEW j \in Seq(Entry), NEW l \in Seq(Entry), NEW off \in Nat,
         PartOf(l, j, off), Chained(j)
  PROVE  /\ Chained(l)
         /\ \A i \in Entries(l) : \E k \in Entries(j) : l[i].session = j[k].session
<1>1. Entries(l) \subseteq Nat /\ Entries(j) \subseteq Nat
  BY EntriesFacts
<1>2. \A i \in Entries(l) : l[i].prev < l[i].session
  BY DEF PartOf, Chained
<1>3. ASSUME NEW a \in Entries(l), NEW b \in Entries(l), Adjacent(l, a, b)
      PROVE  l[b].prev = l[a].session
  <2>1. a \in Nat /\ b \in Nat /\ a + off \in Entries(j) /\ b + off \in Entries(j)
    BY <1>1 DEF PartOf
  <2>2. a + off < b + off
    BY <1>3, <2>1 DEF Adjacent
  <2>3. ASSUME NEW k \in Entries(j), a + off < k, k < b + off
        PROVE  FALSE
    <3>1. k \in Nat /\ k - off \in Entries(l)
      BY <1>1, <2>3 DEF PartOf
    <3>2. a < k - off /\ k - off < b
      BY <2>1, <2>3, <3>1
    <3> QED
      BY <1>3, <3>1, <3>2 DEF Adjacent
  <2>4. Adjacent(j, a + off, b + off)
    BY <2>1, <2>2, <2>3 DEF Adjacent
  <2>5. l[b].prev = j[b + off].prev /\ l[a].session = j[a + off].session
    BY DEF PartOf
  <2>6. j[b + off].prev = j[a + off].session
    BY <2>1, <2>4 DEF Chained
  <2> QED
    BY <2>5, <2>6
<1> QED
  BY <1>2, <1>3 DEF Chained, PartOf

\* So is what stands between two lines of it,
LEMMA StretchIsPart ==
  ASSUME NEW j \in Seq(Entry), NEW m \in 1..Len(j), NEW n \in 0..Len(j)
  PROVE  /\ SubSeq(j, m, n) \in Seq(Entry)
         /\ PartOf(SubSeq(j, m, n), j, m - 1)
         /\ Len(SubSeq(j, m, n)) = (IF m <= n THEN n - m + 1 ELSE 0)
         /\ \A i \in 1..(n - m + 1) : SubSeq(j, m, n)[i] = j[m + i - 1]
<1> DEFINE l == SubSeq(j, m, n)
           d == IF m <= n THEN n - m + 1 ELSE 0
<1>1. Len(j) \in Nat /\ DOMAIN j = 1..Len(j) /\ m \in Nat /\ n \in Nat
  BY LenProperties
<1>2. \A i \in m..n : j[i] \in Entry
  BY <1>1, ElementOfSeq
<1>3. /\ l \in Seq(Entry) /\ Len(l) = d
      /\ \A i \in 1..(n - m + 1) : l[i] = j[m + i - 1]
  BY <1>1, <1>2, SubSeqProperties
<1>4. DOMAIN l = 1..d
  BY <1>3, LenProperties
<1> HIDE DEF l
<1>5. \A i \in 1..d : /\ l[i] = j[i + (m - 1)] /\ i + (m - 1) \in 1..Len(j)
  <2>1. \A i \in 1..d : i \in 1..(n - m + 1) /\ m + i - 1 = i + (m - 1)
    BY <1>1
  <2>2. \A i \in 1..d : i + (m - 1) \in 1..Len(j)
    BY <1>1
  <2> QED
    BY <1>3, <2>1, <2>2
<1>6. \A i \in 1..d, k \in 1..d : \A q \in 1..Len(j) :
        i + (m - 1) < q /\ q < k + (m - 1) => q - (m - 1) \in 1..d /\ (q - (m - 1)) + (m - 1) = q
  BY <1>1
<1> HIDE DEF d
<1>7. \A i : i \in Entries(l) <=> i \in 1..d /\ l[i].session /= 0
  BY <1>4 DEF Entries
<1>8. \A i : i \in Entries(j) <=> i \in 1..Len(j) /\ j[i].session /= 0
  BY <1>1 DEF Entries
<1>9. \A i \in Entries(l) : /\ i + (m - 1) \in Entries(j)
                            /\ l[i].session = j[i + (m - 1)].session
                            /\ l[i].prev = j[i + (m - 1)].prev
  BY <1>5, <1>7, <1>8
<1>10. ASSUME NEW a \in Entries(l), NEW b \in Entries(l), NEW k \in Entries(j),
              a + (m - 1) < k, k < b + (m - 1)
       PROVE  k - (m - 1) \in Entries(l)
  <2>1. a \in 1..d /\ b \in 1..d /\ k \in 1..Len(j) /\ j[k].session /= 0
    BY <1>7, <1>8
  <2>2. k - (m - 1) \in 1..d /\ (k - (m - 1)) + (m - 1) = k
    BY <1>6, <1>10, <2>1
  <2>3. l[k - (m - 1)] = j[k]
    BY <1>5, <2>2
  <2> QED
    BY <1>7, <2>1, <2>2, <2>3
<1> QED
  BY <1>3, <1>9, <1>10 DEF PartOf, l, d

\* and what is left when its last line says nothing, or says it without its
\* newline.
LEMMA LastChanged ==
  ASSUME NEW j \in Seq(Entry), NEW l \in Seq(Entry), Len(l) = Len(j), j /= <<>>,
         \A i \in 1..(Len(j) - 1) : l[i] = j[i],
         \/ l[Len(j)].session = 0
         \/ /\ l[Len(j)].session = j[Len(j)].session
            /\ l[Len(j)].prev = j[Len(j)].prev
  PROVE  PartOf(l, j, 0)
<1> DEFINE n == Len(j)
<1>1. /\ n \in Nat /\ n >= 1 /\ DOMAIN j = 1..n /\ DOMAIN l = 1..n
  BY LenProperties, EmptySeq
<1> HIDE DEF n
<1>2. \A i \in 1..n : i \in 1..(n - 1) \/ i = n
  BY <1>1
<1>3. \A i \in Entries(l) : /\ i \in 1..n /\ i \in Entries(j) /\ i + 0 = i
                            /\ l[i].session = j[i].session
                            /\ l[i].prev = j[i].prev
  <2> SUFFICES ASSUME NEW i \in Entries(l)
               PROVE  /\ i \in 1..n /\ i \in Entries(j) /\ i + 0 = i
                      /\ l[i].session = j[i].session
                      /\ l[i].prev = j[i].prev
    OBVIOUS
  <2>1. i \in 1..n /\ l[i].session /= 0
    BY <1>1 DEF Entries
  <2>2. i + 0 = i
    BY <1>1, <2>1
  <2>3. l[i].session = j[i].session /\ l[i].prev = j[i].prev
    <3>1. CASE i \in 1..(n - 1)
      BY <3>1 DEF n
    <3>2. CASE i = n
      BY <2>1, <3>2 DEF n
    <3> QED
      BY <1>2, <2>1, <3>1, <3>2
  <2> QED
    BY <1>1, <2>1, <2>2, <2>3 DEF Entries
<1>4. ASSUME NEW b \in Entries(l), NEW k \in Entries(j), k < b
      PROVE  k \in Entries(l) /\ k - 0 = k
  <2>1. b \in 1..n /\ k \in 1..n /\ j[k].session /= 0
    BY <1>1, <1>3 DEF Entries
  <2>2. k \in 1..(n - 1)
    BY <1>1, <1>4, <2>1
  <2>3. l[k] = j[k]
    BY <2>2 DEF n
  <2> QED
    BY <1>1, <2>1, <2>3 DEF Entries
<1> QED
  BY <1>3, <1>4 DEF PartOf

\* A new line at the end of a journal.
LEMMA ChainedAppend ==
  ASSUME NEW j \in Seq(Entry), Chained(j), NEW e \in Entry,
         e.prev < e.session, e.prev = LastEnded(j)
  PROVE  /\ Append(j, e) \in Seq(Entry) /\ Chained(Append(j, e))
         /\ \A i \in Entries(Append(j, e)) :
              \/ Append(j, e)[i] = e
              \/ \E k \in Entries(j) : Append(j, e)[i] = j[k]
<1> DEFINE a == Append(j, e)
           n == Len(j)
<1>1. /\ n \in Nat /\ DOMAIN j = 1..n /\ a \in Seq(Entry) /\ DOMAIN a = 1..(n + 1)
      /\ \A i \in 1..n : a[i] = j[i]
      /\ a[n + 1] = e
  BY AppendProperties, LenProperties
<1>2. Entries(j) \subseteq Nat /\ IsFiniteSet(Entries(j)) /\ Entries(j) \subseteq 1..n
  BY <1>1, EntriesFacts DEF Entries
<1> HIDE DEF a, n
<1>3. \A i \in 1..(n + 1) : i \in 1..n \/ i = n + 1
  BY <1>1
<1>4. \A i \in Entries(a) : \/ i \in Entries(j) /\ a[i] = j[i]
                            \/ i = n + 1 /\ a[i] = e
  BY <1>1, <1>3 DEF Entries
<1>5. \A i \in Entries(j) : i \in Entries(a) /\ a[i] = j[i] /\ i < n + 1
  BY <1>1 DEF Entries
<1>6. \A i \in Entries(a) : a[i].prev < a[i].session
  BY <1>4 DEF Chained
<1>7. ASSUME NEW p \in Entries(a), NEW q \in Entries(a), Adjacent(a, p, q)
      PROVE  a[q].prev = a[p].session
  <2>1. p < q /\ \A k \in Entries(a) : ~(p < k /\ k < q)
    BY <1>7 DEF Adjacent
  <2>2. p \in Entries(j)
    <3>1. p \in 1..(n + 1) /\ q \in 1..(n + 1)
      BY <1>1 DEF Entries
    <3>2. p /= n + 1
      BY <1>1, <2>1, <3>1
    <3> QED
      BY <1>4, <3>2
  <2>3. CASE q \in Entries(j)
    <3>1. Adjacent(j, p, q)
      BY <1>5, <2>1, <2>2, <2>3 DEF Adjacent
    <3> QED
      BY <1>5, <2>2, <2>3, <3>1 DEF Chained
  <2>4. CASE q \notin Entries(j)
    <3>1. q = n + 1 /\ a[q] = e
      BY <1>4, <2>4
    <3>2. \A k \in Entries(j) : k <= p
      BY <1>1, <1>2, <1>5, <2>1, <2>2, <3>1
    <3>3. /\ Highest(Entries(j)) \in Entries(j)
          /\ \A k \in Entries(j) : k <= Highest(Entries(j))
      BY <1>2, <2>2, HighestIsMax
    <3>4. Highest(Entries(j)) = p
      BY <1>2, <2>2, <3>2, <3>3
    <3> QED
      BY <1>5, <2>2, <3>1, <3>4 DEF LastEnded
  <2> QED
    BY <2>3, <2>4
<1> QED
  BY <1>1, <1>4, <1>6, <1>7 DEF Chained, a

\* The next journal: the new line, or the one it ran into, is its last.
LEMMA ChainedNext ==
  ASSUME NEW j \in Seq(Entry), Chained(j), NEW s \in Nat, NEW p \in Nat,
         p < s, p = LastEnded(j)
  PROVE  /\ AppendEntry(j, Line(s, p)) \in Seq(Entry)
         /\ Chained(AppendEntry(j, Line(s, p)))
         /\ AppendEntry(j, Line(s, p))[Len(AppendEntry(j, Line(s, p)))]
              \in {Junk, Line(s, p)}
         /\ \A i \in Entries(AppendEntry(j, Line(s, p))) :
              \/ AppendEntry(j, Line(s, p))[i].session = s
              \/ \E k \in Entries(j) : AppendEntry(j, Line(s, p))[i].session = j[k].session
<1> DEFINE e == Line(s, p)
           a == AddLine(j, e)
           r == Roll(a)
           Good(l) == /\ l \in Seq(Entry) /\ Chained(l) /\ l /= <<>>
                      /\ l[Len(l)] \in {Junk, e}
                      /\ \A i \in Entries(l) :
                           \/ l[i].session = s
                           \/ \E k \in Entries(j) : l[i].session = j[k].session
<1>1. e \in Entry /\ e.session = s /\ e.prev = p
  BY LineTypes DEF Line
<1>2. Len(j) \in Nat /\ DOMAIN j = 1..Len(j) /\ JournalMax \in Nat
  BY LenProperties, BoundsAssumption
<1> HIDE DEF e
<1>3. Good(a)
  <2>1. CASE j /= <<>> /\ ~j[Len(j)].whole
    <3>1. a = [j EXCEPT ![Len(j)] = Junk] /\ Len(j) \in 1..Len(j)
      BY <2>1, LenProperties, EmptySeq DEF AddLine
    <3>2. a \in Seq(Entry) /\ Len(a) = Len(j)
      BY <3>1, LineTypes, ExceptSeq
    <3>3. /\ a[Len(j)] = Junk /\ Junk.session = 0
          /\ \A i \in 1..(Len(j) - 1) : a[i] = j[i]
      <4>1. \A i \in 1..Len(j) : a[i] = IF i = Len(j) THEN Junk ELSE j[i]
        BY <3>1, LineTypes, ExceptSeq
      <4>2. Junk.session = 0
        BY DEF Junk, Line
      <4> HIDE DEF a
      <4>3. \A i \in 1..(Len(j) - 1) : i \in 1..Len(j) /\ i /= Len(j)
        <5>1. \A n \in Nat : \A i \in 1..(n - 1) : i \in 1..n /\ i /= n
          OBVIOUS
        <5> QED
          BY <1>2, <5>1
      <4> QED
        BY <3>1, <4>1, <4>2, <4>3
    <3>4. a /= <<>>
      BY <2>1, <3>2, EmptySeq
    <3> HIDE DEF a
    <3>5. PartOf(a, j, 0)
      BY <2>1, <3>2, <3>3, LastChanged
    <3>6. Chained(a) /\ \A i \in Entries(a) : \E k \in Entries(j) : a[i].session = j[k].session
      BY <3>2, <3>5, PartIsChained
    <3> QED
      BY <3>2, <3>3, <3>4, <3>6
  <2>2. CASE ~(j /= <<>> /\ ~j[Len(j)].whole)
    <3>1. a = Append(j, e)
      BY <2>2 DEF AddLine
    <3>2. /\ a \in Seq(Entry) /\ Chained(a)
          /\ \A i \in Entries(a) : a[i] = e \/ \E k \in Entries(j) : a[i] = j[k]
      <4>1. e.prev < e.session /\ e.prev = LastEnded(j)
        BY <1>1
      <4> HIDE DEF a
      <4> QED
        BY <1>1, <3>1, <4>1, ChainedAppend
    <3>3. Len(a) = Len(j) + 1 /\ a[Len(j) + 1] = e
      BY <1>1, <3>1, AppendProperties
    <3>4. a /= <<>>
      BY <1>2, <3>2, <3>3, EmptySeq
    <3> HIDE DEF a
    <3> QED
      BY <1>1, <3>2, <3>3, <3>4
  <2> QED
    BY <2>1, <2>2
<1> HIDE DEF a
<1>4. Good(r)
  <2>1. Len(a) \in Nat /\ Len(a) >= 1
    BY <1>3, LenProperties, EmptySeq
  <2>2. CASE Len(a) <= JournalMax
    <3>1. r = a
      BY <2>2 DEF Roll
    <3> HIDE DEF r, Good
    <3> QED
      BY <1>3, <3>1
  <2>3. CASE ~(Len(a) <= JournalMax)
    <3> DEFINE m == Len(a) - (IF JournalMax = 0 THEN 0 ELSE JournalMax - 1)
    <3>1. m \in 1..Len(a) /\ Len(a) \in 0..Len(a)
      BY <1>2, <2>1, <2>3
    <3>2. r = SubSeq(a, m, Len(a))
      BY <2>3 DEF Roll
    <3> HIDE DEF m, r
    <3>3. /\ r \in Seq(Entry) /\ PartOf(r, a, m - 1) /\ Len(r) = Len(a) - m + 1
          /\ \A i \in 1..(Len(a) - m + 1) : r[i] = a[m + i - 1]
      BY <1>3, <3>1, <3>2, StretchIsPart
    <3>4. r[Len(r)] = a[Len(a)] /\ r /= <<>>
      <4>1. Len(r) \in 1..(Len(a) - m + 1) /\ m + Len(r) - 1 = Len(a)
        BY <2>1, <3>1, <3>3
      <4> QED
        BY <3>3, <4>1, EmptySeq
    <3>5. m - 1 \in Nat
      BY <3>1
    <3>6. Chained(r) /\ \A i \in Entries(r) : \E k \in Entries(a) : r[i].session = a[k].session
      BY <1>3, <3>3, <3>5, PartIsChained
    <3>7. \A i \in Entries(r) :
            r[i].session = s \/ \E k \in Entries(j) : r[i].session = j[k].session
      BY <1>3, <3>6
    <3> QED
      BY <1>3, <3>3, <3>4, <3>6, <3>7
  <2> QED
    BY <2>2, <2>3
<1>5. r = AppendEntry(j, e)
  BY DEF AppendEntry, a
<1> HIDE DEF r
<1> QED
  BY <1>4, <1>5 DEF e

\* What a kill leaves of a journal tells no gap that is not there.
LEMMA ChainedPrefix ==
  ASSUME NEW j \in Seq(Entry), Chained(j), NEW l \in Prefixes(j)
  PROVE  /\ l \in Seq(Entry) /\ Chained(l)
         /\ \A i \in Entries(l) : \E k \in Entries(j) : l[i].session = j[k].session
<1> DEFINE Good(q) == /\ q \in Seq(Entry) /\ Chained(q)
                      /\ \A i \in Entries(q) : \E k \in Entries(j) : q[i].session = j[k].session
<1>1. Len(j) \in Nat
  BY LenProperties
<1>2. ASSUME NEW k \in 0..Len(j)
      PROVE  Good(SubSeq(j, 1, k)) /\ Len(SubSeq(j, 1, k)) = k
  <2>1. CASE k = 0
    <3>1. SubSeq(j, 1, k) = <<>>
      BY <2>1, EmptySeq, SubSeqProperties
    <3>2. <<>> \in Seq(Entry) /\ DOMAIN <<>> = {} /\ Len(<<>>) = 0
      BY EmptySeq
    <3>3. Entries(<<>>) = {}
      BY <3>2 DEF Entries
    <3> QED
      BY <2>1, <3>1, <3>2, <3>3 DEF Chained
  <2>2. CASE k /= 0
    <3>1. 1 \in 1..Len(j) /\ 1 <= k
      BY <1>1, <2>2
    <3> DEFINE q == SubSeq(j, 1, k)
    <3>2. q \in Seq(Entry) /\ PartOf(q, j, 1 - 1) /\ Len(q) = k
      BY <1>1, <3>1, StretchIsPart
    <3> HIDE DEF q
    <3>3. Chained(q) /\ \A i \in Entries(q) : \E n \in Entries(j) : q[i].session = j[n].session
      BY <3>2, PartIsChained
    <3> QED
      BY <3>2, <3>3 DEF q
  <2> QED
    BY <2>1, <2>2
<1>3. ASSUME NEW k \in 0..(Len(j) - 1), NEW c \in Cuts(j[k + 1])
      PROVE  Good(Append(SubSeq(j, 1, k), c))
  <2> DEFINE b == SubSeq(j, 1, k)
             w == SubSeq(j, 1, k + 1)
             q == Append(b, c)
  <2>1. k \in 0..Len(j) /\ k + 1 \in 0..Len(j) /\ k + 1 \in 1..Len(j) /\ 1 \in 1..Len(j)
    BY <1>1
  <2>2. c \in Entry
    BY <2>1, LineTypes, ElementOfSeq
  <2>3. b \in Seq(Entry) /\ Len(b) = k /\ Good(w) /\ Len(w) = k + 1
    BY <1>2, <2>1
  <2>4. /\ q \in Seq(Entry) /\ Len(q) = k + 1 /\ q[k + 1] = c
        /\ \A i \in 1..k : q[i] = b[i]
    BY <2>2, <2>3, AppendProperties
  <2>5. w[k + 1] = j[k + 1] /\ \A i \in 1..k : w[i] = b[i]
    <3>1. \A i \in 1..(k + 1) : w[i] = j[1 + i - 1]
      BY <2>1, StretchIsPart
    <3>2. k = 0 \/ \A i \in 1..k : b[i] = j[1 + i - 1]
      BY <2>1, StretchIsPart
    <3>3. \A i \in 1..(k + 1) : 1 + i - 1 = i
      BY <2>1
    <3>4. \A i \in 1..k : i \in 1..(k + 1)
      BY <2>1
    <3>5. k + 1 \in 1..(k + 1)
      BY <2>1
    <3> HIDE DEF b, w
    <3>6. \A i \in 1..(k + 1) : w[i] = j[i]
      BY <3>1, <3>3
    <3>7. \A i \in 1..k : b[i] = j[i]
      BY <3>2, <3>3, <3>4
    <3> QED
      BY <3>4, <3>5, <3>6, <3>7
  <2>6. \/ c.session = 0
        \/ c.session = j[k + 1].session /\ c.prev = j[k + 1].prev
    <3>1. j[k + 1] \in Entry
      BY <2>1, ElementOfSeq
    <3>2. CASE c = [j[k + 1] EXCEPT !.whole = FALSE]
      BY <3>1, <3>2 DEF Entry
    <3>3. CASE c \in {[Junk EXCEPT !.whole = FALSE], BadChar}
      BY <3>3 DEF Junk, Line, BadChar
    <3> QED
      BY <3>2, <3>3 DEF Cuts
  <2>7. w /= <<>>
    BY <2>1, <2>3, EmptySeq
  <2> HIDE DEF b, w, q
  <2>8. PartOf(q, w, 0)
    <3>1. \A i \in 1..(Len(w) - 1) : q[i] = w[i]
      BY <2>1, <2>3, <2>4, <2>5
    <3>2. w \in Seq(Entry) /\ Len(q) = Len(w)
      BY <2>3, <2>4
    <3>3. \/ q[Len(w)].session = 0
          \/ q[Len(w)].session = w[Len(w)].session /\ q[Len(w)].prev = w[Len(w)].prev
      BY <2>3, <2>4, <2>5, <2>6
    <3> HIDE DEF Good
    <3> QED
      BY <2>4, <2>7, <3>1, <3>2, <3>3, LastChanged
  <2>9. Chained(q) /\ \A i \in Entries(q) : \E n \in Entries(w) : q[i].session = w[n].session
    BY <2>3, <2>4, <2>8, PartIsChained
  <2>10. Good(q)
    BY <2>3, <2>4, <2>9
  <2> HIDE DEF Good
  <2> QED
    BY <2>10 DEF q, b
<1>4. \/ \E k \in 0..Len(j) : l = SubSeq(j, 1, k)
      \/ \E k \in 0..(Len(j) - 1) : \E c \in Cuts(j[k + 1]) : l = Append(SubSeq(j, 1, k), c)
  BY Zenon DEF Prefixes
<1>5. Good(l)
  <2> HIDE DEF Good
  <2>1. CASE \E k \in 0..Len(j) : l = SubSeq(j, 1, k)
    BY <1>2, <2>1
  <2>2. CASE \E k \in 0..(Len(j) - 1) : \E c \in Cuts(j[k + 1]) : l = Append(SubSeq(j, 1, k), c)
    BY <1>3, <2>2
  <2> QED
    BY <1>4, <2>1, <2>2
<1> QED
  BY <1>5

\* A session that is open has not ended.
LEMMA OpenNotEnded ==
  ASSUME TypeInv, StreamInv, NEW i \in DOMAIN log, OpenAt(log, i)
  PROVE  ~Ended(log, log[i].session)
<1>1. DOMAIN log = 1..Len(log) /\ Len(log) \in Nat
  BY RowFields DEF TypeInv, TypeOK
<1> SUFFICES ASSUME NEW k \in DOMAIN log, Is(log[k], "session_end", log[i].session)
             PROVE  FALSE
  BY DEF Ended
<1>2. PICK f \in 1..(k - 1) : Is(log[f], "session_start", log[k].session)
  BY DEF StreamInv, History, ClosedOnce, Is
<1>3. f \in DOMAIN log /\ log[f].session = log[i].session
      /\ log[f].event = "session_start" /\ log[i].event = "session_start"
  BY <1>1, <1>2 DEF Is, OpenAt
<1>4. f = i
  <2>1. ~(f < i) /\ ~(i < f)
    <3>1. \A x \in DOMAIN log : \A y \in DOMAIN log :
            /\ x < y
            /\ log[x].event = "session_start" /\ log[y].event = "session_start"
            => log[x].session < log[y].session
      <4>1. \A x \in DOMAIN log : \A y \in DOMAIN log : x < y => x \in 1..(y - 1)
        BY <1>1
      <4> QED
        BY <4>1 DEF StreamInv, History, SessionsNumberedInOrder
    <3>2. log[i].session \in Nat
      BY RowFields DEF TypeInv, TypeOK
    <3> QED
      BY <1>3, <3>1, <3>2
  <2> QED
    BY <1>1, <1>3, <2>1
<1>5. k > i
  BY <1>1, <1>2, <1>4
<1> QED
  BY <1>5 DEF OpenAt

-------------------------------------------------------------------------------
(* The journal, step by step.                                              *)

\* What has ended stays so.
LEMMA EndedStays ==
  ASSUME log \in Seq(Event), NEW e \in Event, Emit(e)
  PROVE  /\ \A s : Ended(log, s) => Ended(log', s)
         /\ e.event = "session_end" => Ended(log', e.session)
<1>1. /\ Len(log) \in Nat /\ DOMAIN log = 1..Len(log) /\ DOMAIN log' = 1..(Len(log) + 1)
      /\ \A i \in 1..Len(log) : log'[i] = log[i]
      /\ log'[Len(log) + 1] = e
  BY Appended
<1>2. \A i \in 1..Len(log) : i \in 1..(Len(log) + 1)
  BY <1>1
<1>3. Len(log) + 1 \in 1..(Len(log) + 1)
  BY <1>1
<1> QED
  BY <1>1, <1>2, <1>3 DEF Ended, Is

\* The session that is running is open, and the journal is behind it.
LEMMA JournalBehind ==
  ASSUME TypeInv, StreamInv, JournalInv, NEW o \in DOMAIN log, OpenAt(log, o)
  PROVE  /\ log[o].session > 0
         /\ \A i \in Entries(journal) : journal[i].session < log[o].session
<1>1. log[o].session \in Nat /\ log[o].session >= 1
  BY RowFields DEF TypeInv, TypeOK, OpenAt, StreamInv, History, SessionsNumberedInOrder
<1>2. ASSUME NEW i \in Entries(journal)
      PROVE  journal[i].session < log[o].session
  <2>1. journal[i].session \in Nat
    BY EntriesFacts DEF Entries, TypeInv, TypeOK
  <2>2. PICK k \in DOMAIN log : Is(log[k], "session_end", journal[i].session)
    BY DEF JournalInv, Ended
  <2>3. journal[i].session <= log[o].session
    BY <2>2 DEF Is, StreamInv, Known, OpenInv
  <2>4. journal[i].session /= log[o].session
    BY <2>2, OpenNotEnded DEF Ended
  <2> QED
    BY <1>1, <2>1, <2>3, <2>4
<1> QED
  BY <1>1, <1>2

\* The last entry is behind a number that every entry is behind.
LEMMA LastIsBehind ==
  ASSUME TypeInv, NEW s \in Nat, s > 0,
         \A i \in Entries(journal) : journal[i].session < s
  PROVE  LastEnded(journal) \in Nat /\ LastEnded(journal) < s
<1>1. /\ Entries(journal) \subseteq Nat /\ IsFiniteSet(Entries(journal))
      /\ LastEnded(journal) \in Nat
  BY EntriesFacts DEF TypeInv, TypeOK
<1>2. CASE Entries(journal) = {}
  BY <1>1, <1>2 DEF LastEnded
<1>3. CASE Entries(journal) /= {}
  BY <1>1, <1>3, HighestIsMax DEF LastEnded
<1> QED
  BY <1>1, <1>2, <1>3

\* A journal of sessions that have ended, chained.
Sound(j, l) == Chained(j) /\ \A i \in Entries(j) : Ended(l, j[i].session)

\* The journal that is about to be written.
LEMMA NextIsSound ==
  ASSUME TypeInv, StreamInv, JournalInv, Journaling
  PROVE  /\ NextJournal \in Seq(Entry) /\ Sound(NextJournal, log)
         /\ pc = "journaling" =>
              NextJournal[Len(NextJournal)] \in {Junk, Line(counter, prev)}
<1>1. journal \in Seq(Entry) /\ counter \in Nat /\ prev \in Nat /\ Sound(journal, log)
  BY DEF TypeInv, TypeOK, JournalInv, Sound
<1>2. CASE pc = "journaling"
  <2>1. counter > 0 /\ Ended(log, counter) /\ prev = LastEnded(journal)
        /\ \A i \in Entries(journal) : journal[i].session < counter
    BY <1>2 DEF JournalInv
  <2>2. prev < counter
    BY <1>1, <2>1, LastIsBehind
  <2>3. NextJournal = AppendEntry(journal, Line(counter, prev))
    BY <1>2 DEF NextJournal
  <2> DEFINE a == AppendEntry(journal, Line(counter, prev))
  <2>4. /\ a \in Seq(Entry) /\ Chained(a) /\ a[Len(a)] \in {Junk, Line(counter, prev)}
        /\ \A i \in Entries(a) :
             \/ a[i].session = counter
             \/ \E k \in Entries(journal) : a[i].session = journal[k].session
    BY <1>1, <2>1, <2>2, ChainedNext DEF Sound
  <2> HIDE DEF a
  <2>5. \A i \in Entries(a) : Ended(log, a[i].session)
    BY <1>1, <2>1, <2>4 DEF Sound
  <2>6. NextJournal = a
    BY <2>3 DEF a
  <2> QED
    BY <2>4, <2>5, <2>6 DEF Sound
<1>3. CASE pc = "journal_crashed"
  <2>1. CASE HasSession(journal, prev)
    <3>1. NextJournal = journal
      BY <1>3, <2>1 DEF NextJournal
    <3> QED
      BY <1>1, <1>3, <3>1
  <2>2. CASE ~HasSession(journal, prev)
    <3> DEFINE p == LastEnded(journal)
               a == AppendEntry(journal, Line(prev, p))
    <3>1. prev > 0 /\ Ended(log, prev) /\ \A i \in Entries(journal) : journal[i].session < prev
      BY <1>3 DEF JournalInv
    <3>2. p \in Nat /\ p < prev
      BY <1>1, <3>1, LastIsBehind
    <3>3. NextJournal = a
      BY <1>3, <2>2 DEF NextJournal
    <3>4. /\ a \in Seq(Entry) /\ Chained(a)
          /\ \A i \in Entries(a) :
               \/ a[i].session = prev
               \/ \E k \in Entries(journal) : a[i].session = journal[k].session
      <4> HIDE DEF p
      <4>1. p = LastEnded(journal)
        BY DEF p
      <4> QED
        BY <1>1, <3>1, <3>2, <4>1, ChainedNext DEF Sound
    <3> HIDE DEF a
    <3>5. \A i \in Entries(a) : Ended(log, a[i].session)
      BY <1>1, <3>1, <3>4 DEF Sound
    <3> QED
      BY <1>3, <3>3, <3>4, <3>5 DEF Sound
  <2> QED
    BY <2>1, <2>2
<1> QED
  BY <1>2, <1>3 DEF Journaling

\* Steps whose memory of the journal counts.
Minding == {"starting", "loop", "awaiting", "journaling", "journal_crashed", "schedule"}

LEMMA JournalStep ==
  ASSUME TypeInv, StreamInv, JournalInv, [Next]_vars
  PROVE  JournalInv'
<1>0. log \in Seq(Event) /\ Sound(journal, log)
  BY DEF TypeInv, TypeOK, JournalInv, Sound
<1>1. \A s : Ended(log, s) => Ended(log', s)
  BY <1>0, StepWrites, EndedStays
<1>2. ASSUME journal' = journal PROVE Sound(journal', log')
  BY <1>0, <1>1, <1>2 DEF Sound
<1>3. ASSUME journal' = journal, pc' \notin Minding
      PROVE  JournalInv'
  BY <1>2, <1>3 DEF JournalInv, Sound, Minding
<1>4. CASE Recover
  <2>1. CASE EmitPhantom
    BY <1>3, <2>1 DEF EmitPhantom, Minding
  <2>2. CASE CloseCrashed
    <3> DEFINE s == CrashedSession(log)
               e == EndRow(s, "crash", SessionCalls(log, s))
    <3>1. /\ pc' = "journal_crashed" /\ journal' = journal /\ prev' = s /\ Emit(e) /\ s /= 0
      BY <2>2 DEF CloseCrashed, Goto, StreamInv, Known, Synced, Folded
    <3>2. s \in Nat /\ SessionCalls(log, s) \in Nat
      BY <1>0, CrashedSessionIsOpen, CountsAreNat
    <3>3. e \in Event /\ e.event = "session_end" /\ e.session = s
      BY <3>2, RowTypes DEF EndRow, Row, Kinds, Reasons
    <3>4. PICK o \in DOMAIN log : OpenAt(log, o) /\ log[o].session = s
      <4>1. s \in OpenSessions(log)
        BY <1>0, <3>1, CrashedSessionIsOpen
      <4> QED
        BY <4>1 DEF OpenSessions, IsOpen, OpenAt, Is
    <3> HIDE DEF e, s
    <3>5. Ended(log', s)
      BY <1>0, <3>1, <3>3, EndedStays
    <3>6. s > 0 /\ \A i \in Entries(journal) : journal[i].session < s
      BY <3>4, JournalBehind
    <3> QED
      BY <1>2, <3>1, <3>5, <3>6 DEF JournalInv, Sound
  <2>3. CASE JournalCrashed
    <3>1. /\ pc = "journal_crashed" /\ pc' = "recovered" /\ log' = log
          /\ journal' = NextJournal
      BY <2>3 DEF JournalCrashed, Goto
    <3>2. Sound(NextJournal, log)
      BY <3>1, NextIsSound DEF Journaling
    <3> QED
      BY <3>1, <3>2 DEF JournalInv, Sound
  <2>4. CASE RefreshCache
    BY <1>3, <2>4 DEF RefreshCache, Exit, Minding
  <2> QED
    BY <1>4, <2>1, <2>2, <2>3, <2>4 DEF Recover
<1>5. CASE Boundary
  BY <1>3, <1>5
     DEF Boundary, BoundaryTrips, ClaimNumber, JournalRaises, Exit, Goto, durable, Minding
<1>6. CASE HarnessFails \/ Refused \/ ScheduleNext \/ Save
  BY <1>3, <1>6 DEF HarnessFails, Refused, ScheduleNext, Save, Exit, Goto, Minding
<1>7. CASE AbortEnd
  <2> DEFINE e == EndRow(counter, "errors", 0)
  <2>1. pc' = "schedule" /\ journal' = journal /\ Emit(e)
    BY <1>7 DEF AbortEnd, Goto
  <2>2. e \in Event /\ e.reason = "errors"
    BY RowTypes DEF EndRow, Row, Kinds, Reasons, TypeInv, TypeOK
  <2> HIDE DEF e
  <2>3. log'[Len(log')].reason = "errors"
    BY <1>0, <2>1, <2>2, Appended
  <2> QED
    BY <1>2, <2>1, <2>3 DEF JournalInv, Sound
<1>8. CASE Spawned
  <2>1. pc' = "starting" /\ journal' = journal /\ prev' = LastEnded(journal)
    BY <1>8 DEF Spawned, Goto, durable
  <2> QED
    BY <1>2, <2>1 DEF JournalInv, Sound
<1>9. CASE StartSession \/ Request \/ Answer
  <2>1. /\ pc \in {"starting", "loop", "awaiting"} /\ pc' \in {"loop", "awaiting"}
        /\ journal' = journal /\ prev' = prev
    BY <1>9 DEF StartSession, Request, Answer, Goto, memory
  <2> QED
    BY <1>2, <2>1 DEF JournalInv, Sound
<1>10. CASE EndSession
  <2> DEFINE e == EndRow(counter, "loop", calls)
  <2>1. /\ pc = "loop" /\ pc' = "journaling" /\ journal' = journal /\ prev' = prev
        /\ counter' = counter /\ Emit(e)
    BY <1>10 DEF EndSession, Goto, memory
  <2>2. e \in Event /\ e.event = "session_end" /\ e.session = counter
    BY RowTypes DEF EndRow, Row, Kinds, Reasons, TypeInv, TypeOK
  <2>3. PICK o \in DOMAIN log : OpenAt(log, o) /\ log[o].session = counter
    BY <2>1 DEF StreamInv, Known, OpenInv, Running
  <2> HIDE DEF e
  <2>4. Ended(log', counter)
    BY <1>0, <2>1, <2>2, EndedStays
  <2>5. counter > 0 /\ \A i \in Entries(journal) : journal[i].session < counter
    BY <2>3, JournalBehind
  <2>6. prev = LastEnded(journal)
    BY <2>1 DEF JournalInv
  <2> QED
    BY <1>2, <2>1, <2>4, <2>5, <2>6 DEF JournalInv, Sound
<1>11. CASE WriteJournal
  <2>1. /\ pc = "journaling" /\ pc' = "schedule" /\ log' = log /\ journal' = NextJournal
        /\ counter' = counter /\ prev' = prev
    BY <1>11 DEF WriteJournal, Goto, memory
  <2>2. /\ Sound(NextJournal, log)
        /\ NextJournal[Len(NextJournal)] \in {Junk, Line(counter, prev)}
    BY <2>1, NextIsSound DEF Journaling
  <2>3. journal'[Len(journal')] \in {Junk, Line(counter', prev')}
    BY <2>1, <2>2
  <2> QED
    BY <2>1, <2>2, <2>3 DEF JournalInv, Sound
<1>12. CASE CompleteRun
  BY <1>3, <1>12
     DEF CompleteRun, StopBooks, RevokeGrant, StopEnvironment, TearDown, Complete,
         PersistComplete, DisableSupervisor, Exit, Goto, Minding
<1>13. CASE ScheduledRun \/ ManualRun \/ EndRun
  BY <1>3, <1>13 DEF ScheduledRun, ManualRun, EndRun, Fold, durable, Minding
<1>14. CASE Crash
  <2>1. pc' = "idle" /\ log' = log
    BY <1>14 DEF Crash, Exit
  <2>2. \/ journal' = journal
        \/ Journaling /\ journal' \in Prefixes(NextJournal)
    BY <1>14 DEF Crash
  <2>3. CASE Journaling /\ journal' \in Prefixes(NextJournal)
    <3>1. NextJournal \in Seq(Entry) /\ Sound(NextJournal, log)
      BY <2>3, NextIsSound
    <3>2. /\ Chained(journal')
          /\ \A i \in Entries(journal') : \E k \in Entries(NextJournal) :
               journal'[i].session = NextJournal[k].session
      BY <2>3, <3>1, ChainedPrefix DEF Sound
    <3>3. \A i \in Entries(journal') : Ended(log', journal'[i].session)
      BY <2>1, <3>1, <3>2 DEF Sound
    <3> QED
      BY <2>1, <3>2, <3>3 DEF JournalInv
  <2> QED
    BY <1>3, <2>1, <2>2, <2>3 DEF Minding
<1>15. CASE WakeComesDue \/ RunExpires \/ UNCHANGED vars
  <2>1. /\ log' = log /\ pc' = pc /\ journal' = journal /\ prev' = prev /\ counter' = counter
    BY <1>15 DEF WakeComesDue, RunExpires, vars, durable, memory
  <2> QED
    BY <2>1 DEF JournalInv
<1> QED
  BY <1>4, <1>5, <1>6, <1>7, <1>8, <1>9, <1>10, <1>11, <1>12, <1>13, <1>14, <1>15
     DEF Next, Proceed, RunOneSession

-------------------------------------------------------------------------------
(* What is owed.                                                           *)

\* While the loop may ask, nothing is owed and the session is open.
LEMMA NothingOwed ==
  ASSUME TypeInv, StreamInv, OwedInv, pc = "loop"
  PROVE  /\ \A i \in DOMAIN log : ~Owing(log, i)
         /\ \E k \in DOMAIN log : OpenAt(log, k) /\ log[k].session = counter
<1>1. \E k \in DOMAIN log : OpenAt(log, k) /\ log[k].session = counter
  BY DEF StreamInv, Known, OpenInv, Running
<1>2. ASSUME NEW i \in DOMAIN log, Owing(log, i)
      PROVE  FALSE
  <2>1. PICK k \in DOMAIN log : OpenAt(log, k) /\ log[k].session = log[i].session
    BY <1>2 DEF OwedInv
  <2>2. log[k].session = counter
    BY <2>1 DEF StreamInv, Known, OpenInv, Running
  <2>3. Is(log[i], "llm_request", counter)
    BY <1>2, <2>1, <2>2 DEF Owing, Is
  <2> QED
    BY <1>2, <2>3 DEF Owing, StreamInv, Known, RequestInv, Running
<1> QED
  BY <1>1, <1>2

LEMMA OwedStep ==
  ASSUME TypeInv, StreamInv, StreamInv', OwedInv, [Next]_vars
  PROVE  OwedInv'
<1>0. log \in Seq(Event)
  BY DEF TypeInv, TypeOK
<1>1. CASE log' = log
  BY <1>1 DEF OwedInv, Owing, OpenAt, AnsweredAt
<1>2. ASSUME NEW e \in Event, Emit(e), Asks(e)
      PROVE  OwedInv'
  <2> DEFINE n == Len(log)
  <2>1. /\ n \in Nat /\ DOMAIN log = 1..n /\ DOMAIN log' = 1..(n + 1)
        /\ \A i \in 1..n : log'[i] = log[i]
        /\ log'[n + 1] = e
    BY <1>0, <1>2, Appended
  <2>2. /\ \A i \in DOMAIN log :
             OpenAt(log', i) <=>
               OpenAt(log, i) /\ ~Is(e, "session_end", log[i].session)
        /\ \A i \in DOMAIN log :
             AnsweredAt(log', i) <=>
               \/ AnsweredAt(log, i)
               \/ Is(e, "llm_call", log[i].session) /\ e.request_seq = log[i].request_seq
    BY <1>0, <1>2, AfterRow
  <2> HIDE DEF n
  <2>3. \A i \in 1..(n + 1) : i \in 1..n \/ i = n + 1
    BY <2>1
  <2>4. \A i \in 1..n : Owing(log', i) => Owing(log, i)
    BY <2>1, <2>2 DEF Owing
  <2>5. \A i \in 1..n : i \in 1..(n + 1)
    BY <2>1
  <2>6. CASE e.event /= "llm_request"
    <3>1. ~Owing(log', n + 1)
      BY <2>1, <2>6 DEF Owing
    <3>2. \A i \in 1..(n + 1), j \in 1..(n + 1) : Owing(log', i) /\ Owing(log', j) => i = j
      BY <2>1, <2>3, <2>4, <3>1 DEF OwedInv
    <3>3. ASSUME NEW i \in 1..(n + 1), Owing(log', i)
          PROVE  \E k \in 1..(n + 1) : OpenAt(log', k) /\ log'[k].session = log'[i].session
      <4>1. i \in 1..n /\ Owing(log, i)
        BY <2>3, <2>4, <3>1, <3>3
      <4>2. PICK k \in 1..n : OpenAt(log, k) /\ log[k].session = log[i].session
        BY <2>1, <4>1 DEF OwedInv
      <4>3. CASE Is(e, "session_end", log[i].session)
        <5>1. /\ log'[n + 1].event = "session_end" /\ n + 1 \in DOMAIN log'
              /\ i \in 1..((n + 1) - 1)
              /\ Is(log'[i], "llm_request", log'[n + 1].session)
          BY <2>1, <4>1, <4>3 DEF Is, Owing
        <5>2. PICK a \in (i + 1)..((n + 1) - 1) :
                /\ Is(log'[a], "llm_call", log'[n + 1].session)
                /\ log'[a].request_seq = log'[i].request_seq
          BY <5>1 DEF StreamInv, History, EveryRequestAccounted
        <5>3. a \in 1..n
          BY <2>1, <4>1, <5>2
        <5>4. AnsweredAt(log, i)
          BY <2>1, <4>1, <4>3, <5>2, <5>3 DEF AnsweredAt, Is
        <5> QED
          BY <4>1, <5>4 DEF Owing
      <4>4. CASE ~Is(e, "session_end", log[i].session)
        BY <2>1, <2>2, <2>5, <4>1, <4>2, <4>4
      <4> QED
        BY <4>3, <4>4
    <3> QED
      BY <2>1, <3>2, <3>3 DEF OwedInv
  <2>7. CASE e.event = "llm_request"
    <3>1. pc = "loop" /\ e.session = counter
      BY <1>2, <2>7 DEF Asks
    <3>2. \A i \in 1..n : ~Owing(log', i)
      BY <2>1, <2>4, <3>1, NothingOwed
    <3>3. PICK k \in 1..n : OpenAt(log, k) /\ log[k].session = counter
      BY <2>1, <3>1, NothingOwed
    <3>4. OpenAt(log', k) /\ log'[k].session = log'[n + 1].session
      BY <2>1, <2>2, <2>7, <3>1, <3>3 DEF Is
    <3>5. \A i \in 1..(n + 1) : Owing(log', i) => i = n + 1
      BY <2>3, <3>2
    <3> QED
      BY <2>1, <2>5, <3>4, <3>5 DEF OwedInv
  <2> QED
    BY <2>6, <2>7
<1> QED
  BY <1>1, <1>2, StepWrites

-------------------------------------------------------------------------------
(* The refinement.                                                         *)

OpenOf(l) == {l[i].session : i \in {k \in DOMAIN l : OpenAt(l, k)}}
AskedOf(l) ==
  {l[i].request_seq : i \in {k \in DOMAIN l :
     l[k].event = "llm_request" /\ l[k].session \in OpenOf(l)}}
OwedOf(l) ==
  {l[i].request_seq : i \in {k \in DOMAIN l :
     /\ l[k].event = "llm_request" /\ l[k].session \in OpenOf(l)
     /\ ~AnsweredAt(l, k)}}
StartedOf(l) == {l[i].session : i \in {k \in DOMAIN l : l[k].event = "session_start"}}

\* The refinement mapping, in terms of single rows.
LEMMA OpenMapping ==
  ASSUME NEW l \in Seq(Event)
  PROVE  {s \in SessionNumbers(l) : \E i \in DOMAIN l :
            /\ Is(l[i], "session_start", s)
            /\ ~\E j \in (i + 1)..Len(l) : Is(l[j], "session_end", s)} = OpenOf(l)
<1> DEFINE S == {s \in SessionNumbers(l) : \E i \in DOMAIN l :
                   /\ Is(l[i], "session_start", s)
                   /\ ~\E j \in (i + 1)..Len(l) : Is(l[j], "session_end", s)}
<1>1. Len(l) \in Nat /\ DOMAIN l = 1..Len(l)
  BY LenProperties
<1>2. ASSUME NEW i \in DOMAIN l
      PROVE  OpenAt(l, i) <=>
               /\ Is(l[i], "session_start", l[i].session)
               /\ ~\E j \in (i + 1)..Len(l) : Is(l[j], "session_end", l[i].session)
  <2>1. \A j : j \in (i + 1)..Len(l) <=> j \in DOMAIN l /\ j > i
    BY <1>1
  <2> QED
    BY <2>1 DEF OpenAt, Is
<1>3. ASSUME NEW s \in S
      PROVE  s \in OpenOf(l)
  <2>1. PICK i \in DOMAIN l :
          /\ Is(l[i], "session_start", s)
          /\ ~\E j \in (i + 1)..Len(l) : Is(l[j], "session_end", s)
    OBVIOUS
  <2>2. l[i].session = s
    BY <2>1 DEF Is
  <2> QED
    BY <1>2, <2>1, <2>2 DEF OpenOf
<1>4. ASSUME NEW s \in OpenOf(l)
      PROVE  s \in S
  <2>1. PICK i \in DOMAIN l : OpenAt(l, i) /\ l[i].session = s
    BY DEF OpenOf
  <2> QED
    BY <1>2, <2>1 DEF SessionNumbers
<1> QED
  BY <1>3, <1>4

LEMMA RequestMapping ==
  ASSUME NEW l \in Seq(Event)
  PROVE  /\ UNION {SeqsOf(l, "llm_request", s) : s \in OpenOf(l)} = AskedOf(l)
         /\ UNION {SeqsOf(l, "llm_request", s) \ SeqsOf(l, "llm_call", s) : s \in OpenOf(l)}
              = OwedOf(l)
<1>1. \A q, s : q \in SeqsOf(l, "llm_request", s) <=>
        \E i \in DOMAIN l : l[i].event = "llm_request" /\ l[i].session = s
                            /\ l[i].request_seq = q
  BY DEF SeqsOf, Is
<1>2. \A i \in DOMAIN l : AnsweredAt(l, i) <=>
        l[i].request_seq \in SeqsOf(l, "llm_call", l[i].session)
  BY DEF SeqsOf, AnsweredAt
<1> DEFINE A == UNION {SeqsOf(l, "llm_request", s) : s \in OpenOf(l)}
           W == UNION {SeqsOf(l, "llm_request", s) \ SeqsOf(l, "llm_call", s) : s \in OpenOf(l)}
<1>3. \A q : q \in A <=> \E s \in OpenOf(l) : q \in SeqsOf(l, "llm_request", s)
  OBVIOUS
<1>4. \A q : q \in W <=> \E s \in OpenOf(l) :
        q \in SeqsOf(l, "llm_request", s) /\ q \notin SeqsOf(l, "llm_call", s)
  OBVIOUS
<1>5. \A q : q \in AskedOf(l) <=> \E i \in DOMAIN l :
        l[i].event = "llm_request" /\ l[i].session \in OpenOf(l) /\ l[i].request_seq = q
  BY DEF AskedOf
<1>6. \A q : q \in OwedOf(l) <=> \E i \in DOMAIN l :
        /\ l[i].event = "llm_request" /\ l[i].session \in OpenOf(l)
        /\ ~AnsweredAt(l, i) /\ l[i].request_seq = q
  BY DEF OwedOf
<1> HIDE DEF A, W
<1>7. \A q : q \in A <=> q \in AskedOf(l)
  BY <1>1, <1>3, <1>5
<1>8. \A q : q \in W <=> q \in OwedOf(l)
  BY <1>1, <1>2, <1>4, <1>6
<1> QED
  BY <1>7, <1>8 DEF A, W

LEMMA NowIs ==
  ASSUME log \in Seq(Event)
  PROVE  /\ OpenNow = OpenOf(log) /\ AskedNow = AskedOf(log) /\ OwedNow = OwedOf(log)
         /\ StartedNow = StartedOf(log)
<1>1. OpenNow = OpenOf(log)
  BY OpenMapping DEF OpenNow
<1> QED
  BY <1>1, RequestMapping DEF AskedNow, OwedNow, StartedNow, StartedOf

LEMMA ThenIs ==
  ASSUME log' \in Seq(Event)
  PROVE  /\ OpenNow' = OpenOf(log') /\ AskedNow' = AskedOf(log') /\ OwedNow' = OwedOf(log')
         /\ StartedNow' = StartedOf(log')
<1>1. OpenNow' = OpenOf(log')
  BY OpenMapping DEF OpenNow
<1> QED
  BY <1>1, RequestMapping DEF AskedNow, OwedNow, StartedNow, StartedOf

\* One session is open at a time.
LEMMA OneOpen ==
  ASSUME TypeInv, StreamInv
  PROVE  \A s, t \in OpenOf(log) : s = t
<1>1. \A i \in DOMAIN log : log[i].session \in Nat
  BY RowFields DEF TypeInv, TypeOK
<1>2. \A i, k \in DOMAIN log : OpenAt(log, i) => log[k].session <= log[i].session
  BY DEF StreamInv, Known, OpenInv
<1> QED
  BY <1>1, <1>2 DEF OpenOf

\* What one more row changes of it.
LEMMA MappingOfRow ==
  ASSUME log \in Seq(Event), NEW e \in Event, Emit(e)
  PROVE  /\ e.event \notin {"session_start", "session_end"} => OpenOf(log') = OpenOf(log)
         /\ /\ e.event /= "llm_request"
            /\ OpenOf(log') = OpenOf(log)
            => AskedOf(log') = AskedOf(log)
         /\ /\ e.event \notin {"llm_request", "llm_call"}
            /\ OpenOf(log') = OpenOf(log)
            => OwedOf(log') = OwedOf(log)
         /\ e.event = "session_start" => StartedOf(log') = StartedOf(log) \cup {e.session}
         /\ e.event /= "session_start" => StartedOf(log') = StartedOf(log)
         /\ e.event /= "run_complete" => (RunOver(log') <=> RunOver(log))
<1> DEFINE n == Len(log)
<1>1. /\ n \in Nat /\ DOMAIN log = 1..n /\ DOMAIN log' = 1..(n + 1)
      /\ \A i \in 1..n : log'[i] = log[i]
      /\ log'[n + 1] = e
  BY Appended
<1>2. /\ \A i \in DOMAIN log :
           OpenAt(log', i) <=> OpenAt(log, i) /\ ~Is(e, "session_end", log[i].session)
      /\ OpenAt(log', n + 1) <=> e.event = "session_start"
      /\ \A i \in DOMAIN log :
           AnsweredAt(log', i) <=>
             \/ AnsweredAt(log, i)
             \/ Is(e, "llm_call", log[i].session) /\ e.request_seq = log[i].request_seq
  BY AfterRow
<1> HIDE DEF n
<1>3. \A i : i \in 1..(n + 1) <=> i \in 1..n \/ i = n + 1
  BY <1>1
<1>4. ASSUME e.event \notin {"session_start", "session_end"}
      PROVE  OpenOf(log') = OpenOf(log)
  <2>1. \A i \in 1..n : OpenAt(log', i) <=> OpenAt(log, i)
    BY <1>1, <1>2, <1>4 DEF Is
  <2>2. ~OpenAt(log', n + 1)
    BY <1>2, <1>4
  <2>3. \A s : s \in OpenOf(log') <=> s \in OpenOf(log)
    BY <1>1, <1>3, <2>1, <2>2 DEF OpenOf
  <2> QED
    BY <2>3
<1>5. ASSUME e.event /= "llm_request", OpenOf(log') = OpenOf(log)
      PROVE  AskedOf(log') = AskedOf(log)
  <2>1. \A q : q \in AskedOf(log') <=> q \in AskedOf(log)
    BY <1>1, <1>3, <1>5 DEF AskedOf
  <2> QED
    BY <2>1
<1>6. ASSUME e.event \notin {"llm_request", "llm_call"}, OpenOf(log') = OpenOf(log)
      PROVE  OwedOf(log') = OwedOf(log)
  <2>1. \A i \in 1..n : AnsweredAt(log', i) <=> AnsweredAt(log, i)
    BY <1>1, <1>2, <1>6 DEF Is
  <2>2. \A q : q \in OwedOf(log') <=> q \in OwedOf(log)
    BY <1>1, <1>3, <1>6, <2>1 DEF OwedOf
  <2> QED
    BY <2>2
<1>7. /\ e.event = "session_start" => StartedOf(log') = StartedOf(log) \cup {e.session}
      /\ e.event /= "session_start" => StartedOf(log') = StartedOf(log)
  <2>1. \A s : s \in StartedOf(log') <=>
          \/ s \in StartedOf(log)
          \/ e.event = "session_start" /\ s = e.session
    BY <1>1, <1>3 DEF StartedOf
  <2> QED
    BY <2>1
<1>8. e.event /= "run_complete" => (RunOver(log') <=> RunOver(log))
  BY <1>1, <1>3 DEF RunOver
<1> QED
  BY <1>4, <1>5, <1>6, <1>7, <1>8

\* The numbers of the sessions that have started are finitely many.
LEMMA StartedFinite ==
  ASSUME log \in Seq(Event)
  PROVE  IsFiniteSet(StartedOf(log))
<1>1. StartedOf(log) \subseteq SessionNumbers(log)
  BY DEF StartedOf, SessionNumbers
<1> QED
  BY <1>1, SessionNumbersFinite, FS_Subset

\* What stands before a row, in the stream that ends with it.
LEMMA RowOpens ==
  ASSUME TypeInv, StreamInv, StreamInv', NEW e \in Event, Emit(e),
         e.event = "session_start"
  PROVE  /\ OpenOf(log) = {} /\ OpenOf(log') = {e.session}
         /\ AskedOf(log) = {} /\ AskedOf(log') = {}
         /\ OwedOf(log) = {} /\ OwedOf(log') = {}
         /\ e.session \notin StartedOf(log)
         /\ ~RunOver(log)
<1> DEFINE n == Len(log)
<1>0. log \in Seq(Event)
  BY DEF TypeInv, TypeOK
<1>1. /\ n \in Nat /\ DOMAIN log = 1..n /\ DOMAIN log' = 1..(n + 1) /\ Len(log') = n + 1
      /\ \A i \in 1..n : log'[i] = log[i]
      /\ log'[n + 1] = e
  BY <1>0, Appended
<1>2. /\ \A i \in DOMAIN log :
           OpenAt(log', i) <=> OpenAt(log, i) /\ ~Is(e, "session_end", log[i].session)
      /\ OpenAt(log', n + 1)
  BY <1>0, AfterRow
<1> HIDE DEF n
<1>3. \A i : i \in 1..(n + 1) <=> i \in 1..n \/ i = n + 1
  BY <1>1
<1>4. \A i \in 1..n : i \in 1..((n + 1) - 1) /\ i /= n + 1
  BY <1>1
<1>5. n + 1 \in 1..(n + 1)
  BY <1>1
<1>6. e.session \in Nat /\ \A i \in 1..n : log[i].session \in Nat
  BY <1>0, <1>1, RowFields DEF Event
<1>7. /\ e.session >= 1
      /\ \A i \in 1..n : log[i].event = "session_start" => log[i].session < e.session
  BY <1>1, <1>4, <1>5 DEF StreamInv, History, SessionsNumberedInOrder
<1>8. ASSUME NEW i \in 1..n, OpenAt(log, i)
      PROVE  FALSE
  <2>1. log[i].event = "session_start"
    BY <1>8 DEF OpenAt
  <2>2. PICK k \in (i + 1)..((n + 1) - 1) : Is(log'[k], "session_end", log'[i].session)
    BY <1>1, <1>4, <1>5, <2>1 DEF StreamInv, History, SessionsDoNotOverlap
  <2>3. k \in 1..n /\ k > i
    BY <1>1, <2>2
  <2>4. Is(log[k], "session_end", log[i].session)
    BY <1>1, <2>2, <2>3
  <2> QED
    BY <1>1, <1>8, <2>3, <2>4 DEF OpenAt
<1>9. OpenOf(log) = {}
  BY <1>1, <1>8 DEF OpenOf
<1>10. OpenOf(log') = {e.session}
  <2>1. \A s : s \in OpenOf(log') <=> s = e.session
    BY <1>1, <1>2, <1>3, <1>8 DEF OpenOf
  <2> QED
    BY <2>1
<1>11. AskedOf(log) = {} /\ OwedOf(log) = {}
  BY <1>9 DEF AskedOf, OwedOf
<1>12. ASSUME NEW i \in 1..n, log[i].session = e.session
       PROVE  FALSE
  <2>1. e.session \in 1..log[i].session
    BY <1>6, <1>7, <1>12
  <2>2. PICK j \in 1..i : Is(log[j], "session_start", e.session)
    BY <1>1, <2>1 DEF StreamInv, History, Dense
  <2>3. j \in 1..n
    BY <1>1, <2>2
  <2> QED
    BY <1>6, <1>7, <2>2, <2>3 DEF Is
<1>13. AskedOf(log') = {} /\ OwedOf(log') = {}
  BY <1>1, <1>3, <1>10, <1>12 DEF AskedOf, OwedOf
<1>14. e.session \notin StartedOf(log)
  BY <1>1, <1>12 DEF StartedOf
<1>15. ~RunOver(log)
  BY <1>1, <1>3, <1>4 DEF RunOver, StreamInv, History, RunCompleteIsFinal
<1> QED
  BY <1>9, <1>10, <1>11, <1>13, <1>14, <1>15

LEMMA RowAsks ==
  ASSUME TypeInv, StreamInv, StreamInv', OwedInv, NEW e \in Event, Emit(e),
         e.event = "llm_request", Asks(e)
  PROVE  /\ OpenOf(log) /= {}
         /\ e.request_seq \notin AskedOf(log)
         /\ AskedOf(log') = AskedOf(log) \cup {e.request_seq}
         /\ OwedOf(log) = {} /\ OwedOf(log') = {e.request_seq}
<1> DEFINE n == Len(log)
           q == e.request_seq
<1>0. log \in Seq(Event) /\ pc = "loop" /\ e.session = counter /\ q = seq + 1 /\ seq \in Nat
  BY DEF TypeInv, TypeOK, Asks
<1>1. /\ n \in Nat /\ DOMAIN log = 1..n /\ DOMAIN log' = 1..(n + 1) /\ Len(log') = n + 1
      /\ \A i \in 1..n : log'[i] = log[i]
      /\ log'[n + 1] = e
  BY <1>0, Appended
<1>2. \A i \in DOMAIN log : AnsweredAt(log', i) <=> AnsweredAt(log, i)
  BY <1>0, AfterRow DEF Is
<1>3. \A i : i \in 1..(n + 1) <=> i \in 1..n \/ i = n + 1
  BY <1>1
<1>4. OpenOf(log') = OpenOf(log)
  BY <1>0, MappingOfRow
<1> HIDE DEF n, q
<1>5. OpenOf(log) = {counter}
  <2>1. counter \in OpenOf(log)
    BY <1>0, NothingOwed DEF OpenOf
  <2> QED
    BY <2>1, OneOpen
<1>6. \A i \in 1..n : Is(log[i], "llm_request", counter) =>
        log[i].request_seq <= seq /\ AnsweredAt(log, i)
  BY <1>0, <1>1 DEF StreamInv, Known, RequestInv, Running
<1>7. \A i \in 1..n : log[i].request_seq \in Nat
  BY <1>0, <1>1, RowFields
<1>8. q \notin AskedOf(log)
  BY <1>0, <1>1, <1>5, <1>6, <1>7 DEF AskedOf, Is
<1>9. AskedOf(log') = AskedOf(log) \cup {q}
  <2>1. \A p : p \in AskedOf(log') <=> p \in AskedOf(log) \/ p = q
    BY <1>0, <1>1, <1>3, <1>4, <1>5 DEF AskedOf, q
  <2> QED
    BY <2>1
<1>10. OwedOf(log) = {}
  BY <1>1, <1>5, <1>6 DEF OwedOf, Is
<1>11. ~AnsweredAt(log', n + 1)
  <2> SUFFICES ASSUME NEW k \in 1..(n + 1), Is(log'[k], "llm_call", counter),
                      log'[k].request_seq = q
               PROVE  FALSE
    BY <1>0, <1>1 DEF AnsweredAt, q
  <2>1. k \in 1..n
    BY <1>1, <1>3 DEF Is
  <2>2. PICK i \in 1..(k - 1) : /\ Is(log[i], "llm_request", counter)
                                /\ log[i].request_seq = log[k].request_seq
    BY <1>1, <2>1 DEF StreamInv, History, CallsPairOnce, Is
  <2>3. i \in 1..n
    BY <1>1, <2>1, <2>2
  <2> QED
    BY <1>0, <1>1, <1>6, <1>7, <2>1, <2>2, <2>3
<1>12. OwedOf(log') = {q}
  <2>1. \A p : p \in OwedOf(log') <=> p = q
    BY <1>0, <1>1, <1>2, <1>3, <1>4, <1>5, <1>6, <1>11 DEF OwedOf, Is, q
  <2> QED
    BY <2>1
<1> QED
  BY <1>5, <1>8, <1>9, <1>10, <1>12 DEF q

LEMMA RowSettles ==
  ASSUME TypeInv, StreamInv, StreamInv', OwedInv, NEW e \in Event, Emit(e),
         e.event = "llm_call"
  PROVE  OwedOf(log) /= {} /\ OwedOf(log') = {}
<1> DEFINE n == Len(log)
<1>0. log \in Seq(Event)
  BY DEF TypeInv, TypeOK
<1>1. /\ n \in Nat /\ DOMAIN log = 1..n /\ DOMAIN log' = 1..(n + 1) /\ Len(log') = n + 1
      /\ \A i \in 1..n : log'[i] = log[i]
      /\ log'[n + 1] = e
  BY <1>0, Appended
<1>2. \A i \in DOMAIN log :
        AnsweredAt(log', i) <=>
          \/ AnsweredAt(log, i)
          \/ Is(e, "llm_call", log[i].session) /\ e.request_seq = log[i].request_seq
  BY <1>0, AfterRow
<1> HIDE DEF n
<1>3. \A i : i \in 1..(n + 1) <=> i \in 1..n \/ i = n + 1
  BY <1>1
<1>4. \A i : i \in 1..((n + 1) - 1) <=> i \in 1..n
  BY <1>1
<1>5. /\ \E i \in 1..n : /\ Is(log[i], "llm_request", e.session)
                         /\ log[i].request_seq = e.request_seq
      /\ \A i \in 1..n : Is(log[i], "llm_call", e.session) =>
           log[i].request_seq /= e.request_seq
  <2>1. n + 1 \in DOMAIN log' /\ log'[n + 1].event = "llm_call"
    BY <1>1
  <2>2. /\ \E i \in 1..((n + 1) - 1) : /\ Is(log'[i], "llm_request", log'[n + 1].session)
                                       /\ log'[i].request_seq = log'[n + 1].request_seq
        /\ \A i \in 1..((n + 1) - 1) : Is(log'[i], "llm_call", log'[n + 1].session) =>
             log'[i].request_seq /= log'[n + 1].request_seq
    BY <2>1 DEF StreamInv, History, CallsPairOnce
  <2> QED
    BY <1>1, <1>4, <2>2
<1>6. PICK i \in 1..n : /\ Is(log[i], "llm_request", e.session)
                        /\ log[i].request_seq = e.request_seq
  BY <1>5
<1>7. Owing(log, i)
  BY <1>1, <1>5, <1>6 DEF Owing, AnsweredAt, Is
<1>8. log[i].session \in OpenOf(log)
  BY <1>1, <1>7 DEF OwedInv, OpenOf
<1>9. OwedOf(log) /= {}
  BY <1>1, <1>7, <1>8 DEF OwedOf, Owing
<1>10. ASSUME NEW k \in 1..(n + 1), log'[k].event = "llm_request", ~AnsweredAt(log', k)
       PROVE  FALSE
  <2>1. k \in 1..n
    BY <1>1, <1>3, <1>10
  <2>2. Owing(log, k)
    BY <1>1, <1>2, <1>10, <2>1 DEF Owing
  <2>3. k = i
    BY <1>1, <1>7, <2>1, <2>2 DEF OwedInv
  <2> QED
    BY <1>1, <1>2, <1>6, <1>10, <2>3 DEF Is
<1>11. OwedOf(log') = {}
  BY <1>1, <1>10 DEF OwedOf
<1> QED
  BY <1>9, <1>11

LEMMA RowCloses ==
  ASSUME TypeInv, StreamInv, StreamInv', NEW e \in Event, Emit(e),
         e.event = "session_end"
  PROVE  /\ OpenOf(log) /= {} /\ OpenOf(log') = {}
         /\ AskedOf(log') = {}
         /\ OwedOf(log) = {} /\ OwedOf(log') = {}
<1> DEFINE n == Len(log)
<1>0. log \in Seq(Event)
  BY DEF TypeInv, TypeOK
<1>1. /\ n \in Nat /\ DOMAIN log = 1..n /\ DOMAIN log' = 1..(n + 1) /\ Len(log') = n + 1
      /\ \A i \in 1..n : log'[i] = log[i]
      /\ log'[n + 1] = e
  BY <1>0, Appended
<1>2. /\ \A i \in DOMAIN log :
           OpenAt(log', i) <=> OpenAt(log, i) /\ ~Is(e, "session_end", log[i].session)
      /\ ~OpenAt(log', n + 1)
  BY <1>0, AfterRow
<1> HIDE DEF n
<1>3. \A i : i \in 1..(n + 1) <=> i \in 1..n \/ i = n + 1
  BY <1>1
<1>4. \A i : i \in 1..((n + 1) - 1) <=> i \in 1..n
  BY <1>1
<1>5. n + 1 \in DOMAIN log' /\ log'[n + 1].event = "session_end"
  BY <1>1
<1>6. /\ \E i \in 1..n : Is(log[i], "session_start", e.session)
      /\ \A i \in 1..n : ~Is(log[i], "session_end", e.session)
  <2>1. /\ \E i \in 1..((n + 1) - 1) : Is(log'[i], "session_start", log'[n + 1].session)
        /\ \A i \in 1..((n + 1) - 1) : ~Is(log'[i], "session_end", log'[n + 1].session)
    BY <1>5 DEF StreamInv, History, ClosedOnce
  <2> QED
    BY <1>1, <1>4, <2>1
<1>7. e.session \in OpenOf(log)
  <2>1. PICK i \in 1..n : Is(log[i], "session_start", e.session)
    BY <1>6
  <2>2. OpenAt(log, i)
    BY <1>1, <1>6, <2>1 DEF OpenAt, Is
  <2> QED
    BY <1>1, <2>1, <2>2 DEF OpenOf, Is
<1>8. OpenOf(log') = {}
  <2>1. \A i \in 1..n : OpenAt(log, i) => log[i].session = e.session
    BY <1>1, <1>7, OneOpen DEF OpenOf
  <2>2. \A i \in 1..n : ~OpenAt(log', i)
    BY <1>1, <1>2, <2>1 DEF Is
  <2>3. \A i \in DOMAIN log' : ~OpenAt(log', i)
    BY <1>1, <1>2, <1>3, <2>2
  <2> QED
    BY <2>3 DEF OpenOf
<1>9. AskedOf(log') = {} /\ OwedOf(log') = {}
  BY <1>8 DEF AskedOf, OwedOf
<1>10. ASSUME NEW i \in 1..n, log[i].event = "llm_request", log[i].session \in OpenOf(log)
       PROVE  AnsweredAt(log, i)
  <2>1. log[i].session = e.session
    BY <1>7, <1>10, OneOpen
  <2>2. Is(log'[i], "llm_request", log'[n + 1].session) /\ i \in 1..((n + 1) - 1)
    BY <1>1, <1>4, <1>10, <2>1 DEF Is
  <2>3. PICK k \in (i + 1)..((n + 1) - 1) :
          /\ Is(log'[k], "llm_call", log'[n + 1].session)
          /\ log'[k].request_seq = log'[i].request_seq
    BY <1>5, <2>2 DEF StreamInv, History, EveryRequestAccounted
  <2>4. k \in 1..n
    BY <1>1, <2>3
  <2> QED
    BY <1>1, <2>1, <2>3, <2>4 DEF AnsweredAt
<1>11. OwedOf(log) = {}
  BY <1>1, <1>10 DEF OwedOf
<1> QED
  BY <1>7, <1>8, <1>9, <1>11

LEMMA RowFinishes ==
  ASSUME TypeInv, StreamInv, StreamInv', NEW e \in Event, Emit(e),
         e.event = "run_complete"
  PROVE  OpenOf(log) = {} /\ ~RunOver(log) /\ RunOver(log')
<1> DEFINE n == Len(log)
<1>0. log \in Seq(Event)
  BY DEF TypeInv, TypeOK
<1>1. /\ n \in Nat /\ DOMAIN log = 1..n /\ DOMAIN log' = 1..(n + 1) /\ Len(log') = n + 1
      /\ \A i \in 1..n : log'[i] = log[i]
      /\ log'[n + 1] = e
  BY <1>0, Appended
<1>2. \A i \in 1..n : i \in 1..(n + 1) /\ i /= n + 1
  BY <1>1
<1>3. RunOver(log')
  BY <1>0, OverStays
<1>4. ~RunOver(log)
  BY <1>1, <1>2 DEF RunOver, StreamInv, History, RunCompleteIsFinal
<1>5. \A i \in DOMAIN log' : ~OpenAt(log', i)
  BY <1>3 DEF StreamInv, Known, OverInv
<1>6. OpenOf(log') = {}
  BY <1>5 DEF OpenOf
<1>7. OpenOf(log') = OpenOf(log)
  BY <1>0, MappingOfRow
<1> QED
  BY <1>3, <1>4, <1>6, <1>7

LEMMA LedgerInit == Init => Ledger!Init
<1> SUFFICES ASSUME Init PROVE Ledger!Init
  OBVIOUS
<1>1. log = <<>> /\ DOMAIN log = {} /\ log \in Seq(Event)
  BY EmptySeq DEF Init
<1>2. OpenOf(log) = {} /\ AskedOf(log) = {} /\ OwedOf(log) = {} /\ StartedOf(log) = {}
  BY <1>1 DEF OpenOf, AskedOf, OwedOf, StartedOf
<1>3. OpenNow = {} /\ AskedNow = {} /\ OwedNow = {} /\ StartedNow = {}
  BY <1>1, <1>2, NowIs
<1>4. Cardinality(StartedNow) = 0
  BY <1>3, FS_EmptySet
<1> QED
  BY <1>1, <1>3, <1>4 DEF Ledger!Init

LEMMA LedgerStep ==
  TypeInv /\ TypeInv' /\ StreamInv /\ StreamInv' /\ OwedInv /\ [Next]_vars
    => [Ledger!Next]_Ledger!vars
<1> SUFFICES ASSUME TypeInv, TypeInv', StreamInv, StreamInv', OwedInv, [Next]_vars
             PROVE  Ledger!Next \/ UNCHANGED Ledger!vars
  BY DEF Ledger!vars
<1>0. log \in Seq(Event) /\ log' \in Seq(Event)
  BY DEF TypeInv, TypeOK
<1>1. /\ OpenNow = OpenOf(log) /\ AskedNow = AskedOf(log) /\ OwedNow = OwedOf(log)
      /\ StartedNow = StartedOf(log)
      /\ OpenNow' = OpenOf(log') /\ AskedNow' = AskedOf(log') /\ OwedNow' = OwedOf(log')
      /\ StartedNow' = StartedOf(log')
  BY <1>0, NowIs, ThenIs
<1> DEFINE Over == \E i \in DOMAIN log : log[i].event = "run_complete"
<1>2. Over = RunOver(log) /\ Over' = RunOver(log')
  BY DEF RunOver
<1>3. CASE log' = log
  BY <1>1, <1>3 DEF Ledger!vars
<1>4. ASSUME NEW e \in Event, Emit(e), Asks(e)
      PROVE  Ledger!Next \/ UNCHANGED Ledger!vars
  <2>0. /\ e.event \notin {"session_start", "session_end"} => OpenNow' = OpenNow
        /\ e.event /= "llm_request" /\ OpenNow' = OpenNow => AskedNow' = AskedNow
        /\ e.event \notin {"llm_request", "llm_call"} /\ OpenNow' = OpenNow
             => OwedNow' = OwedNow
        /\ e.event /= "session_start" => StartedNow' = StartedNow
        /\ e.event /= "run_complete" => Over' = Over
    BY <1>0, <1>1, <1>2, <1>4, MappingOfRow
  <2>1. CASE e.event = "session_start"
    <3>1. /\ OpenNow = {} /\ OpenNow' /= {} /\ AskedNow' = AskedNow /\ OwedNow' = OwedNow
          /\ ~Over /\ Over' = Over
      BY <1>1, <1>2, <1>4, <2>0, <2>1, RowOpens
    <3>2. Cardinality(StartedNow') = Cardinality(StartedNow) + 1
      <4>1. StartedOf(log') = StartedOf(log) \cup {e.session}
        BY <1>0, <1>4, <2>1, MappingOfRow
      <4>2. e.session \notin StartedOf(log)
        BY <1>4, <2>1, RowOpens
      <4> QED
        BY <1>0, <1>1, <4>1, <4>2, StartedFinite, FS_AddElement
    <3>3. Ledger!Open
      BY <3>1, <3>2 DEF Ledger!Open
    <3> QED
      BY <3>3 DEF Ledger!Next
  <2>2. CASE e.event = "llm_request"
    <3>1. /\ OpenNow /= {} /\ OpenNow' = OpenNow
          /\ e.request_seq \notin AskedNow /\ AskedNow' = AskedNow \cup {e.request_seq}
          /\ OwedNow = {} /\ OwedNow' = {e.request_seq}
          /\ StartedNow' = StartedNow /\ Over' = Over
      BY <1>1, <1>4, <2>0, <2>2, RowAsks
    <3>2. e.request_seq \in 1..MaxRequests
      <4>1. seq \in Nat /\ MaxRequests \in Nat
        BY BoundsAssumption DEF TypeInv, TypeOK
      <4>2. e.request_seq = seq + 1 /\ seq < MaxRequests
        BY <1>4, <2>2 DEF Asks
      <4> QED
        BY <4>1, <4>2
    <3>3. Ledger!Ask(e.request_seq)
      BY <3>1 DEF Ledger!Ask
    <3> QED
      BY <3>2, <3>3 DEF Ledger!Next
  <2>3. CASE e.event = "llm_call"
    <3>1. /\ OwedNow /= {} /\ OwedNow' = {} /\ OpenNow' = OpenNow /\ AskedNow' = AskedNow
          /\ StartedNow' = StartedNow /\ Over' = Over
      BY <1>1, <1>4, <2>0, <2>3, RowSettles
    <3>2. Ledger!Settle
      BY <3>1 DEF Ledger!Settle
    <3> QED
      BY <3>2 DEF Ledger!Next
  <2>4. CASE e.event = "session_end"
    <3>1. /\ OpenNow /= {} /\ OpenNow' = {} /\ AskedNow' = {} /\ OwedNow = {} /\ OwedNow' = {}
          /\ StartedNow' = StartedNow /\ Over' = Over
      BY <1>1, <1>4, <2>0, <2>4, RowCloses
    <3>2. Ledger!Close
      BY <3>1 DEF Ledger!Close
    <3> QED
      BY <3>2 DEF Ledger!Next
  <2>5. CASE e.event = "run_complete"
    <3>1. /\ OpenNow = {} /\ OpenNow' = OpenNow /\ AskedNow' = AskedNow /\ OwedNow' = OwedNow
          /\ StartedNow' = StartedNow /\ ~Over /\ Over'
      BY <1>1, <1>2, <1>4, <2>0, <2>5, RowFinishes
    <3>2. Ledger!Finish
      BY <3>1 DEF Ledger!Finish
    <3> QED
      BY <3>2 DEF Ledger!Next
  <2>6. CASE e.event \notin {"session_start", "llm_request", "llm_call", "session_end",
                             "run_complete"}
    <3>1. /\ OpenNow' = OpenNow /\ AskedNow' = AskedNow /\ OwedNow' = OwedNow
          /\ StartedNow' = StartedNow /\ Over' = Over
      BY <2>0, <2>6
    <3> QED
      BY <3>1 DEF Ledger!vars
  <2> QED
    BY <2>1, <2>2, <2>3, <2>4, <2>5, <2>6
<1> QED
  BY <1>3, <1>4, StepWrites

-------------------------------------------------------------------------------
(* The theorems.                                                           *)

LEMMA AccountsInit == Init => AccountsInv /\ JournalInv /\ OwedInv
<1> SUFFICES ASSUME Init PROVE AccountsInv /\ JournalInv /\ OwedInv
  OBVIOUS
<1>1. /\ log = <<>> /\ DOMAIN log = {} /\ journal = <<>> /\ DOMAIN journal = {}
      /\ pc = "idle" /\ calls = 0 /\ cache = [counter |-> 0, status |-> "running"]
  BY DEF Init
<1>2. AccountsInv
  BY <1>1 DEF AccountsInv, TotalsAgree, NoSessionPastBudget, CacheAgreesWithStream, CallsInv,
              FoldedCallsInv, ClaimInv, CacheInv, Unreadable, TearingDown, Claiming
<1>3. JournalInv
  BY <1>1 DEF JournalInv, Chained, Entries
<1>4. OwedInv
  BY <1>1 DEF OwedInv
<1> QED
  BY <1>2, <1>3, <1>4

\* What the rows add up to, what the cache and the journal say and what is
\* owed is an invariant, given what the stream is known to hold.
THEOREM AccountsInvariant == Spec => [](AccountsInv /\ JournalInv /\ OwedInv)
<1> DEFINE Inv == AccountsInv /\ JournalInv /\ OwedInv
<1>1. AccountsInv <=> Sums /\ CacheOK
  BY DEF AccountsInv, Sums, CacheOK
<1>2. AccountsInv' <=> Sums' /\ CacheOK'
  BY DEF AccountsInv, Sums, CacheOK
<1>3. TypeInv /\ StreamInv /\ StreamInv' /\ Inv /\ [Next]_vars => Inv'
  BY <1>1, <1>2, SumsStep, CacheStep, JournalStep, OwedStep
<1>4. Spec => []TypeInv
  BY TypeInit, TypeStep, PTL DEF Spec
<1> QED
  BY <1>3, <1>4, AccountsInit, StreamInvariant, PTL DEF Spec

\* The totals of every session_end and of run_complete are those of the rows
\* before them, phantoms and free calls included.
THEOREM Totals == Spec => []TotalsAgree
<1>1. AccountsInv => TotalsAgree
  BY DEF AccountsInv
<1> QED
  BY AccountsInvariant, <1>1, PTL

\* The overshoot of the budget is that of one session: none starts past it.
THEOREM OvershootIsOneSession == Spec => []NoSessionPastBudget
<1>1. AccountsInv => NoSessionPastBudget
  BY DEF AccountsInv
<1> QED
  BY AccountsInvariant, <1>1, PTL

\* state.json says "complete" only of a completed run, and says what the
\* stream says as long as no process has died.
THEOREM CacheIsTrue == Spec => []CacheAgreesWithStream
<1>1. AccountsInv => CacheAgreesWithStream
  BY DEF AccountsInv
<1> QED
  BY AccountsInvariant, <1>1, PTL

\* The journal's gaps add up, however often it was rolled, cut short or
\* written by recovery.
THEOREM JournalIsChained == Spec => []JournalInOrder
<1>1. TypeInv /\ JournalInv => JournalInOrder
  <2> SUFFICES ASSUME TypeInv, JournalInv PROVE JournalInOrder
    OBVIOUS
  <2>1. Entries(journal) \subseteq Nat /\ IsFiniteSet(Entries(journal))
    BY EntriesFacts DEF TypeInv, TypeOK
  <2>2. ASSUME NEW i \in Entries(journal), {k \in Entries(journal) : k < i} /= {}
        PROVE  journal[i].prev = journal[Highest({k \in Entries(journal) : k < i})].session
    <3> DEFINE before == {k \in Entries(journal) : k < i}
    <3>1. before \subseteq Nat /\ IsFiniteSet(before)
      BY <2>1, FS_Subset
    <3>2. Highest(before) \in before /\ \A k \in before : k <= Highest(before)
      <4> HIDE DEF before
      <4> QED
        BY <2>2, <3>1, HighestIsMax DEF before
    <3>3. Adjacent(journal, Highest(before), i)
      <4>1. ASSUME NEW k \in Entries(journal), Highest(before) < k, k < i
            PROVE  FALSE
        <5>1. k \in before
          BY <4>1
        <5>2. k <= Highest(before) /\ k \in Nat /\ Highest(before) \in Nat
          BY <3>1, <3>2, <5>1
        <5> QED
          BY <4>1, <5>2
      <4> QED
        BY <3>2, <4>1 DEF Adjacent
    <3> QED
      BY <3>2, <3>3 DEF JournalInv, Chained
  <2> QED
    BY <2>2 DEF JournalInOrder, JournalInv, Chained
<1>2. Spec => []TypeInv
  BY TypeInit, TypeStep, PTL DEF Spec
<1> QED
  BY AccountsInvariant, <1>1, <1>2, PTL

\* Crashes, recoveries, refusals and teardowns are invisible in the stream: it
\* is a ledger of one session at a time.
THEOREM StreamIsALedger == Spec => LedgerSpec
<1>1. Spec => []TypeInv
  BY TypeInit, TypeStep, PTL DEF Spec
<1> QED
  BY <1>1, LedgerInit, LedgerStep, StreamInvariant, AccountsInvariant, PTL
     DEF Spec, LedgerSpec, Ledger!Spec

-------------------------------------------------------------------------------
(* A session is, to its run, what ModelCalls says of it.                   *)

InLoop == pc \in {"loop", "awaiting"}

LoopCalls == INSTANCE ModelCalls WITH
  Max <- MaxRequests,
  at <- CASE pc = "awaiting" -> "awaiting"
          [] pc = "loop" -> "loop"
          [] OTHER -> "ended"

\* What is left of one invocation's loop does not reach the next one, and no
\* session asks more than it may.
SeqInv ==
  /\ pc \in BeforeLoop => seq = 0
  /\ pc \in {"loop", "awaiting"} => seq <= MaxRequests

LEMMA SeqInvariant == Spec => []SeqInv
<1>1. Init => SeqInv
  BY DEF Init, SeqInv
<1>2. ASSUME TypeInv, SeqInv, [Next]_vars PROVE SeqInv'
  <2> seq \in Nat /\ MaxRequests \in Nat
    BY <1>2, BoundsAssumption DEF TypeInv, TypeOK
  <2> USE DEF SeqInv, BeforeLoop, Unrecovered, Folded, Claiming
  <2>1. CASE Request \/ Answer \/ EndSession \/ AbortEnd \/ HarnessFails \/ StartSession
    BY <1>2, <2>1 DEF Request, Answer, EndSession, AbortEnd, HarnessFails, StartSession,
                      Goto, memory
  <2>2. CASE Crash \/ Save \/ DisableSupervisor
    BY <2>2 DEF Crash, Save, DisableSupervisor, Exit
  <2>3. CASE EmitPhantom \/ CloseCrashed \/ JournalCrashed \/ RefreshCache
    BY <1>2, <2>3 DEF EmitPhantom, CloseCrashed, JournalCrashed, RefreshCache, Goto, Exit
  <2>4. CASE BoundaryTrips \/ ClaimNumber \/ JournalRaises
    BY <1>2, <2>4 DEF BoundaryTrips, ClaimNumber, JournalRaises, Goto, memory, Exit
  <2>5. CASE Refused \/ Spawned \/ WriteJournal \/ ScheduleNext
    BY <1>2, <2>5 DEF Refused, Spawned, WriteJournal, ScheduleNext, Goto, memory
  <2>6. CASE StopBooks \/ RevokeGrant \/ StopEnvironment \/ Complete \/ PersistComplete
    BY <1>2, <2>6 DEF StopBooks, RevokeGrant, StopEnvironment, TearDown, Complete,
                      PersistComplete, Goto, memory
  <2>7. CASE ScheduledRun \/ ManualRun \/ EndRun
    BY <1>2, <2>7 DEF ScheduledRun, ManualRun, EndRun, Fold
  <2>8. CASE WakeComesDue \/ RunExpires \/ UNCHANGED vars
    BY <1>2, <2>8 DEF WakeComesDue, RunExpires, vars, memory
  <2> QED
    BY <1>2, <2>1, <2>2, <2>3, <2>4, <2>5, <2>6, <2>7, <2>8
       DEF Next, Proceed, Recover, Boundary, RunOneSession, CompleteRun
<1>3. Spec => []TypeInv
  BY TypeInit, TypeStep, PTL DEF Spec
<1> QED
  BY <1>1, <1>2, <1>3, PTL DEF Spec

LEMMA LoopStep ==
  ASSUME SeqInv, CallsInv, [Next]_vars
  PROVE  /\ ~InLoop /\ InLoop' => LoopCalls!Init'
         /\ InLoop /\ pc' /= "idle" => [LoopCalls!Next]_LoopCalls!vars
<1>1. CASE StartSession
  <2>1. pc = "starting" /\ pc' = "loop" /\ UNCHANGED <<seq, calls>>
    BY <1>1 DEF StartSession, Goto, memory
  <2>2. seq = 0 /\ calls = 0
    BY <2>1 DEF SeqInv, CallsInv, BeforeLoop, Claiming
  <2> QED
    BY <2>1, <2>2 DEF InLoop, LoopCalls!Init
<1>2. CASE Request
  <2>1. LoopCalls!Request
    BY <1>2 DEF Request, Goto, LoopCalls!Request
  <2> QED
    BY <1>2, <2>1 DEF Request, Goto, InLoop, LoopCalls!Next
<1>3. CASE Answer
  <2>1. LoopCalls!Answer
    BY <1>3 DEF Answer, Goto, LoopCalls!Answer
  <2> QED
    BY <1>3, <2>1 DEF Answer, Goto, InLoop, LoopCalls!Next
<1>4. CASE EndSession
  <2>1. LoopCalls!EndSession
    BY <1>4 DEF EndSession, Goto, memory, LoopCalls!EndSession
  <2> QED
    BY <1>4, <2>1 DEF EndSession, Goto, InLoop, LoopCalls!Next
<1>5. CASE WakeComesDue \/ RunExpires \/ UNCHANGED vars
  BY <1>5 DEF WakeComesDue, RunExpires, vars, memory, InLoop, LoopCalls!vars
<1>6. CASE pc' = "idle" \/ (~InLoop /\ ~InLoop')
  BY <1>6 DEF InLoop
<1>7. StartSession \/ Request \/ Answer \/ EndSession \/ WakeComesDue \/ RunExpires
        \/ UNCHANGED vars \/ pc' = "idle" \/ (~InLoop /\ ~InLoop')
  <2>1. CASE Recover \/ Boundary
    BY <2>1 DEF Recover, Boundary, EmitPhantom, CloseCrashed, JournalCrashed,
                RefreshCache, BoundaryTrips, ClaimNumber, JournalRaises, Goto, Exit,
                InLoop
  <2>2. CASE HarnessFails \/ AbortEnd \/ Refused \/ Spawned \/ WriteJournal \/ ScheduleNext
    BY <2>2 DEF HarnessFails, AbortEnd, Refused, Spawned, WriteJournal, ScheduleNext,
                Goto, InLoop
  <2>3. CASE CompleteRun
    BY <2>3 DEF CompleteRun, StopBooks, RevokeGrant, StopEnvironment, TearDown, Complete,
                PersistComplete, DisableSupervisor, Goto, Exit, InLoop
  <2>4. CASE Crash \/ Save \/ ScheduledRun \/ ManualRun \/ EndRun
    BY <2>4 DEF Crash, Save, ScheduledRun, ManualRun, EndRun, Fold, Exit, InLoop
  <2>5. CASE StartSession \/ Request \/ Answer \/ EndSession \/ WakeComesDue
             \/ RunExpires \/ UNCHANGED vars
    BY <2>5
  <2> QED
    BY <2>1, <2>2, <2>3, <2>4, <2>5 DEF Next, Proceed, RunOneSession
<1> QED
  BY <1>1, <1>2, <1>3, <1>4, <1>5, <1>6, <1>7

\* Whatever crashed before it, a session begins with nothing asked, and until it
\* ends or its process dies the run sees of it what ModelCalls says, which is
\* what AgentLoop implements (runner.py, _run_one_session; loop.py, _call_model).
THEOREM SessionsAreModelCalls ==
  Spec => [][/\ ~InLoop /\ InLoop' => LoopCalls!Init'
             /\ InLoop /\ pc' /= "idle" => [LoopCalls!Next]_LoopCalls!vars]_vars
<1>1. AccountsInv => CallsInv
  BY DEF AccountsInv
<1> QED
  BY <1>1, LoopStep, SeqInvariant, AccountsInvariant, PTL DEF Spec

-------------------------------------------------------------------------------
(* An invocation has no endless run.                                       *)

LEMMA PhantomsFinite ==
  ASSUME NEW l \in Seq(Event), NEW s
  PROVE  IsFiniteSet(PhantomRequests(l, s))
<1> DEFINE T == {l[i].request_seq : i \in 1..Len(l)}
           f == [i \in 1..Len(l) |-> l[i].request_seq]
<1>1. f \in Surjection(1..Len(l), T)
  BY DEF Surjection
<1>2. Len(l) \in Nat /\ DOMAIN l = 1..Len(l)
  BY RowFields
<1>3. PhantomRequests(l, s) \subseteq T
  BY <1>2 DEF PhantomRequests, SeqsOf
<1> HIDE DEF T, f
<1>4. IsFiniteSet(T)
  BY <1>1, <1>2, FS_Interval, FS_Surjection
<1> QED
  BY <1>3, <1>4, FS_Subset

\* A completed phantom is one no longer, and its session is still the one to
\* recover.
OneLess(l, s, l2) ==
  \A q \in PhantomRequests(l, s) : l2 = Append(l, CallRow(s, q, 0)) =>
    /\ CrashedSession(l2) = s
    /\ PhantomRequests(l2, s) = PhantomRequests(l, s) \ {q}

LEMMA OnePhantomLess ==
  ASSUME NEW l \in Seq(Event), NEW s \in Nat, s = CrashedSession(l), NEW l2
  PROVE  OneLess(l, s, l2)
<1> SUFFICES ASSUME NEW q \in PhantomRequests(l, s), l2 = Append(l, CallRow(s, q, 0))
             PROVE  /\ CrashedSession(l2) = s
                    /\ PhantomRequests(l2, s) = PhantomRequests(l, s) \ {q}
  BY DEF OneLess
<1> DEFINE e == CallRow(s, q, 0)
           n == Len(l)
<1>1. q \in Nat
  BY PhantomType
<1>2. /\ e \in Event
      /\ e.event = "llm_call" /\ e.session = s /\ e.request_seq = q
  BY <1>1, RowTypes DEF CallRow, Row, Kinds, Reasons
<1> HIDE DEF e
<1>3. /\ n \in Nat /\ DOMAIN l = 1..n /\ DOMAIN l2 = 1..(n + 1)
      /\ \A i \in 1..n : l2[i] = l[i]
      /\ l2[n + 1] = e
  <2>1. l2 = Append(l, e)
    BY DEF e
  <2>2. /\ l2 \in Seq(Event) /\ Len(l2) = n + 1
        /\ \A i \in 1..n : l2[i] = l[i]
        /\ l2[n + 1] = e
    BY <1>2, <2>1, AppendProperties
  <2> QED
    BY <2>2, RowFields
<1>4. \A i \in 1..(n + 1) : i \in 1..n \/ i = n + 1
  BY <1>3
<1>5. \A x : IsOpen(l2, x) <=> IsOpen(l, x)
  <2>1. ASSUME NEW x, IsOpen(l, x) PROVE IsOpen(l2, x)
    <3>1. PICK i \in 1..n : /\ Is(l[i], "session_start", x)
                            /\ \A j \in 1..n : j > i => ~Is(l[j], "session_end", x)
      BY <1>3, <2>1 DEF IsOpen
    <3>2. i \in 1..(n + 1) /\ Is(l2[i], "session_start", x)
      BY <1>3, <3>1
    <3>3. ASSUME NEW j \in 1..(n + 1), j > i PROVE ~Is(l2[j], "session_end", x)
      BY <1>2, <1>3, <1>4, <3>1, <3>3 DEF Is
    <3> QED
      BY <1>3, <3>2, <3>3 DEF IsOpen
  <2>2. ASSUME NEW x, IsOpen(l2, x) PROVE IsOpen(l, x)
    <3>1. PICK i \in 1..(n + 1) : /\ Is(l2[i], "session_start", x)
                                  /\ \A j \in 1..(n + 1) : j > i => ~Is(l2[j], "session_end", x)
      BY <1>3, <2>2 DEF IsOpen
    <3>2. i \in 1..n
      BY <1>2, <1>3, <1>4, <3>1 DEF Is
    <3>3. Is(l[i], "session_start", x)
      BY <1>3, <3>1, <3>2
    <3>4. ASSUME NEW j \in 1..n, j > i PROVE ~Is(l[j], "session_end", x)
      BY <1>3, <3>1, <3>4
    <3> QED
      BY <1>3, <3>2, <3>3, <3>4 DEF IsOpen
  <2> QED
    BY <2>1, <2>2
<1>6. \A k \in {l, l2} : \A x : IsOpen(k, x) => x \in SessionNumbers(k)
  BY DEF IsOpen, SessionNumbers, Is
<1>7. OpenSessions(l2) = OpenSessions(l)
  BY <1>5, <1>6 DEF OpenSessions
<1>8. CrashedSession(l2) = s
  BY <1>7 DEF CrashedSession
<1>9. SeqsOf(l2, "llm_request", s) = SeqsOf(l, "llm_request", s)
  BY <1>2, <1>3, <1>4 DEF SeqsOf, Is
<1>10. SeqsOf(l2, "llm_call", s) = SeqsOf(l, "llm_call", s) \cup {q}
  <2>1. ASSUME NEW i \in 1..(n + 1), Is(l2[i], "llm_call", s)
        PROVE  l2[i].request_seq \in SeqsOf(l, "llm_call", s) \cup {q}
    BY <1>2, <1>3, <1>4, <2>1 DEF SeqsOf
  <2>2. ASSUME NEW i \in 1..n, Is(l[i], "llm_call", s)
        PROVE  l[i].request_seq \in SeqsOf(l2, "llm_call", s)
    <3>1. i \in DOMAIN l2 /\ Is(l2[i], "llm_call", s) /\ l2[i].request_seq = l[i].request_seq
      BY <1>3, <2>2
    <3> QED
      BY <3>1 DEF SeqsOf
  <2>3. q \in SeqsOf(l2, "llm_call", s)
    <3>1. n + 1 \in DOMAIN l2 /\ Is(l2[n + 1], "llm_call", s) /\ l2[n + 1].request_seq = q
      BY <1>2, <1>3 DEF Is
    <3> QED
      BY <3>1 DEF SeqsOf
  <2>4. SeqsOf(l2, "llm_call", s) \subseteq SeqsOf(l, "llm_call", s) \cup {q}
    BY <1>3, <2>1 DEF SeqsOf
  <2>5. SeqsOf(l, "llm_call", s) \subseteq SeqsOf(l2, "llm_call", s)
    BY <1>3, <2>2 DEF SeqsOf
  <2> QED
    BY <2>3, <2>4, <2>5
<1>11. PhantomRequests(l2, s) = PhantomRequests(l, s) \ {q}
  BY <1>9, <1>10 DEF PhantomRequests
<1> QED
  BY <1>8, <1>11

\* The steps of an invocation, counted down.
Stage ==
  CASE pc = "folded" -> 18
    [] pc = "journal_crashed" -> 17
    [] pc = "recovered" -> 16
    [] pc = "boundary" -> 15
    [] pc = "claimed" -> 14
    [] pc = "starting" -> 13
    [] pc \in {"loop", "awaiting"} -> 12
    [] pc = "abort_end" -> 11
    [] pc = "journaling" -> 10
    [] pc = "schedule" -> 9
    [] pc = "stop_all" -> 8
    [] pc = "revoke" -> 7
    [] pc = "stop_env" -> 6
    [] pc = "complete" -> 5
    [] pc = "persist" -> 4
    [] pc = "disable" -> 3
    [] pc = "save" -> 2
    [] OTHER -> 0

\* What is left of the recovery's phantoms, or of the session's requests.
Left ==
  CASE pc = "folded" -> Cardinality(PhantomRequests(events, CrashedSession(events)))
    [] pc = "loop" -> 2 * (MaxRequests - seq) + 1
    [] pc = "awaiting" -> 2 * (MaxRequests - seq) + 2
    [] OTHER -> 0

Passing == (IF due THEN 0 ELSE 1) + (IF expired THEN 0 ELSE 1)

Measure == <<Stage, Left, Passing, 0>>
GoesDown == <<Measure', Measure>> \in Sooner


Measured == Stage \in Nat /\ Left \in Nat /\ Passing \in Nat

LEMMA MeasureIsNatural == TypeInv /\ SeqInv => Measured
<1> SUFFICES ASSUME TypeInv, SeqInv PROVE Measured
  OBVIOUS
<1>1. Stage \in Nat
  BY DEF Stage
<1>2. Passing \in Nat
  BY DEF Passing
<1>3. Cardinality(PhantomRequests(events, CrashedSession(events))) \in Nat
  BY PhantomsFinite, FS_CardinalityType DEF TypeInv, TypeOK
<1>4. pc \in {"loop", "awaiting"} => MaxRequests - seq \in Nat
  BY BoundsAssumption DEF TypeInv, TypeOK, SeqInv
<1>5. Left \in Nat
  BY <1>3, <1>4 DEF Left
<1> QED
  BY <1>1, <1>2, <1>5 DEF Measured

LEMMA InvocationStep ==
  ASSUME TypeInv, TypeInv', SeqInv, SeqInv', pc /= "idle", Next
  PROVE  GoesDown
<1>0. Measured
  BY MeasureIsNatural
<1>b. Measured'
  <2>1. TypeInv' /\ SeqInv' => Measured'
    BY MeasureIsNatural, PTL
  <2> QED
    BY <2>1
<1>c. pc \in {"folded", "journal_crashed", "recovered", "boundary",
             "claimed", "starting", "loop", "awaiting", "journaling",
             "abort_end", "schedule", "save", "stop_all", "revoke",
             "stop_env", "complete", "persist", "disable"}
  BY DEF TypeInv, TypeOK
<1>1. ASSUME \/ Stage' < Stage
             \/ Stage' = Stage /\ Left' < Left
             \/ Stage' = Stage /\ Left' = Left /\ Passing' < Passing
      PROVE  GoesDown
  <2>1. <<<<Stage', Left', Passing', 0>>, <<Stage, Left, Passing, 0>>>> \in Sooner
    <3>1. 0 \in Nat
      OBVIOUS
    <3> QED
      BY <1>0, <1>b, <1>1, <3>1, SoonerOf, ZenonT(30) DEF Measured
  <2> QED
    BY <2>1 DEF GoesDown, Measure
<1>2. ASSUME pc' = "idle" PROVE GoesDown
  <2>1. Stage' < Stage
    BY <1>2, <1>c DEF Stage
  <2> QED
    BY <1>1, <2>1
<1>3. CASE EmitPhantom
  <2> DEFINE s == CrashedSession(events)
             P == PhantomRequests(events, s)
  <2>1. PICK q \in P : events' = Append(events, CallRow(s, q, 0))
    BY <1>3 DEF EmitPhantom
  <2>2. pc = "folded" /\ pc' = "folded" /\ s /= 0 /\ events \in Seq(Event)
    BY <1>3 DEF EmitPhantom, TypeInv, TypeOK
  <2>3. s \in Nat
    BY <2>2, CrashedSessionIsOpen
  <2>4. CrashedSession(events') = s /\ PhantomRequests(events', s) = P \ {q}
    <3>1. s = CrashedSession(events) /\ P = PhantomRequests(events, s)
      OBVIOUS
    <3> HIDE DEF s, P
    <3>2. OneLess(events, s, events')
      BY <2>2, <2>3, <3>1, OnePhantomLess
    <3> QED
      BY <2>1, <3>1, <3>2 DEF OneLess
  <2>5. IsFiniteSet(P) /\ Cardinality(P) \in Nat
    BY <2>2, PhantomsFinite, FS_CardinalityType
  <2>6. Cardinality(P \ {q}) = Cardinality(P) - 1
    <3> HIDE DEF P
    <3> QED
      BY <2>1, <2>5, FS_RemoveElement
  <2>7. Left = Cardinality(P) /\ Left' = Cardinality(P \ {q})
    BY <2>2, <2>4 DEF Left
  <2>8. Left' < Left
    BY <2>5, <2>6, <2>7
  <2>9. Stage' = Stage
    BY <2>2 DEF Stage
  <2> QED
    BY <1>1, <2>8, <2>9
<1>4. ASSUME \/ pc = "folded" /\ pc' \in {"journal_crashed", "boundary", "stop_all"}
             \/ pc = "journal_crashed" /\ pc' = "recovered"
             \/ pc = "recovered" /\ pc' \in {"boundary", "stop_all"}
             \/ pc = "boundary" /\ pc' \in {"stop_all", "claimed"}
             \/ pc = "claimed" /\ pc' \in {"abort_end", "save", "starting"}
             \/ pc = "starting" /\ pc' = "loop"
             \/ pc = "loop" /\ pc' = "journaling"
             \/ pc = "abort_end" /\ pc' = "schedule"
             \/ pc = "journaling" /\ pc' = "schedule"
             \/ pc = "schedule" /\ pc' = "save"
             \/ pc = "stop_all" /\ pc' = "revoke"
             \/ pc = "revoke" /\ pc' = "stop_env"
             \/ pc = "stop_env" /\ pc' = "complete"
             \/ pc = "complete" /\ pc' = "persist"
             \/ pc = "persist" /\ pc' = "disable"
      PROVE  GoesDown
  <2>1. Stage' < Stage
    BY <1>4 DEF Stage
  <2> QED
    BY <1>1, <2>1
<1>5. CASE CloseCrashed \/ JournalCrashed \/ RefreshCache
  BY <1>2, <1>4, <1>5 DEF CloseCrashed, JournalCrashed, RefreshCache, Goto, Exit
<1>6. CASE Boundary
  BY <1>2, <1>4, <1>6 DEF Boundary, BoundaryTrips, ClaimNumber, JournalRaises, Goto, Exit
<1>7. CASE HarnessFails \/ AbortEnd \/ Refused \/ Spawned \/ StartSession \/ EndSession
           \/ WriteJournal \/ ScheduleNext \/ Save
  BY <1>2, <1>4, <1>7 DEF HarnessFails, AbortEnd, Refused, Spawned, StartSession,
                          EndSession, WriteJournal, ScheduleNext, Save, Goto, Exit
<1>8. CASE CompleteRun
  BY <1>2, <1>4, <1>8 DEF CompleteRun, StopBooks, RevokeGrant, StopEnvironment, TearDown,
                          Complete, PersistComplete, DisableSupervisor, Goto, Exit
<1>9. CASE Request \/ Answer
  <2>1. /\ seq \in Nat /\ MaxRequests \in Nat
        /\ \/ pc = "loop" /\ pc' = "awaiting" /\ seq' = seq + 1
           \/ pc = "awaiting" /\ pc' = "loop" /\ seq' = seq
    BY <1>9, BoundsAssumption DEF Request, Answer, Goto, TypeInv, TypeOK
  <2>2. Stage' = Stage
    BY <2>1 DEF Stage
  <2>3. Left' < Left
    BY <2>1 DEF Left
  <2> QED
    BY <1>1, <2>2, <2>3
<1>10. CASE WakeComesDue \/ RunExpires
  <2>1. /\ pc' = pc /\ events' = events /\ seq' = seq
        /\ \/ ~due /\ due' = TRUE /\ UNCHANGED expired
           \/ ~expired /\ expired' = TRUE /\ UNCHANGED due
    BY <1>10 DEF WakeComesDue, RunExpires, memory
  <2>2. Stage' = Stage /\ Left' = Left
    BY <2>1 DEF Stage, Left
  <2>3. Passing' < Passing
    BY <2>1 DEF Passing
  <2> QED
    BY <1>1, <2>2, <2>3
<1>11. CASE Crash
  BY <1>2, <1>11 DEF Crash, Exit
<1>12. ~(ScheduledRun \/ ManualRun \/ EndRun)
  BY DEF ScheduledRun, ManualRun, EndRun, Fold
<1> QED
  BY <1>3, <1>5, <1>6, <1>7, <1>8, <1>9, <1>10, <1>11, <1>12
     DEF Next, Proceed, Recover, RunOneSession

\* No invocation goes on for ever, however many requests a dead one left
\* unanswered: every step takes it down an order without endless descent, and
\* recovery takes up each phantom once (runner.py, run_session, end_run and
\* _recover; state.py, phantom_requests).
THEOREM NoEndlessInvocation ==
  /\ IsWellFoundedOn(Sooner, Quadruples)
  /\ Spec => [][pc /= "idle" => GoesDown]_vars
<1>1. TypeInv /\ TypeInv' /\ SeqInv /\ SeqInv' /\ [Next]_vars
        => [pc /= "idle" => GoesDown]_vars
  BY InvocationStep
<1>2. Spec => []TypeInv
  BY TypeInit, TypeStep, PTL DEF Spec
<1>3. Spec => [][pc /= "idle" => GoesDown]_vars
  BY <1>1, <1>2, SeqInvariant, PTL DEF Spec
<1> QED
  BY <1>3, SoonerIsWellFounded

=============================================================================
