--------------------------- MODULE RunLifecycleInv ----------------------------
(***************************************************************************)
(* The inductive invariant behind the stream properties of RunLifecycle.   *)
(* None of those properties is inductive: whether a start may follow       *)
(* depends on what the invocation found, and that on what every invocation *)
(* before it may have left.  StreamInv says what the process knows in each *)
(* step (pc) of the stream it is about to append to.                       *)
(***************************************************************************)
EXTENDS RunLifecycle

\* Row i opens a session that no later row closes.
OpenAt(l, i) ==
  /\ l[i].event = "session_start"
  /\ \A j \in DOMAIN l : j > i => ~Is(l[j], "session_end", l[i].session)

\* The request of row i has its llm_call.
AnsweredAt(l, i) ==
  \E k \in DOMAIN l :
    /\ Is(l[k], "llm_call", l[i].session)
    /\ l[k].request_seq = l[i].request_seq

\* Steps in which a session is running, and those before any recovery.
Running == {"loop", "awaiting", "abort_end"}
Unrecovered == {"idle", "folded"}
\* Steps in which the claimed number has no row yet.
Claiming == {"claimed", "starting"}
\* Steps that read the folded rows.
Folded == {"folded", "journal_crashed", "recovered", "boundary"}

\* The last session number that has a row.
Used == IF pc \in Claiming THEN counter - 1 ELSE counter

\* The fold's list is the stream.
Synced == pc \in Folded => events = log

\* A row of session n comes after the start of every session up to n.
Dense ==
  \A i \in DOMAIN log : \A n \in 1..log[i].session :
    \E j \in 1..i : Is(log[j], "session_start", n)

\* The counter in memory is the highest session number of the stream, or the
\* one after it while a number is claimed.
CounterInv ==
  pc /= "idle" =>
    /\ pc \in Claiming => counter >= 1
    /\ \A i \in DOMAIN log : log[i].session <= Used
    /\ \A n \in 1..Used : \E i \in DOMAIN log : Is(log[i], "session_start", n)

\* An open session is the last of the stream; a running one is the
\* process's own; past recovery none is open otherwise.
OpenInv ==
  /\ \A i \in DOMAIN log : OpenAt(log, i) =>
       /\ \A k \in DOMAIN log : log[k].session <= log[i].session
       /\ pc \in Unrecovered \cup Running
       /\ pc \in Running => log[i].session = counter
  /\ pc \in Running =>
       \E i \in DOMAIN log : OpenAt(log, i) /\ log[i].session = counter

\* A request number is used once in its session.
RequestsOnce ==
  \A i, j \in DOMAIN log :
    /\ log[i].event = "llm_request"
    /\ Is(log[j], "llm_request", log[i].session)
    /\ log[i].request_seq = log[j].request_seq
    => i = j

\* Of the running session's requests only the one being awaited is
\* unanswered.
RequestInv ==
  /\ pc \in Running =>
       \A i \in DOMAIN log : Is(log[i], "llm_request", counter) =>
         /\ log[i].request_seq <= seq
         /\ \/ AnsweredAt(log, i)
            \/ pc = "awaiting" /\ log[i].request_seq = seq
  /\ pc = "awaiting" =>
       \E i \in DOMAIN log :
         /\ Is(log[i], "llm_request", counter)
         /\ log[i].request_seq = seq
         /\ ~AnsweredAt(log, i)

\* A completed run is left alone.
OverInv ==
  RunOver(log) =>
    /\ pc \in Unrecovered \cup {"persist", "disable"}
    /\ \A i \in DOMAIN log : ~OpenAt(log, i)

\* What the stream satisfies, whoever reads it.
History ==
  /\ Dense
  /\ SessionsNumberedInOrder
  /\ ClosedOnce
  /\ SessionsDoNotOverlap
  /\ RequestsOnce
  /\ CallsPairOnce
  /\ EveryRequestAccounted
  /\ RunCompleteIsFinal

\* What the process knows of the stream in each step.
Known == Synced /\ CounterInv /\ OpenInv /\ RequestInv /\ OverInv

StreamInv == History /\ Known

-------------------------------------------------------------------------------
(* What the rows add up to.                                                *)

\* Steps before the session has asked anything, and those of the teardown.
BeforeLoop == Unrecovered \cup Folded \cup Claiming
TearingDown == {"stop_all", "revoke", "stop_env", "complete"}

\* The loop's own count of its calls is that of the rows.
CallsInv ==
  /\ pc \in BeforeLoop => calls = 0
  /\ pc \in {"loop", "awaiting"} => calls = SessionCalls(log, counter)
  /\ pc = "abort_end" => SessionCalls(log, counter) = 0

\* The teardown adds no call to what was folded.
FoldedCallsInv == pc \in TearingDown => TotalCalls(events) = TotalCalls(log)

\* Between the boundary and the first row of the session nothing is spent.
ClaimInv == pc \in Claiming => Spent(log) < Budget

\* A process that is done with the cache has left it right.
CacheInv ==
  /\ pc \in {"persist", "disable"} => RunOver(log)
  /\ pc = "disable" => cache = [counter |-> counter, status |-> "complete"]
  /\ crashes = 0 => ~Unreadable(journal)

AccountsInv ==
  /\ TotalsAgree /\ NoSessionPastBudget /\ CacheAgreesWithStream
  /\ CallsInv /\ FoldedCallsInv /\ ClaimInv /\ CacheInv

-------------------------------------------------------------------------------
(* What the journal says.                                                  *)

\* Next to each other, but for lines that say nothing.
Adjacent(j, a, b) ==
  /\ a \in Entries(j) /\ b \in Entries(j) /\ a < b
  /\ \A k \in Entries(j) : ~(a < k /\ k < b)

Chained(j) ==
  /\ \A i \in Entries(j) : j[i].prev < j[i].session
  /\ \A a, b \in Entries(j) : Adjacent(j, a, b) => j[b].prev = j[a].session

Ended(l, s) == \E k \in DOMAIN l : Is(l[k], "session_end", s)

\* What is in the journal has ended, and is behind the session that comes next.
JournalInv ==
  /\ Chained(journal)
  /\ \A i \in Entries(journal) : Ended(log, journal[i].session)
  /\ pc \in {"starting", "loop", "awaiting", "journaling"} => prev = LastEnded(journal)
  /\ pc = "journaling" =>
       counter > 0 /\ Ended(log, counter) /\ \A i \in Entries(journal) : journal[i].session < counter
  /\ pc = "journal_crashed" =>
       prev > 0 /\ Ended(log, prev) /\ \A i \in Entries(journal) : journal[i].session < prev
  /\ pc = "schedule" /\ log[Len(log)].reason = "loop" =>
       journal[Len(journal)] \in {Junk, Line(counter, prev)}

-------------------------------------------------------------------------------
(* What is owed to the ledger.                                             *)

Owing(l, i) == l[i].event = "llm_request" /\ ~AnsweredAt(l, i)

\* One request at most has no llm_call, and its session is open.
OwedInv ==
  /\ \A i, j \in DOMAIN log : Owing(log, i) /\ Owing(log, j) => i = j
  /\ \A i \in DOMAIN log : Owing(log, i) =>
       \E k \in DOMAIN log : OpenAt(log, k) /\ log[k].session = log[i].session

===============================================================================
