----------------------------- MODULE RunLifecycle -----------------------------
(***************************************************************************)
(* The lifecycle of one run directory: runner.py `run_session` and         *)
(* `end_run`, over the files they share across invocations.                *)
(*                                                                         *)
(* One process at a time is modelled here (module RunLock models the lock  *)
(* that is meant to make it so).  Every action is one durable write, or    *)
(* one decision between two of them, so a crash falls between any two      *)
(* writes the code makes.  What survives a crash is `log`, `journal`,      *)
(* `cache` and `cron`; everything else is the memory of the invocation.    *)
(*                                                                         *)
(* Abstracted: what the model said and what the tools did inside a session *)
(* (module AgentLoop), the rows that carry it (tool_call of the agent,     *)
(* workspace_write, shell_state of a session, keeper_tx), transcripts, and *)
(* money: a billed call costs one unit.  The clock is two facts: `due`,    *)
(* whether the last next_wake_at has passed, and `expired`, whether t_max  *)
(* has passed since the first session.                                     *)
(***************************************************************************)
EXTENDS Integers, Sequences, FiniteSets

CONSTANTS
  MaxSessions,  \* bound: sessions a run may start
  MaxRequests,  \* bound: model requests of one session (AgentLoop derives it)
  MaxCrashes,   \* bound: invocations that die
  MaxRefusals,  \* bound: attempts refused at the pairing check
  Budget,       \* budget_usd, in billed calls
  JournalMax,   \* journal_max_bytes, in entries
  TornWrites,   \* may a crash leave a line of the stream half written?
  TornJournal   \* may it leave the journal half rewritten?

ASSUME BoundsAssumption ==
  /\ MaxSessions \in Nat
  /\ MaxRequests \in Nat
  /\ MaxCrashes \in Nat
  /\ MaxRefusals \in Nat
  /\ Budget \in Nat
  /\ JournalMax \in Nat
  /\ TornWrites \in BOOLEAN /\ TornJournal \in BOOLEAN

VARIABLES
  log,      \* telemetry.jsonl, the complete lines of it
  torn,     \* the file ends in a partial line
  journal,  \* journal/sessions.jsonl
  cache,    \* state.json
  cron,     \* is the supervisor entry in the crontab?
  due,      \* clock() >= next_wake_at of the last schedule_next
  expired,  \* clock() - first_session_at >= t_max
  crashes,  \* history: invocations that died
  pc,       \* where the current invocation is; "idle" when there is none
  job,      \* "run" (run-session) or "end" (end-run)
  events,   \* the invocation's own list of rows: the fold's input
  counter,  \* state.session_counter in memory
  why,      \* the reason run_complete will carry
  seq,      \* AgentLoop._request_seq
  calls,    \* AgentLoop._llm_calls
  prev      \* previous_journal_end: the session the elapsed figure is from

durable == <<log, torn, journal, cache, cron>>
clock   == <<due, expired>>
memory  == <<job, events, counter, why, seq, calls, prev>>
vars    == <<durable, clock, crashes, pc, memory>>

-------------------------------------------------------------------------------
(* The stream and what the fold reads out of it (state.py).                *)

Kinds == {"session_start", "llm_request", "llm_call", "session_end",
          "schedule_next", "session_refused", "tool_call", "shell_state",
          "run_complete"}
Reasons == {"none", "loop", "errors", "crash", "budget", "t_max", "manual"}

Event == [event: Kinds, session: Nat, request_seq: Nat, cost: {0, 1},
          reason: Reasons, llm_calls: Nat]

\* A row with no field beyond the common ones.
Row(kind, s) ==
  [event |-> kind, session |-> s, request_seq |-> 0, cost |-> 0,
   reason |-> "none", llm_calls |-> 0]

CallRow(s, q, c) ==
  [Row("llm_call", s) EXCEPT !.request_seq = q, !.cost = c]

EndRow(s, r, n) ==
  [Row("session_end", s) EXCEPT !.reason = r, !.llm_calls = n]

CompleteRow(s, r, n) ==
  [Row("run_complete", s) EXCEPT !.reason = r, !.llm_calls = n]

Is(e, kind, s) == e.event = kind /\ e.session = s

Highest(S) == CHOOSE n \in S : \A m \in S : m <= n

SessionNumbers(l) == {l[i].session : i \in DOMAIN l}

\* fold_telemetry: the session counter, the status, the spend.
FoldCounter(l) == Highest({0} \cup SessionNumbers(l))
RunOver(l) == \E i \in DOMAIN l : l[i].event = "run_complete"
Spent(l) == Cardinality({i \in DOMAIN l : l[i].event = "llm_call" /\ l[i].cost = 1})

\* crashed_session: started, and no session_end after that start.
\* Mutation: a synthetic end is not taken for an end.
IsOpen_CrashEndsIgnored(l, s) ==
  \E i \in DOMAIN l :
    /\ Is(l[i], "session_start", s)
    /\ \A j \in DOMAIN l :
         j > i => ~(Is(l[j], "session_end", s) /\ l[j].reason /= "crash")
IsOpen(l, s) ==
  \E i \in DOMAIN l :
    /\ Is(l[i], "session_start", s)
    /\ \A j \in DOMAIN l : j > i => ~Is(l[j], "session_end", s)
OpenSessions(l) == {s \in SessionNumbers(l) : IsOpen(l, s)}
\* Mutation: a session that died before its first model call is not seen.
CrashedSession_AfterCallOnly(l) ==
  LET S == {s \in OpenSessions(l) :
              \E i \in DOMAIN l : Is(l[i], "llm_request", s)} IN
  IF S = {} THEN 0 ELSE Highest(S)
CrashedSession(l) ==
  IF OpenSessions(l) = {} THEN 0 ELSE Highest(OpenSessions(l))

\* phantom_requests: written ahead, never completed.
SeqsOf(l, kind, s) ==
  {l[i].request_seq : i \in {k \in DOMAIN l : Is(l[k], kind, s)}}
\* Mutation: the request the crash interrupted is taken for a completed one.
PhantomRequests_ButLast(l, s) ==
  LET started == SeqsOf(l, "llm_request", s) IN
  {q \in started \ SeqsOf(l, "llm_call", s) : \E p \in started : p > q}
\* Mutation: only a billed completion counts as one.
PhantomRequests_Billed(l, s) ==
  SeqsOf(l, "llm_request", s)
    \ {l[i].request_seq :
        i \in {k \in DOMAIN l : Is(l[k], "llm_call", s) /\ l[k].cost = 1}}
PhantomRequests(l, s) == SeqsOf(l, "llm_request", s) \ SeqsOf(l, "llm_call", s)

\* session_totals and run_complete.totals: the llm_call rows.
\* Mutation: calls that cost nothing, phantoms among them, are not counted.
SessionCalls_Billed(l, s) ==
  Cardinality({i \in DOMAIN l : Is(l[i], "llm_call", s) /\ l[i].cost = 1})
SessionCalls(l, s) == Cardinality({i \in DOMAIN l : Is(l[i], "llm_call", s)})
TotalCalls(l) == Cardinality({i \in DOMAIN l : l[i].event = "llm_call"})

\* governor.boundary_check: the budget first, then t_max.
\* Mutation: > for >=.
BoundaryCheck_Past(l, past) ==
  IF Spent(l) > Budget THEN "budget"
  ELSE IF past THEN "t_max"
  ELSE "none"
BoundaryCheck(l, past) ==
  IF Spent(l) >= Budget THEN "budget"
  ELSE IF past THEN "t_max"
  ELSE "none"

\* The journal, line by line.  Only its last line can be without its newline:
\* cut right before it, the line still reads; cut earlier, readers skip it; cut
\* inside a character, none of the file can be read.
Entry == [session: Nat, prev: Nat, whole: BOOLEAN]
Line(s, p) == [session |-> s, prev |-> p, whole |-> TRUE]
Junk == Line(0, 0)
BadChar == [session |-> 0, prev |-> 1, whole |-> FALSE]
Cuts(e) == {[e EXCEPT !.whole = FALSE], [Junk EXCEPT !.whole = FALSE], BadChar}

Unreadable(j) == \E i \in DOMAIN j : j[i] = BadChar
Entries(j) == {i \in DOMAIN j : j[i].session /= 0}
HasSession(j, s) == \E i \in Entries(j) : j[i].session = s
LastEnded(j) == IF Entries(j) = {} THEN 0 ELSE j[Highest(Entries(j))].session

\* A new line runs into one that has no newline, and neither can be read.
AddLine(j, e) ==
  IF j /= <<>> /\ ~j[Len(j)].whole THEN [j EXCEPT ![Len(j)] = Junk] ELSE Append(j, e)

\* _roll: the oldest lines go until the file fits, the newest stays in any case.
Roll(j) ==
  IF Len(j) <= JournalMax THEN j
  ELSE SubSeq(j, Len(j) - (IF JournalMax = 0 THEN 0 ELSE JournalMax - 1), Len(j))
AppendEntry(j, e) == Roll(AddLine(j, e))

\* What a kill inside Path.write_bytes leaves of the new contents j.
Prefixes(j) ==
  {SubSeq(j, 1, k) : k \in 0..Len(j)}
    \cup UNION {{Append(SubSeq(j, 1, k), c) : c \in Cuts(j[k + 1])} : k \in 0..(Len(j) - 1)}

-------------------------------------------------------------------------------
TypeOK ==
  /\ log \in Seq(Event)
  /\ torn \in BOOLEAN
  /\ journal \in Seq(Entry)
  /\ cache \in [counter: Nat, status: {"running", "complete"}]
  /\ cron \in BOOLEAN
  /\ due \in BOOLEAN
  /\ expired \in BOOLEAN
  /\ crashes \in Nat
  /\ pc \in {"idle", "folded", "journal_crashed", "recovered", "boundary",
             "claimed", "starting", "loop", "awaiting", "journaling",
             "abort_end", "schedule", "save", "stop_all", "revoke",
             "stop_env", "complete", "persist", "disable"}
  /\ job \in {"run", "end"}
  /\ events \in Seq(Event)
  /\ counter \in Nat
  /\ why \in Reasons
  /\ seq \in Nat
  /\ calls \in Nat
  /\ prev \in Nat

\* A provisioned run directory, its supervisor entry installed: no cache, no
\* journal, and of the stream only the `run_start` row of cli `init` (session
\* 0), which nothing here reads and `log` leaves out.
Init ==
  /\ log = <<>>
  /\ torn = FALSE
  /\ journal = <<>>
  /\ cache = [counter |-> 0, status |-> "running"]
  /\ cron = TRUE
  /\ due = TRUE
  /\ expired = FALSE
  /\ crashes = 0
  /\ pc = "idle"
  /\ job = "run"
  /\ events = <<>>
  /\ counter = 0
  /\ why = "none"
  /\ seq = 0
  /\ calls = 0
  /\ prev = 0

\* TelemetryWriter.emit: validated, written, flushed and fsynced.
Emit(e) == log' = Append(log, e) /\ UNCHANGED torn

\* The process is gone, and its memory with it.
Exit ==
  /\ pc' = "idle"
  /\ job' = "run" /\ events' = <<>> /\ counter' = 0 /\ why' = "none"
  /\ seq' = 0 /\ calls' = 0 /\ prev' = 0

Goto(from, to) == pc = from /\ pc' = to

SaveState(n, status) == cache' = [counter |-> n, status |-> status]

-------------------------------------------------------------------------------
(* An invocation begins: lock, fold, wake gate.                            *)

\* run_session / end_run up to the wake gate.  A NOT_DUE invocation writes
\* nothing.  A partial last line makes read_events raise: no fold, nothing
\* written.
\* Mutation: the counter is read from the cache.
Fold_CachedCounter(j) ==
  /\ pc = "idle"
  /\ ~torn
  /\ pc' = "folded"
  /\ job' = j
  /\ events' = log
  /\ counter' = cache.counter
  /\ UNCHANGED <<durable, clock, crashes, why, seq, calls, prev>>
Fold(j) ==
  /\ pc = "idle"
  /\ ~torn
  /\ pc' = "folded"
  /\ job' = j
  /\ events' = log
  /\ counter' = FoldCounter(log)
  /\ UNCHANGED <<durable, clock, crashes, why, seq, calls, prev>>

ScheduledRun == cron /\ due /\ Fold("run")
ManualRun == Fold("run")
EndRun == Fold("end")

-------------------------------------------------------------------------------
(* _recover: close what a crashed session left open.                       *)

EmitPhantom ==
  LET s == CrashedSession(events) IN
  /\ pc = "folded"
  /\ s /= 0
  /\ \E q \in PhantomRequests(events, s) :
       /\ \A p \in PhantomRequests(events, s) : q <= p
       /\ Emit(CallRow(s, q, 0))
       /\ events' = Append(events, CallRow(s, q, 0))
  /\ UNCHANGED <<journal, cache, cron, clock, crashes, pc, job, counter, why,
                 seq, calls, prev>>

CloseCrashed ==
  LET s == CrashedSession(events)
      row == EndRow(s, "crash", SessionCalls(events, s)) IN
  /\ Goto("folded", "journal_crashed")
  /\ s /= 0
  /\ PhantomRequests(events, s) = {}
  /\ Emit(row)
  /\ events' = Append(events, row)
  /\ prev' = s
  /\ UNCHANGED <<journal, cache, cron, clock, crashes, job, counter, why,
                 seq, calls>>

\* What the journal write under way would make of the file.
NextJournal ==
  IF pc = "journaling"
  THEN AppendEntry(journal, Line(counter, prev))
  ELSE IF HasSession(journal, prev) THEN journal
  ELSE AppendEntry(journal, Line(prev, LastEnded(journal)))

\* _journal_crashed_session; `prev` holds the crashed session's number here.
JournalCrashed ==
  /\ Goto("journal_crashed", "recovered")
  /\ ~Unreadable(journal)
  /\ journal' = NextJournal
  /\ prev' = 0
  /\ UNCHANGED <<log, torn, cache, cron, clock, crashes, job, events, counter,
                 why, seq, calls>>

\* read_text raises, for recovery as for a session whose child is up: the
\* invocation is over.
JournalRaises ==
  /\ pc \in {"journal_crashed", "claimed"}
  /\ Unreadable(journal)
  /\ Exit
  /\ UNCHANGED <<durable, clock, crashes>>

\* The cache refreshed from the fold; then ALREADY_COMPLETE, end-run's
\* teardown, or the boundary.
\* Mutation: the cached status decides whether the run is over.
RefreshCache_TrustsCache ==
  /\ \/ pc = "recovered"
     \/ pc = "folded" /\ CrashedSession(events) = 0
  /\ SaveState(counter, IF RunOver(events) THEN "complete" ELSE "running")
  /\ IF cache.status = "complete" THEN Exit
     ELSE /\ pc' = IF job = "end" THEN "stop_all" ELSE "boundary"
          /\ why' = IF job = "end" THEN "manual" ELSE "none"
          /\ UNCHANGED <<job, events, counter, seq, calls, prev>>
  /\ UNCHANGED <<log, torn, journal, cron, clock, crashes>>
\* Mutation: the boundary is reached with the crashed session still open.
RefreshCache_LeavesOpen ==
  /\ \/ pc = "recovered"
     \/ pc = "folded"
  /\ SaveState(counter, IF RunOver(events) THEN "complete" ELSE "running")
  /\ IF RunOver(events) THEN Exit
     ELSE /\ pc' = IF job = "end" THEN "stop_all" ELSE "boundary"
          /\ why' = IF job = "end" THEN "manual" ELSE "none"
          /\ UNCHANGED <<job, events, counter, seq, calls, prev>>
  /\ UNCHANGED <<log, torn, journal, cron, clock, crashes>>
RefreshCache ==
  /\ \/ pc = "recovered"
     \/ pc = "folded" /\ CrashedSession(events) = 0
  /\ SaveState(counter, IF RunOver(events) THEN "complete" ELSE "running")
  /\ IF RunOver(events) THEN Exit
     ELSE /\ pc' = IF job = "end" THEN "stop_all" ELSE "boundary"
          /\ why' = IF job = "end" THEN "manual" ELSE "none"
          /\ UNCHANGED <<job, events, counter, seq, calls, prev>>
  /\ UNCHANGED <<log, torn, journal, cron, clock, crashes>>

-------------------------------------------------------------------------------
(* The boundary: complete the run, or claim the next session number.       *)

BoundaryTrips ==
  /\ Goto("boundary", "stop_all")
  /\ BoundaryCheck(events, expired) /= "none"
  /\ why' = BoundaryCheck(events, expired)
  /\ UNCHANGED <<durable, clock, crashes, job, events, counter, seq, calls, prev>>

\* Bound: a run of MaxSessions sessions waits here for t_max.
ClaimNumber ==
  /\ Goto("boundary", "claimed")
  /\ counter < MaxSessions
  /\ BoundaryCheck(events, expired) = "none"
  /\ counter' = counter + 1
  /\ SaveState(counter', "running")
  /\ UNCHANGED <<log, torn, journal, cron, clock, crashes, job, events, why,
                 seq, calls, prev>>

-------------------------------------------------------------------------------
(* _run_one_session.                                                       *)

\* HarnessError: a session_start / session_end pair, a schedule, no journal.
HarnessFails ==
  /\ Goto("claimed", "abort_end")
  /\ Emit(Row("session_start", counter))
  /\ UNCHANGED <<journal, cache, cron, clock, crashes, memory>>

AbortEnd ==
  /\ Goto("abort_end", "schedule")
  /\ Emit(EndRow(counter, "errors", 0))
  /\ UNCHANGED <<journal, cache, cron, clock, crashes, memory>>

\* HarnessPairingError: the attempt consumes no number.
\* Mutation: the claimed number is not given back.
Refused_KeepsNumber ==
  /\ Goto("claimed", "save")
  /\ ~Unreadable(journal)
  /\ Cardinality({i \in DOMAIN log : log[i].event = "session_refused"}) < MaxRefusals
  /\ Emit(Row("session_refused", counter - 1))
  /\ counter' = counter
  /\ UNCHANGED <<journal, cache, cron, clock, crashes, job, events, why, seq,
                 calls, prev>>
Refused ==
  /\ Goto("claimed", "save")
  /\ ~Unreadable(journal)
  /\ Cardinality({i \in DOMAIN log : log[i].event = "session_refused"}) < MaxRefusals
  /\ Emit(Row("session_refused", counter - 1))
  /\ counter' = counter - 1
  /\ UNCHANGED <<journal, cache, cron, clock, crashes, job, events, why, seq,
                 calls, prev>>

\* Mutation: the session before, whether the journal has it or not.
Spawned_CountsSessions ==
  /\ Goto("claimed", "starting")
  /\ ~Unreadable(journal)
  /\ prev' = counter - 1
  /\ UNCHANGED <<durable, clock, crashes, job, events, counter, why, seq, calls>>
\* The child is up and the journal's last entry read; then the environment
\* and the keeper are, and session_start is emitted.
Spawned ==
  /\ Goto("claimed", "starting")
  /\ ~Unreadable(journal)
  /\ prev' = LastEnded(journal)
  /\ UNCHANGED <<durable, clock, crashes, job, events, counter, why, seq, calls>>

StartSession ==
  /\ Goto("starting", "loop")
  /\ Emit(Row("session_start", counter))
  /\ UNCHANGED <<journal, cache, cron, clock, crashes, memory>>

\* AgentLoop._call_model: the request is written ahead of the call.
Request ==
  /\ Goto("loop", "awaiting")
  /\ seq < MaxRequests
  /\ seq' = seq + 1
  /\ Emit([Row("llm_request", counter) EXCEPT !.request_seq = seq'])
  /\ UNCHANGED <<journal, cache, cron, clock, crashes, job, events, counter,
                 why, calls, prev>>

\* Every outcome of the attempt is one llm_call row; a failed or empty one
\* costs nothing.
Answer ==
  /\ Goto("awaiting", "loop")
  /\ \E c \in {0, 1} : Emit(CallRow(counter, seq, c))
  /\ calls' = calls + 1
  /\ UNCHANGED <<journal, cache, cron, clock, crashes, job, events, counter,
                 why, seq, prev>>

EndSession ==
  /\ Goto("loop", "journaling")
  /\ seq > 0
  /\ Emit(EndRow(counter, "loop", calls))
  /\ UNCHANGED <<journal, cache, cron, clock, crashes, memory>>

WriteJournal ==
  /\ Goto("journaling", "schedule")
  /\ journal' = NextJournal
  /\ UNCHANGED <<log, torn, cache, cron, clock, crashes, memory>>

ScheduleNext ==
  /\ Goto("schedule", "save")
  /\ Emit(Row("schedule_next", counter))
  /\ due' = FALSE
  /\ UNCHANGED <<journal, cache, cron, expired, crashes, memory>>

Save ==
  /\ pc = "save"
  /\ SaveState(counter, "running")
  /\ Exit
  /\ UNCHANGED <<log, torn, journal, cron, clock, crashes>>

-------------------------------------------------------------------------------
(* _complete_run: the teardown, run_complete, the cache, the supervisor.   *)

TearDown(from, kind, to) ==
  /\ Goto(from, to)
  /\ Emit(Row(kind, counter))
  /\ UNCHANGED <<journal, cache, cron, clock, crashes, memory>>

\* Mutation: the supervisor is removed before the run is over.
StopBooks_Uninstalls ==
  /\ Goto("stop_all", "revoke")
  /\ Emit(Row("tool_call", counter))
  /\ cron' = FALSE
  /\ UNCHANGED <<journal, cache, clock, crashes, memory>>
StopBooks == TearDown("stop_all", "tool_call", "revoke")
RevokeGrant == TearDown("revoke", "tool_call", "stop_env")
StopEnvironment == TearDown("stop_env", "shell_state", "complete")

Complete ==
  /\ Goto("complete", "persist")
  /\ Emit(CompleteRow(counter, why, TotalCalls(events)))
  /\ UNCHANGED <<journal, cache, cron, clock, crashes, memory>>

PersistComplete ==
  /\ Goto("persist", "disable")
  /\ SaveState(counter, "complete")
  /\ UNCHANGED <<log, torn, journal, cron, clock, crashes, memory>>

DisableSupervisor ==
  /\ pc = "disable"
  /\ cron' = FALSE
  /\ Exit
  /\ UNCHANGED <<log, torn, journal, cache, clock, crashes>>

-------------------------------------------------------------------------------
(* The environment of the process.                                         *)

\* Is the next durable write a line of telemetry.jsonl?
Emitting ==
  \/ pc \in {"starting", "claimed", "loop", "awaiting", "abort_end", "schedule",
            "stop_all", "revoke", "stop_env", "complete"}
  \/ pc = "folded" /\ CrashedSession(events) /= 0

Journaling == pc \in {"journal_crashed", "journaling"}

\* A kill, or an exception that leaves run_session: the memory is gone.  A
\* half-written line may be left behind, and a journal.append cut short
\* leaves a prefix of the journal (it rewrites the file in place).
Crash ==
  /\ pc /= "idle"
  /\ crashes < MaxCrashes
  /\ crashes' = crashes + 1
  /\ Exit
  /\ torn' \in (IF TornWrites /\ Emitting THEN BOOLEAN ELSE {FALSE})
  /\ journal' \in (IF TornJournal /\ Journaling /\ NextJournal /= journal
                   THEN {journal} \cup Prefixes(NextJournal) ELSE {journal})
  /\ UNCHANGED <<log, cache, cron, clock>>

WakeComesDue ==
  /\ ~due
  /\ due' = TRUE
  /\ UNCHANGED <<durable, expired, crashes, pc, memory>>

\* t_max is counted from the first session_start.
RunExpires ==
  /\ ~expired
  /\ \E i \in DOMAIN log : log[i].event = "session_start"
  /\ expired' = TRUE
  /\ UNCHANGED <<durable, due, crashes, pc, memory>>

Recover == EmitPhantom \/ CloseCrashed \/ JournalCrashed \/ RefreshCache
Boundary == BoundaryTrips \/ ClaimNumber \/ JournalRaises
RunOneSession ==
  \/ HarnessFails \/ AbortEnd \/ Refused \/ Spawned \/ StartSession
  \/ Request \/ Answer \/ EndSession \/ WriteJournal \/ ScheduleNext \/ Save
CompleteRun ==
  \/ StopBooks \/ RevokeGrant \/ StopEnvironment
  \/ Complete \/ PersistComplete \/ DisableSupervisor

\* What the process does once it is running.
Proceed == Recover \/ Boundary \/ RunOneSession \/ CompleteRun

Next ==
  \/ ScheduledRun \/ ManualRun \/ EndRun
  \/ Proceed
  \/ Crash \/ WakeComesDue \/ RunExpires

Spec == Init /\ [][Next]_vars

\* cron keeps firing, a started process keeps running (the session's own
\* caps bound it: AgentLoop), and time passes.  Nobody has to run anything
\* by hand.
FairSpec ==
  /\ Spec
  /\ WF_vars(ScheduledRun)
  /\ WF_vars(Proceed)
  /\ WF_vars(WakeComesDue)

-------------------------------------------------------------------------------
(* Safety: what the stream of a run can never say.                         *)

\* Session numbers are claimed in order, without a gap and without reuse,
\* whatever crashed or was refused in between (runner.py: "a crash never
\* reuses a number", a refused attempt "consumes no number").
SessionsNumberedInOrder ==
  \A j \in DOMAIN log : log[j].event = "session_start" =>
    /\ log[j].session >= 1
    /\ \A i \in 1..(j - 1) :
         log[i].event = "session_start" => log[i].session < log[j].session
    /\ log[j].session > 1 =>
         \E i \in 1..(j - 1) : Is(log[i], "session_start", log[j].session - 1)

\* A session is closed at most once, after it started: recovery of a crash
\* inside recovery writes no second synthetic end.
ClosedOnce ==
  \A j \in DOMAIN log : log[j].event = "session_end" =>
    /\ \E i \in 1..(j - 1) : Is(log[i], "session_start", log[j].session)
    /\ \A i \in 1..(j - 1) : ~Is(log[i], "session_end", log[j].session)

\* A session starts only when every earlier one has its session_end.
SessionsDoNotOverlap ==
  \A j \in DOMAIN log : log[j].event = "session_start" =>
    \A i \in 1..(j - 1) : log[i].event = "session_start" =>
      \E k \in (i + 1)..(j - 1) : Is(log[k], "session_end", log[i].session)

\* Every model request of a session has its llm_call row, phantom or not,
\* before the session is closed: no billed call is without a record.
EveryRequestAccounted ==
  \A j \in DOMAIN log : log[j].event = "session_end" =>
    \A i \in 1..(j - 1) : Is(log[i], "llm_request", log[j].session) =>
      \E k \in (i + 1)..(j - 1) :
        /\ Is(log[k], "llm_call", log[j].session)
        /\ log[k].request_seq = log[i].request_seq

\* An llm_call completes a request written before it, and no request is
\* completed twice, though recovery may itself be cut short and repeated.
CallsPairOnce ==
  \A j \in DOMAIN log : log[j].event = "llm_call" =>
    /\ \E i \in 1..(j - 1) :
         /\ Is(log[i], "llm_request", log[j].session)
         /\ log[i].request_seq = log[j].request_seq
    /\ \A i \in 1..(j - 1) :
         Is(log[i], "llm_call", log[j].session) =>
           log[i].request_seq /= log[j].request_seq

\* The totals a session_end and run_complete report are those of the rows
\* before them: the loop's own count, the recovery's and the run's agree.
TotalsAgree ==
  \A j \in DOMAIN log :
    /\ log[j].event = "session_end" =>
         log[j].llm_calls =
           Cardinality({i \in 1..(j - 1) : Is(log[i], "llm_call", log[j].session)})
    /\ log[j].event = "run_complete" =>
         log[j].llm_calls =
           Cardinality({i \in 1..(j - 1) : log[i].event = "llm_call"})

\* run_complete is the last row there is: a completed run is never reopened,
\* nor completed again, by an invocation that finds a stale cache.
RunCompleteIsFinal ==
  \A j \in DOMAIN log : log[j].event = "run_complete" => j = Len(log)

\* No session starts once the calls recorded before it have spent the
\* budget; the overshoot is one session's (SPEC X6).
NoSessionPastBudget ==
  \A j \in DOMAIN log : log[j].event = "session_start" =>
    Cardinality({i \in 1..(j - 1) : log[i].event = "llm_call" /\ log[i].cost = 1})
      < Budget

\* The gaps that the journal tells add up: an entry counts from the session of
\* the entry before it in the file, whatever died, was rolled away or was cut off
\* in between, and a session that journals itself is the file's last line unless
\* it ran into a cut one (journal.py, append and _roll; runner.py,
\* previous_journal_end and _journal_crashed_session).
JournalInOrder ==
  /\ \A i \in Entries(journal) :
       LET before == {k \in Entries(journal) : k < i}
           previous == journal[Highest(before)].session
       IN  /\ journal[i].prev < journal[i].session
           /\ before /= {} => journal[i].prev = previous
  /\ pc = "schedule" /\ log[Len(log)].reason = "loop" =>
       journal[Len(journal)] \in {Junk, Line(counter, prev)}

\* The cache says "complete" only of a run whose stream says so, and between
\* invocations it agrees with the stream unless a process has died: what
\* `kami-agent status` shows is true, after a refused attempt too.
CacheAgreesWithStream ==
  LET over == \E i \in DOMAIN log : log[i].event = "run_complete" IN
  /\ cache.status = "complete" => over
  /\ pc = "idle" /\ crashes = 0 =>
       /\ over => cache.status = "complete"
       /\ \A i \in DOMAIN log : log[i].session <= cache.counter
       /\ cache.counter > 0 => \E i \in DOMAIN log : log[i].session = cache.counter

-------------------------------------------------------------------------------
(* The stream implements the ledger of sessions.                           *)

OpenNow == {s \in SessionNumbers(log) :
  \E i \in DOMAIN log :
    /\ Is(log[i], "session_start", s)
    /\ ~\E j \in (i + 1)..Len(log) : Is(log[j], "session_end", s)}
AskedNow == UNION {SeqsOf(log, "llm_request", s) : s \in OpenNow}
OwedNow ==
  UNION {SeqsOf(log, "llm_request", s) \ SeqsOf(log, "llm_call", s) : s \in OpenNow}
StartedNow == {log[i].session : i \in {k \in DOMAIN log : log[k].event = "session_start"}}

Ledger == INSTANCE SessionLedger WITH
  Requests <- 1..MaxRequests,
  last <- Cardinality(StartedNow),
  open <- OpenNow /= {},
  asked <- AskedNow,
  owed <- OwedNow,
  over <- \E i \in DOMAIN log : log[i].event = "run_complete"

\* Crashes, recoveries and refusals included, what the stream records is a
\* ledger of one session at a time: opened, asked, settled, closed.
LedgerSpec == Ledger!Spec

-------------------------------------------------------------------------------
(* Liveness, under FairSpec and without torn lines.                        *)

\* A run past its budget or its t_max is completed, however many times an
\* invocation dies on the way and even if nobody runs end-run.
SpentRunCompletes ==
  (expired \/ Spent(log) >= Budget) ~> (\E i \in DOMAIN log : log[i].event = "run_complete")

\* Whenever a session is open there comes a time when none is: each one that
\* started is closed, by itself or by the recovery of a later invocation.
EverySessionIsClosed == (OpenNow /= {}) ~> (OpenNow = {})

-------------------------------------------------------------------------------
(* What the documents say and the code does not do.                        *)

\* SPEC I34, journal.py: one compact entry per session, whatever the model
\* writes.  Stated where it matters: when a later session starts, every
\* session that ran has its entry.
EverySessionIsJournaled ==
  \A j \in DOMAIN log :
    /\ log[j].event = "session_end"
    /\ log[j].reason /= "errors"
    /\ \E i \in (j + 1)..Len(log) : log[i].event = "session_start"
    => HasSession(journal, log[j].session)

\* runner.py _complete_run: a run that dies inside its teardown "has no
\* run_complete, so the next invocation does it all again".
TeardownIsRedone ==
  \A j \in DOMAIN log : log[j].event = "tool_call" =>
    ~\E i \in (j + 1)..Len(log) : log[i].event = "session_start"

\* SPEC I14, supervisor.py: a crashed session can never deadlock the run.  A
\* session some process died in is taken up by a later invocation.
CrashNeverDeadlocksRun == (pc = "idle" /\ OpenNow /= {}) ~> (pc /= "idle")

===============================================================================
