------------------------------- MODULE AgentLoop -------------------------------
(***************************************************************************)
(* One session's loop (loop.py): AgentLoop.run asks the model, executes    *)
(* the tool calls ("intents") of its answer one after another, each in a   *)
(* watchdog thread, and stops on end_session or on one of the caps.        *)
(*                                                                         *)
(* A tool call is [tool, sig, valid]: its signature stands for its         *)
(* arguments, and `valid` says whether they pass the schema.  The tools    *)
(* are "act" (any call of the harness), "shell", "wait", "set_next_wake"   *)
(* and "end_session"; the other scaffold tools return like "act" and       *)
(* never revert.  Tokens are one fact of an answer: whether it reaches     *)
(* session_token_cap.                                                      *)
(*                                                                         *)
(* A thread that outlives its watchdog goes on running beside the loop.    *)
(* What it does to the loop's state is to leave its record in last_shell.  *)
(***************************************************************************)
EXTENDS Repetition

CONSTANTS
  Intents,      \* the tool calls a model may ask for
  RetryMax,     \* retry_max_attempts
  ToolCap,      \* session_tool_cap
  MaxErr,       \* max_consecutive_errors
  HarnessReads, \* session-start injections that are calls of the harness
  FileReads,    \* those that are reads of the run directory
  MaxBatch      \* bound: tool calls of one answer

Tools == {"act", "shell", "wait", "set_next_wake", "end_session"}

ASSUME LoopAssumption ==
  /\ \A i \in Intents : i.tool \in Tools /\ i.valid \in BOOLEAN
  /\ RetryMax \in Nat
  /\ ToolCap \in Nat \ {0}
  /\ MaxErr \in Nat \ {0}
  /\ HarnessReads \in Nat
  /\ FileReads \in Nat \ {0}  \* the journal's is never skipped
  /\ MaxBatch \in Nat \ {0}

VARIABLES
  pc,        \* where the loop is
  requests,  \* request_seq: llm_request rows
  calls,     \* llm_calls: llm_call rows
  attempt,   \* attempt of the model call under way
  turns,     \* answers taken up: the assistant messages
  errs,      \* consecutive_errors
  batch,     \* the intents of the answer not yet settled
  outcome,   \* how the intent at the head of batch came back
  callSeq,   \* call_seq: tool_call rows
  executed,  \* executed_intents
  tracker,   \* the repetition tracker
  trip,      \* the repetition rule that stopped the session
  ended,     \* session_ended: end_session took effect
  wake,      \* the wake asked for, by its signature
  carried,   \* carried_wake
  last,      \* last_shell: the call_seq of the recorded call, or 0
  late,      \* call_seqs of shell threads that outlived their watchdog
  rows,      \* history: the rows of the executed calls, waits apart
  reason     \* why the session stopped

modelVars == <<requests, calls, attempt, turns>>
callVars == <<callSeq, executed, tracker, rows>>
stopVars == <<trip, carried, reason>>
shellVars == <<last, late>>
vars == <<pc, modelVars, errs, batch, outcome, callVars, stopVars, ended, wake,
          shellVars>>

Caps == {"token_cap", "tool_cap", "repetition"}
Reasons == Caps \cup {"errors", "agent"}
Outcomes == {"ok", "revert", "error", "timeout"}
NoWake == "default"
Sigs == {i.sig : i \in Intents}

Row == [tool: Tools, sig: Sigs, outcome: Outcomes, seq: Nat \ {0}, shell: Nat]

TypeOK ==
  /\ pc \in {"start", "call", "awaiting", "batch", "running", "settled",
             "stopping", "done"}
  /\ requests \in Nat /\ calls \in Nat /\ attempt \in 0..RetryMax
  /\ turns \in Nat /\ errs \in Nat
  /\ batch \in Seq(Intents)
  /\ outcome \in Outcomes \cup {"none"}
  /\ callSeq \in Nat /\ executed \in Nat
  /\ tracker \in Trackers(Sigs, Tools)
  /\ trip \in Rules \cup {"none"}
  /\ ended \in BOOLEAN
  /\ wake \in Sigs \cup {NoWake}
  /\ carried \in {"none", "applied", "invalid"}
  /\ last \in Nat /\ late \in SUBSET Nat
  /\ rows \in Seq(Row)
  /\ reason \in Reasons \cup {"none"}

Init ==
  /\ pc = "start"
  /\ requests = 0 /\ calls = 0 /\ attempt = 0 /\ turns = 0 /\ errs = 0
  /\ batch = <<>> /\ outcome = "none"
  /\ callSeq = 0 /\ executed = 0
  /\ tracker = NewTracker /\ trip = "none"
  /\ ended = FALSE /\ wake = NoWake /\ carried = "none"
  /\ last = 0 /\ late = {} /\ rows = <<>> /\ reason = "none"

\* _result: every path that ends the session goes through here.
Stop(why) == pc' = "stopping" /\ reason' = why

-------------------------------------------------------------------------------
(* The cap-skipped wake.                                                   *)

AsksIn(s) == {i \in DOMAIN s : s[i].tool = "set_next_wake"}

Carry(ask) ==
  IF ask.valid THEN wake' = ask.sig /\ carried' = "applied"
  ELSE carried' = "invalid" /\ UNCHANGED wake

\* Mutation: the first of the skipped wakes is carried.
CarryWake_First(unexecuted) ==
  LET asks == AsksIn(unexecuted)
  IN  \/ asks = {} /\ UNCHANGED <<wake, carried>>
      \/ \E i \in asks : (\A j \in asks : i <= j) /\ Carry(unexecuted[i])
\* The last set_next_wake of the intents a cap kept from executing takes
\* effect; invalid, it is discarded and the discard recorded.
CarryWake(unexecuted) ==
  LET asks == AsksIn(unexecuted)
  IN  \/ asks = {} /\ UNCHANGED <<wake, carried>>
      \/ \E i \in asks : (\A j \in asks : j <= i) /\ Carry(unexecuted[i])

-------------------------------------------------------------------------------
(* The model call.                                                         *)

\* The brief and the balances, then the plan and the journal of the last
\* session: each a row of its own, none of them an intent of the model's.
Inject ==
  /\ pc = "start"
  /\ callSeq' = callSeq + 1
  /\ pc' = IF callSeq' >= HarnessReads + FileReads THEN "call" ELSE "start"
  /\ UNCHANGED <<modelVars, errs, batch, outcome, executed, tracker, rows,
                 stopVars, ended, wake, shellVars>>

\* The harness's two come first, and outside any watchdog: the loop's own
\* thread calls the client.
InjectingHarness == pc = "start" /\ callSeq < HarnessReads

\* The write-ahead row, and then the request itself.
SendRequest ==
  /\ pc = "call" /\ pc' = "awaiting"
  /\ requests' = requests + 1
  /\ UNCHANGED <<calls, attempt, turns, errs, batch, outcome, callVars,
                 stopVars, ended, wake, shellVars>>

\* The rows of a failed attempt: a provider error, or an empty answer with
\* nothing billed.
AttemptFailed ==
  /\ pc = "awaiting"
  /\ calls' = calls + 1
  /\ UNCHANGED <<requests, turns, errs, batch, outcome, callVars, trip,
                 carried, ended, wake, shellVars>>

\* Mutation: one attempt too many.
Retry_Uncapped ==
  /\ AttemptFailed
  /\ attempt <= RetryMax
  /\ attempt' = attempt + 1
  /\ pc' = "call"
  /\ UNCHANGED reason
Retry ==
  /\ AttemptFailed
  /\ attempt < RetryMax
  /\ attempt' = attempt + 1
  /\ pc' = "call"
  /\ UNCHANGED reason

\* Mutation: an error that no adapter normalized leaves no llm_call row.
GiveUp_Unrecorded ==
  /\ pc = "awaiting"
  /\ Stop("errors")
  /\ UNCHANGED <<modelVars, errs, batch, outcome, callVars, trip, carried,
                 ended, wake, shellVars>>
\* An error that is not retryable or not normalized by the adapter, or one attempt too many.
GiveUp ==
  /\ AttemptFailed
  /\ Stop("errors")
  /\ UNCHANGED attempt

\* An answer: one llm_call row, one assistant message.
Answered ==
  /\ pc = "awaiting"
  /\ calls' = calls + 1
  /\ turns' = turns + 1
  /\ attempt' = 0
  /\ UNCHANGED <<requests, outcome, callVars, trip, ended, shellVars>>

Answers == UNION {[1..n -> Intents] : n \in 0..MaxBatch}

\* The answer reaches session_token_cap: none of its intents is executed.
OverTokenCap ==
  /\ Answered
  /\ \E b \in Answers : batch' = b /\ CarryWake(b)
  /\ Stop("token_cap")
  /\ UNCHANGED errs

\* Mutation: an answer without tool calls is no error.
NoToolCalls_Free ==
  /\ Answered
  /\ pc' = "call"
  /\ UNCHANGED <<errs, batch, reason, wake, carried>>
NoToolCalls ==
  /\ Answered
  /\ errs' = errs + 1
  /\ IF errs' >= MaxErr THEN Stop("errors")
     ELSE pc' = "call" /\ UNCHANGED reason
  /\ UNCHANGED <<batch, wake, carried>>

TakeBatch ==
  /\ Answered
  /\ batch' \in Answers \ {<<>>}
  /\ pc' = "batch"
  /\ UNCHANGED <<errs, reason, wake, carried>>

-------------------------------------------------------------------------------
(* _execute_batch.                                                         *)

Intent == Head(batch)
Seqno == callSeq + 1

\* After end_session took effect every further intent only leaves a row.
Skip ==
  /\ pc = "batch" /\ batch /= <<>> /\ ended
  /\ callSeq' = callSeq + 1
  /\ batch' = Tail(batch)
  /\ UNCHANGED <<pc, modelVars, errs, outcome, executed, tracker, rows,
                 stopVars, ended, wake, shellVars>>

\* Mutation: an intent behind an end_session is executed like any other.
Dispatch_AfterEnd ==
  /\ pc = "batch" /\ batch /= <<>>
  /\ pc' = "running"
  /\ last' = IF Intent.tool = "shell" THEN 0 ELSE last
  /\ UNCHANGED <<modelVars, errs, batch, outcome, callVars, stopVars, ended,
                 wake, late>>
\* Mutation: the record of the last shell call stands.
Dispatch_KeepsRecord ==
  /\ pc = "batch" /\ batch /= <<>> /\ ~ended
  /\ pc' = "running"
  /\ UNCHANGED <<modelVars, errs, batch, outcome, callVars, stopVars, ended,
                 wake, shellVars>>
\* The record of the last shell call is cleared before the next one runs.
Dispatch ==
  /\ pc = "batch" /\ batch /= <<>> /\ ~ended
  /\ pc' = "running"
  /\ last' = IF Intent.tool = "shell" THEN 0 ELSE last
  /\ UNCHANGED <<modelVars, errs, batch, outcome, callVars, stopVars, ended,
                 wake, late>>

\* How an intent can come back within its watchdog.
Returns(i) ==
  IF ~i.valid THEN {"error"}
  ELSE CASE i.tool = "act" -> {"ok", "revert", "error"}
         [] i.tool = "shell" -> {"ok", "error"}
         [] OTHER -> {"ok"}

\* The handler ran: it leaves its record, its wake or the end of the session.
Return ==
  /\ pc = "running" /\ pc' = "settled"
  /\ outcome' \in Returns(Intent)
  /\ LET did(tool) == Intent.tool = tool /\ outcome' = "ok"
     IN  /\ last' = IF did("shell") THEN Seqno ELSE last
         /\ wake' = IF did("set_next_wake") THEN Intent.sig ELSE wake
         /\ ended' = (ended \/ did("end_session"))
  /\ UNCHANGED <<modelVars, errs, batch, callVars, stopVars, late>>

\* Calls that leave the process may hang.
MayHang(i) == i.tool \in {"act", "shell"} /\ i.valid

\* Mutation: the watchdog watches the harness alone.
TimesOut_NotShell ==
  /\ pc = "running" /\ pc' = "settled"
  /\ MayHang(Intent) /\ Intent.tool = "act"
  /\ outcome' = "timeout"
  /\ UNCHANGED <<modelVars, errs, batch, callVars, stopVars, ended, wake,
                 shellVars>>
\* The watchdog gives up; the thread does not.
TimesOut ==
  /\ pc = "running" /\ pc' = "settled"
  /\ MayHang(Intent)
  /\ outcome' = "timeout"
  /\ late' = IF Intent.tool = "shell" THEN late \cup {Seqno} ELSE late
  /\ UNCHANGED <<modelVars, errs, batch, callVars, stopVars, ended, wake, last>>

\* A thread given up on ends after all.  The process's end ends the others.
LateFinish ==
  /\ pc /= "done"
  /\ \E s \in late : last' = s /\ late' = late \ {s}
  /\ UNCHANGED <<pc, modelVars, errs, batch, outcome, callVars, stopVars,
                 ended, wake>>

ErrsNow == IF outcome \in {"ok", "revert"} THEN 0 ELSE errs + 1
Exempt(i) == i.tool = "wait"
TrackerNow ==
  IF Exempt(Intent) THEN tracker
  ELSE Record(tracker, [tool |-> Intent.tool, sig |-> Intent.sig,
                        failed |-> outcome /= "ok"])
TripNow == IF Exempt(Intent) THEN "none" ELSE Tripped(TrackerNow)

RowNow ==
  [tool |-> Intent.tool, sig |-> Intent.sig, outcome |-> outcome, seq |-> Seqno,
   shell |-> IF Intent.tool = "shell" THEN last ELSE 0]

\* What every executed intent leaves: its row and its place in the counters.
Executed ==
  /\ pc = "settled"
  /\ callSeq' = callSeq + 1
  /\ executed' = executed + 1
  /\ rows' = IF Intent.tool = "wait" THEN rows ELSE Append(rows, RowNow)
  /\ errs' = ErrsNow
  /\ outcome' = "none"
  /\ batch' = Tail(batch)
  /\ UNCHANGED <<modelVars, ended, shellVars>>

OneErrorTooMany ==
  /\ Executed
  /\ outcome \in {"error", "timeout"} /\ errs' >= MaxErr
  /\ Stop("errors")
  /\ UNCHANGED <<tracker, trip, carried, wake>>

WithinErrors == Executed /\ (outcome \in {"ok", "revert"} \/ errs' < MaxErr)

\* The intent was the end_session: no breaker is asked any more.
EndedBatch ==
  /\ WithinErrors /\ ended
  /\ pc' = "batch"
  /\ UNCHANGED <<tracker, stopVars, wake>>

Repeats ==
  /\ WithinErrors /\ ~ended
  /\ TripNow /= "none"
  /\ tracker' = TrackerNow
  /\ trip' = TripNow
  /\ CarryWake(Tail(batch))
  /\ Stop("repetition")

AtToolCap ==
  /\ WithinErrors /\ ~ended
  /\ TripNow = "none"
  /\ tracker' = TrackerNow
  /\ executed' >= ToolCap
  /\ CarryWake(Tail(batch))
  /\ Stop("tool_cap")
  /\ UNCHANGED trip

\* Mutation: a batch runs to its end before the cap is looked at.
NextIntent_Uncapped ==
  /\ WithinErrors /\ ~ended
  /\ TripNow = "none"
  /\ tracker' = TrackerNow
  /\ pc' = "batch"
  /\ UNCHANGED <<stopVars, wake>>
NextIntent ==
  /\ WithinErrors /\ ~ended
  /\ TripNow = "none"
  /\ tracker' = TrackerNow
  /\ executed' < ToolCap
  /\ pc' = "batch"
  /\ UNCHANGED <<stopVars, wake>>

BatchDone ==
  /\ pc = "batch" /\ batch = <<>>
  /\ IF ended THEN Stop("agent") ELSE pc' = "call" /\ UNCHANGED reason
  /\ UNCHANGED <<modelVars, errs, batch, outcome, callVars, trip, carried,
                 ended, wake, shellVars>>

\* run returns its SessionResult.
Finish ==
  /\ pc = "stopping" /\ pc' = "done"
  /\ UNCHANGED <<modelVars, errs, batch, outcome, callVars, stopVars, ended,
                 wake, shellVars>>

\* The steps of the loop's own thread, and calls that cannot hang.
OwnStep ==
  \/ (Inject /\ ~InjectingHarness) \/ SendRequest \/ Retry \/ GiveUp
  \/ OverTokenCap \/ NoToolCalls \/ TakeBatch
  \/ Skip \/ Dispatch \/ TimesOut \/ (Return /\ ~MayHang(Intent))
  \/ OneErrorTooMany \/ EndedBatch \/ Repeats \/ AtToolCap \/ NextIntent
  \/ BatchDone \/ Finish

Next == OwnStep \/ Inject \/ Return \/ LateFinish

Spec == Init /\ [][Next]_vars

\* Every wait of the loop's thread is bounded: the adapters' requests and the
\* watchdog's join have timeouts, the backoff and `wait` are clamped sleeps.
\* Nothing is assumed of the thread that runs a call, nor of the harness when
\* an injection waits for its answer.
FairSpec == Spec /\ WF_vars(OwnStep)

-------------------------------------------------------------------------------
(* Properties.                                                             *)

MaxTurns == ToolCap * MaxErr
MaxRequests == (RetryMax + 1) * MaxTurns

\* The caps together bound what a session can ask of the provider, although
\* none of them counts requests: a retry is bounded by retry_max_attempts, an
\* answer without tool calls is an error and so bounded by the executed calls
\* it comes between, and those by session_tool_cap (loop.py, run and
\* _execute_batch).
SessionIsBounded ==
  /\ requests <= MaxRequests
  /\ turns <= MaxTurns
  /\ executed <= ToolCap

\* To its run the session is a sequence of paired requests and answers: this
\* is what RunLifecycle assumes of a session (loop.py, _call_model).
SessionCalls == INSTANCE ModelCalls WITH
  Max <- MaxRequests,
  at <- CASE pc = "awaiting" -> "awaiting"
          [] pc = "done" -> "ended"
          [] OTHER -> "loop",
  seq <- requests
ImplementsModelCalls == SessionCalls!Spec

\* Once end_session took effect nothing more is asked of the provider, nothing
\* more is executed and the wake stands, whatever is left of the batch
\* (loop.py, _execute_batch; I12).
EndIsFinal ==
  [][ended => /\ ended'
              /\ UNCHANGED <<requests, turns, wake, carried>>
              /\ pc' /= "running"]_vars

AsCalls(s) == [i \in DOMAIN s |->
  [tool |-> s[i].tool, sig |-> s[i].sig, failed |-> s[i].outcome /= "ok"]]
RuleBroken == RuleOf(AsCalls(rows))

\* The tracker's running streaks and window agree with the rules read off the
\* whole history of calls other than waits: the session stops at the first
\* call that breaks one, under that rule's name, and never for another reason
\* unless the errors came first (repetition.py, record; loop.py,
\* _execute_batch).
StopsOnRepetition ==
  /\ reason = "repetition" <=> trip /= "none"
  /\ reason = "repetition" => trip = RuleBroken
  /\ ~ended /\ reason \notin {"repetition", "errors"} => RuleBroken = "none"

WakesOf(s) == {i \in DOMAIN s : s[i].tool = "set_next_wake" /\ s[i].outcome = "ok"}
LastWake(s) ==
  IF WakesOf(s) = {} THEN NoWake
  ELSE s[CHOOSE i \in WakesOf(s) : \A j \in WakesOf(s) : j <= i].sig

\* A session that a cap stopped wakes when the last set_next_wake of its final
\* answer says, had it been executed or not; any other one when the last
\* accepted set_next_wake said.  Nothing skipped behind an end_session or an
\* error counts (loop.py, _carry_wake).
WakeIsLastAsked ==
  pc = "done" =>
    LET left == IF reason \in Caps THEN batch ELSE <<>>
        asked == AsksIn(left)
        final == CHOOSE i \in asked : \A j \in asked : j <= i
    IN  wake = IF asked /= {} /\ left[final].valid
               THEN left[final].sig ELSE LastWake(rows)

\* A row never says of a shell call what an earlier one did, unless that one
\* timed out and its thread came back while the call of the row was under way
\* (loop.py, _execute_batch).
RowTellsOwnOrLate ==
  \A i \in DOMAIN rows :
    \/ rows[i].shell \in {0, rows[i].seq}
    \/ \E j \in 1..(i - 1) :
         /\ rows[j].tool = "shell" /\ rows[j].outcome = "timeout"
         /\ rows[j].seq = rows[i].shell

\* A row says of a shell call what that call did, or nothing: "a wait that
\* never reached the handler must not inherit the previous wait's durations",
\* and the same for the shell tool (loop.py, _execute_batch).
RowTellsOwnCall == \A i \in DOMAIN rows : rows[i].shell \in {0, rows[i].seq}

\* A session ends, however its tools hang, unless the harness leaves an
\* injection without an answer (loop.py, _run_with_timeout and run).
SessionEnds == <>(pc = "done") \/ <>[]InjectingHarness

-------------------------------------------------------------------------------
(***************************************************************************)
(* The inductive invariant.  `turns` is paid for by executed calls, MaxErr *)
(* of them each, and by the errors in a row; one turn is on credit until   *)
(* the first intent of its batch is settled.  `requests` is paid for by    *)
(* `turns` and the attempts under way.                                     *)
(***************************************************************************)

\* The head of the batch is there while it runs and when it comes back.
Underway ==
  /\ pc \in {"running", "settled"} => batch /= <<>>
  /\ pc = "settled" => outcome \in Outcomes

TypeInv == TypeOK /\ Underway

Paid == executed * MaxErr + errs

TurnsInv ==
  /\ pc \in {"start", "call", "awaiting"} => ~ended /\ turns <= Paid
  /\ pc = "batch" /\ ~ended =>
       turns <= Paid + (IF batch = <<>> THEN 0 ELSE 1)
  /\ pc = "running" => ~ended
  /\ pc \in {"running", "settled"} => turns <= Paid + 1
  /\ pc \notin {"stopping", "done"} /\ (ended => pc = "settled") =>
       executed < ToolCap /\ errs < MaxErr
  /\ turns <= MaxTurns
  /\ executed <= ToolCap
  /\ ended => pc \in {"batch", "settled", "stopping", "done"}

RequestsInv ==
  /\ pc \in {"start", "call"} => requests <= (RetryMax + 1) * turns + attempt
  /\ pc = "awaiting" => requests <= (RetryMax + 1) * turns + attempt + 1
  /\ pc \in {"batch", "running", "settled"} => requests <= (RetryMax + 1) * turns
  /\ requests <= MaxRequests
  /\ pc \notin {"start", "call"} => requests > 0
  /\ requests = calls + (IF pc = "awaiting" THEN 1 ELSE 0)

\* Every part of the session stays within what pays for it (loop.py, run,
\* _call_model, _execute_batch).
LoopInv == TypeInv /\ TurnsInv /\ RequestsInv

===============================================================================
