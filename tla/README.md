# kami-agent in TLA+

kami-agent is an experiment runner: cron starts it, it gives a language model
one *session* of tool calls against a game harness and a sandboxed container,
and it stops.  A *run* is one directory on disk: a telemetry stream, a journal,
a small state cache, a lock file and a line in the operator's crontab.  Nothing
of a run lives in memory between two sessions, so what makes the program correct
is what can be read back from those files after any process died anywhere.

This directory holds TLA+ models of that program, the TLC configurations that
check them on small instances, and theorems proved with TLAPS for every value of
the constants.  `PROJECT.json` maps each definition to the source lines it
stands for.

## 1. The system

Paths are under `src/src/kami_agent/`.

| component | state it keeps | operations | hard behaviour |
|---|---|---|---|
| run lifecycle (`runner.py`) | none between invocations; folds the stream | `run_session`, `end_run`, recovery, boundary checks, claim of a session number, `_complete` and its teardown | a death between any two durable writes; a death inside recovery; refused attempts; three kinds of invocation in any order |
| telemetry (`telemetry.py`, `state.py`) | `telemetry.jsonl`, append only; `state.json`, a cache | `emit`, `read_events`, every fold, `save` and `load` | a row half written; a cache behind or ahead of the stream |
| budget and horizon (`governor.py`) | none | `boundary_check` | checked only between sessions, on a fold taken before them |
| journal (`journal.py`) | `journal/sessions.jsonl`, one line per session, bounded in bytes | `append`, `_roll`, `has_session`, `last_ended` | rewritten in place; a death between `session_end` and the entry, or inside the rewrite |
| scheduler and lock (`supervisor.py`) | `run.lock`, one crontab line | `acquire_lock`, `release_lock`, `is_due`, `install`, `uninstall` | check then write; stale locks; reused pids |
| agent loop (`loop.py`) | turns, executed calls, error streak, the pending batch, the wake | `run`, `_call_model`, `_execute_batch`, `_run_with_timeout`, `_carry_wake`, the injections | retries, caps in the middle of a batch, calls that outlive their watchdog |
| repetition breaker (`repetition.py`) | streaks and a window | `record` | three rules kept incrementally |
| keeper client (`keeper.py`) | a cursor: a lens block per book and open hashes | `read`, `stop`, `revoke` | late receipts without a block, unanswered requests, a crash between rows and cursor |
| scaffold tools (`tools/scaffold.py`) | the workspace, the quota | file tools, `set_next_wake`, `wait`, `shell`, `end_session` | a call given up on goes on writing beside the next one; the tree is walked while it changes; effects are read back by the loop through fields |
| environment and docker (`environment.py`, `docker_api.py`) | the container, its RestartCount and its log | create, exec, stop, restart, snapshot | output that never ends, a container that went away or came back |
| harness client (`harness.py`) | a client thread, its event loop and a manager task | handshake, `execute`, `close` | a thread that waits for another; a child that dies; a close beside calls that still wait |
| sandbox (`tools/sandbox.py`) | none | `resolve_path` | a name that telemetry gives a file must lead back to it |
| model adapters (`adapters/`) | none | translation of requests and answers | which error is worth a retry |
| truncation, receipts, search (`tools/`) | none | pure functions of text | boundaries in bytes and characters |
| lens client, error log, command line (`lens.py`, `errorlog.py`, `cli.py`) | an append-only log | one query, one append, `init`, `status` | none that later steps depend on |
| schema, prompts, manifests | data | | |

How they meet:

- cron, or an operator, starts `run-session`; an operator starts `end-run`.
  Both take `run.lock` (`cli.py`, `supervisor.py`), and only then fold the stream.
- `run_session` reads the journal's last entry, writes `session_start`, runs the
  loop, writes `session_end`, the journal entry, `schedule_next` and
  `state.json`, in this order.
- around the loop, `_run_one_session` spawns the harness child, looks at the
  container before and after, walks the workspace for its file index and for the
  bytes in use, and closes the client last.
- the loop writes an `llm_request` row *ahead* of each model call and an
  `llm_call` row after it; recovery pairs the two to find *phantom* requests,
  which were billed or may have been.
- tools run in watchdog threads beside the loop, one at a time unless one hangs;
  those of the harness hand their call to the client's own event loop and wait.
- the agent's own processes in the container see the same workspace.
- the keeper signs transactions on its own time; the runner reads its ledgers at
  each session start and at the end of the run.

What makes each correct, in one sentence: the stream tells of one session at a
time, numbered without gaps, each closed once, each request settled once, and of
an end that is final, and the journal's gaps add up (lifecycle); two invocations
are never inside together (lock); a session cannot outgrow its caps and stops
exactly where a rule says (loop, breaker); each keeper transaction is told once,
with its last word (keeper); a shell call tells what the command wrote and did
(environment); the rows of the file tools account for the workspace and a restart
of the container is told (tools); a spent run ends, a started session is closed,
a session ends (liveness).

## 2. The modules

| module | models | uses |
|---|---|---|
| `SessionLedger` | *abstract*: what a run's telemetry promises, with no crash in it | |
| `RunLifecycle` | `run_session` and `end_run` over the files, one action per durable write or decision | refines `SessionLedger` |
| `RunLifecycleInv` | the inductive invariants of the stream, the totals, the cache and the journal | extends `RunLifecycle` |
| `RunLifecycleProofs` | what the stream can never say | extends `RunLifecycleInv` |
| `RunAccountsProofs` | what its rows add up to, the cache, the journal, and the refinement | extends `RunLifecycleProofs` |
| `RunLock` | `acquire_lock`/`release_lock` step by step, by several invocations | |
| `RunLockProofs` | its theorems | extends `RunLock` |
| `Repetition` | the tracker as an operator on records, and its three rules read off a whole history | |
| `ModelCalls` | *abstract*: what a session is to the run, paired requests and answers and then an end | |
| `AgentLoop` | the loop of one session | extends `Repetition`, refines `ModelCalls` |
| `AgentLoopProofs` | its theorems | extends `AgentLoop` |
| `Workspace` | the sandbox's names and the file tools that change files, each call in a thread, beside the session's own walks | |
| `HarnessClient` | the harness client: its loop's thread, its manager, its callers, its close | |
| `SessionTools` | one session's own thread from the spawn of the child to the exit, with the container's snapshots | extends `Workspace`, instantiates `HarnessClient` |
| `SessionToolsProofs` | its theorems | extends `SessionTools` |
| `KeeperLedger` | the keeper's ledgers and the scaffold's read of them | |
| `KeeperLedgerProofs` | its theorems | extends `KeeperLedger` |
| `ShellExec` | one `shell` call: the command under `timeout -k`, the daemon's frames, the client that cuts them, the sinks and the log | |
| `ShellExecProofs` | its theorems | extends `ShellExec` |
| `NumberFacts` | a bounded nonempty set of naturals has a highest member; a stretch of a function takes one value exactly if all of it equals its last; the order of four numbers by the first that differs is well founded | |
| `MC...` | instances for TLC | |

How the modules compose.  `RunLock` justifies `RunLifecycle`'s one process at a
time (up to the race it also exhibits).  `AgentLoop` implements `ModelCalls`,
whose three actions are the `Request`, `Answer` and `EndSession` that
`RunLifecycle` takes for a session (`SessionsAreModelCalls`); so `RunLifecycle`'s `MaxRequests` is
`AgentLoop`'s derived bound.  `RunLifecycle` implements `SessionLedger`.
`SessionTools` is the session that `RunLifecycle` takes from `Spawned` to
`WriteJournal`, seen from the threads and processes beside it; what a call of it
does, `AgentLoop` takes as a return, an error or a timeout.

### RunLifecycle

`log`, `journal`, `cache` and `cron` are the files and survive a crash; `torn`
says that the last line of the stream is cut.  Everything else is an
invocation's memory: `pc`, the fold it took (`events`), what it still has to
write.  `Fold` is the whole start of `run_session` and `end_run` up to the first
write, including its early returns (run over, not due).  `EmitPhantom`,
`CloseCrashed`, `NextJournal`/`JournalCrashed` and `RefreshCache` are
`_recover_crashed_sessions`; `BoundaryTrips` and `ClaimNumber` the boundary;
`HarnessFails`, `Refused`, `AbortEnd` the handshake's failures; `Spawned` the read
of the journal's last entry; `Request`, `Answer`, `EndSession`, `WriteJournal`,
`ScheduleNext`, `Save` a session; `StopBooks`, `RevokeGrant`, `StopEnvironment`,
`Complete`, `PersistComplete`, `DisableSupervisor` the end of the run.  `Crash`
may fall between any two, and, with `TornWrites` and `TornJournal`, inside a
write.

A line of the journal is `[session, prev, whole]`: whose entry it is, the session
its elapsed time is counted from, and whether its newline is there.  `Junk` is a
line that readers skip, `BadChar` one that makes the file unreadable:
`JournalRaises` is what every later invocation that reads it does then.
`AddLine` lets a new line run into one without a newline; `Roll` drops the oldest
lines; `Prefixes` is what a death inside the rewrite leaves.

Money is one unit per billed call.  The clock is two facts: `due` and `expired`.

### RunLock

One action per file operation of `acquire_lock`: look, read, judge, unlink, open,
write.  The lock's content is a pid or garbage, with its age as one fact.  Pids
are taken and left by other processes of the host.  `raced` and `overlong` are
history: two invocations were acquiring at once; a session outlived
`lock_stale_s`.  Both are possible: nothing makes `acquire_lock` atomic, and 50
waits of 300 s are longer than the default `lock_stale_s` of 7200 s.

### AgentLoop and Repetition

A tool call is `[tool, sig, valid]`.  `Inject` is one row of the session-start
injections: `HarnessReads` that call the harness from the loop's own thread, with
no watchdog, and `FileReads` that do not.  `SendRequest`, `AttemptFailed`,
`Retry`, `GiveUp`, `Answered` are `_call_model`; `OverTokenCap`, `NoToolCalls`,
`TakeBatch` what `run` does with an answer; `Skip`, `Dispatch`, `Return`,
`TimesOut` one call of the batch; `OneErrorTooMany`, `WithinErrors`, `EndedBatch`,
`Repeats`, `AtToolCap`, `NextIntent`, `BatchDone` the checks after it, in the
order of the code.  `LateFinish` is a thread that outlived its watchdog and still
writes the field `last_shell`.  `rows` is the history of the executed calls, waits
apart, which the tracker is never shown either; a row (`RowNow`) keeps its call's
outcome and the shell record it was given.

`Repetition!Record` is `record`; `Tripped` its verdict; `RuleOf` the definition
it is compared with, which reads the rules off the whole list of calls.

### SessionTools, Workspace and HarnessClient

`Workspace` is the file system and what changes it.  A path is a sequence of
segments, a file its size; `Resolve` is `resolve_path`, `Rel` the name a row
gives.  A call of `workspace_write` or `workspace_delete` is a job with a step of
its own: `StatExisting`, the walk (`ListForCall`, `StatForCall`, and `WalkRaises`
when a listed file is gone), `Weigh` for the quota, `Put` or `Unlink`, the second
walk, `Emit`.  `AgentProcess` is what runs in the container and takes no notice of
the quota.  `account` is history: the tree that somebody replaying the rows has.

`HarnessClient` is the private event loop (`evloop`), the manager task on it
(`manager`), the session it sets and unsets, the future of each caller, and
`close` in three steps.  The child may die and any wait may never end.

`SessionTools` is the session's own thread over both, and the container: `up`,
its RestartCount `count`, the count the next snapshot compares with (`last`).
`Snapshot` is `Environment.snapshot`: inspected, started if it does not run, read
(`Read`) or unreadable (`Unread`, which passes None on as `last`).  What a
snapshot has to tell is not taken from `last` but from history: `known` is the
count the last snapshot that read one read, of this session or an earlier one,
`down` that the container went down since, `reset` that a start of the
scaffold's set the count back since.  The session begins with any of these an
earlier one can have left.  `GiveUp` is the loop's watchdog: the job goes on.
From `BeginClose` on nothing looks at files or container any more.

### KeeperLedger

The keeper is outside this repository and modelled from how `keeper.py` and
`runner.py` use it (its definitions are marked external): `Broadcast`,
`Unconfirmed`, `Confirm`, `LensAdvances`.  A late receipt has no lens block.
`BeginRead`, `ReadBook`, `ReadAgain`, `Silent`, `NoBooks`, `ReadDone` are the
read; `Tell` one telemetry row; `Save` the cursor.  A crash may fall anywhere;
`LoseCache` is a `state.json` that cannot be read.

### ShellExec

The container and the daemon are external: a command that writes, ends by itself
or by the wrapper's signal, may leave a detached process that holds the streams,
and a daemon that closes the stream or dies.  `OpenSinks`, `StartExec`,
`ExecRefused`, `CutFrame`, `Receive`, `StreamEnds`, `PastDeadline`,
`ConnectionLost` are `Environment.shell` and `_stream_exec`; `ExitSeen`,
`StillRunning`, `ExitNeverSeen`, `PollFails` are `_exit_code`; `Raise` is the
cleanup of a `DockerError`; `WriteLog` is `_write_log`.  The disk may refuse the
call at each place it is used: `SinksRefused` (a directory or a part file),
`WriteRefused` (a sink's write, which `_stream_exec` takes for its socket's
error), `LogRefused` (a close, the log, an unlink), and inside `Raise`; `refused`
remembers it.  Only a `DockerError` has a cleanup, so such a call may leave part
files or a cut log.  The connection is a
sequence of units, a frame a header of `HeaderSize` units and its bytes, and a
`recv` takes any prefix.  The clock is which of the deadlines has passed.  Five
seconds are taken to be enough to close and read out a stream that nothing
holds.

## 3. The runs

| run | question | distinct states |
|---|---|---|
| `lifecycle_crashes` | do three sessions under two deaths and any mix of invocations leave a stream that is in order, closed once, without overlap, with totals that agree, and a journal whose entries count on from one another although it is cut and rolled? | 513,725 |
| `lifecycle_requests` | with two requests a session, a death and a refusal: is every billed request accounted for, is the budget gate sound, does the cache agree with the stream, does `StreamInv` hold, is `SessionLedger` implemented; and does a spent run complete and an open session get closed, with nobody acting but cron? | 234,627 |
| `lock_invocations` | can two invocations be inside without a race or an overlong session; can the run be locked out for good? | 178,610 |
| `loop_caps` | every tool, outcome, cap, rule of the breaker and carried wake: is the session bounded, is its end final, does it stop at exactly the call that breaks a rule, is the wake the last one asked for, whose is a row's shell record, is `ModelCalls` implemented, does it end although calls hang? | 945,326 |
| `session_tools` | with calls given up on, a container that stops or restarts, snapshots that read none, an agent's process that changes files, a disk that refuses and a child that dies: do names lead back, is the quota kept up to what was given up on, do the rows account for the tree, is a restart told, does the client's bookkeeping hold, is the session over? | 787,756 |
| `keeper_reads` | is each transaction told, once, with its final status, and does none fall behind the cursor? | 432,938 |
| `shell_streams` | does a shell call say what the command wrote, does its log, is a kill told, is a command that ran never an error, does it leave nothing behind, is what the disk refuses never a result, and does it end? | 365,588 |
| `journal_gap`, `teardown_gap`, `torn_line`, `lock_overlap`, `loop_rows` | five sentences of the repository that the code does not keep (section 6) | counterexamples |

**Bounds and why they are enough.**  `MaxSessions`, `MaxRequests`, `MaxCrashes`,
`MaxRefusals`, `MaxDeaths`, `MaxLens`, `MaxFailures`, `MaxBatch`, `MaxLen`,
`MaxCalls`, `MaxTroubles`, `MaxBytes` and `MaxFrame` are bounds of the model; the
others are configuration of the program, taken small.

- Lifecycle: a session starts only when the one before is closed, so what a step
  can see is the session under way, the one before it, and the order of the two.
  Three sessions and two deaths reach a death in each step, a death in the
  recovery of a death, and a session after both (`lifecycle_crashes`).  The
  journal keeps two entries there (`JournalMax` 2): the second counts from the
  first, the third entry rolls the first away, and with
  `TornJournal` each write of it may be cut.  A second request tells one phantom
  from several, and a refused attempt gives its number back
  (`lifecycle_requests`); the liveness is checked there, over a death at any step.
  The theorems remove the bounds for what they state.
- Lock: two slots and three pids, so that a dead holder's pid may belong to the
  other invocation, to a foreign process or to nobody; two deaths leave a lock
  from a death while breaking another's.
- Loop: each cap can be the one that ends a session (`RetryMax` 1, `MaxErr` 2,
  `ToolCap` 3, batches of 2, so that a batch is cut by each of them with a wake
  behind).  Within three calls a call repeats, a tool fails twice in a row and the
  window of 3 fills with too few distinct calls; all three rules trip.  It does
  not slide there, since the session ends at three calls: `StopsExactly` proves the
  slide for every cap and every window.
  Two injections call the harness and one reads a file.
  `LoopRows` needs one injected row.
- Tools: two calls, so that one given up on runs beside the next; three files,
  one of them the plan, of at most one byte with a quota of one.  Two calls can
  write two of them, which is the quota and the slack of one call given up on, so
  a third file, there from before, is what could break the bound: it is reached,
  and judging the quota by the tree before the write breaks it also where a call
  was given up on.  One trouble of any kind at any moment; a snapshot that reads
  none is one.  The RestartCount begins at one (`Restarts`), with a count last
  read that is none, the same or another, and with or without a start between
  that no snapshot read.  A path names its file with and without `workspace`, and
  leads to a directory, to a read-only root and out.
- Keeper: one book.  Books share only the set of told hashes, and no two of them
  a hash.  Two hashes keep one open beside one told; two lens blocks put one
  behind the cursor.  `Verdicts` is one value since success and revert take the
  same path.
- Shell: headers of two units and frames of one or two bytes, so that a piece
  ends inside a header, between header and payload, inside a payload and across
  two frames; three bytes in all, with a result of one byte and a log of two, so
  that both bounds cut.

**Deadlock** is checked in the lifecycle, lock and keeper runs unless the run
really may stop: the loop and the shell runs end in `done`, the session of
`session_tools` in `gone`, and in `torn_line` no invocation can do anything, which
is its point.

**Fairness.**

- `RunLifecycle!FairSpec`: cron keeps firing while its line is there
  (`ScheduledRun`); a started process keeps going (`Proceed`), which the caps
  of `AgentLoop` justify; time passes (`WakeComesDue`).  Nobody need run anything
  by hand, and nothing obliges `t_max` to pass or a process to crash.  A journal
  cut inside a character does not stop a spent run from completing: what closes
  the session comes before what raises.
- `RunLock!FairSpec`: invocations keep starting, each keeps going through its
  own steps, and a lock gets old.  No fairness of deaths or of the pids others
  use.
- `AgentLoop!FairSpec`: the loop's own steps, but for the injections that call
  the harness: `execute` waits with no timeout and no watchdog is around them, so
  `SessionEnds` says "unless one of them is never answered".  The return of a
  call that may hang is *not* fair, nor is a late thread: only the watchdog ends
  such a call.
- `SessionTools!FairSpec`: the session's own thread (`Own`) and nothing else:
  not the threads of the calls, the event loop, the child, the container.  Each
  of its waits has a timeout, the same two reads of the harness apart.
- `KeeperLedger!FairSpec`: the scaffold keeps taking its steps and, after at
  most `MaxFailures` failures, its requests are answered.  The keeper itself owes
  nothing: it is not obliged to sign or to confirm.  That reads go on for ever is
  more than the code gives: it reads at each session start and for the last time
  at `run_complete`, so a receipt that becomes final after that read is never
  told.  `EveryReceiptTold` says that no receipt is passed over as long as the run
  reads, not that the last read is late enough.
- `ShellExec!FairSpec`: the client's steps, the clock, the wrapper's KILL and the
  close of a stream that nothing holds.  A command may ignore TERM, a detached
  process may hold on for ever, the daemon need never learn that the exec ended.

## 4. The theorems

Each assumes only what the constants' assumptions say (`BoundsAssumption`,
`LockAssumption`, `RepetitionAssumption`, `LoopAssumption`, `WorkspaceAssumption`,
`SessionToolsAssumption`, `KeeperAssumption`, `ShellAssumption`): naturals, nonzero
caps and finite sets, no particular size.

`RunLifecycleProofs`.  None of the stream's properties is inductive: each is
about the whole log, and each step appends on the strength of what an invocation
folded long before.  `StreamInv` (in `RunLifecycleInv`) says what is known at each
`pc`: that from the fold to the first session row `events` is still the stream
(`Synced`), that the counter is the highest number or one past it
(`CounterInv`), which session is open (`OpenInv`), which of its requests are
unanswered (`RequestInv`), and that nothing of a session follows
`run_complete` (`OverInv`).  The proof has one lemma per kind of row appended
(what a `session_start`, an `llm_request`, ... does to each fold) and one step
per action.  From it: `NumberedInOrder`, `ClosedAtMostOnce`, `NoOverlap`,
`RequestsAccounted`, `CallsPairedOnce`, `CompleteIsFinal`, and `TypeCorrect`.

`RunAccountsProofs` rests on `StreamInv`.  `StepWrites` comes first: a step
appends one row or none, and a request is the loop's next.  Then, with one
counting lemma for what a row adds to each sum (`CountsOfRow`):

- *the sums* (`SumsStep`): the loop's own count of its calls is that of its rows,
  the folded count is still that of the stream through the teardown, and between
  the boundary and the first row less than the budget is spent (`ClaimInv`).
  Hence `Totals` and `OvershootIsOneSession`.
- *the cache* (`CacheStep`): whoever is done with it has left it right, and no
  death means a readable journal.  Hence `CacheIsTrue`.
- *the journal* (`JournalStep`): it is a chain of ended sessions, each behind the
  one that is written next.  A cut or a roll leaves a stretch of the chain
  (`PartIsChained`), a line that runs into another breaks nothing
  (`ChainedNext`).  Hence `JournalIsChained`.
- *the ledger* (`LedgerStep`): one request at most is owed, by the open session
  (`OwedInv`); each kind of row is the action of `SessionLedger` of its name
  (`RowOpens`, `RowAsks`, `RowSettles`, `RowCloses`, `RowFinishes`) and any other
  leaves the mapping alone.  Hence `StreamIsALedger`: the refinement.
- *the session* (`SeqInv`): nothing of one invocation's loop reaches the next, so a
  session starts where `ModelCalls` does, and until it ends or its process dies it
  takes the steps of `ModelCalls` and no others.  Hence `SessionsAreModelCalls`: with
  `IsASequenceOfCalls` of `AgentLoop`, what the run assumes of a session is what the
  loop does.

`RunLockProofs`.  `LockInv`: unless raced or overlong, whoever is inside has its
pid in the lock, whoever is acquiring is alone, and what it has read is what
is there.  Hence `Serialized`.

`AgentLoopProofs`.  No cap of the program counts model requests.  `LoopInv` is
the accounting that bounds them all the same: turns are paid for by executed
calls, `MaxErr` each, plus the errors in a row (`TurnsInv`), and requests by
`RetryMax + 1` per turn (`RequestsInv`).  Hence `Bounded`: at most
`(RetryMax + 1) * ToolCap * MaxErr` requests.  `IsASequenceOfCalls` shows that
each step of the loop is a step of `ModelCalls` or a stutter; `EndStands` that
after `end_session` nothing is asked, executed or rescheduled.  Three more rest on
what the loop's state tells of its history:

- *the breaker* (`BreakerInv`): the tracker's streaks are those of the whole
  history (`Streak`), its window the latest calls (`Latest`), the slide of the
  deque included (`RecordTracks`); so its verdict is the rule read off all calls
  (`TrippedIsRule`), rule by rule.  Hence `StopsExactly`.
- *the wake* (`WakeInv`): it is the last one asked for in the rows, and behind a
  cut the highest one among the intents left over.  Hence `WakeStands`.
- *the shell record* (`RecordInv`): only a shell call that timed out comes back
  late, so what a row finds in `last_shell` is its own call's, nothing, or that of
  a late one before it.  Hence `RowsTellOwnOrLate`.

`SessionToolsProofs`.  `ToolsInv` has these parts: the client's bookkeeping
(`ClientInv`), what the RestartCount can say of the container since it was last
read (`ContainerInv`: as long as no start set it back behind that read, it is
what was read exactly if the container has not gone down, or higher once it is up
again; and `last` is that count or, behind a snapshot that read none, None), who still works and that it was given up on if it is not
its turn (`CallsInv`); as long as nothing but calls in their turn changes the
tree, that a walk finds what it listed and the rows' tree is the tree, up to the
one call that has changed it and not told yet (`Orderly`), and that what a walk has
counted and what it is still to count add up to what is there (`Counted`); and as
long as no process in the environment writes, the quota (`QuotaInv`).  Hence
`RestartsAreTold` and `RowsAccount`.  Three things took work of their own:

- *the totals*: a sum over a tree is a fold over a set, about which nothing can be
  proved by induction here.  `Held(t, S)` is the number of the bytes of the files
  `S` in tree `t`, a cardinality, with which one file can be set apart
  (`HeldApart`); `TotalIsHeld` shows the total to be that number: of two
  functions that go by the fold's equation there would be a smallest set they
  differ at.
- *the quota*: `QuotaBound` is not inductive.  Each call that was given up on and
  can change the tree no more (`Changers`) has changed one file of it since, by
  `MaxLen` at most, before or behind the walk of any other call; so what the call
  in its turn judges by is off by `Slack`, a file for each of them, and no more
  (`Judges`).  One lemma says what a step that leaves the tree alone keeps
  (`QuotaKept`), one what a late change costs (`QuotaLoosened`), one what the call
  in its turn does (`QuotaInTurn`).  Hence `QuotaHolds`.
- *the names*: `Parts` and `Normal` are folds over a path of any length.
  `FoldExists` gives the partial results of a left fold, by the longest prefix
  that has one; with it `Normal` is the identity on what has no `..` (`NormalSame`),
  and what it returns has none (`NormalClean`), so a file's name resolves to it
  (`LeadsBack`).  Hence `NamesOfFilesLeadBack`, for any set of paths.  The proof
  found `Normal` underdetermined: the arms of its CASE overlapped for a `..` at the
  root, and TLC takes the first.  It is an IF now.

`KeeperLedgerProofs`.  `KeeperInv`: a hash belongs to one book and settles with
one status, what a read has found is outside what was told, and a cursor is past
a broadcast only if its hash is told or open.  Hence `EachToldOnce`,
`EachToldFinal`, `CursorsLead` and `ReadsAreComplete`.

`ShellExecProofs`.  The client works on a buffer of which a part may be cut
anywhere, and "the frames in it" would be a fold.  `WireInv` says it without one:
there is a set of cuts of what is pending (the buffer and the wire behind it) and a
count of each stream's bytes at each cut, such that a whole frame lies between
neighbours, the counts start at the sinks' totals and end at all that was written
(`Framed`).  `SinksInv` says what a sink keeps of its total, `EndInv` that an exchange
that ended left nothing pending.  Hence `StreamsAreIntact`.  `CommandInv` ties the
container, the daemon and the clock to the client's step; in particular, who can
hold a stream that is open past the deadline, and that a call the disk refused
something is over and an error.  Hence `RunsAreTold`, and with the types
`CallCorrect`.

*That nothing goes on for ever.*  Liveness needs fairness and ENABLED, but the half of
it that is safety does not: `NoEndlessSession`, `NoEndlessCall` and
`NoEndlessInvocation` name a measure, four numbers compared from the first to the
last, and show that every step takes it down; `SoonerIsWellFounded` (`NumberFacts`)
shows that there is no endless way down.  In `AgentLoop` the measure begins with the
requests the caps leave (`LoopInv`), then the step of the turn, the intents left of
the answer, and the threads still running beside the loop.  In `ShellExec` it begins
with what the command may still write (`MaxBytes`: one that writes without end is
ended by the wrapper, which is fairness), then what the container, the daemon, the
clock and the client have before them, then the units to receive and cut, then the
polls.  In `RunLifecycle` an invocation goes through its steps in one order, and the
two places it stays at are counted: the phantoms left to complete
(`OnePhantomLess`) and the requests left to the session.  What `SessionEnds`, `CallEnds`
and `EverySessionIsClosed` add, that a step is taken at all, is left to TLC.

**Only model-checked**: the liveness properties (`SpentRunCompletes`,
`EverySessionIsClosed`, `RunIsNeverLockedOut`, `SessionEnds`, `SessionIsOver`,
`EveryReceiptTold`, `CallEnds`), which need ENABLED.

## 5. What is abstracted or not modelled

- What the model says, what tools return, transcripts, prompts, wire formats,
  prices: no property here depends on them.  Adapters are seen as an answer, a
  retryable error or another one.
- The rows of a session that nothing folds (`tool_call`, provenance) are left out
  of `RunLifecycle`, except those of the teardown, whose order matters; those of
  the file tools and the snapshots are in `SessionTools`.
- The journal's entries keep their session and the one their elapsed time counts
  from; their counts, and the slice that is injected, are left out.  Lines are
  what the code means by them: a U+2028 inside a line, which `splitlines` takes
  for an end, is not in the model.
- Of the workspace: symbolic links, directories as objects and their owners,
  the tools that only read.  Of the container: its creation, its probes, and an
  operator's restart of it by hand, which sets its count back and which no
  snapshot can tell.  What a call does in its thread while the client is being
  closed is taken as done before.
- The child's log and the fields of the handshake.
- Truncation, receipts and search are pure functions of text, with nothing later
  that depends on where they cut.  The lens client, the error log and `status`:
  nothing depends on what they answer or leave.  `init` runs once, before any
  session.
- The disk: a write that returned is durable.  A crash is the death of the
  process; `TornWrites` adds a cut row, `TornJournal` a cut journal.  A disk that
  refuses is modelled where the agent can fill it: for the file tools (`PutFails`)
  and for each file of a shell call.

## 6. Where the code and its documents differ

| run | the sentence | what the code does |
|---|---|---|
| `journal_gap` | SPEC I34: every session is journaled | a death between `session_end` and the journal entry leaves none, and recovery looks only at open sessions |
| `teardown_gap` | `runner.py:407`: a run that dies in its teardown is done all again by the next invocation | after an `end-run` by hand nothing marks the intent; the next invocation starts a session |
| `torn_line` | `supervisor.py:10`: a crashed session can never deadlock the run | half a row makes `read_events` raise in every later invocation |
| `lock_overlap` | `state.py:136`: the lock serializes sessions | two invocations that both find no lock both run |
| `loop_rows` | `loop.py:1054`: a shell call's row must not inherit an earlier call's record | a thread that outlived its watchdog writes the field after it was cleared |

Three more have no run of their own; a property of a passing run names each as its
exception:

- SPEC P9 (`SPEC.md:659`): `restarted` is true when the RestartCount moved since
  the last snapshot that read one.  The opening snapshot of a session compares
  with the stream's last count, the closing one with what the opening one read
  (`runner.py:714`).  If that read none, the closing row is compared with None and
  says `restarted: false` though the count moved since an earlier session's read;
  and the next opening compares with the closing row's count, so no row ever tells.
  `RestartIsTold` holds of every other snapshot; without its exception `Blind` TLC
  finds the case.  Related, but no disagreement: a start whose snapshot reads none
  sets the count back, and if the daemon brings it to its old value again it has,
  by the count, not moved, and nothing tells (`reset` in `Went`).
- `environment.py:200`: `shell` raises `DockerError` if docker could not, and a
  command that ran is a result.  A sink's write that the disk refuses is an
  `OSError` inside `_stream_exec`, which reports it as a docker API that cannot be
  reached (`docker_api.py:295`), for a command that ran.  `RanIsTold` names the
  disk (`refused`).  An `OSError` of any other file of the call passes by the only
  cleanup, that of `DockerError` (`environment.py:224`), and leaves part files or
  a cut log (`CallInv`).
- `supervisor.py:51` breaks the lock of a session that outlives `lock_stale_s`, so
  such a session overlaps the next: `SessionsSerialized` (`lock_overlap`) fails for
  it as well as for the race, and `SerializedUnlessRaced` and `LockInv` except both.

## 7. Plan

Done, in this order: `RunLifecycle` with `SessionLedger` and its proofs; `RunLock`
and its proofs; `Repetition`, `AgentLoop`, `ModelCalls` and their proofs;
`KeeperLedger`; `ShellExec`; `Workspace`, `HarnessClient` and `SessionTools` with
their proofs; the journal's rolling and cuts in `RunLifecycle`; `KeeperLedger`
proved; the totals, the cache, the journal and the refinement of `SessionLedger`
proved; the breaker, the wake and the shell record of the loop proved;
`ShellExec` proved; the quota, the totals and the names of `SessionTools` proved;
the fit of `RunLifecycle` with `ModelCalls` proved, and that sessions, calls and
invocations have no endless run; a disk that refuses in `ShellExec`, and the
restarts of earlier sessions in `SessionTools`.

Left:

1. Hazards that no property covers: the walk that raises while files go
   (`scaffold.py:692`), which is modelled and which the code does nothing against;
   a keeper whose lens falls back (`keeper.py:221`); a grant given again between the revoke and the stop
   (`runner.py:849`); the counts in the journal entry of a crashed session
   (`runner.py:886`).
2. The wake after a recovered session, which is the one of the session before.
3. Truncation and the search tool as operators against reference definitions.
