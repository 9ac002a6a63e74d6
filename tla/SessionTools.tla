----------------------------- MODULE SessionTools -----------------------------
(***************************************************************************)
(* One session between its first and its last row (runner.py,              *)
(* _run_one_session), with what it shares with threads and processes that  *)
(* take steps of their own: the harness client's loop, the calls of file   *)
(* tools and of the harness, those given up on included, the container and *)
(* the processes the agent left in it.                                     *)
(*                                                                         *)
(* The model, the caps and what the calls say are AgentLoop's; here the    *)
(* loop is a sequence of at most MaxCalls calls of any kind.  The rung is  *)
(* a shell one with planning: there is an environment and a plan file.     *)
(***************************************************************************)
EXTENDS Workspace

CONSTANTS
  Plan,         \* the plan file
  Restarts,     \* the container's RestartCount when the session begins
  MaxTroubles   \* bound: what befalls the session from outside

ASSUME SessionToolsAssumption ==
  /\ Plan \in Files
  /\ Restarts \in Nat /\ MaxTroubles \in Nat

VARIABLES
  child, evloop, manager, session, ready, shutdown, futures,  \* HarnessClient
  pc,        \* where the session's own thread is
  how,       \* how the session goes: ran, refused, aborted or crashed
  calls,     \* calls dispatched
  given,     \* history: the file calls the watchdog gave up on
  up,        \* the container runs
  count,     \* its RestartCount
  troubles,  \* bounded: what has befallen the session so far
  last,      \* the RestartCount the next snapshot is to compare with, or None
  known,     \* history: the one the last snapshot that read one read, or None
  down,      \* history: it went down since that one
  reset,     \* history: a start of the scaffold's set the count back since then
  restarted, \* telemetry: what the shell_state row being written says
  owed       \* history: what it has to say

Client == INSTANCE HarnessClient WITH Callers <- Actors

clientVars == <<child, evloop, manager, session, ready, shutdown, futures>>
history == <<known, down, reset>>
containerVars == <<up, count, last, history, restarted, owed>>
mainVars == <<pc, how, calls, given>>
vars == <<fileVars, clientVars, containerVars, mainVars, troubles>>

None == -1
Counts == 0..(Restarts + MaxTroubles)
Closing == {"close", "unwind", "join"}
Pcs == Closing \cup {"spawn", "pairing", "opening", "weighOpening", "index",
        "brief", "ask", "balances", "plan", "readPlan", "loop", "calling", "weighClosing",
        "gone"}

TypeOK ==
  /\ FilesTypeOK /\ Client!ClientTypeOK
  /\ pc \in Pcs
  /\ how \in {"ran", "refused", "aborted", "crashed"}
  /\ calls \in 0..MaxCalls /\ given \in SUBSET Calls
  /\ up \in BOOLEAN /\ count \in Counts /\ troubles \in 0..MaxTroubles
  /\ last \in Counts \cup {None} /\ known \in Counts \cup {None}
  /\ down \in BOOLEAN /\ reset \in BOOLEAN
  /\ restarted \in BOOLEAN /\ owed \in BOOLEAN

\* A run's earlier sessions left a tree, a container and, in the stream, the
\* RestartCount they last read, or none; what it has been through since may
\* include a start whose own snapshot read none.
Init ==
  /\ FilesInit /\ Client!ClientInit
  /\ pc = "spawn" /\ how = "ran" /\ calls = 0 /\ given = {}
  /\ up = TRUE /\ count = Restarts /\ troubles = 0
  /\ known \in {None} \cup 0..Restarts /\ last = known
  /\ reset \in (IF known = None THEN {FALSE} ELSE BOOLEAN)
  /\ down = (reset \/ (known /= None /\ known < count))
  /\ restarted = FALSE /\ owed = FALSE

Goto(from, to) == pc = from /\ pc' = to
\* An exception that nothing catches: the finally clause closes the client.
CrashesTo == pc' = "close" /\ how' = "crashed"

-------------------------------------------------------------------------------
(* The container.                                                          *)

WentDown ==
  /\ down' = (known /= None)
  /\ UNCHANGED <<last, known, reset, restarted, owed>>

ContainerStops ==
  /\ up /\ up' = FALSE
  /\ WentDown
  /\ UNCHANGED <<fileVars, clientVars, count>>

\* Its restart policy: the daemon counts.
PolicyRestarts ==
  /\ count' = count + 1
  /\ up' = TRUE
  /\ WentDown
  /\ UNCHANGED <<fileVars, clientVars>>

AgentActs ==
  /\ up /\ AgentProcess
  /\ UNCHANGED <<clientVars, containerVars>>

\* Mutation: only what the scaffold started itself has restarted.
Moved_Never(seen) == FALSE
\* The count is another than the last one read.
Moved(seen) == last /= None /\ seen /= last

\* What there is to tell, whatever the snapshot compares with: the container
\* went down since the last snapshot that read its count, unless a start behind
\* that one set the count back and it has come to where it was, so that by the
\* count, which is what SPEC P9 goes by, it has not moved.
Went(seen) == down /\ ~(reset /\ seen = known)

Befalls == troubles < MaxTroubles /\ troubles' = troubles + 1

\* snapshot: the container is inspected and started if it does not run.  The
\* API may be unreadable at once, after the start, or not at all; a start sets
\* the count back.  The closing snapshot compares with what the opening one
\* read, or with None.
Read(started, seen) ==
  /\ restarted' = (started \/ Moved(seen))
  /\ last' = IF pc = "opening" THEN seen ELSE last
  /\ owed' = (started \/ Went(seen))
  /\ known' = seen /\ down' = FALSE /\ reset' = FALSE
  /\ UNCHANGED troubles
Unread(started) ==
  /\ restarted' = started
  /\ last' = IF pc = "opening" THEN None ELSE last
  /\ owed' = started
  /\ reset' = (reset \/ (started /\ known /= None))
  /\ UNCHANGED <<known, down>>
  /\ Befalls

RowOver == restarted' = FALSE /\ owed' = FALSE

Start == ~up /\ up' = TRUE /\ count' = 0
Snapshot ==
  \/ Unread(FALSE) /\ UNCHANGED <<up, count>>
  \/ Start /\ (Unread(TRUE) \/ Read(TRUE, 0))
  \/ up /\ Read(FALSE, count) /\ UNCHANGED <<up, count>>

-------------------------------------------------------------------------------
(* The session's own thread.                                               *)

Elsewhere == UNCHANGED <<fileVars, containerVars, calls, given>>

\* The constructor's wait for the handshake ends well ...
Connected ==
  /\ Goto("spawn", "pairing") /\ ready = "ok"
  /\ Elsewhere /\ UNCHANGED <<clientVars, how>>

\* ... or in an error or its timeout: it closes itself and raises, and the
\* session ends without one.
Unconnected ==
  /\ Goto("spawn", "close") /\ ready /= "ok"
  /\ how' = "aborted"
  /\ Elsewhere /\ UNCHANGED clientVars

\* check_pairing refuses what the harness owes and did not send.
RefusePairing ==
  /\ Goto("pairing", "close")
  /\ how' = "refused"
  /\ Elsewhere /\ UNCHANGED clientVars

Paired ==
  /\ Goto("pairing", "opening")
  /\ Elsewhere /\ UNCHANGED <<clientVars, how>>

\* The opening snapshot.  The closing one compares with what this one read.
\* (The walk for the row's workspace_bytes comes before the row is written.)
OpeningSnapshot ==
  /\ Goto("opening", "weighOpening")
  /\ Snapshot
  /\ ListFiles(Main)
  /\ UNCHANGED <<tree, jobs, account, outside, clientVars,
                 how, calls, given>>

MainStat ==
  /\ pc \in {"weighOpening", "index", "weighClosing"}
  /\ StatOne(Main)
  /\ UNCHANGED <<tree, jobs, account, outside, clientVars,
                 containerVars, mainVars>>

\* A listed file is gone when its size is asked for: the session crashes.
MainVanished ==
  /\ pc \in {"weighOpening", "index", "weighClosing"}
  /\ Vanished(Main) /\ Forget(Main)
  /\ CrashesTo /\ RowOver
  /\ UNCHANGED <<tree, jobs, account, outside, clientVars,
                 up, count, last, history, calls, given>>

\* The shell_state row is written, and the file index walks the tree again.
Weighed ==
  /\ Goto("weighOpening", "index") /\ Walked(Main)
  /\ RowOver
  /\ ListFiles(Main)
  /\ UNCHANGED <<tree, jobs, account, outside, clientVars,
                 up, count, last, history, how, calls, given>>

\* The index is in the prompt: the injections begin, with the harness's two.
Indexed ==
  /\ Goto("index", "brief") /\ Walked(Main)
  /\ Forget(Main)
  /\ Client!Execute(Main)
  /\ UNCHANGED <<tree, jobs, account, outside,
                 containerVars, how, calls, given>>

\* No watchdog here: the session's own thread waits for each answer.
Injected(from, to) ==
  /\ Goto(from, to) /\ Client!Settled(Main)
  /\ Client!Take(Main)
  /\ Elsewhere /\ UNCHANGED how
Briefed == Injected("brief", "ask")
AskBalances ==
  /\ Goto("ask", "balances")
  /\ Client!Execute(Main)
  /\ UNCHANGED <<fileVars, containerVars, how, calls, given>>
Balanced == Injected("balances", "plan")

\* workspace_read of the plan: is it a file? ...
LookForPlan ==
  /\ pc = "plan"
  /\ pc' = IF Plan \in DOMAIN tree THEN "readPlan" ELSE "loop"
  /\ Elsewhere /\ UNCHANGED <<clientVars, how>>

\* ... and its bytes.  A file gone in between raises an OSError, which the
\* injection, unlike a call of the model's, does not catch.
ReadPlan ==
  /\ pc = "readPlan"
  /\ IF Plan \in DOMAIN tree THEN pc' = "loop" /\ UNCHANGED how ELSE CrashesTo
  /\ Elsewhere /\ UNCHANGED clientVars

Current == calls  \* the number of the call under way, or of the last one

DispatchFileCall ==
  /\ Goto("loop", "calling")
  /\ calls < MaxCalls /\ calls' = calls + 1
  /\ \E p \in Paths :
       \/ BeginFileCall(calls', "delete", p, 0)
       \/ \E n \in Sizes \ {0} : BeginFileCall(calls', "write", p, n)
  /\ UNCHANGED <<clientVars, containerVars, how, given>>

DispatchHarnessCall ==
  /\ Goto("loop", "calling")
  /\ calls < MaxCalls /\ calls' = calls + 1
  /\ Client!Execute(calls')
  /\ UNCHANGED <<fileVars, containerVars, how, given>>

Answered(c) == At(c, "over") \/ Client!Settled(c)

Return ==
  /\ Goto("calling", "loop") /\ Answered(Current)
  /\ Client!Take(Current)
  /\ Elsewhere /\ UNCHANGED how

\* The watchdog: the call goes on in its thread.
GiveUp ==
  /\ Goto("calling", "loop") /\ ~Answered(Current)
  /\ given' = IF Working(Current) THEN given \cup {Current} ELSE given
  /\ account' = IF Working(Current) THEN Void ELSE account
  /\ UNCHANGED <<tree, jobs, walks, outside, clientVars, containerVars, how, calls>>

\* The loop is over, for one of its reasons.
ClosingSnapshot ==
  /\ Goto("loop", "weighClosing")
  /\ Snapshot
  /\ ListFiles(Main)
  /\ UNCHANGED <<tree, jobs, account, outside, clientVars, how, calls, given>>

\* shell_state, session_end and what follows it; then the finally clause.
Ended ==
  /\ Goto("weighClosing", "close") /\ Walked(Main)
  /\ RowOver
  /\ Forget(Main)
  /\ UNCHANGED <<tree, jobs, account, outside, clientVars,
                 up, count, last, history, how, calls, given>>

\* (From here on nothing looks at the files or the container: what a call does
\* in its thread while the client is closed is taken to be done before.)
BeginClose ==
  /\ Goto("close", "unwind") /\ Client!CloseTell
  /\ jobs' = [c \in Calls |-> NoJob]
  /\ last' = None /\ known' = None /\ down' = FALSE /\ reset' = FALSE
  /\ UNCHANGED <<tree, walks, account, outside, up, count, restarted, owed, calls, given, how>>

\* Mutation: the manager is waited for without a timeout.
StopLoop_Patient ==
  /\ Goto("unwind", "join") /\ manager = "ended" /\ Client!CloseStop
  /\ Elsewhere /\ UNCHANGED how
\* The manager came to its end, or its 15 s did.
StopLoop ==
  /\ Goto("unwind", "join") /\ Client!CloseStop
  /\ Elsewhere /\ UNCHANGED how

\* The process is gone, and its threads with it.
Exit ==
  /\ Goto("join", "gone") /\ Client!CloseLoop
  /\ Elsewhere /\ UNCHANGED how

Own ==
  \/ /\ \/ Connected \/ Unconnected \/ RefusePairing \/ Paired
        \/ MainStat \/ MainVanished \/ Weighed \/ Indexed \/ Briefed
        \/ AskBalances \/ Balanced \/ LookForPlan \/ ReadPlan
        \/ DispatchFileCall \/ DispatchHarnessCall \/ Return \/ GiveUp
        \/ Ended \/ BeginClose \/ StopLoop \/ Exit
     /\ UNCHANGED troubles
  \/ OpeningSnapshot \/ ClosingSnapshot

\* The threads beside it, while the process lives.
Closed == pc \in {"unwind", "join", "gone"}
Threads ==
  /\ \/ /\ ~Closed
        /\ \E c \in Calls : FileCallStep(c)
        /\ UNCHANGED clientVars
     \/ /\ pc /= "gone"
        /\ Client!LoopThread
        /\ UNCHANGED fileVars
  /\ UNCHANGED <<containerVars, mainVars, troubles>>

\* What befalls it from outside.
Trouble ==
  /\ Befalls
  /\ \/ /\ ~Closed
        /\ \/ pc /= "weighClosing" /\ (ContainerStops \/ PolicyRestarts)
           \/ AgentActs
           \/ (\E c \in Calls : PutFails(c)) /\ UNCHANGED <<clientVars, containerVars>>
     \/ /\ pc /= "gone"
        /\ Client!ChildDies
        /\ UNCHANGED <<fileVars, containerVars>>
  /\ UNCHANGED mainVars

Next == Own \/ Threads \/ Trouble
Spec == Init /\ [][Next]_vars

\* The session's own thread keeps going: each of its waits but one has a
\* timeout.  Nothing is assumed of the threads beside it or of the child.
FairSpec == Spec /\ WF_vars(Own)

-------------------------------------------------------------------------------
(* The inductive invariant.                                                *)

Walking == {"weighOpening", "index", "weighClosing"}
Unpaired == {"spawn", "gone"} \cup Closing

\* The connection belongs to the manager, and its loop turns until close.
ClientInv ==
  /\ session <=> manager \in {"serving", "unwinding"}
  /\ (ready = "none") <=> (manager = "starting")
  /\ ready = "failed" => manager = "ended"
  /\ pc \notin Unpaired => ready = "ok"
  /\ shutdown => Closed
  /\ evloop /= "running" => pc \in {"join", "gone"}
  /\ futures[Main] /= "none" => pc \in {"brief", "balances"}

\* The closing snapshot compared with nothing, since the opening one read none.
Blind == pc = "weighClosing" /\ last = None

\* What the count can say of the container since it was last read.
ContainerInv ==
  /\ count <= Restarts + troubles
  /\ reset => down
  /\ down => known /= None
  /\ known /= None /\ ~reset =>
       /\ count >= known
       /\ ~down => up /\ count = known
       /\ up /\ down => count > known
  /\ pc \in {"spawn", "pairing", "opening"} => last = known
  /\ pc \notin Unpaired \cup {"weighClosing"} => last \in {None, known}
  /\ owed => restarted \/ Blind

\* Calls are dispatched one after the other, and one that still works when it
\* is not the current one was given up on.
CallsInv ==
  /\ pc = "calling" => calls > 0
  /\ \A c \in Calls :
       /\ c > calls => jobs[c] = NoJob /\ futures[c] = "none"
       /\ Working(c) =>
            /\ futures[c] = "none"
            /\ c \in given \/ (c = Current /\ pc = "calling")
       /\ Working(c) /\ ~At(c, "begun") => jobs[c].file \in Files
       /\ jobs[c].at \in {"list", "weigh", "put"} => jobs[c].kind = "write"
       /\ At(c, "unlink") => jobs[c].kind = "delete"

\* Call c has changed the tree, and not told yet.
Owes(c) == jobs[c].at \in {"relist", "tell"}

\* What holds as long as nothing but calls in their turn changes the tree.
Orderly ==
  /\ given = {} /\ ~outside
  /\ how /= "crashed"
  /\ \A a \in Actors : walks[a].left \subseteq DOMAIN tree
  /\ walks[Main].left /= {} => pc \in Walking
  /\ \A c \in Calls : walks[c].left /= {} => jobs[c].at \in {"weigh", "tell"}
  /\ pc = "readPlan" => Plan \in DOMAIN tree
  /\ \A c \in Calls : At(c, "unlink") => jobs[c].file \in DOMAIN tree
  /\ \A c \in Calls : Owes(c) => tree = Tells(c).tree
  /\ (\A c \in Calls : ~Owes(c)) => account.tree = tree

\* The bytes of those of the files S that tree t has, one by one, and how many.
Bytes(t, S) == {b \in S \X (1..MaxLen) : b[1] \in DOMAIN t /\ b[2] <= t[b[1]]}
Held(t, S) == Cardinality(Bytes(t, S))

\* What the walk of call c has counted, and what it will if the files stay.
Measured(c) == walks[c].sum + Held(tree, walks[c].left)

\* Each call that was given up on and may not change the tree any more has
\* changed it once at most, and one file of it.
MayChange(c) == jobs[c].at \in {"begun", "list", "weigh", "put", "unlink"}
Changers == {c \in given : ~MayChange(c)}
Slack == MaxLen * Cardinality(Changers)

\* What call c goes by when it judges the quota is what is there, up to those
\* changes; the size of the file it replaces does not count.
Judges(c) ==
  LET others == Held(tree, Files \ {jobs[c].file})
  IN  /\ At(c, "list") => others <= Total(tree) - jobs[c].existing + Slack
      /\ At(c, "weigh") => others <= Measured(c) - jobs[c].existing + Slack
      /\ At(c, "put") => others + jobs[c].len <= Quota + Slack

QuotaInv ==
  /\ given \subseteq 1..calls
  /\ Total(tree) <= Quota + Slack
  /\ \A c \in Calls \ given : Judges(c)

\* The walk behind a change finds the bytes that are there.
Counted ==
  /\ \A c \in Calls : At(c, "tell") => Measured(c) = Total(tree)
  /\ (\A c \in Calls : ~Owes(c)) => account.total \in {NoTotal, Total(tree)}

-------------------------------------------------------------------------------
(* Properties.                                                             *)

\* The file tools by themselves keep the workspace within its quota, up to one
\* file for each call the watchdog gave up on: such a call judges the quota by
\* a tree that the next one changes (scaffold.py, workspace_write).
QuotaBound == ~outside => Total(tree) <= Quota + MaxLen * Cardinality(given)

Quiet == \A c \in Calls : ~Working(c)
TreeIsTold == how /= "crashed" /\ (Quiet => account.tree = tree)

\* As long as nobody but the session's calls changes files, each in its turn,
\* and the disk takes every write, the session is not brought down by its own
\* walks, and its telemetry accounts for the workspace: whoever replays its rows
\* from the tree it opened with has the tree, and the last row's total is that
\* tree's (scaffold.py, workspace_write and workspace_delete).
RowsAccountForTree ==
  ~account.void => TreeIsTold /\ (Quiet => account.total \in {NoTotal, Total(tree)})

\* A snapshot that reads the container says so when it went down since the last
\* one that did, in this session or an earlier one, by itself, by its policy or by
\* the scaffold, however many read none in between ("restarted is true when the
\* container's RestartCount moved since the last snapshot that read one or the
\* scaffold itself started it": SPEC.md, P9).  One case is not so: behind an
\* opening snapshot that read none, the closing one is given its None instead of
\* the stream's last count (runner.py, _run_one_session).
RestartIsTold == owed => restarted \/ Blind

\* What close and execute rely on holds between any two steps of the threads:
\* there is a session exactly while the manager has the connection, and the loop
\* stops only when close has stopped it (harness.py, _manager, execute, close);
\* with it what the other invariants rest on, which is inductive.
ToolsInv ==
  /\ TypeOK /\ ClientInv /\ ContainerInv /\ CallsInv
  /\ ~account.void => Orderly /\ Counted
  /\ ~outside => QuotaInv

\* A session ends, whatever its calls, its harness and its container do, unless
\* one of its own two calls of the harness is never answered: those have no
\* watchdog (loop.py, _inject_brief and _inject_balances; harness.py, execute and
\* close).
WaitsForRead == pc \in {"brief", "balances"} /\ ~Client!Settled(Main)
SessionIsOver == <>(pc = "gone") \/ <>[]WaitsForRead

===============================================================================
