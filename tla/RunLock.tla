-------------------------------- MODULE RunLock --------------------------------
(***************************************************************************)
(* run.lock (supervisor.py): what serializes the invocations of one run    *)
(* directory.  Invocations of run-session and end-run race for the file;   *)
(* each reads it, judges it, breaks it if stale, writes its own, and       *)
(* unlinks whatever is there when it is done.                              *)
(*                                                                         *)
(* A lock is stale when its pid is dead, it is older than lock_stale_s, or *)
(* it cannot be read.  Pids are reused, by later invocations and by other  *)
(* processes of the host.  The clock is one fact about the file: `old`.    *)
(*                                                                         *)
(* Nothing in the code makes the steps of acquire_lock atomic, and nothing *)
(* bounds a session by lock_stale_s (session_tool_cap waits of             *)
(* wait_max_seconds are 15000 s, the default bound 7200 s).  `raced` and   *)
(* `overlong` record whether either has happened.                          *)
(***************************************************************************)
EXTENDS Naturals, FiniteSets

CONSTANTS
  Procs,      \* slots for invocations: cron's, the operator's
  Pids,       \* process ids of the host
  NoPid,      \* the content of a lock that cannot be read
  MaxDeaths   \* bound: invocations that die without their `finally`

ASSUME LockAssumption ==
  /\ NoPid \notin Pids
  /\ MaxDeaths \in Nat

VARIABLES
  lock,     \* the file at run.lock
  opened,   \* the invocations whose open file is the one at run.lock
  pc,       \* where each invocation is
  pid,      \* its process id
  held,     \* what it read in the lock
  foreign,  \* pids in use by other processes of the host
  raced,    \* history: two invocations were in acquire_lock at once
  overlong, \* history: a session outlived lock_stale_s
  deaths    \* history: invocations that died

vars == <<lock, opened, pc, pid, held, foreign, raced, overlong,
          deaths>>
history == <<raced, overlong, deaths>>

Content == [pid: Pids \cup {NoPid}, old: BOOLEAN]
Garbled == [pid |-> NoPid, old |-> FALSE]
NoLock == [exists |-> FALSE, content |-> Garbled]
LockWith(c) == [exists |-> TRUE, content |-> c]

Acquiring == {"look", "read", "decide", "break", "open", "fill"}

TypeOK ==
  /\ lock \in [exists: BOOLEAN, content: Content]
  /\ opened \in SUBSET Procs
  /\ pc \in [Procs -> Acquiring \cup {"idle", "in"}]
  /\ pid \in [Procs -> Pids \cup {NoPid}]
  /\ held \in [Procs -> Content]
  /\ foreign \in SUBSET Pids
  /\ raced \in BOOLEAN
  /\ overlong \in BOOLEAN
  /\ deaths \in Nat

Init ==
  /\ lock = NoLock
  /\ opened = {}
  /\ pc = [p \in Procs |-> "idle"]
  /\ pid = [p \in Procs |-> NoPid]
  /\ held = [p \in Procs |-> Garbled]
  /\ foreign = {}
  /\ raced = FALSE
  /\ overlong = FALSE
  /\ deaths = 0

Live == {p \in Procs : pc[p] /= "idle"}
Inside(p) == pc[p] = "in"

\* _pid_alive: some process of the host has this pid.
Alive(n) == n \in foreign \cup {pid[p] : p \in Live}

Move(p, from, to) == pc[p] = from /\ pc' = [pc EXCEPT ![p] = to]

\* The process of slot p is gone.
Exit(p) ==
  /\ pc' = [pc EXCEPT ![p] = "idle"]
  /\ pid' = [pid EXCEPT ![p] = NoPid]
  /\ held' = [held EXCEPT ![p] = Garbled]

\* The path has no file any more; open files go on without a name.
Unlink == lock' = NoLock /\ opened' = {}

-------------------------------------------------------------------------------
\* cron, or the operator, starts an invocation.
Start(p) ==
  /\ Move(p, "idle", "look")
  /\ raced' = (raced \/ \E q \in Procs : pc[q] \in Acquiring)
  /\ \E n \in Pids :
       /\ ~Alive(n)
       /\ pid' = [pid EXCEPT ![p] = n]
  /\ UNCHANGED <<lock, opened, held, foreign, overlong, deaths>>

\* lock_path.exists()
Look(p) ==
  /\ Move(p, "look", IF lock.exists THEN "read" ELSE "open")
  /\ UNCHANGED <<lock, opened, pid, held, foreign, history>>

\* _read_lock: a file that has gone meanwhile is an unreadable one.
Read(p) ==
  /\ Move(p, "read", "decide")
  /\ held' = [held EXCEPT ![p] = IF lock.exists THEN lock.content ELSE Garbled]
  /\ UNCHANGED <<lock, opened, pid, foreign, history>>

\* Mutation: the age of a lock is not looked at.
Stale_PidOnly(c) == c.pid = NoPid \/ ~Alive(c.pid)
\* Mutation: an unreadable lock counts as held.
Stale_UnreadableHolds(c) == c.pid /= NoPid /\ (~Alive(c.pid) \/ c.old)
Stale(c) == c.pid = NoPid \/ ~Alive(c.pid) \/ c.old

\* Mutation: the lock is released on the lock_held path too.
Refuse_Releases(p) ==
  /\ pc[p] = "decide"
  /\ ~Stale(held[p])
  /\ Exit(p)
  /\ Unlink
  /\ UNCHANGED <<foreign, history>>
Refuse(p) ==
  /\ pc[p] = "decide"
  /\ ~Stale(held[p])
  /\ Exit(p)
  /\ UNCHANGED <<lock, opened, foreign, history>>

Judge(p) ==
  /\ Move(p, "decide", "break")
  /\ Stale(held[p])
  /\ UNCHANGED <<lock, opened, pid, held, foreign, history>>

Break(p) ==
  /\ Move(p, "break", "open")
  /\ Unlink
  /\ UNCHANGED <<pid, held, foreign, history>>

\* write_text opens the file, creating or emptying it, and then fills it:
\* what it fills is the file it opened, wherever that is by now.
OpenLock(p) ==
  /\ Move(p, "open", "fill")
  /\ lock' = LockWith(Garbled)
  /\ opened' = opened \cup {p}
  /\ UNCHANGED <<pid, held, foreign, history>>

\* Mutation: the invocation goes on before its lock has any content.
Fill_Unwritten(p) ==
  /\ Move(p, "fill", "in")
  /\ lock' = lock
  /\ opened' = opened \ {p}
  /\ UNCHANGED <<pid, held, foreign, history>>
Fill(p) ==
  /\ Move(p, "fill", "in")
  /\ lock' = IF p \in opened THEN LockWith([pid |-> pid[p], old |-> FALSE])
             ELSE lock
  /\ opened' = opened \ {p}
  /\ UNCHANGED <<pid, held, foreign, history>>

\* The invocation returns or raises: release_lock, whoever's lock it is.
Finish(p) ==
  /\ Inside(p)
  /\ Exit(p)
  /\ Unlink
  /\ UNCHANGED <<foreign, history>>

\* Killed: the lock stays.
Die(p) ==
  /\ p \in Live
  /\ deaths < MaxDeaths
  /\ deaths' = deaths + 1
  /\ Exit(p)
  /\ opened' = opened \ {p}
  /\ UNCHANGED <<lock, foreign, raced, overlong>>

-------------------------------------------------------------------------------
\* The host's other processes take free pids and leave them.  Bound: one
\* such pid at a time.
TakePid ==
  /\ foreign = {}
  /\ \E n \in Pids : ~Alive(n) /\ foreign' = {n}
  /\ UNCHANGED <<lock, opened, pc, pid, held, history>>
LeavePid ==
  /\ foreign /= {}
  /\ foreign' = {}
  /\ UNCHANGED <<lock, opened, pc, pid, held, history>>

\* lock_stale_s passes over the lock there is.
Age ==
  /\ lock.exists
  /\ lock.content.pid /= NoPid
  /\ ~lock.content.old
  /\ overlong' = (overlong \/ \E p \in Procs : Inside(p) /\ pid[p] = lock.content.pid)
  /\ lock' = [lock EXCEPT !.content.old = TRUE]
  /\ UNCHANGED <<opened, pc, pid, held, foreign, raced, deaths>>

Acquire(p) ==
  Look(p) \/ Read(p) \/ Refuse(p) \/ Judge(p) \/ Break(p) \/ OpenLock(p) \/ Fill(p)

Next ==
  \/ \E p \in Procs : Start(p) \/ Acquire(p) \/ Finish(p) \/ Die(p)
  \/ TakePid \/ LeavePid \/ Age

Spec == Init /\ [][Next]_vars

\* cron keeps starting invocations, a started one goes on, time passes.
FairSpec ==
  /\ Spec
  /\ \A p \in Procs : WF_vars(Start(p)) /\ WF_vars(Acquire(p) \/ Finish(p))
  /\ WF_vars(Age)

-------------------------------------------------------------------------------
\* state.py crashed_session: "the lockfile serializes sessions".
SessionsSerialized == \A p, q \in Procs : Inside(p) /\ Inside(q) => p = q

\* What the lock does give: two invocations are inside at once only when two
\* of them were in acquire_lock at once or a session outlived lock_stale_s.
\* Deaths, unreadable locks and reused pids are not enough.
SerializedUnlessRaced == raced \/ overlong \/ SessionsSerialized

\* No lock, whatever died with it, and whoever has its pid by now, keeps the
\* run locked for ever (supervisor.py: "a crashed session can never deadlock
\* the run").
RunIsNeverLockedOut == []<>(\E p \in Procs : Inside(p))

-------------------------------------------------------------------------------
(* The inductive invariant of SerializedUnlessRaced.                       *)

\* The holder's lock is at run.lock, is its own and is not stale.
HolderHasLock ==
  \A p \in Procs : Inside(p) =>
    lock = LockWith([pid |-> pid[p], old |-> FALSE])

OneAcquires ==
  \A p, q \in Procs : pc[p] \in Acquiring /\ pc[q] \in Acquiring => p = q

\* Live invocations have pids of their own.
PidsDiffer ==
  \A p, q \in Live : pid[p] \in Pids /\ (pid[p] = pid[q] => p = q)

\* What an invocation in acquire_lock knows of one inside.
TakerKnows ==
  \A p, q \in Procs : Inside(q) =>
    /\ pc[p] \notin {"break", "open", "fill"}
    /\ pc[p] = "decide" => held[p] = [pid |-> pid[q], old |-> FALSE]

\* The file being filled is the one at run.lock.
OwnFile == \A p \in Procs : pc[p] = "fill" => p \in opened

LockInv ==
  /\ TypeOK
  /\ PidsDiffer
  /\ ~raced /\ ~overlong =>
       /\ HolderHasLock
       /\ OneAcquires
       /\ TakerKnows
       /\ OwnFile
       /\ SessionsSerialized

===============================================================================
