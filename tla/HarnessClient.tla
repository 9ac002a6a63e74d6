----------------------------- MODULE HarnessClient ----------------------------
(***************************************************************************)
(* The client of the harness (harness.py): a private event loop in a       *)
(* thread of its own, a manager task on it that owns the connection to the *)
(* child process for the whole session, and callers in other threads that  *)
(* hand it coroutines and wait for their futures.                          *)
(*                                                                         *)
(* The child and the transport are external: the child may die, a          *)
(* handshake, a call and the unwinding of the transport may each never     *)
(* come to an end.                                                         *)
(***************************************************************************)
EXTENDS Naturals

CONSTANT Callers  \* the threads that may call execute

VARIABLES
  child,     \* the harness process
  evloop,    \* the private loop
  manager,   \* the task that owns the connection
  session,   \* _session is set
  ready,     \* the handshake's future
  shutdown,  \* the event close sets
  futures    \* the call of each caller

clientVars == <<child, evloop, manager, session, ready, shutdown, futures>>

Asked == {"none", "waiting", "answered", "failed"}

ClientTypeOK ==
  /\ child \in {"up", "dead"}
  /\ evloop \in {"running", "stopping", "stopped", "closed"}
  /\ manager \in {"starting", "serving", "unwinding", "ended"}
  /\ session \in BOOLEAN
  /\ ready \in {"none", "ok", "failed"}
  /\ shutdown \in BOOLEAN
  /\ futures \in [Callers -> Asked]

\* The constructor up to its wait: the loop runs, the manager is on it.
ClientInit ==
  /\ child = "up"
  /\ evloop = "running" /\ manager = "starting"
  /\ session = FALSE /\ ready = "none" /\ shutdown = FALSE
  /\ futures = [a \in Callers |-> "none"]

\* What is on the loop runs until the loop has taken the stop.
Turning == evloop \in {"running", "stopping"}

-------------------------------------------------------------------------------
(* The loop's thread.                                                      *)

Handshake ==
  /\ Turning /\ manager = "starting" /\ child = "up"
  /\ session' = TRUE /\ ready' = "ok" /\ manager' = "serving"
  /\ UNCHANGED <<child, evloop, shutdown, futures>>

HandshakeFails ==
  /\ Turning /\ manager = "starting"
  /\ ready' = "failed" /\ manager' = "ended"
  /\ UNCHANGED <<child, evloop, session, shutdown, futures>>

\* The manager leaves its contexts: told to, or since the transport raised.
BeginUnwind ==
  /\ Turning /\ manager = "serving"
  /\ shutdown \/ child = "dead"
  /\ manager' = "unwinding"
  /\ UNCHANGED <<child, evloop, session, ready, shutdown, futures>>

\* Mutation: the session is kept for a later caller.
EndUnwind_KeepsSession ==
  /\ Turning /\ manager = "unwinding"
  /\ manager' = "ended"
  /\ UNCHANGED <<child, evloop, session, ready, shutdown, futures>>
EndUnwind ==
  /\ Turning /\ manager = "unwinding"
  /\ manager' = "ended" /\ session' = FALSE
  /\ UNCHANGED <<child, evloop, ready, shutdown, futures>>

Settle(a, how) ==
  /\ Turning /\ futures[a] = "waiting"
  /\ futures' = [futures EXCEPT ![a] = how]
  /\ UNCHANGED <<child, evloop, manager, session, ready, shutdown>>

Answer(a) == child = "up" /\ manager = "serving" /\ Settle(a, "answered")

\* The harness reports an error, or the connection is gone under the call.
CallFails(a) == Settle(a, "failed")

StopTaken ==
  /\ evloop = "stopping" /\ evloop' = "stopped"
  /\ UNCHANGED <<child, manager, session, ready, shutdown, futures>>

ChildDies ==
  /\ child = "up" /\ child' = "dead"
  /\ UNCHANGED <<evloop, manager, session, ready, shutdown, futures>>

LoopThread ==
  \/ Handshake \/ HandshakeFails \/ BeginUnwind \/ EndUnwind \/ StopTaken
  \/ \E a \in Callers : Answer(a) \/ CallFails(a)

-------------------------------------------------------------------------------
(* The callers' side.                                                      *)

\* execute: no session is an error at once, and so is a loop that is closed;
\* else the caller waits for its future, with no timeout.
Execute(a) ==
  /\ futures[a] = "none"
  /\ futures' = [futures EXCEPT ![a] =
       IF ~session \/ evloop = "closed" THEN "failed" ELSE "waiting"]
  /\ UNCHANGED <<child, evloop, manager, session, ready, shutdown>>

Settled(a) == futures[a] \in {"answered", "failed"}

\* The caller returns with what its future has.
Take(a) ==
  /\ futures' = [futures EXCEPT ![a] = "none"]
  /\ UNCHANGED <<child, evloop, manager, session, ready, shutdown>>

\* close, step by step: tell the manager, ...
CloseTell ==
  /\ shutdown' = TRUE
  /\ UNCHANGED <<child, evloop, manager, session, ready, futures>>

\* ... wait for it, for 15 s, and stop the loop, ...
CloseStop ==
  /\ evloop' = "stopping"
  /\ UNCHANGED <<child, manager, session, ready, shutdown, futures>>

\* ... wait for its thread, for 5 s, and close it unless it still runs.
CloseLoop ==
  /\ evloop' = IF evloop = "stopped" THEN "closed" ELSE evloop
  /\ UNCHANGED <<child, manager, session, ready, shutdown, futures>>

===============================================================================
