------------------------------- MODULE ShellExec -------------------------------
(***************************************************************************)
(* One `shell` call (scaffold.py, environment.py, docker_api.py): the      *)
(* command runs in the container under `timeout -k`, the daemon multiplexes *)
(* its two streams into frames over one connection, and the client cuts    *)
(* the frames out of whatever pieces the socket hands it, into one sink    *)
(* per stream: a head for the result and a file for the log.               *)
(*                                                                         *)
(* The container and the daemon are external.  The k-th byte of stream s   *)
(* is <<s, k>>; a frame is HeaderSize units, each naming its stream and    *)
(* size, and then its bytes.  The clock of the call is what has passed:    *)
(* nothing, t (the wrapper sends TERM), t and the kill grace (KILL), or    *)
(* the client's own deadline, five seconds later.                          *)
(***************************************************************************)
EXTENDS Naturals, Sequences

CONSTANTS
  HeaderSize,  \* bytes of a frame header
  Half,        \* bytes of one stream in the result
  LogMax,      \* SHELL_LOG_MAX_BYTES, of one stream
  MaxPolls,    \* inspections of an exec that has not ended
  MaxBytes,    \* bound: bytes a command writes in all
  MaxFrame     \* bound: bytes of one frame

ASSUME ShellAssumption ==
  /\ HeaderSize \in Nat \ {0}
  /\ Half \in Nat /\ LogMax \in Nat
  /\ MaxPolls \in Nat \ {0}
  /\ MaxBytes \in Nat /\ MaxFrame \in Nat \ {0}

VARIABLES
  command,   \* external: "none", "running" or "ended"
  code,      \* external: the exit code of the wrapper
  wrapped,   \* external: did the wrapper's signal end it?
  detached,  \* external: the process it left holding the streams: "none",
             \* "holding" or, once it let go, "gone"
  written,   \* external: bytes written on each stream
  wire,      \* external: units sent by the daemon and not received
  daemon,    \* external: "up", "closed" (the stream ended) or "down"
  reaped,    \* external: does the daemon know that the exec ended?
  clock,     \* what of the call's time has passed
  pc,        \* where the client is
  buffer,    \* units received and not cut into frames
  sinks,     \* head, log part and byte total of each stream
  parts,     \* files: the .part files
  log,       \* files: what the log keeps of each stream
  refused,   \* history: the disk refused the call something
  polls,     \* inspections so far
  result     \* what the call returned

outside == <<command, code, wrapped, detached, written, daemon, reaped>>
disk == <<parts, log, refused>>
client == <<pc, buffer, sinks, disk, polls, result>>
vars == <<outside, wire, clock, client>>

Streams == {"stdout", "stderr"}
Byte == Streams \X (Nat \ {0})
HeaderUnit == {"header"} \X Streams \X (Nat \ {0})
Codes == {0, 1, 124, 137}
TimedOutExitCodes == {124, 137}
Unknown == 256  \* no exit code was observed: None
Before == 0
Term == 1
Kill == 2
Deadline == 3

NoResult == [kind |-> "none", exit |-> Unknown, timedOut |-> FALSE]
Failed == [kind |-> "error", exit |-> Unknown, timedOut |-> FALSE]
Sink == [head: Seq(Byte), kept: Seq(Byte), total: Nat]
NoLog == [s \in Streams |-> <<>>]
NewSink == [head |-> <<>>, kept |-> <<>>, total |-> 0]

TypeOK ==
  /\ command \in {"none", "running", "ended"}
  /\ code \in Codes /\ wrapped \in BOOLEAN /\ detached \in {"none", "holding", "gone"}
  /\ written \in [Streams -> Nat]
  /\ wire \in Seq(Byte \cup HeaderUnit) /\ buffer \in Seq(Byte \cup HeaderUnit)
  /\ daemon \in {"up", "closed", "down"} /\ reaped \in BOOLEAN
  /\ clock \in Before..Deadline
  /\ pc \in {"idle", "created", "stream", "code", "log", "done"}
  /\ sinks \in [Streams -> Sink]
  /\ parts \in SUBSET Streams
  /\ log \in [Streams -> Seq(Byte)] /\ refused \in BOOLEAN
  /\ polls \in 0..MaxPolls
  /\ result \in [kind: {"none", "result", "error"}, exit: Codes \cup {Unknown},
                 timedOut: BOOLEAN]

Init ==
  /\ command = "none" /\ code = 0 /\ wrapped = FALSE /\ detached = "none"
  /\ written = [s \in Streams |-> 0]
  /\ wire = <<>> /\ daemon = "up" /\ reaped = FALSE
  /\ clock = Before
  /\ pc = "idle" /\ buffer = <<>> /\ sinks = [s \in Streams |-> NewSink]
  /\ parts = {} /\ log = NoLog /\ refused = FALSE
  /\ polls = 0 /\ result = NoResult

-------------------------------------------------------------------------------
(* The command, its wrapper and the daemon.                                *)

Holding == command = "running" \/ detached = "holding"

Frame(s, n) ==
  [i \in 1..HeaderSize |-> <<"header", s, n>>]
    \o [i \in 1..n |-> <<s, written[s] + i>>]

Write(s, n) ==
  /\ Holding /\ daemon = "up"
  /\ written["stdout"] + written["stderr"] + n <= MaxBytes
  /\ wire' = wire \o Frame(s, n)
  /\ written' = [written EXCEPT ![s] = @ + n]
  /\ UNCHANGED <<command, code, wrapped, detached, daemon, reaped, clock, client>>

\* The command ends by itself, or by the wrapper's signal, and may leave a
\* process behind; the wrapper's signal reaches those it did not detach.
Ends(c, byWrapper) ==
  /\ command = "running" /\ command' = "ended"
  /\ code' = c /\ wrapped' = byWrapper
  /\ detached' \in {"none", "holding"}
  /\ UNCHANGED <<written, wire, daemon, reaped, clock, client>>

EndsItself == \E c \in Codes : Ends(c, FALSE)
Termed == clock >= Term /\ Ends(124, TRUE)
Killed == clock >= Kill /\ Ends(137, TRUE)

DetachedEnds ==
  /\ detached = "holding" /\ detached' = "gone"
  /\ UNCHANGED <<command, code, wrapped, written, wire, daemon, reaped, clock, client>>

StreamCloses ==
  /\ command = "ended" /\ ~Holding
  /\ daemon = "up" /\ daemon' = "closed"
  /\ UNCHANGED <<command, code, wrapped, detached, written, wire, reaped, clock, client>>

Reap ==
  /\ command = "ended" /\ ~reaped /\ reaped' = TRUE
  /\ UNCHANGED <<command, code, wrapped, detached, written, wire, daemon, clock, client>>

DaemonDies ==
  /\ daemon /= "down" /\ daemon' = "down"
  /\ UNCHANGED <<command, code, wrapped, detached, written, reaped, wire, clock, client>>

\* The command is killed, its stream closed and what is on the wire read
\* within the five seconds between the KILL and the client's deadline; only
\* a detached process or a dead daemon keeps the stream open past it.
Tick ==
  /\ command /= "none" /\ clock < Deadline
  /\ clock = Kill =>
       /\ command = "ended"
       /\ detached /= "none" \/ daemon = "down" \/ pc /= "stream"
  /\ clock' = clock + 1
  /\ UNCHANGED <<outside, wire, client>>

-------------------------------------------------------------------------------
(* The client.                                                             *)

OpenSinks ==
  /\ pc = "idle" /\ pc' = "created"
  /\ parts' = Streams
  /\ UNCHANGED <<outside, wire, clock, buffer, sinks, log, refused, polls, result>>

\* A directory or a part file cannot be made: the OSError is the call's, and
\* a first part file stays behind.
SinksRefused ==
  /\ pc = "idle" /\ pc' = "done" /\ result' = Failed
  /\ parts' \in {{}, {"stdout"}} /\ refused' = TRUE
  /\ UNCHANGED <<outside, wire, clock, buffer, sinks, log, polls>>

\* Mutation: the part files are left to the next call.
Raise_LeavesParts ==
  /\ pc' = "done" /\ result' = Failed
  /\ UNCHANGED <<disk, buffer, sinks, polls>>
\* DockerError: both sinks closed, both part files removed, nothing logged,
\* unless the disk refuses one of these too.
Raise ==
  /\ pc' = "done" /\ result' = Failed
  /\ \/ parts' = {} /\ UNCHANGED refused
     \/ parts' \in {Streams, {"stderr"}} /\ refused' = TRUE
  /\ UNCHANGED <<buffer, sinks, log, polls>>

\* The exec is created and started, or the daemon refuses (no container).
StartExec ==
  /\ pc = "created" /\ daemon = "up"
  /\ pc' = "stream" /\ command' = "running"
  /\ UNCHANGED <<code, wrapped, detached, written, wire, daemon, reaped, clock,
                 buffer, sinks, disk, polls, result>>

ExecRefused ==
  /\ pc = "created"
  /\ Raise
  /\ UNCHANGED <<outside, wire, clock>>

Size(u) == u[3]
Complete == Len(buffer) >= HeaderSize /\ Len(buffer) >= HeaderSize + Size(buffer[1])

First(s, n) == SubSeq(s, 1, n)
Room(s, max) == IF Len(s) < max THEN max - Len(s) ELSE 0
Least(m, n) == IF m < n THEN m ELSE n

Feed(sink, payload, n) ==
  [head |-> sink.head \o First(payload, Least(n, Room(sink.head, Half))),
   kept |-> sink.kept \o First(payload, Least(n, Room(sink.kept, LogMax))),
   total |-> sink.total + n]

CutFrame ==
  /\ pc = "stream" /\ Complete
  /\ LET s == buffer[1][2]
         n == Size(buffer[1])
         payload == SubSeq(buffer, HeaderSize + 1, HeaderSize + n)
     IN /\ sinks' = [sinks EXCEPT ![s] = Feed(@, payload, n)]
        /\ buffer' = SubSeq(buffer, HeaderSize + n + 1, Len(buffer))
  /\ UNCHANGED <<outside, wire, clock, pc, disk, polls, result>>

\* A sink cannot write what it has room for: an OSError like the socket's, so
\* it is told as a daemon that cannot be reached.  (What the sinks hold is
\* dropped with the call.)
WriteRefused ==
  /\ pc = "stream" /\ Complete
  /\ Room(sinks[buffer[1][2]].kept, LogMax) > 0
  /\ pc' = "done" /\ result' = Failed
  /\ parts' \in {{}, Streams, {"stderr"}} /\ refused' = TRUE
  /\ UNCHANGED <<outside, wire, clock, buffer, sinks, log, polls>>

\* A recv returns some of what was sent, cut anywhere.
Receive(n) ==
  /\ pc = "stream" /\ ~Complete /\ clock < Deadline
  /\ n <= Len(wire)
  /\ buffer' = buffer \o First(wire, n)
  /\ wire' = SubSeq(wire, n + 1, Len(wire))
  /\ UNCHANGED <<outside, clock, pc, sinks, disk, polls, result>>

StreamEnds_AtExit ==
  /\ pc = "stream" /\ ~Complete /\ clock < Deadline
  /\ wire = <<>> /\ (daemon = "closed" \/ command = "ended")
  /\ pc' = "code"
  /\ UNCHANGED <<outside, wire, clock, buffer, sinks, disk, polls, result>>
StreamEnds ==
  /\ pc = "stream" /\ ~Complete /\ clock < Deadline
  /\ wire = <<>> /\ daemon = "closed"
  /\ pc' = "code"
  /\ UNCHANGED <<outside, wire, clock, buffer, sinks, disk, polls, result>>

PastDeadline_NoGrace ==
  /\ pc = "stream" /\ ~Complete /\ clock >= Term
  /\ Raise
  /\ UNCHANGED <<outside, wire, clock>>
PastDeadline_OnData ==
  /\ pc = "stream" /\ ~Complete /\ clock = Deadline /\ wire /= <<>>
  /\ Raise
  /\ UNCHANGED <<outside, wire, clock>>
PastDeadline ==
  /\ pc = "stream" /\ ~Complete /\ clock = Deadline
  /\ Raise
  /\ UNCHANGED <<outside, wire, clock>>

ConnectionLost ==
  /\ pc = "stream" /\ ~Complete /\ daemon = "down"
  /\ Raise
  /\ UNCHANGED <<outside, wire, clock>>

\* The exchange is over: the exit code as observed, and whether it is the
\* wrapper's and arrived at or past t.
Observed(exit) ==
  [kind |-> "result", exit |-> exit,
   timedOut |-> exit \in TimedOutExitCodes /\ clock >= Term]

PollsOut == pc = "code" /\ polls = MaxPolls

ExitSeen ==
  /\ pc = "code" /\ ~PollsOut /\ daemon /= "down" /\ reaped
  /\ result' = Observed(code)
  /\ pc' = "log"
  /\ UNCHANGED <<outside, wire, clock, buffer, sinks, disk, polls>>

StillRunning ==
  /\ pc = "code" /\ ~PollsOut /\ daemon /= "down" /\ ~reaped
  /\ polls' = polls + 1
  /\ UNCHANGED <<outside, wire, clock, pc, buffer, sinks, disk, result>>

ExitNeverSeen ==
  /\ PollsOut
  /\ result' = Observed(Unknown)
  /\ pc' = "log"
  /\ UNCHANGED <<outside, wire, clock, buffer, sinks, disk, polls>>

PollFails ==
  /\ pc = "code" /\ ~PollsOut /\ daemon = "down"
  /\ Raise
  /\ UNCHANGED <<outside, wire, clock>>

WriteLog ==
  /\ pc = "log" /\ pc' = "done"
  /\ log' = [s \in Streams |-> sinks[s].kept]
  /\ parts' = {}
  /\ UNCHANGED <<outside, wire, clock, buffer, sinks, refused, polls, result>>

\* A sink cannot be closed, or the log not be written or its part files not be
\* removed: the OSError is the call's.  The log is cut, and the parts go one
\* by one, each after it was copied.
LogRefused ==
  /\ pc = "log" /\ pc' = "done" /\ result' = Failed
  /\ refused' = TRUE
  /\ \E n \in [Streams -> 0..LogMax] :
       /\ log' = [s \in Streams |-> First(sinks[s].kept, Least(n[s], Len(sinks[s].kept)))]
       /\ n["stderr"] > 0 => n["stdout"] = LogMax
       /\ parts' \in {{}, {"stderr"}} \/ (parts' = Streams /\ n["stderr"] = 0)
  /\ UNCHANGED <<outside, wire, clock, buffer, sinks, polls>>

-------------------------------------------------------------------------------
Container ==
  \/ \E s \in Streams, n \in 1..MaxFrame : Write(s, n)
  \/ EndsItself \/ Termed \/ Killed \/ DetachedEnds
  \/ StreamCloses \/ Reap \/ DaemonDies

Receives == \E n \in 1..Len(wire) : Receive(n)

ClientStep ==
  \/ OpenSinks \/ SinksRefused \/ StartExec \/ ExecRefused
  \/ CutFrame \/ WriteRefused \/ Receives \/ StreamEnds \/ PastDeadline \/ ConnectionLost
  \/ ExitSeen \/ StillRunning \/ ExitNeverSeen \/ PollFails
  \/ WriteLog \/ LogRefused

Next == Container \/ Tick \/ ClientStep

Spec == Init /\ [][Next]_vars

\* The client keeps taking its steps, the wrapper's KILL works, a stream no
\* process holds is closed, and time passes.  Nobody ends a detached
\* process, and nothing has the exec reaped.
FairSpec ==
  /\ Spec
  /\ WF_vars(ClientStep) /\ WF_vars(Tick)
  /\ WF_vars(Killed) /\ WF_vars(StreamCloses)

-------------------------------------------------------------------------------
(* What a call says of the command it ran.                                 *)

Said(s, n) == [i \in 1..n |-> <<s, i>>]

\* Whatever pieces the socket cuts the connection into, each sink has its
\* own stream from the first byte on, in order and without a gap: as much
\* of it as its bound leaves room for, and a count of all of it.  A result
\* tells the whole of both: no byte that a command or what it left behind
\* wrote is missing from the totals, and the log keeps the first
\* SHELL_LOG_MAX_BYTES of each ("The true total is always recorded":
\* docker_api.py `_stream_exec`, environment.py `_StreamSink`, `_write_log`).
StreamsIntact ==
  /\ \A s \in Streams :
       LET k == sinks[s] IN
         /\ k.head = Said(s, Least(k.total, Half))
         /\ k.kept = Said(s, Least(k.total, LogMax))
  /\ pc = "done" /\ result.kind = "result" =>
       \A s \in Streams :
         /\ sinks[s].total = written[s]
         /\ log[s] = Said(s, Least(written[s], LogMax))

\* A command that ran is a result, whatever it did and whatever its exit
\* code: an error is the daemon's, the disk's, or a process's that it left
\* holding the streams.  And one that the wrapper killed is never reported as
\* one that ended by itself, unless its exit code was never seen
\* (environment.py, shell).
RanIsTold ==
  /\ result.kind = "error" =>
       command = "none" \/ daemon = "down" \/ detached /= "none" \/ refused
  /\ result.kind = "result" /\ wrapped /\ result.exit /= Unknown =>
       result.timedOut

\* Types, and: a call that is over leaves no part of a log behind, and one that
\* failed no log, unless the disk refused it; and what the disk refused is never
\* told as a result, whatever is left of its log (environment.py, shell and
\* _write_log).
CallInv ==
  /\ TypeOK
  /\ pc = "done" /\ ~refused =>
       parts = {} /\ (result.kind = "error" => log = NoLog)
  /\ refused => pc = "done" /\ result.kind = "error"

\* Every call ends: a command that ignores TERM, one that writes without
\* end, and one whose stream is never closed included.
CallEnds == <>(pc = "done")

===============================================================================
