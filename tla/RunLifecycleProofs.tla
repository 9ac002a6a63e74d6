-------------------------- MODULE RunLifecycleProofs --------------------------
(***************************************************************************)
(* Proofs about RunLifecycle, for every bound and every budget.            *)
(***************************************************************************)
EXTENDS RunLifecycleInv, TLAPS, FiniteSetTheorems, SequenceTheorems, NumberFacts

-------------------------------------------------------------------------------
(* Facts about the operators.                                              *)

\* Highest is what its name says.
LEMMA HighestIsMax ==
  ASSUME NEW S, S \subseteq Nat, IsFiniteSet(S), S /= {}
  PROVE  Highest(S) \in S /\ \A m \in S : m <= Highest(S)
BY HasHighest DEF Highest

\* The rows of a stream, and the types of their fields.
LEMMA RowFields ==
  ASSUME NEW l \in Seq(Event)
  PROVE  /\ Len(l) \in Nat
         /\ DOMAIN l = 1..Len(l)
         /\ \A i \in DOMAIN l :
              /\ l[i] \in Event
              /\ l[i].event \in Kinds /\ l[i].session \in Nat
              /\ l[i].request_seq \in Nat /\ l[i].llm_calls \in Nat
<1>1. Len(l) \in Nat /\ DOMAIN l = 1..Len(l)
  BY LenProperties
<1>2. \A i \in DOMAIN l : l[i] \in Event
  BY <1>1, ElementOfSeq
<1>3. \A e \in Event : /\ e.event \in Kinds /\ e.session \in Nat
                       /\ e.request_seq \in Nat /\ e.llm_calls \in Nat
  BY DEF Event
<1> QED
  BY <1>1, <1>2, <1>3

LEMMA SessionNumbersFinite ==
  ASSUME NEW l \in Seq(Event)
  PROVE  SessionNumbers(l) \subseteq Nat /\ IsFiniteSet(SessionNumbers(l))
<1>1. SessionNumbers(l) \subseteq Nat
  BY RowFields DEF SessionNumbers
<1> DEFINE f == [i \in 1..Len(l) |-> l[i].session]
<1>2. f \in Surjection(1..Len(l), SessionNumbers(l))
  BY DEF Surjection, SessionNumbers
<1>3. IsFiniteSet(1..Len(l))
  BY FS_Interval
<1> HIDE DEF f
<1>4. IsFiniteSet(SessionNumbers(l))
  BY <1>2, <1>3, FS_Surjection
<1> QED
  BY <1>1, <1>4

\* The fold's counter is the highest session number of the stream, or 0.
LEMMA FoldCounterIsMax ==
  ASSUME NEW l \in Seq(Event)
  PROVE  /\ FoldCounter(l) \in Nat
         /\ \A i \in DOMAIN l : l[i].session <= FoldCounter(l)
         /\ FoldCounter(l) = 0 \/ \E i \in DOMAIN l : l[i].session = FoldCounter(l)
<1> DEFINE S == {0} \cup SessionNumbers(l)
<1>1. S \subseteq Nat /\ S /= {}
  BY SessionNumbersFinite
<1>2. IsFiniteSet(S)
  BY SessionNumbersFinite, FS_Union, FS_Singleton
<1>3. FoldCounter(l) \in S /\ \A m \in S : m <= FoldCounter(l)
  <2> HIDE DEF S
  <2>1. Highest(S) \in S /\ \A m \in S : m <= Highest(S)
    BY <1>1, <1>2, HighestIsMax
  <2> QED
    BY <2>1 DEF FoldCounter, S
<1> QED
  BY <1>1, <1>3 DEF SessionNumbers

\* The crashed session is an open one, or 0 when none is.
LEMMA CrashedSessionIsOpen ==
  ASSUME NEW l \in Seq(Event)
  PROVE  /\ CrashedSession(l) \in Nat
         /\ OpenSessions(l) = {} => CrashedSession(l) = 0
         /\ OpenSessions(l) /= {} => CrashedSession(l) \in OpenSessions(l)
<1>1. OpenSessions(l) \subseteq SessionNumbers(l)
  BY DEF OpenSessions
<1>2. OpenSessions(l) \subseteq Nat /\ IsFiniteSet(OpenSessions(l))
  BY <1>1, SessionNumbersFinite, FS_Subset
<1> QED
  BY <1>2, HighestIsMax DEF CrashedSession

LEMMA CountsAreNat ==
  ASSUME NEW l \in Seq(Event), NEW s \in Nat
  PROVE  SessionCalls(l, s) \in Nat /\ TotalCalls(l) \in Nat /\ Spent(l) \in Nat
<1>1. IsFiniteSet(DOMAIN l)
  BY FS_Interval
<1>2. \A T \in SUBSET DOMAIN l : Cardinality(T) \in Nat
  BY <1>1, FS_Subset, FS_CardinalityType
<1> QED
  BY <1>2 DEF SessionCalls, TotalCalls, Spent

LEMMA RowTypes ==
  ASSUME NEW s \in Nat, NEW q \in Nat, NEW n \in Nat, NEW c \in {0, 1},
         NEW r \in Reasons, NEW kind \in Kinds
  PROVE  /\ Row(kind, s) \in Event
         /\ [Row("llm_request", s) EXCEPT !.request_seq = q] \in Event
         /\ CallRow(s, q, c) \in Event
         /\ EndRow(s, r, n) \in Event
         /\ CompleteRow(s, r, n) \in Event
<1>1. "none" \in Reasons
  BY DEF Reasons
<1>2. {"llm_request", "llm_call", "session_end", "run_complete"} \subseteq Kinds
  BY DEF Kinds
<1>3. Row(kind, s) \in Event /\ [Row("llm_request", s) EXCEPT !.request_seq = q] \in Event
  BY <1>1, <1>2 DEF Row, Event
<1>4. CallRow(s, q, c) \in Event
  BY <1>1, <1>2 DEF Row, CallRow, Event
<1>5. EndRow(s, r, n) \in Event
  BY <1>2 DEF Row, EndRow, Event
<1>6. CompleteRow(s, r, n) \in Event
  BY <1>2 DEF Row, CompleteRow, Event
<1> QED
  BY <1>3, <1>4, <1>5, <1>6

LEMMA PhantomType ==
  ASSUME NEW l \in Seq(Event), NEW s
  PROVE  PhantomRequests(l, s) \subseteq Nat
<1>1. SeqsOf(l, "llm_request", s) \subseteq Nat
  BY RowFields DEF SeqsOf
<1> QED
  BY <1>1 DEF PhantomRequests

LEMMA EmitType ==
  ASSUME log \in Seq(Event), NEW e \in Event, Emit(e)
  PROVE  log' \in Seq(Event) /\ torn' = torn
BY AppendProperties DEF Emit

\* The lines of a journal that carry an entry, and the last of them.
LEMMA EntriesFacts ==
  ASSUME NEW j \in Seq(Entry)
  PROVE  /\ Len(j) \in Nat /\ DOMAIN j = 1..Len(j)
         /\ Entries(j) \subseteq Nat /\ IsFiniteSet(Entries(j))
         /\ \A i \in DOMAIN j : j[i] \in Entry /\ j[i].session \in Nat /\ j[i].prev \in Nat
         /\ LastEnded(j) \in Nat
<1>1. Len(j) \in Nat /\ DOMAIN j = 1..Len(j)
  BY LenProperties
<1>2. Entries(j) \subseteq DOMAIN j
  BY DEF Entries
<1>3. Entries(j) \subseteq Nat /\ IsFiniteSet(Entries(j))
  <2>1. IsFiniteSet(1..Len(j)) /\ 1..Len(j) \subseteq Nat
    BY <1>1, FS_Interval
  <2> QED
    BY <1>1, <1>2, <2>1, FS_Subset
<1>4. \A i \in DOMAIN j : j[i] \in Entry
  BY <1>1, ElementOfSeq
<1>5. \A e \in Entry : e.session \in Nat /\ e.prev \in Nat
  BY DEF Entry
<1>6. LastEnded(j) \in Nat
  <2>1. CASE Entries(j) = {}
    BY <2>1 DEF LastEnded
  <2>2. CASE Entries(j) /= {}
    <3>1. Highest(Entries(j)) \in DOMAIN j
      BY <1>2, <1>3, <2>2, HighestIsMax
    <3> QED
      BY <2>2, <3>1, <1>4, <1>5 DEF LastEnded
  <2> QED
    BY <2>1, <2>2
<1> QED
  BY <1>1, <1>3, <1>4, <1>5, <1>6

LEMMA LineTypes ==
  /\ \A s, q \in Nat : Line(s, q) \in Entry
  /\ Junk \in Entry /\ BadChar \in Entry
  /\ \A e \in Entry : Cuts(e) \subseteq Entry
<1>1. \A s, q \in Nat : Line(s, q) \in Entry
  BY DEF Line, Entry
<1>2. Junk \in Entry
  BY <1>1 DEF Junk
<1>3. BadChar \in Entry
  BY DEF BadChar, Entry
<1>4. \A e \in Entry : [e EXCEPT !.whole = FALSE] \in Entry
  BY DEF Entry
<1>5. \A e \in Entry : Cuts(e) \subseteq Entry
  BY <1>2, <1>3, <1>4 DEF Cuts
<1> QED
  BY <1>1, <1>2, <1>3, <1>5

\* Rolling a journal and adding a line to one give journals.
LEMMA AppendEntryType ==
  ASSUME NEW j \in Seq(Entry), NEW e \in Entry
  PROVE  AppendEntry(j, e) \in Seq(Entry)
<1>1. \A k \in Seq(Entry) : Roll(k) \in Seq(Entry)
  <2> SUFFICES ASSUME NEW k \in Seq(Entry)
               PROVE  Roll(k) \in Seq(Entry)
    OBVIOUS
  <2>1. JournalMax \in Nat
    BY BoundsAssumption
  <2>2. Len(k) \in Nat
    BY LenProperties
  <2>3. CASE Len(k) <= JournalMax
    BY <2>3 DEF Roll
  <2>4. CASE ~(Len(k) <= JournalMax)
    <3> DEFINE m == Len(k) - (IF JournalMax = 0 THEN 0 ELSE JournalMax - 1)
    <3>1. m \in Int /\ m >= 1 /\ m <= Len(k)
      BY <2>1, <2>2, <2>4
    <3> HIDE DEF m
    <3>2. \A i \in m..Len(k) : k[i] \in Entry
      BY <2>2, <3>1, ElementOfSeq
    <3>3. SubSeq(k, m, Len(k)) \in Seq(Entry)
      BY <2>2, <3>1, <3>2, SubSeqProperties
    <3> QED
      BY <2>4, <3>3 DEF Roll, m
  <2> QED
    BY <2>3, <2>4
<1>2. AddLine(j, e) \in Seq(Entry)
  <2>1. Append(j, e) \in Seq(Entry)
    BY AppendProperties
  <2>2. j /= <<>> => [j EXCEPT ![Len(j)] = Junk] \in Seq(Entry)
    <3> SUFFICES ASSUME j /= <<>>
                 PROVE  [j EXCEPT ![Len(j)] = Junk] \in Seq(Entry)
      OBVIOUS
    <3>1. Len(j) \in 1..Len(j)
      BY LenProperties, EmptySeq
    <3> QED
      BY <3>1, LineTypes, ExceptSeq
  <2> QED
    BY <2>1, <2>2 DEF AddLine
<1> QED
  BY <1>1, <1>2 DEF AppendEntry

\* Whatever the journal holds, the next write and every prefix of it that a
\* kill may leave are journals.
LEMMA JournalTypes ==
  ASSUME TypeOK
  PROVE  /\ LastEnded(journal) \in Nat
         /\ NextJournal \in Seq(Entry)
         /\ Prefixes(NextJournal) \subseteq Seq(Entry)
<1>1. journal \in Seq(Entry) /\ counter \in Nat /\ prev \in Nat
  BY DEF TypeOK
<1>2. LastEnded(journal) \in Nat
  BY <1>1, EntriesFacts
<1>3. NextJournal \in Seq(Entry)
  BY <1>1, <1>2, LineTypes, AppendEntryType DEF NextJournal
<1>4. ASSUME NEW j \in Seq(Entry)
      PROVE  Prefixes(j) \subseteq Seq(Entry)
  <2>1. \A k \in 0..Len(j) : SubSeq(j, 1, k) \in Seq(Entry)
    <3> SUFFICES ASSUME NEW k \in 0..Len(j)
                 PROVE  SubSeq(j, 1, k) \in Seq(Entry)
      OBVIOUS
    <3>1. k \in Int /\ \A i \in 1..k : j[i] \in Entry
      BY ElementOfSeq, LenProperties
    <3> QED
      BY <3>1, SubSeqProperties
  <2>2. ASSUME NEW k \in 0..(Len(j) - 1), NEW c \in Cuts(j[k + 1])
        PROVE  Append(SubSeq(j, 1, k), c) \in Seq(Entry)
    <3>1. k \in 0..Len(j) /\ k + 1 \in 1..Len(j)
      BY LenProperties
    <3>2. c \in Entry
      BY <3>1, LineTypes, ElementOfSeq
    <3> QED
      BY <2>1, <3>1, <3>2, AppendProperties
  <2>3. \A q \in Prefixes(j) :
          \/ \E k \in 0..Len(j) : q = SubSeq(j, 1, k)
          \/ \E k \in 0..(Len(j) - 1) : \E c \in Cuts(j[k + 1]) :
               q = Append(SubSeq(j, 1, k), c)
    BY Zenon DEF Prefixes
  <2>4. \A q \in Prefixes(j) : q \in Seq(Entry)
    BY <2>1, <2>2, <2>3
  <2> QED
    BY <2>4
<1> QED
  BY <1>2, <1>3, <1>4

-------------------------------------------------------------------------------
(* Type correctness.                                                       *)

\* A number given back after a refusal has been claimed first.
TypeInv == TypeOK /\ (pc \in Claiming => counter >= 1)

LEMMA TypeInit == Init => TypeInv
<1> SUFFICES ASSUME Init PROVE TypeInv
  OBVIOUS
<1>1. <<>> \in Seq(Event) /\ <<>> \in Seq(Entry)
  BY EmptySeq
<1> QED
  BY <1>1 DEF Init, TypeInv, TypeOK, Claiming, Reasons

LEMMA ExitType ==
  ASSUME Exit
  PROVE  /\ pc' = "idle" /\ job' \in {"run", "end"} /\ events' \in Seq(Event)
         /\ counter' \in Nat /\ why' \in Reasons /\ seq' \in Nat
         /\ calls' \in Nat /\ prev' \in Nat
BY EmptySeq DEF Exit, Reasons

LEMMA TypeRecover ==
  ASSUME TypeInv, Recover
  PROVE  TypeInv'
<1> USE DEF TypeInv, Claiming
<1>1. TypeOK
  OBVIOUS
<1>2. CASE EmitPhantom
  <2> DEFINE s == CrashedSession(events)
  <2>1. s \in Nat
    BY <1>1, CrashedSessionIsOpen DEF TypeOK
  <2>2. PICK q \in PhantomRequests(events, s) :
          Emit(CallRow(s, q, 0)) /\ events' = Append(events, CallRow(s, q, 0))
    BY <1>2 DEF EmitPhantom
  <2>3. q \in Nat
    BY <1>1, PhantomType DEF TypeOK
  <2>4. CallRow(s, q, 0) \in Event
    BY <2>1, <2>3, RowTypes DEF Reasons, Kinds
  <2>5. log' \in Seq(Event) /\ torn' = torn /\ events' \in Seq(Event)
    BY <1>1, <2>2, <2>4, EmitType, AppendProperties DEF TypeOK
  <2> QED
    BY <1>1, <1>2, <2>5 DEF EmitPhantom, TypeOK, clock
<1>3. CASE CloseCrashed
  <2> DEFINE s == CrashedSession(events)
             row == EndRow(s, "crash", SessionCalls(events, s))
  <2>1. s \in Nat /\ SessionCalls(events, s) \in Nat
    BY <1>1, CrashedSessionIsOpen, CountsAreNat DEF TypeOK
  <2>2. row \in Event
    BY <2>1, RowTypes DEF Reasons, Kinds
  <2>3. Emit(row) /\ events' = Append(events, row) /\ prev' = s
    BY <1>3 DEF CloseCrashed
  <2>4. log' \in Seq(Event) /\ torn' = torn /\ events' \in Seq(Event)
    <3> HIDE DEF row
    <3> QED
      BY <1>1, <2>2, <2>3, EmitType, AppendProperties DEF TypeOK
  <2> HIDE DEF s, row
  <2> QED
    BY <1>1, <1>3, <2>1, <2>3, <2>4 DEF CloseCrashed, Goto, TypeOK, clock
<1>4. CASE JournalCrashed
  BY <1>1, <1>4, JournalTypes DEF JournalCrashed, Goto, TypeOK, clock
<1>5. CASE RefreshCache
  <2>1. cache' \in [counter: Nat, status: {"running", "complete"}]
    BY <1>1, <1>5 DEF RefreshCache, SaveState, TypeOK
  <2>2. /\ pc' \in {"idle", "stop_all", "boundary"}
        /\ job' \in {"run", "end"} /\ events' \in Seq(Event)
        /\ counter' \in Nat /\ why' \in Reasons /\ seq' \in Nat
        /\ calls' \in Nat /\ prev' \in Nat
    BY <1>1, <1>5, ExitType DEF RefreshCache, TypeOK, Reasons
  <2> QED
    BY <1>1, <1>5, <2>1, <2>2 DEF RefreshCache, TypeOK, clock
<1> QED
  BY <1>2, <1>3, <1>4, <1>5 DEF Recover

LEMMA TypeBoundary ==
  ASSUME TypeInv, Boundary
  PROVE  TypeInv'
<1> USE DEF TypeInv, TypeOK, Claiming
<1>1. CASE BoundaryTrips
  BY <1>1 DEF BoundaryTrips, BoundaryCheck, Goto, Reasons, durable, clock
<1>2. CASE ClaimNumber
  BY <1>2 DEF ClaimNumber, SaveState, Goto, clock
<1>3. CASE JournalRaises
  BY <1>3, ExitType DEF JournalRaises, durable, clock
<1> QED
  BY <1>1, <1>2, <1>3 DEF Boundary

LEMMA TypeSession ==
  ASSUME TypeInv, RunOneSession
  PROVE  TypeInv'
<1> USE DEF TypeInv, Claiming
<1>1. TypeOK
  OBVIOUS
<1>0. log \in Seq(Event) /\ counter \in Nat /\ seq \in Nat /\ calls \in Nat
  BY <1>1 DEF TypeOK
<1>2. CASE HarnessFails
  <2>1. Row("session_start", counter) \in Event
    BY <1>0, RowTypes DEF Kinds, Reasons
  <2>2. log' \in Seq(Event) /\ torn' = torn
    BY <1>0, <1>2, <2>1, EmitType DEF HarnessFails
  <2> QED
    BY <1>1, <1>2, <2>2 DEF HarnessFails, Goto, TypeOK, clock, memory
<1>3. CASE AbortEnd
  <2>1. EndRow(counter, "errors", 0) \in Event
    BY <1>0, RowTypes DEF Kinds, Reasons
  <2>2. log' \in Seq(Event) /\ torn' = torn
    BY <1>0, <1>3, <2>1, EmitType DEF AbortEnd
  <2> QED
    BY <1>1, <1>3, <2>2 DEF AbortEnd, Goto, TypeOK, clock, memory
<1>4. CASE Refused
  <2>0. pc = "claimed" /\ counter - 1 \in Nat
    BY <1>0, <1>4 DEF Refused, Goto
  <2>1. Row("session_refused", counter - 1) \in Event
    BY <2>0, RowTypes DEF Kinds, Reasons
  <2>2. log' \in Seq(Event) /\ torn' = torn
    BY <1>0, <1>4, <2>1, EmitType DEF Refused
  <2> QED
    BY <1>1, <1>4, <2>0, <2>2 DEF Refused, Goto, TypeOK, clock
<1>5. CASE Spawned
  BY <1>1, <1>5, JournalTypes DEF Spawned, Goto, TypeOK, durable, clock
<1>6. CASE StartSession
  <2>1. Row("session_start", counter) \in Event
    BY <1>0, RowTypes DEF Kinds, Reasons
  <2>2. log' \in Seq(Event) /\ torn' = torn
    BY <1>0, <1>6, <2>1, EmitType DEF StartSession
  <2> QED
    BY <1>1, <1>6, <2>2 DEF StartSession, Goto, TypeOK, clock, memory
<1>7. CASE Request
  <2>1. seq' \in Nat /\ seq' = seq + 1
    BY <1>0, <1>7 DEF Request
  <2>2. [Row("llm_request", counter) EXCEPT !.request_seq = seq'] \in Event
    BY <1>0, <2>1, RowTypes DEF Kinds, Reasons
  <2>3. log' \in Seq(Event) /\ torn' = torn
    BY <1>0, <1>7, <2>2, EmitType DEF Request
  <2> QED
    BY <1>1, <1>7, <2>1, <2>3 DEF Request, Goto, TypeOK, clock
<1>8. CASE Answer
  <2>1. PICK c \in {0, 1} : Emit(CallRow(counter, seq, c))
    BY <1>8 DEF Answer
  <2>2. CallRow(counter, seq, c) \in Event
    BY <1>0, RowTypes DEF Kinds, Reasons
  <2>3. log' \in Seq(Event) /\ torn' = torn
    BY <1>0, <2>1, <2>2, EmitType
  <2> QED
    BY <1>1, <1>8, <2>3 DEF Answer, Goto, TypeOK, clock
<1>9. CASE EndSession
  <2>1. EndRow(counter, "loop", calls) \in Event
    BY <1>0, RowTypes DEF Kinds, Reasons
  <2>2. log' \in Seq(Event) /\ torn' = torn
    BY <1>0, <1>9, <2>1, EmitType DEF EndSession
  <2> QED
    BY <1>1, <1>9, <2>2 DEF EndSession, Goto, TypeOK, clock, memory
<1>10. CASE WriteJournal
  BY <1>1, <1>10, JournalTypes DEF WriteJournal, Goto, TypeOK, clock, memory
<1>11. CASE ScheduleNext
  <2>1. Row("schedule_next", counter) \in Event
    BY <1>0, RowTypes DEF Kinds, Reasons
  <2>2. log' \in Seq(Event) /\ torn' = torn
    BY <1>0, <1>11, <2>1, EmitType DEF ScheduleNext
  <2> QED
    BY <1>1, <1>11, <2>2 DEF ScheduleNext, Goto, TypeOK, memory
<1>12. CASE Save
  BY <1>1, <1>12, ExitType DEF Save, SaveState, TypeOK, clock
<1> QED
  BY <1>2, <1>3, <1>4, <1>5, <1>6, <1>7, <1>8, <1>9, <1>10, <1>11, <1>12
     DEF RunOneSession

LEMMA TypeComplete ==
  ASSUME TypeInv, CompleteRun
  PROVE  TypeInv'
<1> USE DEF TypeInv, Claiming
<1>1. TypeOK
  OBVIOUS
<1>0. log \in Seq(Event) /\ counter \in Nat /\ events \in Seq(Event) /\ why \in Reasons
  BY <1>1 DEF TypeOK
<1>2. ASSUME NEW from, NEW kind \in Kinds,
             NEW to \in {"revoke", "stop_env", "complete"},
             TearDown(from, kind, to)
      PROVE  TypeInv'
  <2>1. Row(kind, counter) \in Event
    BY <1>0, RowTypes DEF Reasons
  <2>2. log' \in Seq(Event) /\ torn' = torn
    BY <1>0, <1>2, <2>1, EmitType DEF TearDown
  <2> QED
    BY <1>1, <1>2, <2>2 DEF TearDown, Goto, TypeOK, clock, memory
<1>3. CASE StopBooks \/ RevokeGrant \/ StopEnvironment
  BY <1>2, <1>3 DEF StopBooks, RevokeGrant, StopEnvironment, Kinds
<1>4. CASE Complete
  <2>1. CompleteRow(counter, why, TotalCalls(events)) \in Event
    BY <1>0, RowTypes, CountsAreNat DEF Kinds
  <2>2. log' \in Seq(Event) /\ torn' = torn
    BY <1>0, <1>4, <2>1, EmitType DEF Complete
  <2> QED
    BY <1>1, <1>4, <2>2 DEF Complete, Goto, TypeOK, clock, memory
<1>5. CASE PersistComplete
  BY <1>1, <1>5 DEF PersistComplete, SaveState, Goto, TypeOK, clock, memory
<1>6. CASE DisableSupervisor
  BY <1>1, <1>6, ExitType DEF DisableSupervisor, TypeOK, clock
<1> QED
  BY <1>3, <1>4, <1>5, <1>6 DEF CompleteRun

LEMMA TypeStep == TypeInv /\ [Next]_vars => TypeInv'
<1> SUFFICES ASSUME TypeInv, [Next]_vars PROVE TypeInv'
  OBVIOUS
<1>1. CASE Proceed
  BY <1>1, TypeRecover, TypeBoundary, TypeSession, TypeComplete DEF Proceed
<1> USE DEF TypeInv, Claiming
<1>2. CASE ScheduledRun \/ ManualRun \/ EndRun
  <2>1. PICK j \in {"run", "end"} : Fold(j)
    BY <1>2 DEF ScheduledRun, ManualRun, EndRun
  <2>2. FoldCounter(log) \in Nat
    BY FoldCounterIsMax DEF TypeOK
  <2> QED
    BY <2>1, <2>2 DEF Fold, TypeOK, durable, clock
<1>3. CASE Crash
  <2>1. journal' \in Seq(Entry)
    BY <1>3, JournalTypes DEF Crash, TypeOK
  <2>2. torn' \in {TRUE, FALSE}
    BY <1>3, Zenon DEF Crash
  <2>3. crashes' \in Nat
    BY <1>3 DEF Crash, TypeOK
  <2> QED
    BY <1>3, <2>1, <2>2, <2>3, ExitType DEF Crash, TypeOK, clock
<1>4. CASE WakeComesDue
  BY <1>4 DEF WakeComesDue, TypeOK, durable, memory
<1>5. CASE RunExpires
  BY <1>5 DEF RunExpires, TypeOK, durable, memory
<1>6. CASE UNCHANGED vars
  BY <1>6 DEF vars, durable, clock, memory, TypeOK
<1> QED
  BY <1>1, <1>2, <1>3, <1>4, <1>5, <1>6 DEF Next

\* Every variable keeps its type in every run, whatever its bounds.
THEOREM TypeCorrect == Spec => []TypeOK
<1>1. TypeInv => TypeOK
  BY DEF TypeInv
<1> QED
  BY TypeInit, TypeStep, <1>1, PTL DEF Spec

-------------------------------------------------------------------------------
(* One more row.                                                           *)

LEMMA Appended ==
  ASSUME log \in Seq(Event), NEW e \in Event, Emit(e)
  PROVE  /\ Len(log) \in Nat
         /\ DOMAIN log = 1..Len(log)
         /\ DOMAIN log' = 1..(Len(log) + 1)
         /\ Len(log') = Len(log) + 1
         /\ \A i \in 1..Len(log) : log'[i] = log[i]
         /\ log'[Len(log) + 1] = e
<1>1. log' = Append(log, e) /\ log' \in Seq(Event)
  BY EmitType DEF Emit
<1>2. /\ Len(log') = Len(log) + 1
      /\ \A i \in 1..Len(log) : log'[i] = log[i]
      /\ log'[Len(log) + 1] = e
  BY <1>1, AppendProperties
<1>3. DOMAIN log = 1..Len(log) /\ DOMAIN log' = 1..Len(log') /\ Len(log) \in Nat
  BY <1>1, LenProperties
<1> QED
  BY <1>2, <1>3

\* Which sessions are open and which requests answered after one more row.
LEMMA AfterRow ==
  ASSUME log \in Seq(Event), NEW e \in Event, Emit(e)
  PROVE  /\ \A i \in DOMAIN log :
              OpenAt(log', i) <=>
                OpenAt(log, i) /\ ~Is(e, "session_end", log[i].session)
         /\ OpenAt(log', Len(log) + 1) <=> e.event = "session_start"
         /\ \A i \in DOMAIN log :
              AnsweredAt(log', i) <=>
                \/ AnsweredAt(log, i)
                \/ Is(e, "llm_call", log[i].session) /\ e.request_seq = log[i].request_seq
<1> DEFINE n == Len(log)
<1>1. /\ n \in Nat /\ DOMAIN log = 1..n /\ DOMAIN log' = 1..(n + 1)
      /\ \A i \in 1..n : log'[i] = log[i]
      /\ log'[n + 1] = e
  BY Appended
<1> HIDE DEF n
<1>2. ASSUME NEW i \in 1..n
      PROVE  OpenAt(log', i) <=> OpenAt(log, i) /\ ~Is(e, "session_end", log[i].session)
  <2>1. n + 1 > i /\ i \in 1..(n + 1) /\ log'[i] = log[i]
    BY <1>1
  <2> QED
    BY <1>1, <2>1 DEF OpenAt
<1>3. OpenAt(log', n + 1) <=> e.event = "session_start"
  BY <1>1 DEF OpenAt
<1>4. ASSUME NEW i \in 1..n
      PROVE  AnsweredAt(log', i) <=>
               \/ AnsweredAt(log, i)
               \/ Is(e, "llm_call", log[i].session) /\ e.request_seq = log[i].request_seq
  BY <1>1 DEF AnsweredAt
<1> QED
  BY <1>1, <1>2, <1>3, <1>4 DEF n

\* The row e may be the next one of the stream.
Fits(e) ==
  /\ ~RunOver(log)
  /\ \A m \in 1..e.session :
       \/ \E i \in DOMAIN log : Is(log[i], "session_start", m)
       \/ Is(e, "session_start", m)
  /\ e.event = "session_start" =>
       /\ e.session >= 1
       /\ \A i \in DOMAIN log : log[i].session < e.session /\ ~OpenAt(log, i)
  /\ e.event = "session_end" =>
       /\ \E i \in DOMAIN log : OpenAt(log, i) /\ log[i].session = e.session
       /\ \A i \in DOMAIN log :
            Is(log[i], "llm_request", e.session) => AnsweredAt(log, i)
  /\ e.event = "llm_request" =>
       \A i \in DOMAIN log :
         Is(log[i], "llm_request", e.session) => log[i].request_seq /= e.request_seq
  /\ e.event = "llm_call" =>
       \E i \in DOMAIN log :
         /\ Is(log[i], "llm_request", e.session)
         /\ log[i].request_seq = e.request_seq
         /\ ~AnsweredAt(log, i)

\* A stream that is sound stays so under a row that fits it.
LEMMA HistoryAppend ==
  ASSUME log \in Seq(Event), History, NEW e \in Event, Emit(e), Fits(e)
  PROVE  History'
<1> DEFINE n == Len(log)
<1>1. /\ n \in Nat /\ DOMAIN log = 1..n /\ DOMAIN log' = 1..(n + 1)
      /\ Len(log') = n + 1
      /\ \A i \in 1..n : log'[i] = log[i]
      /\ log'[n + 1] = e
  BY Appended
<1>2. \A i \in 1..n : /\ log[i].session \in Nat
                      /\ log[i].request_seq \in Nat
  BY <1>1, RowFields
<1>3. e.session \in Nat /\ e.request_seq \in Nat
  BY DEF Event
<1> HIDE DEF n
<1>4. Dense'
  <2> SUFFICES ASSUME NEW i \in 1..(n + 1), NEW m \in 1..log'[i].session
               PROVE  \E j \in 1..i : Is(log'[j], "session_start", m)
    BY <1>1 DEF Dense
  <2>1. CASE i \in 1..n
    <3>1. PICK j \in 1..i : Is(log[j], "session_start", m)
      BY <1>1, <2>1 DEF History, Dense
    <3> QED
      BY <1>1, <2>1, <3>1
  <2>2. CASE i = n + 1
    <3>1. CASE Is(e, "session_start", m)
      BY <1>1, <2>2, <3>1
    <3>2. CASE ~Is(e, "session_start", m)
      <4>1. PICK j \in 1..n : Is(log[j], "session_start", m)
        BY <1>1, <2>2, <3>2 DEF Fits
      <4> QED
        BY <1>1, <2>2, <4>1
    <3> QED
      BY <3>1, <3>2
  <2> QED
    BY <1>1, <2>1, <2>2
<1>5. SessionsNumberedInOrder'
  <2> SUFFICES ASSUME NEW j \in 1..(n + 1), log'[j].event = "session_start"
               PROVE  /\ log'[j].session >= 1
                      /\ \A i \in 1..(j - 1) :
                           log'[i].event = "session_start" =>
                             log'[i].session < log'[j].session
                      /\ log'[j].session > 1 =>
                           \E i \in 1..(j - 1) :
                             Is(log'[i], "session_start", log'[j].session - 1)
    BY <1>1 DEF SessionsNumberedInOrder
  <2>0. \A i \in 1..(j - 1) : i \in 1..n /\ log'[i] = log[i]
    BY <1>1
  <2>1. CASE j \in 1..n
    BY <1>1, <2>0, <2>1 DEF History, SessionsNumberedInOrder
  <2>2. CASE j = n + 1
    <3>1. /\ e.session >= 1
          /\ \A i \in 1..n : log[i].session < e.session
      BY <1>1, <2>2 DEF Fits
    <3>2. ASSUME e.session > 1
          PROVE  \E i \in 1..n : Is(log[i], "session_start", e.session - 1)
      <4>1. e.session - 1 \in 1..e.session /\ e.session - 1 /= e.session
        BY <1>3, <3>2
      <4> QED
        BY <1>1, <4>1 DEF Fits, Is
    <3> QED
      BY <1>1, <2>0, <2>2, <3>1, <3>2
  <2> QED
    BY <1>1, <2>1, <2>2
<1>6. ClosedOnce'
  <2> SUFFICES ASSUME NEW j \in 1..(n + 1), log'[j].event = "session_end"
               PROVE  /\ \E i \in 1..(j - 1) :
                           Is(log'[i], "session_start", log'[j].session)
                      /\ \A i \in 1..(j - 1) :
                           ~Is(log'[i], "session_end", log'[j].session)
    BY <1>1 DEF ClosedOnce
  <2>0. \A i \in 1..(j - 1) : i \in 1..n /\ log'[i] = log[i]
    BY <1>1
  <2>1. CASE j \in 1..n
    BY <1>1, <2>0, <2>1 DEF History, ClosedOnce
  <2>2. CASE j = n + 1
    <3>1. PICK i \in 1..n : OpenAt(log, i) /\ log[i].session = e.session
      BY <1>1, <2>2 DEF Fits
    <3>2. ASSUME NEW k \in 1..n, Is(log[k], "session_end", e.session)
          PROVE  FALSE
      <4>1. k < i /\ k \in Int /\ i \in Int
        BY <1>1, <3>1, <3>2 DEF OpenAt, Is
      <4>2. PICK h \in 1..(k - 1) : Is(log[h], "session_start", e.session)
        BY <1>1, <3>2 DEF History, ClosedOnce, Is
      <4>3. h \in 1..(i - 1) /\ log[h].session = log[i].session
        BY <3>1, <4>1, <4>2 DEF Is
      <4>4. log[i].event = "session_start" /\ log[h].event = "session_start"
        BY <3>1, <4>2 DEF OpenAt, Is
      <4>5. log[h].session < log[i].session
        BY <1>1, <4>3, <4>4 DEF History, SessionsNumberedInOrder
      <4>6. log[i].session \in Nat
        BY <1>2
      <4> QED
        BY <4>3, <4>5, <4>6
    <3> QED
      BY <1>1, <2>0, <2>2, <3>1, <3>2 DEF OpenAt, Is
  <2> QED
    BY <1>1, <2>1, <2>2
<1>7. SessionsDoNotOverlap'
  <2> SUFFICES ASSUME NEW j \in 1..(n + 1), log'[j].event = "session_start",
                      NEW i \in 1..(j - 1), log'[i].event = "session_start"
               PROVE  \E k \in (i + 1)..(j - 1) :
                        Is(log'[k], "session_end", log'[i].session)
    BY <1>1 DEF SessionsDoNotOverlap
  <2>0. /\ i \in 1..n /\ log'[i] = log[i]
        /\ \A k \in (i + 1)..(j - 1) : k \in 1..n /\ log'[k] = log[k]
    BY <1>1
  <2>1. CASE j \in 1..n
    BY <1>1, <2>0, <2>1 DEF History, SessionsDoNotOverlap
  <2>2. CASE j = n + 1
    <3>1. ~OpenAt(log, i)
      BY <1>1, <2>0, <2>2 DEF Fits
    <3>2. PICK k \in 1..n : k > i /\ Is(log[k], "session_end", log[i].session)
      BY <1>1, <2>0, <3>1 DEF OpenAt
    <3> QED
      BY <1>1, <2>0, <2>2, <3>2
  <2> QED
    BY <1>1, <2>1, <2>2
<1>8. RequestsOnce'
  <2> SUFFICES ASSUME NEW i \in 1..(n + 1), NEW j \in 1..(n + 1),
                      log'[i].event = "llm_request",
                      Is(log'[j], "llm_request", log'[i].session),
                      log'[i].request_seq = log'[j].request_seq
               PROVE  i = j
    BY <1>1 DEF RequestsOnce
  <2>1. CASE i \in 1..n /\ j \in 1..n
    BY <1>1, <2>1 DEF History, RequestsOnce
  <2>2. CASE i \in 1..n /\ j = n + 1
    BY <1>1, <2>2 DEF Fits, Is
  <2>3. CASE i = n + 1 /\ j \in 1..n
    BY <1>1, <2>3 DEF Fits, Is
  <2> QED
    BY <1>1, <2>1, <2>2, <2>3
<1>9. CallsPairOnce'
  <2> SUFFICES ASSUME NEW j \in 1..(n + 1), log'[j].event = "llm_call"
               PROVE  /\ \E i \in 1..(j - 1) :
                           /\ Is(log'[i], "llm_request", log'[j].session)
                           /\ log'[i].request_seq = log'[j].request_seq
                      /\ \A i \in 1..(j - 1) :
                           Is(log'[i], "llm_call", log'[j].session) =>
                             log'[i].request_seq /= log'[j].request_seq
    BY <1>1 DEF CallsPairOnce
  <2>0. \A i \in 1..(j - 1) : i \in 1..n /\ log'[i] = log[i]
    BY <1>1
  <2>1. CASE j \in 1..n
    BY <1>1, <2>0, <2>1 DEF History, CallsPairOnce
  <2>2. CASE j = n + 1
    <3>1. PICK i \in 1..n : /\ Is(log[i], "llm_request", e.session)
                            /\ log[i].request_seq = e.request_seq
                            /\ ~AnsweredAt(log, i)
      BY <1>1, <2>2 DEF Fits
    <3> QED
      BY <1>1, <2>0, <2>2, <3>1 DEF AnsweredAt, Is
  <2> QED
    BY <1>1, <2>1, <2>2
<1>10. EveryRequestAccounted'
  <2> SUFFICES ASSUME NEW j \in 1..(n + 1), log'[j].event = "session_end",
                      NEW i \in 1..(j - 1),
                      Is(log'[i], "llm_request", log'[j].session)
               PROVE  \E k \in (i + 1)..(j - 1) :
                        /\ Is(log'[k], "llm_call", log'[j].session)
                        /\ log'[k].request_seq = log'[i].request_seq
    BY <1>1 DEF EveryRequestAccounted
  <2>0. /\ i \in 1..n /\ log'[i] = log[i]
        /\ \A k \in (i + 1)..(j - 1) : k \in 1..n /\ log'[k] = log[k]
    BY <1>1
  <2>1. CASE j \in 1..n
    BY <1>1, <2>0, <2>1 DEF History, EveryRequestAccounted
  <2>2. CASE j = n + 1
    <3>1. PICK k \in 1..n : /\ Is(log[k], "llm_call", e.session)
                            /\ log[k].request_seq = log[i].request_seq
      BY <1>1, <2>0, <2>2 DEF Fits, AnsweredAt, Is
    <3>2. PICK h \in 1..(k - 1) : /\ Is(log[h], "llm_request", e.session)
                                  /\ log[h].request_seq = log[k].request_seq
      <4>1. CallsPairOnce /\ k \in DOMAIN log
        BY <1>1 DEF History
      <4>2. log[k].event = "llm_call" /\ log[k].session = e.session
        BY <3>1 DEF Is
      <4> QED
        BY <4>1, <4>2 DEF CallsPairOnce
    <3>3. h = i
      BY <1>1, <2>0, <2>2, <3>1, <3>2 DEF History, RequestsOnce, Is
    <3> QED
      BY <1>1, <2>0, <2>2, <3>1, <3>2, <3>3
  <2> QED
    BY <1>1, <2>1, <2>2
<1>11. RunCompleteIsFinal'
  BY <1>1 DEF RunCompleteIsFinal, Fits, RunOver
<1> QED
  BY <1>4, <1>5, <1>6, <1>7, <1>8, <1>9, <1>10, <1>11 DEF History

-------------------------------------------------------------------------------
(* The steps.                                                              *)

LEMMA HistorySame ==
  ASSUME History, log' = log
  PROVE  History'
BY DEF History, Dense, SessionsNumberedInOrder, ClosedOnce, SessionsDoNotOverlap,
       RequestsOnce, CallsPairOnce, EveryRequestAccounted, RunCompleteIsFinal

\* Between invocations the process knows nothing.
LEMMA StepToIdle ==
  ASSUME StreamInv, log' = log, pc' = "idle"
  PROVE  StreamInv'
<1>1. History'
  BY HistorySame DEF StreamInv
<1>2. Synced' /\ CounterInv' /\ RequestInv'
  BY DEF Synced, CounterInv, RequestInv, Folded, Running
<1>3. OpenInv'
  BY DEF StreamInv, Known, OpenInv, OpenAt, Unrecovered, Running
<1>4. OverInv'
  BY DEF StreamInv, Known, OverInv, RunOver, OpenAt, Unrecovered
<1> QED
  BY <1>1, <1>2, <1>3, <1>4 DEF StreamInv, Known

\* A step between two writes, with no session open before or after it.
LEMMA StepQuiet ==
  ASSUME StreamInv, log' = log, events' = events, Used' = Used,
         pc \notin Unrecovered \cup Running,
         pc' \notin Unrecovered \cup Running,
         pc' \in Claiming => counter' >= 1,
         pc' \in Folded => pc \in Folded,
         RunOver(log) => pc' \in {"persist", "disable"}
  PROVE  StreamInv'
<1>1. History'
  BY HistorySame DEF StreamInv
<1>2. Synced'
  BY DEF StreamInv, Known, Synced
<1>3. CounterInv'
  <2>1. /\ \A i \in DOMAIN log : log[i].session <= Used
        /\ \A n \in 1..Used : \E i \in DOMAIN log : Is(log[i], "session_start", n)
    BY DEF StreamInv, Known, CounterInv, Unrecovered
  <2> HIDE DEF Used
  <2> QED
    BY <2>1 DEF CounterInv
<1>4. OpenInv'
  BY DEF StreamInv, Known, OpenInv, OpenAt
<1>5. RequestInv'
  BY DEF RequestInv, Running
<1>6. OverInv'
  BY DEF StreamInv, Known, OverInv, RunOver, OpenAt, OpenInv
<1> QED
  BY <1>1, <1>2, <1>3, <1>4, <1>5, <1>6 DEF StreamInv, Known

LEMMA StepFold ==
  ASSUME TypeInv, StreamInv, NEW j, Fold(j)
  PROVE  StreamInv'
<1>1. /\ pc = "idle" /\ pc' = "folded" /\ log' = log /\ events' = log
      /\ counter' = FoldCounter(log)
  BY DEF Fold, durable
<1>2. History'
  BY <1>1, HistorySame DEF StreamInv
<1>3. CounterInv'
  <2> DEFINE c == FoldCounter(log)
  <2>1. /\ c \in Nat
        /\ \A i \in DOMAIN log : log[i].session <= c
        /\ c = 0 \/ \E i \in DOMAIN log : log[i].session = c
    BY FoldCounterIsMax DEF TypeInv, TypeOK
  <2>2. ASSUME NEW n \in 1..c
        PROVE  \E i \in DOMAIN log : Is(log[i], "session_start", n)
    <3>1. PICK i \in DOMAIN log : log[i].session = c
      BY <2>1, <2>2
    <3>2. PICK k \in 1..i : Is(log[k], "session_start", n)
      BY <3>1, <2>2 DEF StreamInv, History, Dense
    <3>3. k \in DOMAIN log
      BY <3>1, RowFields DEF TypeInv, TypeOK
    <3> QED
      BY <3>2, <3>3
  <2>3. Used' = c
    BY <1>1 DEF Used, Claiming
  <2> HIDE DEF c
  <2> QED
    BY <1>1, <2>1, <2>2, <2>3 DEF CounterInv, Claiming
<1>4. OpenInv'
  BY <1>1 DEF StreamInv, Known, OpenInv, OpenAt, Unrecovered, Running
<1>5. OverInv'
  BY <1>1 DEF StreamInv, Known, OverInv, RunOver, OpenAt, Unrecovered
<1> QED
  BY <1>1, <1>2, <1>3, <1>4, <1>5
     DEF StreamInv, Known, Synced, RequestInv, Running

\* The first row of a session, by either path.
LEMMA StepStart ==
  ASSUME TypeInv, StreamInv, pc \in Claiming,
         Emit(Row("session_start", counter)),
         pc' \in {"loop", "abort_end"}, counter' = counter
  PROVE  StreamInv'
<1> DEFINE e == Row("session_start", counter)
           n == Len(log)
<1>1. log \in Seq(Event) /\ counter \in Nat /\ counter >= 1
  BY DEF TypeInv, TypeOK
<1>2. e \in Event /\ e.event = "session_start" /\ e.session = counter
  BY <1>1, RowTypes DEF Row, Kinds, Reasons
<1>3. /\ n \in Nat /\ DOMAIN log = 1..n /\ DOMAIN log' = 1..(n + 1)
      /\ \A i \in 1..n : log'[i] = log[i]
      /\ log'[n + 1] = e
  BY <1>1, <1>2, Appended
<1>4. /\ \A i \in DOMAIN log :
           OpenAt(log', i) <=> OpenAt(log, i) /\ ~Is(e, "session_end", log[i].session)
      /\ OpenAt(log', n + 1)
  BY <1>1, <1>2, AfterRow
<1>5. /\ \A i \in DOMAIN log : log[i].session <= counter - 1 /\ ~OpenAt(log, i)
      /\ \A m \in 1..(counter - 1) : \E i \in DOMAIN log : Is(log[i], "session_start", m)
      /\ ~RunOver(log)
  BY DEF StreamInv, Known, CounterInv, OpenInv, OverInv, Used, Claiming,
         Unrecovered, Running
<1>6. \A i \in DOMAIN log : log[i].session \in Nat
  BY <1>1, RowFields
<1>7. Emit(e)
  OBVIOUS
<1> HIDE DEF e, n
<1>8. Fits(e)
  <2>1. \A m \in 1..counter : m \in 1..(counter - 1) \/ m = counter
    BY <1>1
  <2> QED
    BY <1>1, <1>2, <1>5, <1>6, <2>1 DEF Fits, Is
<1>9. History'
  BY <1>1, <1>2, <1>7, <1>8, HistoryAppend DEF StreamInv
<1>10. CounterInv'
  <2>1. Used' = counter
    BY DEF Used, Claiming
  <2>2. \A i \in DOMAIN log' : log'[i].session <= counter
    BY <1>1, <1>2, <1>3, <1>5, <1>6
  <2>3. \A m \in 1..counter : \E i \in DOMAIN log' : Is(log'[i], "session_start", m)
    <3>1. \A m \in 1..counter : m \in 1..(counter - 1) \/ m = counter
      BY <1>1
    <3>2. Is(log'[n + 1], "session_start", counter) /\ n + 1 \in DOMAIN log'
      BY <1>2, <1>3 DEF Is
    <3>3. \A m \in 1..(counter - 1) : \E i \in DOMAIN log' : Is(log'[i], "session_start", m)
      BY <1>3, <1>5
    <3> QED
      BY <3>1, <3>2, <3>3
  <2> QED
    BY <2>1, <2>2, <2>3 DEF CounterInv, Claiming
<1>11. OpenInv'
  <2>1. \A i \in DOMAIN log' : OpenAt(log', i) => i = n + 1
    BY <1>3, <1>4, <1>5
  <2>2. \A k \in DOMAIN log' : log'[k].session <= counter
    BY <1>1, <1>2, <1>3, <1>5, <1>6
  <2>3. n + 1 \in DOMAIN log' /\ log'[n + 1].session = counter
    BY <1>2, <1>3
  <2>4. pc' \in Running
    BY DEF Running
  <2> QED
    BY <1>4, <2>1, <2>2, <2>3, <2>4 DEF OpenInv
<1>12. RequestInv'
  BY <1>1, <1>2, <1>3, <1>5, <1>6 DEF RequestInv, Running, Is
<1>13. OverInv'
  BY <1>2, <1>3, <1>5 DEF OverInv, RunOver
<1> QED
  BY <1>9, <1>10, <1>11, <1>12, <1>13 DEF StreamInv, Known, Synced, Folded

\* A row that opens and closes nothing, written outside a session.
LEMMA StepRow ==
  ASSUME TypeInv, StreamInv, NEW e \in Event, Emit(e),
         e.event \in {"session_refused", "schedule_next", "tool_call",
                      "shell_state", "run_complete"},
         e.session = Used, Used' = Used,
         pc \notin Unrecovered \cup Running, ~RunOver(log),
         pc' \notin Unrecovered \cup Running \cup Claiming \cup Folded,
         e.event = "run_complete" => pc' = "persist"
  PROVE  StreamInv'
<1> DEFINE n == Len(log)
<1>1. log \in Seq(Event)
  BY DEF TypeInv, TypeOK
<1>3. /\ n \in Nat /\ DOMAIN log = 1..n /\ DOMAIN log' = 1..(n + 1)
      /\ \A i \in 1..n : log'[i] = log[i]
      /\ log'[n + 1] = e
  BY <1>1, Appended
<1>4. \A i \in DOMAIN log' : ~OpenAt(log', i)
  <2>1. \A i \in DOMAIN log : ~OpenAt(log, i)
    BY DEF StreamInv, Known, OpenInv
  <2>2. \A i \in DOMAIN log : ~OpenAt(log', i)
    BY <1>1, <2>1, AfterRow
  <2>3. ~OpenAt(log', n + 1)
    BY <1>1, AfterRow
  <2> HIDE DEF n
  <2> QED
    BY <1>3, <2>2, <2>3
<1>5. /\ \A i \in DOMAIN log : log[i].session <= Used
      /\ \A m \in 1..Used : \E i \in DOMAIN log : Is(log[i], "session_start", m)
  BY DEF StreamInv, Known, CounterInv, Unrecovered
<1>6. e.session \in Nat
  BY DEF Event
<1> HIDE DEF n
<1>7. Fits(e)
  BY <1>5 DEF Fits
<1>8. History'
  BY <1>1, <1>7, HistoryAppend DEF StreamInv
<1>9. CounterInv'
  <2> HIDE DEF Used
  <2>1. \A i \in DOMAIN log' : log'[i].session <= Used
    BY <1>3, <1>5, <1>6
  <2>2. \A m \in 1..Used : \E i \in DOMAIN log' : Is(log'[i], "session_start", m)
    BY <1>3, <1>5
  <2> QED
    BY <2>1, <2>2 DEF CounterInv
<1>10. OpenInv' /\ RequestInv'
  BY <1>4 DEF OpenInv, RequestInv, Running
<1>11. OverInv'
  <2>1. RunOver(log') => e.event = "run_complete"
    BY <1>3 DEF RunOver
  <2> QED
    BY <1>4, <2>1 DEF OverInv
<1> QED
  BY <1>8, <1>9, <1>10, <1>11 DEF StreamInv, Known, Synced

LEMMA StepRequest ==
  ASSUME TypeInv, StreamInv, Request
  PROVE  StreamInv'
<1> DEFINE e == [Row("llm_request", counter) EXCEPT !.request_seq = seq + 1]
           n == Len(log)
<1>1. /\ log \in Seq(Event) /\ counter \in Nat /\ seq \in Nat
      /\ pc = "loop" /\ pc' = "awaiting" /\ seq' = seq + 1 /\ counter' = counter
      /\ Emit(e)
  BY DEF TypeInv, TypeOK, Request, Goto
<1>2. /\ e \in Event
      /\ e.event = "llm_request" /\ e.session = counter /\ e.request_seq = seq + 1
  <2>1. seq + 1 \in Nat
    BY <1>1
  <2>2. e \in Event
    BY <1>1, <2>1, RowTypes DEF Kinds, Reasons
  <2>3. e.event = "llm_request" /\ e.session = counter /\ e.request_seq = seq + 1
    BY DEF Row
  <2> QED
    BY <2>2, <2>3
<1>3. /\ n \in Nat /\ DOMAIN log = 1..n /\ DOMAIN log' = 1..(n + 1)
      /\ \A i \in 1..n : log'[i] = log[i]
      /\ log'[n + 1] = e
  BY <1>1, <1>2, Appended
<1>4. /\ \A i \in DOMAIN log :
           /\ OpenAt(log', i) <=> OpenAt(log, i)
           /\ AnsweredAt(log', i) <=> AnsweredAt(log, i)
      /\ ~OpenAt(log', n + 1)
  BY <1>1, <1>2, AfterRow DEF Is
<1>5. /\ \A i \in DOMAIN log : log[i].session <= counter
      /\ \A m \in 1..counter : \E i \in DOMAIN log : Is(log[i], "session_start", m)
      /\ ~RunOver(log)
  BY <1>1 DEF StreamInv, Known, CounterInv, OverInv, Used, Claiming, Unrecovered
<1>6. /\ \A i \in DOMAIN log : OpenAt(log, i) => log[i].session = counter
      /\ \E i \in DOMAIN log : OpenAt(log, i) /\ log[i].session = counter
  BY <1>1 DEF StreamInv, Known, OpenInv, Running
<1>7. \A i \in DOMAIN log : Is(log[i], "llm_request", counter) =>
        log[i].request_seq <= seq /\ AnsweredAt(log, i)
  BY <1>1 DEF StreamInv, Known, RequestInv, Running
<1>8. \A i \in DOMAIN log : log[i].session \in Nat /\ log[i].request_seq \in Nat
  BY <1>1, RowFields
<1> HIDE DEF e, n
<1>9. Fits(e)
  BY <1>1, <1>2, <1>5, <1>7, <1>8 DEF Fits, Is
<1>10. History'
  BY <1>1, <1>2, <1>9, HistoryAppend DEF StreamInv
<1>11. CounterInv'
  <2>1. Used' = counter
    BY <1>1 DEF Used, Claiming
  <2>2. \A i \in DOMAIN log' : log'[i].session <= counter
    BY <1>1, <1>2, <1>3, <1>5
  <2>3. \A m \in 1..counter : \E i \in DOMAIN log' : Is(log'[i], "session_start", m)
    BY <1>3, <1>5
  <2> QED
    BY <1>1, <2>1, <2>2, <2>3 DEF CounterInv, Claiming
<1>12. OpenInv'
  <2>1. \A i \in DOMAIN log' : OpenAt(log', i) =>
          i \in DOMAIN log /\ log'[i].session = counter
    BY <1>3, <1>4, <1>6
  <2>2. \A k \in DOMAIN log' : log'[k].session <= counter
    BY <1>1, <1>2, <1>3, <1>5
  <2>3. \E i \in DOMAIN log' : OpenAt(log', i) /\ log'[i].session = counter
    BY <1>3, <1>4, <1>6
  <2> QED
    BY <1>1, <2>1, <2>2, <2>3 DEF OpenInv, Running
<1>13. RequestInv'
  <2>1. \A i \in DOMAIN log' : Is(log'[i], "llm_request", counter) =>
          /\ log'[i].request_seq <= seq + 1
          /\ AnsweredAt(log', i) \/ log'[i].request_seq = seq + 1
    BY <1>1, <1>2, <1>3, <1>4, <1>7, <1>8
  <2>2. ~AnsweredAt(log', n + 1)
    <3> SUFFICES ASSUME NEW k \in 1..(n + 1), Is(log'[k], "llm_call", counter),
                        log'[k].request_seq = seq + 1
                 PROVE  FALSE
      BY <1>2, <1>3 DEF AnsweredAt
    <3>1. k \in 1..n
      BY <1>2, <1>3 DEF Is
    <3>2. PICK h \in 1..(k - 1) : /\ Is(log[h], "llm_request", counter)
                                  /\ log[h].request_seq = seq + 1
      BY <1>3, <3>1 DEF StreamInv, History, CallsPairOnce, Is
    <3>3. h \in DOMAIN log
      BY <1>3, <3>1
    <3> QED
      BY <1>1, <1>7, <3>2, <3>3
  <2>3. Is(log'[n + 1], "llm_request", counter) /\ log'[n + 1].request_seq = seq + 1
    BY <1>2, <1>3 DEF Is
  <2>4. n + 1 \in DOMAIN log'
    BY <1>3
  <2> QED
    BY <1>1, <2>1, <2>2, <2>3, <2>4 DEF RequestInv
<1>14. OverInv'
  BY <1>2, <1>3, <1>5 DEF OverInv, RunOver
<1> QED
  BY <1>1, <1>10, <1>11, <1>12, <1>13, <1>14 DEF StreamInv, Known, Synced, Folded

LEMMA StepAnswer ==
  ASSUME TypeInv, StreamInv, Answer
  PROVE  StreamInv'
<1>0. PICK c \in {0, 1} : Emit(CallRow(counter, seq, c))
  BY DEF Answer
<1> DEFINE e == CallRow(counter, seq, c)
           n == Len(log)
<1>1. /\ log \in Seq(Event) /\ counter \in Nat /\ seq \in Nat
      /\ pc = "awaiting" /\ pc' = "loop" /\ seq' = seq /\ counter' = counter
      /\ Emit(e)
  BY <1>0 DEF TypeInv, TypeOK, Answer, Goto
<1>2. /\ e \in Event
      /\ e.event = "llm_call" /\ e.session = counter /\ e.request_seq = seq
  BY <1>1, RowTypes DEF CallRow, Row, Kinds, Reasons
<1>3. /\ n \in Nat /\ DOMAIN log = 1..n /\ DOMAIN log' = 1..(n + 1)
      /\ \A i \in 1..n : log'[i] = log[i]
      /\ log'[n + 1] = e
  BY <1>1, <1>2, Appended
<1>4. /\ \A i \in DOMAIN log :
           /\ OpenAt(log', i) <=> OpenAt(log, i)
           /\ AnsweredAt(log', i) <=>
                \/ AnsweredAt(log, i)
                \/ counter = log[i].session /\ seq = log[i].request_seq
      /\ ~OpenAt(log', n + 1)
  BY <1>1, <1>2, AfterRow DEF Is
<1>5. /\ \A i \in DOMAIN log : log[i].session <= counter
      /\ \A m \in 1..counter : \E i \in DOMAIN log : Is(log[i], "session_start", m)
      /\ ~RunOver(log)
  BY <1>1 DEF StreamInv, Known, CounterInv, OverInv, Used, Claiming, Unrecovered
<1>6. /\ \A i \in DOMAIN log : OpenAt(log, i) => log[i].session = counter
      /\ \E i \in DOMAIN log : OpenAt(log, i) /\ log[i].session = counter
  BY <1>1 DEF StreamInv, Known, OpenInv, Running
<1>7. /\ \A i \in DOMAIN log : Is(log[i], "llm_request", counter) =>
           /\ log[i].request_seq <= seq
           /\ AnsweredAt(log, i) \/ log[i].request_seq = seq
      /\ \E i \in DOMAIN log :
           /\ Is(log[i], "llm_request", counter)
           /\ log[i].request_seq = seq
           /\ ~AnsweredAt(log, i)
  BY <1>1 DEF StreamInv, Known, RequestInv, Running
<1> HIDE DEF e, n
<1>9. Fits(e)
  BY <1>1, <1>2, <1>5, <1>7 DEF Fits, Is
<1>10. History'
  BY <1>1, <1>2, <1>9, HistoryAppend DEF StreamInv
<1>11. CounterInv'
  <2>1. Used' = counter
    BY <1>1 DEF Used, Claiming
  <2>2. \A i \in DOMAIN log' : log'[i].session <= counter
    BY <1>1, <1>2, <1>3, <1>5
  <2>3. \A m \in 1..counter : \E i \in DOMAIN log' : Is(log'[i], "session_start", m)
    BY <1>3, <1>5
  <2> QED
    BY <1>1, <2>1, <2>2, <2>3 DEF CounterInv, Claiming
<1>12. OpenInv'
  <2>1. \A i \in DOMAIN log' : OpenAt(log', i) =>
          i \in DOMAIN log /\ log'[i].session = counter
    BY <1>3, <1>4, <1>6
  <2>2. \A k \in DOMAIN log' : log'[k].session <= counter
    BY <1>1, <1>2, <1>3, <1>5
  <2>3. \E i \in DOMAIN log' : OpenAt(log', i) /\ log'[i].session = counter
    BY <1>3, <1>4, <1>6
  <2> QED
    BY <1>1, <2>1, <2>2, <2>3 DEF OpenInv, Running
<1>13. RequestInv'
  <2>1. \A i \in DOMAIN log' : Is(log'[i], "llm_request", counter) =>
          log'[i].request_seq <= seq /\ AnsweredAt(log', i)
    BY <1>1, <1>2, <1>3, <1>4, <1>7 DEF Is
  <2> QED
    BY <1>1, <2>1 DEF RequestInv
<1>14. OverInv'
  BY <1>2, <1>3, <1>5 DEF OverInv, RunOver
<1> QED
  BY <1>1, <1>10, <1>11, <1>12, <1>13, <1>14 DEF StreamInv, Known, Synced, Folded

\* The last row of a session, by its own process.
LEMMA StepEnd ==
  ASSUME TypeInv, StreamInv, NEW r \in Reasons, NEW k \in Nat,
         pc \in {"loop", "abort_end"}, Emit(EndRow(counter, r, k)),
         pc' \in {"journaling", "schedule"}, counter' = counter
  PROVE  StreamInv'
<1> DEFINE e == EndRow(counter, r, k)
           n == Len(log)
<1>1. log \in Seq(Event) /\ counter \in Nat
  BY DEF TypeInv, TypeOK
<1>2. e \in Event /\ e.event = "session_end" /\ e.session = counter
  BY <1>1, RowTypes DEF EndRow, Row, Kinds
<1>3. /\ n \in Nat /\ DOMAIN log = 1..n /\ DOMAIN log' = 1..(n + 1)
      /\ \A i \in 1..n : log'[i] = log[i]
      /\ log'[n + 1] = e
  BY <1>1, <1>2, Appended
<1>4. /\ \A i \in DOMAIN log :
           OpenAt(log', i) <=> OpenAt(log, i) /\ log[i].session /= counter
      /\ ~OpenAt(log', n + 1)
  BY <1>1, <1>2, AfterRow DEF Is
<1>5. /\ \A i \in DOMAIN log : log[i].session <= counter
      /\ \A m \in 1..counter : \E i \in DOMAIN log : Is(log[i], "session_start", m)
      /\ ~RunOver(log)
  BY DEF StreamInv, Known, CounterInv, OverInv, Used, Claiming, Unrecovered
<1>6. /\ \A i \in DOMAIN log : OpenAt(log, i) => log[i].session = counter
      /\ \E i \in DOMAIN log : OpenAt(log, i) /\ log[i].session = counter
  BY DEF StreamInv, Known, OpenInv, Running
<1>7. \A i \in DOMAIN log : Is(log[i], "llm_request", counter) => AnsweredAt(log, i)
  BY DEF StreamInv, Known, RequestInv, Running
<1>8. Emit(e)
  OBVIOUS
<1> HIDE DEF e, n
<1>9. Fits(e)
  BY <1>1, <1>2, <1>5, <1>6, <1>7 DEF Fits
<1>10. History'
  BY <1>1, <1>2, <1>8, <1>9, HistoryAppend DEF StreamInv
<1>11. CounterInv'
  <2>1. Used' = counter
    BY DEF Used, Claiming
  <2>2. \A i \in DOMAIN log' : log'[i].session <= counter
    BY <1>1, <1>2, <1>3, <1>5
  <2>3. \A m \in 1..counter : \E i \in DOMAIN log' : Is(log'[i], "session_start", m)
    BY <1>3, <1>5
  <2> QED
    BY <2>1, <2>2, <2>3 DEF CounterInv, Claiming
<1>12. OpenInv'
  <2>1. \A i \in DOMAIN log' : ~OpenAt(log', i)
    BY <1>3, <1>4, <1>6
  <2> QED
    BY <2>1 DEF OpenInv, Running
<1>13. RequestInv'
  BY DEF RequestInv, Running
<1>14. OverInv'
  BY <1>2, <1>3, <1>5 DEF OverInv, RunOver
<1> QED
  BY <1>10, <1>11, <1>12, <1>13, <1>14 DEF StreamInv, Known, Synced, Folded

\* Recovery writes the missing llm_call of a request.
LEMMA StepPhantom ==
  ASSUME TypeInv, StreamInv, EmitPhantom
  PROVE  StreamInv'
<1> DEFINE s == CrashedSession(events)
<1>0. PICK q \in PhantomRequests(events, s) :
        Emit(CallRow(s, q, 0)) /\ events' = Append(events, CallRow(s, q, 0))
  BY DEF EmitPhantom
<1> DEFINE e == CallRow(s, q, 0)
           n == Len(log)
<1>1. /\ log \in Seq(Event) /\ s \in Nat /\ q \in Nat /\ s /= 0
      /\ pc = "folded" /\ pc' = "folded" /\ counter' = counter
      /\ events = log /\ events' = log' /\ Emit(e)
  <2>1. /\ log \in Seq(Event) /\ events \in Seq(Event)
        /\ pc = "folded" /\ pc' = "folded" /\ counter' = counter /\ s /= 0
    BY DEF TypeInv, TypeOK, EmitPhantom
  <2>2. events = log
    BY <2>1 DEF StreamInv, Known, Synced, Folded
  <2> QED
    BY <1>0, <2>1, <2>2, CrashedSessionIsOpen, PhantomType DEF Emit
<1>2. /\ e \in Event
      /\ e.event = "llm_call" /\ e.session = s /\ e.request_seq = q
  BY <1>1, RowTypes DEF CallRow, Row, Kinds, Reasons
<1>3. /\ n \in Nat /\ DOMAIN log = 1..n /\ DOMAIN log' = 1..(n + 1)
      /\ \A i \in 1..n : log'[i] = log[i]
      /\ log'[n + 1] = e
  BY <1>1, <1>2, Appended
<1>4. /\ \A i \in DOMAIN log : OpenAt(log', i) <=> OpenAt(log, i)
      /\ ~OpenAt(log', n + 1)
  BY <1>1, <1>2, AfterRow DEF Is
<1>5. PICK o \in DOMAIN log : OpenAt(log, o) /\ log[o].session = s
  <2>1. s \in OpenSessions(log)
    BY <1>1, CrashedSessionIsOpen
  <2> QED
    BY <2>1 DEF OpenSessions, IsOpen, OpenAt, Is
<1>6. /\ \A i \in DOMAIN log : log[i].session <= counter
      /\ \A m \in 1..counter : \E i \in DOMAIN log : Is(log[i], "session_start", m)
      /\ ~RunOver(log)
  BY <1>1, <1>5 DEF StreamInv, Known, CounterInv, OverInv, Used, Claiming
<1>7. \A i \in DOMAIN log : OpenAt(log, i) =>
        \A k \in DOMAIN log : log[k].session <= log[i].session
  BY DEF StreamInv, Known, OpenInv
<1>8. PICK p \in DOMAIN log : /\ Is(log[p], "llm_request", s)
                              /\ log[p].request_seq = q
                              /\ ~AnsweredAt(log, p)
  BY <1>1 DEF PhantomRequests, SeqsOf, AnsweredAt, Is
<1>14. \A i \in DOMAIN log : log[i].session \in Nat
  BY <1>1, RowFields
<1>15. counter \in Nat
  BY DEF TypeInv, TypeOK
<1> HIDE DEF e, n, s
<1>9. Fits(e)
  <2>1. \A m \in 1..s : m \in 1..counter
    BY <1>1, <1>5, <1>6, <1>15
  <2> QED
    BY <1>1, <1>2, <1>6, <1>8, <2>1 DEF Fits
<1>10. History'
  BY <1>1, <1>2, <1>9, HistoryAppend DEF StreamInv
<1>11. CounterInv'
  <2>1. Used' = counter
    BY <1>1 DEF Used, Claiming
  <2>2. \A i \in DOMAIN log' : log'[i].session <= counter
    BY <1>1, <1>2, <1>3, <1>5, <1>6
  <2>3. \A m \in 1..counter : \E i \in DOMAIN log' : Is(log'[i], "session_start", m)
    BY <1>3, <1>6
  <2> QED
    BY <1>1, <2>1, <2>2, <2>3 DEF CounterInv, Claiming
<1>12. OpenInv'
  <2>1. \A i \in DOMAIN log' : OpenAt(log', i) =>
          /\ i \in DOMAIN log /\ OpenAt(log, i)
          /\ log'[i].session = log[i].session
    BY <1>3, <1>4
  <2>2. ASSUME NEW i \in DOMAIN log, OpenAt(log, i)
        PROVE  \A k \in DOMAIN log' : log'[k].session <= log[i].session
    BY <1>2, <1>3, <1>5, <1>7, <2>2
  <2> QED
    BY <1>1, <2>1, <2>2 DEF OpenInv, Running, Unrecovered
<1>13. RequestInv' /\ OverInv'
  BY <1>1, <1>2, <1>3, <1>6 DEF RequestInv, Running, OverInv, RunOver
<1> QED
  BY <1>1, <1>10, <1>11, <1>12, <1>13 DEF StreamInv, Known, Synced

\* Recovery closes the crashed session.
LEMMA StepCloseCrashed ==
  ASSUME TypeInv, StreamInv, CloseCrashed
  PROVE  StreamInv'
<1> DEFINE s == CrashedSession(events)
           e == EndRow(s, "crash", SessionCalls(events, s))
           n == Len(log)
<1>1. /\ log \in Seq(Event) /\ s \in Nat /\ s /= 0 /\ counter \in Nat
      /\ SessionCalls(events, s) \in Nat
      /\ pc = "folded" /\ pc' = "journal_crashed" /\ counter' = counter
      /\ events = log /\ events' = log' /\ Emit(e)
      /\ PhantomRequests(log, s) = {}
  <2>1. /\ log \in Seq(Event) /\ events \in Seq(Event) /\ counter \in Nat
        /\ pc = "folded" /\ pc' = "journal_crashed" /\ counter' = counter
        /\ s /= 0 /\ Emit(e) /\ events' = Append(events, e)
        /\ PhantomRequests(events, s) = {}
    BY DEF TypeInv, TypeOK, CloseCrashed, Goto
  <2>2. events = log
    BY <2>1 DEF StreamInv, Known, Synced, Folded
  <2>3. s \in Nat /\ SessionCalls(events, s) \in Nat
    BY <2>1, CrashedSessionIsOpen, CountsAreNat
  <2> QED
    BY <2>1, <2>2, <2>3 DEF Emit
<1>2. e \in Event /\ e.event = "session_end" /\ e.session = s
  BY <1>1, RowTypes DEF EndRow, Row, Kinds, Reasons
<1>3. /\ n \in Nat /\ DOMAIN log = 1..n /\ DOMAIN log' = 1..(n + 1)
      /\ \A i \in 1..n : log'[i] = log[i]
      /\ log'[n + 1] = e
  BY <1>1, <1>2, Appended
<1>4. /\ \A i \in DOMAIN log :
           OpenAt(log', i) <=> OpenAt(log, i) /\ log[i].session /= s
      /\ ~OpenAt(log', n + 1)
  BY <1>1, <1>2, AfterRow DEF Is
<1>5. PICK o \in DOMAIN log : OpenAt(log, o) /\ log[o].session = s
  <2>1. s \in OpenSessions(log)
    BY <1>1, CrashedSessionIsOpen
  <2> QED
    BY <2>1 DEF OpenSessions, IsOpen, OpenAt, Is
<1>6. /\ \A i \in DOMAIN log : log[i].session <= counter
      /\ \A m \in 1..counter : \E i \in DOMAIN log : Is(log[i], "session_start", m)
      /\ ~RunOver(log)
  BY <1>1, <1>5 DEF StreamInv, Known, CounterInv, OverInv, Used, Claiming
<1>7. \A i \in DOMAIN log : OpenAt(log, i) =>
        \A k \in DOMAIN log : log[k].session <= log[i].session
  BY DEF StreamInv, Known, OpenInv
<1>8. \A i \in DOMAIN log : Is(log[i], "llm_request", s) => AnsweredAt(log, i)
  <2> HIDE DEF e, n, s
  <2> SUFFICES ASSUME NEW i \in DOMAIN log, Is(log[i], "llm_request", s)
               PROVE  AnsweredAt(log, i)
    OBVIOUS
  <2>1. log[i].request_seq \in SeqsOf(log, "llm_request", s)
    BY DEF SeqsOf
  <2>2. log[i].request_seq \in SeqsOf(log, "llm_call", s)
    BY <1>1, <2>1 DEF PhantomRequests
  <2>3. log[i].session = s
    BY DEF Is
  <2> QED
    BY <2>2, <2>3 DEF SeqsOf, AnsweredAt
<1>14. \A i \in DOMAIN log : log[i].session \in Nat
  BY <1>1, RowFields
<1> HIDE DEF e, n, s
<1>9. Fits(e)
  <2>1. \A m \in 1..s : m \in 1..counter
    BY <1>1, <1>5, <1>6
  <2> QED
    BY <1>1, <1>2, <1>5, <1>6, <1>8, <2>1 DEF Fits
<1>10. History'
  BY <1>1, <1>2, <1>9, HistoryAppend DEF StreamInv
<1>11. CounterInv'
  <2>1. Used' = counter
    BY <1>1 DEF Used, Claiming
  <2>2. \A i \in DOMAIN log' : log'[i].session <= counter
    BY <1>1, <1>2, <1>3, <1>5, <1>6
  <2>3. \A m \in 1..counter : \E i \in DOMAIN log' : Is(log'[i], "session_start", m)
    BY <1>3, <1>6
  <2> QED
    BY <1>1, <2>1, <2>2, <2>3 DEF CounterInv, Claiming
<1>12. OpenInv'
  <2>1. ASSUME NEW i \in DOMAIN log, OpenAt(log, i)
        PROVE  log[i].session = s
    BY <1>1, <1>5, <1>7, <1>14, <2>1
  <2>2. \A i \in DOMAIN log' : ~OpenAt(log', i)
    BY <1>3, <1>4, <2>1
  <2> QED
    BY <1>1, <2>2 DEF OpenInv, Running
<1>13. RequestInv' /\ OverInv'
  BY <1>1, <1>2, <1>3, <1>6 DEF RequestInv, Running, OverInv, RunOver
<1> QED
  BY <1>1, <1>10, <1>11, <1>12, <1>13 DEF StreamInv, Known, Synced

\* Nothing is open where recovery found nothing to close.
LEMMA NothingOpen ==
  ASSUME TypeInv, StreamInv, pc = "folded", CrashedSession(events) = 0
  PROVE  \A i \in DOMAIN log : ~OpenAt(log, i)
<1>1. log \in Seq(Event) /\ events = log
  BY DEF TypeInv, TypeOK, StreamInv, Known, Synced, Folded
<1> SUFFICES ASSUME NEW i \in DOMAIN log, OpenAt(log, i)
             PROVE  FALSE
  OBVIOUS
<1>2. log[i].session \in OpenSessions(log)
  BY DEF OpenSessions, SessionNumbers, IsOpen, OpenAt, Is
<1>3. 0 \in OpenSessions(log)
  BY <1>1, <1>2, CrashedSessionIsOpen
<1>4. PICK j \in DOMAIN log : log[j].event = "session_start" /\ log[j].session = 0
  BY <1>3 DEF OpenSessions, IsOpen, Is
<1> QED
  BY <1>4 DEF StreamInv, History, SessionsNumberedInOrder

LEMMA StepRefresh ==
  ASSUME TypeInv, StreamInv, RefreshCache
  PROVE  StreamInv'
<1>1. log' = log /\ pc \in {"folded", "recovered"} /\ events = log
  BY DEF RefreshCache, StreamInv, Known, Synced, Folded
<1>2. CASE RunOver(events)
  BY <1>1, <1>2, StepToIdle DEF RefreshCache, Exit
<1>3. CASE ~RunOver(events)
  <2>1. /\ pc' \in {"stop_all", "boundary"}
        /\ events' = events /\ counter' = counter /\ ~RunOver(log)
    BY <1>1, <1>3 DEF RefreshCache
  <2>2. \A i \in DOMAIN log : ~OpenAt(log, i)
    <3>1. CASE pc = "folded"
      BY <3>1, NothingOpen DEF RefreshCache
    <3>2. CASE pc = "recovered"
      BY <3>2 DEF StreamInv, Known, OpenInv, Unrecovered, Running
    <3> QED
      BY <1>1, <3>1, <3>2
  <2>3. History'
    BY <1>1, HistorySame DEF StreamInv
  <2>4. CounterInv'
    BY <1>1, <2>1 DEF StreamInv, Known, CounterInv, Used, Claiming
  <2>5. OpenInv' /\ RequestInv' /\ OverInv' /\ Synced'
    BY <1>1, <2>1, <2>2
       DEF OpenInv, RequestInv, OverInv, Synced, OpenAt, Running, RunOver
  <2> QED
    BY <2>3, <2>4, <2>5 DEF StreamInv, Known
<1> QED
  BY <1>2, <1>3

-------------------------------------------------------------------------------
(* The invariant.                                                          *)

LEMMA StreamInit == Init => StreamInv
<1> SUFFICES ASSUME Init PROVE StreamInv
  OBVIOUS
<1>1. log = <<>> /\ pc = "idle" /\ DOMAIN log = {} /\ Len(log) = 0
  BY DEF Init
<1>2. History
  BY <1>1 DEF History, Dense, SessionsNumberedInOrder, ClosedOnce,
       SessionsDoNotOverlap, RequestsOnce, CallsPairOnce,
       EveryRequestAccounted, RunCompleteIsFinal
<1>3. Known
  BY <1>1 DEF Known, Synced, CounterInv, OpenInv, RequestInv, OverInv, RunOver,
       Folded, Running
<1> QED
  BY <1>2, <1>3 DEF StreamInv

LEMMA StreamRecover ==
  ASSUME TypeInv, StreamInv, Recover
  PROVE  StreamInv'
<1>1. CASE JournalCrashed
  <2>1. /\ pc = "journal_crashed" /\ pc' = "recovered" /\ log' = log
        /\ events' = events /\ counter' = counter
    BY <1>1 DEF JournalCrashed, Goto
  <2>2. ~RunOver(log)
    BY <2>1 DEF StreamInv, Known, OverInv, Unrecovered
  <2>3. Used' = Used
    BY <2>1 DEF Used, Claiming
  <2> QED
    BY <2>1, <2>2, <2>3, StepQuiet DEF Unrecovered, Running, Claiming, Folded
<1> QED
  BY <1>1, StepPhantom, StepCloseCrashed, StepRefresh DEF Recover

LEMMA StreamBoundary ==
  ASSUME TypeInv, StreamInv, Boundary
  PROVE  StreamInv'
<1>0. CASE JournalRaises
  BY <1>0, StepToIdle DEF JournalRaises, Exit, durable
<1> SUFFICES ASSUME BoundaryTrips \/ ClaimNumber
             PROVE  StreamInv'
  BY <1>0 DEF Boundary
<1>1. /\ pc = "boundary" /\ log' = log /\ events' = events
      /\ ~RunOver(log) /\ counter \in Nat
  BY DEF BoundaryTrips, ClaimNumber, Goto, durable, StreamInv, Known,
         OverInv, Unrecovered, TypeInv, TypeOK
<1>2. CASE BoundaryTrips
  <2>1. pc' = "stop_all" /\ Used' = Used
    BY <1>1, <1>2 DEF BoundaryTrips, Goto, Used, Claiming
  <2> QED
    BY <1>1, <2>1, StepQuiet DEF Unrecovered, Running, Claiming, Folded
<1>3. CASE ClaimNumber
  <2>1. pc' = "claimed" /\ Used' = Used /\ counter' >= 1
    BY <1>1, <1>3 DEF ClaimNumber, Goto, Used, Claiming
  <2> QED
    BY <1>1, <2>1, StepQuiet DEF Unrecovered, Running, Claiming, Folded
<1> QED
  BY <1>2, <1>3

LEMMA StreamSession ==
  ASSUME TypeInv, StreamInv, RunOneSession
  PROVE  StreamInv'
<1>0. log \in Seq(Event) /\ counter \in Nat /\ calls \in Nat
  BY DEF TypeInv, TypeOK
<1>1. CASE HarnessFails \/ StartSession
  BY <1>1, StepStart DEF HarnessFails, StartSession, Goto, memory, Claiming
<1>2. CASE AbortEnd
  BY <1>2, StepEnd DEF AbortEnd, Goto, memory, Reasons
<1>3. CASE Refused
  <2> DEFINE e == Row("session_refused", counter - 1)
  <2>1. /\ pc = "claimed" /\ pc' = "save" /\ Emit(e)
        /\ counter' = counter - 1 /\ counter - 1 \in Nat
    BY <1>0, <1>3 DEF Refused, Goto, TypeInv, Claiming
  <2>2. e \in Event /\ e.event = "session_refused" /\ e.session = counter - 1
    BY <2>1, RowTypes DEF Row, Kinds, Reasons
  <2>3. Used = counter - 1 /\ Used' = counter - 1
    BY <2>1 DEF Used, Claiming
  <2>4. ~RunOver(log)
    BY <2>1 DEF StreamInv, Known, OverInv, Unrecovered
  <2> HIDE DEF e
  <2> QED
    BY <2>1, <2>2, <2>3, <2>4, StepRow DEF Unrecovered, Running, Claiming, Folded
<1>4. CASE Spawned
  <2>1. /\ pc = "claimed" /\ pc' = "starting" /\ log' = log
        /\ events' = events /\ counter' = counter /\ counter >= 1
    BY <1>4 DEF Spawned, Goto, durable, TypeInv, Claiming
  <2>2. ~RunOver(log) /\ Used' = Used
    BY <2>1 DEF StreamInv, Known, OverInv, Unrecovered, Used, Claiming
  <2> QED
    BY <2>1, <2>2, StepQuiet DEF Unrecovered, Running, Claiming, Folded
<1>5. CASE EndSession
  BY <1>0, <1>5, StepEnd DEF EndSession, Goto, memory, Reasons
<1>6. CASE WriteJournal
  <2>1. /\ pc = "journaling" /\ pc' = "schedule" /\ log' = log
        /\ events' = events /\ counter' = counter
    BY <1>6 DEF WriteJournal, Goto, memory
  <2>2. ~RunOver(log) /\ Used' = Used
    BY <2>1 DEF StreamInv, Known, OverInv, Unrecovered, Used, Claiming
  <2> QED
    BY <2>1, <2>2, StepQuiet DEF Unrecovered, Running, Claiming, Folded
<1>7. CASE ScheduleNext
  <2> DEFINE e == Row("schedule_next", counter)
  <2>1. pc = "schedule" /\ pc' = "save" /\ Emit(e) /\ counter' = counter
    BY <1>7 DEF ScheduleNext, Goto, memory
  <2>2. e \in Event /\ e.event = "schedule_next" /\ e.session = counter
    BY <1>0, RowTypes DEF Row, Kinds, Reasons
  <2>3. Used = counter /\ Used' = counter
    BY <2>1 DEF Used, Claiming
  <2>4. ~RunOver(log)
    BY <2>1 DEF StreamInv, Known, OverInv, Unrecovered
  <2> HIDE DEF e
  <2> QED
    BY <2>1, <2>2, <2>3, <2>4, StepRow DEF Unrecovered, Running, Claiming, Folded
<1>8. CASE Save
  BY <1>8, StepToIdle DEF Save, Exit
<1> QED
  BY <1>1, <1>2, <1>3, <1>4, <1>5, <1>6, <1>7, <1>8, StepRequest, StepAnswer
     DEF RunOneSession

LEMMA StreamComplete ==
  ASSUME TypeInv, StreamInv, CompleteRun
  PROVE  StreamInv'
<1>0. /\ log \in Seq(Event) /\ counter \in Nat /\ events \in Seq(Event)
      /\ why \in Reasons
  BY DEF TypeInv, TypeOK
<1>1. ASSUME NEW e \in Event, Emit(e), e.session = counter,
             e.event \in {"tool_call", "shell_state", "run_complete"},
             pc \in {"stop_all", "revoke", "stop_env", "complete"},
             pc' \in {"revoke", "stop_env", "complete", "persist"},
             e.event = "run_complete" => pc' = "persist",
             counter' = counter
      PROVE  StreamInv'
  <2>1. Used = counter /\ Used' = counter
    BY <1>1 DEF Used, Claiming
  <2>2. ~RunOver(log)
    BY <1>1 DEF StreamInv, Known, OverInv, Unrecovered
  <2> QED
    BY <1>1, <2>1, <2>2, StepRow DEF Unrecovered, Running, Claiming, Folded
<1>2. ASSUME NEW from \in {"stop_all", "revoke", "stop_env"},
             NEW kind \in {"tool_call", "shell_state"},
             NEW to \in {"revoke", "stop_env", "complete"},
             TearDown(from, kind, to)
      PROVE  StreamInv'
  <2> DEFINE e == Row(kind, counter)
  <2>1. e \in Event /\ e.event = kind /\ e.session = counter
    BY <1>0, RowTypes DEF Row, Kinds, Reasons
  <2>2. pc = from /\ pc' = to /\ Emit(e) /\ counter' = counter
    BY <1>2 DEF TearDown, Goto, memory
  <2> HIDE DEF e
  <2> QED
    BY <1>1, <2>1, <2>2
<1>3. CASE StopBooks \/ RevokeGrant \/ StopEnvironment
  BY <1>2, <1>3 DEF StopBooks, RevokeGrant, StopEnvironment
<1>4. CASE Complete
  <2> DEFINE e == CompleteRow(counter, why, TotalCalls(events))
  <2>1. e \in Event
    BY <1>0, RowTypes, CountsAreNat DEF Kinds
  <2>2. e.event = "run_complete" /\ e.session = counter
    BY DEF CompleteRow, Row
  <2>3. pc = "complete" /\ pc' = "persist" /\ Emit(e) /\ counter' = counter
    BY <1>4 DEF Complete, Goto, memory
  <2> HIDE DEF e
  <2> QED
    BY <1>1, <2>1, <2>2, <2>3
<1>5. CASE PersistComplete
  <2>1. /\ pc = "persist" /\ pc' = "disable" /\ log' = log
        /\ events' = events /\ counter' = counter
    BY <1>5 DEF PersistComplete, Goto, memory
  <2>2. Used' = Used
    BY <2>1 DEF Used, Claiming
  <2> QED
    BY <2>1, <2>2, StepQuiet DEF Unrecovered, Running, Claiming, Folded
<1>6. CASE DisableSupervisor
  BY <1>6, StepToIdle DEF DisableSupervisor, Exit
<1> QED
  BY <1>3, <1>4, <1>5, <1>6 DEF CompleteRun

LEMMA StreamSame ==
  ASSUME StreamInv, log' = log, events' = events, counter' = counter,
         seq' = seq, pc' = pc
  PROVE  StreamInv'
<1>1. History'
  BY HistorySame DEF StreamInv
<1>2. Known'
  BY DEF StreamInv, Known, Synced, CounterInv, OpenInv, RequestInv, OverInv,
         RunOver, OpenAt, AnsweredAt, Used
<1> QED
  BY <1>1, <1>2 DEF StreamInv

LEMMA StreamStep == TypeInv /\ StreamInv /\ [Next]_vars => StreamInv'
<1> SUFFICES ASSUME TypeInv, StreamInv, [Next]_vars PROVE StreamInv'
  OBVIOUS
<1>1. CASE Proceed
  BY <1>1, StreamRecover, StreamBoundary, StreamSession, StreamComplete DEF Proceed
<1>2. CASE ScheduledRun \/ ManualRun \/ EndRun
  BY <1>2, StepFold DEF ScheduledRun, ManualRun, EndRun
<1>3. CASE Crash
  BY <1>3, StepToIdle DEF Crash, Exit
<1>4. CASE WakeComesDue \/ RunExpires \/ UNCHANGED vars
  BY <1>4, StreamSame DEF WakeComesDue, RunExpires, vars, durable, memory
<1> QED
  BY <1>1, <1>2, <1>3, <1>4 DEF Next

\* The invariant that makes the stream properties inductive.
THEOREM StreamInvariant == Spec => []StreamInv
  BY TypeInit, TypeStep, StreamInit, StreamStep, PTL DEF Spec

\* No session number is reused or skipped, whatever crashed or was refused.
THEOREM NumberedInOrder == Spec => []SessionsNumberedInOrder
<1>1. StreamInv => SessionsNumberedInOrder
  BY DEF StreamInv, History
<1> QED
  BY StreamInvariant, <1>1, PTL

\* A session is closed once, by itself or by recovery, however often recovery
\* is cut short and repeated.
THEOREM ClosedAtMostOnce == Spec => []ClosedOnce
<1>1. StreamInv => ClosedOnce
  BY DEF StreamInv, History
<1> QED
  BY StreamInvariant, <1>1, PTL

\* No session starts while an earlier one is open.
THEOREM NoOverlap == Spec => []SessionsDoNotOverlap
<1>1. StreamInv => SessionsDoNotOverlap
  BY DEF StreamInv, History
<1> QED
  BY StreamInvariant, <1>1, PTL

\* Every request of a closed session has its llm_call row.
THEOREM RequestsAccounted == Spec => []EveryRequestAccounted
<1>1. StreamInv => EveryRequestAccounted
  BY DEF StreamInv, History
<1> QED
  BY StreamInvariant, <1>1, PTL

\* A request is completed at most once, by its own answer or by a phantom.
THEOREM CallsPairedOnce == Spec => []CallsPairOnce
<1>1. StreamInv => CallsPairOnce
  BY DEF StreamInv, History
<1> QED
  BY StreamInvariant, <1>1, PTL

\* Nothing is written after run_complete.
THEOREM CompleteIsFinal == Spec => []RunCompleteIsFinal
<1>1. StreamInv => RunCompleteIsFinal
  BY DEF StreamInv, History
<1> QED
  BY StreamInvariant, <1>1, PTL

===============================================================================
