---------------------------- MODULE AgentLoopProofs ----------------------------
(***************************************************************************)
(* Proofs about AgentLoop: its types, the bound the caps put on a session  *)
(* together, the finality of end_session, that a session is to its run the *)
(* bounded sequence of requests and answers of ModelCalls, and what the    *)
(* history of its calls says of the repetition breaker, of the wake and of *)
(* the record of the shell calls, and that no session goes on for ever.    *)
(***************************************************************************)
EXTENDS AgentLoop, NumberFacts, SequenceTheorems, TLAPS

-------------------------------------------------------------------------------
(* The tracker and the carried wake keep to their types.                   *)

LEMMA LastType ==
  ASSUME NEW S, NEW s \in Seq(S), NEW n \in Nat \ {0}
  PROVE  Last(s, n) \in Seq(S)
BY DEF Last

LEMMA RecordType ==
  ASSUME NEW S, NEW T, NEW t \in Trackers(S, T),
         NEW call, call.tool \in T, call.sig \in S
  PROVE  Record(t, call) \in Trackers(S, T)
<1> t \in Trackers(S, T)
  OBVIOUS
<1>0. t.identical \in Nat /\ t.recent \in Seq(S) /\ t.errors \in Nat
  BY DEF Trackers
<1>1. Append(t.recent, call.sig) \in Seq(S)
  BY <1>0
<1>2. Last(Append(t.recent, call.sig), Window) \in Seq(S)
  BY <1>1, LastType, RepetitionAssumption
<1>3. (IF call.sig = t.sig THEN t.identical + 1 ELSE 1) \in Nat
  BY <1>0
<1>4. (IF call.failed THEN call.tool ELSE "") \in T \cup {""}
  OBVIOUS
<1>5. (IF ~call.failed THEN 0
       ELSE IF call.tool = t.errorTool THEN t.errors + 1 ELSE 1) \in Nat
  BY <1>0
<1> QED
  BY <1>2, <1>3, <1>4, <1>5, Zenon DEF Record, Trackers

LEMMA TrippedType ==
  ASSUME NEW t
  PROVE  Tripped(t) \in Rules \cup {"none"}
BY DEF Tripped, Rules

LEMMA IntentFields ==
  ASSUME NEW i \in Intents
  PROVE  i.tool \in Tools /\ i.sig \in Sigs /\ i.valid \in BOOLEAN
BY LoopAssumption DEF Sigs

LEMMA CarryType ==
  ASSUME TypeOK, NEW s \in Seq(Intents), CarryWake(s)
  PROVE  wake' \in Sigs \cup {NoWake} /\ carried' \in {"none", "applied", "invalid"}
<1>1. CASE UNCHANGED <<wake, carried>>
  BY <1>1 DEF TypeOK
<1>2. ASSUME NEW i \in AsksIn(s), Carry(s[i])
      PROVE  wake' \in Sigs \cup {NoWake} /\ carried' \in {"none", "applied", "invalid"}
  <2>1. s[i] \in Intents
    BY <1>2 DEF AsksIn
  <2> QED
    BY <2>1, <1>2, IntentFields DEF Carry, TypeOK
<1> QED
  BY <1>1, <1>2 DEF CarryWake

LEMMA TrackerNowType ==
  ASSUME TypeOK, batch /= <<>>, outcome \in Outcomes
  PROVE  TrackerNow \in Trackers(Sigs, Tools)
<1>1. Intent \in Intents
  BY DEF Intent, TypeOK
<1>2. Intent.tool \in Tools /\ Intent.sig \in Sigs
  BY <1>1, IntentFields
<1>3. Record(tracker, [tool |-> Intent.tool, sig |-> Intent.sig,
                       failed |-> outcome /= "ok"]) \in Trackers(Sigs, Tools)
  BY <1>2, RecordType, Zenon DEF TypeOK
<1> QED
  BY <1>3 DEF TrackerNow, TypeOK

-------------------------------------------------------------------------------
(* Types.                                                                  *)

LEMMA AnswersAreSequences == Answers \subseteq Seq(Intents)
BY LoopAssumption DEF Answers

LEMMA ExecutedType ==
  ASSUME TypeOK, batch /= <<>>, outcome \in Outcomes, Executed
  PROVE  /\ callSeq' \in Nat /\ executed' \in Nat /\ errs' \in Nat
         /\ rows' \in Seq(Row) /\ outcome' \in Outcomes \cup {"none"}
         /\ batch' \in Seq(Intents)
         /\ UNCHANGED <<modelVars, ended, shellVars>>
<1>1. Intent \in Intents
  BY DEF Intent, TypeOK
<1>2. Intent.tool \in Tools /\ Intent.sig \in Sigs
  BY <1>1, IntentFields
<1>3. Seqno \in Nat \ {0} /\ last \in Nat
  BY DEF Seqno, TypeOK
<1>4. RowNow \in Row
  BY <1>2, <1>3 DEF RowNow, Row
<1>5. rows' \in Seq(Row)
  BY <1>4 DEF Executed, TypeOK
<1>6. callSeq' \in Nat /\ executed' \in Nat /\ errs' \in Nat
  BY DEF Executed, ErrsNow, TypeOK
<1>7. batch' \in Seq(Intents)
  BY DEF Executed, TypeOK
<1> QED
  BY <1>5, <1>6, <1>7 DEF Executed

LEMMA TypeInit == Init => TypeInv
<1> SUFFICES ASSUME Init PROVE TypeInv
  OBVIOUS
<1>1. <<>> \in Seq(Sigs)
  OBVIOUS
<1>2. NewTracker \in Trackers(Sigs, Tools)
  BY <1>1, Zenon DEF NewTracker, Trackers
<1>3. tracker \in Trackers(Sigs, Tools)
  BY <1>2, Zenon DEF Init
<1>4. rows \in Seq(Row) /\ batch \in Seq(Intents)
  BY DEF Init
<1>5. attempt \in 0..RetryMax /\ late \in SUBSET Nat /\ wake \in Sigs \cup {NoWake}
  BY LoopAssumption DEF Init
<1>6. /\ pc = "start" /\ outcome = "none" /\ trip = "none" /\ carried = "none"
      /\ reason = "none" /\ ended = FALSE
      /\ requests = 0 /\ calls = 0 /\ turns = 0 /\ errs = 0
      /\ callSeq = 0 /\ executed = 0 /\ last = 0
  BY DEF Init
<1>7. TypeOK
  BY <1>3, <1>4, <1>5, <1>6 DEF TypeOK
<1>8. Underway
  BY DEF Init, Underway
<1> QED
  BY <1>7, <1>8 DEF TypeInv

LEMMA TypeStep == TypeInv /\ [Next]_vars => TypeInv'
<1> SUFFICES ASSUME TypeInv, [Next]_vars PROVE TypeInv'
  OBVIOUS
<1> USE LoopAssumption DEF TypeInv, modelVars, callVars, stopVars, shellVars
<1>1. CASE Inject
  BY <1>1 DEF Inject, TypeOK, Underway
<1>2. CASE SendRequest
  BY <1>2 DEF SendRequest, TypeOK, Underway
<1>3. CASE Retry
  BY <1>3 DEF Retry, AttemptFailed, TypeOK, Underway
<1>4. CASE GiveUp
  BY <1>4 DEF GiveUp, AttemptFailed, Stop, TypeOK, Underway, Reasons
<1>5. CASE OverTokenCap
  <2>1. PICK b \in Answers : batch' = b /\ CarryWake(b)
    BY <1>5 DEF OverTokenCap
  <2>2. b \in Seq(Intents)
    BY AnswersAreSequences
  <2>3. wake' \in Sigs \cup {NoWake} /\ carried' \in {"none", "applied", "invalid"}
    BY <2>1, <2>2, CarryType
  <2> QED
    BY <1>5, <2>1, <2>2, <2>3
    DEF OverTokenCap, Answered, Stop, TypeOK, Underway, Reasons, Caps
<1>6. CASE NoToolCalls
  BY <1>6 DEF NoToolCalls, Answered, Stop, TypeOK, Underway, Reasons
<1>7. CASE TakeBatch
  BY <1>7, AnswersAreSequences DEF TakeBatch, Answered, TypeOK, Underway
<1>8. CASE Skip
  BY <1>8 DEF Skip, TypeOK, Underway
<1>9. CASE Dispatch
  BY <1>9 DEF Dispatch, TypeOK, Underway
<1>10. CASE Return
  <2>1. batch /= <<>> /\ Intent \in Intents
    BY <1>10 DEF Return, Underway, Intent, TypeOK
  <2>2. outcome' \in Outcomes
    BY <1>10 DEF Return, Returns, Outcomes
  <2>3. last' \in Nat /\ wake' \in Sigs \cup {NoWake} /\ ended' \in BOOLEAN
    BY <1>10, <2>1, IntentFields DEF Return, Seqno, TypeOK
  <2> QED
    BY <1>10, <2>1, <2>2, <2>3 DEF Return, TypeOK, Underway
<1>11. CASE TimesOut
  BY <1>11 DEF TimesOut, Seqno, TypeOK, Underway, Outcomes
<1>12. CASE LateFinish
  BY <1>12 DEF LateFinish, TypeOK, Underway
<1>13. CASE BatchDone
  BY <1>13 DEF BatchDone, Stop, TypeOK, Underway, Reasons
<1>14. CASE Finish
  BY <1>14 DEF Finish, TypeOK, Underway
<1>15. ASSUME Executed
       PROVE  /\ batch /= <<>> /\ outcome \in Outcomes
              /\ callSeq' \in Nat /\ executed' \in Nat /\ errs' \in Nat
              /\ rows' \in Seq(Row) /\ outcome' \in Outcomes \cup {"none"}
              /\ batch' \in Seq(Intents)
              /\ UNCHANGED <<modelVars, ended, shellVars>>
              /\ TrackerNow \in Trackers(Sigs, Tools)
              /\ TripNow \in Rules \cup {"none"}
  <2>1. batch /= <<>> /\ outcome \in Outcomes
    BY <1>15 DEF Executed, Underway
  <2>2. TripNow \in Rules \cup {"none"}
    BY TrippedType DEF TripNow
  <2> QED
    BY <1>15, <2>1, <2>2, ExecutedType, TrackerNowType
<1>16. CASE OneErrorTooMany
  BY <1>15, <1>16 DEF OneErrorTooMany, Stop, TypeOK, Underway, Reasons
<1>17. CASE EndedBatch
  BY <1>15, <1>17 DEF EndedBatch, WithinErrors, TypeOK, Underway
<1>18. ASSUME CarryWake(Tail(batch)), Executed
       PROVE  /\ wake' \in Sigs \cup {NoWake}
              /\ carried' \in {"none", "applied", "invalid"}
  <2>1. Tail(batch) \in Seq(Intents)
    BY <1>15, <1>18 DEF TypeOK
  <2> QED
    BY <1>18, <2>1, CarryType
<1>19. CASE Repeats
  BY <1>15, <1>18, <1>19
  DEF Repeats, WithinErrors, Stop, TypeOK, Underway, Reasons, Caps
<1>20. CASE AtToolCap
  BY <1>15, <1>18, <1>20
  DEF AtToolCap, WithinErrors, Stop, TypeOK, Underway, Reasons, Caps
<1>21. CASE NextIntent
  BY <1>15, <1>21 DEF NextIntent, WithinErrors, TypeOK, Underway
<1>22. CASE UNCHANGED vars
  BY <1>22 DEF vars, TypeOK, Underway
<1> QED
  BY <1>1, <1>2, <1>3, <1>4, <1>5, <1>6, <1>7, <1>8, <1>9, <1>10, <1>11,
     <1>12, <1>13, <1>14, <1>16, <1>17, <1>19, <1>20, <1>21, <1>22
  DEF Next, OwnStep

\* Every variable of the loop keeps to its type, for every set of tool calls
\* and every value of the caps.
THEOREM TypeCorrect == Spec => []TypeOK
<1>1. TypeInv => TypeOK
  BY DEF TypeInv
<1> QED
  BY <1>1, TypeInit, TypeStep, PTL DEF Spec

-------------------------------------------------------------------------------
(* Arithmetic.                                                             *)

LEMMA OneMore ==
  ASSUME NEW a \in Nat, NEW m \in Nat
  PROVE  (a + 1) * m = a * m + m /\ m * (a + 1) = m * a + m /\ a * m \in Nat
         /\ m * a \in Nat
OBVIOUS

LEMMA Monotone ==
  ASSUME NEW a \in Nat, NEW b \in Nat, NEW m \in Nat, a <= b
  PROVE  a * m <= b * m /\ m * a <= m * b
<1>1. PICK d \in Nat : b = a + d
  <2>1. b - a \in Nat /\ b = a + (b - a)
    OBVIOUS
  <2> QED
    BY <2>1
<1>2. b * m = a * m + d * m /\ m * b = m * a + m * d
  BY <1>1
<1>3. d * m \in Nat /\ m * d \in Nat /\ a * m \in Nat /\ m * a \in Nat
  BY OneMore
<1> QED
  BY <1>2, <1>3

LEMMA BelowTheCaps ==
  ASSUME NEW a \in Nat, NEW cap \in Nat, NEW m \in Nat, NEW e \in Nat,
         a < cap, e < m
  PROVE  a * m + e + 1 <= cap * m
<1>1. (a + 1) * m <= cap * m
  BY Monotone
<1>2. (a + 1) * m = a * m + m /\ a * m \in Nat /\ cap * m \in Nat
  BY OneMore
<1> QED
  BY <1>1, <1>2

-------------------------------------------------------------------------------
(* The turns.                                                              *)

LEMMA PaidFacts ==
  ASSUME TypeInv
  PROVE  /\ Paid \in Nat /\ MaxTurns \in Nat
         /\ executed < ToolCap /\ errs < MaxErr => Paid + 1 <= MaxTurns
<1> executed \in Nat /\ errs \in Nat /\ MaxErr \in Nat /\ ToolCap \in Nat
  BY LoopAssumption DEF TypeInv, TypeOK
<1>1. executed * MaxErr \in Nat /\ ToolCap * MaxErr \in Nat
  BY OneMore
<1>2. ASSUME executed < ToolCap, errs < MaxErr
      PROVE  executed * MaxErr + errs + 1 <= ToolCap * MaxErr
  BY <1>2, BelowTheCaps
<1> QED
  BY <1>1, <1>2 DEF Paid, MaxTurns

LEMMA OnCredit ==
  ASSUME NEW t \in Nat, NEW p \in Nat, NEW paidUp, t <= p
  PROVE  t <= p + (IF paidUp THEN 0 ELSE 1)
OBVIOUS

\* An executed call pays for the turn its batch has on credit.
LEMMA ExecutedPays ==
  ASSUME TypeInv, TurnsInv, Executed
  PROVE  /\ Paid' \in Nat /\ turns <= Paid' /\ UNCHANGED turns
         /\ executed' \in Nat /\ executed' <= ToolCap /\ turns <= MaxTurns
         /\ pc = "settled" /\ UNCHANGED ended
         /\ errs' = IF outcome \in {"ok", "revert"} THEN 0 ELSE errs + 1
         /\ errs' \in Nat /\ MaxErr \in Nat \ {0} /\ ToolCap \in Nat
<1> executed \in Nat /\ errs \in Nat /\ turns \in Nat /\ MaxErr \in Nat \ {0} /\ ToolCap \in Nat
  BY LoopAssumption DEF TypeInv, TypeOK
<1>1. /\ pc = "settled" /\ executed' = executed + 1 /\ UNCHANGED <<turns, ended>>
      /\ errs' = IF outcome \in {"ok", "revert"} THEN 0 ELSE errs + 1
  BY DEF Executed, ErrsNow, modelVars
<1>2. executed < ToolCap /\ errs < MaxErr /\ turns <= executed * MaxErr + errs + 1
      /\ turns <= MaxTurns
  BY <1>1 DEF TurnsInv, Paid
<1>3. /\ (executed + 1) * MaxErr = executed * MaxErr + MaxErr
      /\ executed * MaxErr \in Nat
  BY OneMore
<1>4. Paid' = executed * MaxErr + MaxErr + errs'
  BY <1>1, <1>3 DEF Paid
<1> QED
  BY <1>1, <1>2, <1>3, <1>4

LEMMA TurnsInit == Init => TurnsInv
<1> SUFFICES ASSUME Init PROVE TurnsInv
  OBVIOUS
<1>1. TypeInv
  BY TypeInit
<1> QED
  BY <1>1, PaidFacts, LoopAssumption DEF Init, TurnsInv

LEMMA TurnsStep ==
  ASSUME TypeInv, TypeInv', TurnsInv, [Next]_vars
  PROVE  TurnsInv'
<1> DEFINE Same == UNCHANGED <<executed, errs, turns>>
<1> USE LoopAssumption DEF modelVars, callVars, stopVars, shellVars
<1>0. /\ turns \in Nat /\ turns' \in Nat /\ executed \in Nat /\ errs \in Nat
      /\ batch \in Seq(Intents) /\ MaxErr \in Nat
  BY DEF TypeInv, TypeOK
<1>1. Same => UNCHANGED Paid
  BY DEF Paid
<1>2. CASE Inject
  BY <1>1, <1>2 DEF Inject, TurnsInv
<1>3. CASE SendRequest
  BY <1>1, <1>3 DEF SendRequest, TurnsInv
<1>4. CASE Retry
  BY <1>1, <1>4 DEF Retry, AttemptFailed, TurnsInv
<1>5. CASE GiveUp
  BY <1>1, <1>5 DEF GiveUp, AttemptFailed, Stop, TurnsInv
<1>6. ASSUME Answered
      PROVE  /\ pc = "awaiting" /\ turns' = turns + 1 /\ turns' <= Paid + 1
             /\ ~ended /\ ~ended' /\ UNCHANGED executed
             /\ executed < ToolCap /\ errs < MaxErr /\ turns' <= MaxTurns
             /\ Paid \in Nat
  <2>1. /\ pc = "awaiting" /\ turns' = turns + 1 /\ UNCHANGED <<executed, ended>>
    BY <1>6 DEF Answered
  <2>2. turns <= Paid /\ ~ended /\ executed < ToolCap /\ errs < MaxErr
    BY <2>1 DEF TurnsInv
  <2> QED
    BY <2>1, <2>2, PaidFacts, <1>0
<1>7. CASE OverTokenCap
  BY <1>0, <1>1, <1>6, <1>7 DEF OverTokenCap, Stop, TurnsInv
<1>8. CASE NoToolCalls
  <2>1. Paid' = Paid + 1 /\ errs' = errs + 1
    BY <1>0, <1>6, <1>8 DEF NoToolCalls, Paid
  <2> QED
    BY <1>0, <1>6, <1>8, <2>1 DEF NoToolCalls, Stop, TurnsInv
<1>9. CASE TakeBatch
  <2>1. pc' = "batch" /\ batch' /= <<>> /\ errs' = errs /\ Answered
    BY <1>9 DEF TakeBatch
  <2>2. Paid' = Paid
    BY <1>6, <2>1 DEF Paid
  <2> QED
    BY <1>0, <1>6, <2>1, <2>2 DEF TurnsInv
<1>10. CASE Skip
  BY <1>1, <1>10 DEF Skip, TurnsInv
<1>11. CASE Dispatch
  BY <1>1, <1>11 DEF Dispatch, TurnsInv
<1>12. CASE Return
  BY <1>1, <1>12 DEF Return, TurnsInv
<1>13. CASE TimesOut
  BY <1>1, <1>13 DEF TimesOut, TurnsInv
<1>14. CASE LateFinish
  BY <1>1, <1>14 DEF LateFinish, TurnsInv
<1>15. CASE OneErrorTooMany
  BY <1>15, ExecutedPays DEF OneErrorTooMany, Stop, TurnsInv
<1>16. CASE EndedBatch
  BY <1>16, ExecutedPays DEF EndedBatch, WithinErrors, TurnsInv
<1>17. CASE Repeats
  BY <1>17, ExecutedPays DEF Repeats, WithinErrors, Stop, TurnsInv
<1>18. CASE AtToolCap
  BY <1>18, ExecutedPays DEF AtToolCap, WithinErrors, Stop, TurnsInv
<1>19. CASE NextIntent
  <2>1. Executed /\ executed' < ToolCap /\ pc' = "batch" /\ ~ended
    BY <1>19 DEF NextIntent, WithinErrors
  <2>2. errs' < MaxErr
    BY <1>19, <2>1, ExecutedPays DEF NextIntent, WithinErrors
  <2>3. /\ Paid' \in Nat /\ turns <= Paid' /\ turns <= MaxTurns
        /\ UNCHANGED <<turns, ended>> /\ executed' <= ToolCap
    BY <2>1, ExecutedPays
  <2>4. turns' <= Paid' + (IF batch' = <<>> THEN 0 ELSE 1)
    BY <1>0, <2>3, OnCredit, Zenon
  <2> QED
    BY <2>1, <2>2, <2>3, <2>4 DEF TurnsInv
<1>20. CASE BatchDone
  BY <1>0, <1>1, <1>20, PaidFacts DEF BatchDone, Stop, TurnsInv
<1>21. CASE Finish
  BY <1>1, <1>21 DEF Finish, TurnsInv
<1>22. CASE UNCHANGED vars
  BY <1>1, <1>22 DEF vars, TurnsInv
<1> QED
  BY <1>2, <1>3, <1>4, <1>5, <1>7, <1>8, <1>9, <1>10, <1>11, <1>12, <1>13,
     <1>14, <1>15, <1>16, <1>17, <1>18, <1>19, <1>20, <1>21, <1>22
  DEF Next, OwnStep

-------------------------------------------------------------------------------
(* The requests.                                                           *)

LEMMA TurnBudget ==
  ASSUME TypeInv
  PROVE  /\ (RetryMax + 1) * turns \in Nat /\ MaxRequests \in Nat
         /\ (RetryMax + 1) * (turns + 1) = (RetryMax + 1) * turns + RetryMax + 1
         /\ turns + 1 <= MaxTurns => (RetryMax + 1) * (turns + 1) <= MaxRequests
<1> turns \in Nat /\ RetryMax \in Nat /\ RetryMax + 1 \in Nat /\ MaxTurns \in Nat
    /\ turns + 1 \in Nat
  BY PaidFacts, LoopAssumption DEF TypeInv, TypeOK
<1>1. /\ (RetryMax + 1) * (turns + 1) = (RetryMax + 1) * turns + (RetryMax + 1)
      /\ (RetryMax + 1) * turns \in Nat /\ (RetryMax + 1) * MaxTurns \in Nat
  BY OneMore
<1>2. turns + 1 <= MaxTurns => (RetryMax + 1) * (turns + 1) <= (RetryMax + 1) * MaxTurns
  BY Monotone
<1> QED
  BY <1>1, <1>2 DEF MaxRequests

LEMMA RequestsInit == Init => RequestsInv
<1> SUFFICES ASSUME Init PROVE RequestsInv
  OBVIOUS
<1>1. TypeInv
  BY TypeInit
<1> QED
  BY <1>1, TurnBudget, LoopAssumption DEF Init, RequestsInv

LEMMA RequestsStep ==
  ASSUME TypeInv, TurnsInv, TurnsInv', RequestsInv, [Next]_vars
  PROVE  RequestsInv'
<1> USE LoopAssumption DEF modelVars, callVars, stopVars, shellVars
<1>0. /\ turns \in Nat /\ requests \in Nat /\ calls \in Nat
      /\ attempt \in 0..RetryMax
  BY DEF TypeInv, TypeOK
<1>1. CASE SendRequest
  <2>1. /\ pc = "call" /\ pc' = "awaiting" /\ requests' = requests + 1
        /\ UNCHANGED <<calls, attempt, turns>>
    BY <1>1 DEF SendRequest
  <2>2. turns <= Paid /\ executed < ToolCap /\ errs < MaxErr
    BY <2>1 DEF TurnsInv
  <2>3. turns + 1 <= MaxTurns
    BY <1>0, <2>2, PaidFacts
  <2>4. requests <= (RetryMax + 1) * turns + attempt /\ requests = calls
    BY <2>1, <1>0 DEF RequestsInv
  <2>5. requests' <= (RetryMax + 1) * turns + attempt + 1 /\ requests' <= MaxRequests
    BY <1>0, <2>1, <2>3, <2>4, TurnBudget
  <2> QED
    BY <1>0, <2>1, <2>4, <2>5 DEF RequestsInv
<1>2. CASE Retry
  <2>1. /\ pc = "awaiting" /\ pc' = "call" /\ calls' = calls + 1
        /\ attempt' = attempt + 1 /\ UNCHANGED <<requests, turns>>
    BY <1>2 DEF Retry, AttemptFailed
  <2>2. /\ requests <= (RetryMax + 1) * turns + attempt + 1
        /\ requests <= MaxRequests /\ requests = calls + 1
    BY <2>1 DEF RequestsInv
  <2> QED
    BY <1>0, <2>1, <2>2, TurnBudget DEF RequestsInv
<1>3. CASE GiveUp
  BY <1>0, <1>3 DEF GiveUp, AttemptFailed, Stop, RequestsInv
<1>4. ASSUME Answered, pc' \in {"call", "batch", "stopping"}
      PROVE  RequestsInv'
  <2>1. /\ pc = "awaiting" /\ calls' = calls + 1 /\ turns' = turns + 1
        /\ attempt' = 0 /\ UNCHANGED requests
    BY <1>4 DEF Answered
  <2>2. /\ requests <= (RetryMax + 1) * turns + attempt + 1
        /\ requests <= MaxRequests /\ requests = calls + 1
    BY <2>1 DEF RequestsInv
  <2>3. requests <= (RetryMax + 1) * (turns + 1)
    BY <1>0, <2>2, TurnBudget
  <2>4. requests' <= (RetryMax + 1) * turns'
    BY <2>1, <2>3
  <2>5. requests' <= (RetryMax + 1) * turns' + attempt'
    BY <1>0, <2>1, <2>4, OneMore
  <2> QED
    BY <1>0, <1>4, <2>1, <2>2, <2>4, <2>5 DEF RequestsInv
<1>5. CASE OverTokenCap
  BY <1>4, <1>5 DEF OverTokenCap, Stop
<1>6. CASE NoToolCalls
  BY <1>4, <1>6 DEF NoToolCalls, Stop
<1>7. CASE TakeBatch
  BY <1>4, <1>7 DEF TakeBatch
<1>8. CASE BatchDone
  BY <1>0, <1>8, TurnBudget DEF BatchDone, Stop, RequestsInv
<1>9. CASE Inject \/ Skip \/ Dispatch \/ Return \/ TimesOut \/ LateFinish \/ Finish
  BY <1>9 DEF Inject, Skip, Dispatch, Return, TimesOut, LateFinish, Finish, RequestsInv
<1>10. CASE OneErrorTooMany \/ EndedBatch \/ Repeats \/ AtToolCap \/ NextIntent
  <2>1. /\ pc = "settled" /\ pc' \in {"batch", "stopping"}
        /\ UNCHANGED <<requests, calls, attempt, turns>>
    BY <1>10 DEF OneErrorTooMany, EndedBatch, Repeats, AtToolCap, NextIntent,
                 WithinErrors, Executed, Stop
  <2> QED
    BY <2>1 DEF RequestsInv
<1>11. CASE UNCHANGED vars
  BY <1>11 DEF vars, RequestsInv
<1> QED
  BY <1>1, <1>2, <1>3, <1>5, <1>6, <1>7, <1>8, <1>9, <1>10, <1>11
  DEF Next, OwnStep

\* The caps' bookkeeping holds for every value of the caps.
THEOREM LoopInvariant == Spec => []LoopInv
<1>1. Init => LoopInv
  BY TypeInit, TurnsInit, RequestsInit DEF LoopInv
<1>2. LoopInv /\ [Next]_vars => LoopInv'
  BY TypeStep, TurnsStep, RequestsStep DEF LoopInv
<1> QED
  BY <1>1, <1>2, PTL DEF Spec

\* No session asks the provider more than (RetryMax + 1) * ToolCap * MaxErr
\* times, takes up more than ToolCap * MaxErr answers or executes more than
\* ToolCap calls.
THEOREM Bounded == Spec => []SessionIsBounded
<1>1. LoopInv => SessionIsBounded
  BY DEF LoopInv, TurnsInv, RequestsInv, SessionIsBounded
<1> QED
  BY <1>1, LoopInvariant, PTL

-------------------------------------------------------------------------------
(* To its run a session is a sequence of requests and answers.             *)

LEMMA CallsInit == Init => SessionCalls!Init
BY DEF Init, SessionCalls!Init

LEMMA CallsStep ==
  LoopInv /\ LoopInv' /\ [Next]_vars => [SessionCalls!Next]_SessionCalls!vars
<1> SUFFICES ASSUME LoopInv, LoopInv', [Next]_vars
             PROVE  SessionCalls!Next \/ UNCHANGED SessionCalls!vars
  BY DEF SessionCalls!vars
<1> USE DEF modelVars, callVars, stopVars, shellVars
<1>0. /\ requests \in Nat /\ MaxRequests \in Nat /\ requests' <= MaxRequests
  BY TurnBudget DEF LoopInv, TypeInv, TypeOK, RequestsInv
<1>1. CASE SendRequest
  <2>1. SessionCalls!Request
    BY <1>0, <1>1 DEF SendRequest, SessionCalls!Request
  <2> QED
    BY <2>1 DEF SessionCalls!Next
<1>2. ASSUME pc = "awaiting", pc' \in {"call", "batch", "stopping"},
             calls' = calls + 1, UNCHANGED requests
      PROVE  SessionCalls!Next
  <2>1. SessionCalls!Answer
    BY <1>2 DEF SessionCalls!Answer
  <2> QED
    BY <2>1 DEF SessionCalls!Next
<1>3. CASE Retry \/ GiveUp \/ OverTokenCap \/ NoToolCalls \/ TakeBatch
  BY <1>2, <1>3 DEF Retry, GiveUp, AttemptFailed, OverTokenCap, NoToolCalls,
                    TakeBatch, Answered, Stop
<1>4. CASE Finish
  <2>1. requests > 0
    BY <1>4 DEF Finish, LoopInv, RequestsInv
  <2>2. SessionCalls!EndSession
    BY <1>0, <1>4, <2>1 DEF Finish, SessionCalls!EndSession
  <2> QED
    BY <2>2 DEF SessionCalls!Next
<1>5. ASSUME pc \notin {"awaiting", "done"}, pc' \notin {"awaiting", "done"},
             UNCHANGED <<requests, calls>>
      PROVE  UNCHANGED SessionCalls!vars
  BY <1>5 DEF SessionCalls!vars
<1>6. CASE Inject \/ Skip \/ Dispatch \/ Return \/ TimesOut \/ BatchDone
  BY <1>5, <1>6 DEF Inject, Skip, Dispatch, Return, TimesOut, BatchDone, Stop
<1>7. CASE OneErrorTooMany \/ EndedBatch \/ Repeats \/ AtToolCap \/ NextIntent
  BY <1>5, <1>7 DEF OneErrorTooMany, EndedBatch, Repeats, AtToolCap, NextIntent,
                    WithinErrors, Executed, Stop
<1>8. CASE LateFinish \/ UNCHANGED vars
  BY <1>8 DEF LateFinish, vars, SessionCalls!vars
<1> QED
  BY <1>1, <1>3, <1>4, <1>6, <1>7, <1>8 DEF Next, OwnStep

\* Every session is a bounded sequence of paired requests and answers, at
\* least one of them, and then an end: what RunLifecycle assumes of it.
THEOREM IsASequenceOfCalls == Spec => ImplementsModelCalls
<1>1. LoopInv /\ LoopInv' /\ [Next]_vars => [SessionCalls!Next]_SessionCalls!vars
  BY CallsStep
<1> QED
  BY <1>1, CallsInit, LoopInvariant, PTL
  DEF Spec, ImplementsModelCalls, SessionCalls!Spec

-------------------------------------------------------------------------------
(* end_session.                                                            *)

\* Once end_session took effect no request is made, no answer taken up, no
\* intent dispatched and no wake changed.
THEOREM EndStands == Spec => EndIsFinal
<1>1. ASSUME LoopInv, [Next]_vars, ended
      PROVE  /\ ended'
             /\ UNCHANGED <<requests, turns, wake, carried>>
             /\ pc' /= "running"
  <2> USE DEF modelVars, callVars, stopVars, shellVars
  <2>1. pc \in {"batch", "settled", "stopping", "done"}
    BY <1>1 DEF LoopInv, TurnsInv
  <2>2. CASE Skip \/ BatchDone \/ Finish
    BY <1>1, <2>2 DEF Skip, BatchDone, Finish, Stop
  <2>3. CASE OneErrorTooMany \/ EndedBatch \/ Repeats \/ AtToolCap \/ NextIntent
    BY <1>1, <2>3 DEF OneErrorTooMany, EndedBatch, Repeats, AtToolCap, NextIntent,
                      WithinErrors, Executed, Stop
  <2>4. CASE LateFinish \/ UNCHANGED vars
    BY <1>1, <2>1, <2>4 DEF LateFinish, vars
  <2>5. CASE Inject \/ SendRequest \/ Retry \/ GiveUp \/ OverTokenCap \/ NoToolCalls
             \/ TakeBatch \/ Dispatch \/ Return \/ TimesOut
    BY <1>1, <2>1, <2>5
    DEF Inject, SendRequest, Retry, GiveUp, AttemptFailed, OverTokenCap,
        NoToolCalls, TakeBatch, Answered, Dispatch, Return, TimesOut
  <2> QED
    BY <1>1, <2>2, <2>3, <2>4, <2>5 DEF Next, OwnStep
<1> QED
  BY <1>1, LoopInvariant, PTL DEF Spec, EndIsFinal

-------------------------------------------------------------------------------
(* Streaks and windows of a function on 1..n.                               *)

\* The last k of the n values of f are v, and the one before them is not.
Streak(f, n, k, v) ==
  /\ k \in 0..n
  /\ \A i \in 1..n : i > n - k => f[i] = v
  /\ k < n => k > 0 /\ f[n - k] /= v

LEMMA StreakGoesOn ==
  ASSUME NEW n \in Nat, NEW k, NEW v, NEW f, NEW g, Streak(f, n, k, v),
         \A i \in 1..n : g[i] = f[i], g[n + 1] = v
  PROVE  Streak(g, n + 1, k + 1, v)
<1>1. k \in 0..n /\ \A i \in 1..n : i > n - k => f[i] = v
  BY DEF Streak
<1>2. k < n => k > 0 /\ f[n - k] /= v
  BY DEF Streak
<1>3. k + 1 \in 0..(n + 1)
  BY <1>1
<1>4. ASSUME NEW i \in 1..(n + 1), i > n + 1 - (k + 1) PROVE g[i] = v
  BY <1>1, <1>4
<1>5. ASSUME k + 1 < n + 1 PROVE k + 1 > 0 /\ g[n + 1 - (k + 1)] /= v
  BY <1>1, <1>2, <1>5
<1> QED
  BY <1>3, <1>4, <1>5 DEF Streak

LEMMA StreakBegins ==
  ASSUME NEW n \in Nat, NEW v, NEW g, n > 0 => g[n] /= v, g[n + 1] = v
  PROVE  Streak(g, n + 1, 1, v)
BY DEF Streak

LEMMA StreakEnds ==
  ASSUME NEW n \in Nat, NEW k, NEW v, NEW f, Streak(f, n, k, v)
  PROVE  n > 0 => f[n] = v
BY DEF Streak

LEMMA StreakReaches ==
  ASSUME NEW n \in Nat, NEW k, NEW v, NEW f, Streak(f, n, k, v), NEW cap \in Nat \ {0}
  PROVE  (k >= cap) <=> (n >= cap /\ \A i \in (n - cap + 1)..n : f[i] = f[n])
<1>1. k \in 0..n /\ \A i \in 1..n : i > n - k => f[i] = v
  BY DEF Streak
<1>2. k < n => k > 0 /\ f[n - k] /= v
  BY DEF Streak
<1>3. k > 0 => f[n] = v
  BY <1>1
<1>4. ASSUME k >= cap PROVE n >= cap /\ \A i \in (n - cap + 1)..n : f[i] = f[n]
  BY <1>1, <1>3, <1>4
<1>5. ASSUME k < cap, n >= cap PROVE n - k \in (n - cap + 1)..n /\ f[n - k] /= f[n]
  BY <1>1, <1>2, <1>3, <1>5
<1> QED
  BY <1>1, <1>4, <1>5

Least(m, n) == IF m < n THEN m ELSE n

\* The last w of the n values of f.
Latest(f, n, w) == [i \in 1..Least(n, w) |-> f[n - Least(n, w) + i]]

LEMMA LatestIs ==
  ASSUME NEW f, NEW n \in Nat, NEW w \in Nat, NEW k \in Nat, Least(n, w) = k
  PROVE  Latest(f, n, w) = [i \in 1..k |-> f[n - k + i]]
<1>1. Latest(f, n, w) = [i \in 1..Least(n, w) |-> f[n - Least(n, w) + i]]
  BY DEF Latest
<1> HIDE DEF Least
<1>2. 1..Least(n, w) = 1..k
  OBVIOUS
<1>3. \A i \in 1..k : f[n - Least(n, w) + i] = f[n - k + i]
  OBVIOUS
<1> QED
  BY <1>1, <1>2, <1>3

LEMMA LatestSlides ==
  ASSUME NEW n \in Nat, NEW w \in Nat \ {0}, NEW S, NEW f \in [1..n -> S],
         NEW g \in [1..(n + 1) -> S], \A i \in 1..n : g[i] = f[i]
  PROVE  Last(Append(Latest(f, n, w), g[n + 1]), w) = Latest(g, n + 1, w)
<1> DEFINE k == Least(n, w)
           a == Append(Latest(f, n, w), g[n + 1])
<1>1. k \in Nat /\ k <= n /\ g[n + 1] \in S
  BY DEF Least
<1>2. Latest(f, n, w) = [i \in 1..k |-> f[n - k + i]]
  BY DEF Latest
<1> HIDE DEF k
<1>3. \A i \in 1..k : n - k + i \in 1..n
  BY <1>1
<1>4. Latest(f, n, w) \in Seq(S) /\ Len(Latest(f, n, w)) = k
  BY <1>1, <1>2, <1>3
<1>5. /\ a \in Seq(S) /\ Len(a) = k + 1
      /\ \A i \in 1..k : a[i] = f[n - k + i]
      /\ a[k + 1] = g[n + 1]
  BY <1>1, <1>2, <1>4
<1> SUFFICES Last(a, w) = Latest(g, n + 1, w)
  OBVIOUS
<1> HIDE DEF a
<1>6. \A i \in 1..(k + 1) : a[i] = g[n - k + i]
  <2> SUFFICES ASSUME NEW i \in 1..(k + 1) PROVE a[i] = g[n - k + i]
    OBVIOUS
  <2>1. CASE i = k + 1
    BY <1>1, <1>5, <2>1
  <2>2. CASE i /= k + 1
    <3>1. i \in 1..k
      BY <1>1, <2>2
    <3> QED
      BY <1>3, <1>5, <3>1
  <2> QED
    BY <2>1, <2>2
<1>7. CASE n < w
  <2>1. k = n /\ Least(n + 1, w) = n + 1
    BY <1>7 DEF k, Least
  <2>2. Last(a, w) = a
    BY <1>5, <1>7, <2>1 DEF Last
  <2>3. a = [i \in 1..(n + 1) |-> g[i]]
    BY <1>5, <1>6, <2>1
  <2>4. Latest(g, n + 1, w) = [i \in 1..(n + 1) |-> g[n + 1 - (n + 1) + i]]
    BY <2>1, LatestIs
  <2>5. \A i \in 1..(n + 1) : n + 1 - (n + 1) + i = i
    OBVIOUS
  <2> QED
    BY <2>2, <2>3, <2>4, <2>5
<1>8. CASE n >= w
  <2>1. k = w /\ Least(n + 1, w) = w
    BY <1>8 DEF k, Least
  <2>2. Last(a, w) = SubSeq(a, 2, w + 1)
    BY <1>5, <2>1 DEF Last
  <2>3. SubSeq(a, 2, w + 1) = [i \in 1..w |-> a[i + 1]]
    BY <1>5, <2>1
  <2>4. \A i \in 1..w : i + 1 \in 1..(k + 1) /\ n - k + (i + 1) = n + 1 - w + i
    BY <2>1
  <2>5. \A i \in 1..w : a[i + 1] = g[n + 1 - w + i]
    BY <1>6, <2>4
  <2>6. Latest(g, n + 1, w) = [i \in 1..w |-> g[n + 1 - w + i]]
    <3>1. Latest(g, n + 1, w) = [i \in 1..w |-> g[(n + 1) - w + i]]
      BY <2>1, <1>1, LatestIs
    <3> QED
      BY <3>1
  <2> QED
    BY <2>2, <2>3, <2>5, <2>6
<1> QED
  BY <1>7, <1>8

-------------------------------------------------------------------------------
(* The breaker's streaks and window are those of the whole history.        *)

Called == [tool: Tools, sig: Sigs, failed: BOOLEAN]

\* The signatures of the calls, and the tools of those that failed.
SigsOf(h) == [i \in 1..Len(h) |-> h[i].sig]
Fault(call) == IF call.failed THEN call.tool ELSE ""
FaultsOf(h) == [i \in 1..Len(h) |-> Fault(h[i])]

TracksErrors(t, f, n) ==
  IF t.errorTool = "" THEN t.errors = 0 /\ (n > 0 => f[n] = "")
  ELSE Streak(f, n, t.errors, t.errorTool)

\* The tracker is what the rules read off the calls h.
Tracks(t, h) ==
  /\ Streak(SigsOf(h), Len(h), t.identical, t.sig)
  /\ TracksErrors(t, FaultsOf(h), Len(h))
  /\ t.recent = Latest(SigsOf(h), Len(h), Window)

LEMMA OneMoreCall ==
  ASSUME NEW h \in Seq(Called), NEW call \in Called
  PROVE  LET n == Len(h)
             g == Append(h, call)
         IN  /\ n \in Nat /\ Len(g) = n + 1 /\ g \in Seq(Called)
             /\ SigsOf(h) \in [1..n -> Sigs] /\ SigsOf(g) \in [1..(n + 1) -> Sigs]
             /\ \A i \in 1..n : SigsOf(g)[i] = SigsOf(h)[i]
             /\ \A i \in 1..n : FaultsOf(g)[i] = FaultsOf(h)[i]
             /\ SigsOf(g)[n + 1] = call.sig /\ FaultsOf(g)[n + 1] = Fault(call)
<1> DEFINE n == Len(h)
           g == Append(h, call)
<1>1. /\ n \in Nat /\ Len(g) = n + 1 /\ g \in Seq(Called)
      /\ g[n + 1] = call /\ \A i \in 1..n : g[i] = h[i]
  OBVIOUS
<1>2. \A c \in Called : c.sig \in Sigs
  BY DEF Called
<1>3. /\ \A i \in 1..n : h[i] \in Called
      /\ \A i \in 1..(n + 1) : g[i] \in Called
  BY <1>1
<1> HIDE DEF g, n
<1>4. SigsOf(h) = [i \in 1..n |-> h[i].sig] /\ FaultsOf(h) = [i \in 1..n |-> Fault(h[i])]
  BY DEF SigsOf, FaultsOf, n
<1>5. /\ SigsOf(g) = [i \in 1..(n + 1) |-> g[i].sig]
      /\ FaultsOf(g) = [i \in 1..(n + 1) |-> Fault(g[i])]
  BY <1>1 DEF SigsOf, FaultsOf
<1>6. n + 1 \in 1..(n + 1) /\ \A i \in 1..n : i \in 1..(n + 1)
  BY <1>1
<1>7. SigsOf(h) \in [1..n -> Sigs] /\ SigsOf(g) \in [1..(n + 1) -> Sigs]
  BY <1>2, <1>3, <1>4, <1>5
<1>8. /\ \A i \in 1..n : SigsOf(g)[i] = SigsOf(h)[i]
      /\ \A i \in 1..n : FaultsOf(g)[i] = FaultsOf(h)[i]
      /\ SigsOf(g)[n + 1] = call.sig /\ FaultsOf(g)[n + 1] = Fault(call)
  BY <1>1, <1>4, <1>5, <1>6
<1> QED
  BY <1>1, <1>7, <1>8 DEF n, g

LEMMA RecordTracks ==
  ASSUME NEW h \in Seq(Called), NEW call \in Called, NEW t, Tracks(t, h)
  PROVE  Tracks(Record(t, call), Append(h, call))
<1> DEFINE n == Len(h)
           g == Append(h, call)
           u == Record(t, call)
<1>0. /\ n \in Nat /\ Len(g) = n + 1
      /\ SigsOf(h) \in [1..n -> Sigs] /\ SigsOf(g) \in [1..(n + 1) -> Sigs]
      /\ \A i \in 1..n : SigsOf(g)[i] = SigsOf(h)[i]
      /\ \A i \in 1..n : FaultsOf(g)[i] = FaultsOf(h)[i]
      /\ SigsOf(g)[n + 1] = call.sig /\ FaultsOf(g)[n + 1] = Fault(call)
  BY OneMoreCall
<1>1. /\ Streak(SigsOf(h), n, t.identical, t.sig)
      /\ TracksErrors(t, FaultsOf(h), n)
      /\ t.recent = Latest(SigsOf(h), n, Window)
  BY DEF Tracks
<1>2. /\ u.sig = call.sig
      /\ u.identical = IF call.sig = t.sig THEN t.identical + 1 ELSE 1
      /\ u.recent = Last(Append(t.recent, call.sig), Window)
  BY DEF Record
<1>3. call.tool /= ""
  BY DEF Called, Tools
<1>4. /\ u.errorTool = Fault(call)
      /\ u.errors = IF Fault(call) = "" THEN 0
                    ELSE IF Fault(call) = t.errorTool THEN t.errors + 1 ELSE 1
  BY <1>3 DEF Record, Fault
<1> SUFFICES /\ Streak(SigsOf(g), n + 1, u.identical, u.sig)
             /\ TracksErrors(u, FaultsOf(g), n + 1)
             /\ u.recent = Latest(SigsOf(g), n + 1, Window)
  BY <1>0 DEF Tracks
<1> HIDE DEF n, g, u
<1>5. Streak(SigsOf(g), n + 1, u.identical, u.sig)
  <2>1. CASE call.sig = t.sig
    <3>1. SigsOf(g)[n + 1] = t.sig /\ u.identical = t.identical + 1 /\ u.sig = t.sig
      BY <1>0, <1>2, <2>1
    <3>2. Streak(SigsOf(g), n + 1, t.identical + 1, t.sig)
      BY <1>0, <1>1, <3>1, StreakGoesOn
    <3> QED
      BY <3>1, <3>2
  <2>2. CASE call.sig /= t.sig
    <3>1. n > 0 => SigsOf(g)[n] /= call.sig
      <4>1. n > 0 => SigsOf(h)[n] = t.sig
        BY <1>0, <1>1, StreakEnds
      <4> QED
        BY <1>0, <2>2, <4>1
    <3> QED
      BY <1>0, <1>2, <2>2, <3>1, StreakBegins
  <2> QED
    BY <2>1, <2>2
<1>6. TracksErrors(u, FaultsOf(g), n + 1)
  <2>1. CASE Fault(call) = ""
    BY <1>0, <1>4, <2>1 DEF TracksErrors
  <2>2. CASE Fault(call) /= "" /\ Fault(call) = t.errorTool
    <3>1. Streak(FaultsOf(h), n, t.errors, t.errorTool)
      BY <1>1, <2>2 DEF TracksErrors
    <3>2. Streak(FaultsOf(g), n + 1, u.errors, u.errorTool)
      <4>1. /\ FaultsOf(g)[n + 1] = t.errorTool /\ u.errors = t.errors + 1
            /\ u.errorTool = t.errorTool
        BY <1>0, <1>4, <2>2
      <4>2. Streak(FaultsOf(g), n + 1, t.errors + 1, t.errorTool)
        BY <1>0, <3>1, <4>1, StreakGoesOn
      <4> QED
        BY <4>1, <4>2
    <3> QED
      BY <1>4, <2>2, <3>2 DEF TracksErrors
  <2>3. CASE Fault(call) /= "" /\ Fault(call) /= t.errorTool
    <3>1. n > 0 => FaultsOf(h)[n] /= Fault(call)
      <4>1. CASE t.errorTool = ""
        BY <1>1, <2>3, <4>1 DEF TracksErrors
      <4>2. CASE t.errorTool /= ""
        <5>1. Streak(FaultsOf(h), n, t.errors, t.errorTool)
          BY <1>1, <4>2 DEF TracksErrors
        <5>2. n > 0 => FaultsOf(h)[n] = t.errorTool
          BY <1>0, <5>1, StreakEnds
        <5> QED
          BY <2>3, <5>2
      <4> QED
        BY <4>1, <4>2
    <3>2. n > 0 => FaultsOf(g)[n] /= Fault(call)
      BY <1>0, <3>1
    <3>3. Streak(FaultsOf(g), n + 1, u.errors, u.errorTool)
      BY <1>0, <1>4, <2>3, <3>2, StreakBegins
    <3> QED
      BY <1>4, <2>3, <3>3 DEF TracksErrors
  <2> QED
    BY <2>1, <2>2, <2>3
<1>7. u.recent = Latest(SigsOf(g), n + 1, Window)
  <2>1. Last(Append(Latest(SigsOf(h), n, Window), SigsOf(g)[n + 1]), Window)
          = Latest(SigsOf(g), n + 1, Window)
    BY <1>0, LatestSlides, RepetitionAssumption
  <2> QED
    BY <1>0, <1>1, <1>2, <2>1
<1> QED
  BY <1>5, <1>6, <1>7

LEMMA ValuesOfLast ==
  ASSUME NEW h \in Seq(Called), NEW k \in Nat \ {0}, k <= Len(h)
  PROVE  LET n == Len(h) IN
         /\ {c.sig : c \in LastCalls(h, k)} = {SigsOf(h)[i] : i \in (n - k + 1)..n}
         /\ {c.tool : c \in LastCalls(h, k)} = {h[i].tool : i \in (n - k + 1)..n}
         /\ (\A c \in LastCalls(h, k) : c.failed)
              <=> \A i \in (n - k + 1)..n : h[i].failed
<1>1. \A i \in (Len(h) - k + 1)..Len(h) : i \in 1..Len(h)
  OBVIOUS
<1>2. \A i \in (Len(h) - k + 1)..Len(h) : SigsOf(h)[i] = h[i].sig
  BY <1>1 DEF SigsOf
<1> QED
  BY <1>2, Zenon DEF LastCalls

LEMMA IdenticalIsRule ==
  ASSUME NEW h \in Seq(Called), NEW t, Tracks(t, h)
  PROVE  (t.identical >= IdenticalCap) <=> IdenticalRule(h)
<1> DEFINE n == Len(h)
           f == SigsOf(h)
           k == IdenticalCap
<1>1. n \in Nat /\ k \in Nat \ {0}
  BY RepetitionAssumption
<1>2. Streak(f, n, t.identical, t.sig)
  BY DEF Tracks
<1>3. ASSUME n >= k
      PROVE  Cardinality({c.sig : c \in LastCalls(h, k)}) = 1
               <=> \A i \in (n - k + 1)..n : f[i] = f[n]
  <2>1. {c.sig : c \in LastCalls(h, k)} = {f[i] : i \in (n - k + 1)..n}
    BY <1>1, <1>3, ValuesOfLast
  <2>2. n - k + 1 \in Nat /\ n - k + 1 <= n
    BY <1>1, <1>3
  <2> HIDE DEF n, f, k
  <2>3. Cardinality({f[i] : i \in (n - k + 1)..n}) = 1
          <=> \A i \in (n - k + 1)..n : f[i] = f[n]
    BY <1>1, <2>2, OneValue
  <2> QED
    BY <2>1, <2>3
<1>4. IdenticalRule(h) <=> n >= k /\ Cardinality({c.sig : c \in LastCalls(h, k)}) = 1
  BY DEF IdenticalRule
<1> SUFFICES (t.identical >= k) <=> IdenticalRule(h)
  OBVIOUS
<1> HIDE DEF n, f, k
<1>5. (t.identical >= k) <=> (n >= k /\ \A i \in (n - k + 1)..n : f[i] = f[n])
  BY <1>1, <1>2, StreakReaches
<1> QED
  BY <1>3, <1>4, <1>5

LEMMA WindowIsRule ==
  ASSUME NEW h \in Seq(Called), NEW t, Tracks(t, h)
  PROVE  (Len(t.recent) >= Window /\ Distinct(t.recent) <= MinDistinct) <=> WindowRule(h)
<1> DEFINE n == Len(h)
           f == SigsOf(h)
           w == Window
           r == t.recent
           m == Least(n, w)
<1>1. n \in Nat /\ w \in Nat \ {0} /\ m \in Nat /\ m <= n /\ m <= w
  BY RepetitionAssumption DEF Least
<1>2. r = [i \in 1..m |-> f[n - m + i]]
  BY DEF Tracks, Latest
<1>3. ASSUME n >= w
      PROVE  {c.sig : c \in LastCalls(h, w)} = {f[i] : i \in (n - w + 1)..n}
  BY <1>1, <1>3, ValuesOfLast
<1>4. WindowRule(h) <=> n >= w /\ Cardinality({c.sig : c \in LastCalls(h, w)}) <= MinDistinct
  BY DEF WindowRule
<1>5. n >= w <=> m >= w
  BY <1>1 DEF Least
<1>6. Distinct(r) = Cardinality({r[i] : i \in DOMAIN r})
  BY DEF Distinct
<1> SUFFICES (Len(r) >= w /\ Distinct(r) <= MinDistinct) <=> WindowRule(h)
  OBVIOUS
<1> HIDE DEF n, f, w, r, m
<1>7. DOMAIN r = 1..m /\ Len(r) = m /\ \A i \in 1..m : r[i] = f[n - m + i]
  BY <1>1, <1>2
<1>8. ASSUME n >= w
      PROVE  {r[i] : i \in DOMAIN r} = {f[i] : i \in (n - w + 1)..n}
  <2>1. m = w
    BY <1>1, <1>5, <1>8
  <2>2. \A i \in 1..m : n - m + i \in (n - w + 1)..n
    BY <1>1, <1>8, <2>1
  <2>3. \A j \in (n - w + 1)..n : j - (n - m) \in 1..m /\ n - m + (j - (n - m)) = j
    BY <1>1, <1>8, <2>1
  <2>4. {r[i] : i \in DOMAIN r} \subseteq {f[i] : i \in (n - w + 1)..n}
    BY <1>7, <2>2
  <2>5. ASSUME NEW j \in (n - w + 1)..n PROVE f[j] \in {r[i] : i \in DOMAIN r}
    BY <1>7, <2>3
  <2> QED
    BY <2>4, <2>5
<1> QED
  BY <1>3, <1>4, <1>5, <1>6, <1>7, <1>8

LEMMA ErrorsAreRule ==
  ASSUME NEW h \in Seq(Called), NEW t, Tracks(t, h)
  PROVE  (t.errors >= SameToolErrorCap) <=> ErrorRule(h)
<1> DEFINE n == Len(h)
           f == FaultsOf(h)
           k == SameToolErrorCap
           tools == [i \in 1..n |-> h[i].tool]
<1>1. n \in Nat /\ k \in Nat \ {0}
  BY RepetitionAssumption
<1>2. TracksErrors(t, f, n)
  BY DEF Tracks
<1>0. \A c \in Called : c.tool /= ""
  BY DEF Called, Tools
<1>3. \A i \in 1..n : f[i] = Fault(h[i]) /\ tools[i] = h[i].tool /\ h[i] \in Called
  BY DEF FaultsOf
<1>4. ErrorRule(h) <=> /\ n >= k
                       /\ \A c \in LastCalls(h, k) : c.failed
                       /\ Cardinality({c.tool : c \in LastCalls(h, k)}) = 1
  BY DEF ErrorRule
<1>5. ASSUME n >= k
      PROVE  /\ {c.tool : c \in LastCalls(h, k)} = {h[i].tool : i \in (n - k + 1)..n}
             /\ (\A c \in LastCalls(h, k) : c.failed)
                  <=> \A i \in (n - k + 1)..n : h[i].failed
  BY <1>1, <1>5, ValuesOfLast
<1> SUFFICES (t.errors >= k) <=> ErrorRule(h)
  OBVIOUS
<1> HIDE DEF n, f, k, tools
<1>6. ASSUME n >= k
      PROVE  ErrorRule(h) <=> \A i \in (n - k + 1)..n : f[i] = f[n] /\ f[i] /= ""
  <2>1. n - k + 1 \in Nat /\ n - k + 1 <= n /\ n \in (n - k + 1)..n
        /\ \A i \in (n - k + 1)..n : i \in 1..n
    BY <1>1, <1>6
  <2>2. {h[i].tool : i \in (n - k + 1)..n} = {tools[i] : i \in (n - k + 1)..n}
    BY <1>3, <2>1
  <2>3. Cardinality({tools[i] : i \in (n - k + 1)..n}) = 1
          <=> \A i \in (n - k + 1)..n : tools[i] = tools[n]
    BY <1>1, <2>1, OneValue
  <2>4. ErrorRule(h) <=> /\ \A i \in (n - k + 1)..n : h[i].failed
                         /\ \A i \in (n - k + 1)..n : tools[i] = tools[n]
    BY <1>4, <1>5, <1>6, <2>2, <2>3
  <2>5. \A i \in (n - k + 1)..n :
          (h[i].failed <=> f[i] /= "") /\ (h[i].failed => f[i] = tools[i])
    <3> SUFFICES ASSUME NEW i \in (n - k + 1)..n
                 PROVE  (h[i].failed <=> f[i] /= "") /\ (h[i].failed => f[i] = tools[i])
      OBVIOUS
    <3>1. f[i] = Fault(h[i]) /\ tools[i] = h[i].tool /\ h[i].tool /= ""
      BY <1>0, <1>3, <2>1, Zenon
    <3> QED
      BY <3>1, Zenon DEF Fault
  <2>6. ASSUME \A i \in (n - k + 1)..n : h[i].failed,
               \A i \in (n - k + 1)..n : tools[i] = tools[n]
        PROVE  \A i \in (n - k + 1)..n : f[i] = f[n] /\ f[i] /= ""
    BY <2>1, <2>5, <2>6, Zenon
  <2>7. ASSUME \A i \in (n - k + 1)..n : f[i] = f[n] /\ f[i] /= ""
        PROVE  \A i \in (n - k + 1)..n : h[i].failed /\ tools[i] = tools[n]
    BY <2>1, <2>5, <2>7, Zenon
  <2> QED
    BY <2>4, <2>6, <2>7, Zenon
<1>7. CASE t.errorTool = ""
  <2>1. t.errors = 0 /\ (n > 0 => f[n] = "")
    BY <1>2, <1>7 DEF TracksErrors
  <2>2. ASSUME n >= k PROVE n > 0 /\ n \in (n - k + 1)..n
    BY <1>1, <2>2
  <2>3. ~ErrorRule(h)
    BY <1>4, <1>6, <2>1, <2>2
  <2>4. ~(0 >= k)
    BY <1>1
  <2> QED
    BY <2>1, <2>3, <2>4, Zenon
<1>8. CASE t.errorTool /= ""
  <2>1. Streak(f, n, t.errors, t.errorTool)
    BY <1>2, <1>8 DEF TracksErrors
  <2>2. (t.errors >= k) <=> (n >= k /\ \A i \in (n - k + 1)..n : f[i] = f[n])
    BY <1>1, <2>1, StreakReaches
  <2>3. n > 0 => f[n] = t.errorTool
    BY <1>1, <2>1, StreakEnds
  <2>4. n >= k => n > 0
    BY <1>1
  <2> QED
    BY <1>4, <1>6, <1>8, <2>2, <2>3, <2>4
<1> QED
  BY <1>7, <1>8

\* The tracker trips the rule that the whole history of calls breaks.
LEMMA TrippedIsRule ==
  ASSUME NEW h \in Seq(Called), NEW t, Tracks(t, h)
  PROVE  Tripped(t) = RuleOf(h)
BY IdenticalIsRule, WindowIsRule, ErrorsAreRule DEF Tripped, RuleOf

-------------------------------------------------------------------------------
(* What the row of a call adds to the history.                             *)

LEMMA SettledFacts ==
  ASSUME TypeInv, Executed
  PROVE  /\ pc = "settled" /\ batch /= <<>> /\ outcome \in Outcomes
         /\ Intent \in Intents /\ Intent.tool \in Tools /\ Intent.sig \in Sigs
         /\ RowNow \in Row
         /\ RowNow.tool = Intent.tool /\ RowNow.sig = Intent.sig
         /\ RowNow.outcome = outcome /\ RowNow.seq = Seqno
         /\ RowNow.shell = IF Intent.tool = "shell" THEN last ELSE 0
         /\ rows' = IF Intent.tool = "wait" THEN rows ELSE Append(rows, RowNow)
         /\ UNCHANGED <<ended, last, late>> /\ batch' = Tail(batch)
<1>1. pc = "settled" /\ batch /= <<>> /\ outcome \in Outcomes
  BY DEF Executed, TypeInv, Underway
<1>2. Intent \in Intents
  BY <1>1 DEF Intent, TypeInv, TypeOK
<1>3. Intent.tool \in Tools /\ Intent.sig \in Sigs
  BY <1>2, IntentFields
<1>4. Seqno \in Nat \ {0} /\ last \in Nat
  BY DEF Seqno, TypeInv, TypeOK
<1>5. RowNow \in Row
  BY <1>1, <1>3, <1>4 DEF RowNow, Row
<1> QED
  BY <1>1, <1>2, <1>3, <1>5 DEF RowNow, Executed, shellVars

LEMMA HistoryIsCalls ==
  ASSUME NEW s \in Seq(Row)
  PROVE  AsCalls(s) \in Seq(Called)
<1>0. \A i \in DOMAIN s : s[i] \in Row
  OBVIOUS
<1>1. \A i \in DOMAIN s : s[i].tool \in Tools /\ s[i].sig \in Sigs
  BY <1>0, Zenon DEF Row
<1>2. \A i \in DOMAIN s :
        [tool |-> s[i].tool, sig |-> s[i].sig, failed |-> s[i].outcome /= "ok"] \in Called
  BY <1>1, Zenon DEF Called
<1>3. DOMAIN s = 1..Len(s) /\ Len(s) \in Nat
  OBVIOUS
<1> QED
  BY <1>2, <1>3 DEF AsCalls

CallOf(r) == [tool |-> r.tool, sig |-> r.sig, failed |-> r.outcome /= "ok"]

LEMMA HistoryGrows ==
  ASSUME NEW s \in Seq(Row), NEW r \in Row
  PROVE  AsCalls(Append(s, r)) = Append(AsCalls(s), CallOf(r)) /\ CallOf(r) \in Called
<1>1. CallOf(r) \in Called
  <2>1. r.tool \in Tools /\ r.sig \in Sigs /\ (r.outcome /= "ok") \in BOOLEAN
    BY DEF Row
  <2> QED
    BY <2>1, Zenon DEF Called, CallOf
<1> DEFINE n == Len(s)
           a == Append(s, r)
<1>2. /\ n \in Nat /\ DOMAIN s = 1..n /\ DOMAIN a = 1..(n + 1)
      /\ a[n + 1] = r /\ \A i \in 1..n : a[i] = s[i]
  OBVIOUS
<1>7. a \in Seq(Row)
  OBVIOUS
<1>3. AsCalls(a) = [i \in 1..(n + 1) |-> CallOf(a[i])]
  BY <1>2 DEF AsCalls, CallOf
<1>4. AsCalls(s) = [i \in 1..n |-> CallOf(s[i])]
  BY <1>2 DEF AsCalls, CallOf
<1>5. AsCalls(s) \in Seq(Called) /\ Len(AsCalls(s)) = n
  BY <1>2, <1>4, HistoryIsCalls
<1> HIDE DEF a, n
<1>6. AsCalls(a) = Append(AsCalls(s), CallOf(r))
  <2>1. \A i \in 1..n : AsCalls(a)[i] = AsCalls(s)[i]
    BY <1>2, <1>3, <1>4
  <2>2. AsCalls(a)[n + 1] = CallOf(r)
    BY <1>2, <1>3
  <2>3. AsCalls(a) \in Seq(Called) /\ Len(AsCalls(a)) = n + 1
    BY <1>2, <1>3, <1>7, HistoryIsCalls
  <2>4. /\ Append(AsCalls(s), CallOf(r)) \in Seq(Called)
        /\ Len(Append(AsCalls(s), CallOf(r))) = n + 1
        /\ Append(AsCalls(s), CallOf(r))[n + 1] = CallOf(r)
        /\ \A i \in 1..n : Append(AsCalls(s), CallOf(r))[i] = AsCalls(s)[i]
    BY <1>1, <1>5
  <2> DEFINE b == Append(AsCalls(s), CallOf(r))
  <2>5. b \in Seq(Called) /\ Len(b) = n + 1
    BY <2>4
  <2>6. \A i \in 1..(n + 1) : AsCalls(a)[i] = b[i]
    BY <1>2, <2>1, <2>2, <2>4
  <2> HIDE DEF b
  <2>7. AsCalls(a) = b
    BY <2>3, <2>5, <2>6, SeqEqual
  <2> QED
    BY <2>7 DEF b
<1> QED
  BY <1>1, <1>6 DEF a

-------------------------------------------------------------------------------
(* The repetition breaker.                                                 *)

\* While it is asked, the tracker tells what the history of calls breaks, and
\* the session stops at the first call that breaks anything.
BreakerInv ==
  /\ ~ended /\ reason /= "errors" => Tracks(tracker, AsCalls(rows))
  /\ ~ended /\ reason \notin {"errors", "repetition"} => Tripped(tracker) = "none"
  /\ reason = "repetition" => ~ended /\ trip = Tripped(tracker) /\ trip /= "none"
  /\ reason /= "repetition" => trip = "none"
  /\ reason /= "none" => pc \in {"stopping", "done"}

LEMMA NewTracks == Tracks(NewTracker, <<>>) /\ Tripped(NewTracker) = "none"
<1>1. /\ NewTracker.identical = 0 /\ NewTracker.sig = "" /\ NewTracker.recent = <<>>
      /\ NewTracker.errorTool = "" /\ NewTracker.errors = 0
  BY DEF NewTracker
<1>2. Streak(SigsOf(<<>>), 0, 0, "")
  BY DEF Streak
<1>3. TracksErrors(NewTracker, FaultsOf(<<>>), 0)
  <2>1. ~(0 > 0)
    OBVIOUS
  <2>2. TracksErrors(NewTracker, FaultsOf(<<>>), 0)
          <=> NewTracker.errors = 0 /\ (0 > 0 => FaultsOf(<<>>)[0] = "")
    BY <1>1, Zenon DEF TracksErrors
  <2> QED
    BY <1>1, <2>1, <2>2, Zenon
<1>4. Latest(SigsOf(<<>>), 0, Window) = <<>>
  <2>1. Least(0, Window) = 0
    BY RepetitionAssumption DEF Least
  <2>2. DOMAIN Latest(SigsOf(<<>>), 0, Window) = {}
    BY <2>1 DEF Latest
  <2>3. Latest(SigsOf(<<>>), 0, Window) \in [1..0 -> {}]
    BY <2>1 DEF Latest
  <2> QED
    BY <2>3
<1>5. Len(<<>>) = 0
  OBVIOUS
<1>6. Tracks(NewTracker, <<>>)
  BY <1>1, <1>2, <1>3, <1>4, <1>5 DEF Tracks
<1>7. ~(0 >= IdenticalCap) /\ ~(0 >= Window) /\ ~(0 >= SameToolErrorCap)
  BY RepetitionAssumption
<1>8. Tripped(NewTracker) = "none"
  BY <1>1, <1>5, <1>7, Zenon DEF Tripped
<1> QED
  BY <1>6, <1>8

LEMMA BreakerInit == Init => BreakerInv
<1> SUFFICES ASSUME Init PROVE BreakerInv
  OBVIOUS
<1>1. /\ tracker = NewTracker /\ rows = <<>> /\ reason = "none" /\ trip = "none"
  BY DEF Init
<1>2. AsCalls(<<>>) = <<>>
  BY DEF AsCalls
<1> QED
  BY <1>1, <1>2, NewTracks DEF BreakerInv

\* The call just settled, to the tracker and to the history.
LEMMA TrackerKeepsUp ==
  ASSUME TypeInv, Executed, Tracks(tracker, AsCalls(rows)), Tripped(tracker) = "none"
  PROVE  /\ Tracks(TrackerNow, AsCalls(rows'))
         /\ TripNow = Tripped(TrackerNow)
<1>1. rows \in Seq(Row)
  BY DEF TypeInv, TypeOK
<1>2. CASE Intent.tool = "wait"
  BY <1>2, SettledFacts DEF TrackerNow, TripNow, Exempt
<1>3. CASE Intent.tool /= "wait"
  <2>1. rows' = Append(rows, RowNow) /\ RowNow \in Row
    BY <1>3, SettledFacts
  <2>2. /\ AsCalls(rows') = Append(AsCalls(rows), CallOf(RowNow))
        /\ CallOf(RowNow) \in Called
    BY <1>1, <2>1, HistoryGrows
  <2>3. CallOf(RowNow) = [tool |-> Intent.tool, sig |-> Intent.sig,
                          failed |-> outcome /= "ok"]
    BY SettledFacts, Zenon DEF CallOf
  <2>4. TrackerNow = Record(tracker, CallOf(RowNow))
    BY <1>3, <2>3, Zenon DEF TrackerNow, Exempt
  <2>5. AsCalls(rows) \in Seq(Called)
    BY <1>1, HistoryIsCalls
  <2>6. Tracks(TrackerNow, AsCalls(rows'))
    BY <2>2, <2>4, <2>5, RecordTracks
  <2> QED
    BY <1>3, <2>6 DEF TripNow, Exempt
<1> QED
  BY <1>2, <1>3

LEMMA BreakerStep ==
  ASSUME TypeInv, TurnsInv, BreakerInv, [Next]_vars
  PROVE  BreakerInv'
<1> USE DEF modelVars, callVars, stopVars, shellVars
<1>1. ASSUME UNCHANGED <<tracker, trip, rows, ended, reason>>,
             pc \in {"stopping", "done"} => pc' \in {"stopping", "done"}
      PROVE  BreakerInv'
  BY <1>1 DEF BreakerInv
<1>2. CASE Inject \/ SendRequest \/ Retry \/ TakeBatch \/ Skip \/ Dispatch \/ TimesOut
           \/ LateFinish \/ Finish \/ UNCHANGED vars
  BY <1>1, <1>2 DEF Inject, SendRequest, Retry, AttemptFailed, TakeBatch, Answered,
                    Skip, Dispatch, TimesOut, LateFinish, Finish, vars
<1>3. ASSUME UNCHANGED <<tracker, trip, rows, ended>>, pc \notin {"stopping", "done"},
             \/ UNCHANGED reason
             \/ pc' = "stopping" /\ reason' \notin {"none", "repetition"}
      PROVE  BreakerInv'
  BY <1>3 DEF BreakerInv
<1>4. CASE GiveUp \/ OverTokenCap \/ NoToolCalls \/ BatchDone
  BY <1>3, <1>4 DEF GiveUp, AttemptFailed, OverTokenCap, NoToolCalls, Answered,
                    BatchDone, Stop
<1>5. CASE Return
  <2>1. UNCHANGED <<tracker, trip, rows, reason>> /\ pc = "running" /\ ~ended
    BY <1>5 DEF Return, TurnsInv
  <2>2. reason = "none" /\ trip = "none"
    BY <2>1 DEF BreakerInv
  <2> QED
    BY <2>1, <2>2 DEF BreakerInv
<1>6. ASSUME Executed
      PROVE  pc = "settled" /\ reason = "none" /\ trip = "none" /\ UNCHANGED ended
  BY <1>6, SettledFacts DEF BreakerInv
<1>7. CASE OneErrorTooMany
  BY <1>6, <1>7 DEF OneErrorTooMany, Stop, BreakerInv
<1>8. CASE EndedBatch
  BY <1>6, <1>8 DEF EndedBatch, WithinErrors, BreakerInv
<1>9. ASSUME Executed, ~ended
      PROVE  Tracks(TrackerNow, AsCalls(rows')) /\ TripNow = Tripped(TrackerNow)
  BY <1>6, <1>9, TrackerKeepsUp DEF BreakerInv
<1>10. CASE Repeats
  BY <1>6, <1>9, <1>10 DEF Repeats, WithinErrors, Stop, BreakerInv
<1>11. CASE AtToolCap
  BY <1>6, <1>9, <1>11 DEF AtToolCap, WithinErrors, Stop, BreakerInv
<1>12. CASE NextIntent
  BY <1>6, <1>9, <1>12 DEF NextIntent, WithinErrors, BreakerInv
<1> QED
  BY <1>2, <1>4, <1>5, <1>7, <1>8, <1>10, <1>11, <1>12 DEF Next, OwnStep

\* A session stops at the first call that breaks a rule of repetition, under
\* that rule's name and for no other call, whatever the caps: the tracker's
\* streaks and its sliding window tell of the calls so far what the rules say
\* of them all.
THEOREM StopsExactly == Spec => []StopsOnRepetition
<1>1. ASSUME TypeInv, BreakerInv
      PROVE  StopsOnRepetition
  <2>1. AsCalls(rows) \in Seq(Called)
    BY <1>1, HistoryIsCalls DEF TypeInv, TypeOK
  <2>2. Tracks(tracker, AsCalls(rows)) => Tripped(tracker) = RuleBroken
    BY <2>1, TrippedIsRule DEF RuleBroken
  <2> QED
    BY <1>1, <2>2 DEF BreakerInv, StopsOnRepetition
<1>2. LoopInv /\ BreakerInv /\ [Next]_vars => BreakerInv'
  BY BreakerStep DEF LoopInv
<1>3. LoopInv /\ BreakerInv => StopsOnRepetition
  BY <1>1 DEF LoopInv
<1> QED
  BY <1>2, <1>3, BreakerInit, LoopInvariant, PTL DEF Spec

-------------------------------------------------------------------------------
(* The wake.                                                               *)

Highest(S) == CHOOSE i \in S : \A j \in S : j <= i

\* What a session with the rows s wakes at, with `left` skipped by a cap.
WakeOf(left, s) ==
  IF AsksIn(left) /= {} /\ left[Highest(AsksIn(left))].valid
  THEN left[Highest(AsksIn(left))].sig ELSE LastWake(s)

\* The wake is the last one asked for; behind the call that is being settled
\* it is that call's.
WakeInv ==
  /\ pc \notin {"settled", "stopping", "done"} => wake = LastWake(rows)
  /\ pc = "settled" =>
       wake = IF Intent.tool = "set_next_wake" /\ outcome = "ok"
              THEN Intent.sig ELSE LastWake(rows)
  /\ pc \in {"stopping", "done"} =>
       wake = WakeOf(IF reason \in Caps THEN batch ELSE <<>>, rows)

LEMMA HighestIs ==
  ASSUME NEW S, S \subseteq Nat, NEW n \in S, \A j \in S : j <= n
  PROVE  Highest(S) = n
<1>1. ASSUME NEW i \in S, \A j \in S : j <= i PROVE i = n
  BY <1>1
<1> QED
  BY <1>1 DEF Highest

LEMMA NothingAsked == AsksIn(<<>>) = {} /\ \A s : WakeOf(<<>>, s) = LastWake(s)
<1>1. AsksIn(<<>>) = {}
  BY DEF AsksIn
<1> QED
  BY <1>1, Zenon DEF WakeOf

LEMMA CarryIsFinal ==
  ASSUME NEW s \in Seq(Intents), NEW r, wake = LastWake(r), CarryWake(s)
  PROVE  wake' = WakeOf(s, r)
<1>1. CASE AsksIn(s) = {}
  BY <1>1 DEF CarryWake, WakeOf
<1>2. CASE AsksIn(s) /= {}
  <2>1. PICK i \in AsksIn(s) : (\A j \in AsksIn(s) : j <= i) /\ Carry(s[i])
    BY <1>2 DEF CarryWake
  <2>2. AsksIn(s) \subseteq Nat
    BY DEF AsksIn
  <2>3. Highest(AsksIn(s)) = i
    BY <2>1, <2>2, HighestIs
  <2>4. WakeOf(s, r) = IF s[i].valid THEN s[i].sig ELSE LastWake(r)
    BY <1>2, <2>3 DEF WakeOf
  <2>5. wake' = IF s[i].valid THEN s[i].sig ELSE wake
    BY <2>1, Zenon DEF Carry
  <2> QED
    BY <2>4, <2>5
<1> QED
  BY <1>1, <1>2

LEMMA WakeOfRow ==
  ASSUME NEW s \in Seq(Row), NEW r \in Row
  PROVE  LastWake(Append(s, r)) =
           IF r.tool = "set_next_wake" /\ r.outcome = "ok" THEN r.sig ELSE LastWake(s)
<1> DEFINE n == Len(s)
           a == Append(s, r)
           A == WakesOf(a)
           S == WakesOf(s)
           Asks(x) == x.tool = "set_next_wake" /\ x.outcome = "ok"
<1>1. /\ n \in Nat /\ DOMAIN s = 1..n /\ DOMAIN a = 1..(n + 1)
      /\ a[n + 1] = r /\ \A i \in 1..n : a[i] = s[i]
  OBVIOUS
<1>2. A = {i \in 1..(n + 1) : Asks(a[i])} /\ S = {i \in 1..n : Asks(s[i])}
  BY <1>1, Zenon DEF WakesOf
<1>3. /\ LastWake(a) = IF A = {} THEN NoWake ELSE a[Highest(A)].sig
      /\ LastWake(s) = IF S = {} THEN NoWake ELSE s[Highest(S)].sig
  BY Zenon DEF LastWake, Highest
<1> HIDE DEF a, n, A, S, Asks
<1>4. CASE Asks(r)
  <2>1. n + 1 \in A /\ A \subseteq Nat /\ \A j \in A : j <= n + 1
    BY <1>1, <1>2, <1>4
  <2>2. Highest(A) = n + 1
    BY <2>1, HighestIs
  <2>3. LastWake(a) = r.sig
    BY <1>1, <1>3, <2>1, <2>2
  <2> QED
    BY <1>4, <2>3 DEF a, Asks
<1>5. CASE ~Asks(r)
  <2>1. A = S
    <3>1. ASSUME NEW i \in A PROVE i \in S
      <4>1. i \in 1..(n + 1) /\ Asks(a[i])
        BY <1>2, <3>1
      <4>2. i /= n + 1
        BY <1>1, <1>5, <4>1
      <4>3. i \in 1..n /\ a[i] = s[i]
        BY <1>1, <4>1, <4>2
      <4> QED
        BY <1>2, <4>1, <4>3
    <3>2. ASSUME NEW i \in S PROVE i \in A
      <4>1. i \in 1..n /\ Asks(s[i])
        BY <1>2, <3>2
      <4>2. i \in 1..(n + 1) /\ a[i] = s[i]
        BY <1>1, <4>1
      <4> QED
        BY <1>2, <4>1, <4>2
    <3> QED
      BY <3>1, <3>2
  <2>2. CASE S = {}
    BY <1>3, <1>5, <2>1, <2>2 DEF a, Asks
  <2>3. CASE S /= {}
    <3>1. S \subseteq 1..n
      BY <1>2
    <3>2. S \subseteq Nat /\ IsFiniteSet(S)
      <4>1. IsFiniteSet(1..n)
        BY <1>1, FS_Interval
      <4>2. IsFiniteSet(S)
        BY <3>1, <4>1, FS_Subset
      <4> QED
        BY <1>1, <3>1, <4>2
    <3>3. PICK k \in S : \A j \in S : j <= k
      BY <2>3, <3>2, HasHighest
    <3>4. Highest(S) = k
      BY <3>2, <3>3, HighestIs
    <3>5. a[k] = s[k]
      BY <1>1, <3>1
    <3>6. LastWake(a) = LastWake(s)
      BY <1>3, <2>1, <2>3, <3>4, <3>5
    <3> QED
      BY <1>5, <3>6 DEF a, Asks
  <2> QED
    BY <2>2, <2>3
<1> QED
  BY <1>4, <1>5

\* The call settled is the last one of the history, or it is a wait.
LEMMA SettledWake ==
  ASSUME TypeInv, WakeInv, Executed
  PROVE  wake = LastWake(rows')
<1>1. rows \in Seq(Row)
  BY DEF TypeInv, TypeOK
<1>2. wake = IF Intent.tool = "set_next_wake" /\ outcome = "ok"
             THEN Intent.sig ELSE LastWake(rows)
  BY SettledFacts DEF WakeInv
<1>3. CASE Intent.tool = "wait"
  BY <1>2, <1>3, SettledFacts
<1>4. CASE Intent.tool /= "wait"
  <2>1. /\ rows' = Append(rows, RowNow) /\ RowNow \in Row
        /\ RowNow.tool = Intent.tool /\ RowNow.sig = Intent.sig
        /\ RowNow.outcome = outcome
    BY <1>4, SettledFacts
  <2>2. LastWake(rows') = IF RowNow.tool = "set_next_wake" /\ RowNow.outcome = "ok"
                          THEN RowNow.sig ELSE LastWake(rows)
    BY <1>1, <2>1, WakeOfRow
  <2> QED
    BY <1>2, <2>1, <2>2, Zenon
<1> QED
  BY <1>3, <1>4

LEMMA WakeInit == Init => WakeInv
<1> SUFFICES ASSUME Init PROVE WakeInv
  OBVIOUS
<1>1. pc = "start" /\ wake = NoWake /\ rows = <<>>
  BY DEF Init
<1>2. LastWake(<<>>) = NoWake
  BY DEF LastWake, WakesOf
<1> QED
  BY <1>1, <1>2 DEF WakeInv

LEMMA WakeStep ==
  ASSUME TypeInv, BreakerInv, WakeInv, [Next]_vars
  PROVE  WakeInv'
<1> USE DEF modelVars, callVars, stopVars, shellVars
<1>0. "errors" \notin Caps /\ "agent" \notin Caps /\ "token_cap" \in Caps
      /\ "tool_cap" \in Caps /\ "repetition" \in Caps
  BY DEF Caps
<1>1. ASSUME UNCHANGED <<wake, rows>>, pc \notin {"settled", "stopping", "done"},
             pc' \notin {"settled", "stopping", "done"}
      PROVE  WakeInv'
  BY <1>1 DEF WakeInv
<1>2. CASE Inject \/ SendRequest \/ Retry \/ TakeBatch \/ Skip \/ Dispatch
  BY <1>1, <1>2 DEF Inject, SendRequest, Retry, AttemptFailed, TakeBatch, Answered,
                    Skip, Dispatch
<1>3. ASSUME UNCHANGED <<wake, rows>>, pc \notin {"settled", "stopping", "done"},
             pc' = "stopping", reason' \in {"errors", "agent"}
      PROVE  WakeInv'
  <2>1. wake' = LastWake(rows') /\ reason' \notin Caps
    BY <1>0, <1>3 DEF WakeInv
  <2>2. wake' = WakeOf(IF reason' \in Caps THEN batch' ELSE <<>>, rows')
    BY <2>1, NothingAsked
  <2> QED
    BY <1>3, <2>2 DEF WakeInv
<1>4. CASE GiveUp \/ NoToolCalls \/ BatchDone
  BY <1>1, <1>3, <1>4 DEF GiveUp, AttemptFailed, NoToolCalls, Answered, BatchDone, Stop
<1>5. ASSUME NEW s \in Seq(Intents), wake = LastWake(rows'), CarryWake(s), batch' = s,
             pc' = "stopping", reason' \in Caps
      PROVE  WakeInv'
  <2>1. wake' = WakeOf(s, rows')
    BY <1>5, CarryIsFinal
  <2> QED
    BY <1>5, <2>1 DEF WakeInv
<1>6. CASE OverTokenCap
  <2>1. PICK b \in Answers : batch' = b /\ CarryWake(b)
    BY <1>6 DEF OverTokenCap
  <2>2. /\ pc = "awaiting" /\ rows' = rows /\ pc' = "stopping"
        /\ reason' = "token_cap"
    BY <1>6 DEF OverTokenCap, Answered, Stop
  <2>3. b \in Seq(Intents)
    BY AnswersAreSequences
  <2>4. wake = LastWake(rows')
    BY <2>2 DEF WakeInv
  <2> QED
    BY <1>0, <1>5, <2>1, <2>2, <2>3, <2>4
<1>7. CASE Return
  <2>1. /\ pc = "running" /\ pc' = "settled" /\ UNCHANGED <<batch, rows>>
        /\ wake' = IF Intent.tool = "set_next_wake" /\ outcome' = "ok"
                   THEN Intent.sig ELSE wake
    BY <1>7 DEF Return
  <2>2. wake = LastWake(rows) /\ Intent' = Intent
    BY <2>1 DEF WakeInv, Intent
  <2> QED
    BY <2>1, <2>2 DEF WakeInv
<1>8. CASE TimesOut
  <2>1. /\ pc = "running" /\ pc' = "settled" /\ UNCHANGED <<wake, rows>>
        /\ outcome' = "timeout"
    BY <1>8 DEF TimesOut
  <2>2. wake = LastWake(rows)
    BY <2>1 DEF WakeInv
  <2> QED
    BY <2>1, <2>2 DEF WakeInv
<1>9. ASSUME UNCHANGED <<wake, rows, batch, outcome, reason>>,
             pc' = pc \/ (pc = "stopping" /\ pc' = "done")
      PROVE  WakeInv'
  <2>1. Intent' = Intent
    BY <1>9 DEF Intent
  <2> QED
    BY <1>9, <2>1 DEF WakeInv
<1>10. CASE LateFinish \/ Finish \/ UNCHANGED vars
  BY <1>9, <1>10 DEF LateFinish, Finish, vars
<1>11. ASSUME Executed
       PROVE  /\ wake = LastWake(rows') /\ batch' = Tail(batch)
              /\ Tail(batch) \in Seq(Intents)
  <2>1. batch \in Seq(Intents) /\ batch /= <<>>
    BY <1>11, SettledFacts DEF TypeInv, TypeOK
  <2> QED
    BY <1>11, <2>1, SettledWake, SettledFacts
<1>12. CASE OneErrorTooMany
  <2>1. Executed /\ wake' = wake /\ pc' = "stopping" /\ reason' = "errors"
    BY <1>12 DEF OneErrorTooMany, Stop
  <2>2. wake' = WakeOf(IF reason' \in Caps THEN batch' ELSE <<>>, rows')
    BY <1>0, <1>11, <2>1, NothingAsked
  <2> QED
    BY <2>1, <2>2 DEF WakeInv
<1>13. CASE EndedBatch \/ NextIntent
  <2>1. Executed /\ wake' = wake /\ pc' = "batch"
    BY <1>13 DEF EndedBatch, NextIntent, WithinErrors
  <2> QED
    BY <1>11, <2>1 DEF WakeInv
<1>14. CASE Repeats \/ AtToolCap
  <2>1. /\ Executed /\ CarryWake(Tail(batch)) /\ pc' = "stopping"
        /\ reason' \in {"repetition", "tool_cap"}
    BY <1>14 DEF Repeats, AtToolCap, WithinErrors, Stop
  <2> QED
    BY <1>0, <1>5, <1>11, <2>1
<1> QED
  BY <1>2, <1>4, <1>6, <1>7, <1>8, <1>10, <1>12, <1>13, <1>14 DEF Next, OwnStep

\* Every session wakes when its last word said: the last set_next_wake of an
\* answer that a cap cut, or else the last one that was executed.
THEOREM WakeStands == Spec => []WakeIsLastAsked
<1>1. ASSUME WakeInv
      PROVE  WakeIsLastAsked
  BY <1>1, Zenon DEF WakeInv, WakeOf, Highest, WakeIsLastAsked
<1>2. LoopInv /\ BreakerInv /\ WakeInv /\ [Next]_vars => WakeInv'
  BY WakeStep DEF LoopInv
<1>3. LoopInv /\ BreakerInv /\ [Next]_vars => BreakerInv'
  BY BreakerStep DEF LoopInv
<1> QED
  BY <1>1, <1>2, <1>3, BreakerInit, WakeInit, LoopInvariant, PTL DEF Spec

-------------------------------------------------------------------------------
(* The record of the last shell call.                                      *)

TimedOut(s) == {j \in DOMAIN s : s[j].tool = "shell" /\ s[j].outcome = "timeout"}
LateOf(s) == {s[j].seq : j \in TimedOut(s)}

\* Only a shell call that timed out comes back late, and what a shell call
\* finds in the record is its own or that of a late one before it.
RecordInv ==
  /\ \A q \in late :
       \/ q \in LateOf(rows)
       \/ pc = "settled" /\ Intent.tool = "shell" /\ outcome = "timeout" /\ q = Seqno
  /\ pc \in {"running", "settled"} /\ Intent.tool = "shell" =>
       last \in {0, Seqno} \cup LateOf(rows)
  /\ RowTellsOwnOrLate

LEMMA LateGrows ==
  ASSUME NEW s \in Seq(Row), NEW r \in Row
  PROVE  LateOf(Append(s, r)) =
           LateOf(s) \cup (IF r.tool = "shell" /\ r.outcome = "timeout" THEN {r.seq} ELSE {})
<1> DEFINE n == Len(s)
           a == Append(s, r)
           T(x) == x.tool = "shell" /\ x.outcome = "timeout"
<1>1. /\ n \in Nat /\ DOMAIN s = 1..n /\ DOMAIN a = 1..(n + 1)
      /\ a[n + 1] = r /\ \A i \in 1..n : a[i] = s[i]
  OBVIOUS
<1>2. /\ LateOf(a) = {a[j].seq : j \in {i \in 1..(n + 1) : T(a[i])}}
      /\ LateOf(s) = {s[j].seq : j \in {i \in 1..n : T(s[i])}}
  BY <1>1, Zenon DEF LateOf, TimedOut
<1> SUFFICES LateOf(a) = LateOf(s) \cup (IF T(r) THEN {r.seq} ELSE {})
  OBVIOUS
<1> HIDE DEF a, n, T
<1>3. ASSUME NEW q \in LateOf(a) PROVE q \in LateOf(s) \/ (T(r) /\ q = r.seq)
  <2>1. PICK j \in 1..(n + 1) : T(a[j]) /\ q = a[j].seq
    BY <1>2, <1>3
  <2>2. CASE j = n + 1
    BY <1>1, <2>1, <2>2
  <2>3. CASE j /= n + 1
    <3>1. j \in 1..n /\ a[j] = s[j]
      BY <1>1, <2>1, <2>3
    <3> QED
      BY <1>2, <2>1, <3>1
  <2> QED
    BY <2>2, <2>3
<1>4. ASSUME NEW q \in LateOf(s) PROVE q \in LateOf(a)
  <2>1. PICK j \in 1..n : T(s[j]) /\ q = s[j].seq
    BY <1>2, <1>4
  <2>2. j \in 1..(n + 1) /\ a[j] = s[j]
    BY <1>1
  <2> QED
    BY <1>2, <2>1, <2>2
<1>5. T(r) => r.seq \in LateOf(a)
  <2>1. n + 1 \in 1..(n + 1)
    BY <1>1
  <2> QED
    BY <1>1, <1>2, <2>1
<1> QED
  BY <1>3, <1>4, <1>5

\* What RowTellsOwnOrLate says of the i-th of the rows s.
TellsOwnOrLate(s, i) ==
  \/ s[i].shell \in {0, s[i].seq}
  \/ \E j \in 1..(i - 1) :
       /\ s[j].tool = "shell" /\ s[j].outcome = "timeout"
       /\ s[j].seq = s[i].shell

LEMMA RowsGrow ==
  ASSUME NEW s \in Seq(Row), NEW r \in Row,
         \A i \in DOMAIN s : TellsOwnOrLate(s, i),
         r.shell \in {0, r.seq} \cup LateOf(s)
  PROVE  \A i \in DOMAIN Append(s, r) : TellsOwnOrLate(Append(s, r), i)
<1> DEFINE n == Len(s)
           a == Append(s, r)
<1>1. /\ n \in Nat /\ DOMAIN s = 1..n /\ DOMAIN a = 1..(n + 1)
      /\ a[n + 1] = r /\ \A i \in 1..n : a[i] = s[i]
  OBVIOUS
<1> SUFFICES \A i \in DOMAIN a : TellsOwnOrLate(a, i)
  OBVIOUS
<1> HIDE DEF n, a
<1>2. ASSUME NEW i \in 1..n PROVE TellsOwnOrLate(a, i)
  <2>1. TellsOwnOrLate(s, i) /\ a[i] = s[i]
    BY <1>1
  <2>2. \A j \in 1..(i - 1) : j \in 1..n
    BY <1>1
  <2> QED
    BY <1>1, <2>1, <2>2 DEF TellsOwnOrLate
<1>3. TellsOwnOrLate(a, n + 1)
  <2>1. CASE r.shell \in {0, r.seq}
    BY <1>1, <2>1 DEF TellsOwnOrLate
  <2>2. CASE r.shell \in LateOf(s)
    <3>1. PICK j \in 1..n : /\ s[j].tool = "shell" /\ s[j].outcome = "timeout"
                            /\ s[j].seq = r.shell
      BY <1>1, <2>2 DEF LateOf, TimedOut
    <3>2. j \in 1..(n + 1 - 1) /\ a[j] = s[j]
      BY <1>1
    <3> QED
      BY <1>1, <3>1, <3>2 DEF TellsOwnOrLate
  <2> QED
    BY <2>1, <2>2
<1>4. \A i \in 1..(n + 1) : i \in 1..n \/ i = n + 1
  BY <1>1
<1>5. \A i \in 1..(n + 1) : TellsOwnOrLate(a, i)
  BY <1>2, <1>3, <1>4
<1> QED
  BY <1>1, <1>5

LEMMA RecordInit == Init => RecordInv
<1> SUFFICES ASSUME Init PROVE RecordInv
  OBVIOUS
<1>1. pc = "start" /\ late = {} /\ rows = <<>>
  BY DEF Init
<1>2. RowTellsOwnOrLate
  BY <1>1 DEF RowTellsOwnOrLate
<1> QED
  BY <1>1, <1>2 DEF RecordInv

LEMMA RecordStep ==
  ASSUME TypeInv, RecordInv, [Next]_vars
  PROVE  RecordInv'
<1> USE DEF modelVars, callVars, stopVars, shellVars
<1>0. /\ UNCHANGED rows => UNCHANGED <<LateOf(rows), RowTellsOwnOrLate>>
      /\ UNCHANGED batch => UNCHANGED Intent
      /\ UNCHANGED callSeq => UNCHANGED Seqno
  BY DEF LateOf, TimedOut, RowTellsOwnOrLate, Intent, Seqno
<1>1. ASSUME UNCHANGED <<late, rows>>, pc \notin {"running", "settled"},
             pc' \notin {"running", "settled"}
      PROVE  RecordInv'
  BY <1>0, <1>1 DEF RecordInv
<1>2. CASE Inject \/ SendRequest \/ Retry \/ GiveUp \/ OverTokenCap \/ NoToolCalls
           \/ TakeBatch \/ Skip \/ BatchDone \/ Finish
  BY <1>1, <1>2 DEF Inject, SendRequest, Retry, GiveUp, AttemptFailed, OverTokenCap,
                    NoToolCalls, TakeBatch, Answered, Skip, BatchDone, Finish, Stop
<1>3. CASE Dispatch
  <2>1. /\ pc = "batch" /\ pc' = "running" /\ UNCHANGED <<late, rows, batch, callSeq>>
        /\ last' = IF Intent.tool = "shell" THEN 0 ELSE last
    BY <1>3 DEF Dispatch
  <2> QED
    BY <1>0, <2>1 DEF RecordInv
<1>4. CASE Return
  <2>1. /\ pc = "running" /\ pc' = "settled" /\ UNCHANGED <<late, rows, batch, callSeq>>
        /\ last' \in {last, Seqno}
    BY <1>4 DEF Return
  <2> QED
    BY <1>0, <2>1 DEF RecordInv
<1>5. CASE TimesOut
  <2>1. /\ pc = "running" /\ pc' = "settled" /\ outcome' = "timeout"
        /\ UNCHANGED <<rows, batch, callSeq, last>>
        /\ late' = IF Intent.tool = "shell" THEN late \cup {Seqno} ELSE late
    BY <1>5 DEF TimesOut
  <2> QED
    BY <1>0, <2>1 DEF RecordInv
<1>6. CASE LateFinish
  <2>1. PICK q \in late : last' = q /\ late' = late \ {q}
    BY <1>6 DEF LateFinish
  <2>2. UNCHANGED <<pc, rows, batch, callSeq, outcome>>
    BY <1>6 DEF LateFinish
  <2> QED
    BY <1>0, <2>1, <2>2 DEF RecordInv
<1>7. CASE UNCHANGED vars
  BY <1>0, <1>7 DEF vars, RecordInv
<1>8. ASSUME Executed, pc' \notin {"running", "settled"}
      PROVE  RecordInv'
  <2>1. rows \in Seq(Row)
    BY DEF TypeInv, TypeOK
  <2>2. CASE Intent.tool = "wait"
    BY <1>0, <1>8, <2>2, SettledFacts DEF RecordInv
  <2>3. CASE Intent.tool /= "wait"
    <3>1. /\ rows' = Append(rows, RowNow) /\ RowNow \in Row
          /\ RowNow.tool = Intent.tool /\ RowNow.outcome = outcome
          /\ RowNow.seq = Seqno /\ pc = "settled" /\ late' = late
          /\ RowNow.shell = IF Intent.tool = "shell" THEN last ELSE 0
      BY <1>8, <2>3, SettledFacts
    <3>2. LateOf(rows') = LateOf(rows)
            \cup (IF Intent.tool = "shell" /\ outcome = "timeout" THEN {Seqno} ELSE {})
      BY <2>1, <3>1, LateGrows
    <3>3. \A q \in late' : q \in LateOf(rows')
      BY <3>1, <3>2 DEF RecordInv
    <3>4. RowNow.shell \in {0, RowNow.seq} \cup LateOf(rows)
      BY <3>1 DEF RecordInv
    <3>5. RowTellsOwnOrLate'
      <4>1. \A i \in DOMAIN rows : TellsOwnOrLate(rows, i)
        BY DEF RecordInv, RowTellsOwnOrLate, TellsOwnOrLate
      <4>2. \A i \in DOMAIN rows' : TellsOwnOrLate(rows', i)
        BY <2>1, <3>1, <3>4, <4>1, RowsGrow
      <4> QED
        BY <4>2, Zenon DEF RowTellsOwnOrLate, TellsOwnOrLate
    <3> QED
      BY <1>8, <3>3, <3>5 DEF RecordInv
  <2> QED
    BY <2>2, <2>3
<1>9. CASE OneErrorTooMany \/ EndedBatch \/ Repeats \/ AtToolCap \/ NextIntent
  BY <1>8, <1>9 DEF OneErrorTooMany, EndedBatch, Repeats, AtToolCap, NextIntent,
                    WithinErrors, Stop
<1> QED
  BY <1>2, <1>3, <1>4, <1>5, <1>6, <1>7, <1>9 DEF Next, OwnStep

\* The row of a shell call tells of that call, of nothing, or of an earlier
\* call that timed out: never of one that came back in its time.
THEOREM RowsTellOwnOrLate == Spec => []RowTellsOwnOrLate
<1>1. LoopInv /\ RecordInv /\ [Next]_vars => RecordInv'
  BY RecordStep DEF LoopInv
<1>2. RecordInv => RowTellsOwnOrLate
  BY DEF RecordInv
<1> QED
  BY <1>1, <1>2, RecordInit, LoopInvariant, PTL DEF Spec

-------------------------------------------------------------------------------
(* A session has no endless run.                                           *)

\* The steps of a turn, counted down.
Stage ==
  CASE pc = "start" -> 5
    [] pc = "awaiting" -> 4
    [] pc \in {"batch", "running", "settled"} -> 3
    [] pc = "call" -> 2
    [] pc = "stopping" -> 1
    [] pc = "done" -> 0

\* What is left of the injections, or of the intents of the answer.
Left ==
  CASE pc = "start" -> HarnessReads + FileReads - callSeq
    [] pc = "batch" -> 3 * Len(batch) + 2
    [] pc = "running" -> 3 * Len(batch) + 1
    [] pc = "settled" -> 3 * Len(batch)
    [] OTHER -> 0

\* The requests left under the caps come first, the threads that are still
\* running beside the loop last.
Measure == <<MaxRequests - requests, Stage, Left, Cardinality(late)>>
GoesDown == <<Measure', Measure>> \in Sooner

Unfinished ==
  /\ IsFiniteSet(late)
  /\ pc = "start" => callSeq < HarnessReads + FileReads

LEMMA UnfinishedInvariant == Spec => []Unfinished
<1>1. Init => Unfinished
  BY FS_EmptySet, LoopAssumption DEF Init, Unfinished
<1>2. ASSUME LoopInv, Unfinished, [Next]_vars
      PROVE  Unfinished'
  <2> USE DEF modelVars, callVars, stopVars, shellVars
  <2>0. callSeq \in Nat /\ HarnessReads \in Nat /\ FileReads \in Nat
    BY <1>2, LoopAssumption DEF LoopInv, TypeInv, TypeOK
  <2>1. IsFiniteSet(late')
    <3>1. CASE UNCHANGED late
      BY <1>2, <3>1 DEF Unfinished
    <3>2. CASE TimesOut
      BY <1>2, <3>2, FS_AddElement DEF TimesOut, Unfinished
    <3>3. CASE LateFinish
      BY <1>2, <3>3, FS_RemoveElement DEF LateFinish, Unfinished
    <3>4. TimesOut \/ LateFinish \/ UNCHANGED late
      BY <1>2 DEF Next, OwnStep, vars, Inject, SendRequest, Retry, GiveUp,
        AttemptFailed, OverTokenCap, NoToolCalls, TakeBatch, Answered, Skip,
        Dispatch, Return, OneErrorTooMany, EndedBatch, Repeats, AtToolCap,
        NextIntent, WithinErrors, Executed, BatchDone, Finish
    <3> QED
      BY <3>1, <3>2, <3>3, <3>4
  <2>2. ASSUME pc' = "start"
        PROVE  callSeq' < HarnessReads + FileReads
    <3>1. CASE Inject
      BY <1>2, <2>0, <2>2, <3>1 DEF Inject, Unfinished
    <3>2. CASE UNCHANGED <<pc, callSeq>>
      BY <1>2, <2>2, <3>2 DEF Unfinished
    <3>3. Inject \/ UNCHANGED <<pc, callSeq>>
      BY <1>2, <2>2 DEF Next, OwnStep, vars, SendRequest, Retry, GiveUp,
        AttemptFailed, OverTokenCap, NoToolCalls, TakeBatch, Answered, Skip,
        Dispatch, Return, TimesOut, LateFinish, OneErrorTooMany, EndedBatch,
        Repeats, AtToolCap, NextIntent, WithinErrors, Executed, BatchDone,
        Finish, Stop
    <3> QED
      BY <3>1, <3>2, <3>3
  <2> QED
    BY <2>1, <2>2 DEF Unfinished
<1> QED
  BY <1>1, <1>2, LoopInvariant, PTL DEF Spec

Measured ==
  /\ MaxRequests - requests \in Nat /\ Stage \in Nat /\ Left \in Nat
  /\ Cardinality(late) \in Nat

LEMMA MeasureIsNatural == LoopInv /\ Unfinished => Measured
<1> SUFFICES ASSUME LoopInv, Unfinished PROVE Measured
  OBVIOUS
<1>1. MaxRequests \in Nat /\ requests \in Nat /\ requests <= MaxRequests
  BY TurnBudget DEF LoopInv, TypeInv, TypeOK, RequestsInv
<1>2. MaxRequests - requests \in Nat
  BY <1>1
<1>3. Cardinality(late) \in Nat
  BY FS_CardinalityType DEF Unfinished
<1>4. pc \in {"start", "call", "awaiting", "batch", "running", "settled",
              "stopping", "done"}
  BY DEF LoopInv, TypeInv, TypeOK
<1>5. Stage \in Nat
  BY <1>4 DEF Stage
<1>6. callSeq \in Nat /\ HarnessReads \in Nat /\ FileReads \in Nat /\ Len(batch) \in Nat
  BY LoopAssumption DEF LoopInv, TypeInv, TypeOK
<1>7. Left \in Nat
  BY <1>4, <1>6 DEF Left, Unfinished
<1> QED
  BY <1>2, <1>3, <1>5, <1>7 DEF Measured

LEMMA StepGoesDown ==
  ASSUME LoopInv, LoopInv', Unfinished, Unfinished', Next
  PROVE  GoesDown
<1> USE DEF modelVars, callVars, stopVars, shellVars
<1>0. /\ MaxRequests - requests \in Nat /\ Stage \in Nat /\ Left \in Nat
      /\ Cardinality(late) \in Nat
  BY MeasureIsNatural DEF Measured
<1>b. /\ (MaxRequests - requests)' \in Nat /\ Stage' \in Nat /\ Left' \in Nat
       /\ Cardinality(late)' \in Nat
  <2>1. LoopInv' /\ Unfinished' => Measured'
    BY MeasureIsNatural, PTL
  <2> QED
    BY <2>1 DEF Measured
<1>c. /\ requests \in Nat /\ requests' \in Nat /\ MaxRequests \in Nat
      /\ MaxRequests' = MaxRequests
      /\ batch \in Seq(Intents) /\ batch' \in Seq(Intents)
      /\ callSeq \in Nat /\ HarnessReads \in Nat /\ FileReads \in Nat
  BY TurnBudget, LoopAssumption
  DEF LoopInv, TypeInv, TypeOK, MaxRequests, MaxTurns
\* Which of the four numbers a step counts down.
<1>1. ASSUME \/ (MaxRequests - requests)' < MaxRequests - requests
             \/ UNCHANGED requests /\ Stage' < Stage
             \/ UNCHANGED requests /\ Stage' = Stage /\ Left' < Left
             \/ /\ UNCHANGED requests /\ Stage' = Stage /\ Left' = Left
                /\ Cardinality(late)' < Cardinality(late)
      PROVE  GoesDown
  <2>1. UNCHANGED requests => (MaxRequests - requests)' = MaxRequests - requests
    BY <1>c
  <2>2. <<<<(MaxRequests - requests)', Stage', Left', Cardinality(late)'>>,
          <<MaxRequests - requests, Stage, Left, Cardinality(late)>>>> \in Sooner
    BY <1>0, <1>b, <1>1, <2>1, SoonerOf, ZenonT(30)
  <2> QED
    BY <2>2 DEF GoesDown, Measure
<1>2. CASE SendRequest
  <2>1. (MaxRequests - requests)' < MaxRequests - requests
    BY <1>c, <1>2 DEF SendRequest
  <2> QED
    BY <1>1, <2>1
<1>3. CASE Inject
  <2>1. UNCHANGED requests /\ pc = "start" /\ callSeq' = callSeq + 1 /\ pc' \in {"start", "call"}
    BY <1>3 DEF Inject
  <2>2. CASE pc' = "start"
    <3>1. Stage' = Stage /\ Left' < Left
      BY <1>c, <2>1, <2>2 DEF Stage, Left
    <3> QED
      BY <1>1, <2>1, <3>1
  <2>3. CASE pc' = "call"
    <3>1. Stage' < Stage
      BY <2>1, <2>3 DEF Stage
    <3> QED
      BY <1>1, <2>1, <3>1
  <2> QED
    BY <2>1, <2>2, <2>3
<1>4. ASSUME pc = "awaiting", pc' \in {"call", "batch", "stopping"}, UNCHANGED requests
      PROVE  GoesDown
  <2>1. Stage' < Stage
    BY <1>4 DEF Stage
  <2> QED
    BY <1>1, <1>4, <2>1
<1>5. CASE Retry \/ GiveUp \/ OverTokenCap \/ NoToolCalls \/ TakeBatch
  BY <1>4, <1>5 DEF Retry, GiveUp, AttemptFailed, OverTokenCap, NoToolCalls,
                    TakeBatch, Answered, Stop
<1>6. CASE Skip
  <2>1. /\ pc = "batch" /\ pc' = "batch" /\ UNCHANGED requests
        /\ Len(batch') = Len(batch) - 1 /\ Len(batch) \in Nat
    BY <1>c, <1>6 DEF Skip
  <2>2. Stage' = Stage /\ Left' < Left
    BY <2>1 DEF Stage, Left
  <2> QED
    BY <1>1, <2>1, <2>2
<1>7. CASE Dispatch
  <2>1. /\ pc = "batch" /\ pc' = "running" /\ UNCHANGED <<requests, batch>>
        /\ Len(batch) \in Nat
    BY <1>c, <1>7 DEF Dispatch
  <2>2. Stage' = Stage /\ Left' < Left
    BY <2>1 DEF Stage, Left
  <2> QED
    BY <1>1, <2>1, <2>2
<1>8. CASE Return \/ TimesOut
  <2>1. /\ pc = "running" /\ pc' = "settled" /\ UNCHANGED <<requests, batch>>
        /\ Len(batch) \in Nat
    BY <1>c, <1>8 DEF Return, TimesOut
  <2>2. Stage' = Stage /\ Left' < Left
    BY <2>1 DEF Stage, Left
  <2> QED
    BY <1>1, <2>1, <2>2
<1>9. CASE OneErrorTooMany \/ EndedBatch \/ Repeats \/ AtToolCap \/ NextIntent
  <2>1. Executed /\ pc' \in {"batch", "stopping"}
    BY <1>9 DEF OneErrorTooMany, EndedBatch, Repeats, AtToolCap, NextIntent,
                WithinErrors, Stop
  <2>2. /\ pc = "settled" /\ UNCHANGED requests /\ batch' = Tail(batch)
        /\ batch /= <<>>
    BY <2>1 DEF Executed, LoopInv, TypeInv, Underway
  <2>3. Len(batch') = Len(batch) - 1 /\ Len(batch) \in Nat
    BY <1>c, <2>2
  <2>4. CASE pc' = "batch"
    <3>1. Stage' = Stage /\ Left' < Left
      BY <2>2, <2>3, <2>4 DEF Stage, Left
    <3> QED
      BY <1>1, <2>2, <3>1
  <2>5. CASE pc' = "stopping"
    <3>1. Stage' < Stage
      BY <2>2, <2>5 DEF Stage
    <3> QED
      BY <1>1, <2>2, <3>1
  <2> QED
    BY <2>1, <2>4, <2>5
<1>10. CASE BatchDone
  <2>1. pc = "batch" /\ pc' \in {"call", "stopping"} /\ UNCHANGED requests
    BY <1>10 DEF BatchDone, Stop
  <2>2. Stage' < Stage
    BY <2>1 DEF Stage
  <2> QED
    BY <1>1, <2>1, <2>2
<1>11. CASE Finish
  <2>1. pc = "stopping" /\ pc' = "done" /\ UNCHANGED requests
    BY <1>11 DEF Finish
  <2>2. Stage' < Stage
    BY <2>1 DEF Stage
  <2> QED
    BY <1>1, <2>1, <2>2
<1>12. CASE LateFinish
  <2>1. PICK s \in late : late' = late \ {s}
    BY <1>12 DEF LateFinish
  <2>2. Cardinality(late') < Cardinality(late)
    <3>1. IsFiniteSet(late)
      BY DEF Unfinished
    <3>2. Cardinality(late \ {s}) = Cardinality(late) - 1
      BY <3>1, FS_RemoveElement
    <3> QED
      BY <1>0, <2>1, <3>2
  <2>3. UNCHANGED <<pc, requests, batch, callSeq>>
    BY <1>12 DEF LateFinish
  <2>4. Stage' = Stage /\ Left' = Left
    BY <2>3 DEF Stage, Left
  <2> QED
    BY <1>1, <2>2, <2>3, <2>4
<1> QED
  BY <1>2, <1>3, <1>5, <1>6, <1>7, <1>8, <1>9, <1>10, <1>11, <1>12
  DEF Next, OwnStep

\* No session goes on for ever, whatever the model answers and whatever hangs:
\* every step of the loop, and every late one of a thread it gave up on, takes
\* the session down an order without endless descent.  This is what SessionEnds
\* has of safety; that a step is taken at all is left to fairness (loop.py, run
\* and _execute_batch).
THEOREM NoEndlessSession ==
  IsWellFoundedOn(Sooner, Quadruples) /\ (Spec => [][GoesDown]_vars)
<1>1. LoopInv /\ LoopInv' /\ Unfinished /\ Unfinished' /\ [Next]_vars
        => [GoesDown]_vars
  BY StepGoesDown
<1>2. Spec => [][GoesDown]_vars
  BY <1>1, LoopInvariant, UnfinishedInvariant, PTL DEF Spec
<1> QED
  BY <1>2, SoonerIsWellFounded

===============================================================================
