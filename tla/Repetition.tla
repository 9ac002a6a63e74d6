------------------------------ MODULE Repetition -------------------------------
(***************************************************************************)
(* The repetition breaker (repetition.py): RepetitionTracker.record folds  *)
(* one executed call into the tracker's streaks and window and says which  *)
(* rule, if any, it trips.  A call is a record of its tool, its signature  *)
(* (the tool with a digest of the arguments: here the call's identity) and *)
(* whether it failed or reverted.                                          *)
(***************************************************************************)
EXTENDS Naturals, Sequences, FiniteSets

CONSTANTS
  IdenticalCap,      \* repetition_identical_cap
  Window,            \* repetition_window
  MinDistinct,       \* repetition_min_distinct
  SameToolErrorCap   \* repetition_same_tool_error_cap

ASSUME RepetitionAssumption ==
  /\ IdenticalCap \in Nat \ {0}
  /\ Window \in Nat \ {0}
  /\ MinDistinct \in Nat
  /\ SameToolErrorCap \in Nat \ {0}

Rules == {"identical_call", "window_diversity", "same_tool_errors"}

\* The last n elements of s, or all of them.
Last(s, n) == IF Len(s) <= n THEN s ELSE SubSeq(s, Len(s) - n + 1, Len(s))
Distinct(s) == Cardinality({s[i] : i \in DOMAIN s})

Trackers(sigs, tools) ==
  [sig: sigs \cup {""}, identical: Nat, recent: Seq(sigs),
   errorTool: tools \cup {""}, errors: Nat]

\* A tracker that has recorded nothing; "" is no signature and no tool.
NewTracker ==
  [sig |-> "", identical |-> 0, recent |-> <<>>, errorTool |-> "", errors |-> 0]

\* Mutation: a success leaves the error streak standing.
Record_KeepsErrors(t, call) ==
  [sig       |-> call.sig,
   identical |-> IF call.sig = t.sig THEN t.identical + 1 ELSE 1,
   recent    |-> Last(Append(t.recent, call.sig), Window),
   errorTool |-> IF call.failed THEN call.tool ELSE t.errorTool,
   errors    |-> IF ~call.failed THEN t.errors
                 ELSE IF call.tool = t.errorTool THEN t.errors + 1 ELSE 1]
Record(t, call) ==
  [sig       |-> call.sig,
   identical |-> IF call.sig = t.sig THEN t.identical + 1 ELSE 1,
   recent    |-> Last(Append(t.recent, call.sig), Window),
   errorTool |-> IF call.failed THEN call.tool ELSE "",
   errors    |-> IF ~call.failed THEN 0
                 ELSE IF call.tool = t.errorTool THEN t.errors + 1 ELSE 1]

\* The rule the call just recorded trips.
Tripped(t) ==
  IF t.identical >= IdenticalCap THEN "identical_call"
  ELSE IF Len(t.recent) >= Window /\ Distinct(t.recent) <= MinDistinct
       THEN "window_diversity"
  ELSE IF t.errors >= SameToolErrorCap THEN "same_tool_errors"
  ELSE "none"

-------------------------------------------------------------------------------
(* The rules as SPEC P5.1 states them, of the calls recorded so far.       *)

LastCalls(h, n) == {h[i] : i \in (Len(h) - n + 1)..Len(h)}

IdenticalRule(h) ==
  /\ Len(h) >= IdenticalCap
  /\ Cardinality({c.sig : c \in LastCalls(h, IdenticalCap)}) = 1

WindowRule(h) ==
  /\ Len(h) >= Window
  /\ Cardinality({c.sig : c \in LastCalls(h, Window)}) <= MinDistinct

ErrorRule(h) ==
  /\ Len(h) >= SameToolErrorCap
  /\ \A c \in LastCalls(h, SameToolErrorCap) : c.failed
  /\ Cardinality({c.tool : c \in LastCalls(h, SameToolErrorCap)}) = 1

RuleOf(h) ==
  IF IdenticalRule(h) THEN "identical_call"
  ELSE IF WindowRule(h) THEN "window_diversity"
  ELSE IF ErrorRule(h) THEN "same_tool_errors"
  ELSE "none"

===============================================================================
