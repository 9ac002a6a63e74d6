---------------------------- MODULE MCRunLifecycle ----------------------------
(***************************************************************************)
(* RunLifecycle on small runs.  A new session starts only after the one    *)
(* before it: three sessions of one request and two deaths reach a crash   *)
(* in every step, a crash inside the recovery of a crash, a session after  *)
(* both, and a journal that loses its oldest entry; two sessions of two    *)
(* requests, a death and a refusal reach the gate of the budget.           *)
(***************************************************************************)
EXTENDS RunLifecycleInv

===============================================================================
