------------------------------- MODULE MCRunLock -------------------------------
(***************************************************************************)
(* RunLock with two slots, a pid more than slots, so that a dead holder's  *)
(* pid is reused by an invocation or by another process, and two deaths,   *)
(* so that a lock is left by a death while breaking another's.             *)
(***************************************************************************)
EXTENDS RunLock

===============================================================================
