------------------------------ MODULE MCShellExec ------------------------------
(***************************************************************************)
(* ShellExec with headers of two units and frames of one or two bytes, so  *)
(* that a piece ends inside a header, between header and payload, inside a *)
(* payload and across two frames, and with a result and a log each shorter *)
(* than what a stream may say.                                             *)
(***************************************************************************)
EXTENDS ShellExec

===============================================================================
