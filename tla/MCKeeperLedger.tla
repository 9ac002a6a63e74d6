----------------------------- MODULE MCKeeperLedger ----------------------------
(***************************************************************************)
(* KeeperLedger with one book, two transactions of it, two lens blocks and *)
(* one failure: an open hash beside one that is told, a receipt without a  *)
(* lens block behind the cursor, and at any step a crash, a lost cache or  *)
(* a request without an answer.  Books share nothing but the set of told   *)
(* hashes, and no two of them a hash.                                      *)
(***************************************************************************)
EXTENDS KeeperLedger

===============================================================================
