SPECIFICATION FairSpec
CONSTANTS
  Books = {b1}
  Hashes = {h1, h2}
  MaxLens = 2
  MaxFailures = 1
  Verdicts = {"success"}
INVARIANTS
  ToldOnce
  ToldIsFinal
  NothingFallsBehind
  ReadIsComplete
  KeeperInv
PROPERTY EveryReceiptTold
