------------------------------ MODULE KeeperLedger -----------------------------
(***************************************************************************)
(* The keeper_tx read (keeper.py, runner.py): at every session start and   *)
(* at the run's end the scaffold reads the keeper's ledgers from a cursor, *)
(* tells the final receipts it has not told yet as telemetry rows, and     *)
(* saves the cursor with its state.  The keeper signs on its own, between  *)
(* and during the reads.                                                   *)
(*                                                                         *)
(* The keeper is external: a transaction is broadcast with the lens block  *)
(* of its time, may be left unconfirmed, and gets one final receipt, with  *)
(* a lens block or, late, with none.  Lens blocks never decrease.          *)
(***************************************************************************)
EXTENDS Naturals, Sequences, FiniteSets

CONSTANTS
  Books,        \* the account's books
  Hashes,       \* transaction hashes
  Verdicts,     \* statuses of a final receipt: success, reverted
  MaxLens,      \* bound: the last lens block
  MaxFailures   \* bound: unanswered requests, crashes and lost caches

ASSUME KeeperAssumption ==
  /\ IsFiniteSet(Books) /\ IsFiniteSet(Hashes)
  /\ "unconfirmed" \notin Verdicts
  /\ MaxLens \in Nat \ {0}
  /\ MaxFailures \in Nat

VARIABLES
  ledger,    \* the tx rows of each book, as the keeper keeps them
  lens,      \* the lens block of the keeper's next row
  told,      \* telemetry: the keeper_tx rows
  saved,     \* state.json: the cursor
  cursor,    \* the cursor of the read under way
  pc,        \* where the scaffold is
  todo,      \* the books still to read
  found,     \* final receipts read and not yet told
  due,       \* history: the receipts that were final when the read began
  silent,    \* history: a request of this read went unanswered
  failures   \* bounded: failures so far

keeperVars == <<ledger, lens>>
vars == <<keeperVars, told, saved, cursor, pc, todo, found, due, silent, failures>>

NoBlock == 0  \* lensBlock null; also a book the cursor does not know
Statuses == Verdicts \cup {"unconfirmed"}
Row == [hash: Hashes, stage: {"broadcast", "receipt"},
        status: Statuses \cup {"none"}, lensBlock: 0..MaxLens]
Event == [book: Books, hash: Hashes, status: Statuses]
Cursor == [blocks: [Books -> 0..MaxLens], open: [Books -> SUBSET Hashes]]
NoCursor == [blocks |-> [b \in Books |-> NoBlock], open |-> [b \in Books |-> {}]]

TypeOK ==
  /\ ledger \in [Books -> Seq(Row)]
  /\ lens \in 1..MaxLens
  /\ told \in Seq(Event)
  /\ saved \in Cursor /\ cursor \in Cursor
  /\ pc \in {"idle", "reading", "again", "telling"}
  /\ todo \in SUBSET Books
  /\ found \in SUBSET Event
  /\ due \in SUBSET Hashes
  /\ silent \in BOOLEAN
  /\ failures \in 0..MaxFailures

Init ==
  /\ ledger = [b \in Books |-> <<>>]
  /\ lens = 1
  /\ told = <<>>
  /\ saved = NoCursor /\ cursor = NoCursor
  /\ pc = "idle" /\ todo = {} /\ found = {}
  /\ due = {} /\ silent = FALSE /\ failures = 0

Rows(s) == {s[i] : i \in DOMAIN s}
AllRows == UNION {Rows(ledger[b]) : b \in Books}

\* The row that settles its transaction.
Settles(r) == r.stage = "receipt" /\ r.status \in Verdicts

-------------------------------------------------------------------------------
(* The keeper.                                                             *)

Write(b, row) ==
  /\ ledger' = [ledger EXCEPT ![b] = Append(@, row)]
  /\ UNCHANGED <<lens, told, saved, cursor, pc, todo, found, due, silent, failures>>

Broadcast(b, h) ==
  /\ \A r \in AllRows : r.hash /= h
  /\ Write(b, [hash |-> h, stage |-> "broadcast", status |-> "none",
               lensBlock |-> lens])

\* A transaction of b that has no final receipt yet.
Pending(b, h) ==
  /\ \E r \in Rows(ledger[b]) : r.hash = h
  /\ \A r \in Rows(ledger[b]) : r.hash = h => ~Settles(r)

Unconfirmed(b, h) ==
  /\ Pending(b, h)
  /\ \A r \in Rows(ledger[b]) : r.hash = h => r.stage = "broadcast"
  /\ Write(b, [hash |-> h, stage |-> "receipt", status |-> "unconfirmed",
               lensBlock |-> lens])

Confirm(b, h) ==
  /\ Pending(b, h)
  /\ \E st \in Verdicts, l \in {lens, NoBlock} :
       Write(b, [hash |-> h, stage |-> "receipt", status |-> st, lensBlock |-> l])

LensAdvances ==
  /\ lens < MaxLens
  /\ lens' = lens + 1
  /\ UNCHANGED <<ledger, told, saved, cursor, pc, todo, found, due, silent, failures>>

-------------------------------------------------------------------------------
(* The read.                                                               *)

Told == {told[i].hash : i \in DOMAIN told}

\* Mutation: every receipt row is taken for the last word.
Final_AnyReceipt(r) == r.stage = "receipt"
\* Mutation: every row but an unconfirmed one is.
Final_AnyStage(r) == r.status /= "unconfirmed"
\* A receipt row whose status is not `unconfirmed`.
Final(r) == r.stage = "receipt" /\ r.status /= "unconfirmed"

\* Mutation: what was told is remembered in this process alone.
Emitted_InMemory == {e.hash : e \in found}
\* The set that dedups: the hashes of the stream's keeper_tx rows, folded when
\* the read begins, and those this read has found.
Emitted == Told \cup {e.hash : e \in found}

\* What `ledger --since` returns; a row with no lens block only a whole read.
Since(b, block) == {r \in Rows(ledger[b]) : r.lensBlock /= NoBlock /\ r.lensBlock >= block}

\* A book with an open hash, or one the cursor does not know, is read whole.
Whole(b) == cursor.open[b] /= {} \/ cursor.blocks[b] = NoBlock

Highest(blocks) == CHOOSE n \in blocks : \A m \in blocks : m <= n

\* Mutation: a broadcast opens nothing.
OpenAfter_Forgotten(b, rows) == {}
\* The hashes of b whose final receipt has still not been seen.
OpenAfter(b, rows) ==
  LET finals == {r.hash : r \in {x \in rows : Final(x)}}
      others == {r.hash : r \in {x \in rows : ~Final(x)}}
  IN  (cursor.open[b] \ finals) \cup (others \ (finals \cup Emitted))

\* _take: fold the rows of one answer into the cursor and the findings.
Take(b, rows) ==
  /\ found' = found \cup
       {[book |-> b, hash |-> r.hash, status |-> r.status] :
          r \in {x \in rows : Final(x) /\ x.hash \notin Emitted}}
  /\ cursor' = [blocks |-> [cursor.blocks EXCEPT
                              ![b] = Highest({@} \cup {r.lensBlock : r \in rows})],
                open |-> [cursor.open EXCEPT ![b] = OpenAfter(b, rows)]]

Fails == failures < MaxFailures /\ failures' = failures + 1

BeginRead ==
  /\ pc = "idle" /\ pc' = "reading"
  /\ cursor' = saved
  /\ todo' = Books
  /\ found' = {}
  /\ due' = {r.hash : r \in {x \in AllRows : Settles(x)}}
  /\ silent' = FALSE
  /\ UNCHANGED <<keeperVars, told, saved, failures>>

\* The `books` request is not answered: nothing is read.
NoBooks ==
  /\ pc = "reading" /\ todo = Books /\ found = {}
  /\ todo' = {} /\ silent' = TRUE
  /\ Fails
  /\ UNCHANGED <<keeperVars, told, saved, cursor, pc, found, due>>

\* Mutation: the window is read once, whatever it opened.
ReadBook_Once(b) ==
  /\ pc = "reading" /\ b \in todo
  /\ Take(b, IF Whole(b) THEN Rows(ledger[b]) ELSE Since(b, cursor.blocks[b]))
  /\ todo' = todo \ {b}
  /\ UNCHANGED <<keeperVars, told, saved, pc, due, silent, failures>>
\* A book read from the cursor that turns out to hold an open hash is to be
\* read again, whole.
ReadBook(b) ==
  /\ pc = "reading" /\ b \in todo
  /\ Take(b, IF Whole(b) THEN Rows(ledger[b]) ELSE Since(b, cursor.blocks[b]))
  /\ IF ~Whole(b) /\ cursor'.open[b] /= {}
     THEN pc' = "again" /\ todo' = {b} \cup todo
     ELSE todo' = todo \ {b} /\ UNCHANGED pc
  /\ UNCHANGED <<keeperVars, told, saved, due, silent, failures>>

ReadAgain(b) ==
  /\ pc = "again" /\ pc' = "reading"
  /\ b \in todo /\ cursor.open[b] /= {}
  /\ Take(b, Rows(ledger[b]))
  /\ todo' = todo \ {b}
  /\ UNCHANGED <<keeperVars, told, saved, due, silent, failures>>

\* A ledger request is not answered: the book contributes nothing more.
Silent(b) ==
  /\ pc \in {"reading", "again"} /\ pc' = "reading"
  /\ b \in todo /\ todo' = todo \ {b}
  /\ silent' = TRUE
  /\ Fails
  /\ UNCHANGED <<keeperVars, told, saved, cursor, found, due>>

ReadDone ==
  /\ pc = "reading" /\ todo = {} /\ pc' = "telling"
  /\ UNCHANGED <<keeperVars, told, saved, cursor, todo, found, due, silent, failures>>

\* One keeper_tx row; their order is the ledgers', which nothing depends on.
Tell ==
  /\ pc = "telling"
  /\ \E e \in found : told' = Append(told, e) /\ found' = found \ {e}
  /\ UNCHANGED <<keeperVars, saved, cursor, pc, todo, due, silent, failures>>

\* Mutation: the state is saved as soon as the books are read.
Save_BeforeTold ==
  /\ pc = "telling"
  /\ saved' = cursor
  /\ pc' = IF found = {} THEN "idle" ELSE pc
  /\ UNCHANGED <<keeperVars, told, cursor, todo, found, due, silent, failures>>
\* The session or the run ends, and the cursor is saved with the state.
Save ==
  /\ pc = "telling" /\ found = {}
  /\ saved' = cursor
  /\ pc' = "idle"
  /\ due' = {} /\ silent' = FALSE
  /\ UNCHANGED <<keeperVars, told, cursor, todo, found, failures>>

\* The process dies: what is not in the stream or in the saved state is gone.
Crash ==
  /\ pc /= "idle" /\ pc' = "idle"
  /\ cursor' = saved /\ found' = {} /\ todo' = {}
  /\ due' = {} /\ silent' = FALSE
  /\ Fails
  /\ UNCHANGED <<keeperVars, told, saved>>

\* state.json is lost or unreadable: a cache, and the cursor starts over.
LoseCache ==
  /\ pc = "idle" /\ saved' = NoCursor /\ cursor' = NoCursor
  /\ Fails
  /\ UNCHANGED <<keeperVars, told, pc, todo, found, due, silent>>

KeeperStep ==
  \/ \E b \in Books, h \in Hashes : Broadcast(b, h) \/ Unconfirmed(b, h) \/ Confirm(b, h)
  \/ LensAdvances
Answered ==
  \/ BeginRead \/ ReadDone \/ Tell \/ Save
  \/ \E b \in Books : ReadBook(b) \/ ReadAgain(b)
Failure == NoBooks \/ Crash \/ LoseCache \/ \E b \in Books : Silent(b)

Next == KeeperStep \/ Answered \/ Failure
Spec == Init /\ [][Next]_vars

\* Sessions go on being started and the keeper answers all but MaxFailures
\* requests: without the next read nothing could be told.
FairSpec == Spec /\ WF_vars(Answered)

-------------------------------------------------------------------------------
(* The inductive invariant.                                                *)

\* What the keeper's ledgers are: a hash is one book's and has one verdict, a
\* broadcast has its block, and no block is ahead of the lens.
LedgerInv ==
  /\ \A b, c \in Books : \A r \in Rows(ledger[b]), s \in Rows(ledger[c]) :
       r.hash = s.hash => b = c
  /\ \A b \in Books : \A r, s \in Rows(ledger[b]) :
       r.hash = s.hash /\ Settles(r) /\ Settles(s) => r.status = s.status
  /\ \A b \in Books : \A r \in Rows(ledger[b]) :
       /\ r.stage = "receipt" => r.status \in Statuses
       /\ r.lensBlock <= lens

\* An event says what a row that settles its transaction says.
Sourced(e) ==
  \E r \in Rows(ledger[e.book]) :
    r.hash = e.hash /\ Settles(r) /\ r.status = e.status

\* What was found is not told yet; no cursor is ahead of the lens; and a book
\* that was read, every request of it answered, has told or found what was
\* final in it when the read began.
ReadInv ==
  /\ \A e \in found : Sourced(e) /\ e.hash \notin Told
  /\ pc = "idle" => found = {}
  /\ \A b \in Books : saved.blocks[b] <= lens /\ cursor.blocks[b] <= lens
  /\ pc = "telling" => todo = {}
  /\ pc = "again" => \E b \in todo : cursor.open[b] /= {}
  /\ \A h \in due : \E r \in AllRows : r.hash = h /\ Settles(r)
  /\ pc /= "idle" /\ ~silent =>
       \A b \in Books \ todo : \A r \in Rows(ledger[b]) :
         r.hash \in due => r.hash \in Emitted

-------------------------------------------------------------------------------
(* Properties.                                                             *)

\* A transaction is told at most once, however often its row is read again
\* after a crash, a lost cache or an inclusive `since` ("never a duplicate
\* event": keeper.py, LedgerCursor).
ToldOnce == \A i, j \in DOMAIN told : told[i].hash = told[j].hash => i = j

\* What is told of a transaction is what its final receipt says, and not the
\* receipt read that did not answer (keeper.py, read_keeper_receipts).
ToldIsFinal ==
  \A i \in DOMAIN told : \E r \in Rows(ledger[told[i].book]) :
    r.hash = told[i].hash /\ Settles(r) /\ r.status = told[i].status

\* The cursor c of book b will lead a later read to the final receipt of h,
\* that receipt being written or not.
Leads(c, b, h) ==
  \/ c.open[b] /= {} \/ c.blocks[b] = NoBlock
  \/ \E r \in Rows(ledger[b]) :
       r.hash = h /\ r.lensBlock /= NoBlock /\ r.lensBlock >= c.blocks[b]

\* No transaction falls behind the cursor before it is told: the saved cursor
\* leads to every transaction of the stream not told yet, and so does the
\* cursor of a read to those it has not found (keeper.py, _take).
NothingFallsBehind ==
  \A b \in Books, h \in Hashes :
    (\E r \in Rows(ledger[b]) : r.hash = h) =>
      /\ h \in Told \/ Leads(saved, b, h)
      /\ h \in Emitted \/ Leads(cursor, b, h)

\* A read in which the keeper answered is complete: every receipt that was
\* final when it began has been told when it ends, also one written without a
\* lens block behind a broadcast first seen by this read ("so this read point
\* is complete": keeper.py, read_keeper_receipts).
ReadIsComplete == pc = "telling" /\ ~silent => due \subseteq Emitted

\* Types, the keeper's ledgers, and what a read knows at each of its steps, as
\* the properties above rest on (keeper.py, read_keeper_receipts).
KeeperInv ==
  /\ TypeOK /\ LedgerInv /\ ReadInv
  /\ ToldOnce /\ ToldIsFinal /\ NothingFallsBehind

\* Every final receipt is told in the end.
EveryReceiptTold ==
  \A h \in Hashes :
    (\E r \in AllRows : r.hash = h /\ Settles(r)) ~> h \in Told

===============================================================================
