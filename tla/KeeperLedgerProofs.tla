--------------------------- MODULE KeeperLedgerProofs ---------------------------
(***************************************************************************)
(* For any books, hashes, lens blocks and failures: each transaction of    *)
(* the keeper is told at most once, with its last word, none falls behind  *)
(* a cursor before it is told, and a read that was answered is complete.   *)
(***************************************************************************)
EXTENDS KeeperLedger, TLAPS, FiniteSetTheorems, NumberFacts

USE KeeperAssumption

-------------------------------------------------------------------------------
(* Facts about the operators.                                              *)

\* A nonempty set of numbers up to n has a highest element.
LEMMA HighestIsMax ==
  ASSUME NEW n \in Nat, NEW S \in SUBSET (0..n), S /= {}
  PROVE  Highest(S) \in S
<1>1. IsFiniteSet(0..n)
  BY FS_Interval
<1>2. IsFiniteSet(S)
  BY <1>1, FS_Subset
<1>3. S \subseteq Nat
  OBVIOUS
<1>4. \E k \in S : \A m \in S : m <= k
  BY <1>2, <1>3, HasHighest
<1> QED BY <1>4 DEF Highest

LEMMA RowsOfAppend ==
  ASSUME NEW s \in Seq(Row), NEW r \in Row
  PROVE  Rows(Append(s, r)) = Rows(s) \cup {r}
<1>1. Append(s, r) \in Seq(Row) /\ Len(Append(s, r)) = Len(s) + 1
  OBVIOUS
<1>2. \A i \in 1..Len(s) : Append(s, r)[i] = s[i]
  OBVIOUS
<1>3. Append(s, r)[Len(s) + 1] = r
  OBVIOUS
<1>4. DOMAIN s = 1..Len(s) /\ DOMAIN Append(s, r) = 1..(Len(s) + 1) /\ Len(s) \in Nat
  BY <1>1
<1> QED BY <1>2, <1>3, <1>4 DEF Rows

LEMMA RowsAreRows ==
  ASSUME TypeOK, NEW b \in Books
  PROVE  Rows(ledger[b]) \subseteq Row
BY DEF TypeOK, Rows

LEMMA ToldAreEvents ==
  ASSUME TypeOK
  PROVE  \A i \in DOMAIN told : told[i] \in Event
<1>1. told \in Seq(Event)
  BY DEF TypeOK
<1> HIDE DEF Event
<1> QED BY <1>1

LEMMA InEmitted ==
  ASSUME NEW h
  PROVE  h \in Emitted <=> h \in Told \/ \E e \in found : e.hash = h
BY DEF Emitted

\* What is a final receipt to the reader is the keeper's last word.
LEMMA FinalSettles ==
  ASSUME LedgerInv, NEW b \in Books, NEW r \in Rows(ledger[b])
  PROVE  Final(r) <=> Settles(r)
BY DEF LedgerInv, Final, Settles, Statuses

LEMMA KeeperInit == Init => KeeperInv
<1> SUFFICES ASSUME Init PROVE KeeperInv
  OBVIOUS
<1> USE DEF Init
<1>1. \A b \in Books : Rows(ledger[b]) = {}
  BY DEF Rows
<1>2. NoCursor \in Cursor
  BY DEF Cursor, NoCursor, NoBlock
<1>7. TypeOK
  <2>1. <<>> \in Seq(Row) /\ <<>> \in Seq(Event)
    OBVIOUS
  <2>2. 1 \in 1..MaxLens /\ 0 \in 0..MaxFailures
    OBVIOUS
  <2>3. ledger \in [Books -> Seq(Row)]
    BY <2>1
  <2> QED BY <1>2, <2>1, <2>2, <2>3 DEF TypeOK
<1>3. LedgerInv
  BY <1>1 DEF LedgerInv
<1>4. ReadInv
  BY <1>7 DEF ReadInv, NoCursor, NoBlock, TypeOK, Told
<1>5. ToldOnce /\ ToldIsFinal
  BY DEF ToldOnce, ToldIsFinal
<1>6. NothingFallsBehind
  BY <1>1 DEF NothingFallsBehind
<1> QED BY <1>7, <1>3, <1>4, <1>5, <1>6 DEF KeeperInv

-------------------------------------------------------------------------------
(* The keeper's steps.                                                     *)

\* A row keeps the invariant if its hash is of no other book and has no verdict
\* yet, and if the row of a new hash has the lens block of its time.
LEMMA WriteStep ==
  ASSUME KeeperInv, NEW b \in Books, NEW row \in Row, Write(b, row),
         \A c \in Books : \A r \in Rows(ledger[c]) : r.hash = row.hash => c = b,
         \A r \in Rows(ledger[b]) : r.hash = row.hash => ~Settles(r),
         row.stage = "receipt" => row.status \in Statuses,
         row.lensBlock <= lens,
         (\A r \in Rows(ledger[b]) : r.hash /= row.hash) => row.lensBlock = lens
  PROVE  KeeperInv'
<1> USE DEF KeeperInv, Write
<1>1. TypeOK'
  <2>1. Append(ledger[b], row) \in Seq(Row)
    BY DEF TypeOK
  <2> QED BY <2>1 DEF TypeOK
<1>2. /\ Rows(ledger'[b]) = Rows(ledger[b]) \cup {row}
      /\ \A c \in Books \ {b} : Rows(ledger'[c]) = Rows(ledger[c])
  BY RowsOfAppend DEF TypeOK
<1>3. \A c \in Books : Rows(ledger[c]) \subseteq Rows(ledger'[c])
  BY <1>2
<1>4. Told' = Told /\ Emitted' = Emitted
  BY DEF Told, Emitted
<1>5. LedgerInv'
  BY <1>2 DEF LedgerInv
<1>6. \A e \in Event : Sourced(e) => Sourced(e)'
  BY <1>3 DEF Sourced, Event
<1>7. ReadInv'
  <2>1. \A e \in found' : Sourced(e)' /\ e.hash \notin Told'
    BY <1>4, <1>6 DEF ReadInv, TypeOK
  <2>2. \A h \in due' : \E r \in AllRows' : r.hash = h /\ Settles(r)
    <3> SUFFICES ASSUME NEW h \in due
                 PROVE  \E r \in AllRows' : r.hash = h /\ Settles(r)
      OBVIOUS
    <3>1. PICK r \in AllRows : r.hash = h /\ Settles(r)
      BY DEF ReadInv
    <3>2. r \in AllRows'
      BY <1>3 DEF AllRows
    <3> QED BY <3>1, <3>2
  <2>3. row.hash \in due => \E r \in Rows(ledger[b]) : r.hash = row.hash /\ Settles(r)
    BY DEF ReadInv, AllRows
  <2>4. row.hash \notin due
    BY <2>3
  <2>5. (pc /= "idle" /\ ~silent)' =>
          \A c \in Books \ todo' : \A r \in Rows(ledger'[c]) :
            r.hash \in due' => r.hash \in Emitted'
    BY <1>2, <1>4, <2>4 DEF ReadInv
  <2> QED BY <2>1, <2>2, <2>5 DEF ReadInv
<1>8. ToldOnce' /\ ToldIsFinal'
  <2>1. \A i \in DOMAIN told : told[i].book \in Books
    BY ToldAreEvents DEF Event
  <2> QED BY <1>3, <2>1 DEF ToldOnce, ToldIsFinal
<1>9. NothingFallsBehind'
  <2> SUFFICES ASSUME NEW c \in Books, NEW h \in Hashes,
                      NEW r \in Rows(ledger'[c]), r.hash = h
               PROVE  /\ h \in Told \/ Leads(saved, c, h)'
                      /\ h \in Emitted \/ Leads(cursor, c, h)'
    BY <1>4 DEF NothingFallsBehind
  <2>1. CASE \E s \in Rows(ledger[c]) : s.hash = h
    <3>1. /\ h \in Told \/ Leads(saved, c, h)
          /\ h \in Emitted \/ Leads(cursor, c, h)
      BY <2>1 DEF NothingFallsBehind
    <3>2. /\ Leads(saved, c, h) => Leads(saved, c, h)'
          /\ Leads(cursor, c, h) => Leads(cursor, c, h)'
      BY <1>3 DEF Leads
    <3> QED BY <3>1, <3>2
  <2>2. CASE \A s \in Rows(ledger[c]) : s.hash /= h
    <3>1. c = b /\ r = row /\ row.lensBlock = lens /\ lens /= NoBlock
      BY <2>2, <1>2 DEF TypeOK, NoBlock
    <3>2. saved.blocks[c] <= lens /\ cursor.blocks[c] <= lens
      BY DEF ReadInv
    <3> QED BY <3>1, <3>2, <1>2 DEF Leads
  <2> QED BY <2>1, <2>2
<1> QED BY <1>1, <1>5, <1>7, <1>8, <1>9

LEMMA KeeperSteps == KeeperInv /\ KeeperStep => KeeperInv'
<1> SUFFICES ASSUME KeeperInv, KeeperStep PROVE KeeperInv'
  OBVIOUS
<1> USE DEF KeeperInv
<1>1. ASSUME NEW b \in Books, NEW h \in Hashes, Broadcast(b, h) PROVE KeeperInv'
  <2> DEFINE row == [hash |-> h, stage |-> "broadcast", status |-> "none",
                     lensBlock |-> lens]
  <2>1. row \in Row
    BY DEF Row, TypeOK
  <2>2. \A c \in Books : \A r \in Rows(ledger[c]) : r.hash /= row.hash
    BY <1>1 DEF Broadcast, AllRows
  <2>3. row.stage /= "receipt" /\ row.lensBlock = lens /\ lens <= lens
    BY DEF TypeOK
  <2>4. Write(b, row)
    BY <1>1 DEF Broadcast
  <2> QED
    <3> HIDE DEF row, KeeperInv
    <3> QED BY <2>1, <2>2, <2>3, <2>4, WriteStep
<1>2. ASSUME NEW b \in Books, NEW h \in Hashes, Pending(b, h),
             NEW row \in Row, row.hash = h, row.stage = "receipt",
             row.status \in Statuses, row.lensBlock <= lens, Write(b, row)
      PROVE  KeeperInv'
  <2>1. PICK s \in Rows(ledger[b]) : s.hash = h
    BY <1>2 DEF Pending
  <2>2. \A c \in Books : \A r \in Rows(ledger[c]) : r.hash = row.hash => c = b
    BY <1>2, <2>1 DEF LedgerInv
  <2>3. \A r \in Rows(ledger[b]) : r.hash = row.hash => ~Settles(r)
    BY <1>2 DEF Pending
  <2> HIDE DEF KeeperInv
  <2> QED BY <1>2, <2>1, <2>2, <2>3, WriteStep
<1>3. ASSUME NEW b \in Books, NEW h \in Hashes, Unconfirmed(b, h) PROVE KeeperInv'
  <2> DEFINE row == [hash |-> h, stage |-> "receipt", status |-> "unconfirmed",
                     lensBlock |-> lens]
  <2>1. row \in Row /\ row.status \in Statuses /\ row.lensBlock <= lens
    BY DEF Row, TypeOK, Statuses
  <2> QED BY <1>2, <1>3, <2>1 DEF Unconfirmed
<1>4. ASSUME NEW b \in Books, NEW h \in Hashes, Confirm(b, h) PROVE KeeperInv'
  <2>1. PICK st \in Verdicts, l \in {lens, NoBlock} :
          Write(b, [hash |-> h, stage |-> "receipt", status |-> st, lensBlock |-> l])
    BY <1>4 DEF Confirm
  <2> DEFINE row == [hash |-> h, stage |-> "receipt", status |-> st, lensBlock |-> l]
  <2>2. row \in Row /\ row.status \in Statuses /\ row.lensBlock <= lens
    BY DEF Row, TypeOK, Statuses, NoBlock
  <2> QED BY <1>2, <1>4, <2>1, <2>2 DEF Confirm
<1>5. CASE LensAdvances
  <2> USE <1>5 DEF LensAdvances
  <2>1. TypeOK'
    BY DEF TypeOK
  <2>2. lens' > lens /\ Told' = Told /\ Emitted' = Emitted /\ AllRows' = AllRows
    BY DEF TypeOK, Told, Emitted, AllRows
  <2>3. LedgerInv'
    <3>1. \A b \in Books : \A r \in Rows(ledger[b]) : r.lensBlock \in Nat
      BY RowsAreRows DEF Row
    <3> QED BY <2>2, <3>1 DEF LedgerInv, TypeOK
  <2>4. ReadInv'
    <3>1. \A b \in Books : saved.blocks[b] <= lens' /\ cursor.blocks[b] <= lens'
      BY <2>2 DEF ReadInv, TypeOK, Cursor
    <3> QED BY <2>2, <3>1 DEF ReadInv, Sourced
  <2>5. ToldOnce' /\ ToldIsFinal' /\ NothingFallsBehind'
    BY <2>2 DEF ToldOnce, ToldIsFinal, NothingFallsBehind, Leads
  <2> QED BY <2>1, <2>3, <2>4, <2>5
<1> QED BY <1>1, <1>3, <1>4, <1>5 DEF KeeperStep

-------------------------------------------------------------------------------
(* The reads.                                                              *)

\* One answer, of rows that reach every transaction of the book not settled
\* yet: what is found is new and sourced, the cursor leads to the rest, and
\* nothing is left if nothing is open.
LEMMA TakeStep ==
  ASSUME KeeperInv, pc \in {"reading", "again"},
         UNCHANGED <<keeperVars, told, saved, due>>,
         NEW b \in Books, NEW rows \in SUBSET Rows(ledger[b]), Take(b, rows),
         \A r \in Rows(ledger[b]) :
           r.hash \in Emitted \/ \E s \in rows : s.hash = r.hash
  PROVE  /\ found' \in SUBSET Event /\ cursor' \in Cursor
         /\ \A e \in found' : Sourced(e)' /\ e.hash \notin Told'
         /\ \A c \in Books : cursor'.blocks[c] <= lens
         /\ \A c \in Books \ {b} : cursor'.open[c] = cursor.open[c]
         /\ NothingFallsBehind'
         /\ Emitted \subseteq Emitted'
         /\ \A r \in rows : Settles(r) => r.hash \in Emitted'
         /\ cursor'.open[b] = {} =>
              \A r \in Rows(ledger[b]) : r.hash \in Emitted'
<1> USE DEF KeeperInv, keeperVars
<1>0. rows \subseteq Row /\ \A r \in rows : Final(r) <=> Settles(r)
  BY RowsAreRows, FinalSettles
<1>1. found' \in SUBSET Event
  <2>1. \A r \in rows : Final(r) => r.status \in Statuses
    BY <1>0 DEF Settles, Statuses
  <2> QED BY <1>0, <2>1 DEF Take, Event, Row, TypeOK
<1>2. Told' = Told
  BY DEF Told
<1>3. \A h : h \in Emitted' <=> h \in Told \/ \E e \in found' : e.hash = h
  BY <1>2 DEF Emitted
<1>4. Emitted \subseteq Emitted'
  BY <1>3, InEmitted DEF Take
<1>5. \A r \in rows : Final(r) => r.hash \in Emitted'
  <2> SUFFICES ASSUME NEW r \in rows, Final(r), r.hash \notin Emitted
               PROVE  \E e \in found' : e.hash = r.hash
    BY <1>3, <1>4
  <2>1. [book |-> b, hash |-> r.hash, status |-> r.status] \in found'
    BY DEF Take
  <2> QED BY <2>1
<1>6. \A e \in found' : Sourced(e)' /\ e.hash \notin Told'
  <2> SUFFICES ASSUME NEW e \in found', e \notin found
               PROVE  Sourced(e)' /\ e.hash \notin Told'
    BY <1>2 DEF ReadInv, Sourced
  <2>1. PICK r \in rows : /\ Final(r) /\ r.hash \notin Emitted
                          /\ e = [book |-> b, hash |-> r.hash, status |-> r.status]
    BY DEF Take
  <2>2. Sourced(e)
    BY <2>1, <1>0 DEF Sourced
  <2> QED BY <1>2, <2>1, <2>2, InEmitted DEF Sourced
<1>7. cursor'.blocks[b] \in 0..lens
  <2> DEFINE S == {cursor.blocks[b]} \cup {r.lensBlock : r \in rows}
  <2>1. S \in SUBSET (0..lens)
    BY <1>0 DEF ReadInv, LedgerInv, TypeOK, Cursor, Row
  <2>4. S /= {}
    OBVIOUS
  <2>5. lens \in Nat
    BY DEF TypeOK
  <2>2. Highest(S) \in S
    <3> HIDE DEF S
    <3> QED BY <2>1, <2>4, <2>5, HighestIsMax
  <2>3. cursor'.blocks[b] = Highest(S)
    BY DEF Take, TypeOK, Cursor
  <2> QED BY <2>1, <2>2, <2>3
<1>8. /\ cursor'.open[b] = OpenAfter(b, rows)
      /\ OpenAfter(b, rows) \in SUBSET Hashes
  BY <1>0 DEF Take, TypeOK, Cursor, OpenAfter, Row
<1>9. \A c \in Books \ {b} : /\ cursor'.open[c] = cursor.open[c]
                             /\ cursor'.blocks[c] = cursor.blocks[c]
  BY DEF Take, TypeOK, Cursor
<1>10. cursor' \in Cursor
  <2>1. cursor'.blocks[b] \in 0..MaxLens
    BY <1>7 DEF TypeOK
  <2> QED BY <1>8, <2>1 DEF Take, TypeOK, Cursor
<1>11. \A c \in Books : cursor'.blocks[c] <= lens
  <2>1. \A c \in Books : cursor.blocks[c] <= lens
    BY DEF ReadInv
  <2>2. cursor'.blocks[b] <= lens
    BY <1>7, <1>10
  <2> QED BY <1>9, <2>1, <2>2
\* A transaction not settled is open after the answer that named it.
<1>12. \A r \in Rows(ledger[b]) : r.hash \in Emitted' \/ r.hash \in cursor'.open[b]
  <2> SUFFICES ASSUME NEW r \in Rows(ledger[b]), r.hash \notin Emitted'
               PROVE  r.hash \in OpenAfter(b, rows)
    BY <1>8
  <2>1. PICK s \in rows : s.hash = r.hash
    BY <1>4
  <2>2. \A x \in rows : x.hash = r.hash => ~Final(x)
    BY <1>5
  <2> QED BY <1>4, <2>1, <2>2 DEF OpenAfter
<1>13. NothingFallsBehind'
  <2> SUFFICES ASSUME NEW c \in Books, NEW h \in Hashes,
                      NEW r \in Rows(ledger[c]), r.hash = h
               PROVE  /\ h \in Told \/ Leads(saved, c, h)
                      /\ h \in Emitted' \/ Leads(cursor', c, h)
    BY <1>2 DEF NothingFallsBehind, Leads
  <2>0. /\ h \in Told \/ Leads(saved, c, h)
        /\ h \in Emitted \/ Leads(cursor, c, h)
    BY DEF NothingFallsBehind
  <2>1. CASE c = b
    BY <2>0, <2>1, <1>12 DEF Leads
  <2>2. CASE c /= b
    BY <2>0, <2>2, <1>4, <1>9 DEF Leads
  <2> QED BY <2>1, <2>2
<1>14. cursor'.open[b] = {} => \A r \in Rows(ledger[b]) : r.hash \in Emitted'
  BY <1>12
<1> HIDE DEF KeeperInv
<1> QED BY <1>0, <1>1, <1>4, <1>5, <1>6, <1>9, <1>10, <1>11, <1>13, <1>14

\* The rows of any answer reach what is not settled yet.
LEMMA Reaches ==
  ASSUME KeeperInv, NEW b \in Books,
         NEW rows,
         rows = IF Whole(b) THEN Rows(ledger[b]) ELSE Since(b, cursor.blocks[b])
  PROVE  /\ rows \in SUBSET Rows(ledger[b])
         /\ \A r \in Rows(ledger[b]) :
              r.hash \in Emitted \/ \E s \in rows : s.hash = r.hash
<1>1. rows \in SUBSET Rows(ledger[b])
  BY DEF Since
<1>2. ASSUME NEW r \in Rows(ledger[b]), r.hash \notin Emitted
      PROVE  \E s \in rows : s.hash = r.hash
  <2>1. r.hash \in Hashes
    BY RowsAreRows DEF Row, KeeperInv
  <2>2. Leads(cursor, b, r.hash)
    BY <1>2, <2>1 DEF KeeperInv, NothingFallsBehind
  <2> QED BY <2>2 DEF Leads, Whole, Since
<1> QED BY <1>1, <1>2

\* A book whose every row was seen has settled what was due of it.
LEMMA DueIsSettled ==
  ASSUME KeeperInv, NEW b \in Books, NEW r \in Rows(ledger[b]), r.hash \in due
  PROVE  \E s \in Rows(ledger[b]) : s.hash = r.hash /\ Settles(s)
<1>1. PICK c \in Books : \E s \in Rows(ledger[c]) : s.hash = r.hash /\ Settles(s)
  BY DEF KeeperInv, ReadInv, AllRows
<1>2. c = b
  BY <1>1 DEF KeeperInv, LedgerInv
<1> QED BY <1>1, <1>2

LEMMA ReadStep ==
  ASSUME KeeperInv, NEW b \in Books, ReadBook(b) \/ ReadAgain(b)
  PROVE  KeeperInv'
<1>1. PICK rows \in SUBSET Rows(ledger[b]) :
        /\ Take(b, rows)
        /\ \A r \in Rows(ledger[b]) :
             r.hash \in Emitted \/ \E s \in rows : s.hash = r.hash
        /\ ReadAgain(b) \/ Whole(b) => rows = Rows(ledger[b])
  BY Reaches DEF ReadBook, ReadAgain
<1>2. /\ b \in todo /\ pc \in {"reading", "again"}
      /\ UNCHANGED <<keeperVars, told, saved, due, silent, failures>>
      /\ \/ /\ pc' = "reading" /\ todo' = todo \ {b}
            /\ (rows = Rows(ledger[b]) \/ cursor'.open[b] = {})
         \/ pc' = "again" /\ todo' = {b} \cup todo /\ cursor'.open[b] /= {}
  BY <1>1 DEF ReadBook, ReadAgain
<1>3. /\ found' \in SUBSET Event /\ cursor' \in Cursor
      /\ \A e \in found' : Sourced(e)' /\ e.hash \notin Told'
      /\ \A c \in Books : cursor'.blocks[c] <= lens
      /\ NothingFallsBehind'
      /\ Emitted \subseteq Emitted'
      /\ \A r \in rows : Settles(r) => r.hash \in Emitted'
      /\ cursor'.open[b] = {} => \A r \in Rows(ledger[b]) : r.hash \in Emitted'
  BY <1>1, <1>2, TakeStep
<1>7. /\ todo \in SUBSET Books
      /\ UNCHANGED <<ledger, lens, told, saved, due, silent, failures>>
  BY <1>2 DEF KeeperInv, TypeOK, keeperVars
<1>8. /\ pc' \in {"reading", "again"} /\ todo' \in SUBSET Books
      /\ pc' = "again" => \E c \in todo' : cursor'.open[c] /= {}
  <2> HIDE DEF Take
  <2>1. CASE pc' = "reading"
    BY <1>2, <1>7, <2>1
  <2>2. CASE pc' = "again"
    BY <1>2, <1>7, <2>2
  <2> QED BY <1>2, <2>1, <2>2
<1> USE DEF KeeperInv
<1>4. TypeOK'
  BY <1>3, <1>7, <1>8 DEF TypeOK
<1>5. LedgerInv' /\ ToldOnce' /\ ToldIsFinal'
  BY <1>7 DEF LedgerInv, ToldOnce, ToldIsFinal
<1>6. ReadInv'
  <2>1. (pc /= "idle" /\ ~silent)' =>
          \A c \in Books \ todo' : \A r \in Rows(ledger'[c]) :
            r.hash \in due' => r.hash \in Emitted'
    <3> SUFFICES ASSUME ~silent, NEW c \in Books \ todo',
                        NEW r \in Rows(ledger[c]), r.hash \in due
                 PROVE  r.hash \in Emitted'
      BY <1>7
    <3>1. CASE c = b
      <4>1. PICK s \in Rows(ledger[b]) : s.hash = r.hash /\ Settles(s)
        BY <3>1, DueIsSettled
      <4>2. CASE rows = Rows(ledger[b])
        BY <4>1, <4>2, <1>3
      <4>3. CASE cursor'.open[b] = {}
        BY <3>1, <4>3, <1>3
      <4>4. c \notin todo'
        OBVIOUS
      <4>5. rows = Rows(ledger[b]) \/ cursor'.open[b] = {}
        BY <3>1, <4>4, <1>2
      <4> QED BY <4>2, <4>3, <4>5
    <3>2. CASE c /= b
      <4>1. c \in Books \ todo /\ pc /= "idle"
        BY <3>2, <1>2
      <4> QED BY <4>1, <1>3 DEF ReadInv
    <3> QED BY <3>1, <3>2
  <2>2. \A h \in due' : \E r \in AllRows' : r.hash = h /\ Settles(r)
    BY <1>7 DEF ReadInv, AllRows
  <2>3. \A c \in Books : saved'.blocks[c] <= lens' /\ cursor'.blocks[c] <= lens'
    BY <1>3, <1>7 DEF ReadInv
  <2> QED BY <1>3, <1>8, <2>1, <2>2, <2>3 DEF ReadInv
<1> QED BY <1>3, <1>4, <1>5, <1>6

-------------------------------------------------------------------------------
(* The other steps of the scaffold.                                        *)

LEMMA OtherSteps ==
  ASSUME KeeperInv,
         \/ BeginRead \/ NoBooks \/ (\E b \in Books : Silent(b)) \/ ReadDone
         \/ Save \/ Crash \/ LoseCache
  PROVE  KeeperInv'
<1> USE DEF KeeperInv, keeperVars
<1>1. Told' = Told /\ UNCHANGED <<ledger, lens, told>>
  BY DEF Told, BeginRead, NoBooks, Silent, ReadDone, Save, Crash, LoseCache
<1>2. LedgerInv' /\ ToldOnce' /\ ToldIsFinal'
  BY <1>1 DEF LedgerInv, ToldOnce, ToldIsFinal
<1>3. CASE BeginRead
  <2> USE <1>3 DEF BeginRead
  <2>1. found = {} /\ found' = {} /\ Emitted' = Emitted /\ Emitted = Told
    BY <1>1 DEF ReadInv, Emitted
  <2>2. due' \in SUBSET Hashes
    BY RowsAreRows DEF AllRows, Row
  <2>3. TypeOK'
    BY <2>1, <2>2 DEF TypeOK
  <2>4. NothingFallsBehind'
    BY <1>1, <2>1 DEF NothingFallsBehind, Leads
  <2>5. \A h \in due' : \E r \in AllRows' : r.hash = h /\ Settles(r)
    BY DEF AllRows
  <2>6. ReadInv'
    BY <1>1, <2>1, <2>5 DEF ReadInv
  <2> QED BY <1>2, <2>3, <2>4, <2>6
<1>4. CASE NoBooks \/ (\E b \in Books : Silent(b)) \/ ReadDone
  <2>0. UNCHANGED <<ledger, lens, told, saved, cursor, found, due>> /\ pc /= "idle"
    BY <1>4 DEF NoBooks, Silent, ReadDone
  <2>4. failures' \in 0..MaxFailures
    BY <1>4 DEF TypeOK, NoBooks, Silent, ReadDone, Fails
  <2>5. /\ todo' \in SUBSET Books /\ silent' \in BOOLEAN
        /\ pc' \in {"idle", "reading", "again", "telling"}
    BY <1>4 DEF TypeOK, NoBooks, Silent, ReadDone
  <2>1. TypeOK'
    BY <2>0, <2>4, <2>5 DEF TypeOK
  <2>2. Emitted' = Emitted /\ NothingFallsBehind'
    BY <2>0 DEF Emitted, NothingFallsBehind, Leads, Told
  <2>3. ReadInv'
    BY <1>1, <1>4, <2>0, <2>2 DEF ReadInv, NoBooks, Silent, ReadDone, AllRows, Sourced
  <2> QED BY <1>2, <2>1, <2>2, <2>3
<1>5. CASE Save \/ Crash
  <2>1. found' = {} /\ due' = {} /\ pc' = "idle" /\ Emitted' = Told
    BY <1>1, <1>5 DEF Save, Crash, Emitted
  <2>6. failures' \in 0..MaxFailures
    BY <1>5 DEF TypeOK, Save, Crash, Fails
  <2>7. /\ todo' \in SUBSET Books /\ silent' \in BOOLEAN
        /\ saved' \in Cursor /\ cursor' \in Cursor
    BY <1>5 DEF TypeOK, Save, Crash
  <2>2. TypeOK'
    BY <1>1, <2>1, <2>6, <2>7 DEF TypeOK
  <2>3. saved' = cursor' /\ saved' \in {saved, cursor} /\ (Save => Emitted = Told)
    BY <1>5 DEF Save, Crash, Emitted
  <2>4. NothingFallsBehind'
    BY <1>1, <1>5, <2>1, <2>3 DEF NothingFallsBehind, Leads, Save, Crash
  <2>5. ReadInv'
    BY <1>1, <2>1, <2>3 DEF ReadInv
  <2> QED BY <1>2, <2>2, <2>4, <2>5
<1>6. CASE LoseCache
  <2>1. NoCursor \in Cursor
    BY DEF Cursor, NoCursor, NoBlock
  <2>2. TypeOK'
    BY <1>6, <2>1 DEF TypeOK, LoseCache, Fails
  <2>3. NothingFallsBehind'
    BY <1>6 DEF NothingFallsBehind, Leads, LoseCache, NoCursor
  <2>4. \A b \in Books : saved'.blocks[b] <= lens' /\ cursor'.blocks[b] <= lens'
    BY <1>1, <1>6 DEF LoseCache, NoCursor, NoBlock, TypeOK
  <2>5. ReadInv'
    BY <1>1, <1>6, <2>4 DEF ReadInv, LoseCache, AllRows, Sourced
  <2> QED BY <1>2, <2>2, <2>3, <2>5
<1> QED BY <1>3, <1>4, <1>5, <1>6

\* A row is told: what was found of one transaction is one event, since its
\* verdict is one and its book is.
LEMMA TellStep == ASSUME KeeperInv, Tell PROVE KeeperInv'
<1> USE DEF KeeperInv, keeperVars
<1>1. PICK e \in found : told' = Append(told, e) /\ found' = found \ {e}
  BY DEF Tell
<1>2. UNCHANGED <<ledger, lens, saved, cursor, pc, todo, due, silent, failures>>
  BY DEF Tell
<1>3. e \in Event /\ told \in Seq(Event)
  BY DEF TypeOK
<1>4. /\ DOMAIN told = 1..Len(told) /\ DOMAIN told' = 1..(Len(told) + 1)
      /\ \A i \in 1..Len(told) : told'[i] = told[i]
      /\ told'[Len(told) + 1] = e /\ Len(told) \in Nat
  <2> HIDE DEF Event
  <2> QED BY <1>1, <1>3
<1>5. TypeOK'
  <2>1. told' \in Seq(Event)
    <3> HIDE DEF Event
    <3> QED BY <1>1, <1>3
  <2> QED BY <1>1, <1>2, <2>1 DEF TypeOK
<1>6. \A h : h \in Told' <=> h \in Told \/ h = e.hash
  BY <1>4 DEF Told
<1>7. \A f \in found' : f.hash /= e.hash
  <2> SUFFICES ASSUME NEW f \in found, f.hash = e.hash PROVE f = e
    BY <1>1
  <2>1. Sourced(e) /\ Sourced(f) /\ f \in Event /\ e.book \in Books /\ f.book \in Books
    BY <1>3 DEF ReadInv, TypeOK, Event
  <2>2. PICK r \in Rows(ledger[e.book]) :
          r.hash = e.hash /\ Settles(r) /\ r.status = e.status
    BY <2>1 DEF Sourced
  <2>3. PICK s \in Rows(ledger[f.book]) :
          s.hash = f.hash /\ Settles(s) /\ s.status = f.status
    BY <2>1 DEF Sourced
  <2>4. e.book = f.book
    BY <2>1, <2>2, <2>3 DEF LedgerInv
  <2>5. e.status = f.status
    BY <2>1, <2>2, <2>3, <2>4 DEF LedgerInv
  <2> QED BY <1>3, <2>1, <2>4, <2>5 DEF Event
<1>8. \A h : h \in Emitted' <=> h \in Emitted
  BY <1>1, <1>6 DEF Emitted
<1>9. ToldOnce'
  <2>1. \A i \in DOMAIN told : told[i].hash \in Told
    BY DEF Told
  <2>2. e.hash \notin Told
    BY DEF ReadInv
  <2> QED BY <1>4, <2>1, <2>2 DEF ToldOnce
<1>10. ToldIsFinal'
  BY <1>2, <1>4 DEF ToldIsFinal, ReadInv, Sourced
<1>11. LedgerInv' /\ NothingFallsBehind'
  BY <1>2, <1>6, <1>8 DEF LedgerInv, NothingFallsBehind, Leads
<1>12. ReadInv'
  <2>1. \A f \in found' : Sourced(f)' /\ f.hash \notin Told'
    BY <1>1, <1>2, <1>6, <1>7 DEF ReadInv, Sourced
  <2>2. pc' = "telling"
    BY <1>2 DEF Tell
  <2> QED BY <1>2, <1>8, <2>1, <2>2 DEF ReadInv, AllRows
<1> QED BY <1>5, <1>9, <1>10, <1>11, <1>12

LEMMA KeeperNext == KeeperInv /\ [Next]_vars => KeeperInv'
<1> SUFFICES ASSUME KeeperInv, [Next]_vars PROVE KeeperInv'
  OBVIOUS
<1>1. CASE KeeperStep
  BY <1>1, KeeperSteps
<1>2. CASE Answered
  BY <1>2, ReadStep, OtherSteps, TellStep DEF Answered
<1>4. CASE Failure
  BY <1>4, OtherSteps DEF Failure
<1>3. CASE UNCHANGED vars
  <2> USE <1>3 DEF vars, keeperVars, KeeperInv
  <2>1. Emitted' = Emitted /\ Told' = Told /\ AllRows' = AllRows
    BY DEF Emitted, Told, AllRows
  <2>2. TypeOK' /\ LedgerInv'
    BY DEF TypeOK, LedgerInv
  <2>3. ReadInv'
    BY <2>1 DEF ReadInv, Sourced
  <2>4. ToldOnce' /\ ToldIsFinal' /\ NothingFallsBehind'
    BY <2>1 DEF ToldOnce, ToldIsFinal, NothingFallsBehind, Leads
  <2> QED BY <2>2, <2>3, <2>4
<1> QED BY <1>1, <1>2, <1>3, <1>4 DEF Next

-------------------------------------------------------------------------------
(* The theorems.                                                           *)

\* The ledgers, the cursors and what a read knows at each of its steps, for
\* any keeper and any failures (keeper.py, read_keeper_receipts, _take).
THEOREM KeeperCorrect == Spec => []KeeperInv
BY KeeperInit, KeeperNext, PTL DEF Spec

\* No transaction is ever told twice, over crashes, lost caches and reads
\* that return the same rows again (keeper.py, LedgerCursor).
THEOREM EachToldOnce == Spec => []ToldOnce
<1>1. KeeperInv => ToldOnce
  BY DEF KeeperInv
<1> QED BY <1>1, KeeperCorrect, PTL

\* What is told is the last word, never an unconfirmed receipt (keeper.py,
\* read_keeper_receipts).
THEOREM EachToldFinal == Spec => []ToldIsFinal
<1>1. KeeperInv => ToldIsFinal
  BY DEF KeeperInv
<1> QED BY <1>1, KeeperCorrect, PTL

\* The saved cursor leads a later read to each transaction not told yet, and
\* the cursor of a read to what it has not found (keeper.py, _take).
THEOREM CursorsLead == Spec => []NothingFallsBehind
<1>1. KeeperInv => NothingFallsBehind
  BY DEF KeeperInv
<1> QED BY <1>1, KeeperCorrect, PTL

\* A read whose every request was answered has told or found, when it is over,
\* all that was final when it began (keeper.py, read_keeper_receipts).
THEOREM ReadsAreComplete == Spec => []ReadIsComplete
<1>1. KeeperInv => ReadIsComplete
  <2> SUFFICES ASSUME KeeperInv, pc = "telling", ~silent, NEW h \in due
               PROVE  h \in Emitted
    BY DEF ReadIsComplete
  <2>1. PICK b \in Books : \E r \in Rows(ledger[b]) : r.hash = h
    BY DEF KeeperInv, ReadInv, AllRows
  <2> QED BY <2>1 DEF KeeperInv, ReadInv
<1> QED BY <1>1, KeeperCorrect, PTL

================================================================================
