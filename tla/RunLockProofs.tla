----------------------------- MODULE RunLockProofs ------------------------------
(***************************************************************************)
(* For any number of invocations, pids and deaths: the lock serializes     *)
(* sessions unless two invocations were in acquire_lock at once or a       *)
(* session outlived lock_stale_s.                                          *)
(***************************************************************************)
EXTENDS RunLock, TLAPS

USE LockAssumption

\* The records of the model, in the terms of its types.
LEMMA Records ==
  /\ Garbled \in Content
  /\ NoLock \in [exists: BOOLEAN, content: Content]
  /\ \A c \in Content : LockWith(c) \in [exists: BOOLEAN, content: Content]
  /\ \A n \in Pids : [pid |-> n, old |-> FALSE] \in Content
BY DEF Garbled, NoLock, LockWith, Content

LEMMA LockInit == Init => LockInv
<1> SUFFICES ASSUME Init PROVE LockInv
  OBVIOUS
<1>1. TypeOK
  BY Records DEF Init, TypeOK
<1>2. PidsDiffer
  BY DEF Init, PidsDiffer, Live
<1>3. HolderHasLock /\ OneAcquires /\ TakerKnows /\ OwnFile /\ SessionsSerialized
  BY DEF Init, HolderHasLock, OneAcquires, TakerKnows, OwnFile,
     SessionsSerialized, Inside, Acquiring
<1> QED BY <1>1, <1>2, <1>3 DEF LockInv

\* The types and the pids, which hold even after a race.
LEMMA TypeStep == TypeOK /\ PidsDiffer /\ [Next]_vars => TypeOK' /\ PidsDiffer'
<1> SUFFICES ASSUME TypeOK, PidsDiffer, [Next]_vars PROVE TypeOK' /\ PidsDiffer'
  OBVIOUS
<1> USE Records DEF TypeOK, PidsDiffer, Live, Acquiring
<1>1. ASSUME NEW p \in Procs, Start(p) PROVE TypeOK' /\ PidsDiffer'
  BY <1>1 DEF Start, Move, Alive
<1>2. ASSUME NEW p \in Procs, Look(p) PROVE TypeOK' /\ PidsDiffer'
  BY <1>2 DEF Look, Move, history
<1>3. ASSUME NEW p \in Procs, Read(p) PROVE TypeOK' /\ PidsDiffer'
  BY <1>3 DEF Read, Move, history
<1>4. ASSUME NEW p \in Procs, Refuse(p) PROVE TypeOK' /\ PidsDiffer'
  BY <1>4 DEF Refuse, Exit, history
<1>5. ASSUME NEW p \in Procs, Judge(p) PROVE TypeOK' /\ PidsDiffer'
  BY <1>5 DEF Judge, Move, history
<1>6. ASSUME NEW p \in Procs, Break(p) PROVE TypeOK' /\ PidsDiffer'
  BY <1>6 DEF Break, Move, Unlink, history
<1>7. ASSUME NEW p \in Procs, OpenLock(p) PROVE TypeOK' /\ PidsDiffer'
  BY <1>7 DEF OpenLock, Move, history
<1>8. ASSUME NEW p \in Procs, Fill(p) PROVE TypeOK' /\ PidsDiffer'
  <2>1. [pid |-> pid[p], old |-> FALSE] \in Content
    BY <1>8 DEF Fill, Move
  <2> QED BY <1>8, <2>1 DEF Fill, Move, history
<1>9. ASSUME NEW p \in Procs, Finish(p) PROVE TypeOK' /\ PidsDiffer'
  BY <1>9 DEF Finish, Exit, Unlink, history
<1>10. ASSUME NEW p \in Procs, Die(p) PROVE TypeOK' /\ PidsDiffer'
  BY <1>10 DEF Die, Exit, history
<1>11. CASE TakePid
  BY <1>11 DEF TakePid, history
<1>12. CASE LeavePid
  BY <1>12 DEF LeavePid, history
<1>13. CASE Age
  BY <1>13 DEF Age, Content
<1>14. CASE UNCHANGED vars
  BY <1>14 DEF vars
<1> QED
  BY <1>1, <1>2, <1>3, <1>4, <1>5, <1>6, <1>7, <1>8, <1>9, <1>10, <1>11, <1>12,
     <1>13, <1>14 DEF Next, Acquire

\* What holds as long as nobody raced and no session was too long.
Serial == HolderHasLock /\ OneAcquires /\ TakerKnows /\ OwnFile /\ SessionsSerialized

LEMMA SerialStep ==
  ASSUME TypeOK, PidsDiffer, Serial, [Next]_vars, ~raced', ~overlong'
  PROVE  Serial'
<1> USE DEF TypeOK, PidsDiffer, Live, Acquiring, Inside, Serial, HolderHasLock,
            OneAcquires, TakerKnows, OwnFile, SessionsSerialized
<1>1. ASSUME NEW p \in Procs, Start(p) PROVE Serial'
  BY <1>1 DEF Start, Move
<1>2. ASSUME NEW p \in Procs, Look(p) PROVE Serial'
  BY <1>2 DEF Look, Move, LockWith
<1>3. ASSUME NEW p \in Procs, Read(p) PROVE Serial'
  <2>1. \A q \in Procs : Inside(q) =>
          held'[p] = [pid |-> pid[q], old |-> FALSE]
    <3> SUFFICES ASSUME NEW q \in Procs, Inside(q)
                 PROVE  held'[p] = [pid |-> pid[q], old |-> FALSE]
      OBVIOUS
    <3>1. lock = LockWith([pid |-> pid[q], old |-> FALSE])
      OBVIOUS
    <3>2. lock.exists /\ lock.content = [pid |-> pid[q], old |-> FALSE]
      BY <3>1, Zenon DEF LockWith
    <3>3. held'[p] = IF lock.exists THEN lock.content ELSE Garbled
      BY <1>3 DEF Read
    <3> QED BY <3>2, <3>3
  <2> QED BY <1>3, <2>1 DEF Read, Move
<1>4. ASSUME NEW p \in Procs, Refuse(p) PROVE Serial'
  BY <1>4 DEF Refuse, Exit
<1>5. ASSUME NEW p \in Procs, Judge(p) PROVE Serial'
  <2>1. \A q \in Procs : ~Inside(q)
    BY <1>5 DEF Judge, Move, Stale, Alive
  <2> QED BY <1>5, <2>1 DEF Judge, Move
<1>6. ASSUME NEW p \in Procs, Break(p) PROVE Serial'
  BY <1>6 DEF Break, Move, Unlink
<1>7. ASSUME NEW p \in Procs, OpenLock(p) PROVE Serial'
  BY <1>7 DEF OpenLock, Move
<1>8. ASSUME NEW p \in Procs, Fill(p) PROVE Serial'
  BY <1>8 DEF Fill, Move
<1>9. ASSUME NEW p \in Procs, Finish(p) PROVE Serial'
  BY <1>9 DEF Finish, Exit, Unlink
<1>10. ASSUME NEW p \in Procs, Die(p) PROVE Serial'
  BY <1>10 DEF Die, Exit
<1>11. CASE TakePid
  BY <1>11 DEF TakePid
<1>12. CASE LeavePid
  BY <1>12 DEF LeavePid
<1>13. CASE Age
  BY <1>13 DEF Age, LockWith
<1>14. CASE UNCHANGED vars
  BY <1>14 DEF vars
<1> QED
  BY <1>1, <1>2, <1>3, <1>4, <1>5, <1>6, <1>7, <1>8, <1>9, <1>10, <1>11, <1>12,
     <1>13, <1>14 DEF Next, Acquire

\* Races and overlong sessions are never forgotten.
LEMMA HistoryStays == [Next]_vars => (raced => raced') /\ (overlong => overlong')
<1>1. ASSUME NEW p \in Procs, Start(p)
      PROVE (raced => raced') /\ (overlong => overlong')
  BY <1>1, Zenon DEF Start
<1>2. ASSUME NEW p \in Procs, Acquire(p) \/ Finish(p)
      PROVE raced' = raced /\ overlong' = overlong
  BY <1>2 DEF Acquire, Look, Read, Refuse, Judge, Break, OpenLock, Fill, Finish,
     history
<1>3. ASSUME NEW p \in Procs, Die(p)
      PROVE raced' = raced /\ overlong' = overlong
  BY <1>3 DEF Die
<1>4. TakePid \/ LeavePid \/ UNCHANGED vars => raced' = raced /\ overlong' = overlong
  BY DEF TakePid, LeavePid, vars, history
<1>5. Age => (raced => raced') /\ (overlong => overlong')
  <2>1. Age => raced' = raced
    BY DEF Age
  <2>2. Age => (overlong => overlong')
    BY Zenon DEF Age
  <2> QED BY <2>1, <2>2
<1> QED BY <1>1, <1>2, <1>3, <1>4, <1>5, Zenon DEF Next

LEMMA LockStep == LockInv /\ [Next]_vars => LockInv'
<1> SUFFICES ASSUME LockInv, [Next]_vars PROVE LockInv'
  OBVIOUS
<1>1. TypeOK' /\ PidsDiffer'
  BY TypeStep DEF LockInv
<1>2. ASSUME ~raced', ~overlong' PROVE Serial'
  <2>1. ~raced /\ ~overlong
    BY <1>2, HistoryStays
  <2> QED BY <1>2, <2>1, SerialStep DEF LockInv, Serial
<1> QED BY <1>1, <1>2 DEF LockInv, Serial

\* The inductive invariant: the holder's lock is at run.lock, and whoever is
\* about to break a lock knows that nobody is inside.
THEOREM LockInvariant == Spec => []LockInv
BY LockInit, LockStep, PTL DEF Spec

\* acquire_lock and release_lock keep two sessions from running at once,
\* unless two invocations were in acquire_lock at once or a session outlived
\* lock_stale_s: deaths, unreadable locks and reused pids do no harm.
THEOREM Serialized == Spec => []SerializedUnlessRaced
<1>1. LockInv => SerializedUnlessRaced
  BY DEF LockInv, SerializedUnlessRaced
<1> QED BY <1>1, LockInvariant, PTL

===============================================================================
