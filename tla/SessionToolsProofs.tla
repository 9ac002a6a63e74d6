-------------------------- MODULE SessionToolsProofs --------------------------
(***************************************************************************)
(* For any number of calls, any paths, sizes and quota, and whatever       *)
(* befalls the session: where the name of a file leads, the tree and the   *)
(* total its rows account for, the quota up to what was given up on, what  *)
(* close relies on, and that a restart is told.                            *)
(***************************************************************************)
EXTENDS SessionTools, NumberFacts, SequenceTheorems

-------------------------------------------------------------------------------
(* Paths.                                                                  *)

\* What holds of 0, and of k + 1 when of k, holds up to n.
LEMMA UpTo ==
  ASSUME NEW n \in Nat, NEW K, 0 \in K, \A k \in 0..(n - 1) : k \in K => k + 1 \in K
  PROVE  \A k \in 0..n : k \in K
<1> DEFINE P == {k \in 0..n : \A i \in 0..k : i \in K}
<1>1. P \subseteq Nat /\ IsFiniteSet(P) /\ 0 \in P
  <2>1. P \in SUBSET (0..n)
    OBVIOUS
  <2>2. IsFiniteSet(0..n)
    BY FS_Interval
  <2>3. IsFiniteSet(P)
    <3> HIDE DEF P
    <3> QED
      BY <2>1, <2>2, FS_Subset
  <2> QED
    BY <2>3
<1>2. PICK k \in P : \A m \in P : m <= k
  <2> HIDE DEF P
  <2> QED
    BY <1>1, HasHighest
<1>3. k = n
  <2> SUFFICES ASSUME k /= n PROVE FALSE
    OBVIOUS
  <2>1. k \in 0..(n - 1) /\ k + 1 \in 0..n /\ k + 1 \in K
    OBVIOUS
  <2>2. k + 1 \in P
    BY <2>1
  <2> QED
    BY <1>2, <2>1, <2>2
<1> QED
  BY <1>3

-------------------------------------------------------------------------------
(* Folds of a path from the left.                                          *)

LEMMA MaxIs ==
  ASSUME NEW T, NEW n \in Nat, T \subseteq 1..n, T /= {}
  PROVE  Max(T) \in T /\ \A y \in T : Max(T) >= y
<1>1. T \subseteq Nat /\ IsFiniteSet(T)
  <2>1. IsFiniteSet(1..n)
    BY FS_Interval
  <2>2. T \in SUBSET (1..n)
    OBVIOUS
  <2>3. IsFiniteSet(T)
    BY <2>1, <2>2, FS_Subset
  <2> QED
    BY <2>3
<1>2. \E x \in T : \A y \in T : x >= y
  BY <1>1, HasHighest
<1> QED
  BY <1>2, Zenon DEF Max

\* A fold over the places of a path, by a step of segments, is a function of
\* their sets: one for the first k places makes one for k + 1.
FoldOf(X, step, path, n) ==
  {g \in [SUBSET (1..n) -> X] : \A T \in SUBSET (1..n) :
     g[T] = IF T = {} THEN <<>> ELSE step[g[T \ {Max(T)}], path[Max(T)]]}

\* And it has its values where the step has.
FoldsAs(g, X, Y, step, path) ==
  /\ g = [T \in SUBSET (1..Len(path)) |-> g[T]]
  /\ g[{}] = <<>>
  /\ \A T \in SUBSET (1..Len(path)) : T /= {} =>
       /\ g[T \ {Max(T)}] \in X /\ path[Max(T)] \in Y
       /\ g[T] = step[g[T \ {Max(T)}], path[Max(T)]]

LEMMA FoldExists ==
  ASSUME NEW X, NEW Y, NEW step \in [X \X Y -> X], NEW path \in Seq(Y), <<>> \in X
  PROVE  \E g : FoldsAs(g, X, Y, step, path)
<1> DEFINE n == Len(path)
           K == {k \in 0..n : \E h : h \in FoldOf(X, step, path, k)}
<1>0. n \in Nat /\ DOMAIN path = 1..n
  OBVIOUS
<1>1. 0 \in K
  <2>1. SUBSET (1..0) = {{}}
    OBVIOUS
  <2> DEFINE h == [T \in {{}} |-> <<>>]
  <2>2. h \in [SUBSET (1..0) -> X]
    BY <2>1
  <2>3. h \in FoldOf(X, step, path, 0)
    BY <2>1, <2>2 DEF FoldOf
  <2> HIDE DEF h
  <2> QED
    BY <1>0, <2>3
<1>2. ASSUME NEW k \in 0..(n - 1), k \in K PROVE k + 1 \in K
  <2>1. PICK h : h \in FoldOf(X, step, path, k)
    BY <1>2
  <2> DEFINE u == [T \in SUBSET (1..(k + 1)) |->
                     IF k + 1 \in T THEN step[h[T \ {k + 1}], path[k + 1]] ELSE h[T]]
  <2>2. ASSUME NEW T \in SUBSET (1..(k + 1))
        PROVE  /\ k + 1 \in T => T \ {k + 1} \in SUBSET (1..k) /\ Max(T) = k + 1
               /\ k + 1 \notin T => T \in SUBSET (1..k)
               /\ T /= {} => Max(T) \in T /\ (k + 1 \notin T => k + 1 \notin T \ {Max(T)})
    <3>1. k + 1 \in Nat /\ k \in Nat
      OBVIOUS
    <3>2. \A i \in T : i \in 1..(k + 1) /\ (i /= k + 1 => i \in 1..k)
      OBVIOUS
    <3>3. T /= {} => Max(T) \in T /\ \A y \in T : Max(T) >= y
      BY <3>1, MaxIs
    <3>4. ASSUME k + 1 \in T PROVE Max(T) = k + 1
      <4>1. Max(T) \in 1..(k + 1) /\ Max(T) >= k + 1
        BY <3>2, <3>3, <3>4
      <4> QED
        BY <3>1, <4>1
    <3> QED
      BY <3>2, <3>3, <3>4
  <2>3. path[k + 1] \in Y
    BY <1>0
  <2>4. ASSUME NEW T \in SUBSET (1..(k + 1))
        PROVE  /\ u[T] \in X
               /\ k + 1 \in T => u[T] = step[u[T \ {k + 1}], path[k + 1]]
               /\ k + 1 \notin T => u[T] = h[T]
    <3>1. CASE k + 1 \in T
      <4>1. T \ {k + 1} \in SUBSET (1..k) /\ T \ {k + 1} \in SUBSET (1..(k + 1))
        BY <2>2, <3>1
      <4>2. h[T \ {k + 1}] \in X
        BY <2>1, <4>1 DEF FoldOf
      <4>3. u[T \ {k + 1}] = h[T \ {k + 1}]
        BY <4>1
      <4>4. u[T] = step[h[T \ {k + 1}], path[k + 1]]
        BY <3>1
      <4> HIDE DEF u
      <4>5. u[T] \in X
        BY <4>2, <4>4, <2>3
      <4> QED
        BY <3>1, <4>3, <4>4, <4>5
    <3>2. CASE k + 1 \notin T
      <4>1. T \in SUBSET (1..k)
        BY <2>2, <3>2
      <4>2. h[T] \in X
        BY <2>1, <4>1 DEF FoldOf
      <4> QED
        BY <3>2, <4>2
    <3> QED
      BY <3>1, <3>2
  <2>5. u \in FoldOf(X, step, path, k + 1)
    <3>1. u \in [SUBSET (1..(k + 1)) -> X]
      BY <2>4
    <3> HIDE DEF u
    <3>2. ASSUME NEW T \in SUBSET (1..(k + 1))
          PROVE  u[T] = IF T = {} THEN <<>> ELSE step[u[T \ {Max(T)}], path[Max(T)]]
      <4>1. CASE k + 1 \in T
        <5>1. u[T] = step[u[T \ {k + 1}], path[k + 1]] /\ Max(T) = k + 1
          BY <2>2, <2>4, <4>1
        <5> QED
          BY <4>1, <5>1
      <4>2. CASE k + 1 \notin T /\ T = {}
        BY <2>1, <2>2, <2>4, <4>2 DEF FoldOf
      <4>3. CASE k + 1 \notin T /\ T /= {}
        <5>1. T \in SUBSET (1..k) /\ Max(T) \in T
          BY <2>2, <4>3
        <5>2. h[T] = step[h[T \ {Max(T)}], path[Max(T)]]
          BY <2>1, <4>3, <5>1 DEF FoldOf
        <5>3. T \ {Max(T)} \in SUBSET (1..(k + 1)) /\ k + 1 \notin T \ {Max(T)}
          BY <4>3
        <5>4. u[T \ {Max(T)}] = h[T \ {Max(T)}] /\ u[T] = h[T]
          BY <2>4, <4>3, <5>3
        <5> QED
          BY <4>3, <5>2, <5>4
      <4> QED
        BY <4>1, <4>2, <4>3
    <3> QED
      BY <3>1, <3>2 DEF FoldOf
  <2>6. k + 1 \in 0..n
    BY <1>0
  <2> HIDE DEF u
  <2> QED
    BY <2>5, <2>6
<1>3. n \in K
  <2>1. n \in 0..n
    BY <1>0
  <2> HIDE DEF K, n
  <2> QED
    BY <1>0, <1>1, <1>2, <2>1, UpTo
<1>4. PICK g : g \in FoldOf(X, step, path, n)
  BY <1>3
<1>5. ASSUME NEW T \in SUBSET (1..n), T /= {}
      PROVE  /\ g[T \ {Max(T)}] \in X /\ path[Max(T)] \in Y
             /\ g[T] = step[g[T \ {Max(T)}], path[Max(T)]]
  <2>1. Max(T) \in 1..n
    BY <1>0, <1>5, MaxIs
  <2>2. path[Max(T)] \in Y
    BY <2>1
  <2>3. T \ {Max(T)} \in SUBSET (1..n)
    OBVIOUS
  <2>4. g[T \ {Max(T)}] \in X
    BY <1>4, <2>3 DEF FoldOf
  <2> QED
    BY <1>4, <1>5, <2>2, <2>4 DEF FoldOf
<1>6. g = [T \in SUBSET (1..n) |-> g[T]] /\ g[{}] = <<>>
  BY <1>4 DEF FoldOf
<1> HIDE DEF n
<1>7. \A T \in SUBSET (1..n) : T /= {} =>
        /\ g[T \ {Max(T)}] \in X /\ path[Max(T)] \in Y
        /\ g[T] = step[g[T \ {Max(T)}], path[Max(T)]]
  BY <1>5
<1> QED
  BY <1>6, <1>7 DEF n, FoldsAs

\* What there is of a set of the first places.
LEMMA Prefix ==
  ASSUME NEW n \in Nat, NEW k \in 0..(n - 1)
  PROVE  /\ 1..(k + 1) \in SUBSET (1..n) /\ 1..(k + 1) /= {}
         /\ Max(1..(k + 1)) = k + 1
         /\ (1..(k + 1)) \ {k + 1} = 1..k
<1> DEFINE T == 1..(k + 1)
<1>1. T \in SUBSET (1..n) /\ k + 1 \in Nat /\ k + 1 \in T
  <2>1. \A i \in T : i \in 1..n
    OBVIOUS
  <2> QED
    BY <2>1
<1>2. T \ {k + 1} = 1..k
  OBVIOUS
<1>3. \A i \in T : i \in Nat /\ i <= k + 1
  OBVIOUS
<1>4. T \subseteq 1..(k + 1)
  OBVIOUS
<1> HIDE DEF T
<1>5. Max(T) \in T /\ Max(T) >= k + 1
  BY <1>1, <1>4, MaxIs
<1>6. Max(T) = k + 1
  <2>1. Max(T) \in Nat /\ Max(T) <= k + 1
    BY <1>3, <1>5
  <2> QED
    BY <1>5, <2>1
<1> QED
  BY <1>1, <1>2, <1>6 DEF T

LEMMA FrontIs ==
  ASSUME NEW Y, NEW s \in Seq(Y), s /= <<>>
  PROVE  Front(s) \in Seq(Y)
<1>1. Len(s) \in Nat /\ Len(s) - 1 \in Int /\ \A i \in 1..(Len(s) - 1) : s[i] \in Y
  OBVIOUS
<1> QED
  BY <1>1, SubSeqProperties DEF Front

LEMMA PartsFolds ==
  ASSUME NEW A, NEW path \in Seq(A)
  PROVE  \E r : /\ Parts(path) = r[1..Len(path)]
                /\ r[1..0] = <<>>
                /\ \A k \in 0..(Len(path) - 1) :
                     r[1..(k + 1)] =
                       IF path[k + 1] = "." THEN r[1..k] ELSE Append(r[1..k], path[k + 1])
<1> DEFINE Folds(g) == g = [T \in SUBSET DOMAIN path |->
               IF T = {} THEN <<>>
               ELSE IF path[Max(T)] = "." THEN g[T \ {Max(T)}] ELSE Append(g[T \ {Max(T)}], path[Max(T)])]
           X == Seq(A)
           step == [a \in X \X A |->
              IF a[2] = "." THEN a[1] ELSE Append(a[1], a[2])]
<1>1. Parts(path) = (CHOOSE g : Folds(g))[DOMAIN path]
  BY DEF Parts, FoldLeft, MapThenFoldSet
<1>2. DOMAIN path = 1..Len(path) /\ Len(path) \in Nat
  OBVIOUS
<1>3. \E g : Folds(g)
  <2>1. \A s \in X, seg \in A : Append(s, seg) \in X
    BY AppendProperties
  <2>2. step \in [X \X A -> X] /\ <<>> \in X
    <3>1. \A a \in X \X A : a[1] \in X /\ a[2] \in A
      OBVIOUS
    <3>2. <<>> \in X
      OBVIOUS
    <3> HIDE DEF X
    <3> QED
      BY <2>1, <3>1, <3>2
  <2>3. PICK g : FoldsAs(g, X, A, step, path)
    <3> HIDE DEF X, step
    <3> QED
      BY <2>2, FoldExists
  <2>4. \A a \in X, b \in A : step[a, b] =
          IF b = "." THEN a ELSE Append(a, b)
    OBVIOUS
  <2> HIDE DEF X, step
  <2>5. ASSUME NEW T \in SUBSET (1..Len(path)), T /= {}
        PROVE  g[T] =
                 IF path[Max(T)] = "." THEN g[T \ {Max(T)}] ELSE Append(g[T \ {Max(T)}], path[Max(T)])
    BY <2>3, <2>4, <2>5 DEF FoldsAs
  <2>6. \A T \in SUBSET (1..Len(path)) :
          g[T] = IF T = {} THEN <<>>
                 ELSE IF path[Max(T)] = "." THEN g[T \ {Max(T)}] ELSE Append(g[T \ {Max(T)}], path[Max(T)])
    BY <2>3, <2>5 DEF FoldsAs
  <2>7. Folds(g)
    BY <1>2, <2>3, <2>6 DEF FoldsAs
  <2> QED
    BY <2>7
<1>4. PICK r : r = (CHOOSE g : Folds(g)) /\ Folds(r)
  <2> HIDE DEF Folds
  <2> QED
    BY <1>3, Zenon
<1>5. \A T \in SUBSET (1..Len(path)) :
        r[T] = IF T = {} THEN <<>>
               ELSE IF path[Max(T)] = "." THEN r[T \ {Max(T)}] ELSE Append(r[T \ {Max(T)}], path[Max(T)])
  BY <1>2, <1>4
<1>6. r[1..0] = <<>>
  <2>1. 1..0 = {}
    OBVIOUS
  <2> QED
    BY <1>5, <2>1
<1>7. ASSUME NEW k \in 0..(Len(path) - 1)
      PROVE  r[1..(k + 1)] =
               IF path[k + 1] = "." THEN r[1..k] ELSE Append(r[1..k], path[k + 1])
  <2> DEFINE T == 1..(k + 1)
  <2>1. T \in SUBSET (1..Len(path)) /\ T /= {} /\ Max(T) = k + 1 /\ T \ {k + 1} = 1..k
    BY <1>2, Prefix
  <2> HIDE DEF T
  <2>2. r[T] =
          IF path[k + 1] = "." THEN r[1..k] ELSE Append(r[1..k], path[k + 1])
    BY <1>5, <2>1
  <2> QED
    BY <2>2 DEF T
<1>8. Parts(path) = r[1..Len(path)]
  BY <1>1, <1>2, <1>4
<1> HIDE DEF Folds
<1> QED
  BY <1>6, <1>7, <1>8

LEMMA NormalFolds ==
  ASSUME NEW A, NEW path \in Seq(A)
  PROVE  \E r : /\ Normal(path) = r[1..Len(path)]
                /\ r[1..0] = <<>>
                /\ \A k \in 0..(Len(path) - 1) :
                     r[1..(k + 1)] =
                       IF path[k + 1] /= ".." THEN Append(r[1..k], path[k + 1])
                       ELSE IF r[1..k] = <<>> THEN r[1..k] ELSE Front(r[1..k])
<1> DEFINE Folds(g) == g = [T \in SUBSET DOMAIN path |->
               IF T = {} THEN <<>>
               ELSE IF path[Max(T)] /= ".." THEN Append(g[T \ {Max(T)}], path[Max(T)])
                    ELSE IF g[T \ {Max(T)}] = <<>> THEN g[T \ {Max(T)}] ELSE Front(g[T \ {Max(T)}])]
           X == Seq(A)
           step == [a \in X \X A |->
              IF a[2] /= ".." THEN Append(a[1], a[2])
              ELSE IF a[1] = <<>> THEN a[1] ELSE Front(a[1])]
<1>1. Normal(path) = (CHOOSE g : Folds(g))[DOMAIN path]
  BY DEF Normal, FoldLeft, MapThenFoldSet
<1>2. DOMAIN path = 1..Len(path) /\ Len(path) \in Nat
  OBVIOUS
<1>3. \E g : Folds(g)
  <2>1. \A s \in X, seg \in A : Append(s, seg) \in X
                /\ (s /= <<>> => Front(s) \in X)
    BY FrontIs, AppendProperties
  <2>2. step \in [X \X A -> X] /\ <<>> \in X
    <3>1. \A a \in X \X A : a[1] \in X /\ a[2] \in A
      OBVIOUS
    <3>2. <<>> \in X
      OBVIOUS
    <3> HIDE DEF X
    <3> QED
      BY <2>1, <3>1, <3>2
  <2>3. PICK g : FoldsAs(g, X, A, step, path)
    <3> HIDE DEF X, step
    <3> QED
      BY <2>2, FoldExists
  <2>4. \A a \in X, b \in A : step[a, b] =
          IF b /= ".." THEN Append(a, b)
          ELSE IF a = <<>> THEN a ELSE Front(a)
    OBVIOUS
  <2> HIDE DEF X, step
  <2>5. ASSUME NEW T \in SUBSET (1..Len(path)), T /= {}
        PROVE  g[T] =
                 IF path[Max(T)] /= ".." THEN Append(g[T \ {Max(T)}], path[Max(T)])
                 ELSE IF g[T \ {Max(T)}] = <<>> THEN g[T \ {Max(T)}] ELSE Front(g[T \ {Max(T)}])
    BY <2>3, <2>4, <2>5 DEF FoldsAs
  <2>6. \A T \in SUBSET (1..Len(path)) :
          g[T] = IF T = {} THEN <<>>
                 ELSE IF path[Max(T)] /= ".." THEN Append(g[T \ {Max(T)}], path[Max(T)])
                      ELSE IF g[T \ {Max(T)}] = <<>> THEN g[T \ {Max(T)}] ELSE Front(g[T \ {Max(T)}])
    BY <2>3, <2>5 DEF FoldsAs
  <2>7. Folds(g)
    BY <1>2, <2>3, <2>6 DEF FoldsAs
  <2> QED
    BY <2>7
<1>4. PICK r : r = (CHOOSE g : Folds(g)) /\ Folds(r)
  <2> HIDE DEF Folds
  <2> QED
    BY <1>3, Zenon
<1>5. \A T \in SUBSET (1..Len(path)) :
        r[T] = IF T = {} THEN <<>>
               ELSE IF path[Max(T)] /= ".." THEN Append(r[T \ {Max(T)}], path[Max(T)])
                    ELSE IF r[T \ {Max(T)}] = <<>> THEN r[T \ {Max(T)}] ELSE Front(r[T \ {Max(T)}])
  BY <1>2, <1>4
<1>6. r[1..0] = <<>>
  <2>1. 1..0 = {}
    OBVIOUS
  <2> QED
    BY <1>5, <2>1
<1>7. ASSUME NEW k \in 0..(Len(path) - 1)
      PROVE  r[1..(k + 1)] =
               IF path[k + 1] /= ".." THEN Append(r[1..k], path[k + 1])
               ELSE IF r[1..k] = <<>> THEN r[1..k] ELSE Front(r[1..k])
  <2> DEFINE T == 1..(k + 1)
  <2>1. T \in SUBSET (1..Len(path)) /\ T /= {} /\ Max(T) = k + 1 /\ T \ {k + 1} = 1..k
    BY <1>2, Prefix
  <2> HIDE DEF T
  <2>2. r[T] =
          IF path[k + 1] /= ".." THEN Append(r[1..k], path[k + 1])
          ELSE IF r[1..k] = <<>> THEN r[1..k] ELSE Front(r[1..k])
    BY <1>5, <2>1
  <2> QED
    BY <2>2 DEF T
<1>8. Normal(path) = r[1..Len(path)]
  BY <1>1, <1>2, <1>4
<1> HIDE DEF Folds
<1> QED
  BY <1>6, <1>7, <1>8

LEMMA OneMore ==
  ASSUME NEW Y, NEW path \in Seq(Y), NEW k \in 0..(Len(path) - 1)
  PROVE  Append(SubSeq(path, 1, k), path[k + 1]) = SubSeq(path, 1, k + 1)
<1>1. /\ Len(SubSeq(path, 1, k)) = k
      /\ \A i \in 1..k : SubSeq(path, 1, k)[i] = path[i]
      /\ SubSeq(path, 1, k) \in Seq(Y)
  BY SubSeqProperties
<1>2. /\ Len(SubSeq(path, 1, k + 1)) = k + 1
      /\ \A i \in 1..(k + 1) : SubSeq(path, 1, k + 1)[i] = path[i]
      /\ SubSeq(path, 1, k + 1) \in Seq(Y)
  BY SubSeqProperties
<1>3. path[k + 1] \in Y
  OBVIOUS
<1> DEFINE a == SubSeq(path, 1, k)
           b == SubSeq(path, 1, k + 1)
<1> HIDE DEF a, b
<1>4. /\ Append(a, path[k + 1]) \in Seq(Y) /\ Len(Append(a, path[k + 1])) = k + 1
      /\ \A i \in 1..k : Append(a, path[k + 1])[i] = path[i]
      /\ Append(a, path[k + 1])[k + 1] = path[k + 1]
  BY <1>1, <1>3, AppendProperties DEF a
<1>5. \A i \in 1..(k + 1) : Append(a, path[k + 1])[i] = b[i]
  BY <1>2, <1>4 DEF b
<1>6. Append(a, path[k + 1]) = b
  BY <1>2, <1>4, <1>5, SeqEqual DEF b
<1> QED
  BY <1>6 DEF a, b

LEMMA PartsPlain ==
  ASSUME NEW A, NEW path \in Seq(A)
  PROVE  Parts(path) \in Seq(A \ {"."})
<1> DEFINE Y == A \ {"."}
<1>1. PICK r : /\ Parts(path) = r[1..Len(path)]
               /\ r[1..0] = <<>>
               /\ \A k \in 0..(Len(path) - 1) :
                    r[1..(k + 1)] =
                      IF path[k + 1] = "." THEN r[1..k] ELSE Append(r[1..k], path[k + 1])
  BY PartsFolds
<1> DEFINE K == {k \in 0..Len(path) : r[1..k] \in Seq(Y)}
<1>2. 0 \in K
  <2>1. 0 \in 0..Len(path)
    OBVIOUS
  <2>2. <<>> \in Seq(Y)
    BY EmptySeq, SubSeqEmpty
  <2> QED
    BY <1>1, <2>1, <2>2
<1>3. ASSUME NEW k \in 0..(Len(path) - 1), k \in K
      PROVE  k + 1 \in K
  <2>1. path[k + 1] \in A /\ k + 1 \in 0..Len(path)
    OBVIOUS
  <2>2. path[k + 1] /= "." => Append(r[1..k], path[k + 1]) \in Seq(Y)
    BY <1>3, <2>1, AppendProperties
  <2> QED
    BY <1>1, <1>3, <2>1, <2>2
<1>4. Len(path) \in K
  <2>1. Len(path) \in Nat /\ Len(path) \in 0..Len(path)
    OBVIOUS
  <2> HIDE DEF K
  <2> QED
    BY <1>2, <1>3, <2>1, UpTo
<1> QED
  BY <1>1, <1>4

LEMMA PartsSame ==
  ASSUME NEW A, NEW path \in Seq(A \ {"."})
  PROVE  Parts(path) = path
<1>0. path \in Seq(A)
  OBVIOUS
<1>1. PICK r : /\ Parts(path) = r[1..Len(path)]
               /\ r[1..0] = <<>>
               /\ \A k \in 0..(Len(path) - 1) :
                    r[1..(k + 1)] =
                      IF path[k + 1] = "." THEN r[1..k] ELSE Append(r[1..k], path[k + 1])
  BY <1>0, PartsFolds
<1> DEFINE K == {k \in 0..Len(path) : r[1..k] = SubSeq(path, 1, k)}
<1>2. 0 \in K
  <2>1. 0 \in 0..Len(path)
    OBVIOUS
  <2>2. SubSeq(path, 1, 0) = <<>>
    BY EmptySeq, SubSeqEmpty
  <2> QED
    BY <1>1, <2>1, <2>2
<1>3. ASSUME NEW k \in 0..(Len(path) - 1), k \in K
      PROVE  k + 1 \in K
  <2>1. path[k + 1] /= "." /\ k + 1 \in 0..Len(path)
    OBVIOUS
  <2> QED
    BY <1>1, <1>3, <2>1, OneMore
<1>4. Len(path) \in K
  <2>1. Len(path) \in Nat /\ Len(path) \in 0..Len(path)
    OBVIOUS
  <2> HIDE DEF K
  <2> QED
    BY <1>2, <1>3, <2>1, UpTo
<1> QED
  BY <1>1, <1>4, SubSeqFull

LEMMA NormalClean ==
  ASSUME NEW A, NEW path \in Seq(A \ {"."})
  PROVE  Normal(path) \in Seq(A \ {".", ".."})
<1> DEFINE Y == A \ {".", ".."}
<1>0. path \in Seq(A)
  OBVIOUS
<1>1. PICK r : /\ Normal(path) = r[1..Len(path)]
               /\ r[1..0] = <<>>
               /\ \A k \in 0..(Len(path) - 1) :
                    r[1..(k + 1)] =
                      IF path[k + 1] /= ".." THEN Append(r[1..k], path[k + 1])
                      ELSE IF r[1..k] = <<>> THEN r[1..k] ELSE Front(r[1..k])
  BY <1>0, NormalFolds
<1> DEFINE K == {k \in 0..Len(path) : r[1..k] \in Seq(Y)}
<1>2. 0 \in K
  <2>1. 0 \in 0..Len(path)
    OBVIOUS
  <2>2. <<>> \in Seq(Y)
    BY EmptySeq, SubSeqEmpty
  <2> QED
    BY <1>1, <2>1, <2>2
<1>3. ASSUME NEW k \in 0..(Len(path) - 1), k \in K
      PROVE  k + 1 \in K
  <2>1. path[k + 1] \in A \ {"."} /\ k + 1 \in 0..Len(path)
    OBVIOUS
  <2>2. path[k + 1] /= ".." => Append(r[1..k], path[k + 1]) \in Seq(Y)
    BY <1>3, <2>1, AppendProperties
  <2>3. r[1..k] /= <<>> => Front(r[1..k]) \in Seq(Y)
    BY <1>3, FrontIs
  <2> HIDE DEF Y
  <2> QED
    BY <1>1, <1>3, <2>1, <2>2, <2>3
<1>4. Len(path) \in K
  <2>1. Len(path) \in Nat /\ Len(path) \in 0..Len(path)
    OBVIOUS
  <2> HIDE DEF K
  <2> QED
    BY <1>2, <1>3, <2>1, UpTo
<1> QED
  BY <1>1, <1>4

LEMMA NormalSame ==
  ASSUME NEW A, NEW path \in Seq(A \ {".."})
  PROVE  Normal(path) = path
<1>0. path \in Seq(A)
  OBVIOUS
<1>1. PICK r : /\ Normal(path) = r[1..Len(path)]
               /\ r[1..0] = <<>>
               /\ \A k \in 0..(Len(path) - 1) :
                    r[1..(k + 1)] =
                      IF path[k + 1] /= ".." THEN Append(r[1..k], path[k + 1])
                      ELSE IF r[1..k] = <<>> THEN r[1..k] ELSE Front(r[1..k])
  BY <1>0, NormalFolds
<1> DEFINE K == {k \in 0..Len(path) : r[1..k] = SubSeq(path, 1, k)}
<1>2. 0 \in K
  <2>1. 0 \in 0..Len(path)
    OBVIOUS
  <2>2. SubSeq(path, 1, 0) = <<>>
    BY EmptySeq, SubSeqEmpty
  <2> QED
    BY <1>1, <2>1, <2>2
<1>3. ASSUME NEW k \in 0..(Len(path) - 1), k \in K
      PROVE  k + 1 \in K
  <2>1. path[k + 1] /= ".." /\ k + 1 \in 0..Len(path)
    OBVIOUS
  <2> QED
    BY <1>1, <1>3, <2>1, OneMore
<1>4. Len(path) \in K
  <2>1. Len(path) \in Nat /\ Len(path) \in 0..Len(path)
    OBVIOUS
  <2> HIDE DEF K
  <2> QED
    BY <1>2, <1>3, <2>1, UpTo
<1> QED
  BY <1>1, <1>4, SubSeqFull

\* The provers do not know of a literal that it is a string.
Segments == STRING \cup {"runs", "run", "workspace"}

LEMMA PlainSegments ==
  /\ "runs" \in Segments \ {".", ".."} /\ "run" \in Segments \ {".", ".."}
  /\ "workspace" \in Segments \ {".", ".."}
<1>1. "runs" /= "." /\ "run" /= "." /\ "workspace" /= "."
  OBVIOUS
<1>2. "runs" /= ".." /\ "run" /= ".." /\ "workspace" /= ".."
  OBVIOUS
<1> QED
  BY <1>1, <1>2 DEF Segments

LEMMA RunDirIs ==
  ASSUME NEW Y, "runs" \in Y, "run" \in Y
  PROVE  /\ RunDir \in Seq(Y) /\ Len(RunDir) = 2
         /\ RunDir[1] = "runs" /\ RunDir[2] = "run"
<1>1. \A a, b \in Y : /\ <<a, b>> \in Seq(Y) /\ Len(<<a, b>>) = 2
                      /\ <<a, b>>[1] = a /\ <<a, b>>[2] = b
  OBVIOUS
<1> QED
  BY <1>1 DEF RunDir

\* A file of the workspace has a plain name, which begins at the run directory.
LEMMA FileNames ==
  ASSUME NEW f \in Files
  PROVE  /\ f \in Seq(Segments \ {".", ".."}) /\ Len(f) >= 3
         /\ f[1] = "runs" /\ f[2] = "run" /\ f[3] = "workspace"
<1>1. PICK p \in Paths : f = Resolve(p) /\ Under("workspace", f)
  BY DEF Files
<1>2. f \in Seq(Segments \ {".", ".."})
  <2> DEFINE Y == Segments \ {"."}
             q == Parts(p)
             named == q /= <<>> /\ Head(q) \in Roots
  <2>1. q \in Seq(Y)
    <3>1. \A x \in Seq(STRING) : x \in Seq(Segments)
      BY DEF Segments
    <3> QED
      BY <3>1, WorkspaceAssumption, PartsPlain
  <2>2. RunDir \in Seq(Y) /\ <<"workspace">> \in Seq(Y)
    <3>1. "runs" \in Y /\ "run" \in Y /\ "workspace" \in Y
      BY PlainSegments
    <3>2. \A a \in Y : <<a>> \in Seq(Y)
      OBVIOUS
    <3> HIDE DEF Y
    <3> QED
      BY <3>1, <3>2, RunDirIs
  <2>3. \A x, y \in Seq(Y) : x \o y \in Seq(Y)
    BY ConcatProperties
  <2>4. f = Normal(RunDir \o (IF named THEN q ELSE <<"workspace">> \o q))
    BY <1>1 DEF Resolve, Leads
  <2> HIDE DEF q, Y, named
  <2>5. (IF named THEN q ELSE <<"workspace">> \o q) \in Seq(Y)
    BY <2>1, <2>2, <2>3
  <2>6. RunDir \o (IF named THEN q ELSE <<"workspace">> \o q) \in Seq(Y)
    BY <2>2, <2>3, <2>5
  <2> QED
    BY <2>4, <2>6, NormalClean DEF Y
<1>3. Len(f) >= 3 /\ f[1] = "runs" /\ f[2] = "run" /\ f[3] = "workspace"
  <2> DEFINE w == RunDir \o <<"workspace">>
  <2>1. RunDir \in Seq(Segments) /\ <<"workspace">> \in Seq(Segments)
    <3>1. \A Z : \A a \in Z : <<a>> \in Seq(Z)
      OBVIOUS
    <3> QED
      BY <3>1, RunDirIs, PlainSegments
  <2>2. Len(w) = 3 /\ w[1] = "runs" /\ w[2] = "run" /\ w[3] = "workspace"
    <3>1. /\ Len(w) = Len(RunDir) + Len(<<"workspace">>)
          /\ \A i \in 1..(Len(RunDir) + Len(<<"workspace">>)) :
               w[i] = IF i <= Len(RunDir) THEN RunDir[i]
                      ELSE <<"workspace">>[i - Len(RunDir)]
      BY <2>1, ConcatProperties
    <3>2. Len(<<"workspace">>) = 1 /\ <<"workspace">>[1] = "workspace"
      OBVIOUS
    <3>3. Len(RunDir) = 2 /\ RunDir[1] = "runs" /\ RunDir[2] = "run"
      BY RunDirIs, PlainSegments
    <3> HIDE DEF w
    <3>4. Len(w) = 3 /\ w[1] = RunDir[1] /\ w[2] = RunDir[2] /\ w[3] = <<"workspace">>[1]
      BY <3>1, <3>2, <3>3
    <3> QED
      BY <3>2, <3>3, <3>4
  <2>3. Len(w) <= Len(f) /\ SubSeq(w, 1, 3) = SubSeq(f, 1, 3)
    BY <1>1, <2>2 DEF Under, IsPrefix
  <2> HIDE DEF w
  <2>4. Len(f) \in Nat
    BY <1>2
  <2>5. /\ SubSeq(w, 1, 3)[1] = "runs" /\ SubSeq(w, 1, 3)[2] = "run"
        /\ SubSeq(w, 1, 3)[3] = "workspace"
    <3>1. w \in Seq(Segments)
      BY <2>1, ConcatProperties DEF w
    <3> QED
      BY <2>2, <3>1
  <2>6. SubSeq(f, 1, 3)[1] = f[1] /\ SubSeq(f, 1, 3)[2] = f[2] /\ SubSeq(f, 1, 3)[3] = f[3]
    BY <1>2, <2>2, <2>3, <2>4
  <2> QED
    BY <2>2, <2>3, <2>5, <2>6
<1> QED
  BY <1>2, <1>3

LEMMA LeadsBack ==
  ASSUME NEW f \in Files
  PROVE  Resolve(Rel(f)) = f
<1> DEFINE Y == Segments \ {".", ".."}
           q == Rel(f)
<1>1. /\ f \in Seq(Y) /\ Len(f) >= 3
      /\ f[1] = "runs" /\ f[2] = "run" /\ f[3] = "workspace"
  BY FileNames
<1>2. q = SubSeq(f, 3, Len(f))
  BY DEF Rel, RunDir
<1>3. /\ q \in Seq(Y) /\ Len(q) = Len(f) - 2
      /\ \A i \in 1..(Len(f) - 2) : q[i] = f[i + 2]
  BY <1>1, <1>2, SubSeqProperties
<1>4. q /= <<>> /\ Head(q) = "workspace"
  BY <1>1, <1>3
<1>5. Parts(q) = q
  <2>1. q \in Seq(Segments \ {"."})
    BY <1>3
  <2> QED
    BY <2>1, PartsSame
<1>6. RunDir \o q = f
  <2> DEFINE h == RunDir \o q
  <2>1. RunDir \in Seq(Y) /\ Len(RunDir) = 2 /\ RunDir[1] = "runs" /\ RunDir[2] = "run"
    BY RunDirIs, PlainSegments
  <2>2. /\ h \in Seq(Y) /\ Len(h) = 2 + Len(q)
        /\ \A i \in 1..(2 + Len(q)) : h[i] = IF i <= 2 THEN RunDir[i] ELSE q[i - 2]
    <3> HIDE DEF Y, q
    <3>0. \A x, y \in Seq(Y) :
            /\ x \o y \in Seq(Y) /\ Len(x \o y) = Len(x) + Len(y)
            /\ \A i \in 1..(Len(x) + Len(y)) :
                 (x \o y)[i] = IF i <= Len(x) THEN x[i] ELSE y[i - Len(x)]
      BY ConcatProperties
    <3>1. /\ h \in Seq(Y) /\ Len(h) = Len(RunDir) + Len(q)
          /\ \A i \in 1..(Len(RunDir) + Len(q)) :
               h[i] = IF i <= Len(RunDir) THEN RunDir[i] ELSE q[i - Len(RunDir)]
      BY <1>3, <2>1, <3>0
    <3> HIDE DEF h
    <3> QED
      BY <2>1, <3>1
  <2> HIDE DEF h, q
  <2>3. \A i \in 1..Len(f) : h[i] = f[i]
    <3> SUFFICES ASSUME NEW i \in 1..Len(f) PROVE h[i] = f[i]
      OBVIOUS
    <3>1. CASE i <= 2
      BY <1>1, <1>3, <2>1, <2>2, <3>1
    <3>2. CASE i > 2
      <4>1. i - 2 \in 1..(Len(f) - 2) /\ i \in 1..(2 + Len(q))
        BY <1>1, <1>3, <3>2
      <4>2. q[i - 2] = f[(i - 2) + 2]
        BY <1>3, <4>1
      <4> QED
        BY <2>2, <3>2, <4>1, <4>2
    <3> QED
      BY <1>1, <3>1, <3>2
  <2>4. h = f
    BY <1>1, <1>3, <2>2, <2>3, SeqEqual
  <2> QED
    BY <2>4 DEF h
<1>7. Normal(f) = f
  <2>1. f \in Seq(Segments \ {".."})
    BY <1>1
  <2> QED
    BY <2>1, NormalSame
<1>8. Resolve(q) = Normal(RunDir \o q)
  BY <1>4, <1>5 DEF Resolve, Leads, Roots
<1> QED
  BY <1>6, <1>7, <1>8
-------------------------------------------------------------------------------
(* Bounds.                                                                 *)

LEMMA AtMost ==
  ASSUME NEW s \in Int, NEW t \in Int, s <= t
  PROVE  \A x, y \in Int : x <= y + s => x <= y + t
OBVIOUS

LEMMA Shifted ==
  \A h, k, s, t, a, x, y, e \in Int :
    s + a <= t /\ h <= x - e + s /\ k - h <= (y - x) + a => k <= y - e + t
OBVIOUS

LEMMA Fits ==
  \A h, w, e, l, q, s, t \in Int :
    s <= t /\ h <= (w + 0) - e + s /\ w - e + l <= q => h + l <= q + t
OBVIOUS

-------------------------------------------------------------------------------
(* Trees and records.                                                      *)

USE WorkspaceAssumption, SessionToolsAssumption

LEMMA TreeFacts ==
  ASSUME NEW t \in Trees
  PROVE  /\ DOMAIN t \subseteq Files /\ IsFiniteSet(DOMAIN t)
         /\ \A f \in DOMAIN t : t[f] \in Sizes
         /\ \A f \in Files, n \in Sizes : With(t, f, n) \in Trees
         /\ \A f : Without(t, f) \in Trees
<1>1. PICK S \in SUBSET Files : IsFiniteSet(S) /\ t \in [S -> Sizes]
  BY DEF Trees
<1>2. ASSUME NEW f \in Files, NEW n \in Sizes PROVE With(t, f, n) \in Trees
  <2>1. S \cup {f} \in SUBSET Files /\ IsFiniteSet(S \cup {f})
    BY <1>1, FS_AddElement
  <2>2. With(t, f, n) \in [S \cup {f} -> Sizes]
    BY <1>1 DEF With
  <2> QED BY <2>1, <2>2 DEF Trees
<1>3. ASSUME NEW f PROVE Without(t, f) \in Trees
  <2>1. S \ {f} \in SUBSET Files /\ IsFiniteSet(S \ {f})
    BY <1>1, FS_RemoveElement
  <2>2. Without(t, f) \in [S \ {f} -> Sizes]
    BY <1>1 DEF Without, Restrict
  <2> QED BY <2>1, <2>2 DEF Trees
<1> QED BY <1>1, <1>2, <1>3

LEMMA EmptyTree == <<>> \in Trees
<1>1. <<>> \in [{} -> Sizes]
  OBVIOUS
<1>2. {} \in SUBSET Files /\ IsFiniteSet({})
  BY FS_EmptySet
<1> QED BY <1>1, <1>2 DEF Trees

LEMMA Records ==
  /\ 0 \in Sizes /\ Sizes \subseteq Nat
  /\ NoJob \in Job /\ Over \in Job
  /\ NoWalk \in [left: SUBSET Files, sum: Nat]
  /\ Void \in Account /\ Void.void = TRUE
  /\ Main \in Actors /\ Main \notin Calls /\ Calls \subseteq Actors
<1>1. 0 \in Sizes /\ Sizes \subseteq Nat
  BY DEF Sizes
<1>2. NoJob \in Job /\ Over \in Job
  BY <1>1 DEF NoJob, Over, Job, Steps
<1>3. Void \in Account /\ Void.void = TRUE
  BY EmptyTree DEF Void, Account
<1> QED BY <1>1, <1>2, <1>3 DEF NoWalk, Main, Actors, Calls

-------------------------------------------------------------------------------
(* How many bytes a tree has.                                              *)

SizeIn(t, g) == IF g \in DOMAIN t THEN t[g] ELSE 0

\* A fold over a finite set is a function of its subsets.
SumOver(t, S, g) ==
  g = [T \in SUBSET S |-> IF T = {} THEN 0
                          ELSE t[CHOOSE x \in T : TRUE] + g[T \ {CHOOSE x \in T : TRUE}]]

LEMMA SumIs ==
  ASSUME NEW t, NEW S, \E g : SumOver(t, S, g)
  PROVE  \E g : SumOver(t, S, g) /\ SumFunctionOnSet(t, S) = g[S]
<1>1. SumFunctionOnSet(t, S) = (CHOOSE g : SumOver(t, S, g))[S]
  BY DEF SumFunctionOnSet, FoldFunctionOnSet, MapThenFoldSet, SumOver
<1>2. SumOver(t, S, CHOOSE g : SumOver(t, S, g))
  BY Zenon
<1> QED
  BY <1>1, <1>2, Zenon

LEMMA BytesFinite ==
  ASSUME NEW t, IsFiniteSet(DOMAIN t), NEW S
  PROVE  IsFiniteSet(Bytes(t, S)) /\ Held(t, S) \in Nat
<1> DEFINE D == DOMAIN t
<1>1. IsFiniteSet(D \X (1..MaxLen))
  <2> HIDE DEF D
  <2>1. 1 \in Int /\ MaxLen \in Int
    OBVIOUS
  <2>2. IsFiniteSet(1..MaxLen)
    BY <2>1, FS_Interval
  <2>3. IsFiniteSet(D)
    BY DEF D
  <2> QED
    BY <2>2, <2>3, FS_Product
<1>2. Bytes(t, S) \in SUBSET (D \X (1..MaxLen))
  <2>1. \A b \in Bytes(t, S) : b \in S \X (1..MaxLen) /\ b[1] \in D
    BY DEF Bytes
  <2> HIDE DEF D
  <2>2. \A b \in S \X (1..MaxLen) : b[1] \in D => b \in D \X (1..MaxLen)
    OBVIOUS
  <2> QED
    BY <2>1, <2>2
<1>3. IsFiniteSet(Bytes(t, S))
  BY <1>1, <1>2, FS_Subset
<1> QED
  BY <1>3, FS_CardinalityType DEF Held

LEMMA HeldEmpty == \A t : Held(t, {}) = 0
<1>1. \A t : Bytes(t, {}) = {}
  BY DEF Bytes
<1> QED
  BY <1>1, FS_EmptySet DEF Held

\* The bytes of one file apart.
LEMMA HeldApart ==
  ASSUME NEW t, IsFiniteSet(DOMAIN t), \A f \in DOMAIN t : t[f] \in Sizes,
         NEW S, NEW g
  PROVE  Held(t, S) = Held(t, S \ {g}) + (IF g \in S THEN SizeIn(t, g) ELSE 0)
<1>1. CASE g \notin S
  <2>1. S \ {g} = S
    BY <1>1
  <2>2. Held(t, S \ {g}) = Held(t, S)
    BY <2>1
  <2>3. Held(t, S) \in Nat
    BY BytesFinite
  <2> QED
    BY <1>1, <2>2, <2>3
<1>2. CASE g \in S
  <2> DEFINE A == Bytes(t, S \ {g})
             k == SizeIn(t, g)
             B == {g} \X (1..k)
  <2>1. k \in 0..MaxLen
    BY DEF SizeIn, Sizes
  <2>2. Bytes(t, S) = A \cup B
    <3>1. \A i : i \in 1..k <=> i \in 1..MaxLen /\ g \in DOMAIN t /\ i <= t[g]
      BY DEF SizeIn, Sizes
    <3> HIDE DEF k
    <3>2. \A b : b \in Bytes(t, S) <=> b \in A \cup B
      BY <1>2, <3>1 DEF Bytes
    <3> QED
      BY <3>2
  <2>3. A \cap B = {}
    BY DEF Bytes
  <2>4. IsFiniteSet(A) /\ Cardinality(A) \in Nat
    BY BytesFinite DEF Held
  <2>5. IsFiniteSet(B) /\ Cardinality(B) = k
    <3>1. IsFiniteSet(1..k) /\ Cardinality(1..k) = k
      BY <2>1, FS_Interval
    <3> HIDE DEF k
    <3>2. IsFiniteSet({g}) /\ Cardinality({g}) = 1
      BY FS_Singleton
    <3>3. \A C, D : IsFiniteSet(C) /\ IsFiniteSet(D) =>
            IsFiniteSet(C \X D) /\ Cardinality(C \X D) = Cardinality(C) * Cardinality(D)
      BY FS_Product
    <3>4. IsFiniteSet(B) /\ Cardinality(B) = Cardinality({g}) * Cardinality(1..k)
      BY <3>1, <3>2, <3>3, Zenon
    <3> QED
      BY <2>1, <3>1, <3>2, <3>4
  <2> HIDE DEF A, B, k
  <2>6. Cardinality(A \cup B) = Cardinality(A) + k
    <3>1. Cardinality(A \cup B) = Cardinality(A) + Cardinality(B) - Cardinality(A \cap B)
      BY <2>4, <2>5, FS_Union
    <3>2. Cardinality(A \cap B) = 0
      BY <2>3, FS_EmptySet
    <3> QED
      BY <2>1, <2>4, <2>5, <3>1, <3>2
  <2> QED
    BY <1>2, <2>2, <2>6 DEF Held, A, k
<1> QED
  BY <1>1, <1>2

\* Two trees that differ at file g at most.
Alike(t, u, g) ==
  \A f : f /= g => /\ f \in DOMAIN t <=> f \in DOMAIN u
                   /\ f \in DOMAIN t => t[f] = u[f]

\* A file elsewhere does not count.
LEMMA HeldElsewhere ==
  ASSUME NEW t, NEW u, NEW g, Alike(t, u, g)
  PROVE  \A S : Held(t, S \ {g}) = Held(u, S \ {g})
<1> SUFFICES ASSUME NEW S PROVE Held(t, S \ {g}) = Held(u, S \ {g})
  OBVIOUS
<1>1. \A b \in (S \ {g}) \X (1..MaxLen) :
        (b[1] \in DOMAIN t /\ b[2] <= t[b[1]]) <=> (b[1] \in DOMAIN u /\ b[2] <= u[b[1]])
  BY DEF Alike
<1>2. Bytes(t, S \ {g}) = Bytes(u, S \ {g})
  BY <1>1 DEF Bytes
<1> QED
  BY <1>2 DEF Held

\* The sum of a tree's sizes is the number of its bytes: of two functions that
\* go by the equation of the sum there would be a smallest set they differ at.
LEMMA SumIsHeld ==
  ASSUME NEW t, NEW S, IsFiniteSet(S), S \subseteq DOMAIN t, IsFiniteSet(DOMAIN t),
         \A f \in DOMAIN t : t[f] \in Sizes
  PROVE  SumFunctionOnSet(t, S) = Held(t, S)
<1> DEFINE h == [T \in SUBSET S |-> Held(t, T)]
<1>1. ASSUME NEW T \in SUBSET S, T /= {}
      PROVE  LET x == CHOOSE x \in T : TRUE
             IN  x \in T /\ T \ {x} \in SUBSET S /\ Held(t, T) = t[x] + Held(t, T \ {x})
  <2> DEFINE x == CHOOSE y \in T : TRUE
  <2>1. x \in T
    BY <1>1
  <2> HIDE DEF x
  <2>2. Held(t, T) = Held(t, T \ {x}) + t[x]
    BY <2>1, HeldApart DEF SizeIn
  <2>3. Held(t, T \ {x}) \in Nat /\ t[x] \in Nat
    BY <2>1, BytesFinite DEF Sizes
  <2>4. Held(t, T) = t[x] + Held(t, T \ {x})
    BY <2>2, <2>3
  <2> QED
    BY <2>1, <2>4 DEF x
<1>2. SumOver(t, S, h)
  <2>1. ASSUME NEW T \in SUBSET S
        PROVE  h[T] = IF T = {} THEN 0
                      ELSE t[CHOOSE x \in T : TRUE] + h[T \ {CHOOSE x \in T : TRUE}]
    BY <1>1, HeldEmpty
  <2> QED
    BY <2>1 DEF SumOver
<1>3. PICK g : SumOver(t, S, g) /\ SumFunctionOnSet(t, S) = g[S]
  BY <1>2, SumIs
<1>4. ASSUME NEW T \in SUBSET S, g[T] /= Held(t, T),
             \A U \in SUBSET S : g[U] /= Held(t, U) => <<U, T>> \notin StrictSubsetOrdering(S)
      PROVE  FALSE
  <2> DEFINE x == CHOOSE y \in T : TRUE
  <2>1. T /= {}
    BY <1>3, <1>4, HeldEmpty DEF SumOver
  <2>2. x \in T /\ T \ {x} \in SUBSET S /\ Held(t, T) = t[x] + Held(t, T \ {x})
    BY <1>1, <2>1
  <2>3. g[T] = t[x] + g[T \ {x}]
    BY <1>3, <2>1 DEF SumOver
  <2> HIDE DEF x
  <2>4. <<T \ {x}, T>> \in StrictSubsetOrdering(S)
    BY <2>2 DEF StrictSubsetOrdering
  <2> QED
    BY <1>4, <2>2, <2>3, <2>4
<1>5. \A T \in SUBSET S : g[T] = Held(t, T)
  <2> DEFINE B == {T \in SUBSET S : g[T] /= Held(t, T)}
  <2> SUFFICES ASSUME B /= {} PROVE FALSE
    OBVIOUS
  <2>1. B \subseteq FiniteSubsetsOf(S)
    BY FS_Subset DEF FiniteSubsetsOf
  <2>2. PICK T \in B : \A U \in B : <<U, T>> \notin StrictSubsetOrdering(S)
    <3> HIDE DEF B
    <3> QED
      BY <2>1, FS_StrictSubsetOrderingWellFounded, WFMin
  <2> QED
    BY <1>4, <2>2
<1> QED
  BY <1>3, <1>5

\* So is the total of a tree, wherever one looks for its files.
LEMMA TotalIsHeld ==
  ASSUME NEW t, IsFiniteSet(DOMAIN t), \A f \in DOMAIN t : t[f] \in Sizes,
         NEW S, DOMAIN t \subseteq S
  PROVE  Total(t) = Held(t, S)
<1>1. Total(t) = SumFunctionOnSet(t, DOMAIN t)
  BY DEF Total, SumFunction
<1>2. Bytes(t, DOMAIN t) = Bytes(t, S)
  BY DEF Bytes
<1> QED
  BY <1>1, <1>2, SumIsHeld DEF Held
-------------------------------------------------------------------------------
(* Types.                                                                  *)

LEMMA FilesTyped == FilesInit => FilesTypeOK
<1> SUFFICES ASSUME FilesInit PROVE FilesTypeOK
  OBVIOUS
<1>1. tree \in Trees /\ outside \in BOOLEAN
  BY DEF FilesInit
<1>2. account \in Account
  BY <1>1 DEF FilesInit, Account
<1> QED BY <1>1, <1>2, Records DEF FilesInit, FilesTypeOK

LEMMA WalkTyped ==
  ASSUME FilesTypeOK, NEW a \in Actors
  PROVE  /\ ListFiles(a) => walks' \in [Actors -> [left: SUBSET Files, sum: Nat]]
         /\ StatOne(a) => walks' \in [Actors -> [left: SUBSET Files, sum: Nat]]
         /\ Forget(a) => walks' \in [Actors -> [left: SUBSET Files, sum: Nat]]
<1> USE Records, TreeFacts DEF FilesTypeOK
<1>1. ListFiles(a) => walks' \in [Actors -> [left: SUBSET Files, sum: Nat]]
  BY DEF ListFiles
<1>2. ASSUME StatOne(a) PROVE walks' \in [Actors -> [left: SUBSET Files, sum: Nat]]
  <2>1. tree[NextListed(a)] \in Nat
    BY <1>2 DEF StatOne
  <2> QED BY <1>2, <2>1 DEF StatOne
<1>3. Forget(a) => walks' \in [Actors -> [left: SUBSET Files, sum: Nat]]
  BY DEF Forget
<1> QED BY <1>1, <1>2, <1>3

LEMMA TellsTyped ==
  ASSUME FilesTypeOK, NEW c \in Calls, jobs[c].file \in Files
  PROVE  Tells(c) \in Account
<1> USE Records DEF FilesTypeOK
<1>1. /\ account.tree \in Trees /\ jobs[c].len \in Sizes
      /\ walks[c].sum \in Nat
  BY DEF Account, Job
<1>2. /\ With(account.tree, jobs[c].file, jobs[c].len) \in Trees
      /\ Without(account.tree, jobs[c].file) \in Trees
  BY <1>1, TreeFacts
<1> QED BY <1>1, <1>2 DEF Tells, Account

LEMMA JobTyped ==
  ASSUME jobs \in [Calls -> Job], NEW c \in Calls
  PROVE  /\ Ends(c) => jobs' \in [Calls -> Job]
         /\ \A step \in Steps : Goes(c, step) => jobs' \in [Calls -> Job]
<1>1. Ends(c) => jobs' \in [Calls -> Job]
  BY Records DEF Ends
<1>2. ASSUME NEW step \in Steps, Goes(c, step) PROVE jobs' \in [Calls -> Job]
  <2>1. [jobs[c] EXCEPT !.at = step] \in Job
    BY DEF Job
  <2> QED BY <1>2, <2>1 DEF Goes
<1> QED BY <1>1, <1>2

\* A step of a call keeps the types of the files.
LEMMA FileCallTyped ==
  ASSUME FilesTypeOK, NEW c \in Calls, FileCallStep(c),
         Working(c) /\ ~At(c, "begun") => jobs[c].file \in Files
  PROVE  FilesTypeOK'
<1> USE WalkTyped, JobTyped DEF FilesTypeOK
<1>0. c \in Actors /\ jobs[c] \in Job
  BY Records
<1>1. CASE Refuse(c)
  BY <1>1 DEF Refuse
<1>2. CASE StatExisting(c)
  <2>1. (IF jobs[c].file \in DOMAIN tree THEN tree[jobs[c].file] ELSE 0) \in Sizes
    BY Records, TreeFacts
  <2>2. jobs' \in [Calls -> Job]
    BY <1>0, <1>2, <2>1 DEF StatExisting, Job, Steps
  <2> QED BY <1>2, <2>2 DEF StatExisting
<1>3. CASE ListForCall(c)
  BY <1>0, <1>3 DEF ListForCall, Steps
<1>4. CASE StatForCall(c)
  BY <1>0, <1>4 DEF StatForCall
<1>5. CASE WalkRaises(c)
  BY <1>0, <1>5 DEF WalkRaises
<1>6. CASE Weigh(c)
  BY <1>0, <1>6 DEF Weigh, Steps
<1>7. CASE Put(c)
  <2>1. jobs[c].file \in Files /\ jobs[c].len \in Sizes
    BY <1>0, <1>7 DEF Put, At, Working, Job
  <2>2. tree' \in Trees
    BY <1>7, <2>1, TreeFacts DEF Put
  <2> QED BY <1>7, <2>2 DEF Put, Steps
<1>8. CASE StartUnlink(c)
  BY <1>8 DEF StartUnlink, Steps
<1>9. CASE Unlink(c)
  BY <1>9, TreeFacts DEF Unlink, Steps
<1>10. CASE Emit(c)
  <2>1. jobs[c].file \in Files
    BY <1>10 DEF Emit, At, Working
  <2> QED BY <1>0, <1>10, <2>1, TellsTyped DEF Emit
<1> QED BY <1>1, <1>2, <1>3, <1>4, <1>5, <1>6, <1>7, <1>8, <1>9, <1>10
        DEF FileCallStep

\* So does whatever changes files in the session's own thread, or from outside.
LEMMA FilesElseTyped ==
  ASSUME FilesTypeOK,
         NEW c \in Calls
  PROVE  /\ \A kind \in {"write", "delete"}, path \in Paths, len \in Sizes :
              BeginFileCall(c, kind, path, len) => FilesTypeOK'
         /\ AgentProcess => FilesTypeOK'
         /\ (jobs[c].file \in Files \/ ~Working(c)) /\ PutFails(c) => FilesTypeOK'
<1> USE Records DEF FilesTypeOK
<1>1. ASSUME NEW kind \in {"write", "delete"}, NEW path \in Paths, NEW len \in Sizes,
             BeginFileCall(c, kind, path, len)
      PROVE  FilesTypeOK'
  <2>1. ASSUME Resolve(path) \in Files
        PROVE  [NoJob EXCEPT !.at = "begun", !.kind = kind, !.file = Resolve(path),
                             !.len = len] \in Job
    BY <2>1 DEF NoJob, Job, Steps
  <2>2. [NoJob EXCEPT !.at = "begun"] \in Job
    BY DEF NoJob, Job, Steps
  <2> QED BY <1>1, <2>1, <2>2 DEF BeginFileCall
<1>2. ASSUME AgentProcess PROVE FilesTypeOK'
  BY <1>2, TreeFacts DEF AgentProcess
<1>3. ASSUME jobs[c].file \in Files \/ ~Working(c), PutFails(c) PROVE FilesTypeOK'
  <2>1. jobs[c].file \in Files
    BY <1>3 DEF PutFails, At, Working
  <2>2. 0..jobs[c].len \subseteq Sizes
    BY DEF Job, Sizes
  <2>3. \A n \in 0..jobs[c].len : With(tree, jobs[c].file, n) \in Trees
    <3>1. \A n \in Sizes : With(tree, jobs[c].file, n) \in Trees
      BY <2>1, TreeFacts
    <3> QED BY <2>2, <3>1
  <2>4. tree' \in Trees
    BY <1>3, <2>3 DEF PutFails
  <2> QED BY <1>3, <2>4, JobTyped DEF PutFails
<1> QED BY <1>1, <1>2, <1>3

\* The rest of the types, which no value of another actor's decides.
ThreadTypeOK ==
  /\ pc \in Pcs
  /\ how \in {"ran", "refused", "aborted", "crashed"}
  /\ calls \in 0..MaxCalls /\ given \in SUBSET Calls

ContainerTypeOK ==
  /\ count \in Counts /\ troubles \in 0..MaxTroubles
  /\ last \in Counts \cup {None} /\ known \in Counts \cup {None}
  /\ up \in BOOLEAN /\ down \in BOOLEAN /\ reset \in BOOLEAN
  /\ restarted \in BOOLEAN /\ owed \in BOOLEAN

LEMMA Types ==
  TypeOK <=> FilesTypeOK /\ Client!ClientTypeOK /\ ThreadTypeOK /\ ContainerTypeOK
BY DEF TypeOK, ThreadTypeOK, ContainerTypeOK

LEMMA ThreadTyped == TypeOK /\ CallsInv /\ [Next]_vars => ThreadTypeOK'
<1> SUFFICES ASSUME ThreadTypeOK, CallsInv, [Next]_vars PROVE ThreadTypeOK'
  BY Types
<1> USE DEF ThreadTypeOK
<1>1. CASE UNCHANGED vars \/ Threads \/ Trouble
  BY <1>1 DEF vars, mainVars, Threads, Trouble
<1>2. CASE Own
  <2> USE DEF Goto, Elsewhere, Pcs, Closing, CrashesTo, mainVars
  <2>1. CASE Connected \/ Unconnected \/ RefusePairing \/ Paired \/ OpeningSnapshot
    BY <2>1 DEF Connected, Unconnected, RefusePairing, Paired, OpeningSnapshot
  <2>2. CASE MainStat \/ MainVanished \/ Weighed \/ Indexed
             \/ Briefed \/ AskBalances \/ Balanced
    BY <2>2 DEF MainStat, MainVanished, Weighed, Indexed, Briefed, AskBalances,
       Balanced, Injected
  <2>3. CASE LookForPlan \/ ReadPlan \/ Return
    BY <2>3 DEF LookForPlan, ReadPlan, Return
  <2>4. CASE DispatchFileCall \/ DispatchHarnessCall
    BY <2>4 DEF DispatchFileCall, DispatchHarnessCall
  <2>5. CASE GiveUp
    <3>1. Current \in Calls
      BY <2>5 DEF GiveUp, CallsInv, Current, Calls
    <3> QED BY <2>5, <3>1 DEF GiveUp
  <2>6. CASE ClosingSnapshot \/ Ended \/ BeginClose \/ StopLoop \/ Exit
    BY <2>6 DEF ClosingSnapshot, Ended, BeginClose, StopLoop, Exit
  <2> QED BY <1>2, <2>1, <2>2, <2>3, <2>4, <2>5, <2>6 DEF Own
<1> QED BY <1>1, <1>2 DEF Next

\* Before the opening snapshot, and from the closing one on.
Early == {"spawn", "pairing", "opening"}
Late == Unpaired \cup {"weighClosing"}

\* A step of the session's thread that leaves the container's bookkeeping alone.
GoesOnFrom ==
  /\ pc' \in Early => pc \in Early
  /\ pc' \notin Late => pc \notin Late \/ pc \in Early

LEMMA SnapshotStep ==
  ASSUME ContainerTypeOK, ContainerInv, Snapshot,
         (pc = "opening" /\ pc' = "weighOpening") \/ (pc = "loop" /\ pc' = "weighClosing")
  PROVE  ContainerTypeOK' /\ ContainerInv'
<1> USE DEF ContainerTypeOK, Counts, None
<1>1. /\ count <= Restarts + troubles
      /\ reset => down
      /\ down => known /= None
      /\ known /= None /\ ~reset => count >= known
      /\ known /= None /\ ~reset /\ ~down => up /\ count = known
      /\ known /= None /\ ~reset /\ up /\ down => count > known
  BY DEF ContainerInv
<1>2. last \in {None, known} /\ (pc = "opening" => last = known)
  BY DEF ContainerInv, Unpaired, Closing
<1>3. pc' \notin Early
  BY DEF Early
<1>4. Restarts \in Nat /\ MaxTroubles \in Nat
  BY SessionToolsAssumption
\* What a row says and what it has to.
<1>5. ASSUME ContainerTypeOK', count' <= Restarts + troubles',
             reset' => down', down' => known' /= None,
             known' /= None /\ ~reset' =>
               /\ count' >= known'
               /\ ~down' => up' /\ count' = known'
               /\ up' /\ down' => count' > known',
             pc' = "weighOpening" => last' \in {None, known'},
             owed' => restarted' \/ Blind'
      PROVE  ContainerTypeOK' /\ ContainerInv'
  BY <1>5, <1>3 DEF ContainerInv, Unpaired, Closing
<1>6. CASE \E started \in BOOLEAN : Unread(started) /\ (started \/ UNCHANGED <<up, count>>)
                                     /\ (started => Start)
  <2>1. PICK started \in BOOLEAN :
          Unread(started) /\ (started \/ UNCHANGED <<up, count>>) /\ (started => Start)
    BY <1>6
  <2>2. /\ restarted' = started /\ owed' = started
        /\ last' = IF pc = "opening" THEN None ELSE last
        /\ reset' = (reset \/ (started /\ known /= None))
        /\ known' = known /\ down' = down
    BY <2>1 DEF Unread
  <2>3. troubles' \in 0..MaxTroubles /\ troubles' = troubles + 1
    BY <1>4, <2>1 DEF Unread, Befalls
  <2>4. /\ started => ~up /\ up' = TRUE /\ count' = 0
        /\ ~started => up' = up /\ count' = count
    BY <2>1 DEF Start
  <2>5. count' \in Counts /\ up' \in BOOLEAN /\ count' <= Restarts + troubles'
    <3>1. \A m, n, k, k1 \in Nat : k1 = k + 1 /\ m <= n + k => m <= n + k1 /\ 0 <= n + k1
      OBVIOUS
    <3>2. count \in Nat /\ troubles \in Nat /\ troubles' \in Nat
      BY <1>4, <2>3
    <3>3. count <= Restarts + troubles' /\ 0 <= Restarts + troubles'
      BY <1>1, <1>4, <2>3, <3>1, <3>2
    <3>4. 0 \in Counts
      BY <1>4
    <3>5. CASE started
      BY <2>4, <3>3, <3>4, <3>5
    <3>6. CASE ~started
      BY <2>4, <3>3, <3>6
    <3> QED BY <3>5, <3>6
  <2>6. ContainerTypeOK'
    BY <2>2, <2>3, <2>5
  <2>7. reset' => down'
    BY <1>1, <2>2, <2>4
  <2>8. known' /= None /\ ~reset' =>
               /\ count' >= known'
               /\ ~down' => up' /\ count' = known'
               /\ up' /\ down' => count' > known'
    BY <1>1, <2>2, <2>4
  <2> QED BY <1>1, <1>5, <2>2, <2>5, <2>6, <2>7, <2>8
<1>7. ASSUME NEW started \in BOOLEAN, NEW seen \in Counts, Read(started, seen),
             up' = TRUE, count' = seen,
             started => seen = 0,
             ~started => up /\ seen = count
      PROVE  ContainerTypeOK' /\ ContainerInv'
  <2>1. /\ restarted' = (started \/ Moved(seen))
        /\ last' = IF pc = "opening" THEN seen ELSE last
        /\ owed' = (started \/ Went(seen))
        /\ known' = seen /\ down' = FALSE /\ reset' = FALSE
        /\ troubles' = troubles
    BY <1>7 DEF Read
  <2>2. count' <= Restarts + troubles'
    BY <1>1, <1>4, <1>7, <2>1
  <2>3. Moved(seen) \in BOOLEAN /\ Went(seen) \in BOOLEAN
    BY DEF Moved, Went
  <2>4. ContainerTypeOK'
    BY <1>7, <2>1, <2>3
  <2>5. ASSUME owed' PROVE restarted' \/ Blind'
    <3>1. CASE started
      BY <2>1, <3>1
    <3>2. CASE ~started
      <4>1. down /\ seen /= known
        <5>1. down /\ ~(reset /\ seen = known)
          BY <2>1, <2>5, <3>2 DEF Went
        <5>2. CASE reset
          BY <5>1, <5>2
        <5>3. CASE ~reset
          <6>1. seen > known /\ known \in Counts
            BY <1>1, <1>7, <3>2, <5>1, <5>3
          <6> QED BY <1>4, <1>7, <5>1, <6>1
        <5> QED BY <5>2, <5>3
      <4>2. CASE last = known
        BY <1>1, <2>1, <4>1, <4>2 DEF Moved
      <4>3. CASE last /= known
        BY <1>2, <2>1, <4>3 DEF Blind
      <4> QED BY <4>2, <4>3
    <3> QED BY <3>1, <3>2
  <2> QED BY <1>5, <1>7, <2>1, <2>2, <2>4, <2>5
<1>8. CASE Start /\ Read(TRUE, 0)
  <2>1. 0 \in Counts
    BY <1>4
  <2> QED BY <1>7, <1>8, <2>1 DEF Start
<1>9. CASE up /\ Read(FALSE, count) /\ UNCHANGED <<up, count>>
  BY <1>7, <1>9
<1> QED BY <1>6, <1>8, <1>9 DEF Snapshot

LEMMA ContainerStep ==
  ThreadTypeOK /\ ContainerTypeOK /\ ContainerInv /\ [Next]_vars
    => ContainerTypeOK' /\ ContainerInv'
<1> SUFFICES ASSUME ThreadTypeOK, ContainerTypeOK, ContainerInv, [Next]_vars
             PROVE  ContainerTypeOK' /\ ContainerInv'
  OBVIOUS
<1>1. ASSUME UNCHANGED <<containerVars, troubles>>,
             UNCHANGED pc \/ (pc /= "weighClosing" /\ GoesOnFrom)
      PROVE  ContainerTypeOK' /\ ContainerInv'
  BY <1>1 DEF ContainerTypeOK, ContainerInv, containerVars, history, GoesOnFrom, Early,
     Late, Blind
<1>2. CASE Own
  <2> USE DEF Goto, Elsewhere, GoesOnFrom, Early, Late, Unpaired, Closing
  <2>1. CASE OpeningSnapshot \/ ClosingSnapshot
    BY <2>1, SnapshotStep DEF OpeningSnapshot, ClosingSnapshot
  <2>2. CASE MainVanished \/ Weighed \/ Ended
    <3>1. /\ UNCHANGED <<up, count, last, history, troubles>> /\ GoesOnFrom
          /\ restarted' = FALSE /\ owed' = FALSE
      BY <1>2, <2>2 DEF MainVanished, Weighed, Ended, RowOver, Own, CrashesTo,
         OpeningSnapshot, ClosingSnapshot
    <3> QED BY <3>1 DEF ContainerTypeOK, ContainerInv, history
  <2>3. CASE BeginClose
    <3>1. /\ UNCHANGED <<up, count, restarted, owed, troubles>> /\ pc = "close"
          /\ last' = None /\ known' = None /\ down' = FALSE /\ reset' = FALSE
          /\ pc' = "unwind"
      BY <1>2, <2>3 DEF BeginClose, Own, OpeningSnapshot, ClosingSnapshot
    <3>2. owed => restarted
      BY <3>1 DEF ContainerInv, Blind
    <3> QED BY <3>1, <3>2 DEF ContainerTypeOK, ContainerInv
  <2>4. CASE MainStat
    BY <1>1, <1>2, <2>4 DEF MainStat, mainVars, Own, OpeningSnapshot, ClosingSnapshot
  <2>5. CASE Connected \/ Unconnected \/ RefusePairing \/ Paired \/ Indexed
    BY <1>1, <1>2, <2>5 DEF Connected, Unconnected, RefusePairing, Paired,
       Indexed, Own, OpeningSnapshot, ClosingSnapshot
  <2>6. CASE \/ Briefed \/ AskBalances \/ Balanced \/ LookForPlan \/ ReadPlan
             \/ DispatchFileCall \/ DispatchHarnessCall
    BY <1>1, <1>2, <2>6 DEF Briefed, AskBalances, Balanced, Injected, LookForPlan,
       ReadPlan, CrashesTo, DispatchFileCall, DispatchHarnessCall, Own, OpeningSnapshot,
       ClosingSnapshot
  <2>7. CASE Return \/ GiveUp \/ StopLoop \/ Exit
    BY <1>1, <1>2, <2>7 DEF Return, GiveUp, StopLoop, Exit, Own, OpeningSnapshot,
       ClosingSnapshot
  <2> QED BY <1>2, <2>1, <2>2, <2>3, <2>4, <2>5, <2>6, <2>7 DEF Own
<1>3. CASE Threads
  BY <1>1, <1>3 DEF Threads, mainVars
<1>4. CASE Trouble
  <2>1. troubles' \in 0..MaxTroubles /\ troubles' = troubles + 1 /\ UNCHANGED pc
    BY <1>4, SessionToolsAssumption DEF Trouble, Befalls, mainVars, ContainerTypeOK
  <2>2. /\ UNCHANGED <<last, known, reset, restarted, owed>>
        /\ \/ UNCHANGED <<up, count, down>>
           \/ up' = FALSE /\ down' = (known /= None) /\ count' = count
           \/ up' = TRUE /\ down' = (known /= None) /\ count' = count + 1
    BY <1>4 DEF Trouble, ContainerStops, PolicyRestarts, WentDown, AgentActs,
       containerVars, history
  <2>3. count' \in Counts /\ count' <= Restarts + troubles'
    BY <2>1, <2>2, SessionToolsAssumption DEF ContainerTypeOK, ContainerInv, Counts
  <2>4. ContainerTypeOK'
    <3>1. (known /= None) \in BOOLEAN
      OBVIOUS
    <3> QED BY <2>1, <2>2, <2>3, <3>1 DEF ContainerTypeOK
  <2>5. ContainerInv'
    BY <2>1, <2>2, <2>3 DEF ContainerTypeOK, ContainerInv, Blind, Counts, None
  <2> QED BY <2>4, <2>5
<1>5. CASE UNCHANGED vars
  BY <1>1, <1>5 DEF vars, mainVars
<1> QED BY <1>2, <1>3, <1>4, <1>5 DEF Next

-------------------------------------------------------------------------------
(* The client of the harness.                                              *)

\* A step of the loop's thread, or of the child, for the parts of ClientInv.
LEMMA ClientThread ==
  ASSUME Client!ClientTypeOK, ClientInv, Client!LoopThread \/ Client!ChildDies,
         UNCHANGED mainVars, pc /= "gone"
  PROVE  Client!ClientTypeOK' /\ ClientInv'
<1> USE DEF Client!ClientTypeOK, ClientInv, mainVars, Closed
<1>1. CASE Client!Handshake
  BY <1>1 DEF Client!Handshake, Client!Turning
<1>2. CASE Client!HandshakeFails
  BY <1>2 DEF Client!HandshakeFails, Client!Turning
<1>3. CASE Client!BeginUnwind
  BY <1>3 DEF Client!BeginUnwind, Client!Turning
<1>4. CASE Client!EndUnwind
  BY <1>4 DEF Client!EndUnwind, Client!Turning
<1>5. CASE Client!StopTaken
  BY <1>5 DEF Client!StopTaken
<1>6. ASSUME NEW a \in Actors, Client!Answer(a) \/ Client!CallFails(a)
      PROVE  Client!ClientTypeOK' /\ ClientInv'
  BY <1>6, Records DEF Client!Answer, Client!CallFails, Client!Settle, Client!Asked
<1>7. CASE Client!ChildDies
  BY <1>7 DEF Client!ChildDies
<1> QED BY <1>1, <1>2, <1>3, <1>4, <1>5, <1>6, <1>7 DEF Client!LoopThread

LEMMA ClientOwn ==
  ASSUME Client!ClientTypeOK, ClientInv, ThreadTypeOK, CallsInv, Own
  PROVE  Client!ClientTypeOK' /\ ClientInv'
<1> USE Records DEF Client!ClientTypeOK, ClientInv, ThreadTypeOK, Pcs, Unpaired,
   Closing,
        Closed, Goto, Elsewhere
<1>1. CASE Connected \/ Unconnected \/ RefusePairing \/ Paired \/ OpeningSnapshot
  BY <1>1 DEF Connected, Unconnected, RefusePairing, Paired, OpeningSnapshot, clientVars
<1>2. CASE MainStat \/ MainVanished \/ Weighed
  BY <1>2 DEF MainStat, MainVanished, Weighed, CrashesTo, clientVars, mainVars
<1>3. CASE Indexed \/ AskBalances
  BY <1>3 DEF Indexed, AskBalances, Client!Execute, Client!Asked
<1>4. CASE Briefed \/ Balanced
  BY <1>4 DEF Briefed, Balanced, Injected, Client!Take, Client!Asked
<1>5. CASE LookForPlan \/ ReadPlan \/ GiveUp
  BY <1>5 DEF LookForPlan, ReadPlan, GiveUp, CrashesTo, clientVars
<1>6. CASE DispatchFileCall
  BY <1>6 DEF DispatchFileCall, clientVars
<1>7. CASE DispatchHarnessCall
  <2>1. calls' \in Calls /\ calls' /= Main
    BY <1>7 DEF DispatchHarnessCall, Calls, Main
  <2> QED BY <1>7, <2>1 DEF DispatchHarnessCall, Client!Execute, Client!Asked
<1>8. CASE Return
  <2>1. Current \in Calls /\ Current /= Main
    BY <1>8 DEF Return, CallsInv, Current, Calls, Main
  <2> QED BY <1>8, <2>1 DEF Return, Client!Take, Client!Asked
<1>9. CASE ClosingSnapshot \/ Ended
  BY <1>9 DEF ClosingSnapshot, Ended, clientVars
<1>10. CASE BeginClose
  BY <1>10 DEF BeginClose, Client!CloseTell
<1>11. CASE StopLoop
  BY <1>11 DEF StopLoop, Client!CloseStop
<1>12. CASE Exit
  <2>1. /\ evloop' \in {evloop, "closed"}
        /\ UNCHANGED <<child, manager, session, ready, shutdown, futures>>
    BY <1>12 DEF Exit, Client!CloseLoop
  <2>2. pc' = "gone" /\ futures'[Main] = "none"
    BY <1>12, <2>1 DEF Exit
  <2> QED BY <2>1, <2>2
<1> QED BY <1>1, <1>2, <1>3, <1>4, <1>5, <1>6, <1>7, <1>8, <1>9, <1>10, <1>11, <1>12
        DEF Own

LEMMA ClientStep ==
  Client!ClientTypeOK /\ ClientInv /\ ThreadTypeOK /\ CallsInv /\ [Next]_vars
    => Client!ClientTypeOK' /\ ClientInv'
<1> SUFFICES ASSUME Client!ClientTypeOK, ClientInv, ThreadTypeOK, CallsInv, [Next]_vars
             PROVE  Client!ClientTypeOK' /\ ClientInv'
  OBVIOUS
<1>1. ASSUME UNCHANGED clientVars, UNCHANGED mainVars
      PROVE  Client!ClientTypeOK' /\ ClientInv'
  BY <1>1 DEF clientVars, mainVars, Client!ClientTypeOK, ClientInv, Closed
<1>2. CASE UNCHANGED vars
  BY <1>1, <1>2 DEF vars
<1>3. CASE Threads
  BY <1>1, <1>3, ClientThread DEF Threads
<1>4. CASE Trouble
  BY <1>1, <1>4, ClientThread DEF Trouble, ContainerStops, PolicyRestarts, AgentActs
<1> QED BY <1>2, <1>3, <1>4, ClientOwn DEF Next

-------------------------------------------------------------------------------
(* The files, and the calls in their order.                                *)

LEMMA FilesStep ==
  FilesTypeOK /\ ThreadTypeOK /\ CallsInv /\ [Next]_vars => FilesTypeOK'
<1> SUFFICES ASSUME FilesTypeOK, ThreadTypeOK, CallsInv, [Next]_vars PROVE FilesTypeOK'
  OBVIOUS
<1> USE Records
<1>1. CASE UNCHANGED fileVars
  BY <1>1 DEF fileVars, FilesTypeOK
<1>2. CASE Own
  <2>1. ASSUME UNCHANGED <<tree, jobs, account, outside>>,
               \/ ListFiles(Main) \/ StatOne(Main) \/ Forget(Main)
        PROVE  FilesTypeOK'
    BY <2>1, WalkTyped DEF FilesTypeOK
  <2>2. CASE Connected \/ Unconnected \/ RefusePairing \/ Paired
    BY <1>1, <2>2 DEF Connected, Unconnected, RefusePairing, Paired, Elsewhere
  <2>3. CASE OpeningSnapshot \/ MainStat \/ MainVanished \/ Weighed \/ Indexed
             \/ ClosingSnapshot \/ Ended
    BY <2>1, <2>3 DEF OpeningSnapshot, MainStat, MainVanished, Weighed, Indexed,
       ClosingSnapshot, Ended
  <2>4. CASE \/ Briefed \/ AskBalances \/ Balanced \/ LookForPlan \/ ReadPlan
             \/ Return \/ StopLoop \/ Exit
    BY <1>1, <2>4 DEF Briefed, AskBalances, Balanced, Injected, LookForPlan,
       ReadPlan, Return, StopLoop, Exit,
       Elsewhere
  <2>5. CASE DispatchFileCall
    <3>1. calls' \in Calls
      BY <2>5 DEF DispatchFileCall, ThreadTypeOK, Calls
    <3> QED BY <2>5, <3>1, FilesElseTyped DEF DispatchFileCall
  <2>6. CASE DispatchHarnessCall
    BY <1>1, <2>6 DEF DispatchHarnessCall
  <2>7. CASE GiveUp
    <3>1. account' \in Account
      BY <2>7 DEF GiveUp, FilesTypeOK
    <3> QED BY <2>7, <3>1 DEF GiveUp, FilesTypeOK
  <2>8. CASE BeginClose
    BY <2>8 DEF BeginClose, FilesTypeOK
  <2> QED BY <1>2, <2>2, <2>3, <2>4, <2>5, <2>6, <2>7, <2>8 DEF Own
<1>3. CASE Threads
  <2>1. ASSUME NEW c \in Calls, FileCallStep(c) PROVE FilesTypeOK'
    BY <2>1, FileCallTyped DEF CallsInv
  <2> QED BY <1>1, <1>3, <2>1 DEF Threads
<1>4. CASE Trouble
  <2>1. ASSUME NEW c \in Calls, PutFails(c) PROVE FilesTypeOK'
    <3>1. jobs[c].file \in Files
      BY <2>1 DEF CallsInv, PutFails, At, Working
    <3> QED BY <2>1, <3>1, FilesElseTyped
  <2>2. ASSUME AgentProcess PROVE FilesTypeOK'
    BY <2>2, TreeFacts DEF AgentProcess, FilesTypeOK
  <2> QED BY <1>1, <1>4, <2>1, <2>2 DEF Trouble, ContainerStops, PolicyRestarts,
     AgentActs
<1> QED BY <1>1, <1>2, <1>3, <1>4 DEF Next, vars

\* A step of a call is one of the call's own, and it stays that call.
LEMMA CallStep ==
  ASSUME FilesTypeOK, NEW c \in Calls, FileCallStep(c) \/ PutFails(c)
  PROVE  /\ Working(c)
         /\ \A d \in Calls \ {c} : jobs'[d] = jobs[d]
         /\ Working(c)' => jobs'[c].file = jobs[c].file /\ jobs'[c].kind = jobs[c].kind
         /\ Working(c)' /\ ~At(c, "begun")' /\ At(c, "begun") => jobs[c].file \in Files
         /\ ~At(c, "begun")'
         /\ At(c, "list")' => jobs[c].kind = "write"
         /\ At(c, "unlink")' => jobs[c].kind = "delete" /\ jobs[c].file \in DOMAIN tree
         /\ At(c, "weigh")' => At(c, "list") \/ At(c, "weigh")
         /\ At(c, "put")' => At(c, "weigh")
<1> USE Records DEF FilesTypeOK, Working, At, Goes, Ends, Over, NoJob
<1>0. jobs \in [Calls -> Job] /\ jobs[c] \in Job
  OBVIOUS
<1>1. CASE Refuse(c)
  BY <1>0, <1>1 DEF Refuse
<1>2. CASE StatExisting(c)
  BY <1>0, <1>2 DEF StatExisting, Job
<1>3. CASE ListForCall(c)
  BY <1>0, <1>3 DEF ListForCall, Job
<1>4. CASE StatForCall(c)
  BY <1>0, <1>4 DEF StatForCall
<1>5. CASE WalkRaises(c)
  BY <1>0, <1>5 DEF WalkRaises
<1>6. CASE Weigh(c)
  BY <1>0, <1>6 DEF Weigh, Job
<1>7. CASE Put(c)
  BY <1>0, <1>7 DEF Put, Job
<1>8. CASE StartUnlink(c)
  BY <1>0, <1>8, TreeFacts DEF StartUnlink, Job
<1>9. CASE Unlink(c)
  BY <1>0, <1>9 DEF Unlink, Job
<1>10. CASE Emit(c)
  BY <1>0, <1>10 DEF Emit
<1>11. CASE PutFails(c)
  BY <1>0, <1>11 DEF PutFails
<1> QED BY <1>1, <1>2, <1>3, <1>4, <1>5, <1>6, <1>7, <1>8, <1>9, <1>10, <1>11
        DEF FileCallStep

LEMMA CallBegins ==
  ASSUME FilesTypeOK, NEW c \in Calls, NEW kind, NEW path, NEW len,
         BeginFileCall(c, kind, path, len)
  PROVE  /\ \A d \in Calls \ {c} : jobs'[d] = jobs[d]
         /\ jobs'[c].at = "begun"
<1>1. /\ [NoJob EXCEPT !.at = "begun", !.kind = kind, !.file = Resolve(path),
                        !.len = len].at = "begun"
      /\ [NoJob EXCEPT !.at = "begun"].at = "begun"
  BY DEF NoJob
<1>2. PICK job : job.at = "begun" /\ jobs' = [jobs EXCEPT ![c] = job]
  BY <1>1 DEF BeginFileCall
<1> QED BY <1>2 DEF FilesTypeOK

LEMMA CallsStep ==
  FilesTypeOK /\ Client!ClientTypeOK /\ ThreadTypeOK /\ CallsInv /\ [Next]_vars
    => CallsInv'
<1> SUFFICES ASSUME FilesTypeOK, Client!ClientTypeOK, ThreadTypeOK, CallsInv, [Next]_vars
             PROVE  CallsInv'
  OBVIOUS
<1> USE Records DEF CallsInv, Current
<1>1. ASSUME UNCHANGED <<jobs, calls, given>>, pc /= "calling",
             pc' /= "calling", \A c \in Calls : futures'[c] = futures[c]
      PROVE  CallsInv'
  BY <1>1 DEF Working, At
<1>2. ASSUME UNCHANGED <<jobs, calls, given, pc, futures>> PROVE CallsInv'
  BY <1>2 DEF Working, At
<1>3. CASE Own
  <2> USE DEF Goto, Elsewhere, clientVars, fileVars
  <2>1. CASE Connected \/ Unconnected \/ RefusePairing \/ Paired \/ OpeningSnapshot
    BY <1>1, <2>1 DEF Connected, Unconnected, RefusePairing, Paired, OpeningSnapshot
  <2>2. CASE MainStat \/ MainVanished \/ Weighed \/ LookForPlan \/ ReadPlan
    BY <1>1, <2>2 DEF MainStat, MainVanished, Weighed, LookForPlan, ReadPlan, CrashesTo,
       mainVars
  <2>3. CASE Indexed \/ Briefed \/ AskBalances \/ Balanced
    BY <1>1, <2>3 DEF Indexed, Briefed, AskBalances, Balanced, Injected,
       Client!Execute, Client!Take, Client!ClientTypeOK
  <2>4. CASE ClosingSnapshot \/ Ended
    BY <1>1, <2>4 DEF ClosingSnapshot, Ended
  <2>5. CASE StopLoop \/ Exit
    BY <1>1, <2>5 DEF StopLoop, Exit, Client!CloseStop, Client!CloseLoop
  <2>6. CASE BeginClose
    <3>1. \A c \in Calls : jobs'[c] = NoJob /\ futures'[c] = futures[c]
      BY <2>6 DEF BeginClose, Client!CloseTell
    <3> QED BY <2>6, <3>1 DEF BeginClose, Working, At, NoJob
  <2>8. CASE Return
    <3>1. Current \in Calls /\ ~Working(Current)
      BY <2>8 DEF Return, Calls, ThreadTypeOK, Answered, Working, At, Client!Settled
    <3>2. \A c \in Calls : futures'[c] = "none" \/ futures'[c] = futures[c]
      BY <2>8 DEF Return, Client!Take, Client!ClientTypeOK
    <3> QED BY <2>8, <3>1, <3>2 DEF Return, Working, At
  <2>9. CASE GiveUp
    BY <2>9 DEF GiveUp, Working, At
  <2>10. CASE DispatchFileCall
    <3> DEFINE c == calls + 1
    <3>1. c \in Calls /\ calls' = c /\ calls < c /\ calls \in Nat /\ c > 0
      BY <2>10 DEF DispatchFileCall, ThreadTypeOK, Calls
    <3>2. /\ \A d \in Calls \ {c} : jobs'[d] = jobs[d]
          /\ jobs'[c].at = "begun"
      BY <2>10, <3>1, CallBegins DEF DispatchFileCall
    <3>3. pc = "loop" /\ pc' = "calling" /\ UNCHANGED <<futures, given>>
      BY <2>10 DEF DispatchFileCall
    <3>4. \A d \in Calls : d > calls' => d > calls /\ d /= c
      BY <3>1 DEF Calls
    <3>5. futures[c] = "none"
      BY <3>1
    <3> HIDE DEF c
    <3> SUFFICES ASSUME NEW d \in Calls
                 PROVE  /\ d > calls' => jobs'[d] = NoJob /\ futures'[d] = "none"
                        /\ Working(d)' =>
                             /\ futures'[d] = "none"
                             /\ d \in given' \/ d = calls'
                        /\ Working(d)' /\ ~At(d, "begun")' => jobs'[d].file \in Files
                        /\ jobs'[d].at \in {"list", "weigh", "put"} => jobs'[d].kind = "write"
                        /\ At(d, "unlink")' => jobs'[d].kind = "delete"
      BY <3>1, <3>3
    <3>6. CASE d = c
      BY <3>1, <3>2, <3>3, <3>4, <3>5, <3>6 DEF Working, At, NoJob
    <3>7. CASE d /= c
      BY <3>1, <3>2, <3>3, <3>4, <3>5, <3>7 DEF Working, At
    <3> QED BY <3>6, <3>7
  <2>11. CASE DispatchHarnessCall
    <3>1. /\ calls \in Nat /\ calls' = calls + 1 /\ calls' \in Calls
          /\ pc = "loop" /\ pc' = "calling" /\ UNCHANGED <<jobs, given>>
      BY <2>11 DEF DispatchHarnessCall, ThreadTypeOK, Calls
    <3>2. \A d \in Calls : d /= calls' => futures'[d] = futures[d]
      BY <2>11, <3>1 DEF DispatchHarnessCall, Client!Execute, Client!ClientTypeOK
    <3>3. ASSUME NEW d \in Calls, d > calls'
          PROVE  jobs'[d] = NoJob /\ futures'[d] = "none"
      BY <3>1, <3>2, <3>3 DEF Calls
    <3>4. ASSUME NEW d \in Calls, Working(d)
          PROVE  d \in given /\ d /= calls' /\ futures[d] = "none"
      <4>1. NoJob.at = "none"
        BY DEF NoJob
      <4>2. ~(d > calls)
        BY <3>4, <4>1 DEF Working
      <4>3. d /= calls' /\ futures[d] = "none"
        BY <3>1, <3>4, <4>2 DEF Calls
      <4> QED BY <3>1, <3>4, <4>3
    <3>5. \A d \in Calls : Working(d)' <=> Working(d)
      BY <3>1 DEF Working
    <3>6. \A d \in Calls : Working(d) => futures'[d] = "none" /\ d \in given'
      BY <3>1, <3>2, <3>4
    <3>7. calls' > 0
      BY <3>1
    <3>8. \A d \in Calls :
            /\ Working(d) /\ ~At(d, "begun")' => jobs'[d].file \in Files
            /\ jobs'[d].at \in {"list", "weigh", "put"} => jobs'[d].kind = "write"
            /\ At(d, "unlink")' => jobs'[d].kind = "delete"
      BY <3>1 DEF At
    <3>9. /\ pc' = "calling" => calls' > 0
          /\ \A d \in Calls :
               /\ d > calls' => jobs'[d] = NoJob /\ futures'[d] = "none"
               /\ Working(d)' => futures'[d] = "none" /\ d \in given'
      BY <3>3, <3>5, <3>6, <3>7
    <3> QED BY <3>1, <3>5, <3>8, <3>9 DEF Working, At
  <2> QED BY <1>3, <2>1, <2>2, <2>3, <2>4, <2>5, <2>6, <2>8, <2>9, <2>10, <2>11
          DEF Own
<1>4. ASSUME NEW c \in Calls, FileCallStep(c) \/ PutFails(c),
             UNCHANGED <<pc, calls, given, futures>>
      PROVE  CallsInv'
  BY <1>4, CallStep DEF Working, At, NoJob
<1>5. ASSUME Client!LoopThread \/ Client!ChildDies, UNCHANGED <<jobs, pc, calls, given>>
      PROVE  CallsInv'
  <2>1. \A c \in Calls : futures[c] = "none" => futures'[c] = "none"
    BY <1>5 DEF Client!LoopThread, Client!ChildDies, Client!Handshake,
       Client!HandshakeFails, Client!BeginUnwind, Client!EndUnwind, Client!StopTaken,
       Client!Answer, Client!CallFails, Client!Settle, Client!ClientTypeOK
  <2> QED BY <1>5, <2>1 DEF Working, At
<1>6. CASE Threads
  BY <1>4, <1>5, <1>6 DEF Threads, mainVars, clientVars, fileVars
<1>7. CASE Trouble
  BY <1>2, <1>4, <1>5, <1>7 DEF Trouble, ContainerStops, PolicyRestarts, AgentActs,
     AgentProcess, mainVars, clientVars, fileVars
<1>8. CASE UNCHANGED vars
  BY <1>2, <1>8 DEF vars, fileVars, mainVars, clientVars
<1> QED BY <1>3, <1>6, <1>7, <1>8 DEF Next

-------------------------------------------------------------------------------
(* The tree the rows tell of.                                              *)

LEMMA ListedIsListed ==
  ASSUME NEW a, walks[a].left /= {}
  PROVE  NextListed(a) \in walks[a].left
BY DEF NextListed

\* Nothing makes an account that is void good again.
LEMMA VoidStays ==
  ASSUME FilesTypeOK, [Next]_vars, account.void
  PROVE  account'.void
<1> USE Records
<1>1. CASE UNCHANGED account
  BY <1>1
<1>2. CASE account' = Void
  BY <1>2
<1>3. ASSUME NEW c \in Calls, FileCallStep(c) PROVE account'.void
  <2>1. UNCHANGED account \/ account' = Tells(c)
    BY <1>3 DEF FileCallStep, Refuse, StatExisting, ListForCall, StatForCall,
       WalkRaises,
       Weigh, Put, StartUnlink, Unlink, Emit
  <2> QED BY <2>1, Records DEF Tells
<1>4. CASE Own
  BY <1>1, <1>2, <1>4 DEF Own, Connected, Unconnected, RefusePairing, Paired,
     OpeningSnapshot, MainStat, MainVanished, Weighed, Indexed, Briefed, AskBalances,
     Balanced, Injected, LookForPlan,
     ReadPlan, DispatchFileCall, BeginFileCall, DispatchHarnessCall, Return, GiveUp,
     ClosingSnapshot, Ended, BeginClose, StopLoop, Exit, Elsewhere, fileVars
<1> QED BY <1>1, <1>2, <1>3, <1>4 DEF Next, Threads, Trouble, ContainerStops,
        PolicyRestarts, AgentActs, AgentProcess, PutFails, vars, fileVars

\* As long as calls run in their turn, the session's own steps find the files at
\* rest.
LEMMA AtRest ==
  ASSUME Orderly, CallsInv, pc /= "calling"
  PROVE  /\ \A c \in Calls : ~Working(c) /\ walks[c].left = {}
         /\ account.tree = tree
BY DEF Orderly, CallsInv, Working, Owes

LEMMA OwnOrderly ==
  ASSUME TypeOK, CallsInv, Orderly, Own, ~account'.void
  PROVE  Orderly'
<1> USE Records DEF Goto, Elsewhere, Walking, Closing
<1>1. ASSUME UNCHANGED <<tree, jobs, walks, account, outside, given>>,
             how' = how \/ how' /= "crashed",
             pc \notin Walking \/ walks[Main].left = {}, pc' /= "readPlan"
      PROVE  Orderly'
  BY <1>1 DEF Orderly, At, Owes, Tells
<1>2. ASSUME pc /= "calling", UNCHANGED <<tree, jobs, account, outside, given, how>>,
             pc' /= "readPlan",
             \A c \in Calls : walks'[c].left = walks[c].left,
             \/ walks'[Main].left = {}
             \/ pc' \in Walking /\ walks'[Main].left \subseteq DOMAIN tree
      PROVE  Orderly'
  BY <1>2, AtRest DEF Orderly, At, Owes, Actors, Working
<1>3. ListFiles(Main) => /\ walks'[Main].left \subseteq DOMAIN tree
                         /\ \A c \in Calls : walks'[c].left = walks[c].left
  BY DEF ListFiles, TypeOK, FilesTypeOK
<1>4. StatOne(Main) => /\ walks'[Main].left \subseteq walks[Main].left
                       /\ \A c \in Calls : walks'[c].left = walks[c].left
  BY DEF StatOne, TypeOK, FilesTypeOK
<1>5. Forget(Main) => /\ walks'[Main].left = {}
                      /\ \A c \in Calls : walks'[c].left = walks[c].left
  BY DEF Forget, NoWalk, TypeOK, FilesTypeOK
<1>6. CASE Connected \/ Unconnected \/ RefusePairing \/ Paired
  BY <1>1, <1>6 DEF Connected, Unconnected, RefusePairing, Paired, fileVars
<1>7. CASE OpeningSnapshot \/ ClosingSnapshot
  BY <1>2, <1>3, <1>7 DEF OpeningSnapshot, ClosingSnapshot
<1>8. CASE MainStat
  BY <1>2, <1>4, <1>8 DEF MainStat, mainVars, Orderly
<1>9. CASE MainVanished
  BY <1>9, ListedIsListed DEF MainVanished, Vanished, Orderly
<1>10. CASE Weighed
  BY <1>2, <1>3, <1>10 DEF Weighed
<1>11. CASE Indexed \/ Ended
  BY <1>2, <1>5, <1>11 DEF Indexed, Ended
<1>12. CASE \/ Briefed \/ AskBalances \/ Balanced \/ Return
            \/ StopLoop \/ Exit
  BY <1>1, <1>12 DEF Briefed, AskBalances, Balanced, Injected, Return,
     StopLoop, Exit, fileVars, Orderly
<1>13. CASE LookForPlan \/ ReadPlan
  BY <1>13 DEF LookForPlan, ReadPlan, CrashesTo, fileVars, Orderly, At, Owes, Tells
<1>14. CASE GiveUp
  BY <1>1, <1>14 DEF GiveUp, Orderly
<1>15. CASE DispatchHarnessCall
  BY <1>1, <1>15 DEF DispatchHarnessCall, fileVars
<1>16. CASE DispatchFileCall
  <2>1. calls' \in Calls
    BY <1>16 DEF DispatchFileCall, TypeOK, Calls
  <2>2. /\ \A d \in Calls \ {calls'} : jobs'[d] = jobs[d]
        /\ jobs'[calls'].at = "begun"
    BY <1>16, <2>1, CallBegins DEF DispatchFileCall, TypeOK
  <2>3. /\ pc = "loop" /\ pc' = "calling"
        /\ UNCHANGED <<tree, walks, account, outside, given, how>>
    BY <1>16 DEF DispatchFileCall, BeginFileCall
  <2>4. \A d \in Calls : jobs'[d].at \in {"none", "begun", "over"}
    BY <2>2, <2>3, AtRest DEF Working
  <2> QED BY <2>3, <2>4, AtRest DEF Orderly, At, Owes
<1>17. CASE BeginClose
  BY <1>17, AtRest DEF BeginClose, Orderly, At, Owes, NoJob
<1> QED BY <1>6, <1>7, <1>8, <1>9, <1>10, <1>11, <1>12, <1>13, <1>14, <1>15, <1>16,
        <1>17 DEF Own

\* The current call is the only one that works, and it finds every file it has
\* listed, or looked for, where it was.
LEMMA CallOrderly ==
  ASSUME TypeOK, CallsInv, Orderly, NEW c \in Calls, FileCallStep(c),
         UNCHANGED mainVars, ~account'.void, ~account.void
  PROVE  Orderly'
<1> USE Records DEF mainVars
<1>1. /\ FilesTypeOK /\ c \in Actors /\ c /= Main /\ jobs[c] \in Job
      /\ jobs \in [Calls -> Job] /\ Working(c)
  BY CallStep DEF TypeOK, FilesTypeOK
<1>2. pc = "calling" /\ c = Current
  BY <1>1 DEF CallsInv, Orderly
<1>3. \A d \in Calls : d /= c => /\ ~Working(d) /\ walks[d].left = {}
                               /\ jobs'[d] = jobs[d]
  BY <1>1, <1>2, CallStep DEF CallsInv, Orderly, Working
<1>4. walks[Main].left = {}
  BY <1>2 DEF Orderly, Walking
\* A step that neither changes the tree nor tells of a change.
<1>5. ASSUME UNCHANGED <<tree, account, outside>>,
             \A a \in Actors : a /= c => walks'[a] = walks[a],
             walks'[c].left \subseteq DOMAIN tree,
             walks'[c].left /= {} => jobs'[c].at \in {"weigh", "tell"},
             jobs'[c].at = "unlink" => jobs'[c].file \in DOMAIN tree,
             Owes(c)' <=> Owes(c),
             Owes(c) => jobs'[c].file = jobs[c].file /\ jobs'[c].kind = jobs[c].kind
                        /\ jobs'[c].len = jobs[c].len
      PROVE  Orderly'
  <2>1. \A d \in Calls : Owes(d)' <=> Owes(d)
    BY <1>3, <1>5 DEF Owes
  <2>2. \A d \in Calls : Owes(d) => d = c
    BY <1>3 DEF Owes, Working
  <2>3. Owes(c) => tree' = Tells(c).tree'
    BY <1>5 DEF Orderly, Tells
  <2>4. \A d \in Calls : Owes(d)' => tree' = Tells(d).tree'
    BY <2>1, <2>2, <2>3
  <2>5. (\A d \in Calls : ~Owes(d)') => account'.tree = tree'
    BY <1>5, <2>1 DEF Orderly
  <2>6. \A d \in Calls : jobs'[d].at = "unlink" => jobs'[d].file \in DOMAIN tree'
    BY <1>3, <1>5 DEF Orderly, At
  <2>7. \A d \in Calls : walks'[d].left /= {} => jobs'[d].at \in {"weigh", "tell"}
    BY <1>3, <1>5
  <2>8. \A a \in Actors : walks'[a].left \subseteq DOMAIN tree'
    BY <1>5 DEF Orderly
  <2> QED BY <1>1, <1>2, <1>4, <1>5, <2>4, <2>5, <2>6, <2>7, <2>8 DEF Orderly, At
<1>6. (\A d \in Calls : ~Owes(d)) \/ Owes(c)
  BY <1>3 DEF Owes, Working
<1> USE <1>1
<1>7. CASE Refuse(c)
  BY <1>5, <1>7 DEF Refuse, At, Ends, Over, NoJob, Orderly, FilesTypeOK, Owes
<1>8. CASE StatExisting(c)
  <2>1. jobs'[c].at = "list" /\ jobs[c].at = "begun"
    BY <1>8 DEF StatExisting, At
  <2> QED BY <1>5, <1>8, <2>1 DEF StatExisting, Orderly, Owes
<1>9. CASE ListForCall(c)
  BY <1>5, <1>9 DEF ListForCall, ListFiles, At, Goes, FilesTypeOK, Owes, Job
<1>10. CASE StatForCall(c)
  BY <1>5, <1>10 DEF StatForCall, StatOne, At, Orderly, FilesTypeOK, Owes
<1>11. CASE WalkRaises(c)
  BY <1>11, ListedIsListed DEF WalkRaises, Vanished, Orderly
<1>12. CASE Weigh(c)
  <2>1. jobs'[c].at \in {"put", "over"} /\ jobs[c].at = "weigh"
    <3>1. Over.at = "over"
      BY DEF Over, NoJob
    <3>2. jobs[c].at = "weigh" /\ (Ends(c) \/ Goes(c, "put"))
      BY <1>12 DEF Weigh, At
    <3>3. Ends(c) => jobs'[c].at = "over"
      BY <3>1 DEF Ends
    <3>4. Goes(c, "put") => jobs'[c].at = "put"
      BY DEF Goes
    <3> QED BY <3>2, <3>3, <3>4
  <2>2. walks'[c].left = {} /\ \A a \in Actors : a /= c => walks'[a] = walks[a]
    BY <1>12 DEF Weigh, Forget, NoWalk, FilesTypeOK
  <2> QED BY <1>5, <1>12, <2>1, <2>2 DEF Weigh, Owes
<1>13. CASE StartUnlink(c)
  BY <1>5, <1>13 DEF StartUnlink, At, Goes, Orderly, FilesTypeOK, Owes
\* A step that changes it.
<1>14. ASSUME UNCHANGED <<walks, account, outside>>, jobs'[c].at = "relist",
              tree' = Tells(c).tree', walks[c].left = {}
       PROVE  Orderly'
  <2>1. \A a \in Actors : walks[a].left = {}
    BY <1>3, <1>4, <1>14 DEF Actors
  <2>2. \A d \in Calls : Owes(d)' => d = c
    BY <1>3 DEF Owes, Working
  <2>3. Owes(c)'
    BY <1>14 DEF Owes
  <2>4. \A d \in Calls : jobs'[d].at /= "unlink"
    BY <1>3, <1>14 DEF Working
  <2> QED BY <1>2, <1>14, <2>1, <2>2, <2>3, <2>4 DEF Orderly, At
<1>15. CASE Put(c)
  <2>1. jobs[c].kind = "write" /\ ~Owes(c)
    BY <1>15 DEF Put, At, CallsInv, Owes
  <2>2. account.tree = tree /\ walks[c].left = {}
    BY <1>6, <1>15, <2>1 DEF Put, At, Orderly
  <2>3. /\ jobs'[c].file = jobs[c].file /\ jobs'[c].kind = "write"
        /\ jobs'[c].len = jobs[c].len /\ jobs'[c].at = "relist"
    BY <1>15, <2>1 DEF Put, Goes
  <2>4. tree' = Tells(c).tree'
    BY <1>15, <2>2, <2>3 DEF Put, Tells, With
  <2> QED BY <1>14, <1>15, <2>2, <2>3, <2>4 DEF Put
<1>16. CASE Unlink(c)
  <2>1. jobs[c].kind = "delete" /\ ~Owes(c) /\ jobs[c].file \in DOMAIN tree
    BY <1>16 DEF Unlink, At, CallsInv, Owes, Orderly
  <2>2. account.tree = tree /\ walks[c].left = {}
    BY <1>6, <1>16, <2>1 DEF Unlink, At, Orderly
  <2>3. /\ jobs'[c].file = jobs[c].file /\ jobs'[c].kind = "delete"
        /\ jobs'[c].at = "relist"
    <3>1. Goes(c, "relist")
      BY <1>16, <2>1 DEF Unlink
    <3> QED BY <2>1, <3>1 DEF Goes
  <2>4. tree' = Tells(c).tree'
    BY <1>16, <2>1, <2>2, <2>3 DEF Unlink, Tells, Without
  <2> QED BY <1>14, <1>16, <2>1, <2>2, <2>3, <2>4 DEF Unlink
<1>17. CASE Emit(c)
  <2>1. Owes(c) /\ account' = Tells(c) /\ UNCHANGED <<tree, outside>>
    BY <1>17 DEF Emit, Owes, At
  <2>2. account'.tree = tree'
    BY <2>1 DEF Orderly
  <2>3. \A a \in Actors : walks'[a].left = {}
    BY <1>3, <1>4, <1>17 DEF Emit, Forget, NoWalk, Actors, FilesTypeOK
  <2>4. \A d \in Calls : jobs'[d].at \in {"none", "over"}
    BY <1>3, <1>17 DEF Emit, Ends, Over, NoJob, Working
  <2> QED BY <1>2, <2>1, <2>2, <2>3, <2>4 DEF Orderly, At, Owes
<1> QED BY <1>7, <1>8, <1>9, <1>10, <1>11, <1>12, <1>13, <1>15, <1>16, <1>17
        DEF FileCallStep

LEMMA OrderlyStep ==
  ASSUME ToolsInv, [Next]_vars, ~account'.void
  PROVE  Orderly'
<1>1. ~account.void
  BY VoidStays DEF ToolsInv, TypeOK
<1>2. Orderly /\ TypeOK /\ CallsInv
  BY <1>1 DEF ToolsInv
<1>3. CASE UNCHANGED fileVars /\ UNCHANGED mainVars
  BY <1>2, <1>3 DEF fileVars, mainVars, Orderly, At, Owes, Tells
<1>4. CASE Own
  BY <1>2, <1>4, OwnOrderly
<1>5. CASE Threads
  BY <1>1, <1>2, <1>3, <1>5, CallOrderly DEF Threads
<1>6. CASE Trouble
  <2>1. account' /= Void
    BY Records
  <2> QED BY <1>3, <1>6, <2>1 DEF Trouble, ContainerStops, PolicyRestarts, AgentActs,
          AgentProcess, PutFails
<1> QED BY <1>3, <1>4, <1>5, <1>6 DEF Next, vars

-------------------------------------------------------------------------------
(* The quota.                                                              *)

LEMMA TreeBytes ==
  ASSUME NEW t \in Trees
  PROVE  /\ Total(t) \in Nat
         /\ \A S : Held(t, S) \in Nat
         /\ \A S : DOMAIN t \subseteq S => Total(t) = Held(t, S)
         /\ \A g : SizeIn(t, g) \in 0..MaxLen
         /\ \A S, g : Held(t, S) = Held(t, S \ {g}) + (IF g \in S THEN SizeIn(t, g) ELSE 0)
<1>1. IsFiniteSet(DOMAIN t) /\ \A f \in DOMAIN t : t[f] \in Sizes
  BY TreeFacts
<1>2. \A S : Held(t, S) \in Nat
  BY <1>1, BytesFinite
<1>3. \A S : DOMAIN t \subseteq S => Total(t) = Held(t, S)
  BY <1>1, TotalIsHeld
<1>4. Total(t) \in Nat
  BY <1>2, <1>3
<1>5. \A g : SizeIn(t, g) \in 0..MaxLen
  BY <1>1 DEF SizeIn, Sizes
<1>6. \A S, g : Held(t, S) = Held(t, S \ {g}) + (IF g \in S THEN SizeIn(t, g) ELSE 0)
  BY <1>1, HeldApart
<1> QED BY <1>2, <1>3, <1>4, <1>5, <1>6

LEMMA OneFile ==
  ASSUME NEW t \in Trees, NEW u \in Trees, NEW g, Alike(t, u, g)
  PROVE  \A S : Held(u, S) = Held(t, S) + (IF g \in S THEN SizeIn(u, g) - SizeIn(t, g) ELSE 0)
<1> SUFFICES ASSUME NEW S
             PROVE  Held(u, S) = Held(t, S)
                                 + (IF g \in S THEN SizeIn(u, g) - SizeIn(t, g) ELSE 0)
  OBVIOUS
<1>1. Held(t, S \ {g}) = Held(u, S \ {g})
  BY HeldElsewhere
<1>2. /\ Held(t, S) = Held(t, S \ {g}) + (IF g \in S THEN SizeIn(t, g) ELSE 0)
      /\ Held(u, S) = Held(u, S \ {g}) + (IF g \in S THEN SizeIn(u, g) ELSE 0)
  BY TreeBytes
<1>3. /\ Held(t, S \ {g}) \in Nat
      /\ SizeIn(t, g) \in 0..MaxLen /\ SizeIn(u, g) \in 0..MaxLen
  BY TreeBytes
<1> QED BY <1>1, <1>2, <1>3

LEMMA HeldMoves ==
  ASSUME NEW t \in Trees, NEW u \in Trees, NEW g, Alike(t, u, g)
  PROVE  \E d \in Int : /\ d <= MaxLen /\ -MaxLen <= d
                        /\ \A S : Held(u, S) = Held(t, S) + (IF g \in S THEN d ELSE 0)
<1> DEFINE d == SizeIn(u, g) - SizeIn(t, g)
<1>1. SizeIn(t, g) \in 0..MaxLen /\ SizeIn(u, g) \in 0..MaxLen
  BY TreeBytes
<1>2. d \in Int /\ d <= MaxLen /\ -MaxLen <= d
  BY <1>1
<1>3. \A S : Held(u, S) = Held(t, S) + (IF g \in S THEN d ELSE 0)
  BY OneFile, Zenon
<1> HIDE DEF d
<1> QED BY <1>2, <1>3

LEMMA WithChanges ==
  ASSUME NEW t, NEW f, NEW n
  PROVE  Alike(t, With(t, f, n), f) /\ SizeIn(With(t, f, n), f) = n
<1>1. /\ DOMAIN With(t, f, n) = DOMAIN t \cup {f}
      /\ \A g \in DOMAIN t \cup {f} : With(t, f, n)[g] = IF g = f THEN n ELSE t[g]
  BY DEF With
<1> QED BY <1>1 DEF Alike, SizeIn

LEMMA WithoutChanges ==
  ASSUME NEW t, NEW f
  PROVE  Alike(t, Without(t, f), f) /\ SizeIn(Without(t, f), f) = 0
<1>1. /\ DOMAIN Without(t, f) = DOMAIN t \ {f}
      /\ \A g \in DOMAIN t \ {f} : Without(t, f)[g] = t[g]
  BY DEF Without, Restrict
<1> QED BY <1>1 DEF Alike, SizeIn

LEMMA TimesMore ==
  ASSUME NEW a \in Nat, NEW n \in Nat, NEW m \in Nat, m >= n
  PROVE  a * m >= a * n /\ (m > n => a * m >= a * n + a)
<1>1. PICK d \in Nat : m = n + d
  <2>1. m - n \in Nat /\ m = n + (m - n)
    OBVIOUS
  <2> QED BY <2>1
<1>2. a * m = a * n + a * d
  BY <1>1
<1>3. a * n \in Nat /\ a * d \in Nat
  OBVIOUS
<1>4. d > 0 => a * d >= a
  <2>1. d > 0 => d - 1 \in Nat /\ a * d = a * (d - 1) + a
    OBVIOUS
  <2>2. d > 0 => a * (d - 1) \in Nat
    OBVIOUS
  <2> QED BY <1>3, <2>1, <2>2
<1> QED BY <1>1, <1>2, <1>3, <1>4

LEMMA SlackIs ==
  ASSUME given \in SUBSET Calls
  PROVE  Slack \in Nat
<1>1. Changers \in SUBSET Calls
  BY DEF Changers
<1>2. IsFiniteSet(Calls)
  BY FS_Interval DEF Calls
<1>3. Cardinality(Changers) \in Nat
  BY <1>1, <1>2, FS_Subset, FS_CardinalityType
<1> QED BY <1>3 DEF Slack

\* The slack grows by a file with each call that joins the changers.
LEMMA SlackGrows ==
  ASSUME given \in SUBSET Calls, given' \in SUBSET Calls, Changers \subseteq Changers'
  PROVE  /\ Slack \in Nat /\ Slack' \in Nat /\ Slack' >= Slack
         /\ \A j \in Changers' : j \notin Changers => Slack' >= Slack + MaxLen
<1> DEFINE C == Changers
           D == Changers'
<1>1. C \in SUBSET Calls /\ D \in SUBSET Calls
  BY DEF Changers
<1>2. Slack = MaxLen * Cardinality(C) /\ Slack' = MaxLen * Cardinality(D)
  BY DEF Slack
<1> HIDE DEF C, D
<1>3. IsFiniteSet(Calls)
  BY FS_Interval DEF Calls
<1>4. IsFiniteSet(C) /\ IsFiniteSet(D) /\ Cardinality(C) \in Nat /\ Cardinality(D) \in Nat
  BY <1>1, <1>3, FS_Subset, FS_CardinalityType
<1>5. C \in SUBSET D
  BY DEF C, D
<1>6. Cardinality(C) <= Cardinality(D)
  BY <1>4, <1>5, FS_Subset
<1>7. \A j \in D : j \notin C => Cardinality(C) < Cardinality(D)
  <2>1. Cardinality(D) = Cardinality(C) => D = C
    BY <1>4, <1>5, FS_Subset
  <2> QED BY <1>4, <1>6, <2>1
<1>8. MaxLen \in Nat
  OBVIOUS
<1>9. Slack \in Nat /\ Slack' \in Nat
  BY <1>2, <1>4, <1>8
<1>10. /\ MaxLen * Cardinality(D) >= MaxLen * Cardinality(C)
       /\ Cardinality(D) > Cardinality(C) =>
            MaxLen * Cardinality(D) >= MaxLen * Cardinality(C) + MaxLen
  BY <1>4, <1>6, <1>8, TimesMore
<1>11. \A j \in D : j \notin C => Slack' >= Slack + MaxLen
  BY <1>2, <1>4, <1>7, <1>10
<1> QED BY <1>2, <1>9, <1>10, <1>11 DEF C, D

\* As long as neither the tree nor the call changes, it goes by as much.
LEMMA JudgesStill ==
  ASSUME FilesTypeOK, NEW c \in Calls, Judges(c), UNCHANGED tree,
         jobs'[c] = jobs[c], walks'[c] = walks[c],
         Slack \in Nat, Slack' \in Nat, Slack' >= Slack
  PROVE  Judges(c)'
<1> DEFINE h == Held(tree, Files \ {jobs[c].file})
           m == Held(tree, walks[c].left)
           T == Total(tree)
           w == walks[c].sum
           e == jobs[c].existing
           l == jobs[c].len
<1>1. h \in Nat /\ m \in Nat /\ T \in Nat
  BY TreeBytes DEF FilesTypeOK
<1>2. w \in Nat /\ e \in Nat /\ l \in Nat
  <2>1. jobs[c] \in Job /\ walks[c].sum \in Nat
    BY Records DEF FilesTypeOK
  <2> QED BY <2>1, Records DEF Job
<1>3. Judges(c)' <=> /\ jobs[c].at = "list" => h <= T - e + Slack'
                     /\ jobs[c].at = "weigh" => h <= (w + m) - e + Slack'
                     /\ jobs[c].at = "put" => h + l <= Quota + Slack'
  BY DEF Judges, At, Measured
<1>4. /\ jobs[c].at = "list" => h <= T - e + Slack
      /\ jobs[c].at = "weigh" => h <= (w + m) - e + Slack
      /\ jobs[c].at = "put" => h + l <= Quota + Slack
  BY DEF Judges, At, Measured
<1> HIDE DEF h, m, T, w, e, l
<1>5. T - e \in Int /\ (w + m) - e \in Int /\ h \in Int /\ h + l \in Int /\ Quota \in Int
  BY <1>1, <1>2
<1>6. Slack \in Int /\ Slack' \in Int /\ Slack <= Slack'
  OBVIOUS
<1>7. \A x, y \in Int : x <= y + Slack => x <= y + Slack'
  BY <1>6, AtMost
<1>8. /\ h <= T - e + Slack => h <= T - e + Slack'
      /\ h <= (w + m) - e + Slack => h <= (w + m) - e + Slack'
      /\ h + l <= Quota + Slack => h + l <= Quota + Slack'
  BY <1>5, <1>7, Zenon
<1> QED BY <1>3, <1>4, <1>8

\* A step that leaves the tree as it is.
LEMMA QuotaKept ==
  ASSUME FilesTypeOK, given \in SUBSET Calls, given' \in SUBSET Calls, QuotaInv,
         UNCHANGED tree, given \subseteq given', given' \subseteq 1..calls',
         \A c \in given : MayChange(c)' => MayChange(c),
         \A c \in Calls \ given' :
           \/ jobs'[c] = jobs[c] /\ walks'[c] = walks[c]
           \/ jobs'[c].at \notin {"list", "weigh", "put"}
           \/ Slack' \in Nat /\ Slack' >= Slack => Judges(c)'
  PROVE  QuotaInv'
<1>1. Changers \subseteq Changers'
  BY DEF Changers
<1>2. Slack \in Nat /\ Slack' \in Nat /\ Slack' >= Slack
  BY <1>1, SlackGrows
<1>3. Total(tree) \in Nat /\ Total(tree') = Total(tree)
  BY TreeBytes DEF FilesTypeOK
<1>4. Total(tree') <= Quota + Slack'
  BY <1>2, <1>3 DEF QuotaInv
<1>5. ASSUME NEW c \in Calls, c \notin given'
      PROVE  Judges(c)'
  <2>1. CASE jobs'[c] = jobs[c] /\ walks'[c] = walks[c]
    BY <1>2, <1>5, <2>1, JudgesStill DEF QuotaInv
  <2>2. CASE jobs'[c].at \notin {"list", "weigh", "put"}
    BY <2>2 DEF Judges, At
  <2> QED BY <1>2, <1>5, <2>1, <2>2
<1> QED BY <1>4, <1>5 DEF QuotaInv

\* A change of one file is within the slack that grows with it.
LEMMA JudgesLoosened ==
  ASSUME FilesTypeOK, NEW c \in Calls, Judges(c),
         jobs'[c] = jobs[c], walks'[c] = walks[c],
         Slack \in Nat, Slack' \in Nat, Slack' >= Slack + MaxLen,
         tree' \in Trees, NEW g, NEW d \in Int, d <= MaxLen, -MaxLen <= d,
         \A S : Held(tree', S) = Held(tree, S) + (IF g \in S THEN d ELSE 0)
  PROVE  Judges(c)'
<1>1. /\ \A S : Held(tree, S) \in Nat
      /\ Total(tree) \in Nat
      /\ Total(tree) = Held(tree, Files) /\ Total(tree') = Held(tree', Files)
  BY TreeBytes, TreeFacts DEF FilesTypeOK
<1>2. /\ walks[c].sum \in Nat /\ jobs[c].existing \in Nat /\ jobs[c].len \in Nat
      /\ walks[c].left \subseteq Files
  BY Records DEF FilesTypeOK, Job
<1> DEFINE T == Total(tree)
           U == Total(tree')
           e == jobs[c].existing
           f == jobs[c].file
           h == Held(tree, Files \ {f})
           k == Held(tree', Files \ {f})
           m == Held(tree, walks[c].left)
           n == Held(tree', walks[c].left)
           w == walks[c].sum
<1>3. T \in Nat /\ U = T + (IF g \in Files THEN d ELSE 0)
  BY <1>1
<1>4. h \in Nat /\ k = h + (IF g \in Files \ {f} THEN d ELSE 0)
  BY <1>1
<1>5. m \in Nat /\ n = m + (IF g \in walks[c].left THEN d ELSE 0)
  BY <1>1
<1>6. Judges(c)' <=>
        /\ jobs[c].at = "list" => k <= U - e + Slack'
        /\ jobs[c].at = "weigh" => k <= (w + n) - e + Slack'
        /\ jobs[c].at = "put" => k + jobs[c].len <= Quota + Slack'
  BY DEF Judges, At, Measured
<1>7. /\ jobs[c].at = "list" => h <= T - e + Slack
      /\ jobs[c].at = "weigh" => h <= (w + m) - e + Slack
      /\ jobs[c].at = "put" => h + jobs[c].len <= Quota + Slack
  BY DEF Judges, At, Measured
<1>8. w \in Nat /\ e \in Nat /\ MaxLen \in Nat /\ Quota \in Nat
  BY <1>2
<1> HIDE DEF T, U, e, f, h, k, m, n, w
<1>9. k <= h + MaxLen /\ k \in Int /\ n \in Int /\ U \in Int
  BY <1>3, <1>4, <1>5, <1>8
<1>10. k - h <= (U - T) + MaxLen
  <2>1. CASE g \in Files \ {f}
    BY <1>3, <1>4, <1>8, <2>1
  <2>2. CASE g \notin Files \ {f}
    BY <1>3, <1>4, <1>8, <2>2
  <2> QED BY <2>1, <2>2
<1>11. k - h <= ((w + n) - (w + m)) + MaxLen
  <2>1. CASE g \in walks[c].left
    <3>1. g \in Files
      BY <1>2, <2>1
    <3> QED BY <1>4, <1>5, <1>8, <2>1, <3>1
  <2>2. CASE g \notin walks[c].left
    BY <1>4, <1>5, <1>8, <2>2
  <2> QED BY <2>1, <2>2
<1>12. /\ h \in Int /\ k \in Int /\ Slack \in Int /\ Slack' \in Int /\ MaxLen \in Int
      /\ Slack + MaxLen <= Slack'
  BY <1>4, <1>8, <1>9
<1>13. \A x, y, z \in Int :
         h <= x - z + Slack /\ k - h <= (y - x) + MaxLen => k <= y - z + Slack'
  BY <1>12, Shifted, ZenonT(30)
<1>14. jobs[c].at = "list" => k <= U - e + Slack'
  <2>1. T \in Int /\ U \in Int /\ e \in Int
    BY <1>3, <1>8, <1>9
  <2>2. h <= T - e + Slack /\ k - h <= (U - T) + MaxLen => k <= U - e + Slack'
    BY <1>13, <2>1, Zenon
  <2> QED BY <1>7, <1>10, <2>2
<1>15. jobs[c].at = "weigh" => k <= (w + n) - e + Slack'
  <2>1. w + m \in Int /\ w + n \in Int /\ e \in Int
    BY <1>5, <1>8, <1>9
  <2>2. h <= (w + m) - e + Slack /\ k - h <= ((w + n) - (w + m)) + MaxLen
          => k <= (w + n) - e + Slack'
    BY <1>13, <2>1, Zenon
  <2> QED BY <1>7, <1>11, <2>2
<1>16. jobs[c].at = "put" => k + jobs[c].len <= Quota + Slack'
  BY <1>2, <1>4, <1>7, <1>8, <1>9
<1> QED BY <1>6, <1>14, <1>15, <1>16

\* A step of a call that was given up on, which changes file g.
LEMMA QuotaLoosened ==
  ASSUME FilesTypeOK, tree' \in Trees, given \in SUBSET Calls, QuotaInv,
         UNCHANGED <<given, calls, walks>>, NEW j \in given, MayChange(j), ~MayChange(j)',
         \A d \in Calls \ {j} : jobs'[d] = jobs[d],
         NEW g, Alike(tree, tree', g)
  PROVE  QuotaInv'
<1>1. Changers \subseteq Changers' /\ j \in Changers' /\ j \notin Changers
  BY DEF Changers, MayChange
<1>2. Slack \in Nat /\ Slack' \in Nat /\ Slack' >= Slack + MaxLen
  BY <1>1, SlackGrows
<1>3. PICK d \in Int : /\ d <= MaxLen /\ -MaxLen <= d
                       /\ \A S : Held(tree', S) = Held(tree, S) + (IF g \in S THEN d ELSE 0)
  BY HeldMoves DEF FilesTypeOK
<1>4. \A S : Held(tree, S) \in Nat
  BY TreeBytes DEF FilesTypeOK
<1>5. /\ Total(tree) \in Nat
      /\ Total(tree) = Held(tree, Files) /\ Total(tree') = Held(tree', Files)
  BY TreeBytes, TreeFacts DEF FilesTypeOK
<1>6. Total(tree') = Total(tree) + (IF g \in Files THEN d ELSE 0)
  BY <1>3, <1>5
<1>7. Total(tree') <= Quota + Slack'
  BY <1>2, <1>3, <1>5, <1>6 DEF QuotaInv
<1>8. ASSUME NEW c \in Calls, c \notin given'
      PROVE  Judges(c)'
  <2>1. Judges(c) /\ jobs'[c] = jobs[c] /\ walks'[c] = walks[c]
    BY <1>8 DEF QuotaInv
  <2> QED BY <1>2, <1>3, <1>8, <2>1, JudgesLoosened
<1> QED BY <1>7, <1>8 DEF QuotaInv

\* A change of the call that was not given up on: no other such call works.
LEMMA QuotaInTurn ==
  ASSUME FilesTypeOK, tree' \in Trees, given \in SUBSET Calls, QuotaInv,
         UNCHANGED <<given, calls>>,
         \A d \in given : jobs'[d] = jobs[d],
         \A d \in Calls \ given : jobs'[d].at \notin {"list", "weigh", "put"},
         Total(tree') <= Total(tree) \/ Total(tree') <= Quota + Slack
  PROVE  QuotaInv'
<1>1. Changers' = Changers
  BY DEF Changers, MayChange
<1>2. Slack' = Slack
  BY <1>1 DEF Slack
<1>3. Slack \in Nat
  BY SlackGrows, <1>1
<1>4. Total(tree) \in Nat /\ Total(tree') \in Nat
  BY TreeBytes DEF FilesTypeOK
<1>5. Total(tree') <= Quota + Slack'
  BY <1>2, <1>3, <1>4 DEF QuotaInv
<1>6. \A d \in Calls \ given : Judges(d)'
  BY DEF Judges, At
<1> QED BY <1>5, <1>6 DEF QuotaInv

\* What a tree has is what it has elsewhere, and the file that changes.
LEMMA TotalMoves ==
  ASSUME NEW t \in Trees, NEW u \in Trees, NEW g \in Files, Alike(t, u, g)
  PROVE  /\ Held(t, Files \ {g}) \in Nat
         /\ Total(t) = Held(t, Files \ {g}) + SizeIn(t, g)
         /\ Total(u) = Held(t, Files \ {g}) + SizeIn(u, g)
         /\ SizeIn(t, g) \in Nat
<1>1. Total(t) = Held(t, Files) /\ Total(u) = Held(u, Files)
  BY TreeBytes, TreeFacts
<1>2. /\ Held(t, Files) = Held(t, Files \ {g}) + (IF g \in Files THEN SizeIn(t, g) ELSE 0)
      /\ Held(u, Files) = Held(u, Files \ {g}) + (IF g \in Files THEN SizeIn(u, g) ELSE 0)
  BY TreeBytes
<1>3. Held(t, Files \ {g}) = Held(u, Files \ {g})
  <2>1. \A S : Held(t, S \ {g}) = Held(u, S \ {g})
    BY HeldElsewhere
  <2> QED BY <2>1
<1>4. Held(t, Files \ {g}) \in Nat /\ SizeIn(t, g) \in Nat
  <2>1. SizeIn(t, g) \in 0..MaxLen
    BY TreeBytes
  <2> QED BY <2>1, TreeBytes
<1> QED BY <1>1, <1>2, <1>3, <1>4

\* The session's own thread changes no file, and no call's walk.
LEMMA QuotaOwn ==
  ASSUME FilesTypeOK, ThreadTypeOK, ThreadTypeOK', CallsInv, QuotaInv, Own
  PROVE  QuotaInv'
<1> USE Records
<1>1. given \in SUBSET Calls /\ given' \in SUBSET Calls /\ calls \in Nat
  BY DEF ThreadTypeOK
<1>2. ASSUME UNCHANGED <<tree, jobs, given, calls>>,
             \A c \in Calls : walks'[c] = walks[c]
      PROVE  QuotaInv'
  <2>1. given \subseteq given' /\ given' \subseteq 1..calls'
    BY <1>2 DEF QuotaInv
  <2>2. \A c \in given : MayChange(c)' => MayChange(c)
    BY <1>2 DEF MayChange
  <2> QED BY <1>1, <1>2, <2>1, <2>2, QuotaKept
<1>3. ASSUME ListFiles(Main) \/ StatOne(Main) \/ Forget(Main)
      PROVE  \A c \in Calls : walks'[c] = walks[c]
  BY <1>3 DEF ListFiles, StatOne, Forget, FilesTypeOK
<1> USE DEF Elsewhere, fileVars, mainVars
<1>4. CASE Connected \/ Unconnected \/ RefusePairing \/ Paired
  BY <1>2, <1>4 DEF Connected, Unconnected, RefusePairing, Paired
<1>5. CASE OpeningSnapshot \/ MainStat \/ MainVanished \/ Weighed \/ Indexed
           \/ ClosingSnapshot \/ Ended
  BY <1>2, <1>3, <1>5 DEF OpeningSnapshot, MainStat, MainVanished, Weighed, Indexed,
     ClosingSnapshot, Ended
<1>6. CASE \/ Briefed \/ AskBalances \/ Balanced \/ LookForPlan \/ ReadPlan
           \/ Return \/ StopLoop \/ Exit
  BY <1>2, <1>6 DEF Briefed, AskBalances, Balanced, Injected, LookForPlan,
     ReadPlan, Return, StopLoop, Exit
<1>7. CASE DispatchHarnessCall
  <2>1. UNCHANGED <<tree, jobs, walks, given>> /\ calls' = calls + 1
    BY <1>7 DEF DispatchHarnessCall
  <2>2. given \subseteq given' /\ given' \subseteq 1..calls'
    BY <1>1, <2>1 DEF QuotaInv
  <2>3. \A c \in given : MayChange(c)' => MayChange(c)
    BY <2>1 DEF MayChange
  <2> QED BY <1>1, <2>1, <2>2, <2>3, QuotaKept
<1>8. CASE DispatchFileCall
  <2>1. calls' \in Calls
    BY <1>8 DEF DispatchFileCall, ThreadTypeOK, Calls
  <2>2. /\ calls' \in Calls /\ calls' = calls + 1
        /\ UNCHANGED <<tree, walks, given>>
    BY <1>8, <2>1 DEF DispatchFileCall, BeginFileCall
  <2>3. /\ \A d \in Calls \ {calls'} : jobs'[d] = jobs[d]
        /\ jobs'[calls'].at = "begun"
    BY <1>8, <2>2, CallBegins DEF DispatchFileCall
  <2>4. given \subseteq given' /\ given' \subseteq 1..calls' /\ calls' \notin given
    BY <1>1, <2>2 DEF QuotaInv
  <2>5. \A c \in given : MayChange(c)' => MayChange(c)
    BY <1>1, <2>3, <2>4 DEF MayChange
  <2>6. \A c \in Calls \ given' : \/ jobs'[c] = jobs[c] /\ walks'[c] = walks[c]
                                  \/ jobs'[c].at \notin {"list", "weigh", "put"}
    BY <2>2, <2>3
  <2> QED BY <1>1, <2>2, <2>4, <2>5, <2>6, QuotaKept
<1>9. CASE GiveUp
  <2>1. /\ UNCHANGED <<tree, jobs, walks, calls>>
        /\ given' = given \/ given' = given \cup {calls}
        /\ pc = "calling"
    BY <1>9 DEF GiveUp, Current, Goto
  <2>2. calls \in 1..calls
    BY <1>1, <2>1 DEF CallsInv
  <2>3. given \subseteq given' /\ given' \subseteq 1..calls'
    BY <2>1, <2>2 DEF QuotaInv
  <2>4. \A c \in given : MayChange(c)' => MayChange(c)
    BY <2>1 DEF MayChange
  <2> QED BY <1>1, <2>1, <2>3, <2>4, QuotaKept
<1>10. CASE BeginClose
  <2>1. /\ UNCHANGED <<tree, walks, calls, given>>
        /\ \A c \in Calls : jobs'[c].at = "none"
    BY <1>10 DEF BeginClose, NoJob
  <2>2. given \subseteq given' /\ given' \subseteq 1..calls'
    BY <2>1 DEF QuotaInv
  <2>3. \A c \in given : MayChange(c)' => MayChange(c)
    BY <1>1, <2>1 DEF MayChange
  <2>4. \A c \in Calls \ given' : jobs'[c].at \notin {"list", "weigh", "put"}
    BY <2>1
  <2> QED BY <1>1, <2>1, <2>2, <2>3, <2>4, QuotaKept
<1> QED BY <1>4, <1>5, <1>6, <1>7, <1>8, <1>9, <1>10 DEF Own

\* A walk counts a file where it was going to.
LEMMA MeasuredOn ==
  ASSUME FilesTypeOK, NEW c \in Calls, StatOne(c), UNCHANGED tree
  PROVE  Measured(c)' = Measured(c)
<1> DEFINE x == NextListed(c)
           left == walks[c].left
<1>1. x \in left /\ x \in DOMAIN tree
  BY DEF StatOne, NextListed
<1>2. walks'[c].left = left \ {x} /\ walks'[c].sum = walks[c].sum + tree[x]
  BY Records DEF StatOne, FilesTypeOK
<1>3. Held(tree, left) = Held(tree, left \ {x}) + (IF x \in left THEN SizeIn(tree, x) ELSE 0)
  BY TreeBytes DEF FilesTypeOK
<1>4. SizeIn(tree, x) = tree[x] /\ SizeIn(tree, x) \in 0..MaxLen
  BY <1>1, TreeBytes DEF FilesTypeOK, SizeIn
<1>5. Held(tree, left \ {x}) \in Nat /\ walks[c].sum \in Nat
  BY TreeBytes, Records DEF FilesTypeOK
<1>6. Measured(c) = walks[c].sum + Held(tree, left)
  BY DEF Measured
<1>7. Measured(c)' = (walks[c].sum + tree[x]) + Held(tree, left \ {x})
  BY <1>2 DEF Measured
<1> HIDE DEF x, left
<1> QED BY <1>1, <1>3, <1>4, <1>5, <1>6, <1>7

LEMMA GoesOn ==
  ASSUME FilesTypeOK, NEW c \in Calls, NEW step, Goes(c, step)
  PROVE  /\ jobs'[c].at = step /\ jobs'[c].file = jobs[c].file
         /\ jobs'[c].kind = jobs[c].kind
         /\ jobs'[c].len = jobs[c].len /\ jobs'[c].existing = jobs[c].existing
<1>1. jobs[c] \in Job /\ jobs \in [Calls -> Job]
  BY DEF FilesTypeOK
<1>2. jobs'[c] = [jobs[c] EXCEPT !.at = step]
  BY <1>1 DEF Goes
<1> QED BY <1>1, <1>2 DEF Job

\* What a step of a call leaves to the others, and what it may do itself: a call
\* that has changed the tree, or is over, changes it no more.
LEMMA CallKeepsOthers ==
  ASSUME FilesTypeOK, NEW c \in Calls, FileCallStep(c) \/ PutFails(c)
  PROVE  /\ \A d \in Calls \ {c} : jobs'[d] = jobs[d] /\ walks'[d] = walks[d]
         /\ MayChange(c)' => MayChange(c)
<1> USE Records DEF FilesTypeOK
<1>1. \A d \in Calls \ {c} : jobs'[d] = jobs[d]
  BY CallStep
<1>2. ListFiles(c) \/ StatOne(c) \/ Forget(c) \/ UNCHANGED walks
  BY DEF FileCallStep, Refuse, StatExisting, ListForCall, StatForCall, WalkRaises, Weigh,
     Put, StartUnlink, Unlink, Emit, PutFails
<1>3. \A d \in Calls \ {c} : walks'[d] = walks[d]
  BY <1>2 DEF ListFiles, StatOne, Forget
<1>4. MayChange(c)' => MayChange(c)
  <2> USE DEF MayChange, At
  <2>1. CASE Refuse(c) \/ StatExisting(c) \/ Weigh(c) \/ Put(c) \/ StartUnlink(c)
             \/ Unlink(c) \/ PutFails(c)
    BY <2>1 DEF Refuse, StatExisting, Weigh, Put, StartUnlink, Unlink, PutFails
  <2>2. CASE ListForCall(c)
    <3>1. jobs[c].at = "list" \/ (jobs[c].at = "relist" /\ Goes(c, "tell"))
      BY <2>2 DEF ListForCall
    <3> QED BY <3>1, GoesOn
  <2>3. CASE StatForCall(c)
    BY <2>3 DEF StatForCall
  <2>4. CASE WalkRaises(c) \/ Emit(c)
    <3>1. jobs'[c] = Over
      BY <2>4 DEF WalkRaises, Emit, Ends
    <3> QED BY <3>1 DEF Over, NoJob
  <2> QED BY <2>1, <2>2, <2>3, <2>4 DEF FileCallStep
<1> QED BY <1>1, <1>3, <1>4

\* What a call that was not given up on comes to go by when it goes on.
LEMMA JudgesOn ==
  ASSUME FilesTypeOK, NEW c \in Calls, FileCallStep(c), UNCHANGED tree, Judges(c),
         Slack \in Nat, Slack' \in Nat, Slack' >= Slack
  PROVE  Judges(c)'
<1> USE Records
<1>1. /\ jobs \in [Calls -> Job] /\ jobs[c] \in Job /\ c \in Actors /\ c /= Main
      /\ tree \in Trees /\ walks \in [Actors -> [left: SUBSET Files, sum: Nat]]
  BY DEF FilesTypeOK
<1>2. /\ jobs[c].existing \in Nat /\ jobs[c].len \in Nat
      /\ walks[c].sum \in Nat /\ walks[c].left \in SUBSET Files
  BY <1>1 DEF Job
<1>3. /\ Total(tree) \in Nat
      /\ \A S : Held(tree, S) \in Nat
      /\ \A S : DOMAIN tree \subseteq S => Total(tree) = Held(tree, S)
      /\ \A S, g : Held(tree, S) = Held(tree, S \ {g})
                                   + (IF g \in S THEN SizeIn(tree, g) ELSE 0)
  BY <1>1, TreeBytes
<1> DEFINE h == Held(tree, Files \ {jobs[c].file})
           m == Held(tree, walks[c].left)
<1>4. h \in Nat /\ m \in Nat
  BY <1>3
<1>5. /\ jobs[c].at = "list" => h <= Total(tree) - jobs[c].existing + Slack
      /\ jobs[c].at = "weigh" => h <= (walks[c].sum + m) - jobs[c].existing + Slack
  BY DEF Judges, At, Measured
<1>6. ASSUME jobs'[c].at \notin {"list", "weigh", "put"}
      PROVE  Judges(c)'
  BY <1>6 DEF Judges, At
<1>7. /\ h <= Total(tree) - jobs[c].existing + Slack
            => h <= Total(tree) - jobs[c].existing + Slack'
      /\ h <= (walks[c].sum + m) - jobs[c].existing + Slack
            => h <= (walks[c].sum + m) - jobs[c].existing + Slack'
  <2> DEFINE T == Total(tree)
             w == walks[c].sum
             e == jobs[c].existing
  <2>1. T \in Nat /\ w \in Nat /\ e \in Nat
    BY <1>2, <1>3
  <2> HIDE DEF h, m, T, w, e
  <2>2. T - e \in Int /\ (w + m) - e \in Int /\ h \in Int
    BY <1>4, <2>1
  <2>3. Slack \in Int /\ Slack' \in Int /\ Slack <= Slack'
    OBVIOUS
  <2>4. \A x, y \in Int : x <= y + Slack => x <= y + Slack'
    BY <2>3, AtMost
  <2>5. /\ h <= T - e + Slack => h <= T - e + Slack'
        /\ h <= (w + m) - e + Slack => h <= (w + m) - e + Slack'
    BY <2>2, <2>4, Zenon
  <2> QED BY <2>5 DEF T, w, e
<1>8. CASE StatExisting(c)
  <2>1. jobs[c].file \in Files
    BY <1>1, <1>8 DEF StatExisting, Job
  <2>2. /\ jobs'[c].at = "list" /\ jobs'[c].file = jobs[c].file
        /\ jobs'[c].existing = SizeIn(tree, jobs[c].file)
    BY <1>1, <1>8 DEF StatExisting, SizeIn
  <2>3. Total(tree) = Held(tree, Files)
    BY <1>1, <1>3, TreeFacts
  <2>4. Total(tree) = h + SizeIn(tree, jobs[c].file)
    BY <1>3, <2>1, <2>3
  <2>5. SizeIn(tree, jobs[c].file) \in Nat
    <3>1. SizeIn(tree, jobs[c].file) \in 0..MaxLen
      BY <1>1, TreeBytes
    <3> QED BY <3>1
  <2>6. Judges(c)' <=> h <= Total(tree) - SizeIn(tree, jobs[c].file) + Slack'
    BY <2>2 DEF Judges, At
  <2> HIDE DEF h
  <2>7. \A x, y, z \in Nat : x <= (x + y) - y + z
    OBVIOUS
  <2> QED BY <1>4, <2>4, <2>5, <2>6, <2>7
<1>9. CASE ListForCall(c) /\ At(c, "list")
  <2>1. /\ jobs'[c].at = "weigh" /\ jobs'[c].file = jobs[c].file
        /\ jobs'[c].existing = jobs[c].existing
    <3>1. Goes(c, "weigh")
      BY <1>9 DEF ListForCall, At
    <3> QED BY <3>1, GoesOn
  <2>2. walks'[c].left = DOMAIN tree /\ walks'[c].sum = 0
    BY <1>1, <1>9 DEF ListForCall, ListFiles
  <2>3. Measured(c)' = Total(tree)
    BY <1>3, <2>2 DEF Measured
  <2>4. h <= Total(tree) - jobs[c].existing + Slack
    BY <1>5, <1>9 DEF At
  <2>5. Judges(c)' <=> h <= Total(tree) - jobs[c].existing + Slack'
    BY <2>1, <2>3 DEF Judges, At
  <2> QED BY <1>7, <2>4, <2>5
<1>10. CASE StatForCall(c) /\ At(c, "weigh")
  <2>1. UNCHANGED jobs
    BY <1>10 DEF StatForCall
  <2>2. Measured(c)' = Measured(c)
    <3>1. StatOne(c)
      BY <1>10 DEF StatForCall
    <3> QED BY <3>1, MeasuredOn
  <2>3. h <= (walks[c].sum + m) - jobs[c].existing + Slack
    BY <1>5, <1>10 DEF At
  <2>4. Judges(c)' <=> h <= (walks[c].sum + m) - jobs[c].existing + Slack'
    <3>1. Measured(c)' = walks[c].sum + m
      BY <2>2 DEF Measured
    <3>2. jobs[c].at = "weigh"
      BY <1>10 DEF At
    <3>3. Judges(c)' <=> h <= Measured(c)' - jobs[c].existing + Slack'
      BY <2>1, <3>2 DEF Judges, At
    <3> QED BY <3>1, <3>3
  <2> QED BY <1>7, <2>3, <2>4
<1>11. CASE Weigh(c)
  <2>1. walks[c].left = {} /\ jobs[c].at = "weigh"
    BY <1>11 DEF Weigh, Walked, At
  <2>2. m = 0
    BY <2>1, HeldEmpty
  <2>3. h <= (walks[c].sum + 0) - jobs[c].existing + Slack
    BY <1>5, <2>1, <2>2
  <2>4. CASE Projected(c) > Quota
    <3>1. jobs'[c] = Over
      BY <1>1, <1>11, <2>4 DEF Weigh, Ends
    <3> QED BY <1>6, <3>1 DEF Over, NoJob
  <2>5. CASE ~(Projected(c) > Quota)
    <3>1. /\ jobs'[c].at = "put" /\ jobs'[c].file = jobs[c].file
          /\ jobs'[c].len = jobs[c].len
      <4>1. Goes(c, "put")
        BY <1>11, <2>5 DEF Weigh
      <4> QED BY <4>1, GoesOn
    <3>2. Judges(c)' <=> h + jobs[c].len <= Quota + Slack'
      BY <3>1 DEF Judges, At
    <3>3. walks[c].sum - jobs[c].existing + jobs[c].len <= Quota
      <4>1. ~(walks[c].sum - jobs[c].existing + jobs[c].len > Quota)
        BY <2>5 DEF Projected
      <4> QED BY <1>2, <4>1
    <3> DEFINE e == jobs[c].existing
               l == jobs[c].len
               w == walks[c].sum
    <3>4. /\ e \in Int /\ l \in Int /\ w \in Int /\ h \in Int
          /\ Slack \in Int /\ Slack' \in Int /\ Quota \in Int /\ Slack <= Slack'
      BY <1>2, <1>4
    <3> HIDE DEF h, e, l, w
    <3>5. h <= (w + 0) - e + Slack /\ w - e + l <= Quota => h + l <= Quota + Slack'
      BY <3>4, Fits, ZenonT(30)
    <3> QED BY <2>3, <3>2, <3>3, <3>5 DEF e, l, w
  <2> QED BY <2>4, <2>5
<1>12. CASE Refuse(c) \/ WalkRaises(c) \/ Emit(c)
  <2>1. jobs'[c] = Over
    BY <1>1, <1>12 DEF Refuse, WalkRaises, Emit, Ends
  <2> QED BY <1>6, <2>1 DEF Over, NoJob
<1>13. CASE StartUnlink(c) \/ Put(c)
  <2>1. jobs'[c].at \in {"unlink", "relist"}
    <3>1. Goes(c, "unlink") \/ Goes(c, "relist")
      BY <1>13 DEF StartUnlink, Put
    <3> QED BY <3>1, GoesOn
  <2> QED BY <1>6, <2>1
<1>14. CASE Unlink(c)
  <2>1. jobs'[c].at = "relist" \/ jobs'[c] = Over
    <3>1. Goes(c, "relist") \/ Ends(c)
      BY <1>14 DEF Unlink
    <3> QED BY <1>1, <3>1, GoesOn DEF Ends
  <2> QED BY <1>6, <2>1 DEF Over, NoJob
<1>15. CASE ListForCall(c) /\ ~At(c, "list")
  <2>1. jobs'[c].at = "tell"
    <3>1. Goes(c, "tell")
      BY <1>15 DEF ListForCall
    <3> QED BY <3>1, GoesOn
  <2> QED BY <1>6, <2>1
<1>16. CASE StatForCall(c) /\ ~At(c, "weigh")
  <2>1. jobs'[c].at = "tell"
    BY <1>16 DEF StatForCall, At
  <2> QED BY <1>6, <2>1
<1> QED BY <1>8, <1>9, <1>10, <1>11, <1>12, <1>13, <1>14, <1>15, <1>16 DEF FileCallStep

LEMMA QuotaCall ==
  ASSUME FilesTypeOK, FilesTypeOK', ThreadTypeOK, CallsInv, QuotaInv,
         NEW c \in Calls, FileCallStep(c) \/ PutFails(c), UNCHANGED mainVars
  PROVE  QuotaInv'
<1> USE Records DEF mainVars
<1>1. given \in SUBSET Calls /\ given' \in SUBSET Calls /\ tree \in Trees /\ tree' \in Trees
  BY DEF ThreadTypeOK, FilesTypeOK
<1>2. /\ \A d \in Calls \ {c} : jobs'[d] = jobs[d] /\ walks'[d] = walks[d]
      /\ MayChange(c)' => MayChange(c)
  BY CallKeepsOthers
<1>3. given \subseteq given' /\ given' \subseteq 1..calls'
  BY DEF QuotaInv
<1>4. \A d \in given : MayChange(d)' => MayChange(d)
  BY <1>1, <1>2 DEF MayChange
<1>5. c \notin given => \A d \in Calls \ given : d /= c => ~Working(d)
  <2>1. Working(c)
    BY CallStep
  <2> QED BY <2>1 DEF CallsInv
\* A step that leaves the tree as it is.
<1>6. ASSUME UNCHANGED tree,
             c \in given \/ (Slack' \in Nat /\ Slack' >= Slack => Judges(c)')
      PROVE  QuotaInv'
  <2>1. \A d \in Calls \ given' :
          \/ jobs'[d] = jobs[d] /\ walks'[d] = walks[d]
          \/ Slack' \in Nat /\ Slack' >= Slack => Judges(d)'
    BY <1>2, <1>6
  <2> QED BY <1>1, <1>3, <1>4, <1>6, <2>1, QuotaKept
\* A step that may change it.
<1>7. ASSUME NEW g \in Files, Alike(tree, tree', g), MayChange(c),
             jobs'[c].at \in {"relist", "over"}, UNCHANGED walks,
             c \notin given => Total(tree') <= Total(tree) \/ Total(tree') <= Quota + Slack
      PROVE  QuotaInv'
  <2>1. ~MayChange(c)'
    BY <1>7 DEF MayChange
  <2>2. CASE c \in given
    BY <1>1, <1>2, <1>7, <2>1, <2>2, QuotaLoosened
  <2>3. CASE c \notin given
    <3>1. \A d \in given : jobs'[d] = jobs[d]
      BY <1>1, <1>2, <2>3
    <3>2. \A d \in Calls \ given : jobs'[d].at \notin {"list", "weigh", "put"}
      BY <1>2, <1>5, <1>7, <2>3 DEF Working
    <3> QED BY <1>1, <1>7, <2>3, <3>1, <3>2, QuotaInTurn
  <2> QED BY <2>2, <2>3
<1>8. Slack \in Nat
  BY <1>1, SlackIs
<1>9. jobs[c].len \in Nat
  <2>1. jobs[c].len \in Sizes
    BY DEF FilesTypeOK, Job
  <2> QED BY <2>1
<1>10. ASSUME FileCallStep(c), UNCHANGED tree PROVE QuotaInv'
  <2>1. c \notin given => Judges(c)
    BY DEF QuotaInv
  <2> QED BY <1>6, <1>8, <1>10, <2>1, JudgesOn
<1>11. ASSUME At(c, "put"), NEW n \in 0..jobs[c].len, tree' = With(tree, jobs[c].file, n),
              jobs'[c].at \in {"relist", "over"}, UNCHANGED walks
       PROVE  QuotaInv'
  <2> DEFINE f == jobs[c].file
  <2>1. f \in Files
    BY <1>11 DEF CallsInv, Working, At
  <2>2. Alike(tree, tree', f) /\ SizeIn(tree', f) = n
    <3>1. Alike(tree, With(tree, f, n), f) /\ SizeIn(With(tree, f, n), f) = n
      BY WithChanges
    <3> QED BY <1>11, <3>1
  <2>3. MayChange(c)
    BY <1>11 DEF MayChange, At
  <2>4. ASSUME c \notin given PROVE Total(tree') <= Quota + Slack
    <3>1. Held(tree, Files \ {f}) + jobs[c].len <= Quota + Slack
      BY <1>11, <2>4 DEF QuotaInv, Judges
    <3>2. Total(tree') = Held(tree, Files \ {f}) + n /\ Held(tree, Files \ {f}) \in Nat
      BY <1>1, <2>1, <2>2, TotalMoves
    <3>3. n \in Int /\ n <= jobs[c].len /\ jobs[c].len \in Int
      BY <1>9, <1>11
    <3>4. \A h, l, q \in Int : h + l <= q /\ n <= l => h + n <= q
      BY <3>3
    <3>5. Quota + Slack \in Int
      BY <1>8
    <3> HIDE DEF f
    <3> QED BY <3>1, <3>2, <3>3, <3>4, <3>5
  <2> QED BY <1>7, <1>11, <2>1, <2>2, <2>3, <2>4
<1>12. CASE Put(c)
  <2>1. jobs'[c].at = "relist"
    BY <1>12, GoesOn DEF Put
  <2>2. jobs[c].len \in 0..jobs[c].len
    BY <1>9
  <2> QED BY <1>11, <1>12, <2>1, <2>2 DEF Put
<1>13. CASE PutFails(c)
  <2>1. jobs'[c].at = "over"
    BY <1>13 DEF PutFails, Ends, Over, NoJob, FilesTypeOK
  <2>2. CASE tree' = tree
    <3>1. jobs[c].file \in Files /\ MayChange(c)
      BY <1>13 DEF PutFails, CallsInv, Working, At, MayChange
    <3>2. Alike(tree, tree', jobs[c].file)
      BY <2>2 DEF Alike
    <3>3. Total(tree') <= Total(tree)
      BY <1>1, <2>2, TreeBytes
    <3> QED BY <1>7, <1>13, <2>1, <3>1, <3>2, <3>3 DEF PutFails
  <2> QED BY <1>11, <1>13, <2>1, <2>2 DEF PutFails
<1>14. CASE Unlink(c)
  <2>1. CASE jobs[c].file \in DOMAIN tree
    <3>1. jobs[c].file \in Files /\ MayChange(c)
      BY <1>14 DEF Unlink, CallsInv, Working, At, MayChange
    <3>2. tree' = Without(tree, jobs[c].file) /\ jobs'[c].at = "relist" /\ UNCHANGED walks
      BY <1>14, <2>1, GoesOn DEF Unlink
    <3>3. Alike(tree, tree', jobs[c].file) /\ SizeIn(tree', jobs[c].file) = 0
      BY <3>2, WithoutChanges
    <3>4. /\ Held(tree, Files \ {jobs[c].file}) \in Nat
          /\ Total(tree) = Held(tree, Files \ {jobs[c].file}) + SizeIn(tree, jobs[c].file)
          /\ Total(tree') = Held(tree, Files \ {jobs[c].file}) + 0
          /\ SizeIn(tree, jobs[c].file) \in Nat
      <4>1. \A t, u \in Trees, g \in Files :
              Alike(t, u, g) => /\ Held(t, Files \ {g}) \in Nat
                                /\ Total(t) = Held(t, Files \ {g}) + SizeIn(t, g)
                                /\ Total(u) = Held(t, Files \ {g}) + SizeIn(u, g)
                                /\ SizeIn(t, g) \in Nat
        BY TotalMoves
      <4> QED BY <1>1, <3>1, <3>3, <4>1
    <3>5. Total(tree') <= Total(tree)
      BY <3>4
    <3> QED BY <1>7, <3>1, <3>2, <3>3, <3>5
  <2>2. CASE jobs[c].file \notin DOMAIN tree
    BY <1>10, <1>14, <2>2 DEF Unlink, FileCallStep
  <2> QED BY <2>1, <2>2
<1>15. CASE FileCallStep(c) /\ ~Put(c) /\ ~Unlink(c)
  <2>1. UNCHANGED tree
    BY <1>15 DEF FileCallStep, Refuse, StatExisting, ListForCall, StatForCall, WalkRaises,
       Weigh, StartUnlink, Emit
  <2> QED BY <1>10, <1>15, <2>1
<1> QED BY <1>12, <1>13, <1>14, <1>15

LEMMA QuotaStep ==
  ASSUME ToolsInv, FilesTypeOK', ThreadTypeOK', [Next]_vars, ~outside'
  PROVE  QuotaInv'
<1>1. FilesTypeOK /\ ThreadTypeOK /\ CallsInv
  BY Types DEF ToolsInv
<1>2. ~outside
  <2>1. UNCHANGED outside \/ AgentProcess
    BY DEF Next, Own, Connected, Unconnected, RefusePairing, Paired,
     OpeningSnapshot, MainStat, MainVanished, Weighed, Indexed, Briefed, AskBalances,
     Balanced, Injected, LookForPlan,
     ReadPlan, DispatchFileCall, BeginFileCall, DispatchHarnessCall, Return, GiveUp,
     ClosingSnapshot, Ended, BeginClose, StopLoop, Exit, Elsewhere, fileVars,
     Threads, Trouble, ContainerStops, PolicyRestarts, AgentActs, PutFails, vars,
     FileCallStep, Refuse, StatExisting, ListForCall, StatForCall, WalkRaises, Weigh,
     Put, StartUnlink, Unlink, Emit
  <2> QED BY <1>1, <2>1 DEF AgentProcess, FilesTypeOK
<1>3. QuotaInv
  BY <1>2 DEF ToolsInv
<1>4. CASE UNCHANGED fileVars /\ UNCHANGED mainVars
  BY <1>3, <1>4 DEF fileVars, mainVars, QuotaInv, Slack, Changers, MayChange, Judges, At,
     Measured
<1>5. CASE Own
  BY <1>1, <1>3, <1>5, QuotaOwn
<1>6. CASE Threads
  BY <1>1, <1>3, <1>4, <1>6, QuotaCall DEF Threads
<1>7. CASE Trouble
  BY <1>1, <1>3, <1>4, <1>7, QuotaCall DEF Trouble, ContainerStops, PolicyRestarts,
     AgentActs, AgentProcess
<1> QED BY <1>4, <1>5, <1>6, <1>7 DEF Next, vars

-------------------------------------------------------------------------------
(* The totals the rows tell.                                               *)

LEMMA OwnCounted ==
  ASSUME TypeOK, CallsInv, Orderly, Counted, Own, ~account'.void
  PROVE  Counted'
<1> USE Records
<1>1. ASSUME UNCHANGED <<tree, jobs, account>>, \A c \in Calls : walks'[c] = walks[c]
      PROVE  Counted'
  BY <1>1 DEF Counted, At, Owes, Measured
<1>2. ASSUME UNCHANGED <<tree, account>>, \A c \in Calls : ~Owes(c),
             \A c \in Calls : jobs'[c].at \notin {"relist", "tell"}
      PROVE  Counted'
  BY <1>2 DEF Counted, At, Owes
<1>3. ASSUME ListFiles(Main) \/ StatOne(Main) \/ Forget(Main)
      PROVE  \A c \in Calls : walks'[c] = walks[c]
  BY <1>3 DEF ListFiles, StatOne, Forget, TypeOK, FilesTypeOK
<1> USE DEF Elsewhere, fileVars
<1>4. CASE Connected \/ Unconnected \/ RefusePairing \/ Paired
  BY <1>1, <1>4 DEF Connected, Unconnected, RefusePairing, Paired
<1>5. CASE OpeningSnapshot \/ MainStat \/ MainVanished \/ Weighed \/ Indexed
           \/ ClosingSnapshot \/ Ended
  BY <1>1, <1>3, <1>5 DEF OpeningSnapshot, MainStat, MainVanished, Weighed, Indexed,
     ClosingSnapshot, Ended
<1>6. CASE \/ Briefed \/ AskBalances \/ Balanced \/ LookForPlan \/ ReadPlan
           \/ Return \/ StopLoop \/ Exit \/ DispatchHarnessCall
  BY <1>1, <1>6 DEF Briefed, AskBalances, Balanced, Injected, LookForPlan,
     ReadPlan, Return, StopLoop, Exit, DispatchHarnessCall
<1>7. CASE GiveUp
  <2>1. account' = Void \/ UNCHANGED account
    BY <1>7 DEF GiveUp
  <2>2. UNCHANGED <<tree, jobs, walks>>
    BY <1>7 DEF GiveUp
  <2> QED BY <1>1, <2>1, <2>2
<1>8. CASE DispatchFileCall
  <2>1. calls' \in Calls
    BY <1>8 DEF DispatchFileCall, TypeOK, Calls
  <2>2. /\ \A d \in Calls \ {calls'} : jobs'[d] = jobs[d]
        /\ jobs'[calls'].at = "begun"
    BY <1>8, <2>1, CallBegins DEF DispatchFileCall, TypeOK
  <2>3. pc = "loop" /\ UNCHANGED <<tree, account>>
    BY <1>8 DEF DispatchFileCall, BeginFileCall, Goto
  <2>4. \A d \in Calls : jobs[d].at \in {"none", "over"}
    BY <2>3, AtRest DEF Working
  <2>5. \A d \in Calls : jobs'[d].at \in {"none", "begun", "over"}
    BY <2>2, <2>4
  <2> QED BY <1>2, <2>3, <2>4, <2>5 DEF Owes
<1>9. CASE BeginClose
  <2>1. pc = "close" /\ UNCHANGED <<tree, account>> /\ \A d \in Calls : jobs'[d].at = "none"
    BY <1>9 DEF BeginClose, Goto, NoJob
  <2>2. \A d \in Calls : ~Owes(d)
    BY <2>1, AtRest DEF Working, Owes
  <2> QED BY <1>2, <2>1, <2>2
<1> QED BY <1>4, <1>5, <1>6, <1>7, <1>8, <1>9 DEF Own

\* The current call tells what it has counted, and it has counted what is there.
LEMMA CallCounted ==
  ASSUME TypeOK, CallsInv, Orderly, Counted, NEW c \in Calls, FileCallStep(c),
         UNCHANGED mainVars, ~account'.void, ~account.void
  PROVE  Counted'
<1> USE Records
<1>1. FilesTypeOK /\ Working(c) /\ jobs \in [Calls -> Job]
  BY CallStep DEF TypeOK, FilesTypeOK
<1>2. \A d \in Calls \ {c} : /\ ~Working(d)
                             /\ jobs'[d] = jobs[d] /\ walks'[d] = walks[d]
  BY <1>1, CallKeepsOthers DEF CallsInv, Orderly
<1>3. \A d \in Calls \ {c} : ~Owes(d) /\ ~Owes(d)' /\ ~At(d, "tell")'
  BY <1>2 DEF Owes, Working, At
\* A step that neither changes the tree nor tells of a change.
<1>4. ASSUME UNCHANGED <<tree, account>>, Owes(c)' <=> Owes(c),
             At(c, "tell")' => Measured(c)' = Total(tree)
      PROVE  Counted'
  <2>1. (\A d \in Calls : ~Owes(d))' => \A d \in Calls : ~Owes(d)
    BY <1>3, <1>4
  <2>2. (\A d \in Calls : ~Owes(d))' => account'.total \in {NoTotal, Total(tree')}
    BY <1>4, <2>1 DEF Counted
  <2>3. \A d \in Calls : At(d, "tell")' => Measured(d)' = Total(tree')
    BY <1>3, <1>4
  <2> QED BY <2>2, <2>3 DEF Counted
<1>5. ASSUME jobs'[c].at = "relist" PROVE Counted'
  <2>1. Owes(c)' /\ ~At(c, "tell")'
    BY <1>5 DEF Owes, At
  <2> QED BY <1>3, <2>1 DEF Counted
<1>6. CASE Refuse(c)
  <2>1. jobs'[c] = Over /\ jobs[c].at = "begun" /\ UNCHANGED <<tree, account>>
    BY <1>1, <1>6 DEF Refuse, Ends, At
  <2> QED BY <1>4, <2>1 DEF Owes, At, Over, NoJob
<1>7. CASE StatExisting(c)
  <2>1. jobs'[c].at = "list" /\ jobs[c].at = "begun" /\ UNCHANGED <<tree, account>>
    BY <1>1, <1>7 DEF StatExisting, At
  <2> QED BY <1>4, <2>1 DEF Owes, At
<1>8. CASE ListForCall(c) /\ At(c, "list")
  <2>1. Goes(c, "weigh") /\ UNCHANGED <<tree, account>>
    BY <1>8 DEF ListForCall, At
  <2>2. jobs'[c].at = "weigh" /\ jobs[c].at = "list"
    BY <1>1, <1>8, <2>1, GoesOn DEF At
  <2> QED BY <1>4, <2>1, <2>2 DEF Owes, At
<1>9. CASE ListForCall(c) /\ ~At(c, "list")
  <2>1. Goes(c, "tell") /\ jobs[c].at = "relist" /\ UNCHANGED <<tree, account>>
    BY <1>9 DEF ListForCall, At
  <2>2. jobs'[c].at = "tell"
    BY <1>1, <2>1, GoesOn
  <2>3. walks'[c].left = DOMAIN tree /\ walks'[c].sum = 0
    BY <1>1, <1>9 DEF ListForCall, ListFiles, FilesTypeOK
  <2>4. Total(tree) = Held(tree, DOMAIN tree) /\ Total(tree) \in Nat
    BY <1>1, TreeBytes DEF FilesTypeOK
  <2>5. Measured(c)' = Total(tree)
    BY <2>1, <2>3, <2>4 DEF Measured
  <2> QED BY <1>4, <2>1, <2>2, <2>5 DEF Owes
<1>10. CASE StatForCall(c)
  <2>1. StatOne(c) /\ UNCHANGED <<tree, jobs, account>>
    BY <1>10 DEF StatForCall
  <2>2. Measured(c)' = Measured(c)
    BY <1>1, <2>1, MeasuredOn
  <2>3. At(c, "tell")' => Measured(c)' = Total(tree)
    BY <2>1, <2>2 DEF Counted, At
  <2> QED BY <1>4, <2>1, <2>3 DEF Owes
<1>11. CASE WalkRaises(c)
  BY <1>11, ListedIsListed DEF WalkRaises, Vanished, Orderly
<1>12. CASE Weigh(c)
  <2>1. jobs[c].at = "weigh" /\ (Ends(c) \/ Goes(c, "put")) /\ UNCHANGED <<tree, account>>
    BY <1>12 DEF Weigh, At
  <2>2. jobs'[c].at \in {"over", "put"}
    BY <1>1, <2>1, GoesOn DEF Ends, Over, NoJob
  <2> QED BY <1>4, <2>1, <2>2 DEF Owes, At
<1>13. CASE StartUnlink(c)
  <2>1. Goes(c, "unlink") /\ jobs[c].at = "begun" /\ UNCHANGED <<tree, account>>
    BY <1>13 DEF StartUnlink, At
  <2>2. jobs'[c].at = "unlink"
    BY <1>1, <2>1, GoesOn
  <2> QED BY <1>4, <2>1, <2>2 DEF Owes, At
<1>14. CASE Put(c) \/ Unlink(c)
  <2>1. Goes(c, "relist")
    BY <1>14 DEF Put, Unlink, Orderly
  <2> QED BY <1>1, <1>5, <2>1, GoesOn
<1>15. CASE Emit(c)
  <2>1. /\ walks[c].left = {} /\ At(c, "tell") /\ account' = Tells(c) /\ UNCHANGED tree
        /\ jobs'[c] = Over
    BY <1>1, <1>15 DEF Emit, Walked, Ends
  <2>2. Measured(c) = Total(tree) /\ walks[c].sum \in Nat
    BY <2>1 DEF Counted, TypeOK, FilesTypeOK
  <2>3. walks[c].sum = Total(tree)
    BY <2>1, <2>2, HeldEmpty DEF Measured
  <2>4. account'.total = Total(tree')
    BY <2>1, <2>3 DEF Tells
  <2>5. ~At(c, "tell")'
    BY <2>1 DEF At, Over, NoJob
  <2> QED BY <1>3, <2>4, <2>5 DEF Counted
<1> QED BY <1>6, <1>7, <1>8, <1>9, <1>10, <1>11, <1>12, <1>13, <1>14, <1>15
        DEF FileCallStep

LEMMA CountedStep ==
  ASSUME ToolsInv, [Next]_vars, ~account'.void
  PROVE  Counted'
<1>1. ~account.void
  BY VoidStays DEF ToolsInv, TypeOK
<1>2. Orderly /\ Counted /\ TypeOK /\ CallsInv
  BY <1>1 DEF ToolsInv
<1>3. CASE UNCHANGED fileVars
  BY <1>2, <1>3 DEF fileVars, Counted, At, Owes, Measured
<1>4. CASE Own
  BY <1>2, <1>4, OwnCounted
<1>5. CASE Threads
  BY <1>1, <1>2, <1>3, <1>5, CallCounted DEF Threads
<1>6. CASE Trouble
  <2>1. account' /= Void
    BY Records
  <2> QED BY <1>3, <1>6, <2>1 DEF Trouble, ContainerStops, PolicyRestarts, AgentActs,
          AgentProcess, PutFails
<1> QED BY <1>3, <1>4, <1>5, <1>6 DEF Next, vars

-------------------------------------------------------------------------------
(* The theorems.                                                           *)

LEMMA ToolsInit == Init => ToolsInv
<1> SUFFICES ASSUME Init PROVE ToolsInv
  OBVIOUS
<1> USE DEF Init
<1>1. TypeOK
  <2>1. Client!ClientTypeOK
    BY DEF Client!ClientInit, Client!ClientTypeOK, Client!Asked
  <2>2. ThreadTypeOK
    BY DEF ThreadTypeOK, Pcs, Closing
  <2>3. ContainerTypeOK
    <3>1. count \in Counts /\ known \in Counts \cup {None} /\ last = known
      BY SessionToolsAssumption DEF Counts, None
    <3>2. troubles \in 0..MaxTroubles
      BY SessionToolsAssumption
    <3>3. up \in BOOLEAN /\ restarted \in BOOLEAN /\ owed \in BOOLEAN
      OBVIOUS
    <3>4. reset \in BOOLEAN /\ down \in BOOLEAN
      OBVIOUS
    <3> QED BY <3>1, <3>2, <3>3, <3>4 DEF ContainerTypeOK
  <2> QED BY FilesTyped, <2>1, <2>2, <2>3, Types
<1>2. ClientInv
  BY Records DEF ClientInv, Client!ClientInit, Unpaired, Closing, Closed
<1>3. ContainerInv
  <2>1. /\ Restarts \in Nat /\ troubles = 0 /\ count = Restarts /\ up = TRUE
        /\ pc = "spawn" /\ last = known /\ ~owed
        /\ known \in {None} \cup 0..Restarts
    BY SessionToolsAssumption
  <2>2. count <= Restarts + troubles
    BY <2>1
  <2>3. reset => down /\ known /= None
    OBVIOUS
  <2>4. down => known /= None
    BY <2>3
  <2>5. ASSUME known /= None, ~reset
        PROVE  /\ count >= known
               /\ ~down => up /\ count = known
               /\ up /\ down => count > known
    <3>1. known \in 0..Restarts /\ (down <=> known < count)
      BY <2>5
    <3> QED BY <2>1, <3>1
  <2> QED BY <2>1, <2>2, <2>3, <2>4, <2>5 DEF ContainerInv
<1>4. CallsInv
  BY Records DEF CallsInv, FilesInit, Client!ClientInit, NoJob, Working, At
<1>5. Orderly
  BY Records DEF Orderly, FilesInit, NoJob, NoWalk, At, Owes
<1>6. Counted
  BY DEF Counted, FilesInit, NoJob, At
<1>7. QuotaInv
  <2>1. given = {} /\ Total(tree) <= Quota /\ tree \in Trees
    BY DEF FilesInit
  <2>2. \A c \in Calls : Judges(c)
    BY DEF Judges, FilesInit, NoJob, At
  <2>3. Slack \in Nat
    BY <2>1, SlackIs
  <2>4. Total(tree) <= Quota + Slack
    <3>1. Total(tree) \in Nat
      BY <2>1, TreeBytes
    <3> QED BY <2>1, <2>3, <3>1
  <2> QED BY <2>1, <2>2, <2>4 DEF QuotaInv
<1> QED BY <1>1, <1>2, <1>3, <1>4, <1>5, <1>6, <1>7 DEF ToolsInv

LEMMA ToolsStep == ToolsInv /\ [Next]_vars => ToolsInv'
<1> SUFFICES ASSUME ToolsInv, [Next]_vars PROVE ToolsInv'
  OBVIOUS
<1>1. /\ FilesTypeOK /\ Client!ClientTypeOK /\ ThreadTypeOK /\ ContainerTypeOK
      /\ ClientInv /\ ContainerInv /\ CallsInv
  BY Types DEF ToolsInv
<1>2. FilesTypeOK' /\ Client!ClientTypeOK' /\ ClientInv' /\ CallsInv'
  BY <1>1, FilesStep, ClientStep, CallsStep
<1>3. ThreadTypeOK' /\ ContainerTypeOK' /\ ContainerInv'
  BY <1>1, ThreadTyped, ContainerStep DEF ToolsInv
<1>4. TypeOK'
  BY <1>2, <1>3 DEF TypeOK, ThreadTypeOK, ContainerTypeOK
<1>5. ~account'.void => Orderly' /\ Counted'
  BY OrderlyStep, CountedStep
<1>6. ~outside' => QuotaInv'
  BY <1>2, <1>3, QuotaStep
<1> QED BY <1>2, <1>3, <1>4, <1>5, <1>6 DEF ToolsInv

\* There is a session exactly while the manager has the connection, and its loop
\* turns until close has stopped it (harness.py); calls of tools are dispatched
\* one after the other, and what still works beside the current one was given up
\* on (loop.py); as long as none was, no file has gone under a walk.
THEOREM ToolsCorrect == Spec => []ToolsInv
<1>1. ToolsInv /\ [Next]_vars => ToolsInv'
  BY ToolsStep
<1> QED BY ToolsInit, <1>1, PTL DEF Spec

\* A shell_state row that read the container tells of every time it went down
\* since the last snapshot that read it, of this session or an earlier one, but
\* for the closing row behind an opening snapshot that read none
\* (environment.py, snapshot; runner.py, _run_one_session).
THEOREM RestartsAreTold == Spec => []RestartIsTold
<1>1. ToolsInv => RestartIsTold
  BY DEF ToolsInv, ContainerInv, RestartIsTold
<1> QED BY ToolsCorrect, <1>1, PTL

\* Whatever calls the watchdog gave up on, and whenever they go on, the file tools
\* keep the workspace within its quota, up to one file for each of those calls,
\* as long as no process in the environment writes by itself (scaffold.py,
\* workspace_write; loop.py, the watchdog).
THEOREM QuotaHolds == Spec => []QuotaBound
<1>1. ASSUME ToolsInv, ~outside PROVE Total(tree) <= Quota + MaxLen * Cardinality(given)
  <2>1. Total(tree) <= Quota + Slack /\ given \in SUBSET Calls /\ tree \in Trees
    BY <1>1 DEF ToolsInv, QuotaInv, TypeOK, FilesTypeOK
  <2>2. IsFiniteSet(given) /\ Cardinality(given) \in Nat
    <3>1. IsFiniteSet(Calls)
      BY FS_Interval DEF Calls
    <3> QED BY <2>1, <3>1, FS_Subset, FS_CardinalityType
  <2>3. Changers \in SUBSET given
    BY DEF Changers
  <2>4. Cardinality(Changers) \in Nat /\ Cardinality(Changers) <= Cardinality(given)
    BY <2>2, <2>3, FS_Subset, FS_CardinalityType
  <2>5. MaxLen \in Nat /\ Quota \in Nat
    OBVIOUS
  <2>6. /\ MaxLen * Cardinality(Changers) <= MaxLen * Cardinality(given)
        /\ MaxLen * Cardinality(given) \in Nat
    BY <2>2, <2>4, <2>5, TimesMore
  <2>7. Total(tree) \in Nat /\ Slack \in Nat /\ Slack = MaxLen * Cardinality(Changers)
    BY <2>1, SlackIs, TreeBytes DEF Slack
  <2> QED BY <2>1, <2>5, <2>6, <2>7
<1>2. ToolsInv => QuotaBound
  BY <1>1 DEF QuotaBound
<1> QED BY ToolsCorrect, <1>2, PTL

\* The rows account for the workspace: whoever replays them has the tree, and the
\* bytes in use that the last one tells are the bytes there are, as long as calls
\* run in their turn, the disk takes every write and nobody else changes files
\* (scaffold.py, workspace_write, workspace_delete and _regular_files).
THEOREM RowsAccount == Spec => []RowsAccountForTree
<1>1. ToolsInv => RowsAccountForTree
  BY DEF ToolsInv, Orderly, Counted, Owes, Working, TreeIsTold, Quiet, RowsAccountForTree
<1> QED BY ToolsCorrect, <1>1, PTL

\* Whatever paths calls may name and whichever of a file's names the agent used,
\* the name that telemetry has of a file leads the tools back to it (sandbox.py,
\* resolve_path; scaffold.py, _rel and resolve_rel).
THEOREM NamesOfFilesLeadBack == Spec => []NamesLeadBack
<1>1. TypeOK => NamesLeadBack
  <2> SUFFICES ASSUME TypeOK, NEW f \in DOMAIN tree \cup DOMAIN account.tree
               PROVE  Resolve(Rel(f)) = f
    BY DEF NamesLeadBack
  <2>1. tree \in Trees /\ account.tree \in Trees
    BY DEF TypeOK, FilesTypeOK, Account
  <2>2. f \in Files
    BY <2>1, TreeFacts
  <2> QED BY <2>2, LeadsBack
<1>2. ToolsInv => NamesLeadBack
  BY <1>1 DEF ToolsInv
<1> QED BY ToolsCorrect, <1>2, PTL

===============================================================================
