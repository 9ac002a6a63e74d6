------------------------------ MODULE NumberFacts ------------------------------
(***************************************************************************)
(* Facts about numbers that the proofs share: the highest of a set, a      *)
(* stretch of a function that takes one value, and the order of four       *)
(* numbers by the first that differs, which has no endless descent.        *)
(***************************************************************************)
EXTENDS Naturals, FiniteSets, FiniteSetTheorems, WellFoundedInduction, TLAPS

\* A finite, nonempty set of numbers has a highest element: otherwise the
\* sets of elements above each would have no minimal one.
LEMMA HasHighest ==
  ASSUME NEW S, S \subseteq Nat, IsFiniteSet(S), S /= {}
  PROVE  \E n \in S : \A m \in S : m <= n
<1> DEFINE Above(n) == {m \in S : m > n}
           T == {Above(n) : n \in S}
<1>1. T \subseteq FiniteSubsetsOf(S)
  <2>1. \A n \in S : Above(n) \in SUBSET S
    OBVIOUS
  <2>2. \A n \in S : IsFiniteSet(Above(n))
    BY <2>1, FS_Subset
  <2> QED
    BY <2>1, <2>2 DEF FiniteSubsetsOf
<1>2. T /= {}
  OBVIOUS
<1>3. PICK x \in T : \A y \in T : ~ (<<y, x>> \in StrictSubsetOrdering(S))
  <2> HIDE DEF T
  <2> QED
    BY <1>1, <1>2, FS_StrictSubsetOrderingWellFounded, WFMin
<1>4. PICK n \in S : x = Above(n)
  OBVIOUS
<1>5. \A m \in S : m <= n
  <2> SUFFICES ASSUME NEW m \in S, m > n
               PROVE  FALSE
    OBVIOUS
  <2> HIDE DEF T
  <2>0. \A k \in S : k \in Nat
    OBVIOUS
  <2>1. Above(m) \subseteq Above(n) /\ m \in Above(n) /\ m \notin Above(m)
    <3>1. \A k \in S : k > m => k > n
      BY <2>0
    <3>3. Above(m) \subseteq Above(n)
      BY <3>1
    <3>2. m \in Above(n) /\ m \notin Above(m)
      BY <2>0
    <3> QED
      BY <3>3, <3>2
  <2>2. <<Above(m), x>> \in StrictSubsetOrdering(S)
    BY <1>4, <2>1 DEF StrictSubsetOrdering
  <2> QED
    BY <1>3, <2>2 DEF T
<1> QED
  BY <1>5

\* The values of a stretch of a function are one value exactly if they are all
\* its last one.
LEMMA OneValue ==
  ASSUME NEW f, NEW a \in Nat, NEW b \in Nat, a <= b
  PROVE  Cardinality({f[i] : i \in a..b}) = 1 <=> \A i \in a..b : f[i] = f[b]
<1> DEFINE S == {f[i] : i \in a..b}
           g == [i \in a..b |-> f[i]]
<1>1. g \in Surjection(a..b, S)
  BY DEF Surjection
<1>2. IsFiniteSet(S)
  <2> HIDE DEF S, g
  <2> QED
    BY <1>1, FS_Interval, FS_Surjection
<1>3. Cardinality(S) = 1 <=> \E x : S = {x}
  <2> HIDE DEF S
  <2> QED
    BY <1>2, FS_Singleton
<1>4. b \in a..b
  OBVIOUS
<1>5. (\E x : S = {x}) <=> \A i \in a..b : f[i] = f[b]
  BY <1>4
<1> QED
  BY <1>3, <1>5

-------------------------------------------------------------------------------
\* The numbers below each number.
Below == {p \in Nat \X Nat : p[1] < p[2]}

\* There is no endless descent: the intervals up to its members would shrink
\* without end.
LEMMA BelowIsWellFounded == IsWellFoundedOn(Below, Nat)
<1> SUFFICES ASSUME NEW f \in [Nat -> Nat], \A n \in Nat : <<f[n + 1], f[n]>> \in Below
             PROVE  FALSE
  BY DEF IsWellFoundedOn
<1> DEFINE g == [n \in Nat |-> 1..f[n]]
<1>1. g \in [Nat -> FiniteSubsetsOf(Nat)]
  <2>1. ASSUME NEW n \in Nat PROVE 1..f[n] \in FiniteSubsetsOf(Nat)
    <3>1. IsFiniteSet(1..f[n])
      BY FS_Interval
    <3> QED
      BY <3>1 DEF FiniteSubsetsOf
  <2> QED
    BY <2>1
<1>2. ASSUME NEW n \in Nat
      PROVE  <<g[n + 1], g[n]>> \in StrictSubsetOrdering(Nat)
  <2>1. f[n + 1] \in Nat /\ f[n] \in Nat /\ f[n + 1] < f[n]
    BY DEF Below
  <2>2. 1..f[n + 1] \subseteq 1..f[n]
    BY <2>1
  <2>3. f[n] \in 1..f[n] /\ f[n] \notin 1..f[n + 1]
    BY <2>1
  <2>4. g[n + 1] = 1..f[n + 1] /\ g[n] = 1..f[n]
    OBVIOUS
  <2> HIDE DEF g
  <2>5. g[n + 1] \subseteq Nat /\ g[n] \subseteq Nat
    <3>1. \A m \in Nat : 1..m \subseteq Nat
      OBVIOUS
    <3> QED
      BY <2>1, <2>4, <3>1
  <2> QED
    BY <2>2, <2>3, <2>4, <2>5 DEF StrictSubsetOrdering
<1> HIDE DEF g
<1>3. IsWellFoundedOn(StrictSubsetOrdering(Nat), FiniteSubsetsOf(Nat))
  BY FS_StrictSubsetOrderingWellFounded
<1> QED
  BY <1>1, <1>2, <1>3 DEF IsWellFoundedOn

\* Four numbers each, compared from the first to the last.
Quadruples == [1..4 -> Nat]
Sooner == LexProductOrdering(Below, Nat, 4)

LEMMA SoonerIsWellFounded == IsWellFoundedOn(Sooner, Quadruples)
BY BelowIsWellFounded, WFLexProductOrdering DEF Sooner, Quadruples

LEMMA SoonerByOne ==
  ASSUME NEW a \in Quadruples, NEW b \in Quadruples, NEW j \in 1..4,
         \A i \in 1..(j - 1) : a[i] = b[i], a[j] < b[j]
  PROVE  <<a, b>> \in Sooner
<1>1. a[j] \in Nat /\ b[j] \in Nat
  BY DEF Quadruples
<1>2. <<a[j], b[j]>> \in Below
  BY <1>1 DEF Below
<1> QED
  BY <1>2 DEF Sooner, LexProductOrdering, Quadruples

LEMMA SoonerOf ==
  ASSUME NEW a1 \in Nat, NEW a2 \in Nat, NEW a3 \in Nat, NEW a4 \in Nat,
         NEW b1 \in Nat, NEW b2 \in Nat, NEW b3 \in Nat, NEW b4 \in Nat,
         \/ a1 < b1
         \/ a1 = b1 /\ a2 < b2
         \/ a1 = b1 /\ a2 = b2 /\ a3 < b3
         \/ a1 = b1 /\ a2 = b2 /\ a3 = b3 /\ a4 < b4
  PROVE  <<<<a1, a2, a3, a4>>, <<b1, b2, b3, b4>>>> \in Sooner
<1> DEFINE a == <<a1, a2, a3, a4>>
           b == <<b1, b2, b3, b4>>
<1>1. a \in Quadruples /\ b \in Quadruples
  BY DEF Quadruples
<1>2. /\ a[1] = a1 /\ a[2] = a2 /\ a[3] = a3 /\ a[4] = a4
      /\ b[1] = b1 /\ b[2] = b2 /\ b[3] = b3 /\ b[4] = b4
  OBVIOUS
<1> HIDE DEF a, b
<1>3. PICK j \in 1..4 : (\A i \in 1..(j - 1) : a[i] = b[i]) /\ a[j] < b[j]
  <2>1. CASE a1 < b1
    BY <1>2, <2>1
  <2>2. CASE a1 = b1 /\ a2 < b2
    BY <1>2, <2>2
  <2>3. CASE a1 = b1 /\ a2 = b2 /\ a3 < b3
    BY <1>2, <2>3
  <2>4. CASE a1 = b1 /\ a2 = b2 /\ a3 = b3 /\ a4 < b4
    BY <1>2, <2>4
  <2> QED
    BY <2>1, <2>2, <2>3, <2>4
<1>4. <<a, b>> \in Sooner
  BY <1>1, <1>3, SoonerByOne
<1> QED
  BY <1>4 DEF a, b

================================================================================
