---------------------------- MODULE ShellExecProofs ----------------------------
(***************************************************************************)
(* Proofs about ShellExec: what was received and not cut, and what is      *)
(* still on the wire, are whole frames that go on where the sinks stop, so *)
(* that a stream's end leaves nothing untold; an error is never the        *)
(* command's; and no call goes on for ever.                                *)
(***************************************************************************)
EXTENDS ShellExec, NumberFacts, SequenceTheorems, TLAPS

-------------------------------------------------------------------------------
(* What a sink keeps.                                                      *)

LEMMA SaidType ==
  ASSUME NEW s \in Streams, NEW n \in Nat
  PROVE  Said(s, n) \in Seq(Byte) /\ Len(Said(s, n)) = n
<1>1. \A i \in 1..n : <<s, i>> \in Byte
  BY DEF Byte
<1>2. Said(s, n) = [i \in 1..n |-> <<s, i>>]
  BY DEF Said
<1> QED
  BY <1>1, <1>2

\* The payload says what comes behind the first t bytes of s.
GoesOn(payload, n, s, t) ==
  /\ payload \in Seq(Byte) /\ Len(payload) = n
  /\ \A i \in 1..n : payload[i] = <<s, t + i>>

LEMMA SeqOfBytes ==
  ASSUME NEW S, NEW s \in Seq(S), \A i \in 1..Len(s) : s[i] \in Byte
  PROVE  s \in Seq(Byte)
<1>1. Len(s) \in Nat /\ s \in [1..Len(s) -> S]
  OBVIOUS
<1> QED
  BY <1>1, SeqDef

LEMMA FirstOf ==
  ASSUME NEW S, NEW p \in Seq(S), NEW m \in 0..Len(p)
  PROVE  /\ First(p, m) \in Seq(S) /\ Len(First(p, m)) = m
         /\ \A i \in 1..m : First(p, m)[i] = p[i]
<1>1. First(p, m) = SubSeq(p, 1, m)
  BY DEF First
<1> QED
  BY <1>1

LEMMA JoinOf ==
  ASSUME NEW S, NEW a \in Seq(S), NEW b \in Seq(S)
  PROVE  /\ a \o b \in Seq(S) /\ Len(a \o b) = Len(a) + Len(b)
         /\ \A i \in 1..Len(a) : (a \o b)[i] = a[i]
         /\ \A i \in 1..Len(b) : (a \o b)[Len(a) + i] = b[i]
<1> DEFINE x == a \o b
           n == Len(a)
           m == Len(b)
<1>1. /\ n \in Nat /\ m \in Nat /\ x \in Seq(S) /\ Len(x) = n + m
      /\ \A i \in 1..(n + m) : x[i] = IF i <= n THEN a[i] ELSE b[i - n]
  BY ConcatProperties
<1> HIDE DEF x, n, m
<1>2. ASSUME NEW i \in 1..n PROVE x[i] = a[i]
  <2>1. i \in 1..(n + m) /\ i <= n
    BY <1>1
  <2> QED
    BY <1>1, <2>1
<1>3. ASSUME NEW i \in 1..m PROVE x[n + i] = b[i]
  <2>1. n + i \in 1..(n + m) /\ ~(n + i <= n) /\ (n + i) - n = i
    BY <1>1
  <2> QED
    BY <1>1, <2>1
<1> QED
  BY <1>1, <1>2, <1>3 DEF x, n, m

LEMMA SaidGoesOn ==
  ASSUME NEW s \in Streams, NEW t \in Nat, NEW n \in Nat, NEW m \in 0..n,
         NEW payload, GoesOn(payload, n, s, t)
  PROVE  Said(s, t) \o First(payload, m) = Said(s, t + m)
<1> DEFINE a == Said(s, t)
           b == First(payload, m)
           c == Said(s, t + m)
<1>1. payload \in Seq(Byte) /\ Len(payload) = n /\ \A i \in 1..n : payload[i] = <<s, t + i>>
  BY DEF GoesOn
<1>2. /\ b \in Seq(Byte) /\ Len(b) = m
      /\ \A i \in 1..m : b[i] = payload[i]
  BY <1>1, FirstOf
<1>3. a \in Seq(Byte) /\ Len(a) = t /\ c \in Seq(Byte) /\ Len(c) = t + m
  BY SaidType
<1>4. (\A i \in 1..t : a[i] = <<s, i>>) /\ (\A i \in 1..(t + m) : c[i] = <<s, i>>)
  BY DEF Said
<1> HIDE DEF a, b, c
<1>5. /\ a \o b \in Seq(Byte) /\ Len(a \o b) = t + m
      /\ \A i \in 1..t : (a \o b)[i] = a[i]
      /\ \A i \in 1..m : (a \o b)[t + i] = b[i]
  <2>1. \A x, y \in Seq(Byte) :
          /\ x \o y \in Seq(Byte) /\ Len(x \o y) = Len(x) + Len(y)
          /\ \A i \in 1..Len(x) : (x \o y)[i] = x[i]
          /\ \A i \in 1..Len(y) : (x \o y)[Len(x) + i] = y[i]
    BY JoinOf
  <2> QED
    BY <1>2, <1>3, <2>1
<1>6. ASSUME NEW i \in 1..(t + m) PROVE (a \o b)[i] = c[i]
  <2>0. i \in Nat /\ (i <= t \/ i > t)
    OBVIOUS
  <2>1. CASE i <= t
    <3>1. i \in 1..t
      BY <2>1
    <3> QED
      BY <1>4, <1>5, <3>1
  <2>2. CASE i > t
    <3>1. i - t \in 1..m /\ i - t \in 1..n /\ t + (i - t) = i
      BY <2>2
    <3>2. b[i - t] = <<s, i>>
      BY <1>1, <1>2, <3>1
    <3>3. (a \o b)[i] = b[i - t]
      BY <1>5, <3>1
    <3> QED
      BY <1>4, <3>2, <3>3
  <2> QED
    BY <2>0, <2>1, <2>2
<1>7. a \o b = c
  BY <1>3, <1>5, <1>6, SeqEqual
<1> QED
  BY <1>7 DEF a, b, c

\* What a sink of bound max that kept `kept` keeps with the payload.
Filled(kept, payload, n, max) == kept \o First(payload, Least(n, Room(kept, max)))

\* A sink of bound max goes on with its stream and stops at its bound.
LEMMA KeepsFirst ==
  ASSUME NEW s \in Streams, NEW t \in Nat, NEW n \in Nat, NEW max \in Nat,
         NEW payload, GoesOn(payload, n, s, t)
  PROVE  Filled(Said(s, Least(t, max)), payload, n, max) = Said(s, Least(t + n, max))
<1> DEFINE kept == Said(s, Least(t, max))
<1>1. Least(t, max) \in Nat
  BY DEF Least
<1>2. Len(kept) = Least(t, max)
  BY <1>1, SaidType
<1>3. CASE t < max
  <2>1. Least(t, max) = t /\ Room(kept, max) = max - t
    BY <1>2, <1>3 DEF Room, Least
  <2>2. Least(n, max - t) \in 0..n /\ t + Least(n, max - t) = Least(t + n, max)
    BY <1>3 DEF Least
  <2> HIDE DEF kept
  <2>3. Said(s, t) \o First(payload, Least(n, max - t)) = Said(s, t + Least(n, max - t))
    <3> DEFINE m == Least(n, max - t)
    <3>1. m \in 0..n
      BY <2>2
    <3> HIDE DEF m
    <3>2. Said(s, t) \o First(payload, m) = Said(s, t + m)
      BY <3>1, SaidGoesOn
    <3> QED
      BY <3>2 DEF m
  <2> QED
    BY <2>1, <2>2, <2>3 DEF kept, Filled
<1>4. CASE t >= max
  <2>1. Least(t, max) = max /\ Room(kept, max) = 0 /\ Least(t + n, max) = max
        /\ Least(n, 0) = 0
    BY <1>2, <1>4 DEF Room, Least
  <2>2. First(payload, 0) = <<>>
    BY DEF First, GoesOn
  <2>3. Said(s, max) \o <<>> = Said(s, max)
    BY SaidType
  <2> QED
    BY <2>1, <2>2, <2>3 DEF Filled
<1> QED
  BY <1>3, <1>4

-------------------------------------------------------------------------------
(* Frames.                                                                 *)

Unit == Byte \cup HeaderUnit
Counts == [Streams -> Nat]

LEMMA Regrouped ==
  ASSUME NEW x \in Seq(Unit), NEW y \in Seq(Unit), NEW z \in Seq(Unit)
  PROVE  x \o (y \o z) = (x \o y) \o z
<1>1. \A S : \A a, b, c \in Seq(S) : (a \o b) \o c = a \o (b \o c)
  BY ConcatAssociative
<1>2. (x \o y) \o z = x \o (y \o z)
  BY <1>1
<1> QED
  BY <1>2, Zenon

\* Behind its first p units R has a frame of n bytes of s, of which `before`
\* counts those that came earlier.
FrameAt(R, p, s, n, before) ==
  /\ p + HeaderSize + n <= Len(R)
  /\ \A i \in 1..HeaderSize : R[p + i] = <<"header", s, n>>
  /\ \A i \in 1..n : R[p + HeaderSize + i] = <<s, before[s] + i>>

\* R is whole frames, cut at C, with at[p] bytes told before the cut p.
Framed(R, C, at) ==
  /\ 0 \in C /\ Len(R) \in C
  /\ \A p \in C : p \in 0..Len(R)
  /\ \A p \in C : p /= Len(R) =>
       \E s \in Streams, n \in Nat \ {0} :
         /\ FrameAt(R, p, s, n, at[p])
         /\ p + HeaderSize + n \in C
         /\ at[p + HeaderSize + n] = [at[p] EXCEPT ![s] = @ + n]

LEMMA FrameType ==
  ASSUME NEW s \in Streams, NEW n \in Nat \ {0}, written \in Counts
  PROVE  /\ Frame(s, n) \in Seq(Unit) /\ Len(Frame(s, n)) = HeaderSize + n
         /\ \A i \in 1..HeaderSize : Frame(s, n)[i] = <<"header", s, n>>
         /\ \A i \in 1..n : Frame(s, n)[HeaderSize + i] = <<s, written[s] + i>>
<1> DEFINE h == [i \in 1..HeaderSize |-> <<"header", s, n>>]
           b == [i \in 1..n |-> <<s, written[s] + i>>]
<1>1. HeaderSize \in Nat /\ written[s] \in Nat
  BY ShellAssumption DEF Counts
<1>2. <<"header", s, n>> \in Unit /\ \A i \in 1..n : <<s, written[s] + i>> \in Unit
  BY <1>1 DEF Unit, Byte, HeaderUnit
<1>3. h \in Seq(Unit) /\ Len(h) = HeaderSize /\ b \in Seq(Unit) /\ Len(b) = n
  BY <1>1, <1>2
<1>4. /\ \A i \in 1..HeaderSize : h[i] = <<"header", s, n>>
      /\ \A i \in 1..n : b[i] = <<s, written[s] + i>>
  OBVIOUS
<1>5. Frame(s, n) = h \o b
  BY DEF Frame
<1> HIDE DEF h, b
<1>6. /\ h \o b \in Seq(Unit) /\ Len(h \o b) = HeaderSize + n
      /\ \A i \in 1..HeaderSize : (h \o b)[i] = h[i]
      /\ \A i \in 1..n : (h \o b)[HeaderSize + i] = b[i]
  <2>1. \A x, y \in Seq(Unit) :
          /\ x \o y \in Seq(Unit) /\ Len(x \o y) = Len(x) + Len(y)
          /\ \A i \in 1..Len(x) : (x \o y)[i] = x[i]
          /\ \A i \in 1..Len(y) : (x \o y)[Len(x) + i] = y[i]
    BY JoinOf
  <2> QED
    BY <1>1, <1>3, <2>1
<1> QED
  BY <1>4, <1>5, <1>6

LEMMA FramedAndOne ==
  ASSUME NEW R \in Seq(Unit), NEW C, NEW at \in [Nat -> Counts], Framed(R, C, at),
         written \in Counts, at[Len(R)] = written,
         NEW s \in Streams, NEW n \in Nat \ {0}
  PROVE  LET m == Len(R) + HeaderSize + n
             now == [written EXCEPT ![s] = @ + n]
             G == R \o Frame(s, n)
         IN  /\ G \in Seq(Unit) /\ Len(G) = m
             /\ Framed(G, C \cup {m}, [at EXCEPT ![m] = now])
<1> DEFINE len == Len(R)
           m == len + HeaderSize + n
           now == [written EXCEPT ![s] = @ + n]
           F == Frame(s, n)
           G == R \o F
           at2 == [at EXCEPT ![m] = now]
<1>1. len \in Nat /\ HeaderSize \in Nat \ {0} /\ m \in Nat /\ m > len
  BY ShellAssumption
<1>2. /\ F \in Seq(Unit) /\ Len(F) = HeaderSize + n
      /\ \A i \in 1..HeaderSize : F[i] = <<"header", s, n>>
      /\ \A i \in 1..n : F[HeaderSize + i] = <<s, written[s] + i>>
  BY FrameType
<1>3. /\ G \in Seq(Unit) /\ Len(G) = m
      /\ \A i \in 1..len : G[i] = R[i]
      /\ \A i \in 1..(HeaderSize + n) : G[len + i] = F[i]
  <2> HIDE DEF F
  <2>1. /\ G \in Seq(Unit) /\ Len(G) = len + (HeaderSize + n)
        /\ \A i \in 1..(len + (HeaderSize + n)) :
              G[i] = IF i <= len THEN R[i] ELSE F[i - len]
    BY <1>1, <1>2, ConcatProperties
  <2> HIDE DEF G
  <2>2. ASSUME NEW i \in 1..(HeaderSize + n) PROVE G[len + i] = F[i]
    <3>1. /\ len + i \in 1..(len + (HeaderSize + n)) /\ ~(len + i <= len)
          /\ (len + i) - len = i
      BY <1>1
    <3> QED
      BY <2>1, <3>1
  <2> QED
    BY <1>1, <2>1, <2>2
<1>4. /\ at2[m] = now /\ \A p \in Nat : p /= m => at2[p] = at[p]
  BY <1>1
<1>5. /\ 0 \in C /\ len \in C /\ \A p \in C : p \in 0..len
      /\ \A p \in C : p /= len =>
           \E t \in Streams, k \in Nat \ {0} :
             /\ FrameAt(R, p, t, k, at[p])
             /\ p + HeaderSize + k \in C
             /\ at[p + HeaderSize + k] = [at[p] EXCEPT ![t] = @ + k]
  BY DEF Framed
<1> SUFFICES G \in Seq(Unit) /\ Len(G) = m /\ Framed(G, C \cup {m}, at2)
  OBVIOUS
<1> HIDE DEF len, m, now, F, G, at2
<1>6. ASSUME NEW p \in C, p /= len
      PROVE  \E t \in Streams, k \in Nat \ {0} :
               /\ FrameAt(G, p, t, k, at2[p])
               /\ p + HeaderSize + k \in C \cup {m}
               /\ at2[p + HeaderSize + k] = [at2[p] EXCEPT ![t] = @ + k]
  <2>1. PICK t \in Streams, k \in Nat \ {0} :
          /\ FrameAt(R, p, t, k, at[p])
          /\ p + HeaderSize + k \in C
          /\ at[p + HeaderSize + k] = [at[p] EXCEPT ![t] = @ + k]
    BY <1>5, <1>6
  <2>2. /\ p \in Nat /\ p <= len /\ p + HeaderSize + k \in Nat
        /\ p + HeaderSize + k <= len
    BY <1>1, <1>5, <2>1
  <2>3. at2[p] = at[p] /\ at2[p + HeaderSize + k] = at[p + HeaderSize + k]
    BY <1>1, <1>4, <2>2
  <2>4. /\ \A i \in 1..HeaderSize : R[p + i] = <<"header", t, k>>
        /\ \A i \in 1..k : R[p + HeaderSize + i] = <<t, at[p][t] + i>>
    BY <2>1 DEF FrameAt
  <2>5. /\ \A i \in 1..HeaderSize : p + i \in 1..len
        /\ \A i \in 1..k : p + HeaderSize + i \in 1..len
    BY <1>1, <2>2
  <2>6. /\ \A i \in 1..HeaderSize : G[p + i] = <<"header", t, k>>
        /\ \A i \in 1..k : G[p + HeaderSize + i] = <<t, at[p][t] + i>>
    BY <1>3, <2>4, <2>5
  <2>7. p + HeaderSize + k <= Len(G)
    BY <1>1, <1>3, <2>2
  <2>8. FrameAt(G, p, t, k, at2[p])
    BY <2>3, <2>6, <2>7 DEF FrameAt
  <2> QED
    BY <2>1, <2>3, <2>8
<1>7. /\ FrameAt(G, len, s, n, at2[len])
      /\ len + HeaderSize + n \in C \cup {m}
      /\ at2[len + HeaderSize + n] = [at2[len] EXCEPT ![s] = @ + n]
  <2>1. at2[len] = written
    BY <1>1, <1>4 DEF len
  <2>2. /\ \A i \in 1..HeaderSize : i \in 1..(HeaderSize + n)
        /\ \A i \in 1..n : HeaderSize + i \in 1..(HeaderSize + n)
                           /\ len + HeaderSize + i = len + (HeaderSize + i)
    BY <1>1
  <2>3. /\ \A i \in 1..HeaderSize : G[len + i] = <<"header", s, n>>
        /\ \A i \in 1..n : G[len + HeaderSize + i] = <<s, written[s] + i>>
    BY <1>2, <1>3, <2>2
  <2>4. len + HeaderSize + n = m
    BY DEF m
  <2>5. len + HeaderSize + n <= Len(G)
    BY <1>1, <1>3, <2>4
  <2>6. FrameAt(G, len, s, n, at2[len])
    BY <2>1, <2>3, <2>5 DEF FrameAt
  <2> QED
    BY <1>4, <2>1, <2>4, <2>6 DEF now
<1>8. \A p \in C \cup {m} : p /= Len(G) =>
        \E t \in Streams, k \in Nat \ {0} :
          /\ FrameAt(G, p, t, k, at2[p])
          /\ p + HeaderSize + k \in C \cup {m}
          /\ at2[p + HeaderSize + k] = [at2[p] EXCEPT ![t] = @ + k]
  <2> SUFFICES ASSUME NEW p \in C, p /= Len(G)
               PROVE  \E t \in Streams, k \in Nat \ {0} :
                        /\ FrameAt(G, p, t, k, at2[p])
                        /\ p + HeaderSize + k \in C \cup {m}
                        /\ at2[p + HeaderSize + k] = [at2[p] EXCEPT ![t] = @ + k]
    BY <1>3
  <2>1. CASE p = len
    BY <1>7, <2>1
  <2>2. CASE p /= len
    BY <1>6, <2>2
  <2> QED
    BY <2>1, <2>2
<1>9. 0 \in C \cup {m} /\ Len(G) \in C \cup {m} /\ \A p \in C \cup {m} : p \in 0..Len(G)
  BY <1>1, <1>3, <1>5
<1> QED
  BY <1>3, <1>8, <1>9 DEF Framed

\* What is behind the first m units of R, and its cuts and counts.
Behind(R, m) == SubSeq(R, m + 1, Len(R))
CutsBehind(C, m) == {p \in Nat : p + m \in C}
CountsBehind(at, m) == [p \in Nat |-> at[p + m]]

\* Without the frame that starts R whole frames are left.
LEMMA FramedButOne ==
  ASSUME NEW R \in Seq(Unit), NEW C, NEW at \in [Nat -> Counts], Framed(R, C, at),
         NEW s \in Streams, NEW n \in Nat \ {0},
         FrameAt(R, 0, s, n, at[0]), HeaderSize + n \in C
  PROVE  /\ Behind(R, HeaderSize + n) \in Seq(Unit)
         /\ Len(Behind(R, HeaderSize + n)) = Len(R) - (HeaderSize + n)
         /\ Framed(Behind(R, HeaderSize + n), CutsBehind(C, HeaderSize + n),
                   CountsBehind(at, HeaderSize + n))
<1> DEFINE len == Len(R)
           m == HeaderSize + n
           G == Behind(R, m)
           D == CutsBehind(C, m)
           at2 == CountsBehind(at, m)
<1>1. len \in Nat /\ HeaderSize \in Nat \ {0} /\ m \in Nat /\ m > 0
  BY ShellAssumption
<1>2. /\ len \in C /\ \A p \in C : p \in 0..len
      /\ \A p \in C : p /= len =>
           \E t \in Streams, k \in Nat \ {0} :
             /\ FrameAt(R, p, t, k, at[p])
             /\ p + HeaderSize + k \in C
             /\ at[p + HeaderSize + k] = [at[p] EXCEPT ![t] = @ + k]
  BY DEF Framed
<1>3. m <= len
  BY <1>1, <1>2
<1>4. /\ G \in Seq(Unit) /\ Len(G) = len - m
      /\ \A i \in 1..(len - m) : G[i] = R[i + m]
  BY <1>1, <1>3 DEF Behind
<1>5. \A p \in Nat : at2[p] = at[p + m]
  BY DEF CountsBehind
<1>6. \A p : p \in D <=> p \in Nat /\ p + m \in C
  BY DEF CutsBehind
<1>7. m \in C
  OBVIOUS
<1> SUFFICES G \in Seq(Unit) /\ Len(G) = len - m /\ Framed(G, D, at2)
  OBVIOUS
<1> HIDE DEF len, m, G, D, at2
<1>8. 0 \in D /\ Len(G) \in D /\ \A p \in D : p \in 0..Len(G)
  <2>1. 0 + m = m /\ len - m \in Nat /\ len - m + m = len
    BY <1>1, <1>3
  <2>2. 0 \in D /\ Len(G) \in D
    BY <1>2, <1>4, <1>6, <1>7, <2>1
  <2>3. ASSUME NEW p \in D PROVE p \in 0..Len(G)
    <3>1. p \in Nat /\ p + m \in 0..len
      BY <1>2, <1>6
    <3> QED
      BY <1>1, <1>3, <1>4, <3>1
  <2> QED
    BY <2>2, <2>3
<1>9. ASSUME NEW p \in D, p /= Len(G)
      PROVE  \E t \in Streams, k \in Nat \ {0} :
               /\ FrameAt(G, p, t, k, at2[p])
               /\ p + HeaderSize + k \in D
               /\ at2[p + HeaderSize + k] = [at2[p] EXCEPT ![t] = @ + k]
  <2>1. p \in Nat /\ p + m \in C /\ p + m /= len
    <3>1. p \in Nat /\ p + m \in C
      BY <1>6, <1>9
    <3>2. p /= len - m
      BY <1>4, <1>9
    <3> QED
      BY <1>1, <3>1, <3>2
  <2>2. PICK t \in Streams, k \in Nat \ {0} :
          /\ FrameAt(R, p + m, t, k, at[p + m])
          /\ p + m + HeaderSize + k \in C
          /\ at[p + m + HeaderSize + k] = [at[p + m] EXCEPT ![t] = @ + k]
    BY <1>2, <2>1
  <2>3. /\ p + HeaderSize + k \in Nat
        /\ p + HeaderSize + k + m = p + m + HeaderSize + k
        /\ p + HeaderSize + k <= len - m
    BY <1>1, <1>2, <2>1, <2>2
  <2>4. /\ at2[p] = at[p + m]
        /\ at2[p + HeaderSize + k] = at[p + m + HeaderSize + k]
    BY <1>5, <2>1, <2>3
  <2>5. /\ \A i \in 1..HeaderSize : R[p + m + i] = <<"header", t, k>>
        /\ \A i \in 1..k : R[p + m + HeaderSize + i] = <<t, at[p + m][t] + i>>
    BY <2>2 DEF FrameAt
  <2>6. /\ \A i \in 1..HeaderSize : p + i \in 1..(len - m) /\ (p + i) + m = p + m + i
        /\ \A i \in 1..k : /\ p + HeaderSize + i \in 1..(len - m)
                           /\ (p + HeaderSize + i) + m = p + m + HeaderSize + i
    BY <1>1, <1>3, <2>1, <2>3
  <2>7. /\ \A i \in 1..HeaderSize : G[p + i] = <<"header", t, k>>
        /\ \A i \in 1..k : G[p + HeaderSize + i] = <<t, at2[p][t] + i>>
    BY <1>4, <2>4, <2>5, <2>6
  <2>8. FrameAt(G, p, t, k, at2[p])
    BY <1>4, <2>3, <2>7 DEF FrameAt
  <2>9. p + HeaderSize + k \in D
    BY <1>6, <2>2, <2>3
  <2> QED
    BY <2>2, <2>4, <2>8, <2>9
<1> QED
  BY <1>4, <1>8, <1>9 DEF Framed

-------------------------------------------------------------------------------
(* The connection.                                                         *)

Pending == buffer \o wire
Totals == [s \in Streams |-> sinks[s].total]

\* What is pending is whole frames, from the sinks' totals up to all that was
\* written.
WireInv ==
  \E C \in SUBSET Nat, at \in [Nat -> Counts] :
    /\ Framed(Pending, C, at)
    /\ at[0] = Totals
    /\ at[Len(Pending)] = written

\* The sinks keep what was told so far.
SinksInv ==
  \A s \in Streams :
    LET k == sinks[s] IN
      /\ k.head = Said(s, Least(k.total, Half))
      /\ k.kept = Said(s, Least(k.total, LogMax))

\* An exchange that ended left nothing pending.
EndInv ==
  /\ pc \in {"code", "log"} \/ result.kind = "result" =>
       daemon /= "up" /\ Pending = <<>>
  /\ pc \in {"idle", "created", "stream", "code"} => result = NoResult
  /\ pc = "log" => result.kind = "result"
  /\ pc = "done" /\ result.kind = "result" => \A s \in Streams : log[s] = sinks[s].kept

StreamInv == TypeOK /\ WireInv /\ SinksInv /\ EndInv

LEMMA PendingType == TypeOK => Pending \in Seq(Unit) /\ Len(Pending) = Len(buffer) + Len(wire)
BY DEF TypeOK, Pending, Unit

LEMMA StreamInit == Init => StreamInv
<1> SUFFICES ASSUME Init PROVE StreamInv
  OBVIOUS
<1>1. NewSink \in Sink
  BY DEF NewSink, Sink
<1>2. result \in [kind: {"none", "result", "error"}, exit: Codes \cup {Unknown},
                  timedOut: BOOLEAN]
  BY DEF Init, NoResult
<1>3. TypeOK
  <2>1. Before \in Before..Deadline /\ 0 \in 0..MaxPolls /\ 0 \in Codes
    BY ShellAssumption DEF Before, Deadline, Codes
  <2>2. /\ sinks \in [Streams -> Sink] /\ log \in [Streams -> Seq(Byte)]
        /\ wire \in Seq(Byte \cup HeaderUnit) /\ buffer \in Seq(Byte \cup HeaderUnit)
        /\ written \in [Streams -> Nat] /\ parts \in SUBSET Streams
    BY <1>1 DEF Init, NoLog
  <2>3. /\ command = "none" /\ code = 0 /\ wrapped = FALSE /\ detached = "none"
        /\ daemon = "up" /\ reaped = FALSE /\ clock = Before /\ pc = "idle" /\ polls = 0
        /\ refused = FALSE
    BY DEF Init
  <2> QED
    BY <1>2, <2>1, <2>2, <2>3 DEF TypeOK
<1>4. Pending = <<>>
  BY DEF Init, Pending
<1>5. WireInv
  <2> DEFINE at == [p \in Nat |-> written]
  <2>1. at \in [Nat -> Counts] /\ at[0] = written
    BY <1>3 DEF TypeOK, Counts
  <2>2. written = Totals
    BY DEF Init, Totals, NewSink
  <2>3. Framed(<<>>, {0}, at)
    BY DEF Framed
  <2> HIDE DEF at
  <2>4. Len(<<>>) = 0 /\ {0} \in SUBSET Nat
    OBVIOUS
  <2> QED
    BY <1>4, <2>1, <2>2, <2>3, <2>4 DEF WireInv
<1>6. SinksInv
  <2> SUFFICES ASSUME NEW s \in Streams
               PROVE  /\ sinks[s].head = Said(s, Least(sinks[s].total, Half))
                      /\ sinks[s].kept = Said(s, Least(sinks[s].total, LogMax))
    BY DEF SinksInv
  <2>1. sinks[s].head = <<>> /\ sinks[s].kept = <<>> /\ sinks[s].total = 0
    BY DEF Init, NewSink
  <2>2. Least(0, Half) = 0 /\ Least(0, LogMax) = 0
    BY ShellAssumption DEF Least
  <2>3. Said(s, 0) = <<>>
    BY DEF Said
  <2> QED
    BY <2>1, <2>2, <2>3
<1>7. EndInv
  BY DEF Init, EndInv, NoResult
<1> QED
  BY <1>3, <1>5, <1>6, <1>7 DEF StreamInv

\* The daemon sends one frame more.
LEMMA WriteStep ==
  ASSUME StreamInv, NEW s \in Streams, NEW n \in 1..MaxFrame, Write(s, n)
  PROVE  /\ wire' \in Seq(Unit) /\ written' \in Counts /\ WireInv'
<1>1. n \in Nat \ {0} /\ written \in Counts
  BY ShellAssumption DEF StreamInv, TypeOK, Counts
<1>2. /\ wire' = wire \o Frame(s, n) /\ buffer' = buffer /\ sinks' = sinks
      /\ written' = [written EXCEPT ![s] = @ + n]
  BY DEF Write, client
<1>3. buffer \in Seq(Unit) /\ wire \in Seq(Unit) /\ Frame(s, n) \in Seq(Unit)
  BY <1>1, FrameType DEF StreamInv, TypeOK, Unit
<1>4. wire' \in Seq(Unit) /\ Pending' = Pending \o Frame(s, n)
  <2> HIDE DEF Frame
  <2>1. wire \o Frame(s, n) \in Seq(Unit)
    BY <1>3, ConcatProperties
  <2>2. buffer \o (wire \o Frame(s, n)) = (buffer \o wire) \o Frame(s, n)
    BY <1>3, Regrouped
  <2> QED
    BY <1>2, <2>1, <2>2 DEF Pending
<1>5. written' \in Counts
  BY <1>1, <1>2 DEF Counts
<1>6. PICK C \in SUBSET Nat, at \in [Nat -> Counts] :
        Framed(Pending, C, at) /\ at[0] = Totals /\ at[Len(Pending)] = written
  BY DEF StreamInv, WireInv
<1> DEFINE m == Len(Pending) + HeaderSize + n
           at2 == [at EXCEPT ![m] = written']
<1>7. Pending \in Seq(Unit) /\ Len(Pending) \in Nat /\ m \in Nat \ {0}
  BY <1>1, PendingType, ShellAssumption DEF StreamInv
<1>8. Len(Pending') = m /\ Framed(Pending', C \cup {m}, at2)
  <2> DEFINE now == [written EXCEPT ![s] = @ + n]
             G == Pending \o Frame(s, n)
  <2>1. Len(G) = m /\ Framed(G, C \cup {m}, [at EXCEPT ![m] = now])
    <3> HIDE DEF Frame, Framed, Pending
    <3> QED
      BY <1>1, <1>6, <1>7, FramedAndOne
  <2>2. now = written' /\ G = Pending'
    BY <1>2, <1>4
  <2> HIDE DEF now, G
  <2> QED
    BY <2>1, <2>2
<1>9. at2 \in [Nat -> Counts] /\ at2[0] = at[0] /\ at2[m] = written'
  BY <1>5, <1>7
<1>10. Totals' = Totals
  BY <1>2 DEF Totals
<1> QED
  BY <1>4, <1>5, <1>6, <1>7, <1>8, <1>9, <1>10 DEF WireInv

\* There is a frame at the start of what is pending, if anything is.
LEMMA FirstFrame ==
  ASSUME StreamInv, Pending /= <<>>
  PROVE  \E C \in SUBSET Nat, at \in [Nat -> Counts], s \in Streams, n \in Nat \ {0} :
           /\ Framed(Pending, C, at) /\ at[0] = Totals /\ at[Len(Pending)] = written
           /\ FrameAt(Pending, 0, s, n, at[0])
           /\ HeaderSize + n \in C
           /\ at[HeaderSize + n] = [at[0] EXCEPT ![s] = @ + n]
<1>1. PICK C \in SUBSET Nat, at \in [Nat -> Counts] :
        Framed(Pending, C, at) /\ at[0] = Totals /\ at[Len(Pending)] = written
  BY DEF StreamInv, WireInv
<1>2. 0 /= Len(Pending)
  BY PendingType DEF StreamInv
<1>3. PICK s \in Streams, n \in Nat \ {0} :
        /\ FrameAt(Pending, 0, s, n, at[0])
        /\ 0 + HeaderSize + n \in C
        /\ at[0 + HeaderSize + n] = [at[0] EXCEPT ![s] = @ + n]
  BY <1>1, <1>2 DEF Framed
<1>4. 0 + HeaderSize + n = HeaderSize + n
  BY ShellAssumption
<1> QED
  BY <1>1, <1>3, <1>4

\* The first frame, of what has been received.
LEMMA Received ==
  ASSUME TypeOK, NEW s \in Streams, NEW n \in Nat \ {0}, NEW before,
         FrameAt(Pending, 0, s, n, before), Len(buffer) >= HeaderSize
  PROVE  /\ buffer[1] = <<"header", s, n>>
         /\ Len(buffer) >= HeaderSize + n =>
              \A i \in 1..n : buffer[HeaderSize + i] = <<s, before[s] + i>>
<1>1. HeaderSize \in Nat \ {0}
  BY ShellAssumption
<1>2. buffer \in Seq(Unit) /\ wire \in Seq(Unit)
  BY DEF TypeOK, Unit
<1>3. \A i \in 1..Len(buffer) : Pending[i] = buffer[i]
  BY <1>2 DEF Pending
<1>4. /\ \A i \in 1..HeaderSize : Pending[0 + i] = <<"header", s, n>>
      /\ \A i \in 1..n : Pending[0 + HeaderSize + i] = <<s, before[s] + i>>
  BY DEF FrameAt
<1>5. Len(buffer) \in Nat
  BY <1>2
<1>6. buffer[1] = <<"header", s, n>>
  <2>1. 1 \in 1..HeaderSize /\ 1 \in 1..Len(buffer) /\ 0 + 1 = 1
    BY <1>1, <1>5
  <2>2. Pending[0 + 1] = <<"header", s, n>>
    BY <1>4, <2>1
  <2>3. Pending[1] = buffer[1]
    BY <1>3, <2>1
  <2> QED
    BY <2>1, <2>2, <2>3
<1>7. ASSUME Len(buffer) >= HeaderSize + n, NEW i \in 1..n
      PROVE  buffer[HeaderSize + i] = <<s, before[s] + i>>
  <2>1. HeaderSize + i \in 1..Len(buffer) /\ 0 + HeaderSize + i = HeaderSize + i
    BY <1>1, <1>5, <1>7
  <2> QED
    BY <1>3, <1>4, <2>1
<1> QED
  BY <1>6, <1>7

\* One frame is cut and fed to its sink.
LEMMA CutStep ==
  ASSUME StreamInv, CutFrame
  PROVE  /\ buffer' \in Seq(Unit) /\ sinks' \in [Streams -> Sink]
         /\ WireInv' /\ SinksInv'
<1>1. HeaderSize \in Nat \ {0} /\ Half \in Nat /\ LogMax \in Nat
  BY ShellAssumption
<1>2. /\ buffer \in Seq(Unit) /\ wire \in Seq(Unit) /\ Len(buffer) \in Nat
      /\ sinks \in [Streams -> Sink]
  BY DEF StreamInv, TypeOK, Unit
<1>3. Len(buffer) >= HeaderSize /\ Len(buffer) >= HeaderSize + Size(buffer[1])
  BY DEF CutFrame, Complete
<1>4. Pending /= <<>>
  BY <1>1, <1>2, <1>3 DEF Pending
<1>5. PICK C \in SUBSET Nat, at \in [Nat -> Counts], s \in Streams, n \in Nat \ {0} :
        /\ Framed(Pending, C, at) /\ at[0] = Totals /\ at[Len(Pending)] = written
        /\ FrameAt(Pending, 0, s, n, at[0])
        /\ HeaderSize + n \in C
        /\ at[HeaderSize + n] = [at[0] EXCEPT ![s] = @ + n]
  BY <1>4, FirstFrame
<1>6. buffer[1] = <<"header", s, n>>
  BY <1>3, <1>5, Received DEF StreamInv
<1>7. buffer[1][2] = s /\ Size(buffer[1]) = n /\ Len(buffer) >= HeaderSize + n
  BY <1>3, <1>6 DEF Size
<1> DEFINE m == HeaderSize + n
           payload == SubSeq(buffer, HeaderSize + 1, m)
           t == sinks[s].total
           fed == Feed(sinks[s], payload, n)
<1>8. /\ sinks' = [sinks EXCEPT ![s] = fed]
      /\ buffer' = SubSeq(buffer, m + 1, Len(buffer))
      /\ UNCHANGED <<wire, written>>
  BY <1>7 DEF CutFrame, outside
<1>9. /\ t \in Nat /\ sinks[s].head = Said(s, Least(t, Half))
      /\ sinks[s].kept = Said(s, Least(t, LogMax)) /\ at[0][s] = t
  BY <1>2, <1>5 DEF StreamInv, SinksInv, Sink, Totals
<1>10. GoesOn(payload, n, s, t)
  <2>1. \A i \in 1..n : buffer[HeaderSize + i] = <<s, t + i>>
    BY <1>3, <1>5, <1>7, <1>9, Received DEF StreamInv
  <2>2. \A i \in 1..n : <<s, t + i>> \in Byte
    BY <1>9 DEF Byte
  <2>3. payload \in Seq(Unit) /\ Len(payload) = n
        /\ \A i \in 1..n : payload[i] = buffer[HeaderSize + i]
    BY <1>1, <1>2, <1>7
  <2> HIDE DEF payload
  <2>4. \A i \in 1..n : payload[i] \in Byte
    BY <2>1, <2>2, <2>3
  <2>5. payload \in Seq(Byte)
    BY <2>3, <2>4, SeqOfBytes
  <2> QED
    BY <2>1, <2>3, <2>5 DEF GoesOn
<1>11. /\ fed.head = Said(s, Least(t + n, Half)) /\ fed.kept = Said(s, Least(t + n, LogMax))
       /\ fed.total = t + n
  <2>1. /\ fed.head = Filled(sinks[s].head, payload, n, Half)
        /\ fed.kept = Filled(sinks[s].kept, payload, n, LogMax)
        /\ fed.total = t + n
    BY DEF Feed, Filled
  <2> HIDE DEF payload, fed, t
  <2> QED
    BY <1>1, <1>9, <1>10, <2>1, KeepsFirst
<1>12. fed \in Sink
  <2>1. Least(t + n, Half) \in Nat /\ Least(t + n, LogMax) \in Nat /\ t + n \in Nat
    BY <1>1, <1>9 DEF Least
  <2>2. fed.head \in Seq(Byte) /\ fed.kept \in Seq(Byte) /\ fed.total \in Nat
    BY <1>11, <2>1, SaidType
  <2>3. fed = [head |-> fed.head, kept |-> fed.kept, total |-> fed.total]
    BY DEF Feed
  <2> HIDE DEF fed
  <2> QED
    BY <2>2, <2>3, Zenon DEF Sink
<1>13. buffer' \in Seq(Unit) /\ Pending' = SubSeq(Pending, m + 1, Len(Pending))
  <2>1. m \in 1..Len(buffer)
    BY <1>1, <1>2, <1>7
  <2> HIDE DEF m
  <2>2. SubSeq(buffer, m + 1, Len(buffer)) \in Seq(Unit)
    BY <1>2, <2>1
  <2>3. SubSeq(buffer, m + 1, Len(buffer)) \o wire
          = SubSeq(buffer \o wire, m + 1, Len(buffer \o wire))
    <3> DEFINE b == SubSeq(buffer, m + 1, Len(buffer))
               x == b \o wire
               r == buffer \o wire
               y == SubSeq(r, m + 1, Len(r))
    <3>1. /\ b \in Seq(Unit) /\ Len(b) = Len(buffer) - m
          /\ \A i \in 1..(Len(buffer) - m) : b[i] = buffer[m + i]
      BY <1>2, <2>1
    <3>2. /\ r \in Seq(Unit) /\ Len(r) = Len(buffer) + Len(wire)
          /\ \A i \in 1..Len(buffer) : r[i] = buffer[i]
          /\ \A i \in 1..Len(wire) : r[Len(buffer) + i] = wire[i]
      BY <1>2
    <3> HIDE DEF b, r
    <3>3. /\ x \in Seq(Unit) /\ Len(x) = Len(buffer) - m + Len(wire)
          /\ \A i \in 1..(Len(buffer) - m) : x[i] = b[i]
          /\ \A i \in 1..Len(wire) : x[Len(buffer) - m + i] = wire[i]
      <4>1. x \in Seq(Unit) /\ Len(x) = Len(b) + Len(wire)
        BY <1>2, <3>1, ConcatProperties
      <4>2. \A i \in 1..(Len(b) + Len(wire)) :
              x[i] = IF i <= Len(b) THEN b[i] ELSE wire[i - Len(b)]
        BY <1>2, <3>1, ConcatProperties
      <4>3. Len(b) \in Nat /\ Len(wire) \in Nat
        BY <1>2, <3>1
      <4> HIDE DEF x
      <4> QED
        BY <3>1, <4>1, <4>2, <4>3
    <3>4. /\ y \in Seq(Unit) /\ Len(y) = Len(buffer) + Len(wire) - m
          /\ \A i \in 1..(Len(buffer) + Len(wire) - m) : y[i] = r[m + i]
      BY <1>2, <2>1, <3>2
    <3>5. Len(wire) \in Nat
      BY <1>2
    <3> HIDE DEF x, y
    <3>6. ASSUME NEW i \in 1..(Len(buffer) - m + Len(wire)) PROVE x[i] = y[i]
      <4>1. i \in 1..(Len(buffer) + Len(wire) - m) /\ y[i] = r[m + i]
        BY <1>2, <2>1, <3>4, <3>5
      <4>2. CASE i <= Len(buffer) - m
        <5>1. i \in 1..(Len(buffer) - m) /\ m + i \in 1..Len(buffer)
          BY <1>2, <2>1, <4>2
        <5> QED
          BY <3>1, <3>2, <3>3, <4>1, <5>1
      <4>3. CASE i > Len(buffer) - m
        <5> DEFINE j == i - (Len(buffer) - m)
        <5>1. j \in 1..Len(wire) /\ m + i = Len(buffer) + j /\ i = Len(buffer) - m + j
          BY <1>2, <2>1, <3>5, <4>3
        <5> HIDE DEF j
        <5> QED
          BY <3>2, <3>3, <4>1, <5>1
      <4>4. i <= Len(buffer) - m \/ i > Len(buffer) - m
        BY <1>2, <2>1
      <4> QED
        BY <4>2, <4>3, <4>4
    <3>7. Len(x) = Len(y)
      BY <1>2, <2>1, <3>3, <3>4, <3>5
    <3>8. x = y
      BY <3>3, <3>4, <3>6, <3>7, SeqEqual
    <3> QED
      BY <3>8 DEF x, y, b, r
  <2> QED
    BY <1>8, <2>2, <2>3 DEF Pending
<1>14. WireInv'
  <2> DEFINE D == CutsBehind(C, m)
             at2 == CountsBehind(at, m)
  <2>1. /\ Pending \in Seq(Unit) /\ Len(Pending) \in Nat /\ m \in Nat
        /\ m <= Len(Pending)
    <3>1. Pending \in Seq(Unit) /\ Len(Pending) = Len(buffer) + Len(wire)
      BY PendingType DEF StreamInv
    <3>2. Len(wire) \in Nat
      BY <1>2
    <3> QED
      BY <1>1, <1>2, <1>7, <3>1, <3>2
  <2>2. Len(Pending') = Len(Pending) - m /\ Framed(Pending', D, at2)
    <3> HIDE DEF Framed, Pending
    <3>1. Len(Behind(Pending, m)) = Len(Pending) - m /\ Framed(Behind(Pending, m), D, at2)
      BY <1>5, <2>1, FramedButOne
    <3>2. Behind(Pending, m) = Pending'
      BY <1>13 DEF Behind
    <3> QED
      BY <3>1, <3>2
  <2>3. at2 \in [Nat -> Counts] /\ \A p \in Nat : at2[p] = at[p + m]
    BY <2>1 DEF CountsBehind
  <2>4. D \in SUBSET Nat
    BY DEF CutsBehind
  <2> HIDE DEF D, at2
  <2>5. at2[0] = Totals'
    <3>1. at2[0] = [Totals EXCEPT ![s] = @ + n]
      BY <1>5, <2>1, <2>3
    <3>2. \A r \in Streams : sinks'[r].total = IF r = s THEN t + n ELSE sinks[r].total
      BY <1>2, <1>8, <1>11
    <3> HIDE DEF t
    <3> QED
      BY <3>1, <3>2 DEF Totals, t
  <2>6. at2[Len(Pending')] = written'
    <3>1. Len(Pending') \in Nat /\ Len(Pending') + m = Len(Pending)
      BY <2>1, <2>2
    <3> QED
      BY <1>5, <1>8, <2>3, <3>1
  <2> QED
    BY <2>2, <2>3, <2>4, <2>5, <2>6 DEF WireInv
<1>15. SinksInv'
  <2> SUFFICES ASSUME NEW r \in Streams
               PROVE  /\ sinks'[r].head = Said(r, Least(sinks'[r].total, Half))
                      /\ sinks'[r].kept = Said(r, Least(sinks'[r].total, LogMax))
    BY DEF SinksInv
  <2> HIDE DEF fed, t
  <2>1. CASE r = s
    BY <1>2, <1>8, <1>11, <2>1
  <2>2. CASE r /= s
    BY <1>2, <1>8, <2>2 DEF StreamInv, SinksInv
  <2> QED
    BY <2>1, <2>2
<1>16. sinks' \in [Streams -> Sink]
  <2> HIDE DEF fed
  <2> QED
    BY <1>2, <1>8, <1>12
<1> QED
  BY <1>13, <1>14, <1>15, <1>16

\* A piece of the connection changes nothing of what is pending.
LEMMA ReceiveStep ==
  ASSUME TypeOK, NEW n \in 1..Len(wire), Receive(n)
  PROVE  buffer' \in Seq(Unit) /\ wire' \in Seq(Unit) /\ Pending' = Pending
<1>1. buffer \in Seq(Unit) /\ wire \in Seq(Unit) /\ Len(wire) \in Nat
  BY DEF TypeOK, Unit
<1> DEFINE f == First(wire, n)
           r == SubSeq(wire, n + 1, Len(wire))
<1>2. buffer' = buffer \o f /\ wire' = r
  BY DEF Receive
<1>3. /\ f \in Seq(Unit) /\ Len(f) = n /\ \A i \in 1..n : f[i] = wire[i]
  BY <1>1, FirstOf
<1>4. /\ r \in Seq(Unit) /\ Len(r) = Len(wire) - n
      /\ \A i \in 1..(Len(wire) - n) : r[i] = wire[n + i]
  BY <1>1
<1> HIDE DEF f, r
<1>5. f \o r = wire
  <2> DEFINE x == f \o r
  <2>1. /\ x \in Seq(Unit) /\ Len(x) = Len(f) + Len(r)
        /\ \A i \in 1..(Len(f) + Len(r)) :
              x[i] = IF i <= Len(f) THEN f[i] ELSE r[i - Len(f)]
    BY <1>3, <1>4, ConcatProperties
  <2> HIDE DEF x
  <2>2. Len(x) = Len(wire)
    BY <1>1, <1>3, <1>4, <2>1
  <2>3. ASSUME NEW i \in 1..Len(x) PROVE x[i] = wire[i]
    <3>1. x[i] = IF i <= n THEN f[i] ELSE r[i - n]
      BY <1>3, <2>1
    <3>2. CASE i <= n
      BY <1>3, <3>1, <3>2
    <3>3. CASE ~(i <= n)
      <4>1. i - n \in 1..(Len(wire) - n) /\ n + (i - n) = i
        BY <1>1, <2>2, <3>3
      <4> QED
        BY <1>4, <3>1, <3>3, <4>1
    <3> QED
      BY <3>2, <3>3
  <2>4. x = wire
    BY <1>1, <2>1, <2>2, <2>3, SeqEqual
  <2> QED
    BY <2>4 DEF x
<1>6. buffer \o f \in Seq(Unit) /\ buffer \o (f \o r) = (buffer \o f) \o r
  <2>1. buffer \in Seq(Unit) /\ f \in Seq(Unit) /\ r \in Seq(Unit)
    BY <1>1, <1>3, <1>4
  <2>2. buffer \o f \in Seq(Unit)
    BY <2>1, ConcatProperties
  <2>3. buffer \o (f \o r) = (buffer \o f) \o r
    BY <2>1, Regrouped
  <2> QED
    BY <2>2, <2>3
<1> QED
  BY <1>2, <1>4, <1>5, <1>6 DEF Pending

\* When the stream has ended and no frame is left to cut, nothing is.
LEMMA NothingLeft ==
  ASSUME StreamInv, wire = <<>>, ~Complete
  PROVE  Pending = <<>>
<1> SUFFICES ASSUME Pending /= <<>> PROVE FALSE
  OBVIOUS
<1>1. PICK C \in SUBSET Nat, at \in [Nat -> Counts], s \in Streams, n \in Nat \ {0} :
        FrameAt(Pending, 0, s, n, at[0])
  BY FirstFrame
<1>2. Len(Pending) = Len(buffer) /\ Len(buffer) \in Nat
  BY PendingType DEF StreamInv, TypeOK
<1>3. 0 + HeaderSize + n <= Len(buffer)
  BY <1>1, <1>2 DEF FrameAt
<1>4. Len(buffer) >= HeaderSize /\ Len(buffer) >= HeaderSize + n
  BY <1>2, <1>3, ShellAssumption
<1>5. buffer[1] = <<"header", s, n>>
  BY <1>1, <1>4, Received DEF StreamInv
<1>6. Size(buffer[1]) = n
  BY <1>5 DEF Size
<1> QED
  BY <1>4, <1>6 DEF Complete

\* Nothing pending: the totals are all that was written.
LEMMA AllTold ==
  ASSUME WireInv, Pending = <<>>
  PROVE  Totals = written
<1>1. PICK C \in SUBSET Nat, at \in [Nat -> Counts] :
        at[0] = Totals /\ at[Len(Pending)] = written
  BY DEF WireInv
<1>2. Len(<<>>) = 0
  OBVIOUS
<1> QED
  BY <1>1, <1>2

LEMMA ResultType ==
  /\ Failed \in [kind: {"none", "result", "error"}, exit: Codes \cup {Unknown},
                 timedOut: BOOLEAN]
  /\ \A c \in Codes \cup {Unknown} :
       /\ Observed(c) \in [kind: {"none", "result", "error"}, exit: Codes \cup {Unknown},
                           timedOut: BOOLEAN]
       /\ Observed(c).kind = "result" /\ Observed(c).exit = c
       /\ Observed(c).timedOut = (c \in TimedOutExitCodes /\ clock >= Term)
<1>1. \A c \in Codes \cup {Unknown} :
        (c \in TimedOutExitCodes /\ clock >= Term) \in BOOLEAN
  OBVIOUS
<1> QED
  BY <1>1 DEF Failed, Observed

LEMMA StreamStep ==
  ASSUME StreamInv, [Next]_vars
  PROVE  StreamInv'
<1> USE DEF outside, disk, client
<1>0. /\ TypeOK /\ WireInv /\ SinksInv /\ EndInv
  BY DEF StreamInv
<1>1. ASSUME UNCHANGED <<wire, buffer, written, sinks>>
      PROVE  WireInv' /\ SinksInv' /\ UNCHANGED Pending
  BY <1>0, <1>1 DEF WireInv, SinksInv, Pending, Totals
<1>2. ASSUME UNCHANGED <<wire, client>>, UNCHANGED written, TypeOK',
             daemon /= "up" => daemon' /= "up"
      PROVE  StreamInv'
  BY <1>0, <1>1, <1>2 DEF StreamInv, EndInv
<1>3. ASSUME NEW s \in Streams, NEW n \in 1..MaxFrame, Write(s, n)
      PROVE  StreamInv'
  <2>1. /\ daemon = "up" /\ UNCHANGED <<command, code, wrapped, detached, daemon, reaped,
                                        clock, client>>
    BY <1>3 DEF Write
  <2>2. wire' \in Seq(Byte \cup HeaderUnit) /\ written' \in [Streams -> Nat] /\ WireInv'
    BY <1>3, WriteStep DEF Unit, Counts
  <2>3. TypeOK'
    BY <1>0, <2>1, <2>2 DEF TypeOK
  <2>4. SinksInv' /\ EndInv'
    BY <1>0, <2>1 DEF SinksInv, EndInv
  <2> QED
    BY <2>2, <2>3, <2>4 DEF StreamInv
<1>4. CASE EndsItself \/ Termed \/ Killed
  <2>1. PICK c \in Codes, byWrapper \in BOOLEAN : Ends(c, byWrapper)
    BY <1>4 DEF EndsItself, Termed, Killed, Codes
  <2>2. UNCHANGED <<written, wire, daemon, reaped, clock, client>>
    BY <2>1 DEF Ends
  <2>3. TypeOK'
    BY <1>0, <2>1, <2>2 DEF Ends, TypeOK
  <2> QED
    BY <1>2, <2>2, <2>3
<1>5. CASE DetachedEnds
  BY <1>0, <1>2, <1>5 DEF DetachedEnds, TypeOK
<1>6. CASE StreamCloses
  BY <1>0, <1>2, <1>6 DEF StreamCloses, TypeOK
<1>7. CASE Reap
  BY <1>0, <1>2, <1>7 DEF Reap, TypeOK
<1>8. CASE DaemonDies
  BY <1>0, <1>2, <1>8 DEF DaemonDies, TypeOK
<1>9. CASE Tick
  <2>1. clock' = clock + 1 /\ clock < Deadline /\ UNCHANGED <<outside, wire, client>>
    BY <1>9 DEF Tick
  <2>2. clock' \in Before..Deadline
    BY <1>0, <2>1 DEF TypeOK, Before, Deadline
  <2>3. TypeOK'
    BY <1>0, <2>1, <2>2 DEF TypeOK
  <2> QED
    BY <1>2, <2>1, <2>3
<1>10. CASE OpenSinks
  <2>1. /\ pc = "idle" /\ pc' = "created" /\ parts' = Streams
        /\ UNCHANGED <<outside, wire, clock, buffer, sinks, log, refused, polls, result>>
    BY <1>10 DEF OpenSinks
  <2>2. TypeOK' /\ EndInv'
    BY <1>0, <1>1, <2>1 DEF TypeOK, EndInv
  <2> QED
    BY <1>1, <2>1, <2>2 DEF StreamInv
<1>11. CASE StartExec
  <2>1. /\ pc = "created" /\ pc' = "stream" /\ command' = "running"
        /\ UNCHANGED <<code, wrapped, detached, written, wire, daemon, reaped, clock,
                       buffer, sinks, disk, polls, result>>
    BY <1>11 DEF StartExec
  <2>2. TypeOK' /\ EndInv'
    BY <1>0, <1>1, <2>1 DEF TypeOK, EndInv
  <2> QED
    BY <1>1, <2>1, <2>2 DEF StreamInv
<1>12. CASE \/ ExecRefused \/ PastDeadline \/ ConnectionLost \/ PollFails
             \/ SinksRefused \/ WriteRefused
  <2>1. /\ pc' = "done" /\ result' = Failed
        /\ parts' \in SUBSET Streams /\ refused' \in BOOLEAN
        /\ UNCHANGED <<outside, wire, clock, buffer, sinks, log, polls>>
    BY <1>0, <1>12 DEF TypeOK, Streams, ExecRefused, PastDeadline, ConnectionLost, PollFails, Raise,
      SinksRefused, WriteRefused
  <2>2. TypeOK'
    BY <1>0, <2>1, ResultType DEF TypeOK
  <2>3. EndInv'
    BY <2>1 DEF EndInv, Failed
  <2> QED
    BY <1>1, <2>1, <2>2, <2>3 DEF StreamInv
<1>13. CASE CutFrame
  <2>1. /\ pc = "stream"
        /\ UNCHANGED <<outside, wire, clock, pc, disk, polls, result>>
    BY <1>13 DEF CutFrame
  <2>2. /\ buffer' \in Seq(Byte \cup HeaderUnit) /\ sinks' \in [Streams -> Sink]
        /\ WireInv' /\ SinksInv'
    BY <1>13, CutStep DEF Unit
  <2>3. TypeOK'
    BY <1>0, <2>1, <2>2 DEF TypeOK
  <2>4. EndInv'
    BY <1>0, <2>1 DEF EndInv, NoResult
  <2> QED
    BY <2>2, <2>3, <2>4 DEF StreamInv
<1>14. CASE Receives
  <2>1. PICK n \in 1..Len(wire) : Receive(n)
    BY <1>14 DEF Receives
  <2>2. UNCHANGED <<outside, clock, pc, sinks, disk, polls, result>>
    BY <2>1 DEF Receive
  <2>3. /\ buffer' \in Seq(Byte \cup HeaderUnit) /\ wire' \in Seq(Byte \cup HeaderUnit)
        /\ Pending' = Pending
    BY <1>0, <2>1, ReceiveStep DEF Unit
  <2>4. TypeOK'
    BY <1>0, <2>2, <2>3 DEF TypeOK
  <2>5. WireInv' /\ SinksInv' /\ EndInv'
    BY <1>0, <2>2, <2>3 DEF WireInv, SinksInv, EndInv, Totals
  <2> QED
    BY <2>4, <2>5 DEF StreamInv
<1>15. CASE StreamEnds
  <2>1. /\ pc = "stream" /\ ~Complete /\ wire = <<>> /\ daemon = "closed" /\ pc' = "code"
        /\ UNCHANGED <<outside, wire, clock, buffer, sinks, disk, polls, result>>
    BY <1>15 DEF StreamEnds
  <2>2. Pending = <<>>
    BY <2>1, NothingLeft
  <2>3. TypeOK'
    BY <1>0, <2>1 DEF TypeOK
  <2>4. EndInv'
    BY <1>0, <1>1, <2>1, <2>2 DEF EndInv, NoResult
  <2> QED
    BY <1>1, <2>1, <2>3, <2>4 DEF StreamInv
<1>16. CASE ExitSeen \/ ExitNeverSeen
  <2>1. PICK c \in Codes \cup {Unknown} : result' = Observed(c)
    BY <1>0, <1>16 DEF ExitSeen, ExitNeverSeen, TypeOK
  <2>2. /\ pc = "code" /\ pc' = "log"
        /\ UNCHANGED <<outside, wire, clock, buffer, sinks, disk, polls>>
    BY <1>16 DEF ExitSeen, ExitNeverSeen, PollsOut
  <2>3. TypeOK'
    BY <1>0, <2>1, <2>2, ResultType DEF TypeOK
  <2>4. EndInv'
    BY <1>0, <1>1, <2>1, <2>2, ResultType DEF EndInv
  <2> QED
    BY <1>1, <2>2, <2>3, <2>4 DEF StreamInv
<1>17. CASE StillRunning
  <2>1. /\ pc = "code" /\ polls /= MaxPolls /\ polls' = polls + 1
        /\ UNCHANGED <<outside, wire, clock, pc, buffer, sinks, disk, result>>
    BY <1>17 DEF StillRunning, PollsOut
  <2>2. polls' \in 0..MaxPolls
    BY <1>0, <2>1, ShellAssumption DEF TypeOK
  <2>3. TypeOK' /\ EndInv'
    BY <1>0, <1>1, <2>1, <2>2 DEF TypeOK, EndInv
  <2> QED
    BY <1>1, <2>1, <2>3 DEF StreamInv
<1>18. CASE WriteLog
  <2>1. /\ pc = "log" /\ pc' = "done" /\ log' = [s \in Streams |-> sinks[s].kept]
        /\ parts' = {}
        /\ UNCHANGED <<outside, wire, clock, buffer, sinks, refused, polls, result>>
    BY <1>18 DEF WriteLog
  <2>2. \A s \in Streams : sinks[s].kept \in Seq(Byte)
    BY <1>0 DEF TypeOK, Sink
  <2>3. TypeOK'
    BY <1>0, <2>1, <2>2 DEF TypeOK
  <2>4. EndInv'
    BY <1>0, <1>1, <2>1 DEF EndInv
  <2> QED
    BY <1>1, <2>1, <2>3, <2>4 DEF StreamInv
<1>20. CASE LogRefused
  <2>1. /\ pc' = "done" /\ result' = Failed
        /\ UNCHANGED <<outside, wire, clock, buffer, sinks, polls>>
    BY <1>20 DEF LogRefused
  <2>2. /\ refused' \in BOOLEAN /\ parts' \in SUBSET Streams
    BY <1>20 DEF LogRefused, Streams
  <2>3. log' \in [Streams -> Seq(Byte)]
    <3>1. PICK n \in [Streams -> 0..LogMax] :
            log' = [s \in Streams |->
                      First(sinks[s].kept, Least(n[s], Len(sinks[s].kept)))]
      BY <1>20 DEF LogRefused
    <3>2. ASSUME NEW s \in Streams
          PROVE  First(sinks[s].kept, Least(n[s], Len(sinks[s].kept))) \in Seq(Byte)
      <4>1. sinks[s].kept \in Seq(Byte) /\ n[s] \in Nat
        BY <1>0, ShellAssumption DEF TypeOK, Sink
      <4>2. Least(n[s], Len(sinks[s].kept)) \in 0..Len(sinks[s].kept)
        BY <4>1 DEF Least
      <4> QED
        BY <4>1, <4>2 DEF First
    <3> QED
      BY <3>1, <3>2
  <2>4. TypeOK'
    BY <1>0, <2>1, <2>2, <2>3, ResultType DEF TypeOK
  <2>5. EndInv'
    BY <2>1 DEF EndInv, Failed
  <2> QED
    BY <1>1, <2>1, <2>4, <2>5 DEF StreamInv
<1>19. CASE UNCHANGED vars
  <2>1. TypeOK' /\ EndInv'
    BY <1>0, <1>1, <1>19 DEF vars, TypeOK, EndInv
  <2> QED
    BY <1>1, <1>19, <2>1 DEF vars, StreamInv
<1> QED
  BY <1>3, <1>4, <1>5, <1>6, <1>7, <1>8, <1>9, <1>10, <1>11, <1>12, <1>13, <1>14,
     <1>15, <1>16, <1>17, <1>18, <1>19, <1>20
  DEF Next, Container, ClientStep

\* The connection's bookkeeping holds whatever the command writes, however its
\* bytes are framed and however the frames are received.
THEOREM StreamInvariant == Spec => []StreamInv
BY StreamInit, StreamStep, PTL DEF Spec

\* However the socket cuts the connection, each sink has its own stream from
\* the first byte on, and a result tells all of it.
THEOREM StreamsAreIntact == Spec => []StreamsIntact
<1>1. ASSUME StreamInv PROVE StreamsIntact
  <2>1. \A s \in Streams :
          LET k == sinks[s] IN
            /\ k.head = Said(s, Least(k.total, Half))
            /\ k.kept = Said(s, Least(k.total, LogMax))
    BY <1>1 DEF StreamInv, SinksInv
  <2>2. ASSUME pc = "done", result.kind = "result", NEW s \in Streams
        PROVE  sinks[s].total = written[s] /\ log[s] = Said(s, Least(written[s], LogMax))
    <3>1. Pending = <<>> /\ log[s] = sinks[s].kept
      BY <1>1, <2>2 DEF StreamInv, EndInv
    <3>2. Totals = written
      BY <1>1, <3>1, AllTold DEF StreamInv
    <3>3. sinks[s].total = written[s]
      BY <3>2 DEF Totals
    <3> QED
      BY <2>1, <3>1, <3>3
  <2> QED
    BY <2>1, <2>2 DEF StreamsIntact
<1> QED
  BY <1>1, StreamInvariant, PTL

-------------------------------------------------------------------------------
(* What a call says of its command.                                        *)

\* What the container, the daemon and the clock can be at each step of the
\* client: in particular, who holds a stream that is open past the deadline.
CommandInv ==
  /\ command /= "ended" =>
       detached = "none" /\ ~reaped /\ daemon /= "closed" /\ ~wrapped
  /\ wrapped => code \in TimedOutExitCodes /\ clock >= Term
  /\ pc \in {"idle", "created"} => command = "none" /\ clock = Before
  /\ clock = Deadline /\ pc = "stream" => detached /= "none" \/ daemon = "down"
  /\ pc \in {"code", "log"} \/ result.kind = "result" => command = "ended"
  /\ pc /= "done" => log = NoLog /\ ~refused
  /\ pc = "done" /\ ~refused => parts = {} /\ (result.kind = "error" => log = NoLog)
  /\ refused => pc = "done" /\ result.kind = "error"
  /\ RanIsTold

LEMMA CommandInit == Init => CommandInv
BY DEF Init, CommandInv, RanIsTold, NoResult, Before, Deadline

LEMMA CommandStep ==
  ASSUME StreamInv, CommandInv, [Next]_vars
  PROVE  CommandInv'
<1> USE DEF outside, disk, client
<1>0. TypeOK /\ EndInv /\ clock \in 0..3
  BY DEF StreamInv, TypeOK, Before, Deadline
<1>1. CASE \E s \in Streams, n \in 1..MaxFrame : Write(s, n)
  BY <1>1 DEF Write, CommandInv, RanIsTold
<1>2. ASSUME NEW c, NEW byWrapper \in BOOLEAN, Ends(c, byWrapper),
             byWrapper => c \in TimedOutExitCodes /\ clock >= Term
      PROVE  CommandInv'
  <2>1. /\ command = "running" /\ command' = "ended" /\ code' = c /\ wrapped' = byWrapper
        /\ detached = "none"
        /\ UNCHANGED <<written, wire, daemon, reaped, clock, client>>
    BY <1>2 DEF Ends, CommandInv
  <2>2. result.kind /= "result" /\ pc \notin {"idle", "created", "code", "log"}
    BY <2>1 DEF CommandInv
  <2>3. (clock = Deadline /\ pc = "stream" => daemon = "down")
        /\ (result.kind = "error" => daemon = "down" \/ refused)
    BY <2>1 DEF CommandInv, RanIsTold
  <2> QED
    BY <1>2, <2>1, <2>2, <2>3 DEF CommandInv, RanIsTold
<1>3. CASE EndsItself \/ Termed \/ Killed
  <2>1. CASE EndsItself
    BY <1>2, <2>1 DEF EndsItself
  <2>2. CASE Termed
    BY <1>2, <2>2 DEF Termed, TimedOutExitCodes
  <2>3. CASE Killed
    <3>1. Ends(137, TRUE) /\ clock >= Kill
      BY <2>3 DEF Killed
    <3>2. clock >= Term
      BY <1>0, <3>1 DEF Kill, Term
    <3> QED
      BY <1>2, <3>1, <3>2 DEF TimedOutExitCodes
  <2> QED
    BY <1>3, <2>1, <2>2, <2>3
<1>4. CASE DetachedEnds \/ StreamCloses \/ Reap \/ DaemonDies
  BY <1>4 DEF DetachedEnds, StreamCloses, Reap, DaemonDies, CommandInv, RanIsTold
<1>5. CASE Tick
  <2>1. /\ command /= "none" /\ clock' = clock + 1 /\ UNCHANGED <<outside, wire, client>>
        /\ clock = Kill => detached /= "none" \/ daemon = "down" \/ pc /= "stream"
    BY <1>5 DEF Tick
  <2>2. /\ clock >= Term => clock + 1 >= Term
        /\ clock + 1 = Deadline => clock = Kill
    BY <1>0 DEF Term, Kill, Deadline
  <2>3. wrapped' => code' \in TimedOutExitCodes /\ clock' >= Term
    BY <2>1, <2>2 DEF CommandInv
  <2>4. clock' = Deadline /\ pc' = "stream" => detached' /= "none" \/ daemon' = "down"
    BY <2>1, <2>2
  <2>5. pc' \notin {"idle", "created"}
    BY <2>1 DEF CommandInv
  <2> QED
    BY <2>1, <2>3, <2>4, <2>5 DEF CommandInv, RanIsTold
<1>6. CASE OpenSinks
  BY <1>6 DEF OpenSinks, CommandInv, RanIsTold
<1>7. CASE StartExec
  BY <1>0, <1>7 DEF StartExec, CommandInv, RanIsTold, EndInv, NoResult, Before, Deadline
<1>8. ASSUME Raise, UNCHANGED <<outside, wire, clock>>, pc /= "done",
             command = "none" \/ daemon = "down" \/ detached /= "none"
      PROVE  CommandInv'
  BY <1>8 DEF Raise, CommandInv, RanIsTold, Failed
<1>9. CASE ExecRefused
  BY <1>8, <1>9 DEF ExecRefused, CommandInv
<1>10. CASE PastDeadline
  BY <1>8, <1>10 DEF PastDeadline, CommandInv
<1>11. CASE ConnectionLost \/ PollFails
  BY <1>8, <1>11 DEF ConnectionLost, PollFails
<1>12. CASE CutFrame \/ Receives \/ StillRunning
  BY <1>12 DEF CutFrame, Receives, Receive, StillRunning, CommandInv, RanIsTold
<1>13. CASE StreamEnds
  BY <1>0, <1>13 DEF StreamEnds, CommandInv, RanIsTold, EndInv, NoResult
<1>14. ASSUME NEW c \in Codes \cup {Unknown}, result' = Observed(c),
              pc = "code", pc' = "log", c = Unknown \/ c = code,
              UNCHANGED <<outside, wire, clock, disk>>
       PROVE  CommandInv'
  <2>1. /\ result'.kind = "result" /\ result'.exit = c
        /\ result'.timedOut = (c \in TimedOutExitCodes /\ clock >= Term)
    BY <1>14, ResultType
  <2>2. RanIsTold'
    BY <1>14, <2>1 DEF CommandInv, RanIsTold
  <2> QED
    BY <1>14, <2>1, <2>2 DEF CommandInv
<1>15. CASE ExitSeen \/ ExitNeverSeen
  <2>1. code \in Codes /\ pc = "code"
    BY <1>0, <1>15 DEF ExitSeen, ExitNeverSeen, PollsOut, TypeOK
  <2> QED
    BY <1>14, <1>15, <2>1 DEF ExitSeen, ExitNeverSeen
<1>16. CASE WriteLog
  BY <1>0, <1>16 DEF WriteLog, CommandInv, RanIsTold, EndInv
\* The disk refused: the call fails, whatever is left behind.
<1>18. CASE SinksRefused \/ WriteRefused \/ LogRefused
  <2>1. /\ pc' = "done" /\ refused' = TRUE /\ result' = Failed
        /\ UNCHANGED <<outside, wire, clock>>
    BY <1>18 DEF SinksRefused, WriteRefused, LogRefused
  <2> QED
    BY <2>1 DEF CommandInv, RanIsTold, Failed
<1>17. CASE UNCHANGED vars
  BY <1>17 DEF vars, CommandInv, RanIsTold
<1> QED
  BY <1>1, <1>3, <1>4, <1>5, <1>6, <1>7, <1>9, <1>10, <1>11, <1>12, <1>13, <1>15,
     <1>16, <1>17, <1>18
  DEF Next, Container, ClientStep

LEMMA CommandInvariant == Spec => []CommandInv
<1>1. StreamInv /\ CommandInv /\ [Next]_vars => CommandInv'
  BY CommandStep
<1> QED
  BY <1>1, CommandInit, StreamInvariant, PTL DEF Spec

\* An error is the daemon's, a detached process's or a disk's that refused,
\* never the command's, and a command that the wrapper killed is told as timed
\* out (environment.py, shell).
THEOREM RunsAreTold == Spec => []RanIsTold
<1>1. CommandInv => RanIsTold
  BY DEF CommandInv
<1> QED
  BY <1>1, CommandInvariant, PTL

\* Every variable keeps to its type.  A call that is over has left no part of a
\* log, and one that failed no log, unless the disk refused it something; and
\* what the disk refused is never told as a result (environment.py, shell and
\* _write_log).
THEOREM CallCorrect == Spec => []CallInv
<1>1. StreamInv /\ CommandInv => CallInv
  BY DEF StreamInv, CommandInv, CallInv
<1> QED
  BY <1>1, StreamInvariant, CommandInvariant, PTL

-------------------------------------------------------------------------------
(* A call has no endless run.                                              *)

\* What the container, the daemon and the clock have before them, and the
\* steps of the client: each can only go down.
CommandAhead == CASE command = "none" -> 5 [] command = "running" -> 4 [] OTHER -> 0
DetachedAhead == IF detached = "holding" THEN 1 ELSE 0
DaemonAhead == CASE daemon = "up" -> 2 [] daemon = "closed" -> 1 [] OTHER -> 0
ReapAhead == IF reaped THEN 0 ELSE 1
TimeAhead == Deadline - clock
ClientAhead ==
  CASE pc = "idle" -> 5
    [] pc = "created" -> 4
    [] pc = "stream" -> 3
    [] pc = "code" -> 2
    [] pc = "log" -> 1
    [] OTHER -> 0
Ahead ==
  CommandAhead + DetachedAhead + DaemonAhead + ReapAhead + ClientAhead + TimeAhead

WrittenBytes == written["stdout"] + written["stderr"]

BytesAhead == MaxBytes - WrittenBytes
UnitsAhead == 2 * Len(wire) + Len(buffer)
PollsAhead == MaxPolls - polls

\* What the command may write still comes first; a unit is received and cut.
Measure == <<BytesAhead, Ahead, UnitsAhead, PollsAhead>>
GoesDown == <<Measure', Measure>> \in Sooner

WrittenInv == WrittenBytes <= MaxBytes

LEMMA WrittenInvariant == Spec => []WrittenInv
<1>1. Init => WrittenInv
  BY ShellAssumption DEF Init, WrittenInv, WrittenBytes, Streams
<1>2. ASSUME TypeOK, WrittenInv, [Next]_vars PROVE WrittenInv'
  <2>1. CASE \E s \in Streams, n \in 1..MaxFrame : Write(s, n)
    <3>1. PICK s \in Streams, n \in 1..MaxFrame : Write(s, n)
      BY <2>1
    <3>2. /\ written["stdout"] \in Nat /\ written["stderr"] \in Nat
          /\ written' = [written EXCEPT ![s] = @ + n]
          /\ written["stdout"] + written["stderr"] + n <= MaxBytes
      BY <1>2, <3>1 DEF TypeOK, Streams, Write
    <3>3. MaxFrame \in Nat /\ MaxBytes \in Nat /\ n \in Nat
      BY ShellAssumption
    <3>4. written'["stdout"] + written'["stderr"] = written["stdout"] + written["stderr"] + n
      BY <1>2, <3>2, <3>3 DEF TypeOK, Streams
    <3> QED
      BY <3>2, <3>4 DEF WrittenInv, WrittenBytes
  <2>2. CASE UNCHANGED written
    BY <1>2, <2>2 DEF WrittenInv, WrittenBytes
  <2>3. (\E s \in Streams, n \in 1..MaxFrame : Write(s, n)) \/ UNCHANGED written
    BY <1>2 DEF Next, vars, outside, Container, EndsItself, Termed, Killed, Ends,
      DetachedEnds, StreamCloses, Reap, DaemonDies, Tick, ClientStep, OpenSinks,
      StartExec, ExecRefused, CutFrame, Receives, Receive, StreamEnds, PastDeadline,
      ConnectionLost, ExitSeen, StillRunning, ExitNeverSeen, PollFails, WriteLog,
      SinksRefused, WriteRefused, LogRefused
  <2> QED
    BY <2>1, <2>2, <2>3
<1>3. StreamInv => TypeOK
  BY DEF StreamInv
<1> QED
  BY <1>1, <1>2, <1>3, StreamInvariant, PTL DEF Spec

AllAhead ==
  /\ CommandAhead \in 0..5 /\ DetachedAhead \in 0..1 /\ DaemonAhead \in 0..2
  /\ ReapAhead \in 0..1 /\ ClientAhead \in 0..5 /\ TimeAhead \in 0..3

Measured ==
  /\ BytesAhead \in Nat /\ Ahead \in Nat
  /\ UnitsAhead \in Nat /\ PollsAhead \in Nat
  /\ AllAhead

LEMMA MeasureIsNatural == StreamInv /\ WrittenInv => Measured
<1> SUFFICES ASSUME StreamInv, WrittenInv PROVE Measured
  OBVIOUS
<1>1. TypeOK
  BY DEF StreamInv
<1>2. BytesAhead \in Nat
  <2>1. written["stdout"] \in Nat /\ written["stderr"] \in Nat
    BY <1>1 DEF TypeOK, Streams
  <2> QED
    BY <2>1, ShellAssumption DEF WrittenInv, BytesAhead, WrittenBytes
<1>3. TimeAhead \in 0..3
  BY <1>1 DEF TypeOK, Before, Deadline, TimeAhead
<1>4. AllAhead
  BY <1>3 DEF AllAhead, CommandAhead, DetachedAhead, DaemonAhead, ReapAhead, ClientAhead
<1>5. Ahead \in Nat
  BY <1>4 DEF AllAhead, Ahead
<1>6. UnitsAhead \in Nat
  BY <1>1 DEF TypeOK, UnitsAhead
<1>7. PollsAhead \in Nat
  BY <1>1, ShellAssumption DEF TypeOK, PollsAhead
<1> QED
  BY <1>2, <1>4, <1>5, <1>6, <1>7 DEF Measured

LEMMA CallStepGoesDown ==
  ASSUME StreamInv, StreamInv', CommandInv, WrittenInv, WrittenInv', Next
  PROVE  GoesDown
<1> USE DEF outside
<1>0. Measured /\ TypeOK
  BY MeasureIsNatural DEF StreamInv
<1>b. Measured'
  <2>1. StreamInv' /\ WrittenInv' => Measured'
    BY MeasureIsNatural, PTL
  <2> QED
    BY <2>1
\* Which of the four numbers a step counts down.
<1>1. ASSUME \/ BytesAhead' < BytesAhead
             \/ UNCHANGED written /\ Ahead' < Ahead
             \/ /\ UNCHANGED written /\ Ahead' = Ahead
                /\ UnitsAhead' < UnitsAhead
             \/ /\ UNCHANGED <<written, wire, buffer>> /\ Ahead' = Ahead
                /\ PollsAhead' < PollsAhead
      PROVE  GoesDown
  <2>1. /\ UNCHANGED written => BytesAhead' = BytesAhead
        /\ UNCHANGED <<wire, buffer>> => UnitsAhead' = UnitsAhead
    BY DEF BytesAhead, WrittenBytes, UnitsAhead
  <2>2. <<<<BytesAhead', Ahead', UnitsAhead', PollsAhead'>>,
          <<BytesAhead, Ahead, UnitsAhead, PollsAhead>>>> \in Sooner
    BY <1>0, <1>b, <1>1, <2>1, SoonerOf, ZenonT(30) DEF Measured
  <2> QED
    BY <2>2 DEF GoesDown, Measure
\* A step that leaves what is written alone and takes one thing ahead away.
<1>2. ASSUME UNCHANGED written,
             /\ CommandAhead' <= CommandAhead /\ DaemonAhead' <= DaemonAhead
             /\ ReapAhead' <= ReapAhead /\ ClientAhead' <= ClientAhead
             /\ TimeAhead' <= TimeAhead
             /\ DetachedAhead' <= DetachedAhead,
             \/ CommandAhead' < CommandAhead \/ DaemonAhead' < DaemonAhead
             \/ ReapAhead' < ReapAhead \/ ClientAhead' < ClientAhead
             \/ TimeAhead' < TimeAhead
             \/ DetachedAhead' < DetachedAhead
      PROVE  GoesDown
  <2>1. /\ CommandAhead \in Int /\ DetachedAhead \in Int /\ DaemonAhead \in Int
        /\ ReapAhead \in Int /\ ClientAhead \in Int /\ TimeAhead \in Int
        /\ CommandAhead' \in Int /\ DetachedAhead' \in Int /\ DaemonAhead' \in Int
        /\ ReapAhead' \in Int /\ ClientAhead' \in Int /\ TimeAhead' \in Int
    BY <1>0, <1>b DEF Measured, AllAhead
  <2>2. Ahead' < Ahead
    <3>1. \A a, b, c, a1, b1, c1 \in Int :
            a1 <= a /\ b1 <= b /\ c1 <= c =>
              /\ a1 + b1 + c1 <= a + b + c
              /\ a1 < a \/ b1 < b \/ c1 < c => a1 + b1 + c1 < a + b + c
              /\ a + b + c \in Int /\ a1 + b1 + c1 \in Int
      OBVIOUS
    <3> DEFINE x == CommandAhead + DetachedAhead + DaemonAhead
               y == ReapAhead + ClientAhead + TimeAhead
    <3>2. x' <= x /\ x \in Int /\ x' \in Int /\ y' <= y /\ y \in Int /\ y' \in Int
      BY <1>2, <2>1, <3>1, ZenonT(30)
    <3>3. x' < x \/ y' < y
      BY <1>2, <2>1, <3>1, ZenonT(30)
    <3>4. Ahead = x + y /\ Ahead' = x' + y'
      BY <2>1 DEF Ahead
    <3> HIDE DEF x, y
    <3>5. \A a, b, a1, b1 \in Int :
            a1 <= a /\ b1 <= b /\ (a1 < a \/ b1 < b) => a1 + b1 < a + b
      OBVIOUS
    <3>6. x' + y' < x + y
      BY <3>2, <3>3, <3>5, ZenonT(30)
    <3> QED
      BY <3>4, <3>6
  <2> QED
    BY <1>1, <1>2, <2>2
<1>c. /\ CommandAhead \in Int /\ DetachedAhead \in Int /\ DaemonAhead \in Int
      /\ ReapAhead \in Int /\ ClientAhead \in Int /\ TimeAhead \in Int
  BY <1>0 DEF Measured, AllAhead
<1>d. /\ UNCHANGED command => CommandAhead' = CommandAhead
      /\ UNCHANGED detached => DetachedAhead' = DetachedAhead
      /\ UNCHANGED daemon => DaemonAhead' = DaemonAhead
      /\ UNCHANGED reaped => ReapAhead' = ReapAhead
      /\ UNCHANGED pc => ClientAhead' = ClientAhead
      /\ UNCHANGED clock => TimeAhead' = TimeAhead
  BY DEF CommandAhead, DetachedAhead, DaemonAhead, ReapAhead, ClientAhead, TimeAhead
<1>3. /\ UNCHANGED command => CommandAhead' <= CommandAhead
      /\ UNCHANGED detached => DetachedAhead' <= DetachedAhead
      /\ UNCHANGED daemon => DaemonAhead' <= DaemonAhead
      /\ UNCHANGED reaped => ReapAhead' <= ReapAhead
      /\ UNCHANGED pc => ClientAhead' <= ClientAhead
      /\ UNCHANGED clock => TimeAhead' <= TimeAhead
  <2>1. \A n \in Int : n <= n
    OBVIOUS
  <2> QED
    BY <1>c, <1>d, <2>1
<1>4. CASE \E s \in Streams, n \in 1..MaxFrame : Write(s, n)
  <2>1. PICK s \in Streams, n \in 1..MaxFrame : Write(s, n)
    BY <1>4
  <2>2. /\ written["stdout"] \in Nat /\ written["stderr"] \in Nat
        /\ written' = [written EXCEPT ![s] = @ + n] /\ n \in Nat \ {0}
    BY <1>0, <2>1, ShellAssumption DEF TypeOK, Streams, Write
  <2>3. WrittenBytes' > WrittenBytes /\ WrittenBytes' \in Nat /\ WrittenBytes \in Nat
    <3>1. written'["stdout"] + written'["stderr"] = written["stdout"] + written["stderr"] + n
      BY <1>0, <2>2 DEF TypeOK, Streams
    <3>2. WrittenBytes' = WrittenBytes + n
      BY <3>1, Zenon DEF WrittenBytes
    <3>3. WrittenBytes \in Nat
      BY <2>2 DEF WrittenBytes
    <3> QED
      BY <2>2, <3>2, <3>3
  <2>4. BytesAhead' < BytesAhead
    <3>1. \A m, x, y \in Nat : y > x => m - y < m - x
      OBVIOUS
    <3>2. MaxBytes - WrittenBytes' < MaxBytes - WrittenBytes
      BY <2>3, <3>1, ShellAssumption
    <3> QED
      BY <3>2 DEF BytesAhead
  <2> QED
    BY <1>1, <2>4
\* An end takes four away from the command, and may leave a process behind.
<1>5. CASE EndsItself \/ Termed \/ Killed
  <2>1. /\ command = "running" /\ command' = "ended"
        /\ UNCHANGED <<written, daemon, reaped, clock, pc>>
    BY <1>5 DEF EndsItself, Termed, Killed, Ends, client
  <2>2. CommandAhead = 4 /\ CommandAhead' = 0
    BY <2>1 DEF CommandAhead
  <2>3. DetachedAhead \in 0..1 /\ DetachedAhead' \in 0..1
    BY DEF DetachedAhead
  <2>4. Ahead' < Ahead
    <3>1. \A d, d1 \in 0..1 : \A k, l, m, n \in Int :
            0 + d1 + k + l + m + n < 4 + d + k + l + m + n
      OBVIOUS
    <3>2. /\ DaemonAhead' = DaemonAhead /\ ReapAhead' = ReapAhead
          /\ ClientAhead' = ClientAhead /\ TimeAhead' = TimeAhead
      BY <1>d, <2>1
    <3>3. 0 + DetachedAhead' + DaemonAhead + ReapAhead + ClientAhead + TimeAhead
            < 4 + DetachedAhead + DaemonAhead + ReapAhead + ClientAhead + TimeAhead
      BY <1>c, <2>3, <3>1, ZenonT(30)
    <3> QED
      BY <2>2, <3>2, <3>3, ZenonT(30) DEF Ahead
  <2> QED
    BY <1>1, <2>1, <2>4
<1>6. CASE DetachedEnds
  <2>1. /\ detached = "holding" /\ detached' = "gone"
        /\ UNCHANGED <<written, command, daemon, reaped, clock, pc>>
    BY <1>6 DEF DetachedEnds, client
  <2>2. DetachedAhead' < DetachedAhead /\ DetachedAhead' <= DetachedAhead
    BY <2>1 DEF DetachedAhead
  <2> QED
    BY <1>2, <1>3, <2>1, <2>2, Zenon
<1>7. CASE StreamCloses \/ DaemonDies
  <2>1. UNCHANGED <<written, command, detached, reaped, clock, pc>>
    BY <1>7 DEF StreamCloses, DaemonDies, client
  <2>2. DaemonAhead' < DaemonAhead /\ DaemonAhead' <= DaemonAhead
    BY <1>0, <1>7 DEF StreamCloses, DaemonDies, DaemonAhead, TypeOK
  <2> QED
    BY <1>2, <1>3, <2>1, <2>2, Zenon
<1>8. CASE Reap
  <2>1. /\ ~reaped /\ reaped' = TRUE
        /\ UNCHANGED <<written, command, detached, daemon, clock, pc>>
    BY <1>8 DEF Reap, client
  <2>2. ReapAhead' < ReapAhead /\ ReapAhead' <= ReapAhead
    BY <2>1 DEF ReapAhead
  <2> QED
    BY <1>2, <1>3, <2>1, <2>2, Zenon
<1>9. CASE Tick
  <2>1. /\ clock' = clock + 1
        /\ UNCHANGED <<written, command, detached, daemon, reaped, pc>>
    BY <1>9 DEF Tick, client
  <2>2. TimeAhead' < TimeAhead /\ TimeAhead' <= TimeAhead
    BY <1>0, <2>1 DEF TypeOK, Before, Deadline, TimeAhead
  <2> QED
    BY <1>2, <1>3, <2>1, <2>2, Zenon
<1>10. CASE StartExec
  <2>1. /\ pc = "created" /\ pc' = "stream" /\ command' = "running"
        /\ UNCHANGED <<written, detached, daemon, reaped, clock>>
    BY <1>10 DEF StartExec
  <2>2. ClientAhead' < ClientAhead /\ ClientAhead' <= ClientAhead
    BY <2>1 DEF ClientAhead
  <2>3. CommandAhead' <= CommandAhead
    BY <1>10, <2>1 DEF CommandInv, CommandAhead
  <2> QED
    BY <1>2, <1>3, <2>1, <2>2, <2>3, Zenon
\* The client goes on to a later step of its own.
<1>11. ASSUME UNCHANGED outside, UNCHANGED clock,
              ClientAhead' < ClientAhead /\ ClientAhead' <= ClientAhead
       PROVE  GoesDown
  <2>1. UNCHANGED <<command, detached, daemon, reaped, clock, written>>
    BY <1>11
  <2> QED
    BY <1>2, <1>3, <1>11, <2>1, Zenon
<1>12. CASE \/ OpenSinks \/ StreamEnds \/ ExitSeen \/ ExitNeverSeen
             \/ WriteLog \/ LogRefused
  <2>1. ClientAhead' < ClientAhead /\ ClientAhead' <= ClientAhead
    BY <1>12 DEF OpenSinks, StreamEnds, ExitSeen, ExitNeverSeen, PollsOut, WriteLog,
                 LogRefused, ClientAhead
  <2> QED
    BY <1>11, <1>12, <2>1 DEF OpenSinks, StreamEnds, ExitSeen, ExitNeverSeen, WriteLog,
                              LogRefused
<1>13. CASE \/ ExecRefused \/ PastDeadline \/ ConnectionLost \/ PollFails
             \/ SinksRefused \/ WriteRefused
  <2>1. ClientAhead' < ClientAhead /\ ClientAhead' <= ClientAhead
    BY <1>13 DEF ExecRefused, PastDeadline, ConnectionLost, PollFails, PollsOut, Raise,
                 SinksRefused, WriteRefused, ClientAhead
  <2> QED
    BY <1>11, <1>13, <2>1 DEF ExecRefused, PastDeadline, ConnectionLost, PollFails,
                              SinksRefused, WriteRefused
\* The client stays where it is.
<1>14. ASSUME UNCHANGED outside, UNCHANGED <<clock, pc>>
       PROVE  UNCHANGED written /\ Ahead' = Ahead
  BY <1>d, <1>14 DEF Ahead
<1>15. CASE CutFrame
  <2>1. Len(buffer') < Len(buffer) /\ UNCHANGED wire
    <3>1. /\ HeaderSize \in Nat \ {0} /\ buffer \in Seq(Unit) /\ wire \in Seq(Unit)
          /\ Len(buffer) \in Nat
      BY <1>0, ShellAssumption DEF TypeOK, Unit
    <3>2. Len(buffer) >= HeaderSize /\ Len(buffer) >= HeaderSize + Size(buffer[1])
      BY <1>15 DEF CutFrame, Complete
    <3>3. Pending /= <<>>
      BY <3>1, <3>2 DEF Pending
    <3>4. PICK s \in Streams, n \in Nat \ {0} : buffer[1] = <<"header", s, n>>
      BY <1>0, <3>2, <3>3, FirstFrame, Received
    <3>5. Size(buffer[1]) = n
      BY <3>4 DEF Size
    <3>6. buffer' = SubSeq(buffer, HeaderSize + n + 1, Len(buffer)) /\ UNCHANGED wire
      BY <1>15, <3>5 DEF CutFrame
    <3> QED
      BY <3>1, <3>2, <3>5, <3>6
  <2>2. UnitsAhead' < UnitsAhead
    <3>1. buffer \in Seq(Unit) /\ wire \in Seq(Unit) /\ buffer' \in Seq(Unit)
      BY <1>0, <1>15, CutStep DEF TypeOK, Unit
    <3> QED
      BY <2>1, <3>1 DEF UnitsAhead
  <2>3. UNCHANGED outside /\ UNCHANGED <<clock, pc>>
    BY <1>15 DEF CutFrame
  <2> QED
    BY <1>1, <1>14, <2>2, <2>3
<1>16. CASE Receives
  <2>1. PICK n \in 1..Len(wire) : Receive(n)
    BY <1>16 DEF Receives
  <2>2. /\ buffer \in Seq(Unit) /\ wire \in Seq(Unit)
        /\ buffer' = buffer \o First(wire, n) /\ wire' = SubSeq(wire, n + 1, Len(wire))
    BY <1>0, <2>1 DEF Receive, TypeOK, Unit
  <2>3. First(wire, n) \in Seq(Unit) /\ Len(First(wire, n)) = n
    BY <2>2, FirstOf
  <2>4. Len(buffer') = Len(buffer) + n
    BY <2>2, <2>3, ConcatProperties
  <2>5. Len(wire') = Len(wire) - n
    BY <2>2
  <2>6. UnitsAhead' < UnitsAhead
    <3>1. \A w, b \in Nat, k \in Nat \ {0} : 2 * (w - k) + (b + k) < 2 * w + b
      OBVIOUS
    <3>2. Len(wire) \in Nat /\ Len(buffer) \in Nat /\ n \in Nat \ {0}
      BY <2>2
    <3>3. 2 * (Len(wire) - n) + (Len(buffer) + n) < 2 * Len(wire) + Len(buffer)
      BY <3>1, <3>2
    <3> QED
      BY <2>4, <2>5, <3>3 DEF UnitsAhead
  <2>7. UNCHANGED outside /\ UNCHANGED <<clock, pc>>
    BY <2>1 DEF Receive
  <2> QED
    BY <1>1, <1>14, <2>6, <2>7
<1>17. CASE StillRunning
  <2>1. polls' = polls + 1 /\ UNCHANGED outside /\ UNCHANGED <<wire, buffer, clock, pc>>
    BY <1>17 DEF StillRunning
  <2>2. PollsAhead' < PollsAhead
    BY <1>0, <2>1, ShellAssumption DEF TypeOK, PollsAhead
  <2> QED
    BY <1>1, <1>14, <2>1, <2>2
<1> QED
  BY <1>4, <1>5, <1>6, <1>7, <1>8, <1>9, <1>10, <1>12, <1>13, <1>15, <1>16, <1>17
  DEF Next, Container, ClientStep

\* A call of the shell has no endless run, whatever its command does, unless
\* that writes without end: every step of the container, the daemon, the clock
\* and the client takes the call down an order without endless descent.  This is
\* what CallEnds has of safety (environment.py, shell; docker_api.py,
\* `_stream_exec`).
THEOREM NoEndlessCall ==
  IsWellFoundedOn(Sooner, Quadruples) /\ (Spec => [][GoesDown]_vars)
<1>1. StreamInv /\ StreamInv' /\ CommandInv /\ WrittenInv /\ WrittenInv' /\ [Next]_vars
        => [GoesDown]_vars
  BY CallStepGoesDown
<1>2. Spec => [][GoesDown]_vars
  BY <1>1, StreamInvariant, CommandInvariant, WrittenInvariant, PTL DEF Spec
<1> QED
  BY <1>2, SoonerIsWellFounded

===============================================================================
