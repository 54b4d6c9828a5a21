----------------------------- MODULE EPLProofs -----------------------------
(***************************************************************************)
(* Proofs about the event processor, for every chain, any number of        *)
(* processors and any bound on faults.                                     *)
(*                                                                         *)
(* The first half says what processBlock makes of a well-formed block:     *)
(* where each database call stands in the queue, and which calls there     *)
(* are; no proof needs anything else of the decoder and the materializer.  *)
(* FlattenSeq is recursive, so its positions come from an induction, done  *)
(* on a set of numbers.                                                    *)
(*                                                                         *)
(* The inductive invariant of the second half says what the calls already  *)
(* made for a block in hand have left in the database, by position in its  *)
(* queue.                                                                  *)
(***************************************************************************)
EXTENDS EPL, SequenceTheorems, WellFoundedInduction, TLAPS

(* A set of numbers that holds zero and the successor of each of its         *)
(* elements holds all numbers.                                               *)
LEMMA SetInduction ==
  ASSUME NEW S, 0 \in S, \A n \in Nat : n \in S => n + 1 \in S
  PROVE  \A n \in Nat : n \in S
<1>. DEFINE T == {n \in Nat : n \notin S}
<1>1. SUFFICES ASSUME T # {} PROVE FALSE
  OBVIOUS
<1>2. PICK m \in T : \A k \in T : <<k, m>> \notin OpToRel(<, Nat)
  <2>1. T \subseteq Nat
    OBVIOUS
  <2>. QED BY <1>1, <2>1, WFMin, NatLessThanWellFounded, Zenon
<1>3. \A k \in T : ~(k < m)
  BY <1>2, Zenon DEF OpToRel
<1>4. m \in Nat /\ m \notin S /\ m # 0
  BY <1>2
<1>5. m - 1 \in Nat /\ m - 1 < m /\ (m - 1) + 1 = m
  BY <1>4
<1>6. m - 1 \in S
  BY <1>3, <1>5
<1>. QED BY <1>4, <1>5, <1>6

LEMMA LeTransitive == \A a, b, c \in Nat : a <= b /\ b <= c => a <= c
OBVIOUS

LEMMA LePlus == \A a, b \in Nat : a <= a + b /\ \A k \in 1..b : a + k \in 1..(a + b)
OBVIOUS

LEMMA LeRange == \A a, b \in Nat : a <= b => \A k \in 1..a : k \in 1..b
OBVIOUS

LEMMA RangeEnds == ASSUME NEW a \in Nat, NEW b \in Nat, 1..a = 1..b PROVE a = b
<1>1. a # 0 => a \in 1..b
  OBVIOUS
<1>2. b # 0 => b \in 1..a
  OBVIOUS
<1>. QED BY <1>1, <1>2

(* The recursive function inside FlattenSeq exists. *)
LEMMA FlattenFunction ==
  ASSUME NEW S, NEW ss \in Seq(Seq(S)), Len(ss) # 0
  PROVE  \E f \in [1..Len(ss) -> Seq(S)] :
           \A i \in 1..Len(ss) : f[i] = IF i = 1 THEN ss[i] ELSE f[i - 1] \o ss[i]
<1>. DEFINE Part(n) ==
       \E f \in [1..n -> Seq(S)] :
         \A i \in 1..n : f[i] = IF i = 1 THEN ss[i] ELSE f[i - 1] \o ss[i]
     P == {n \in Nat : n <= Len(ss) => Part(n)}
<1>0. Len(ss) \in Nat /\ \A i \in 1..Len(ss) : ss[i] \in Seq(S)
  BY LenProperties
<1>1. 0 \in P
  <2>1. PICK f : f = [i \in 1..0 |-> ss[i]]
    OBVIOUS
  <2>2. f \in [1..0 -> Seq(S)]
    BY <2>1
  <2>3. \A i \in 1..0 : f[i] = IF i = 1 THEN ss[i] ELSE f[i - 1] \o ss[i]
    OBVIOUS
  <2>4. Part(0)
    BY <2>2, <2>3, Zenon
  <2>. QED BY <2>4
<1>2. ASSUME NEW n \in Nat, n \in P PROVE n + 1 \in P
  <2>. SUFFICES ASSUME n + 1 <= Len(ss) PROVE Part(n + 1)
    OBVIOUS
  <2>1. n <= Len(ss)
    BY <1>0
  <2>2. PICK f \in [1..n -> Seq(S)] :
          \A i \in 1..n : f[i] = IF i = 1 THEN ss[i] ELSE f[i - 1] \o ss[i]
    BY <1>2, <2>1
  <2>. DEFINE last == IF n = 0 THEN ss[n + 1] ELSE f[n] \o ss[n + 1]
              g == [i \in 1..(n + 1) |-> IF i <= n THEN f[i] ELSE last]
  <2>3. last \in Seq(S)
    <3>1. ss[n + 1] \in Seq(S)
      BY <1>0
    <3>2. CASE n = 0
      BY <3>1, <3>2
    <3>3. CASE n # 0
      <4>1. f[n] \in Seq(S)
        BY <3>3
      <4>. QED BY <3>1, <3>3, <4>1, ConcatProperties
    <3>. QED BY <3>2, <3>3
  <2>4. g \in [1..(n + 1) -> Seq(S)]
    <3>. HIDE DEF last
    <3>. QED BY <2>3
  <2>5. ASSUME NEW i \in 1..(n + 1)
        PROVE  g[i] = IF i = 1 THEN ss[i] ELSE g[i - 1] \o ss[i]
    <3>1. CASE i <= n
      <4>1. g[i] = f[i]
        BY <3>1
      <4>2. i # 1 => g[i - 1] = f[i - 1]
        BY <3>1
      <4>3. i \in 1..n
        BY <3>1
      <4>4. f[i] = IF i = 1 THEN ss[i] ELSE f[i - 1] \o ss[i]
        BY <2>2, <4>3
      <4>. HIDE DEF g
      <4>. QED BY <4>1, <4>2, <4>4
    <3>2. CASE i = n + 1
      <4>1. g[i] = last
        BY <3>2
      <4>2. n # 0 => g[n] = f[n]
        OBVIOUS
      <4>. QED BY <3>2, <4>1, <4>2
    <3>. QED BY <3>1, <3>2
  <2>. QED BY <2>4, <2>5
<1>3. \A n \in Nat : n \in P
  <2>. HIDE DEF P
  <2>. QED BY <1>1, <1>2, SetInduction
<1>4. Len(ss) \in P
  BY <1>0, <1>3, Zenon
<1>. HIDE DEF Part
<1>5. Part(Len(ss))
  BY <1>0, <1>4
<1>. QED BY <1>5 DEF Part

(* Part i of ss lies in q from position o[i] + 1 on, and there is nothing    *)
(* else in q.                                                                *)
Placed(q, ss, o) ==
  /\ o \in [1..(Len(ss) + 1) -> Nat]
  /\ o[1] = 0 /\ o[Len(ss) + 1] = Len(q)
  /\ \A i \in 1..Len(ss) : o[i + 1] = o[i] + Len(ss[i])
  /\ \A i, j \in 1..(Len(ss) + 1) : i <= j => o[i] <= o[j]
  /\ \A i \in 1..Len(ss) : \A k \in 1..Len(ss[i]) :
       o[i] + k \in 1..Len(q) /\ q[o[i] + k] = ss[i][k]
  /\ \A m \in 1..Len(q) : \E i \in 1..Len(ss) : \E k \in 1..Len(ss[i]) : m = o[i] + k

(* FlattenSeq places every part. *)
LEMMA FlattenPositions ==
  ASSUME NEW S, NEW ss \in Seq(Seq(S))
  PROVE  FlattenSeq(ss) \in Seq(S) /\ \E o : Placed(FlattenSeq(ss), ss, o)
<1>. DEFINE n == Len(ss)
<1>0. n \in Nat /\ \A i \in 1..n : ss[i] \in Seq(S) /\ Len(ss[i]) \in Nat
  BY LenProperties
<1>1. CASE n = 0
  <2>1. ss = <<>> /\ FlattenSeq(ss) = <<>>
    BY <1>1, EmptySeq DEF FlattenSeq
  <2>2. PICK o : o = [i \in 1..1 |-> 0]
    OBVIOUS
  <2>. HIDE DEF n
  <2>3. o \in [1..(Len(ss) + 1) -> Nat] /\ o[1] = 0 /\ o[Len(ss) + 1] = 0
    BY <2>1, <2>2
  <2>4. Len(FlattenSeq(ss)) = 0 /\ Len(ss) = 0
    BY <2>1
  <2>5. \A i, j \in 1..(Len(ss) + 1) : o[i] <= o[j]
    BY <2>2, <2>4
  <2>6. 1..Len(ss) = {} /\ 1..Len(FlattenSeq(ss)) = {}
    BY <2>4
  <2>7. Placed(FlattenSeq(ss), ss, o)
    BY <2>3, <2>4, <2>5, <2>6 DEF Placed
  <2>8. FlattenSeq(ss) \in Seq(S)
    BY <2>1, EmptySeq
  <2>. QED BY <2>7, <2>8
<1>2. CASE n # 0
  <2>1. PICK f \in [1..n -> Seq(S)] :
          \A i \in 1..n : f[i] = IF i = 1 THEN ss[i] ELSE f[i - 1] \o ss[i]
    BY <1>2, FlattenFunction
  <2>2. FlattenSeq(ss) = f[n]
    <3>. DEFINE G(g) == g = [i \in 1..n |-> IF i = 1 THEN ss[i] ELSE g[i - 1] \o ss[i]]
    <3>1. G(f)
      BY <2>1
    <3>2. ASSUME NEW g, G(g) PROVE g = f
      <4>. DEFINE P == {k \in Nat : k \in 1..n => g[k] = f[k]}
      <4>1. 0 \in P
        OBVIOUS
      <4>2. ASSUME NEW k \in Nat, k \in P PROVE k + 1 \in P
        <5>. SUFFICES ASSUME k + 1 \in 1..n PROVE g[k + 1] = f[k + 1]
          OBVIOUS
        <5>1. g[k + 1] = IF k + 1 = 1 THEN ss[k + 1] ELSE g[k] \o ss[k + 1]
          <6>1. k + 1 \in 1..n /\ (k + 1) - 1 = k
            OBVIOUS
          <6>2. g[k + 1] = [i \in 1..n |-> IF i = 1 THEN ss[i] ELSE g[i - 1] \o ss[i]][k + 1]
            BY <3>2, Zenon
          <6>. QED BY <6>1, <6>2
        <5>2. f[k + 1] = IF k + 1 = 1 THEN ss[k + 1] ELSE f[k] \o ss[k + 1]
          <6>1. k + 1 \in 1..n /\ (k + 1) - 1 = k
            OBVIOUS
          <6>. QED BY <2>1, <6>1
        <5>3. k + 1 # 1 => g[k] = f[k]
          BY <4>2
        <5>. QED BY <5>1, <5>2, <5>3
      <4>3. \A k \in Nat : k \in P
        <5>. HIDE DEF P
        <5>. QED BY <4>1, <4>2, SetInduction
      <4>4. \A k \in 1..n : g[k] = f[k]
        BY <4>3
      <4>5. g = [k \in 1..n |-> g[k]]
        BY <3>2
      <4>6. f = [k \in 1..n |-> f[k]]
        BY <2>1
      <4>. QED BY <4>4, <4>5, <4>6
    <3>3. (CHOOSE g : G(g)) = f
      <4>. HIDE DEF G
      <4>1. G(CHOOSE g : G(g))
        BY <3>1
      <4>. QED BY <3>2, <4>1
    <3>. QED BY <1>2, <3>3 DEF FlattenSeq
  <2>. DEFINE o == [i \in 1..(n + 1) |-> IF i = 1 THEN 0 ELSE Len(f[i - 1])]
  <2>. HIDE DEF n
  <2>3. \A i \in 1..n : f[i] \in Seq(S) /\ Len(f[i]) \in Nat
    BY <2>1, LenProperties
  <2>4. o \in [1..(n + 1) -> Nat]
    <3>1. ASSUME NEW i \in 1..(n + 1) PROVE (IF i = 1 THEN 0 ELSE Len(f[i - 1])) \in Nat
      <4>1. i # 1 => i - 1 \in 1..n
        BY <1>0
      <4>. QED BY <4>1, <2>3
    <3>. QED BY <3>1
  <2>5. o[1] = 0 /\ \A i \in 1..n : o[i + 1] = Len(f[i])
    BY <1>0
  <2>. HIDE DEF o
  <2>6. ASSUME NEW i \in 1..n
        PROVE  /\ o[i + 1] = o[i] + Len(ss[i])
               /\ \A k \in 1..Len(ss[i]) : f[i][o[i] + k] = ss[i][k]
               /\ i # 1 => \A m \in 1..o[i] : f[i][m] = f[i - 1][m]
    <3>1. CASE i = 1
      <4>1. f[i] = ss[i] /\ o[i + 1] = Len(f[i]) /\ o[i] = 0
        BY <2>1, <2>5, <3>1
      <4>2. Len(ss[i]) \in Nat
        BY <1>0
      <4>. QED BY <3>1, <4>1, <4>2
    <3>2. CASE i # 1
      <4>1. i - 1 \in 1..n /\ (i - 1) + 1 = i
        BY <1>0, <3>2
      <4>2. f[i] = f[i - 1] \o ss[i]
        BY <2>1, <3>2
      <4>3. f[i - 1] \in Seq(S) /\ ss[i] \in Seq(S) /\ Len(f[i - 1]) \in Nat /\ Len(ss[i]) \in Nat
        BY <1>0, <2>3, <4>1
      <4>4. o[i] = Len(f[i - 1])
        BY <2>5, <4>1
      <4>5. /\ Len(f[i]) = Len(f[i - 1]) + Len(ss[i])
            /\ \A m \in 1..(Len(f[i - 1]) + Len(ss[i])) :
                 f[i][m] = IF m <= Len(f[i - 1]) THEN f[i - 1][m] ELSE ss[i][m - Len(f[i - 1])]
        <5>. DEFINE s1 == f[i - 1]
                    s2 == ss[i]
        <5>1. s1 \in Seq(S) /\ s2 \in Seq(S)
          BY <4>3
        <5>. HIDE DEF s1, s2
        <5>2. /\ Len(s1 \o s2) = Len(s1) + Len(s2)
              /\ \A m \in 1..(Len(s1) + Len(s2)) :
                   (s1 \o s2)[m] = IF m <= Len(s1) THEN s1[m] ELSE s2[m - Len(s1)]
          BY <5>1, ConcatProperties
        <5>. QED BY <4>2, <5>2, Zenon DEF s1, s2
      <4>6. /\ o[i + 1] = o[i] + Len(ss[i])
            /\ \A m \in 1..(o[i] + Len(ss[i])) :
                 f[i][m] = IF m <= o[i] THEN f[i - 1][m] ELSE ss[i][m - o[i]]
        BY <2>5, <4>4, <4>5, Zenon
      <4>. DEFINE l == o[i]
      <4>0. l \in Nat /\ Len(ss[i]) \in Nat
        BY <1>0, <2>4
      <4>. HIDE DEF l
      <4>7. ASSUME NEW k \in 1..Len(ss[i]) PROVE f[i][l + k] = ss[i][k]
        <5>1. l + k \in 1..(l + Len(ss[i])) /\ ~(l + k <= l) /\ (l + k) - l = k
          BY <4>0
        <5>2. f[i][l + k] = IF l + k <= l THEN f[i - 1][l + k] ELSE ss[i][(l + k) - l]
          BY <4>6, <5>1, Zenon DEF l
        <5>. QED BY <5>1, <5>2, Zenon
      <4>8. ASSUME NEW m \in 1..l PROVE f[i][m] = f[i - 1][m]
        <5>1. m \in 1..(l + Len(ss[i])) /\ m <= l
          BY <4>0
        <5>2. f[i][m] = IF m <= l THEN f[i - 1][m] ELSE ss[i][m - l]
          BY <4>6, <5>1, Zenon DEF l
        <5>. QED BY <5>1, <5>2, Zenon
      <4>. QED BY <4>6, <4>7, <4>8, Zenon DEF l
    <3>. QED BY <3>1, <3>2
  <2>7. ASSUME NEW j \in 1..n
        PROVE  \A i \in 1..j : /\ o[i] <= o[j] /\ o[i + 1] <= o[j + 1]
                               /\ \A m \in 1..o[i + 1] : f[j][m] = f[i][m]
    <3>. DEFINE Q(k) == \A i \in 1..k : /\ o[i] <= o[k] /\ o[i + 1] <= o[k + 1]
                                        /\ \A m \in 1..o[i + 1] : f[k][m] = f[i][m]
                P == {k \in Nat : k \in 1..n => Q(k)}
    <3>1. 0 \in P
      OBVIOUS
    <3>2. ASSUME NEW k \in Nat, k \in P PROVE k + 1 \in P
      <4>. SUFFICES ASSUME k + 1 \in 1..n, NEW i \in 1..(k + 1)
                    PROVE  /\ o[i] <= o[k + 1] /\ o[i + 1] <= o[(k + 1) + 1]
                           /\ \A m \in 1..o[i + 1] : f[k + 1][m] = f[i][m]
        OBVIOUS
      <4>0. /\ o[i] \in Nat /\ o[i + 1] \in Nat /\ o[k + 1] \in Nat /\ o[(k + 1) + 1] \in Nat
            /\ Len(ss[k + 1]) \in Nat
        <5>. HIDE DEF P, Q
        <5>1. /\ i \in 1..(n + 1) /\ i + 1 \in 1..(n + 1) /\ k + 1 \in 1..(n + 1)
              /\ (k + 1) + 1 \in 1..(n + 1) /\ k + 1 \in 1..n
          BY <1>0
        <5>2. Len(ss[k + 1]) \in Nat
          BY <1>0, <5>1, Zenon
        <5>. QED BY <2>4, <5>1, <5>2, Zenon
      <4>1. CASE i = k + 1
        BY <4>0, <4>1
      <4>2. CASE i # k + 1
        <5>1. k \in 1..n /\ i \in 1..k
          BY <1>0, <4>2
        <5>2. o[i] <= o[k] /\ o[i + 1] <= o[k + 1] /\ \A m \in 1..o[i + 1] : f[k][m] = f[i][m]
          BY <3>2, <5>1
        <5>3. o[(k + 1) + 1] = o[k + 1] + Len(ss[k + 1]) /\ \A m \in 1..o[k + 1] : f[k + 1][m] = f[k][m]
          <6>1. k + 1 # 1 /\ (k + 1) - 1 = k
            BY <5>1
          <6>. QED BY <2>6, <6>1
        <5>4. o[k + 1] = o[k] + Len(ss[k]) /\ o[k] \in Nat /\ Len(ss[k]) \in Nat
          <6>1. k \in 1..(n + 1)
            BY <1>0, <5>1
          <6>2. o[k] \in Nat /\ Len(ss[k]) \in Nat
            BY <1>0, <2>4, <5>1, <6>1
          <6>. QED BY <2>6, <5>1, <6>2, Zenon
        <5>5. o[i] <= o[k + 1] /\ o[i + 1] <= o[(k + 1) + 1]
          <6>1. o[k] <= o[k + 1] /\ o[k + 1] <= o[(k + 1) + 1]
            BY <4>0, <5>3, <5>4, LePlus, Zenon
          <6>2. o[i] <= o[k + 1]
            BY <4>0, <5>2, <5>4, <6>1, LeTransitive, Zenon
          <6>3. o[i + 1] <= o[(k + 1) + 1]
            BY <4>0, <5>2, <6>1, LeTransitive, Zenon
          <6>. QED BY <6>2, <6>3
        <5>6. \A m \in 1..o[i + 1] : m \in 1..o[k + 1]
          BY <4>0, <5>2
        <5>. QED BY <5>2, <5>3, <5>5, <5>6
      <4>. QED BY <4>1, <4>2
    <3>3. \A k \in Nat : k \in P
      <4>. HIDE DEF P
      <4>. QED BY <3>1, <3>2, SetInduction
    <3>4. Q(j)
      BY <1>0, <3>3
    <3>. QED BY <3>4
  <2>8. ASSUME NEW j \in 1..n, NEW m \in 1..o[j + 1]
        PROVE  \E i \in 1..j : \E k \in 1..Len(ss[i]) : m = o[i] + k
    <3>. DEFINE Q(l) == \A x \in 1..o[l + 1] : \E i \in 1..l : \E k \in 1..Len(ss[i]) : x = o[i] + k
                P == {l \in Nat : l \in 1..n => Q(l)}
    <3>1. 0 \in P
      OBVIOUS
    <3>2. ASSUME NEW l \in Nat, l \in P PROVE l + 1 \in P
      <4>. SUFFICES ASSUME l + 1 \in 1..n, NEW x \in 1..o[(l + 1) + 1]
                    PROVE  \E i \in 1..(l + 1) : \E k \in 1..Len(ss[i]) : x = o[i] + k
        OBVIOUS
      <4>0. /\ o[l + 1] \in Nat /\ Len(ss[l + 1]) \in Nat
            /\ o[(l + 1) + 1] = o[l + 1] + Len(ss[l + 1])
        <5>. HIDE DEF P, Q
        <5>1. l + 1 \in 1..n /\ l + 1 \in 1..(n + 1)
          BY <1>0
        <5>2. Len(ss[l + 1]) \in Nat
          BY <1>0, <5>1, Zenon
        <5>. QED BY <2>4, <2>6, <5>1, <5>2, Zenon
      <4>1. CASE x > o[l + 1]
        <5>1. x - o[l + 1] \in 1..Len(ss[l + 1]) /\ x = o[l + 1] + (x - o[l + 1])
          BY <4>0, <4>1
        <5>. QED BY <5>1
      <4>2. CASE x <= o[l + 1]
        <5>1. l # 0
          BY <2>5, <4>2
        <5>2. l \in 1..n /\ x \in 1..o[l + 1]
          BY <1>0, <4>0, <4>2, <5>1
        <5>3. \E i \in 1..l : \E k \in 1..Len(ss[i]) : x = o[i] + k
          BY <3>2, <5>2
        <5>. QED BY <5>3
      <4>. QED BY <4>0, <4>1, <4>2
    <3>3. \A l \in Nat : l \in P
      <4>. HIDE DEF P
      <4>. QED BY <3>1, <3>2, SetInduction
    <3>4. j \in Nat
      BY <1>0
    <3>5. Q(j)
      BY <3>3, <3>4, Zenon
    <3>. QED BY <3>5, Zenon
  <2>9. Placed(f[n], ss, o)
    <3>0. n \in 1..n /\ o[n + 1] = Len(f[n]) /\ n = Len(ss)
      BY <1>0, <1>2, <2>5 DEF n
    <3>1. \A i, j \in 1..(n + 1) : i <= j => o[i] <= o[j]
      <4>. SUFFICES ASSUME NEW i \in 1..(n + 1), NEW j \in 1..(n + 1), i <= j PROVE o[i] <= o[j]
        OBVIOUS
      <4>1. CASE j \in 1..n
        BY <1>0, <2>7, <4>1
      <4>2. CASE j = n + 1 /\ i = n + 1
        BY <2>4, <4>2
      <4>3. CASE j = n + 1 /\ i # n + 1
        <5>1. i \in 1..n /\ i \in 1..n
          BY <1>0, <4>3
        <5>2. o[i] <= o[n]
          BY <2>7, <3>0, <5>1
        <5>3. o[n + 1] = o[n] + Len(ss[n]) /\ Len(ss[n]) \in Nat /\ o[n] \in Nat /\ o[i] \in Nat
          <6>0. n \in 1..(n + 1)
            BY <1>0, <3>0
          <6>1. o[n] \in Nat /\ o[i] \in Nat
            BY <2>4, <6>0, Zenon
          <6>2. Len(ss[n]) \in Nat
            BY <1>0, <3>0, Zenon
          <6>. QED BY <2>6, <3>0, <6>1, <6>2, Zenon
        <5>. QED BY <4>3, <5>2, <5>3
      <4>. QED BY <1>0, <4>1, <4>2, <4>3
    <3>2. ASSUME NEW i \in 1..n, NEW k \in 1..Len(ss[i])
          PROVE  o[i] + k \in 1..Len(f[n]) /\ f[n][o[i] + k] = ss[i][k]
      <4>1. o[i] \in Nat /\ Len(ss[i]) \in Nat /\ o[i + 1] = o[i] + Len(ss[i])
              /\ o[i + 1] <= o[n + 1] /\ o[n + 1] \in Nat
        <5>1. o[i] \in Nat /\ o[n + 1] \in Nat
          BY <1>0, <2>4
        <5>2. Len(ss[i]) \in Nat
          BY <1>0, Zenon
        <5>3. i \in 1..n
          BY <1>0
        <5>. QED BY <2>6, <2>7, <3>0, <5>1, <5>2, <5>3, Zenon
      <4>2. o[i] + k \in 1..o[i + 1] /\ o[i] + k \in 1..o[n + 1]
        <5>1. o[i] + k \in 1..(o[i] + Len(ss[i]))
          BY <4>1, LePlus, Zenon
        <5>2. o[i + 1] \in Nat
          <6>1. i + 1 \in 1..(n + 1)
            BY <1>0
          <6>2. \A l \in 1..(n + 1) : o[l] \in Nat
            BY <2>4
          <6>. QED BY <6>1, <6>2, Zenon
        <5>3. o[i] + k \in 1..o[i + 1]
          BY <4>1, <5>1, Zenon
        <5>4. o[i] + k \in 1..o[n + 1]
          <6>. DEFINE a == o[i + 1]
                      b == o[n + 1]
          <6>1. a \in Nat /\ b \in Nat /\ a <= b /\ o[i] + k \in 1..a
            BY <4>1, <5>2, <5>3, Zenon
          <6>. HIDE DEF a, b
          <6>2. o[i] + k \in 1..b
            BY <6>1, LeRange
          <6>. QED BY <6>2, Zenon DEF b
        <5>. QED BY <5>3, <5>4
      <4>3. f[n][o[i] + k] = f[i][o[i] + k]
        BY <1>0, <2>7, <3>0, <4>2
      <4>. QED BY <2>6, <3>0, <4>2, <4>3
    <3>3. \A m \in 1..Len(f[n]) : \E i \in 1..n : \E k \in 1..Len(ss[i]) : m = o[i] + k
      <4>. SUFFICES ASSUME NEW m \in 1..o[n + 1]
                    PROVE  \E i \in 1..n : \E k \in 1..Len(ss[i]) : m = o[i] + k
        BY <3>0, Zenon
      <4>. QED BY <2>8, <3>0, Zenon
    <3>. QED BY <2>4, <2>5, <2>6, <3>0, <3>1, <3>2, <3>3 DEF Placed
  <2>10. f[n] \in Seq(S)
    BY <1>0, <1>2, <2>3
  <2>. QED BY <2>2, <2>9, <2>10
<1>. QED BY <1>1, <1>2

(* The least element of a set of numbers, and the first match in a sequence. *)
LEMMA MinOfNats ==
  ASSUME NEW S, S \subseteq Nat, S # {}
  PROVE  Min(S) \in S /\ \A y \in S : Min(S) <= y
<1>1. PICK m \in S : \A k \in S : <<k, m>> \notin OpToRel(<, Nat)
  BY WFMin, NatLessThanWellFounded, Zenon
<1>2. \A k \in S : ~(k < m)
  BY <1>1 DEF OpToRel
<1>3. \A k \in S : m <= k
  BY <1>2
<1>. QED BY <1>3, Zenon DEF Min

-----------------------------------------------------------------------------
(* The decoder. *)

(* The events transaction x may carry. *)
EventOf(x) == {e \in Event : e.name = "REQUESTED" => e.request.id = x}

Decoded == [id: TxIds, index: Nat, code: STRING, events: Seq(Event)]

DecodedAt(block, i) == decodeTransaction(block.data[i], i, validationCodeAt(block.filter, i))

(* A transaction at position i of a well-formed block is decoded with its    *)
(* id, its position, its verdict and the events of our chaincode.            *)
LEMMA DecodedTransaction ==
  ASSUME NEW block, WellFormed(block), NEW i \in DOMAIN block.data,
         IsTransaction(block.data[i])
  PROVE  /\ DecodedAt(block, i).id = block.data[i].tx /\ block.data[i].tx \in TxIds
         /\ DecodedAt(block, i).index = i
         /\ DecodedAt(block, i).code = block.filter[i]
         /\ DecodedAt(block, i).events \in Seq(EventOf(block.data[i].tx))
         /\ DecodedAt(block, i).events = <<>> <=> OurEvent(block.data[i]) = Nil
         /\ DecodedAt(block, i) \in Decoded
<1>. DEFINE envelope == block.data[i]
            actions == envelope.actions
            x == envelope.tx
            parts == [j \in DOMAIN actions |-> decodeAction(actions[j])]
<1>1. /\ block.data \in Seq(RawEnvelope) /\ block.filter \in Seq(STRING)
      /\ Len(block.filter) = Len(block.data) /\ x \in TxIds
  BY DEF WellFormed, RawBlock
<1>2. i \in 1..Len(block.data) /\ Len(block.data) \in Nat /\ i \in Nat
  BY <1>1, LenProperties
<1>3. i \in DOMAIN block.filter /\ block.filter[i] \in STRING
  BY <1>1, <1>2, LenProperties
<1>4. envelope \in RawEnvelope
  BY <1>1, <1>2
<1>5. actions \in Seq([chaincode: STRING, events: Seq(Event)])
  <2>. HIDE DEF envelope
  <2>. QED BY <1>4 DEF RawEnvelope
<1>6. \A j \in DOMAIN actions : decodeAction(actions[j]) \in Seq(EventOf(x))
  <2>. SUFFICES ASSUME NEW j \in DOMAIN actions PROVE decodeAction(actions[j]) \in Seq(EventOf(x))
    OBVIOUS
  <2>1. j \in 1..Len(actions)
    BY <1>5, LenProperties
  <2>2. actions[j] \in [chaincode: STRING, events: Seq(Event)]
    <3>. HIDE DEF actions
    <3>. QED BY <1>5, <2>1, ElementOfSeq
  <2>. DEFINE action == actions[j]
  <2>3. action.events \in Seq(Event)
    <3>. HIDE DEF actions
    <3>. QED BY <2>2
  <2>4. CASE action.chaincode = ChaincodeName
    <3>1. action \in Range(actions)
      BY DEF Range
    <3>2. \A e \in Range(action.events) : e.name = "REQUESTED" => e.request.id = x
      BY <2>4, <3>1 DEF WellFormed
    <3>. DEFINE es == action.events
    <3>3. es \in Seq(Event) /\ \A e \in Range(es) : e.name = "REQUESTED" => e.request.id = x
      BY <2>3, <3>2
    <3>. HIDE DEF action, x, es
    <3>4. DOMAIN es = 1..Len(es) /\ Len(es) \in Nat /\ es \in [1..Len(es) -> Event]
      BY <3>3, LenProperties
    <3>5. es \in [1..Len(es) -> EventOf(x)]
      <4>1. \A k \in 1..Len(es) : es[k] \in EventOf(x)
        BY <3>3, <3>4 DEF Range, EventOf
      <4>. QED BY <3>4, <4>1
    <3>6. es \in Seq(EventOf(x))
      BY <3>4, <3>5, SeqDef
    <3>. QED BY <2>4, <3>6 DEF decodeAction, action, es
  <2>5. CASE action.chaincode # ChaincodeName
    BY <2>5, EmptySeq DEF decodeAction
  <2>. QED BY <2>4, <2>5
<1>7. parts \in Seq(Seq(EventOf(x))) /\ Len(parts) = Len(actions) /\ DOMAIN parts = DOMAIN actions
  <2>1. DOMAIN actions = 1..Len(actions) /\ Len(actions) \in Nat
    BY <1>5, LenProperties
  <2>. HIDE DEF actions, x
  <2>2. parts \in [1..Len(actions) -> Seq(EventOf(x))]
    BY <1>6, <2>1
  <2>. HIDE DEF parts
  <2>. QED BY <2>1, <2>2, SeqDef, LenProperties
<1>8. DecodedAt(block, i).events = FlattenSeq(parts)
  BY DEF DecodedAt, decodeTransaction
<1>9. FlattenSeq(parts) \in Seq(EventOf(x)) /\ \E o : Placed(FlattenSeq(parts), parts, o)
  BY <1>7, FlattenPositions
<1>10. FlattenSeq(parts) = <<>> <=> OurEvent(envelope) = Nil
  <2>. DEFINE ours == {j \in DOMAIN actions : actions[j].chaincode = ChaincodeName
                                                /\ actions[j].events # <<>>}
  <2>1. OurEvent(envelope) = IF ours = {} THEN Nil ELSE actions[Min(ours)].events[1]
    BY Zenon DEF OurEvent
  <2>2. \A j \in DOMAIN actions : j \in ours <=> parts[j] # <<>>
    BY DEF decodeAction
  <2>3. DOMAIN actions = 1..Len(actions) /\ Len(actions) \in Nat
    BY <1>5, LenProperties
  <2>4. CASE ours = {}
    <3>1. \A j \in 1..Len(parts) : parts[j] = <<>>
      BY <1>7, <2>2, <2>3, <2>4
    <3>2. PICK o : Placed(FlattenSeq(parts), parts, o)
      BY <1>9
    <3>. HIDE DEF parts
    <3>3. 1..Len(FlattenSeq(parts)) = {}
      <4>. SUFFICES ASSUME NEW m \in 1..Len(FlattenSeq(parts)) PROVE FALSE
        OBVIOUS
      <4>0. PICK j \in 1..Len(parts) : \E k \in 1..Len(parts[j]) : m = o[j] + k
        BY <3>2, Zenon DEF Placed
      <4>1. PICK k \in 1..Len(parts[j]) : m = o[j] + k
        BY <4>0
      <4>2. k \in 1..0
        BY <3>1, <4>1
      <4>. QED BY <4>2
    <3>4. FlattenSeq(parts) = <<>>
      <4>. DEFINE q == FlattenSeq(parts)
      <4>1. q \in Seq(EventOf(x)) /\ 1..Len(q) = {}
        BY <1>9, <3>3
      <4>. HIDE DEF q
      <4>2. Len(q) \in Nat /\ ~(Len(q) \in Nat \ {0})
        <5>1. Len(q) \in Nat
          BY <4>1, LenProperties
        <5>2. Len(q) # 0 => 1 \in 1..Len(q)
          BY <5>1
        <5>. QED BY <4>1, <5>1, <5>2
      <4>3. q = <<>>
        BY <4>1, <4>2, EmptySeq
      <4>. QED BY <4>3 DEF q
    <3>. QED BY <2>1, <2>4, <3>4
  <2>5. CASE ours # {}
    <3>1. ours \subseteq Nat
      BY <2>3
    <3>2. Min(ours) \in ours
      BY <2>5, <3>1, MinOfNats
    <3>3. PICK j : j = Min(ours)
      OBVIOUS
    <3>4. j \in 1..Len(actions) /\ actions[j].events # <<>> /\ parts[j] # <<>> /\ j \in 1..Len(parts)
      BY <1>7, <2>2, <2>3, <3>2, <3>3
    <3>5. actions[j].events[1] \in Event
      <4>1. actions[j].events \in Seq(Event)
        <5>. HIDE DEF actions
        <5>1. actions[j] \in [chaincode: STRING, events: Seq(Event)]
          BY <1>5, <3>4, ElementOfSeq
        <5>. QED BY <5>1
      <4>. DEFINE es == actions[j].events
      <4>2. es \in Seq(Event) /\ es # <<>>
        BY <3>4, <4>1
      <4>. HIDE DEF es
      <4>3. 1 \in 1..Len(es)
        BY <4>2, EmptySeq
      <4>4. es[1] \in Event
        BY <4>2, <4>3, ElementOfSeq
      <4>. QED BY <4>4 DEF es
    <3>6. OurEvent(envelope) # Nil
      BY <2>1, <2>5, <3>3, <3>5, NilAssumption, Zenon
    <3>7. FlattenSeq(parts) # <<>>
      <4>1. PICK o : Placed(FlattenSeq(parts), parts, o)
        BY <1>9
      <4>. HIDE DEF parts
      <4>2. parts[j] \in Seq(EventOf(x))
        BY <1>7, <3>4, ElementOfSeq
      <4>3. 1 \in 1..Len(parts[j])
        BY <3>4, <4>2, EmptySeq
      <4>4. o[j] + 1 \in 1..Len(FlattenSeq(parts))
        BY <3>4, <4>1, <4>3 DEF Placed
      <4>. QED BY <4>4
    <3>. QED BY <3>6, <3>7
  <2>. QED BY <2>4, <2>5
<1>11. DecodedAt(block, i).code = block.filter[i]
  BY <1>3 DEF DecodedAt, decodeTransaction, validationCodeAt
<1>12. DecodedAt(block, i) \in Decoded
  <2>1. EventOf(x) \subseteq Event
    BY DEF EventOf
  <2>2. FlattenSeq(parts) \in Seq(Event)
    BY <1>9, <2>1, SeqMonotonic
  <2>3. DecodedAt(block, i) =
          [id |-> x, index |-> i, code |-> block.filter[i], events |-> FlattenSeq(parts)]
    BY <1>3 DEF DecodedAt, decodeTransaction, validationCodeAt
  <2>. HIDE DEF x, parts
  <2>. QED BY <1>1, <1>2, <1>3, <2>2, <2>3 DEF Decoded
<1>. QED
  BY <1>1, <1>8, <1>9, <1>10, <1>11, <1>12 DEF DecodedAt, decodeTransaction

(* decodeBlock yields the transactions of the block, all of them, in order   *)
(* of position.                                                              *)
LEMMA DecodedBlock ==
  ASSUME NEW block, WellFormed(block), NEW ts, ts = decodeBlock(block)
  PROVE  /\ ts \in Seq(Decoded)
         /\ \A m \in 1..Len(ts) :
              /\ ts[m].index \in DOMAIN block.data /\ IsTransaction(block.data[ts[m].index])
              /\ ts[m] = DecodedAt(block, ts[m].index)
         /\ \A i \in DOMAIN block.data : IsTransaction(block.data[i]) =>
              \E m \in 1..Len(ts) : ts[m] = DecodedAt(block, i)
         /\ \A m, n \in 1..Len(ts) : m < n => ts[m].index < ts[n].index
<1>. DEFINE part(i) == IF IsTransaction(block.data[i]) THEN <<DecodedAt(block, i)>> ELSE <<>>
            parts == [i \in DOMAIN block.data |-> part(i)]
<1>1. /\ DOMAIN block.data = 1..Len(block.data) /\ Len(block.data) \in Nat
  <2>1. block.data \in Seq(RawEnvelope)
    BY DEF WellFormed, RawBlock
  <2>. QED BY <2>1, LenProperties
<1>2. \A i \in DOMAIN block.data : IsTransaction(block.data[i]) =>
        DecodedAt(block, i) \in Decoded /\ DecodedAt(block, i).index = i
  BY DecodedTransaction
<1>3. \A i \in DOMAIN block.data : part(i) \in Seq(Decoded)
  BY <1>2
<1>4. parts \in Seq(Seq(Decoded)) /\ Len(parts) = Len(block.data)
  <2>. HIDE DEF part
  <2>1. parts \in [1..Len(block.data) -> Seq(Decoded)]
    BY <1>1, <1>3
  <2>. HIDE DEF parts
  <2>. QED BY <1>1, <2>1, SeqDef, LenProperties
<1>5. ts = FlattenSeq(parts)
  BY DEF decodeBlock, DecodedAt
<1>6. ts \in Seq(Decoded) /\ \E o : Placed(ts, parts, o)
  BY <1>4, <1>5, FlattenPositions
<1>7. PICK o : Placed(ts, parts, o)
  BY <1>6
<1>8. \A i \in 1..Len(parts) : parts[i] = part(i)
  BY <1>1, <1>4
<1>. HIDE DEF parts
<1>9. ASSUME NEW m \in 1..Len(ts)
      PROVE  \E i \in 1..Len(parts) : /\ m = o[i] + 1 /\ IsTransaction(block.data[i])
                                      /\ ts[m] = DecodedAt(block, i)
  <2>1. PICK i \in 1..Len(parts) : \E k \in 1..Len(parts[i]) : m = o[i] + k
    BY <1>7, Zenon DEF Placed
  <2>2. PICK k \in 1..Len(parts[i]) : m = o[i] + k
    BY <2>1
  <2>3. IsTransaction(block.data[i]) /\ k = 1 /\ parts[i] = <<DecodedAt(block, i)>>
    <3>1. parts[i] = part(i)
      BY <1>8
    <3>2. CASE ~IsTransaction(block.data[i])
      <4>1. Len(parts[i]) = 0
        BY <3>1, <3>2
      <4>. QED BY <4>1
    <3>3. CASE IsTransaction(block.data[i])
      <4>1. parts[i] = <<DecodedAt(block, i)>>
        BY <3>1, <3>3
      <4>2. Len(parts[i]) = 1
        BY <4>1
      <4>. QED BY <3>3, <4>1, <4>2
    <3>. QED BY <3>2, <3>3
  <2>4. ts[m] = parts[i][1]
    BY <1>7, <2>2, <2>3, Zenon DEF Placed
  <2>. QED BY <2>2, <2>3, <2>4
<1>10. ASSUME NEW m \in 1..Len(ts)
       PROVE  /\ ts[m].index \in 1..Len(parts) /\ IsTransaction(block.data[ts[m].index])
              /\ ts[m] = DecodedAt(block, ts[m].index) /\ m = o[ts[m].index] + 1
  <2>1. PICK i \in 1..Len(parts) : /\ m = o[i] + 1 /\ IsTransaction(block.data[i])
                                   /\ ts[m] = DecodedAt(block, i)
    BY <1>9
  <2>2. i \in DOMAIN block.data
    BY <1>1, <1>4
  <2>3. ts[m].index = i
    BY <1>2, <2>1, <2>2
  <2>. QED BY <2>1, <2>3
<1>11. ASSUME NEW i \in DOMAIN block.data, IsTransaction(block.data[i])
       PROVE  \E m \in 1..Len(ts) : ts[m] = DecodedAt(block, i)
  <2>1. i \in 1..Len(parts)
    BY <1>1, <1>4
  <2>2. parts[i] = <<DecodedAt(block, i)>>
    BY <1>8, <1>11, <2>1
  <2>3. 1 \in 1..Len(parts[i]) /\ parts[i][1] = DecodedAt(block, i)
    BY <2>2
  <2>4. o[i] + 1 \in 1..Len(ts) /\ ts[o[i] + 1] = parts[i][1]
    BY <1>7, <2>1, <2>3, Zenon DEF Placed
  <2>. QED BY <2>3, <2>4
<1>12. ASSUME NEW m \in 1..Len(ts), NEW n \in 1..Len(ts), m < n
       PROVE  ts[m].index < ts[n].index
  <2>. DEFINE i == ts[m].index
              j == ts[n].index
  <2>1. i \in 1..Len(parts) /\ j \in 1..Len(parts) /\ m = o[i] + 1 /\ n = o[j] + 1
    BY <1>10
  <2>2. Len(parts) \in Nat
    BY <1>1, <1>4
  <2>. HIDE DEF i, j
  <2>3. i \in Nat /\ j \in Nat /\ i \in 1..(Len(parts) + 1) /\ j \in 1..(Len(parts) + 1)
    BY <2>1, <2>2
  <2>4. j <= i => o[j] <= o[i]
    BY <1>7, <2>3, Zenon DEF Placed
  <2>5. o[i] \in Nat /\ o[j] \in Nat
    <3>1. o \in [1..(Len(parts) + 1) -> Nat]
      BY <1>7, Zenon DEF Placed
    <3>. QED BY <2>3, <3>1
  <2>6. ~(j <= i)
    BY <1>12, <2>1, <2>4, <2>5
  <2>7. i < j
    BY <2>3, <2>6
  <2>. QED BY <2>7 DEF i, j
<1>. QED BY <1>1, <1>4, <1>6, <1>10, <1>11, <1>12

-----------------------------------------------------------------------------
(* The calls of one event.                                                   *)

Row == [type: {"TRANSFER", "ENCUMBRANCE", "UNENCUMBRANCE"}, status: {"requested"},
        requestedBy: Identities, owner: Identities \cup Users,
        counterparty: Identities \cup Users \cup {Nil}]

(* What materialize may make of an event of transaction x.  A request is     *)
(* filed under the id of its transaction.                                    *)
Projecting(x) ==
  [do: {"ResolveFabricIdentity"}, identity: Identities]
    \cup [do: {"canonicalizePayload"}, field: {"owner", "counterparty"}, identity: Identities]
    \cup [do: {"UpsertBalanceDelta"}, owner: Identities \cup {Nil}, token: Tokens,
          available: Int, encumbered: Int]
    \cup [do: {"UpsertTokenPrice"}, token: Tokens, price: Int]
    \cup [do: {"InsertOperationFromEvent"}, id: {x}, row: Row]
    \cup [do: {"SetOperationStatus"}, id: TxIds, status: {"committed", "cancelled"}]
    \cup [do: {"InsertEncumbrance"}, id: TxIds, owner: Identities, token: Tokens, amount: Int]
    \cup [do: {"ReleaseEncumbrance"}, id: TxIds]
    \cup [do: {"InsertAuditTrail"}, id: TxIds, status: {"committed", "cancelled"}, tx: {x}]

(* Those of event e: the only status it may set is that of its own decision. *)
Plain(x) == {c \in Projecting(x) : c.do # "SetOperationStatus"}
Decisive(e) == e.name \in {"APPROVED", "REJECTED"}
StatusOfEvent(e) == Status(e.request, e.request.status)
ProjectingOf(e, x) == Plain(x) \cup {c \in {StatusOfEvent(e)} : Decisive(e)}

Projections == Writes \cup {"ResolveFabricIdentity", "canonicalizePayload"}

SaveEventOf(x) == [do |-> "SaveEvent", tx |-> x]
MarkOf(x) == [do |-> "MarkEventProcessed", tx |-> x]

LEMMA ProjectingDo == ASSUME NEW x, NEW c \in Projecting(x) PROVE c.do \in Projections
  BY DEF Projecting, Projections, Writes

LEMMA ConcatOf ==
  ASSUME NEW S, NEW a \in Seq(S), NEW b \in Seq(S)
  PROVE  a \o b \in Seq(S)
  BY ConcatProperties

(* A request of an event is a record of the right kind. *)
LEMMA RequestOf ==
  ASSUME NEW e \in Event, e.name \in {"REQUESTED", "APPROVED", "REJECTED"}
  PROVE  /\ e.request \in Request(e.request.status)
         /\ e.name = "REQUESTED" => e.request.status = "requested"
         /\ e.name = "APPROVED" => e.request.status = "committed"
         /\ e.name = "REJECTED" => e.request.status = "cancelled"
<1>1. CASE e.name = "REQUESTED"
  <2>1. e \in [name: {"REQUESTED"}, request: Request("requested")]
    BY <1>1 DEF Event
  <2>. QED BY <1>1, <2>1 DEF Request
<1>2. CASE e.name = "APPROVED"
  <2>1. e \in [name: {"APPROVED"}, request: Request("committed")]
    BY <1>2 DEF Event
  <2>. QED BY <1>2, <2>1 DEF Request
<1>3. CASE e.name = "REJECTED"
  <2>1. e \in [name: {"REJECTED"}, request: Request("cancelled")]
    BY <1>3 DEF Event
  <2>. QED BY <1>3, <2>1 DEF Request
<1>. QED BY <1>1, <1>2, <1>3

LEMMA EventNames ==
  ASSUME NEW e \in Event
  PROVE  \/ e.name \in {"MINT", "BURN"} /\ e.owner \in Identities /\ e.token \in Tokens
            /\ e.amount \in Int
         \/ e.name = "NAV_UPDATED" /\ e.token \in Tokens /\ e.price \in Int
         \/ e.name \in {"REQUESTED", "APPROVED", "REJECTED"}
  BY DEF Event

(* The kinds of calls, for any transaction. *)
LEMMA ProjectingCalls ==
  ASSUME NEW x
  PROVE  /\ \A i \in Identities : Resolve(i) \in Plain(x)
         /\ \A i \in Identities, f \in {"owner", "counterparty"} : Canonicalize(f, i) \in Plain(x)
         /\ \A i \in Identities \cup {Nil}, t \in Tokens, a, b \in Int :
              Delta(i, t, a, b) \in Plain(x)
         /\ \A t \in Tokens, a \in Int :
              [do |-> "UpsertTokenPrice", token |-> t, price |-> a] \in Plain(x)
         /\ \A i \in Identities, id \in TxIds, t \in Tokens, a \in Int :
              [do |-> "InsertEncumbrance", id |-> id, owner |-> i, token |-> t, amount |-> a]
                \in Plain(x)
         /\ \A id \in TxIds : [do |-> "ReleaseEncumbrance", id |-> id] \in Plain(x)
<1>1. \A i \in Identities : Resolve(i) \in Plain(x)
  BY DEF Resolve, Plain, Projecting
<1>2. \A i \in Identities, f \in {"owner", "counterparty"} : Canonicalize(f, i) \in Plain(x)
  BY DEF Canonicalize, Plain, Projecting
<1>3. \A i \in Identities \cup {Nil}, t \in Tokens, a, b \in Int : Delta(i, t, a, b) \in Plain(x)
  BY DEF Delta, Plain, Projecting
<1>4. \A t \in Tokens, a \in Int :
        [do |-> "UpsertTokenPrice", token |-> t, price |-> a] \in Plain(x)
  BY DEF Plain, Projecting
<1>5. \A i \in Identities, id \in TxIds, t \in Tokens, a \in Int :
        [do |-> "InsertEncumbrance", id |-> id, owner |-> i, token |-> t, amount |-> a]
          \in Plain(x)
  BY DEF Plain, Projecting
<1>6. \A id \in TxIds : [do |-> "ReleaseEncumbrance", id |-> id] \in Plain(x)
  BY DEF Plain, Projecting
<1>. QED BY <1>1, <1>2, <1>3, <1>4, <1>5, <1>6

(* Those of a request r. *)
LEMMA RequestCalls ==
  ASSUME NEW x \in TxIds, NEW status \in {"requested", "committed", "cancelled"},
         NEW r \in Request(status)
  PROVE  /\ r.owner \in Identities /\ r.requestedBy \in Identities
         /\ r.counterparty \in Identities \cup {Nil} /\ r.token \in Tokens /\ r.amount \in Int
         /\ r.type \in {"TRANSFER", "ENCUMBRANCE", "UNENCUMBRANCE"} /\ r.id \in TxIds
         /\ r.status = status
         /\ r.id = x => InsertOperation(r) \in Plain(x)
         /\ Status(r, "committed") \in Projecting(x) /\ Status(r, "cancelled") \in Projecting(x)
         /\ status # "requested" => Audit(r, x) \in Plain(x)
<1>1. /\ r.owner \in Identities /\ r.requestedBy \in Identities
      /\ r.counterparty \in Identities \cup {Nil} /\ r.token \in Tokens /\ r.amount \in Int
      /\ r.type \in {"TRANSFER", "ENCUMBRANCE", "UNENCUMBRANCE"} /\ r.id \in TxIds
      /\ r.status = status
  BY DEF Request
<1>2. r.id = x => InsertOperation(r) \in Plain(x)
  <2>. DEFINE row == [type |-> r.type, status |-> "requested", requestedBy |-> r.requestedBy,
                      owner |-> r.owner, counterparty |-> r.counterparty]
  <2>1. row \in Row
    BY <1>1 DEF Row
  <2>2. InsertOperation(r) = [do |-> "InsertOperationFromEvent", id |-> r.id, row |-> row]
    BY DEF InsertOperation
  <2>. HIDE DEF row
  <2>. QED BY <2>1, <2>2 DEF Plain, Projecting
<1>3. Status(r, "committed") \in Projecting(x) /\ Status(r, "cancelled") \in Projecting(x)
  BY <1>1 DEF Status, Projecting
<1>4. status # "requested" => Audit(r, x) \in Plain(x)
  BY <1>1 DEF Audit, Plain, Projecting
<1>. QED BY <1>1, <1>2, <1>3, <1>4

(* Every statement of materialize is one of these. *)
LEMMA Materialized ==
  ASSUME NEW x \in TxIds, NEW e \in EventOf(x)
  PROVE  materialize(e, x) \in Seq(ProjectingOf(e, x))
<1>0. e \in Event /\ (e.name = "REQUESTED" => e.request.id = x)
  BY DEF EventOf
<1>. DEFINE P == ProjectingOf(e, x)
            r == e.request
<1>6. \A c \in Plain(x) : c \in P
  BY DEF ProjectingOf
<1>7. Decisive(e) => Status(r, r.status) \in P
  BY DEF ProjectingOf, StatusOfEvent
<1>1. CASE e.name \in {"MINT", "BURN"}
  <2>1. e.owner \in Identities /\ e.token \in Tokens /\ e.amount \in Int
    BY <1>0, <1>1, EventNames
  <2>2. ASSUME NEW sign \in {1, -1} PROVE applyBalanceEvent(e, sign) \in Seq(P)
    <3>1. sign * e.amount \in Int
      BY <2>1
    <3>2. Resolve(e.owner) \in P /\ Delta(e.owner, e.token, sign * e.amount, 0) \in P
      BY <2>1, <3>1, <1>6, ProjectingCalls
    <3>. HIDE DEF P
    <3>. QED BY <3>2 DEF applyBalanceEvent
  <2>3. materialize(e, x) = applyBalanceEvent(e, 1) \/ materialize(e, x) = applyBalanceEvent(e, -1)
    BY <1>1 DEF materialize
  <2>. QED BY <2>2, <2>3
<1>2. CASE e.name = "NAV_UPDATED"
  <2>1. [do |-> "UpsertTokenPrice", token |-> e.token, price |-> e.price] \in P
    BY <1>0, <1>2, EventNames, <1>6, ProjectingCalls
  <2>2. materialize(e, x) = applyNAV(e)
    BY <1>2 DEF materialize
  <2>. HIDE DEF P
  <2>3. applyNAV(e) \in Seq(P)
    BY <2>1 DEF applyNAV
  <2>. QED BY <2>2, <2>3 DEF P
<1>3. CASE e.name = "REQUESTED"
  <2>0. r \in Request("requested") /\ r.id = x
    BY <1>0, <1>3, RequestOf
  <2>1. materialize(e, x) = applyRequested(r)
    BY <1>3 DEF materialize
  <2>2. r.owner \in Identities /\ r.requestedBy \in Identities /\ r.counterparty \in Identities \cup {Nil}
    BY <2>0, RequestCalls
  <2>3. Resolve(r.requestedBy) \in P /\ Canonicalize("owner", r.owner) \in P
    BY <2>2, <1>6, ProjectingCalls
  <2>4. ForCounterparty(r, Canonicalize("counterparty", r.counterparty)) \in Seq(P)
    <3>1. r.counterparty # Nil => Canonicalize("counterparty", r.counterparty) \in P
      BY <2>2, <1>6, ProjectingCalls
    <3>. HIDE DEF P
    <3>. QED BY <3>1 DEF ForCounterparty
  <2>5. InsertOperation(r) \in P
    BY <1>6, <2>0, RequestCalls
  <2>. HIDE DEF P
  <2>6. /\ <<Resolve(r.requestedBy), Canonicalize("owner", r.owner)>> \in Seq(P)
        /\ <<InsertOperation(r)>> \in Seq(P)
    BY <2>3, <2>5
  <2>7. <<Resolve(r.requestedBy), Canonicalize("owner", r.owner)>>
          \o ForCounterparty(r, Canonicalize("counterparty", r.counterparty)) \in Seq(P)
    BY <2>4, <2>6, ConcatOf
  <2>8. applyRequested(r) \in Seq(P)
    BY <2>6, <2>7, ConcatOf, Zenon DEF applyRequested
  <2>. QED BY <2>1, <2>8 DEF P
<1>4. CASE e.name = "APPROVED"
  <2>0. r \in Request("committed")
    BY <1>0, <1>4, RequestOf
  <2>1. materialize(e, x) = applyApproved(r, x)
    BY <1>4 DEF materialize
  <2>2. /\ r.owner \in Identities /\ r.counterparty \in Identities \cup {Nil} /\ r.token \in Tokens
        /\ r.amount \in Int /\ -r.amount \in Int /\ r.id \in TxIds
        /\ r.type \in {"TRANSFER", "ENCUMBRANCE", "UNENCUMBRANCE"}
    <3>1. /\ r.owner \in Identities /\ r.counterparty \in Identities \cup {Nil} /\ r.token \in Tokens
          /\ r.amount \in Int /\ r.id \in TxIds
          /\ r.type \in {"TRANSFER", "ENCUMBRANCE", "UNENCUMBRANCE"}
      BY <2>0, RequestCalls
    <3>. QED BY <3>1
  <2>3. /\ Resolve(r.owner) \in P /\ Status(r, "committed") \in P /\ Audit(r, x) \in P
        /\ r.counterparty # Nil => Resolve(r.counterparty) \in P
    <3>1. r.status = "committed" /\ Audit(r, x) \in Plain(x)
      BY <2>0, RequestCalls
    <3>2. Status(r, "committed") \in P
      BY <1>4, <1>7, <3>1 DEF Decisive
    <3>. QED BY <2>2, <1>6, <3>1, <3>2, ProjectingCalls
  <2>4. applyMovement(r) \in Seq(P)
    <3>1. CASE r.type = "TRANSFER"
      <4>1. /\ Delta(r.owner, r.token, -r.amount, 0) \in P
            /\ Delta(r.counterparty, r.token, r.amount, 0) \in P
        <5>1. r.owner \in Identities \cup {Nil} /\ 0 \in Int
          BY <2>2
        <5>2. Delta(r.owner, r.token, -r.amount, 0) \in P
          BY <2>2, <5>1, <1>6, ProjectingCalls, Zenon
        <5>3. Delta(r.counterparty, r.token, r.amount, 0) \in P
          BY <2>2, <5>1, <1>6, ProjectingCalls, Zenon
        <5>. QED BY <5>2, <5>3
      <4>2. applyMovement(r) =
              <<Delta(r.owner, r.token, -r.amount, 0), Delta(r.counterparty, r.token, r.amount, 0)>>
        BY <3>1 DEF applyMovement
      <4>. HIDE DEF P
      <4>. QED BY <4>1, <4>2
    <3>2. CASE r.type = "ENCUMBRANCE"
      <4>. DEFINE c == [do |-> "InsertEncumbrance", id |-> r.id, owner |-> r.owner,
                        token |-> r.token, amount |-> r.amount]
      <4>0. c \in P
        BY <2>2, <1>6, ProjectingCalls, Zenon
      <4>1. Delta(r.owner, r.token, -r.amount, r.amount) \in P
        <5>1. r.owner \in Identities \cup {Nil}
          BY <2>2
        <5>. QED BY <2>2, <5>1, <1>6, ProjectingCalls, Zenon
      <4>2. applyMovement(r) = <<Delta(r.owner, r.token, -r.amount, r.amount), c>>
        BY <3>2 DEF applyMovement
      <4>. HIDE DEF P, c
      <4>. QED BY <4>0, <4>1, <4>2
    <3>3. CASE r.type = "UNENCUMBRANCE"
      <4>. DEFINE c == [do |-> "ReleaseEncumbrance", id |-> r.id]
      <4>1. Delta(r.owner, r.token, r.amount, -r.amount) \in P /\ c \in P
        BY <2>2, <1>6, ProjectingCalls
      <4>2. applyMovement(r) = <<Delta(r.owner, r.token, r.amount, -r.amount), c>>
        BY <3>3 DEF applyMovement
      <4>. HIDE DEF P, c
      <4>. QED BY <4>1, <4>2
    <3>. QED BY <2>2, <3>1, <3>2, <3>3
  <2>. HIDE DEF P
  <2>5. ForCounterparty(r, Resolve(r.counterparty)) \in Seq(P)
    BY <2>3 DEF ForCounterparty
  <2>6. <<Resolve(r.owner)>> \in Seq(P) /\ <<Status(r, "committed")>> \in Seq(P)
          /\ <<Audit(r, x)>> \in Seq(P)
    BY <2>3
  <2>7. <<Resolve(r.owner)>> \o ForCounterparty(r, Resolve(r.counterparty)) \in Seq(P)
    BY <2>5, <2>6, ConcatOf, Zenon
  <2>8. <<Resolve(r.owner)>> \o ForCounterparty(r, Resolve(r.counterparty))
          \o <<Status(r, "committed")>> \in Seq(P)
    BY <2>6, <2>7, ConcatOf, Zenon
  <2>9. <<Resolve(r.owner)>> \o ForCounterparty(r, Resolve(r.counterparty))
          \o <<Status(r, "committed")>> \o applyMovement(r) \in Seq(P)
    BY <2>4, <2>8, ConcatOf, Zenon
  <2>10. applyApproved(r, x) \in Seq(P)
    BY <2>6, <2>9, ConcatOf, Zenon DEF applyApproved
  <2>. QED BY <2>1, <2>10 DEF P
<1>5. CASE e.name = "REJECTED"
  <2>0. r \in Request("cancelled")
    BY <1>0, <1>5, RequestOf
  <2>1. materialize(e, x) = applyRejected(r, x)
    BY <1>5 DEF materialize
  <2>2. Status(r, "cancelled") \in P /\ Audit(r, x) \in P
    <3>1. r.status = "cancelled" /\ Audit(r, x) \in Plain(x)
      BY <2>0, RequestCalls
    <3>. QED BY <1>5, <1>6, <1>7, <3>1 DEF Decisive
  <2>. HIDE DEF P
  <2>3. applyRejected(r, x) \in Seq(P)
    BY <2>2 DEF applyRejected
  <2>. QED BY <2>1, <2>3 DEF P
<1>. QED BY <1>0, <1>1, <1>2, <1>3, <1>4, <1>5, EventNames

LEMMA ProjectingOfEvent ==
  ASSUME NEW x \in TxIds, NEW e \in EventOf(x)
  PROVE  ProjectingOf(e, x) \subseteq Projecting(x)
<1>1. ASSUME Decisive(e) PROVE StatusOfEvent(e) \in Projecting(x)
  <2>1. e \in Event
    BY DEF EventOf
  <2>2. e.request \in Request(e.request.status) /\ e.request.status \in {"committed", "cancelled"}
    BY <1>1, <2>1, RequestOf DEF Decisive
  <2>. DEFINE r == e.request
  <2>3. r \in Request(r.status) /\ r.status \in {"committed", "cancelled"}
    BY <2>2
  <2>. HIDE DEF r
  <2>4. Status(r, r.status) \in Projecting(x)
    BY <2>3, RequestCalls
  <2>. QED BY <2>4 DEF StatusOfEvent, r
<1>. QED BY <1>1 DEF ProjectingOf, Plain

EventCall(x) == Projecting(x) \cup {SaveEventOf(x), MarkOf(x)}

(* An event is saved first and marked processed last; its projection is in   *)
(* between.                                                                  *)
LEMMA EventCallsAt ==
  ASSUME NEW x \in TxIds, NEW e \in EventOf(x), NEW q, q = EventCalls(e, x)
  PROVE  /\ q \in Seq(EventCall(x)) /\ Len(q) \in Nat /\ 2 <= Len(q)
         /\ q[1] = SaveEventOf(x) /\ q[Len(q)] = MarkOf(x)
         /\ \A k \in 2..(Len(q) - 1) : q[k] \in Projecting(x)
<1>. DEFINE C == EventCall(x)
            m == materialize(e, x)
            first == <<SaveEventOf(x)>>
            last == <<MarkOf(x)>>
<1>1. m \in Seq(Projecting(x))
  <2>1. m \in Seq(ProjectingOf(e, x)) /\ ProjectingOf(e, x) \subseteq Projecting(x)
    BY Materialized, ProjectingOfEvent
  <2>. HIDE DEF m
  <2>. QED BY <2>1, SeqMonotonic
<1>2. m \in Seq(C)
  <2>1. Projecting(x) \subseteq C
    BY DEF EventCall
  <2>. HIDE DEF C, m
  <2>. QED BY <1>1, <2>1, SeqMonotonic
<1>3. q = first \o m \o last
  BY DEF EventCalls, SaveEventOf, MarkOf
<1>4. first \in Seq(C) /\ last \in Seq(C) /\ Len(first) = 1 /\ Len(last) = 1
        /\ first[1] = SaveEventOf(x) /\ last[1] = MarkOf(x)
  <2>1. SaveEventOf(x) \in C /\ MarkOf(x) \in C
    BY DEF EventCall
  <2>. HIDE DEF C
  <2>. QED BY <2>1
<1>5. Len(m) \in Nat /\ \A k \in 1..Len(m) : m[k] \in Projecting(x)
  <2>. HIDE DEF m
  <2>. QED BY <1>1, LenProperties, ElementOfSeq
<1>. DEFINE fm == first \o m
<1>. HIDE DEF C, m, first, last
<1>6. /\ fm \in Seq(C) /\ Len(fm) = 1 + Len(m)
      /\ \A k \in 1..(Len(first) + Len(m)) :
           fm[k] = IF k <= Len(first) THEN first[k] ELSE m[k - Len(first)]
  <2>1. Len(fm) = Len(first) + Len(m)
    BY <1>2, <1>4, ConcatProperties
  <2>. QED BY <1>2, <1>4, <2>1, ConcatProperties
<1>. HIDE DEF fm
<1>7. /\ q \in Seq(C) /\ Len(q) = (1 + Len(m)) + 1
      /\ \A k \in 1..(Len(fm) + Len(last)) :
           q[k] = IF k <= Len(fm) THEN fm[k] ELSE last[k - Len(fm)]
  <2>0. q = fm \o last
    BY <1>3 DEF fm
  <2>1. Len(q) = Len(fm) + Len(last)
    <3>1. Len(fm \o last) = Len(fm) + Len(last)
      BY <1>4, <1>6, ConcatProperties, Zenon
    <3>. QED BY <2>0, <3>1, Zenon
  <2>. QED BY <1>4, <1>6, <2>0, <2>1, ConcatProperties
<1>. DEFINE n == Len(m)
<1>8. n \in Nat /\ Len(fm) = 1 + n /\ Len(q) = n + 2 /\ Len(first) = 1 /\ Len(last) = 1
  BY <1>4, <1>5, <1>6, <1>7
<1>9. q[1] = SaveEventOf(x)
  BY <1>4, <1>6, <1>7, <1>8
<1>10. q[n + 2] = MarkOf(x)
  <2>1. n + 2 \in 1..(Len(fm) + Len(last)) /\ ~(n + 2 <= Len(fm)) /\ (n + 2) - Len(fm) = 1
    BY <1>8
  <2>. QED BY <1>4, <1>7, <2>1
<1>11. ASSUME NEW k \in 2..(n + 1) PROVE q[k] \in Projecting(x)
  <2>1. /\ k \in 1..(Len(fm) + Len(last)) /\ k <= Len(fm)
        /\ k \in 1..(Len(first) + Len(m)) /\ ~(k <= Len(first)) /\ k - Len(first) \in 1..Len(m)
    BY <1>8
  <2>2. q[k] = fm[k]
    BY <1>7, <2>1
  <2>3. fm[k] = m[k - Len(first)]
    BY <1>6, <2>1
  <2>. QED BY <1>5, <2>1, <2>2, <2>3
<1>. HIDE DEF n
<1>12. 2 <= Len(q) /\ Len(q) \in Nat /\ Len(q) - 1 = n + 1
  BY <1>8
<1>. QED BY <1>7, <1>8, <1>9, <1>10, <1>11, <1>12 DEF C

SaveTransactionOf(t) == [do |-> "SaveTransaction", tx |-> t.id, index |-> t.index, code |-> t.code]
SaveInvalidOf(x) == [do |-> "SaveInvalidTransaction", tx |-> x]

(* At position k of q the event of x is saved, and it is marked processed    *)
(* at a later one with nothing but its projection in between.                *)
ProjectedFrom(q, k, x) ==
  \E l \in (k + 1)..Len(q) : /\ q[l] = MarkOf(x)
                             /\ \A j \in (k + 1)..(l - 1) : q[j] \in Projecting(x)

(* The calls of the events of one transaction, one after the other. *)
LEMMA EventsCallsAt ==
  ASSUME NEW x \in TxIds, NEW es \in Seq(EventOf(x)), NEW q,
         q = FlattenSeq([i \in DOMAIN es |-> EventCalls(es[i], x)])
  PROVE  /\ q \in Seq(EventCall(x)) /\ Len(q) \in Nat
         /\ \A k \in 1..Len(q) : q[k] \in EventCall(x)
         /\ \A k \in 1..Len(q) : q[k] = SaveEventOf(x) => ProjectedFrom(q, k, x)
         /\ es # <<>> => \E k \in 1..Len(q) : q[k] = MarkOf(x)
         /\ es = <<>> => Len(q) = 0
<1>. DEFINE C == EventCall(x)
            parts == [i \in DOMAIN es |-> EventCalls(es[i], x)]
<1>1. DOMAIN es = 1..Len(es) /\ Len(es) \in Nat
  BY LenProperties
<1>2. ASSUME NEW i \in DOMAIN es
      PROVE  /\ parts[i] \in Seq(C) /\ Len(parts[i]) \in Nat /\ 2 <= Len(parts[i])
             /\ parts[i][1] = SaveEventOf(x) /\ parts[i][Len(parts[i])] = MarkOf(x)
             /\ \A k \in 2..(Len(parts[i]) - 1) : parts[i][k] \in Projecting(x)
  <2>1. es[i] \in EventOf(x)
    BY <1>1, ElementOfSeq
  <2>2. parts[i] = EventCalls(es[i], x)
    OBVIOUS
  <2>. QED BY <2>1, <2>2, EventCallsAt
<1>3. parts \in Seq(Seq(C)) /\ Len(parts) = Len(es)
  <2>. HIDE DEF C
  <2>1. DOMAIN parts = 1..Len(es) /\ \A i \in 1..Len(es) : parts[i] \in Seq(C)
    BY <1>1, <1>2
  <2>2. parts \in [1..Len(es) -> Seq(C)]
    BY <1>1, <2>1
  <2>. HIDE DEF parts
  <2>. DEFINE D == Seq(C)
  <2>3. parts \in Seq(D)
    <3>. HIDE DEF D
    <3>. QED BY <1>1, <2>2, SeqDef DEF D
  <2>. HIDE DEF D
  <2>4. Len(parts) \in Nat /\ DOMAIN parts = 1..Len(parts)
    BY <2>3, LenProperties
  <2>5. 1..Len(parts) = 1..Len(es)
    BY <2>2, <2>4
  <2>6. Len(parts) = Len(es)
    BY <1>1, <2>4, <2>5, RangeEnds, Zenon
  <2>. QED BY <2>3, <2>6 DEF D
<1>4. q \in Seq(C) /\ \E o : Placed(q, parts, o)
  <2>. HIDE DEF C, parts
  <2>1. q = FlattenSeq(parts)
    BY DEF parts
  <2>. QED BY <1>3, <2>1, FlattenPositions
<1>5. PICK o : Placed(q, parts, o)
  BY <1>4
<1>. HIDE DEF C, parts
<1>6. Len(q) \in Nat /\ \A k \in 1..Len(q) : q[k] \in C
  BY <1>4, LenProperties, ElementOfSeq
<1>7. ASSUME NEW m \in 1..Len(q), q[m] = SaveEventOf(x) PROVE ProjectedFrom(q, m, x)
  <2>1. PICK i \in 1..Len(parts) : \E k \in 1..Len(parts[i]) : m = o[i] + k
    BY <1>5, Zenon DEF Placed
  <2>2. PICK k \in 1..Len(parts[i]) : m = o[i] + k
    BY <2>1
  <2>. DEFINE p == parts[i]
              n == Len(p)
              a == o[i]
  <2>3. /\ n \in Nat /\ 2 <= n /\ p[1] = SaveEventOf(x) /\ p[n] = MarkOf(x)
        /\ \A j \in 2..(n - 1) : p[j] \in Projecting(x)
    BY <1>1, <1>2, <1>3
  <2>4. \A j \in 1..n : a + j \in 1..Len(q) /\ q[a + j] = p[j]
    BY <1>5, Zenon DEF Placed
  <2>5. a \in Nat
    <3>1. o \in [1..(Len(parts) + 1) -> Nat] /\ i \in 1..(Len(parts) + 1)
      BY <1>1, <1>3, <1>5 DEF Placed
    <3>. QED BY <3>1
  <2>6. p[k] = SaveEventOf(x) /\ k \in 1..n /\ m = a + k
    BY <1>7, <2>2, <2>4
  <2>. HIDE DEF p, n, a
  <2>7. k = 1
    <3>1. SaveEventOf(x) \notin Projecting(x)
      BY ProjectingDo DEF Projections, Writes, SaveEventOf
    <3>2. SaveEventOf(x) # MarkOf(x)
      <4>1. SaveEventOf(x).do = "SaveEvent" /\ MarkOf(x).do = "MarkEventProcessed"
        BY DEF SaveEventOf, MarkOf
      <4>. QED BY <4>1
    <3>3. k # n
      BY <2>3, <2>6, <3>2
    <3>4. k \notin 2..(n - 1)
      BY <2>3, <2>6, <3>1
    <3>. QED BY <2>3, <2>6, <3>3, <3>4
  <2>8. a + n \in (m + 1)..Len(q) /\ q[a + n] = MarkOf(x)
    <3>1. n \in 1..n /\ a + n >= m + 1
      BY <2>3, <2>5, <2>6, <2>7
    <3>2. a + n \in 1..Len(q) /\ q[a + n] = MarkOf(x)
      BY <2>3, <2>4, <3>1
    <3>. QED BY <1>6, <2>5, <2>6, <3>1, <3>2
  <2>9. ASSUME NEW j \in (m + 1)..((a + n) - 1) PROVE q[j] \in Projecting(x)
    <3>1. j - a \in 2..(n - 1) /\ j - a \in 1..n /\ a + (j - a) = j
      BY <2>3, <2>5, <2>6, <2>7
    <3>2. q[a + (j - a)] = p[j - a]
      BY <2>4, <3>1
    <3>. QED BY <2>3, <3>1, <3>2
  <2>. QED BY <2>8, <2>9 DEF ProjectedFrom
<1>8. ASSUME es # <<>> PROVE \E k \in 1..Len(q) : q[k] = MarkOf(x)
  <2>1. 1 \in 1..Len(parts) /\ 1 \in DOMAIN es
    BY <1>1, <1>3, <1>8, EmptySeq
  <2>2. Len(parts[1]) \in 1..Len(parts[1]) /\ parts[1][Len(parts[1])] = MarkOf(x)
    BY <1>2, <2>1
  <2>3. /\ o[1] + Len(parts[1]) \in 1..Len(q)
        /\ q[o[1] + Len(parts[1])] = parts[1][Len(parts[1])]
    BY <1>5, <2>1, <2>2, Zenon DEF Placed
  <2>. QED BY <2>2, <2>3
<1>9. ASSUME es = <<>> PROVE Len(q) = 0
  <2>1. Len(parts) = 0
    BY <1>3, <1>9
  <2>2. Len(q) = o[0 + 1] /\ o[1] = 0
    BY <1>5, <2>1, Zenon DEF Placed
  <2>. QED BY <2>2
<1>. QED BY <1>4, <1>6, <1>7, <1>8, <1>9 DEF C

TransactionCall(t) == EventCall(t.id) \cup {SaveTransactionOf(t), SaveInvalidOf(t.id)}

(* A transaction is saved first; an invalid one is then recorded as such, a  *)
(* valid one has its events projected.                                       *)
LEMMA TransactionCallsAt ==
  ASSUME NEW t \in Decoded, t.events \in Seq(EventOf(t.id)), NEW q, q = TransactionCalls(t)
  PROVE  /\ q \in Seq(TransactionCall(t)) /\ Len(q) \in Nat /\ 1 <= Len(q)
         /\ q[1] = SaveTransactionOf(t)
         /\ t.code # "VALID" => Len(q) = 2 /\ q[2] = SaveInvalidOf(t.id)
         /\ t.code = "VALID" =>
              /\ \A k \in 2..Len(q) : q[k] \in EventCall(t.id) /\ t.events # <<>>
              /\ \A k \in 2..Len(q) : q[k] = SaveEventOf(t.id) => ProjectedFrom(q, k, t.id)
              /\ t.events # <<>> => \E k \in 2..Len(q) : q[k] = MarkOf(t.id)
<1>. DEFINE C == TransactionCall(t)
            x == t.id
            es == t.events
            rest == IF t.code # "VALID" THEN <<SaveInvalidOf(x)>>
                    ELSE FlattenSeq([i \in DOMAIN es |-> EventCalls(es[i], x)])
            first == <<SaveTransactionOf(t)>>
<1>0. x \in TxIds
  BY DEF Decoded
<1>1. q = first \o rest
  BY DEF TransactionCalls, SaveTransactionOf, SaveInvalidOf
<1>2. t.code = "VALID" =>
        /\ rest \in Seq(EventCall(x)) /\ Len(rest) \in Nat
        /\ \A k \in 1..Len(rest) : rest[k] \in EventCall(x)
        /\ \A k \in 1..Len(rest) : rest[k] = SaveEventOf(x) => ProjectedFrom(rest, k, x)
        /\ es # <<>> => \E k \in 1..Len(rest) : rest[k] = MarkOf(x)
        /\ es = <<>> => Len(rest) = 0
  <2>. SUFFICES ASSUME t.code = "VALID"
                PROVE  /\ rest \in Seq(EventCall(x)) /\ Len(rest) \in Nat
                       /\ \A k \in 1..Len(rest) : rest[k] \in EventCall(x)
                       /\ \A k \in 1..Len(rest) : rest[k] = SaveEventOf(x) => ProjectedFrom(rest, k, x)
                       /\ es # <<>> => \E k \in 1..Len(rest) : rest[k] = MarkOf(x)
                       /\ es = <<>> => Len(rest) = 0
    BY Zenon
  <2>1. rest = FlattenSeq([i \in DOMAIN es |-> EventCalls(es[i], x)])
    OBVIOUS
  <2>2. es \in Seq(EventOf(x))
    OBVIOUS
  <2>. HIDE DEF rest, x, es
  <2>. QED BY <1>0, <2>1, <2>2, EventsCallsAt
<1>3. t.code # "VALID" => rest = <<SaveInvalidOf(x)>>
  OBVIOUS
<1>. HIDE DEF rest, first, x, es
<1>4. /\ first \in Seq(C) /\ Len(first) = 1 /\ first[1] = SaveTransactionOf(t)
      /\ rest \in Seq(C) /\ Len(rest) \in Nat
  <2>1. SaveTransactionOf(t) \in C /\ SaveInvalidOf(x) \in C /\ EventCall(x) \subseteq C
    BY DEF TransactionCall, x
  <2>. HIDE DEF C
  <2>2. first \in Seq(C) /\ Len(first) = 1 /\ first[1] = SaveTransactionOf(t)
    BY <2>1 DEF first
  <2>3. t.code = "VALID" => rest \in Seq(C)
    BY <1>2, <2>1, SeqMonotonic
  <2>4. t.code # "VALID" => rest \in Seq(C)
    <3>1. <<SaveInvalidOf(x)>> \in Seq(C)
      BY <2>1
    <3>. QED BY <1>3, <3>1, Zenon
  <2>5. rest \in Seq(C)
    BY <2>3, <2>4
  <2>. QED BY <2>2, <2>5, LenProperties
<1>5. /\ q \in Seq(C) /\ Len(q) = 1 + Len(rest)
      /\ \A k \in 1..(1 + Len(rest)) : q[k] = IF k <= 1 THEN first[k] ELSE rest[k - 1]
  <2>. HIDE DEF C
  <2>1. /\ q \in Seq(C) /\ Len(q) = Len(first) + Len(rest)
        /\ \A k \in 1..(Len(first) + Len(rest)) :
             q[k] = IF k <= Len(first) THEN first[k] ELSE rest[k - Len(first)]
    <3>1. /\ first \o rest \in Seq(C) /\ Len(first \o rest) = Len(first) + Len(rest)
          /\ \A k \in 1..(Len(first) + Len(rest)) :
               (first \o rest)[k] = IF k <= Len(first) THEN first[k] ELSE rest[k - Len(first)]
      BY <1>4, ConcatProperties
    <3>. QED BY <1>1, <3>1, Zenon
  <2>2. Len(first) = 1
    BY <1>4
  <2>. QED BY <2>1, <2>2, Zenon
<1>. DEFINE n == Len(rest)
<1>6. n \in Nat /\ Len(q) = n + 1 /\ \A k \in 1..n : k + 1 \in 2..(n + 1) /\ q[k + 1] = rest[k]
  <2>1. \A k \in 1..n : k + 1 \in 1..(1 + n) /\ ~(k + 1 <= 1) /\ (k + 1) - 1 = k /\ k + 1 \in 2..(n + 1)
    BY <1>4
  <2>. QED BY <1>4, <1>5, <2>1
<1>7. q[1] = SaveTransactionOf(t)
  BY <1>4, <1>5
<1>. HIDE DEF n
<1>8. \A k \in 2..(n + 1) : k - 1 \in 1..n /\ q[k] = rest[k - 1]
  <2>. SUFFICES ASSUME NEW k \in 2..(n + 1) PROVE k - 1 \in 1..n /\ q[k] = rest[k - 1]
    OBVIOUS
  <2>1. k - 1 \in 1..n /\ (k - 1) + 1 = k
    BY <1>6
  <2>. QED BY <1>6, <2>1
<1>9. CASE t.code # "VALID"
  <2>1. n = 1 /\ rest[1] = SaveInvalidOf(x)
    BY <1>3, <1>9 DEF n
  <2>2. q[2] = SaveInvalidOf(x) /\ Len(q) = 2 /\ Len(q) \in Nat /\ 1 <= Len(q)
    BY <1>6, <1>8, <2>1
  <2>3. q \in Seq(TransactionCall(t))
    BY <1>5
  <2>. QED BY <1>7, <1>9, <2>2, <2>3 DEF x
<1>10. CASE t.code = "VALID"
  <2>1. ASSUME NEW k \in 2..Len(q)
        PROVE  /\ q[k] \in EventCall(x) /\ es # <<>>
               /\ q[k] = SaveEventOf(x) => ProjectedFrom(q, k, x)
    <3>1. k - 1 \in 1..n /\ q[k] = rest[k - 1]
      BY <1>6, <1>8
    <3>2. q[k] \in EventCall(x)
      BY <1>2, <1>10, <3>1 DEF n
    <3>3. es # <<>>
      BY <1>2, <1>6, <1>10, <3>1 DEF n
    <3>4. ASSUME q[k] = SaveEventOf(x) PROVE ProjectedFrom(q, k, x)
      <4>1. ProjectedFrom(rest, k - 1, x)
        BY <1>2, <1>10, <3>1, <3>4 DEF n
      <4>2. PICK l \in ((k - 1) + 1)..n :
              /\ rest[l] = MarkOf(x)
              /\ \A j \in ((k - 1) + 1)..(l - 1) : rest[j] \in Projecting(x)
        BY <4>1 DEF ProjectedFrom, n
      <4>3. l \in 1..n /\ l + 1 \in (k + 1)..Len(q) /\ (l + 1) - 1 = l
        BY <1>6, <3>1
      <4>4. q[l + 1] = MarkOf(x)
        BY <1>6, <4>2, <4>3
      <4>5. ASSUME NEW j \in (k + 1)..((l + 1) - 1) PROVE q[j] \in Projecting(x)
        <5>1. j - 1 \in ((k - 1) + 1)..(l - 1) /\ j \in 2..(n + 1)
          BY <1>6, <4>3
        <5>2. q[j] = rest[j - 1]
          BY <1>8, <5>1
        <5>. QED BY <4>2, <5>1, <5>2
      <4>. QED BY <4>3, <4>4, <4>5 DEF ProjectedFrom
    <3>. QED BY <3>2, <3>3, <3>4
  <2>2. ASSUME es # <<>> PROVE \E k \in 2..Len(q) : q[k] = MarkOf(x)
    <3>1. PICK k \in 1..n : rest[k] = MarkOf(x)
      BY <1>2, <1>10, <2>2 DEF n
    <3>2. k + 1 \in 2..Len(q) /\ q[k + 1] = MarkOf(x)
      BY <1>6, <3>1
    <3>. QED BY <3>2
  <2>3. Len(q) \in Nat /\ 1 <= Len(q)
    BY <1>6
  <2>4. q \in Seq(TransactionCall(t))
    BY <1>5
  <2>. QED BY <1>7, <1>10, <2>1, <2>2, <2>3, <2>4 DEF x, es
<1>. QED BY <1>9, <1>10

-----------------------------------------------------------------------------
(* The calls of one block.                                                   *)

AnyCall ==
  [do: {"SaveBlock", "UpdateCheckpoint"}]
    \cup [do: {"SaveTransaction"}, tx: TxIds, index: Nat, code: STRING]
    \cup [do: {"SaveInvalidTransaction", "SaveEvent", "MarkEventProcessed"}, tx: TxIds]
    \cup UNION {Projecting(x) : x \in TxIds}

TransactionAt(block, i) == i \in DOMAIN block.data /\ IsTransaction(block.data[i])
EventfulAt(block, i) ==
  TransactionAt(block, i) /\ block.filter[i] = "VALID" /\ OurEvent(block.data[i]) # Nil
SaveTransactionAt(block, i) ==
  [do |-> "SaveTransaction", tx |-> block.data[i].tx, index |-> i, code |-> block.filter[i]]

(* What the queue q of a block holds: each transaction once and in order,    *)
(* the reason of the invalid ones, and for each event its save, projection   *)
(* and mark, before those of any later event.                                *)
Transcribes(q, block) ==
  /\ \A i : TransactionAt(block, i) =>
       /\ \E k \in 1..Len(q) : q[k] = SaveTransactionAt(block, i)
       /\ block.filter[i] # "VALID" => \E k \in 1..Len(q) : q[k] = SaveInvalidOf(block.data[i].tx)
       /\ EventfulAt(block, i) => \E k \in 1..Len(q) : q[k] = MarkOf(block.data[i].tx)
  /\ \A k \in 1..Len(q) : q[k].do = "SaveTransaction" =>
       \E i : TransactionAt(block, i) /\ q[k] = SaveTransactionAt(block, i)
  /\ \A k, l \in 1..Len(q) :
       k < l /\ q[k].do = "SaveTransaction" /\ q[l].do = "SaveTransaction" => q[k].index < q[l].index
  /\ \A k \in 1..Len(q) : q[k].do = "SaveEvent" =>
       \E i : /\ EventfulAt(block, i) /\ q[k] = SaveEventOf(block.data[i].tx)
              /\ ProjectedFrom(q, k, block.data[i].tx)
  /\ \A k \in 1..Len(q) : q[k].do = "MarkEventProcessed" =>
       \E i : /\ EventfulAt(block, i) /\ q[k] = MarkOf(block.data[i].tx)
              /\ \A j : EventfulAt(block, j) /\ j < i =>
                   \E l \in 1..Len(q) : l < k /\ q[l] = MarkOf(block.data[j].tx)
  /\ \A k \in 1..Len(q) : q[k].do \in Projections =>
       \E i : EventfulAt(block, i) /\ q[k] \in Projecting(block.data[i].tx)

LEMMA EventCallKinds ==
  ASSUME NEW x, NEW c \in EventCall(x)
  PROVE  /\ c.do \in Projections \cup {"SaveEvent", "MarkEventProcessed"}
         /\ c.do = "SaveEvent" => c = SaveEventOf(x)
         /\ c.do = "MarkEventProcessed" => c = MarkOf(x)
         /\ c.do \in Projections => c \in Projecting(x)
<1>1. CASE c \in Projecting(x)
  <2>1. c.do \in Projections
    BY <1>1, ProjectingDo
  <2>2. c.do \notin {"SaveEvent", "MarkEventProcessed"}
    BY <2>1 DEF Projections, Writes
  <2>. QED BY <1>1, <2>1, <2>2
<1>2. CASE c = SaveEventOf(x)
  <2>1. c.do = "SaveEvent"
    BY <1>2 DEF SaveEventOf
  <2>. QED BY <1>2, <2>1 DEF Projections, Writes
<1>3. CASE c = MarkOf(x)
  <2>1. c.do = "MarkEventProcessed"
    BY <1>3 DEF MarkOf
  <2>. QED BY <1>3, <2>1 DEF Projections, Writes
<1>. QED BY <1>1, <1>2, <1>3 DEF EventCall

LEMMA CallsAreTyped ==
  /\ \A x \in TxIds : EventCall(x) \subseteq AnyCall /\ SaveInvalidOf(x) \in AnyCall
  /\ \A t \in Decoded : SaveTransactionOf(t) \in AnyCall
<1>1. ASSUME NEW x \in TxIds PROVE EventCall(x) \subseteq AnyCall /\ SaveInvalidOf(x) \in AnyCall
  <2>1. SaveEventOf(x) \in AnyCall
    BY DEF AnyCall, SaveEventOf
  <2>2. MarkOf(x) \in AnyCall
    BY DEF AnyCall, MarkOf
  <2>3. SaveInvalidOf(x) \in AnyCall
    BY DEF AnyCall, SaveInvalidOf
  <2>4. Projecting(x) \subseteq AnyCall
    BY Zenon DEF AnyCall
  <2>. QED BY <2>1, <2>2, <2>3, <2>4 DEF EventCall
<1>2. ASSUME NEW t \in Decoded PROVE SaveTransactionOf(t) \in AnyCall
  <2>1. t.id \in TxIds /\ t.index \in Nat /\ t.code \in STRING
    BY DEF Decoded
  <2>. QED BY <2>1 DEF AnyCall, SaveTransactionOf
<1>. QED BY <1>1, <1>2

(* The calls of the transactions of a block, one after the other. *)
LEMMA TransactionsCallsAt ==
  ASSUME NEW block, WellFormed(block), NEW ts, ts = decodeBlock(block), NEW q,
         q = FlattenSeq([m \in DOMAIN ts |-> TransactionCalls(ts[m])])
  PROVE  /\ q \in Seq(AnyCall) /\ Len(q) \in Nat
         /\ \A k \in 1..Len(q) : q[k].do \notin {"SaveBlock", "UpdateCheckpoint"}
         /\ Transcribes(q, block)
<1>. DEFINE parts == [m \in DOMAIN ts |-> TransactionCalls(ts[m])]
            at(m) == ts[m].index
            tx(m) == block.data[ts[m].index].tx
<1>1. /\ ts \in Seq(Decoded)
      /\ \A m \in 1..Len(ts) : TransactionAt(block, at(m)) /\ ts[m] = DecodedAt(block, at(m))
      /\ \A i : TransactionAt(block, i) => \E m \in 1..Len(ts) : ts[m] = DecodedAt(block, i)
      /\ \A m, n \in 1..Len(ts) : m < n => at(m) < at(n)
  BY DecodedBlock DEF TransactionAt
<1>2. DOMAIN ts = 1..Len(ts) /\ Len(ts) \in Nat /\ \A m \in 1..Len(ts) : ts[m] \in Decoded /\ at(m) \in Nat
  <2>1. DOMAIN ts = 1..Len(ts) /\ Len(ts) \in Nat
    BY <1>1, LenProperties
  <2>2. \A m \in 1..Len(ts) : ts[m] \in Decoded
    BY <1>1, ElementOfSeq
  <2>. QED BY <2>1, <2>2 DEF Decoded
<1>3. ASSUME NEW m \in 1..Len(ts)
      PROVE  /\ TransactionAt(block, at(m)) /\ tx(m) \in TxIds
             /\ ts[m].id = tx(m) /\ ts[m].code = block.filter[at(m)]
             /\ ts[m].events \in Seq(EventOf(ts[m].id))
             /\ ts[m].events = <<>> <=> OurEvent(block.data[at(m)]) = Nil
  <2>. DEFINE i == at(m)
  <2>1. TransactionAt(block, i) /\ ts[m] = DecodedAt(block, i)
    BY <1>1
  <2>. HIDE DEF i
  <2>2. /\ DecodedAt(block, i).id = block.data[i].tx /\ block.data[i].tx \in TxIds
        /\ DecodedAt(block, i).code = block.filter[i]
        /\ DecodedAt(block, i).events \in Seq(EventOf(block.data[i].tx))
        /\ DecodedAt(block, i).events = <<>> <=> OurEvent(block.data[i]) = Nil
    BY <2>1, DecodedTransaction DEF TransactionAt
  <2>. QED BY <2>1, <2>2 DEF i
<1>4. ASSUME NEW m \in 1..Len(ts), NEW p, p = parts[m]
      PROVE  /\ p \in Seq(TransactionCall(ts[m])) /\ p \in Seq(AnyCall)
             /\ Len(p) \in Nat /\ 1 <= Len(p)
             /\ p[1] = SaveTransactionAt(block, at(m))
             /\ block.filter[at(m)] # "VALID" => Len(p) = 2 /\ p[2] = SaveInvalidOf(tx(m))
             /\ block.filter[at(m)] = "VALID" =>
                  /\ \A k \in 2..Len(p) : p[k] \in EventCall(tx(m)) /\ EventfulAt(block, at(m))
                  /\ \A k \in 2..Len(p) : p[k] = SaveEventOf(tx(m)) => ProjectedFrom(p, k, tx(m))
                  /\ EventfulAt(block, at(m)) => \E k \in 2..Len(p) : p[k] = MarkOf(tx(m))
  <2>. DEFINE t == ts[m]
              i == at(m)
  <2>1. t \in Decoded /\ p = TransactionCalls(t) /\ t.events \in Seq(EventOf(t.id))
    BY <1>2, <1>3, <1>4
  <2>2. t.id = tx(m) /\ t.code = block.filter[i] /\ t.index = i /\ TransactionAt(block, i)
          /\ tx(m) \in TxIds /\ (t.events = <<>> <=> OurEvent(block.data[i]) = Nil)
    BY <1>3
  <2>. HIDE DEF t, i, tx
  <2>3. /\ p \in Seq(TransactionCall(t)) /\ Len(p) \in Nat /\ 1 <= Len(p)
        /\ p[1] = SaveTransactionOf(t)
        /\ t.code # "VALID" => Len(p) = 2 /\ p[2] = SaveInvalidOf(t.id)
        /\ t.code = "VALID" =>
             /\ \A k \in 2..Len(p) : p[k] \in EventCall(t.id) /\ t.events # <<>>
             /\ \A k \in 2..Len(p) : p[k] = SaveEventOf(t.id) => ProjectedFrom(p, k, t.id)
             /\ t.events # <<>> => \E k \in 2..Len(p) : p[k] = MarkOf(t.id)
    BY <2>1, TransactionCallsAt
  <2>4. p[1] = SaveTransactionAt(block, i)
    BY <2>2, <2>3 DEF SaveTransactionOf, SaveTransactionAt, tx, i
  <2>5. TransactionCall(t) \subseteq AnyCall
    BY <2>1, <2>2, CallsAreTyped DEF TransactionCall
  <2>6. p \in Seq(AnyCall)
    BY <2>3, <2>5, SeqMonotonic
  <2>7. block.filter[i] = "VALID" => (EventfulAt(block, i) <=> t.events # <<>>)
    BY <2>2 DEF EventfulAt
  <2>8. block.filter[i] # "VALID" => Len(p) = 2 /\ p[2] = SaveInvalidOf(tx(m))
    BY <2>2, <2>3
  <2>9. block.filter[i] = "VALID" =>
             /\ \A k \in 2..Len(p) : p[k] \in EventCall(tx(m)) /\ EventfulAt(block, i)
             /\ \A k \in 2..Len(p) : p[k] = SaveEventOf(tx(m)) => ProjectedFrom(p, k, tx(m))
             /\ EventfulAt(block, i) => \E k \in 2..Len(p) : p[k] = MarkOf(tx(m))
    BY <2>2, <2>3, <2>7
  <2>. QED BY <2>3, <2>4, <2>6, <2>8, <2>9, Zenon DEF t, i, tx
<1>5. parts \in Seq(Seq(AnyCall)) /\ Len(parts) = Len(ts)
  <2>1. DOMAIN parts = 1..Len(ts) /\ \A m \in 1..Len(ts) : parts[m] \in Seq(AnyCall)
    BY <1>2, <1>4, Zenon
  <2>2. parts \in [1..Len(ts) -> Seq(AnyCall)]
    BY <1>2, <2>1
  <2>. HIDE DEF parts
  <2>. QED BY <1>2, <2>2, SeqDef, LenProperties
<1>6. q \in Seq(AnyCall) /\ \E o : Placed(q, parts, o)
  <2>. HIDE DEF parts
  <2>1. q = FlattenSeq(parts)
    BY DEF parts
  <2>. QED BY <1>5, <2>1, FlattenPositions
<1>7. PICK o : Placed(q, parts, o)
  BY <1>6
<1>. HIDE DEF parts
<1>8. Len(q) \in Nat
  BY <1>6, LenProperties
<1>9. /\ \A m \in 1..Len(ts) : o[m] \in Nat /\ o[m + 1] \in Nat /\ o[m + 1] = o[m] + Len(parts[m])
      /\ \A m, n \in 1..Len(ts) : m < n => o[m + 1] <= o[n]
      /\ \A m \in 1..Len(ts) : \A j \in 1..Len(parts[m]) :
           o[m] + j \in 1..Len(q) /\ q[o[m] + j] = parts[m][j]
  <2>1. o \in [1..(Len(parts) + 1) -> Nat]
    BY <1>7, Zenon DEF Placed
  <2>2. \A m \in 1..Len(ts) : m \in 1..(Len(parts) + 1) /\ m + 1 \in 1..(Len(parts) + 1)
    BY <1>2, <1>5
  <2>3. \A m \in 1..Len(ts) : o[m] \in Nat /\ o[m + 1] \in Nat
    BY <2>1, <2>2
  <2>4. \A m, n \in 1..Len(ts) : m < n => m + 1 <= n
    BY <1>2
  <2>5. \A m, n \in 1..Len(ts) : m < n => o[m + 1] <= o[n]
    BY <1>7, <2>2, <2>4, Zenon DEF Placed
  <2>6. \A m \in 1..Len(ts) : o[m + 1] = o[m] + Len(parts[m])
    BY <1>5, <1>7, Zenon DEF Placed
  <2>7. \A m \in 1..Len(ts) : \A j \in 1..Len(parts[m]) :
           o[m] + j \in 1..Len(q) /\ q[o[m] + j] = parts[m][j]
    BY <1>5, <1>7, Zenon DEF Placed
  <2>. QED BY <2>3, <2>5, <2>6, <2>7
<1>10. ASSUME NEW k \in 1..Len(q)
       PROVE  \E m \in 1..Len(ts) : \E j \in 1..Len(parts[m]) : k = o[m] + j /\ q[k] = parts[m][j]
  <2>1. PICK m \in 1..Len(parts) : \E j \in 1..Len(parts[m]) : k = o[m] + j
    BY <1>7, Zenon DEF Placed
  <2>2. PICK j \in 1..Len(parts[m]) : k = o[m] + j
    BY <2>1
  <2>3. m \in 1..Len(ts)
    BY <1>5
  <2>4. q[k] = parts[m][j]
    BY <1>9, <2>2, <2>3
  <2>. QED BY <2>2, <2>3, <2>4
<1>11. ASSUME NEW m \in 1..Len(ts), NEW j \in 1..Len(parts[m]), NEW c, c = parts[m][j]
       PROVE  /\ j = 1 => c = SaveTransactionAt(block, at(m))
              /\ j # 1 => \/ /\ block.filter[at(m)] # "VALID" /\ c = SaveInvalidOf(tx(m)) /\ j = 2
                          \/ /\ EventfulAt(block, at(m)) /\ c \in EventCall(tx(m))
                             /\ j \in 2..Len(parts[m])
                             /\ c = SaveEventOf(tx(m)) => ProjectedFrom(parts[m], j, tx(m))
  <2>. DEFINE p == parts[m]
  <2>0. /\ Len(p) \in Nat /\ 1 <= Len(p)
        /\ p[1] = SaveTransactionAt(block, at(m))
        /\ block.filter[at(m)] # "VALID" => Len(p) = 2 /\ p[2] = SaveInvalidOf(tx(m))
        /\ block.filter[at(m)] = "VALID" =>
             /\ \A k \in 2..Len(p) : p[k] \in EventCall(tx(m)) /\ EventfulAt(block, at(m))
             /\ \A k \in 2..Len(p) : p[k] = SaveEventOf(tx(m)) => ProjectedFrom(p, k, tx(m))
    BY <1>4
  <2>1. c = p[j] /\ j \in 1..Len(p)
    BY <1>11
  <2>. HIDE DEF p, at, tx
  <2>2. j # 1 => j \in 2..Len(p)
    BY <2>0, <2>1
  <2>3. ASSUME block.filter[at(m)] # "VALID", j # 1 PROVE j = 2
    <3>1. Len(p) = 2
      BY <2>0, <2>3, Zenon
    <3>2. j \in 2..2
      BY <2>2, <2>3, <3>1, Zenon
    <3>. QED BY <3>2
  <2>4. j = 1 => c = SaveTransactionAt(block, at(m))
    BY <2>0, <2>1
  <2>5. ASSUME j # 1, block.filter[at(m)] # "VALID" PROVE c = SaveInvalidOf(tx(m)) /\ j = 2
    BY <2>0, <2>1, <2>3, <2>5
  <2>6. ASSUME j # 1, block.filter[at(m)] = "VALID"
        PROVE  /\ EventfulAt(block, at(m)) /\ c \in EventCall(tx(m)) /\ j \in 2..Len(p)
               /\ c = SaveEventOf(tx(m)) => ProjectedFrom(p, j, tx(m))
    BY <2>0, <2>1, <2>2, <2>6
  <2>. QED BY <2>4, <2>5, <2>6, Zenon DEF p
<1>12. ASSUME NEW m \in 1..Len(ts), NEW j \in 1..Len(parts[m]), NEW c, c = parts[m][j]
       PROVE  /\ c.do = "SaveTransaction" => j = 1 /\ c = SaveTransactionAt(block, at(m))
              /\ c.do \in Projections \cup {"SaveEvent", "MarkEventProcessed"} =>
                   /\ j # 1 /\ EventfulAt(block, at(m)) /\ c \in EventCall(tx(m))
                   /\ c = SaveEventOf(tx(m)) => ProjectedFrom(parts[m], j, tx(m))
              /\ c.do \notin {"SaveBlock", "UpdateCheckpoint"}
  <2>. DEFINE i == at(m)
              x == tx(m)
  <2>0. /\ j = 1 => c = SaveTransactionAt(block, i)
        /\ j # 1 => \/ /\ block.filter[i] # "VALID" /\ c = SaveInvalidOf(x) /\ j = 2
                    \/ /\ EventfulAt(block, i) /\ c \in EventCall(x) /\ j \in 2..Len(parts[m])
                       /\ c = SaveEventOf(x) => ProjectedFrom(parts[m], j, x)
    BY <1>11, <1>12
  <2>. HIDE DEF i, x
  <2>1. CASE j = 1
    <3>1. c.do = "SaveTransaction" /\ c = SaveTransactionAt(block, i)
      BY <2>0, <2>1 DEF SaveTransactionAt
    <3>. QED BY <2>1, <3>1 DEF Projections, Writes, i
  <2>2. CASE j # 1 /\ c = SaveInvalidOf(x)
    <3>1. c.do = "SaveInvalidTransaction"
      BY <2>2 DEF SaveInvalidOf
    <3>. QED BY <3>1 DEF Projections, Writes
  <2>3. CASE /\ j # 1 /\ EventfulAt(block, i) /\ c \in EventCall(x)
             /\ c = SaveEventOf(x) => ProjectedFrom(parts[m], j, x)
    <3>1. c.do \in Projections \cup {"SaveEvent", "MarkEventProcessed"}
      BY <2>3, EventCallKinds
    <3>2. c.do \notin {"SaveTransaction", "SaveBlock", "UpdateCheckpoint"}
      BY <3>1 DEF Projections, Writes
    <3>. QED BY <2>3, <3>2 DEF i, x
  <2>. QED BY <2>0, <2>1, <2>2, <2>3
<1>13. ASSUME NEW k \in 1..Len(q) PROVE q[k].do \notin {"SaveBlock", "UpdateCheckpoint"}
  BY <1>10, <1>12
<1>14. ASSUME NEW i, TransactionAt(block, i)
       PROVE  /\ \E k \in 1..Len(q) : q[k] = SaveTransactionAt(block, i)
              /\ block.filter[i] # "VALID" =>
                   \E k \in 1..Len(q) : q[k] = SaveInvalidOf(block.data[i].tx)
              /\ EventfulAt(block, i) => \E k \in 1..Len(q) : q[k] = MarkOf(block.data[i].tx)
  <2>1. PICK m \in 1..Len(ts) : ts[m] = DecodedAt(block, i)
    BY <1>1, <1>14
  <2>2. at(m) = i
    <3>1. DecodedAt(block, i).index = i
      BY <1>14, DecodedTransaction DEF TransactionAt
    <3>. QED BY <2>1, <3>1
  <2>. DEFINE p == parts[m]
              x == block.data[i].tx
  <2>3. x = tx(m)
    BY <2>2
  <2>4. /\ Len(p) \in Nat /\ 1 <= Len(p)
        /\ p[1] = SaveTransactionAt(block, i)
        /\ block.filter[i] # "VALID" => Len(p) = 2 /\ p[2] = SaveInvalidOf(x)
        /\ block.filter[i] = "VALID" /\ EventfulAt(block, i) =>
             \E k \in 2..Len(p) : p[k] = MarkOf(x)
    BY <1>4, <2>2, <2>3
  <2>5. \A j \in 1..Len(p) : o[m] + j \in 1..Len(q) /\ q[o[m] + j] = p[j]
    BY <1>9
  <2>. HIDE DEF p, x
  <2>6. \E k \in 1..Len(q) : q[k] = SaveTransactionAt(block, i)
    <3>1. 1 \in 1..Len(p)
      BY <2>4
    <3>. QED BY <2>4, <2>5, <3>1
  <2>7. ASSUME block.filter[i] # "VALID" PROVE \E k \in 1..Len(q) : q[k] = SaveInvalidOf(x)
    <3>1. 2 \in 1..Len(p) /\ p[2] = SaveInvalidOf(x)
      BY <2>4, <2>7
    <3>. QED BY <2>5, <3>1
  <2>8. ASSUME EventfulAt(block, i) PROVE \E k \in 1..Len(q) : q[k] = MarkOf(x)
    <3>1. PICK k \in 2..Len(p) : p[k] = MarkOf(x)
      BY <2>4, <2>8 DEF EventfulAt
    <3>2. k \in 1..Len(p)
      BY <2>4
    <3>. QED BY <2>5, <3>1, <3>2
  <2>. QED BY <2>6, <2>7, <2>8 DEF x
<1>15. ASSUME NEW k \in 1..Len(q), q[k].do = "SaveTransaction"
       PROVE  \E i : TransactionAt(block, i) /\ q[k] = SaveTransactionAt(block, i)
  <2>1. PICK m \in 1..Len(ts) : \E j \in 1..Len(parts[m]) : k = o[m] + j /\ q[k] = parts[m][j]
    BY <1>10
  <2>2. q[k] = SaveTransactionAt(block, at(m))
    BY <1>12, <1>15, <2>1
  <2>. QED BY <1>3, <2>2
<1>16. ASSUME NEW k \in 1..Len(q), NEW l \in 1..Len(q), k < l,
              q[k].do = "SaveTransaction", q[l].do = "SaveTransaction"
       PROVE  q[k].index < q[l].index
  <2>1. PICK m \in 1..Len(ts) : \E j \in 1..Len(parts[m]) : k = o[m] + j /\ q[k] = parts[m][j]
    BY <1>10
  <2>2. PICK n \in 1..Len(ts) : \E j \in 1..Len(parts[n]) : l = o[n] + j /\ q[l] = parts[n][j]
    BY <1>10
  <2>3. k = o[m] + 1 /\ q[k] = SaveTransactionAt(block, at(m))
    BY <1>12, <1>16, <2>1
  <2>4. l = o[n] + 1 /\ q[l] = SaveTransactionAt(block, at(n))
    BY <1>12, <1>16, <2>2
  <2>5. q[k].index = at(m) /\ q[l].index = at(n)
    BY <2>3, <2>4 DEF SaveTransactionAt
  <2>6. m < n
    <3>1. o[m] \in Nat /\ o[n] \in Nat /\ o[m] < o[n]
      <4>1. o[m] \in Nat /\ o[n] \in Nat
        BY <1>9
      <4>. QED BY <1>16, <2>3, <2>4, <4>1
    <3>2. n < m => o[n + 1] <= o[m]
      BY <1>9
    <3>3. o[n + 1] = o[n] + Len(parts[n]) /\ Len(parts[n]) \in Nat
      BY <1>4, <1>9
    <3>4. ~(n < m) /\ n # m
      <4>1. o[n] <= o[n + 1] /\ o[n + 1] \in Nat
        BY <1>9, <3>1, <3>3, LePlus, Zenon
      <4>2. ASSUME n < m PROVE FALSE
        <5>1. o[n] <= o[m]
          BY <3>1, <3>2, <4>1, <4>2, LeTransitive, Zenon
        <5>. QED BY <3>1, <5>1
      <4>3. n # m
        BY <3>1
      <4>. QED BY <4>2, <4>3
    <3>. QED BY <1>2, <3>4
  <2>. QED BY <1>1, <2>5, <2>6
<1>17. ASSUME NEW k \in 1..Len(q), q[k].do = "SaveEvent"
       PROVE  \E i : /\ EventfulAt(block, i) /\ q[k] = SaveEventOf(block.data[i].tx)
                     /\ ProjectedFrom(q, k, block.data[i].tx)
  <2>1. PICK m \in 1..Len(ts) : \E j \in 1..Len(parts[m]) : k = o[m] + j /\ q[k] = parts[m][j]
    BY <1>10
  <2>2. PICK j \in 1..Len(parts[m]) : k = o[m] + j /\ q[k] = parts[m][j]
    BY <2>1
  <2>3. /\ EventfulAt(block, at(m)) /\ q[k] \in EventCall(tx(m))
        /\ q[k] = SaveEventOf(tx(m)) => ProjectedFrom(parts[m], j, tx(m))
    BY <1>12, <1>17, <2>2
  <2>4. q[k] = SaveEventOf(tx(m))
    BY <1>17, <2>3, EventCallKinds
  <2>. DEFINE p == parts[m]
              a == o[m]
              x == tx(m)
  <2>5. PICK l \in (j + 1)..Len(p) : /\ p[l] = MarkOf(x)
                                     /\ \A h \in (j + 1)..(l - 1) : p[h] \in Projecting(x)
    BY <2>3, <2>4 DEF ProjectedFrom
  <2>6. /\ Len(p) \in Nat /\ a \in Nat
        /\ \A h \in 1..Len(p) : a + h \in 1..Len(q) /\ q[a + h] = p[h]
    BY <1>4, <1>9
  <2>7. k = a + j /\ j \in 1..Len(p)
    BY <2>2
  <2>. HIDE DEF p, a, x
  <2>8. l \in 1..Len(p) /\ a + l \in (k + 1)..Len(q) /\ q[a + l] = MarkOf(x)
    <3>1. l \in 1..Len(p) /\ a + l >= k + 1 /\ a + l \in Nat
      BY <2>5, <2>6, <2>7
    <3>2. a + l \in 1..Len(q) /\ q[a + l] = MarkOf(x)
      BY <2>5, <2>6, <3>1
    <3>. QED BY <1>8, <3>1, <3>2
  <2>9. ASSUME NEW h \in (k + 1)..((a + l) - 1) PROVE q[h] \in Projecting(x)
    <3>1. h - a \in (j + 1)..(l - 1) /\ h - a \in 1..Len(p) /\ a + (h - a) = h
      BY <2>5, <2>6, <2>7
    <3>2. q[a + (h - a)] = p[h - a]
      BY <2>6, <3>1
    <3>. QED BY <2>5, <3>1, <3>2
  <2>10. ProjectedFrom(q, k, x)
    BY <2>8, <2>9 DEF ProjectedFrom
  <2>. QED BY <2>3, <2>4, <2>10 DEF x
<1>18. ASSUME NEW k \in 1..Len(q), q[k].do = "MarkEventProcessed"
       PROVE  \E i : /\ EventfulAt(block, i) /\ q[k] = MarkOf(block.data[i].tx)
                     /\ \A j : EventfulAt(block, j) /\ j < i =>
                          \E l \in 1..Len(q) : l < k /\ q[l] = MarkOf(block.data[j].tx)
  <2>1. PICK m \in 1..Len(ts) : \E j \in 1..Len(parts[m]) : k = o[m] + j /\ q[k] = parts[m][j]
    BY <1>10
  <2>2. EventfulAt(block, at(m)) /\ q[k] \in EventCall(tx(m)) /\ o[m] < k
    <3>1. PICK j \in 1..Len(parts[m]) : k = o[m] + j /\ q[k] = parts[m][j]
      BY <2>1
    <3>2. EventfulAt(block, at(m)) /\ q[k] \in EventCall(tx(m))
      BY <1>12, <1>18, <3>1
    <3>3. o[m] \in Nat /\ Len(parts[m]) \in Nat
      BY <1>4, <1>9
    <3>. QED BY <3>1, <3>2, <3>3
  <2>3. q[k] = MarkOf(tx(m))
    BY <1>18, <2>2, EventCallKinds
  <2>4. ASSUME NEW i, EventfulAt(block, i), i < at(m)
        PROVE  \E l \in 1..Len(q) : l < k /\ q[l] = MarkOf(block.data[i].tx)
    <3>1. PICK n \in 1..Len(ts) : ts[n] = DecodedAt(block, i)
      BY <1>1, <2>4 DEF EventfulAt
    <3>2. at(n) = i
      <4>1. DecodedAt(block, i).index = i
        BY <2>4, DecodedTransaction DEF TransactionAt, EventfulAt
      <4>. QED BY <3>1, <4>1
    <3>3. n < m
      <4>1. at(n) < at(m) /\ at(n) \in Nat /\ at(m) \in Nat
        BY <1>2, <2>4, <3>2
      <4>. HIDE DEF at
      <4>2. m < n => at(m) < at(n)
        BY <1>1
      <4>3. n # m
        BY <4>1
      <4>4. ~(m < n)
        BY <4>1, <4>2
      <4>. QED BY <1>2, <4>3, <4>4
    <3>4. PICK j \in 2..Len(parts[n]) : parts[n][j] = MarkOf(tx(n))
      <4>. DEFINE p == parts[n]
      <4>1. block.filter[at(n)] = "VALID" => (EventfulAt(block, at(n)) => \E h \in 2..Len(p) : p[h] = MarkOf(tx(n)))
        BY <1>4
      <4>2. block.filter[at(n)] = "VALID" /\ EventfulAt(block, at(n))
        BY <2>4, <3>2 DEF EventfulAt
      <4>. QED BY <4>1, <4>2
    <3>5. Len(parts[n]) \in Nat /\ o[n] \in Nat /\ o[n + 1] = o[n] + Len(parts[n]) /\ o[n + 1] <= o[m]
            /\ o[n + 1] \in Nat /\ o[m] \in Nat
      BY <1>4, <1>9, <3>3
    <3>6. j \in 1..Len(parts[n])
      BY <3>5
    <3>7. o[n] + j \in 1..Len(q) /\ q[o[n] + j] = MarkOf(tx(n))
      BY <1>9, <3>4, <3>6
    <3>8. o[n] + j < k
      <4>. DEFINE a == o[n]
                  b == o[n + 1]
                  c == o[m]
                  d == Len(parts[n])
      <4>1. a \in Nat /\ b \in Nat /\ c \in Nat /\ d \in Nat /\ b = a + d /\ b <= c /\ c < k
              /\ j \in 1..d /\ k \in Nat
        BY <2>2, <3>5, <3>6
      <4>. HIDE DEF a, b, c, d
      <4>2. a + j < k
        BY <4>1
      <4>. QED BY <4>2 DEF a
    <3>. QED BY <3>2, <3>7, <3>8
  <2>. QED BY <2>2, <2>3, <2>4
<1>19. ASSUME NEW k \in 1..Len(q), q[k].do \in Projections
       PROVE  \E i : EventfulAt(block, i) /\ q[k] \in Projecting(block.data[i].tx)
  <2>1. PICK m \in 1..Len(ts) : \E j \in 1..Len(parts[m]) : k = o[m] + j /\ q[k] = parts[m][j]
    BY <1>10
  <2>2. EventfulAt(block, at(m)) /\ q[k] \in EventCall(tx(m))
    BY <1>12, <1>19, <2>1
  <2>3. q[k] \in Projecting(tx(m))
    BY <1>19, <2>2, EventCallKinds
  <2>. QED BY <2>2, <2>3
<1>20. Transcribes(q, block)
  <2>. HIDE DEF at, tx
  <2>. QED BY <1>14, <1>15, <1>16, <1>17, <1>18, <1>19, ZenonT(30) DEF Transcribes
<1>. QED BY <1>6, <1>8, <1>13, <1>20

LEMMA ConcatAt ==
  ASSUME NEW S, NEW a \in Seq(S), NEW b \in Seq(S), NEW k \in 1..(Len(a) + Len(b))
  PROVE  (a \o b)[k] = IF k <= Len(a) THEN a[k] ELSE b[k - Len(a)]
  BY ConcatProperties

(* The queue of a block saves the block first and moves the checkpoint last. *)
LEMMA BlockCallsAt ==
  ASSUME NEW block, WellFormed(block), NEW q, q = processBlock(decodeBlock(block))
  PROVE  /\ q \in Seq(AnyCall) /\ Len(q) \in Nat /\ 2 <= Len(q)
         /\ q[1].do = "SaveBlock"
         /\ \A k \in 1..Len(q) : q[k].do = "UpdateCheckpoint" <=> k = Len(q)
         /\ \A k \in 1..Len(q) : q[k].do = "SaveBlock" <=> k = 1
         /\ Transcribes(q, block)
<1>. DEFINE ts == decodeBlock(block)
            f == FlattenSeq([m \in DOMAIN ts |-> TransactionCalls(ts[m])])
            first == <<[do |-> "SaveBlock"]>>
            last == <<[do |-> "UpdateCheckpoint"]>>
            ff == first \o f
            n == Len(f)
<1>1. /\ f \in Seq(AnyCall) /\ n \in Nat
      /\ \A k \in 1..n : f[k].do \notin {"SaveBlock", "UpdateCheckpoint"}
      /\ Transcribes(f, block)
  <2>. HIDE DEF ts
  <2>1. ts = decodeBlock(block)
    BY DEF ts
  <2>. QED BY <2>1, TransactionsCallsAt
<1>2. q = ff \o last
  BY DEF processBlock
<1>. HIDE DEF f
<1>3. first \in Seq(AnyCall) /\ last \in Seq(AnyCall) /\ Len(first) = 1 /\ Len(last) = 1
        /\ first[1].do = "SaveBlock" /\ last[1].do = "UpdateCheckpoint"
  <2>1. [do |-> "SaveBlock"] \in AnyCall /\ [do |-> "UpdateCheckpoint"] \in AnyCall
    BY DEF AnyCall
  <2>. QED BY <2>1
<1>. HIDE DEF first, last
<1>4. /\ ff \in Seq(AnyCall) /\ Len(ff) = Len(first) + n
      /\ \A k \in 1..(Len(first) + n) :
           ff[k] = IF k <= Len(first) THEN first[k] ELSE f[k - Len(first)]
  BY <1>1, <1>3, ConcatProperties
<1>. HIDE DEF ff
<1>5. /\ q \in Seq(AnyCall) /\ Len(q) = Len(ff) + Len(last)
      /\ \A k \in 1..(Len(ff) + Len(last)) :
           q[k] = IF k <= Len(ff) THEN ff[k] ELSE last[k - Len(ff)]
  <2>1. /\ ff \o last \in Seq(AnyCall) /\ Len(ff \o last) = Len(ff) + Len(last)
        /\ \A k \in 1..(Len(ff) + Len(last)) :
             (ff \o last)[k] = IF k <= Len(ff) THEN ff[k] ELSE last[k - Len(ff)]
    <3>1. Len(last) \in Nat /\ Len(ff) \in Nat
      BY <1>1, <1>3, <1>4
    <3>2. ff \o last \in Seq(AnyCall) /\ Len(ff \o last) = Len(ff) + Len(last)
      BY <1>3, <1>4, ConcatProperties, Zenon
    <3>3. \A k \in 1..(Len(ff) + Len(last)) :
             (ff \o last)[k] = IF k <= Len(ff) THEN ff[k] ELSE last[k - Len(ff)]
      BY <1>3, <1>4, ConcatAt, Zenon
    <3>. QED BY <3>2, <3>3
  <2>. QED BY <1>2, <2>1, Zenon
<1>. HIDE DEF n
<1>6. n \in Nat /\ Len(ff) = n + 1 /\ Len(q) = n + 2
  BY <1>1, <1>3, <1>4, <1>5
<1>7. ASSUME NEW k \in 1..n PROVE k + 1 \in 1..Len(q) /\ q[k + 1] = f[k]
  <2>1. /\ k + 1 \in 1..(Len(ff) + Len(last)) /\ k + 1 <= Len(ff)
        /\ k + 1 \in 1..(Len(first) + n) /\ ~(k + 1 <= Len(first)) /\ (k + 1) - Len(first) = k
    BY <1>3, <1>6
  <2>2. q[k + 1] = ff[k + 1]
    BY <1>5, <2>1
  <2>3. ff[k + 1] = f[(k + 1) - Len(first)]
    BY <1>4, <2>1
  <2>. QED BY <1>5, <2>1, <2>2, <2>3
<1>8. q[1].do = "SaveBlock"
  <2>1. 1 \in 1..(Len(ff) + Len(last)) /\ 1 <= Len(ff) /\ 1 \in 1..(Len(first) + n) /\ 1 <= Len(first)
    BY <1>3, <1>6
  <2>2. q[1] = ff[1] /\ ff[1] = first[1]
    BY <1>4, <1>5, <2>1
  <2>. QED BY <1>3, <2>2
<1>9. q[n + 2].do = "UpdateCheckpoint"
  <2>1. n + 2 \in 1..(Len(ff) + Len(last)) /\ ~(n + 2 <= Len(ff)) /\ (n + 2) - Len(ff) = 1
    BY <1>3, <1>6
  <2>2. q[n + 2] = last[1]
    BY <1>5, <2>1
  <2>. QED BY <1>3, <2>2
<1>10. ASSUME NEW k \in 1..Len(q), k # 1, k # n + 2
       PROVE  k - 1 \in 1..n /\ q[k] = f[k - 1] /\ (k - 1) + 1 = k
  <2>1. k - 1 \in 1..n /\ (k - 1) + 1 = k
    BY <1>6, <1>10
  <2>. QED BY <1>7, <2>1
<1>11. \A k \in 1..Len(q) : q[k].do = "UpdateCheckpoint" <=> k = Len(q)
  <2>. SUFFICES ASSUME NEW k \in 1..Len(q) PROVE q[k].do = "UpdateCheckpoint" <=> k = Len(q)
    OBVIOUS
  <2>1. CASE k = 1
    BY <1>6, <1>8, <2>1
  <2>2. CASE k = n + 2
    BY <1>6, <1>9, <2>2
  <2>3. CASE k # 1 /\ k # n + 2
    BY <1>1, <1>6, <1>10, <2>3
  <2>. QED BY <2>1, <2>2, <2>3
<1>12. \A k \in 1..Len(q) : q[k].do = "SaveBlock" <=> k = 1
  <2>. SUFFICES ASSUME NEW k \in 1..Len(q) PROVE q[k].do = "SaveBlock" <=> k = 1
    OBVIOUS
  <2>1. CASE k = 1
    BY <1>8, <2>1
  <2>2. CASE k = n + 2
    BY <1>6, <1>9, <2>2
  <2>3. CASE k # 1 /\ k # n + 2
    BY <1>1, <1>6, <1>10, <2>3
  <2>. QED BY <2>1, <2>2, <2>3
<1>. DEFINE Inner == Projections \cup {"SaveTransaction", "SaveEvent", "MarkEventProcessed"}
<1>13. ASSUME NEW k \in 1..Len(q), q[k].do \in Inner
       PROVE  k - 1 \in 1..n /\ q[k] = f[k - 1] /\ (k - 1) + 1 = k
  <2>1. q[k].do # "SaveBlock" /\ q[k].do # "UpdateCheckpoint"
    BY <1>13 DEF Projections, Writes
  <2>2. k # 1 /\ k # n + 2
    BY <1>8, <1>9, <2>1
  <2>. QED BY <1>10, <2>2
<1>14. ASSUME NEW i, TransactionAt(block, i)
       PROVE  /\ \E k \in 1..Len(q) : q[k] = SaveTransactionAt(block, i)
              /\ block.filter[i] # "VALID" =>
                   \E k \in 1..Len(q) : q[k] = SaveInvalidOf(block.data[i].tx)
              /\ EventfulAt(block, i) => \E k \in 1..Len(q) : q[k] = MarkOf(block.data[i].tx)
  <2>1. /\ \E k \in 1..n : f[k] = SaveTransactionAt(block, i)
        /\ block.filter[i] # "VALID" => \E k \in 1..n : f[k] = SaveInvalidOf(block.data[i].tx)
        /\ EventfulAt(block, i) => \E k \in 1..n : f[k] = MarkOf(block.data[i].tx)
    BY <1>1, <1>14, Zenon DEF Transcribes, n
  <2>. QED BY <1>7, <2>1
<1>15. ASSUME NEW k \in 1..Len(q), q[k].do = "SaveTransaction"
       PROVE  \E i : TransactionAt(block, i) /\ q[k] = SaveTransactionAt(block, i)
  <2>1. k - 1 \in 1..n /\ q[k] = f[k - 1]
    BY <1>13, <1>15
  <2>2. f[k - 1].do = "SaveTransaction"
    BY <1>15, <2>1
  <2>3. PICK i : TransactionAt(block, i) /\ f[k - 1] = SaveTransactionAt(block, i)
    BY <1>1, <2>1, <2>2, Zenon DEF Transcribes, n
  <2>. QED BY <2>1, <2>3
<1>16. ASSUME NEW k \in 1..Len(q), NEW l \in 1..Len(q), k < l,
              q[k].do = "SaveTransaction", q[l].do = "SaveTransaction"
       PROVE  q[k].index < q[l].index
  <2>1. k - 1 \in 1..n /\ q[k] = f[k - 1] /\ l - 1 \in 1..n /\ q[l] = f[l - 1] /\ k - 1 < l - 1
    BY <1>6, <1>13, <1>16
  <2>2. \A i, j \in 1..n :
          i < j /\ f[i].do = "SaveTransaction" /\ f[j].do = "SaveTransaction" => f[i].index < f[j].index
    BY <1>1, Zenon DEF Transcribes, n
  <2>. QED BY <1>16, <2>1, <2>2, Zenon
<1>17. ASSUME NEW k \in 1..Len(q), q[k].do = "SaveEvent"
       PROVE  \E i : /\ EventfulAt(block, i) /\ q[k] = SaveEventOf(block.data[i].tx)
                     /\ ProjectedFrom(q, k, block.data[i].tx)
  <2>0. k - 1 \in 1..n /\ q[k] = f[k - 1] /\ (k - 1) + 1 = k
    BY <1>13, <1>17
  <2>1. PICK i : /\ EventfulAt(block, i) /\ f[k - 1] = SaveEventOf(block.data[i].tx)
                 /\ ProjectedFrom(f, k - 1, block.data[i].tx)
    BY <1>1, <1>17, <2>0, Zenon DEF Transcribes, n
  <2>. DEFINE x == block.data[i].tx
  <2>2. PICK l \in ((k - 1) + 1)..n :
          /\ f[l] = MarkOf(x)
          /\ \A h \in ((k - 1) + 1)..(l - 1) : f[h] \in Projecting(x)
    BY <2>1, Zenon DEF ProjectedFrom, n
  <2>. HIDE DEF x
  <2>3. l \in 1..n /\ l + 1 \in (k + 1)..Len(q) /\ (l + 1) - 1 = l
    BY <1>6, <2>0
  <2>4. q[l + 1] = MarkOf(x)
    BY <1>7, <2>2, <2>3
  <2>5. ASSUME NEW h \in (k + 1)..((l + 1) - 1) PROVE q[h] \in Projecting(x)
    <3>1. h - 1 \in ((k - 1) + 1)..(l - 1) /\ h - 1 \in 1..n /\ (h - 1) + 1 = h
      BY <1>6, <2>3
    <3>2. q[h] = f[h - 1]
      BY <1>7, <3>1
    <3>. QED BY <2>2, <3>1, <3>2
  <2>6. ProjectedFrom(q, k, x)
    BY <2>3, <2>4, <2>5 DEF ProjectedFrom
  <2>. QED BY <2>0, <2>1, <2>6 DEF x
<1>18. ASSUME NEW k \in 1..Len(q), q[k].do = "MarkEventProcessed"
       PROVE  \E i : /\ EventfulAt(block, i) /\ q[k] = MarkOf(block.data[i].tx)
                     /\ \A j : EventfulAt(block, j) /\ j < i =>
                          \E l \in 1..Len(q) : l < k /\ q[l] = MarkOf(block.data[j].tx)
  <2>0. k - 1 \in 1..n /\ q[k] = f[k - 1] /\ (k - 1) + 1 = k
    BY <1>13, <1>18
  <2>1. PICK i : /\ EventfulAt(block, i) /\ f[k - 1] = MarkOf(block.data[i].tx)
                 /\ \A j : EventfulAt(block, j) /\ j < i =>
                      \E l \in 1..n : l < k - 1 /\ f[l] = MarkOf(block.data[j].tx)
    BY <1>1, <1>18, <2>0, Zenon DEF Transcribes, n
  <2>2. ASSUME NEW j, EventfulAt(block, j), j < i
        PROVE  \E l \in 1..Len(q) : l < k /\ q[l] = MarkOf(block.data[j].tx)
    <3>1. PICK l \in 1..n : l < k - 1 /\ f[l] = MarkOf(block.data[j].tx)
      BY <2>1, <2>2
    <3>2. l + 1 \in 1..Len(q) /\ l + 1 < k /\ q[l + 1] = f[l]
      BY <1>6, <1>7, <3>1
    <3>. QED BY <3>1, <3>2
  <2>. QED BY <2>0, <2>1, <2>2
<1>19. ASSUME NEW k \in 1..Len(q), q[k].do \in Projections
       PROVE  \E i : EventfulAt(block, i) /\ q[k] \in Projecting(block.data[i].tx)
  <2>1. k - 1 \in 1..n /\ q[k] = f[k - 1]
    BY <1>13, <1>19
  <2>2. f[k - 1].do \in Projections
    BY <1>19, <2>1
  <2>. QED BY <1>1, <2>1, <2>2, Zenon DEF Transcribes, n
<1>20. Transcribes(q, block)
  BY <1>14, <1>15, <1>16, <1>17, <1>18, <1>19 DEF Transcribes
<1>21. Len(q) \in Nat /\ 2 <= Len(q)
  BY <1>6
<1>. QED BY <1>5, <1>8, <1>11, <1>12, <1>20, <1>21

-----------------------------------------------------------------------------
(* Which statuses a block sets.                                              *)

Emitted(envelope, e) ==
  \E action \in Range(envelope.actions) :
    action.chaincode = ChaincodeName /\ e \in Range(action.events)

(* The decisions that valid transactions of a block emit. *)
DecisionsIn(block) ==
  {e \in Event : Decisive(e) /\ \E i \in DOMAIN block.data :
     /\ TransactionAt(block, i) /\ block.filter[i] = "VALID" /\ Emitted(block.data[i], e)}

Grounded(block) ==
  {c \in AnyCall : c.do = "SetOperationStatus" =>
     \E e \in DecisionsIn(block) : c = StatusOfEvent(e)}

LEMMA DecodedEvents ==
  ASSUME NEW block, WellFormed(block), NEW i \in DOMAIN block.data,
         IsTransaction(block.data[i])
  PROVE  DecodedAt(block, i).events \in Seq({e \in Event : Emitted(block.data[i], e)})
<1>. DEFINE envelope == block.data[i]
            actions == envelope.actions
            E == {e \in Event : Emitted(envelope, e)}
            parts == [j \in DOMAIN actions |-> decodeAction(actions[j])]
<1>1. block.data \in Seq(RawEnvelope)
  BY DEF WellFormed, RawBlock
<1>2. envelope \in RawEnvelope
  BY <1>1, LenProperties, ElementOfSeq
<1>3. actions \in Seq([chaincode: STRING, events: Seq(Event)])
  <2>. HIDE DEF envelope
  <2>. QED BY <1>2 DEF RawEnvelope
<1>4. DOMAIN actions = 1..Len(actions) /\ Len(actions) \in Nat
  BY <1>3, LenProperties
<1>5. ASSUME NEW j \in DOMAIN actions PROVE decodeAction(actions[j]) \in Seq(E)
  <2>. DEFINE action == actions[j]
              es == action.events
  <2>1. action \in [chaincode: STRING, events: Seq(Event)]
    <3>. HIDE DEF actions
    <3>. QED BY <1>3, <1>4, ElementOfSeq
  <2>2. es \in Seq(Event)
    BY <2>1
  <2>3. CASE action.chaincode = ChaincodeName
    <3>1. action \in Range(actions)
      BY DEF Range
    <3>2. \A e \in Range(es) : Emitted(envelope, e)
      BY <2>3, <3>1 DEF Emitted
    <3>3. decodeAction(action) = es
      BY <2>3 DEF decodeAction
    <3>. HIDE DEF es, envelope
    <3>4. DOMAIN es = 1..Len(es) /\ Len(es) \in Nat /\ es \in [1..Len(es) -> Event]
      BY <2>2, LenProperties
    <3>5. \A k \in 1..Len(es) : es[k] \in E
      BY <3>2, <3>4 DEF Range
    <3>6. es \in [1..Len(es) -> E]
      BY <3>4, <3>5
    <3>7. es \in Seq(E)
      BY <3>4, <3>6, SeqDef
    <3>. QED BY <3>3, <3>7
  <2>4. CASE action.chaincode # ChaincodeName
    BY <2>4, EmptySeq DEF decodeAction
  <2>. QED BY <2>3, <2>4
<1>6. parts \in Seq(Seq(E))
  <2>. HIDE DEF actions, E
  <2>1. parts \in [1..Len(actions) -> Seq(E)]
    BY <1>4, <1>5
  <2>. HIDE DEF parts
  <2>. QED BY <1>4, <2>1, SeqDef
<1>7. DecodedAt(block, i).events = FlattenSeq(parts)
  BY DEF DecodedAt, decodeTransaction
<1>. HIDE DEF parts, E
<1>8. FlattenSeq(parts) \in Seq(E)
  BY <1>6, FlattenPositions
<1>. QED BY <1>7, <1>8 DEF E

(* The parts of a sequence of sequences. *)
LEMMA FlattenOf ==
  ASSUME NEW S, NEW n \in Nat, NEW ss, DOMAIN ss = 1..n, ss = [i \in 1..n |-> ss[i]],
         \A i \in 1..n : ss[i] \in Seq(S)
  PROVE  FlattenSeq(ss) \in Seq(S)
<1>1. ss \in [1..n -> Seq(S)]
  OBVIOUS
<1>2. ss \in Seq(Seq(S))
  BY <1>1, SeqDef
<1>. QED BY <1>2, FlattenPositions

LEMMA TransactionGrounded ==
  ASSUME NEW block, WellFormed(block), NEW i \in DOMAIN block.data,
         IsTransaction(block.data[i])
  PROVE  TransactionCalls(DecodedAt(block, i)) \in Seq(Grounded(block))
<1>. DEFINE t == DecodedAt(block, i)
            x == t.id
            es == t.events
            S == Grounded(block)
            parts == [m \in DOMAIN es |-> EventCalls(es[m], x)]
            rest == IF t.code # "VALID" THEN <<SaveInvalidOf(x)>> ELSE FlattenSeq(parts)
<1>1. /\ t \in Decoded /\ x \in TxIds /\ x = block.data[i].tx /\ t.code = block.filter[i]
      /\ es \in Seq(EventOf(x)) /\ TransactionAt(block, i)
  BY DecodedTransaction DEF TransactionAt
<1>2. es \in Seq({e \in Event : Emitted(block.data[i], e)})
  BY DecodedEvents
<1>3. DOMAIN es = 1..Len(es) /\ Len(es) \in Nat
  BY <1>1, LenProperties
<1>4. TransactionCalls(t) = <<SaveTransactionOf(t)>> \o rest
  BY DEF TransactionCalls, SaveTransactionOf, SaveInvalidOf
<1>. HIDE DEF t
<1>5. SaveTransactionOf(t) \in S /\ SaveInvalidOf(x) \in S /\ SaveEventOf(x) \in S /\ MarkOf(x) \in S
  <2>1. SaveTransactionOf(t) \in AnyCall /\ SaveInvalidOf(x) \in AnyCall
          /\ SaveEventOf(x) \in AnyCall /\ MarkOf(x) \in AnyCall
    BY <1>1, CallsAreTyped DEF EventCall
  <2>. QED BY <2>1 DEF Grounded, SaveTransactionOf, SaveInvalidOf, SaveEventOf, MarkOf
<1>6. ASSUME t.code = "VALID", NEW m \in DOMAIN es PROVE EventCalls(es[m], x) \in Seq(S)
  <2>. DEFINE e == es[m]
  <2>1. e \in EventOf(x) /\ e \in Event /\ Emitted(block.data[i], e)
    <3>. HIDE DEF x, es
    <3>. QED BY <1>1, <1>2, <1>3, ElementOfSeq
  <2>2. materialize(e, x) \in Seq(ProjectingOf(e, x)) /\ ProjectingOf(e, x) \subseteq Projecting(x)
    BY <1>1, <2>1, Materialized, ProjectingOfEvent
  <2>3. Decisive(e) => e \in DecisionsIn(block)
    BY <1>1, <1>6, <2>1 DEF DecisionsIn
  <2>. HIDE DEF e, S, x
  <2>4. ProjectingOf(e, x) \subseteq S
    <3>1. Projecting(x) \subseteq AnyCall
      BY <1>1 DEF AnyCall
    <3>2. \A c \in ProjectingOf(e, x) : c.do = "SetOperationStatus" => Decisive(e) /\ c = StatusOfEvent(e)
      BY DEF ProjectingOf, Plain
    <3>. QED BY <2>2, <2>3, <3>1, <3>2 DEF S, Grounded
  <2>5. materialize(e, x) \in Seq(S)
    BY <2>2, <2>4, SeqMonotonic
  <2>6. <<SaveEventOf(x)>> \in Seq(S) /\ <<MarkOf(x)>> \in Seq(S)
    BY <1>5
  <2>7. <<SaveEventOf(x)>> \o materialize(e, x) \in Seq(S)
    BY <2>5, <2>6, ConcatOf, Zenon
  <2>8. EventCalls(e, x) = <<SaveEventOf(x)>> \o materialize(e, x) \o <<MarkOf(x)>>
    BY DEF EventCalls, SaveEventOf, MarkOf
  <2>9. EventCalls(e, x) \in Seq(S)
    BY <2>6, <2>7, <2>8, ConcatOf, Zenon
  <2>. QED BY <2>9 DEF e
<1>7. t.code = "VALID" => FlattenSeq(parts) \in Seq(S)
  <2>. SUFFICES ASSUME t.code = "VALID" PROVE FlattenSeq(parts) \in Seq(S)
    OBVIOUS
  <2>. DEFINE n == Len(es)
  <2>1. DOMAIN parts = 1..n /\ n \in Nat /\ parts = [m \in 1..n |-> parts[m]]
          /\ \A m \in 1..n : parts[m] \in Seq(S)
    <3>. HIDE DEF es, S, x
    <3>. QED BY <1>3, <1>6
  <2>. HIDE DEF parts, S, n
  <2>. QED BY <2>1, FlattenOf
<1>8. rest \in Seq(S) /\ <<SaveTransactionOf(t)>> \in Seq(S)
  <2>. HIDE DEF S, parts, x
  <2>1. <<SaveInvalidOf(x)>> \in Seq(S) /\ <<SaveTransactionOf(t)>> \in Seq(S)
    BY <1>5
  <2>. QED BY <1>7, <2>1
<1>. HIDE DEF rest, S
<1>9. TransactionCalls(t) \in Seq(S)
  BY <1>4, <1>8, ConcatOf, Zenon
<1>. QED BY <1>9 DEF t, S

(* Every status that a block sets is that of a decision in it. *)
LEMMA BlockGrounded ==
  ASSUME NEW block, WellFormed(block)
  PROVE  processBlock(decodeBlock(block)) \in Seq(Grounded(block))
<1>. DEFINE S == Grounded(block)
            ts == decodeBlock(block)
            parts == [m \in DOMAIN ts |-> TransactionCalls(ts[m])]
            n == Len(ts)
            first == <<[do |-> "SaveBlock"]>>
            last == <<[do |-> "UpdateCheckpoint"]>>
<1>1. /\ ts \in Seq(Decoded)
      /\ \A m \in 1..n : /\ ts[m].index \in DOMAIN block.data
                         /\ IsTransaction(block.data[ts[m].index])
                         /\ ts[m] = DecodedAt(block, ts[m].index)
  BY DecodedBlock
<1>2. DOMAIN ts = 1..n /\ n \in Nat
  <2>. HIDE DEF ts
  <2>. QED BY <1>1, LenProperties
<1>3. \A m \in 1..n : TransactionCalls(ts[m]) \in Seq(S)
  <2>. HIDE DEF ts, S
  <2>. QED BY <1>1, TransactionGrounded DEF S
<1>4. FlattenSeq(parts) \in Seq(S)
  <2>1. DOMAIN parts = 1..n /\ parts = [m \in 1..n |-> parts[m]] /\ \A m \in 1..n : parts[m] \in Seq(S)
    <3>. HIDE DEF ts, S
    <3>. QED BY <1>2, <1>3
  <2>. HIDE DEF parts, S, n
  <2>. QED BY <1>2, <2>1, FlattenOf
<1>5. first \in Seq(S) /\ last \in Seq(S)
  <2>1. [do |-> "SaveBlock"] \in S /\ [do |-> "UpdateCheckpoint"] \in S
    BY DEF Grounded, AnyCall
  <2>. HIDE DEF S
  <2>. QED BY <2>1
<1>6. processBlock(ts) = first \o FlattenSeq(parts) \o last
  BY DEF processBlock
<1>. HIDE DEF first, last, parts, S
<1>7. first \o FlattenSeq(parts) \in Seq(S)
  BY <1>4, <1>5, ConcatOf, Zenon
<1>8. processBlock(ts) \in Seq(S)
  BY <1>5, <1>6, <1>7, ConcatOf, Zenon
<1>. QED BY <1>8 DEF ts, S

-----------------------------------------------------------------------------

(* The tables. *)
AuditRow ==
  [operation: TxIds, before: {"requested"}, after: {"accepted", "committed", "cancelled"},
   tx: TxIds \cup {Nil}]
Encumbrance ==
  [owner: Users \cup {Nil}, token: Tokens, amount: Int, operation: TxIds,
   status: {"active", "released"}]
Balance == [available: Int, encumbered: Int, version: Nat]

Database ==
  [blocks       : SUBSET Nat,
   transactions : [TxIds -> [block: Nat, index: Nat, code: STRING] \cup {Nil}],
   invalid      : [TxIds -> Nat \cup {Nil}],
   events       : [TxIds -> {"absent", "stored", "processed"}],
   balances     : [Users -> [Tokens -> Balance]],
   prices       : [Tokens -> Int \cup {Nil}],
   operations   : [TxIds -> Operation \cup {Nil}],
   encumbrances : Seq(Encumbrance),
   audit        : Seq(AuditRow),
   checkpoint   : [height: Nat, hash: Seq(Nat) \cup {Nil}]]

(* The tables ingest writes are those the checkpoint vouches for. *)
SameIngest(d, e) ==
  /\ e.blocks = d.blocks /\ e.transactions = d.transactions /\ e.invalid = d.invalid
  /\ e.events = d.events /\ e.checkpoint = d.checkpoint

LEMMA EmptyTyped == ASSUME NEW h \in Nat PROVE EmptyDatabase(h) \in Database
<1>1. NoBalance \in Balance
  BY DEF NoBalance, Balance
<1>2. <<>> \in Seq(Encumbrance) /\ <<>> \in Seq(AuditRow)
  BY EmptySeq
<1>3. [height |-> h, hash |-> Nil] \in [height: Nat, hash: Seq(Nat) \cup {Nil}]
  OBVIOUS
<1>. HIDE DEF Balance, Encumbrance, AuditRow, Operation
<1>. QED BY <1>1, <1>2, <1>3 DEF EmptyDatabase, Database

-----------------------------------------------------------------------------
(* What each statement leaves of a database, and what it changes.            *)

LEMMA SaveBlockTyped ==
  ASSUME NEW d \in Database, NEW h \in Nat, NEW e, e = SaveBlock(d, h)
  PROVE  /\ e \in Database /\ e.blocks = d.blocks \cup {h}
         /\ e.transactions = d.transactions /\ e.invalid = d.invalid /\ e.events = d.events
         /\ e.checkpoint = d.checkpoint /\ e.operations = d.operations /\ e.audit = d.audit
<1>1. d.blocks \cup {h} \in SUBSET Nat
  BY DEF Database
<1>. QED BY <1>1 DEF Database, SaveBlock

LEMMA SaveTransactionTyped ==
  ASSUME NEW d \in Database, NEW h \in Nat, NEW x \in TxIds, NEW i \in Nat, NEW code \in STRING,
         NEW e, e = SaveTransaction(d, x, h, i, code)
  PROVE  /\ e \in Database
         /\ e.transactions[x] = [block |-> h, index |-> i, code |-> code]
         /\ \A y \in TxIds : y # x => e.transactions[y] = d.transactions[y]
         /\ e.blocks = d.blocks /\ e.invalid = d.invalid /\ e.events = d.events
         /\ e.checkpoint = d.checkpoint /\ e.operations = d.operations /\ e.audit = d.audit
<1>. DEFINE row == [block |-> h, index |-> i, code |-> code]
            ts == [d.transactions EXCEPT ![x] = row]
<1>1. row \in [block: Nat, index: Nat, code: STRING]
  OBVIOUS
<1>. HIDE DEF row
<1>2. ts \in [TxIds -> [block: Nat, index: Nat, code: STRING] \cup {Nil}]
        /\ ts[x] = row /\ \A y \in TxIds : y # x => ts[y] = d.transactions[y]
  BY <1>1 DEF Database
<1>3. e = [d EXCEPT !.transactions = ts]
  BY DEF SaveTransaction, Database, row
<1>. HIDE DEF ts
<1>4. e \in Database /\ e.transactions = ts
  BY <1>2, <1>3 DEF Database
<1>. QED BY <1>2, <1>3, <1>4 DEF Database, row

LEMMA SaveInvalidTyped ==
  ASSUME NEW d \in Database, NEW h \in Nat, NEW x \in TxIds,
         NEW e, e = SaveInvalidTransaction(d, x, h)
  PROVE  /\ e \in Database /\ e.invalid[x] = h
         /\ \A y \in TxIds : y # x => e.invalid[y] = d.invalid[y]
         /\ e.blocks = d.blocks /\ e.transactions = d.transactions /\ e.events = d.events
         /\ e.checkpoint = d.checkpoint /\ e.operations = d.operations /\ e.audit = d.audit
<1>. DEFINE ts == [d.invalid EXCEPT ![x] = h]
<1>2. ts \in [TxIds -> Nat \cup {Nil}]
        /\ ts[x] = h /\ \A y \in TxIds : y # x => ts[y] = d.invalid[y]
  BY DEF Database
<1>3. e = [d EXCEPT !.invalid = ts]
  BY DEF SaveInvalidTransaction, Database
<1>. HIDE DEF ts
<1>4. e \in Database /\ e.invalid = ts
  BY <1>2, <1>3 DEF Database
<1>. QED BY <1>2, <1>3, <1>4 DEF Database

(* Saving or marking an event gives it a new state. *)
LEMMA EventTyped ==
  ASSUME NEW d \in Database, NEW x \in TxIds, NEW e,
         e = SaveEvent(d, x) \/ e = MarkEventProcessed(d, x)
  PROVE  /\ e \in Database
         /\ e.events[x] = IF e = MarkEventProcessed(d, x) THEN "processed"
                          ELSE IF d.events[x] = "absent" THEN "stored" ELSE d.events[x]
         /\ \A y \in TxIds : y # x => e.events[y] = d.events[y]
         /\ e.blocks = d.blocks /\ e.transactions = d.transactions /\ e.invalid = d.invalid
         /\ e.checkpoint = d.checkpoint /\ e.operations = d.operations /\ e.audit = d.audit
<1>. DEFINE v == IF e = MarkEventProcessed(d, x) THEN "processed"
                 ELSE IF d.events[x] = "absent" THEN "stored" ELSE d.events[x]
            ts == [d.events EXCEPT ![x] = v]
<1>1. v \in {"absent", "stored", "processed"}
  BY DEF Database
<1>3. e = [d EXCEPT !.events = ts]
  BY DEF SaveEvent, MarkEventProcessed, Database
<1>. HIDE DEF v
<1>2. ts \in [TxIds -> {"absent", "stored", "processed"}]
        /\ ts[x] = v /\ \A y \in TxIds : y # x => ts[y] = d.events[y]
  BY <1>1 DEF Database
<1>. HIDE DEF ts
<1>4. e \in Database /\ e.events = ts
  BY <1>2, <1>3 DEF Database
<1>5. /\ e.blocks = d.blocks /\ e.transactions = d.transactions /\ e.invalid = d.invalid
      /\ e.checkpoint = d.checkpoint /\ e.operations = d.operations /\ e.audit = d.audit
  BY <1>3 DEF Database
<1>. QED BY <1>2, <1>4, <1>5 DEF v

LEMMA UpdateCheckpointTyped ==
  ASSUME NEW d \in Database, NEW h \in Nat, NEW s \in Seq(Nat), NEW e,
         e = UpdateCheckpoint(d, h, s)
  PROVE  /\ e \in Database
         /\ e.checkpoint.height = IF h > d.checkpoint.height THEN h ELSE d.checkpoint.height
         /\ e.checkpoint.hash = s
         /\ e.blocks = d.blocks /\ e.transactions = d.transactions /\ e.invalid = d.invalid
         /\ e.events = d.events /\ e.operations = d.operations /\ e.audit = d.audit
<1>. DEFINE c == [height |-> IF h > d.checkpoint.height THEN h ELSE d.checkpoint.height,
                  hash |-> s]
<1>1. d.checkpoint.height \in Nat
  BY DEF Database
<1>2. c \in [height: Nat, hash: Seq(Nat) \cup {Nil}]
  BY <1>1
<1>3. e = [d EXCEPT !.checkpoint = c]
  BY DEF UpdateCheckpoint
<1>4. c.height = (IF h > d.checkpoint.height THEN h ELSE d.checkpoint.height) /\ c.hash = s
  OBVIOUS
<1>. HIDE DEF c
<1>5. e \in Database /\ e.checkpoint = c
  BY <1>2, <1>3 DEF Database
<1>. QED BY <1>3, <1>4, <1>5 DEF Database

LEMMA BalanceTyped ==
  ASSUME NEW d \in Database, NEW u, NEW t \in Tokens, NEW a \in Int, NEW b \in Int,
         NEW e, e = UpsertBalanceDelta(d, u, t, a, b)
  PROVE  /\ e \in Database /\ SameIngest(d, e) /\ e.operations = d.operations /\ e.audit = d.audit
<1>. DEFINE row == [available  |-> d.balances[u][t].available + a,
                    encumbered |-> d.balances[u][t].encumbered + b,
                    version    |-> d.balances[u][t].version + 1]
            mine == [d.balances[u] EXCEPT ![t] = row]
            bs == [d.balances EXCEPT ![u] = mine]
<1>1. d.balances \in [Users -> [Tokens -> Balance]]
  BY DEF Database
<1>2. u \in Users => mine \in [Tokens -> Balance]
  <2>. SUFFICES ASSUME u \in Users PROVE mine \in [Tokens -> Balance]
    OBVIOUS
  <2>1. d.balances[u] \in [Tokens -> Balance]
    BY <1>1
  <2>2. d.balances[u][t] \in Balance
    BY <2>1
  <2>3. /\ d.balances[u][t].available \in Int /\ d.balances[u][t].encumbered \in Int
        /\ d.balances[u][t].version \in Nat
    BY <2>2 DEF Balance
  <2>4. row \in Balance
    BY <2>3 DEF Balance
  <2>. HIDE DEF row
  <2>. QED BY <2>1, <2>4
<1>3. e = [d EXCEPT !.balances = bs]
  BY DEF UpsertBalanceDelta
<1>. HIDE DEF mine
<1>4. bs \in [Users -> [Tokens -> Balance]]
  BY <1>1, <1>2
<1>. HIDE DEF bs, Balance, Operation, AuditRow, Encumbrance
<1>5. e \in Database
  BY <1>3, <1>4 DEF Database
<1>. QED BY <1>3, <1>5 DEF SameIngest, Database

LEMMA PriceTyped ==
  ASSUME NEW d \in Database, NEW t \in Tokens, NEW a \in Int, NEW e, e = UpsertTokenPrice(d, t, a)
  PROVE  /\ e \in Database /\ SameIngest(d, e) /\ e.operations = d.operations /\ e.audit = d.audit
<1>. DEFINE ps == [d.prices EXCEPT ![t] = a]
<1>1. ps \in [Tokens -> Int \cup {Nil}]
  BY DEF Database
<1>2. e = [d EXCEPT !.prices = ps]
  BY DEF UpsertTokenPrice
<1>. HIDE DEF ps, Balance, Operation, AuditRow, Encumbrance
<1>3. e \in Database
  BY <1>1, <1>2 DEF Database
<1>. QED BY <1>2, <1>3 DEF SameIngest, Database

(* The operations table, whoever writes it. *)
LEMMA OperationsTyped ==
  ASSUME NEW d \in Database, NEW ops \in [TxIds -> Operation \cup {Nil}],
         NEW e, e = [d EXCEPT !.operations = ops]
  PROVE  e \in Database /\ SameIngest(d, e) /\ e.operations = ops /\ e.audit = d.audit
<1>. USE DEF Database
<1>. HIDE DEF Balance, Operation, AuditRow, Encumbrance
<1>1. e \in Database
  OBVIOUS
<1>. QED BY <1>1 DEF SameIngest

LEMMA InsertOperationTyped ==
  ASSUME NEW d \in Database, NEW x \in TxIds, NEW row \in Operation,
         NEW e, e = InsertOperationFromEvent(d, x, row)
  PROVE  /\ e \in Database /\ SameIngest(d, e) /\ e.audit = d.audit
         /\ e.operations[x] = IF d.operations[x] = Nil THEN row ELSE d.operations[x]
         /\ \A y \in TxIds : y # x => e.operations[y] = d.operations[y]
<1>. DEFINE ops == [d.operations EXCEPT ![x] = IF d.operations[x] = Nil THEN row ELSE d.operations[x]]
<1>1. d.operations \in [TxIds -> Operation \cup {Nil}]
  BY DEF Database
<1>2. /\ ops \in [TxIds -> Operation \cup {Nil}]
      /\ ops[x] = IF d.operations[x] = Nil THEN row ELSE d.operations[x]
      /\ \A y \in TxIds : y # x => ops[y] = d.operations[y]
  BY <1>1
<1>3. e = [d EXCEPT !.operations = ops]
  BY DEF InsertOperationFromEvent
<1>. HIDE DEF ops
<1>. QED BY <1>2, <1>3, OperationsTyped

StatusSet(d, e, x, status) ==
  /\ e \in Database /\ SameIngest(d, e) /\ e.audit = d.audit
  /\ d.operations[x] = Nil => e = d
  /\ d.operations[x] # Nil => e.operations[x] \in Operation /\ e.operations[x].status = status
  /\ \A y \in TxIds : y # x => e.operations[y] = d.operations[y]

LEMMA SetStatusTyped ==
  ASSUME NEW d \in Database, NEW x \in TxIds,
         NEW status \in {"requested", "accepted", "committed", "cancelled"},
         NEW e, e = SetOperationStatus(d, x, status)
  PROVE  StatusSet(d, e, x, status)
<1>. USE DEF StatusSet
<1>1. d.operations \in [TxIds -> Operation \cup {Nil}]
  BY DEF Database
<1>2. CASE d.operations[x] = Nil
  <2>1. e = d
    BY <1>2 DEF SetOperationStatus
  <2>. QED BY <1>2, <2>1 DEF SameIngest
<1>3. CASE d.operations[x] # Nil
  <2>. DEFINE row == [d.operations[x] EXCEPT !.status = status]
              ops == [d.operations EXCEPT ![x] = row]
  <2>1. d.operations[x] \in Operation
    BY <1>1, <1>3
  <2>2. row \in Operation /\ row.status = status
    BY <2>1 DEF Operation
  <2>3. e = [d EXCEPT !.operations = ops]
    BY <1>3 DEF SetOperationStatus
  <2>. HIDE DEF row
  <2>5. /\ ops \in [TxIds -> Operation \cup {Nil}] /\ ops[x] = row
        /\ \A y \in TxIds : y # x => ops[y] = d.operations[y]
    BY <1>1, <2>2
  <2>. HIDE DEF ops
  <2>6. e \in Database /\ SameIngest(d, e) /\ e.operations = ops /\ e.audit = d.audit
    BY <2>3, <2>5, OperationsTyped
  <2>. QED BY <1>3, <2>2, <2>5, <2>6
<1>. QED BY <1>2, <1>3

LEMMA EncumbrancesTyped ==
  ASSUME NEW d \in Database, NEW es \in Seq(Encumbrance), NEW e, e = [d EXCEPT !.encumbrances = es]
  PROVE  e \in Database /\ SameIngest(d, e) /\ e.operations = d.operations /\ e.audit = d.audit
<1>. USE DEF Database
<1>. HIDE DEF Balance, Operation, AuditRow, Encumbrance
<1>1. e \in Database
  OBVIOUS
<1>. QED BY <1>1 DEF SameIngest

LEMMA InsertEncumbranceTyped ==
  ASSUME NEW d \in Database, NEW u \in Users \cup {Nil}, NEW t \in Tokens, NEW a \in Int,
         NEW x \in TxIds, NEW e, e = InsertEncumbrance(d, u, t, a, x)
  PROVE  e \in Database /\ SameIngest(d, e) /\ e.operations = d.operations /\ e.audit = d.audit
<1>. DEFINE row == [owner |-> u, token |-> t, amount |-> a, operation |-> x, status |-> "active"]
            es == Append(d.encumbrances, row)
<1>1. row \in Encumbrance
  BY DEF Encumbrance
<1>2. d.encumbrances \in Seq(Encumbrance)
  BY DEF Database
<1>3. e = [d EXCEPT !.encumbrances = es]
  BY DEF InsertEncumbrance
<1>. HIDE DEF row
<1>4. es \in Seq(Encumbrance)
  BY <1>1, <1>2, AppendProperties
<1>. HIDE DEF es
<1>. QED BY <1>3, <1>4, EncumbrancesTyped

LEMMA ReleaseEncumbranceTyped ==
  ASSUME NEW d \in Database, NEW x, NEW e, e = ReleaseEncumbrance(d, x)
  PROVE  e \in Database /\ SameIngest(d, e) /\ e.operations = d.operations /\ e.audit = d.audit
<1>. DEFINE old == d.encumbrances
            released(i) == IF old[i].operation = x /\ old[i].status = "active"
                             THEN [old[i] EXCEPT !.status = "released"] ELSE old[i]
            es == [i \in DOMAIN old |-> released(i)]
<1>1. old \in Seq(Encumbrance)
  BY DEF Database
<1>2. DOMAIN old = 1..Len(old) /\ Len(old) \in Nat /\ \A i \in 1..Len(old) : old[i] \in Encumbrance
  <2>. HIDE DEF old
  <2>. QED BY <1>1, LenProperties, ElementOfSeq
<1>3. \A i \in DOMAIN old : released(i) \in Encumbrance
  <2>. HIDE DEF old
  <2>. QED BY <1>2 DEF Encumbrance
<1>4. es \in [1..Len(old) -> Encumbrance]
  <2>. HIDE DEF old, released
  <2>. QED BY <1>2, <1>3
<1>5. e = [d EXCEPT !.encumbrances = es]
  BY DEF ReleaseEncumbrance
<1>. HIDE DEF es, old
<1>6. es \in Seq(Encumbrance)
  BY <1>2, <1>4, SeqDef
<1>. QED BY <1>5, <1>6, EncumbrancesTyped

LEMMA AuditTyped ==
  ASSUME NEW d \in Database, NEW x \in TxIds, NEW status \in {"accepted", "committed", "cancelled"},
         NEW t \in TxIds \cup {Nil}, NEW e, e = InsertAuditTrail(d, x, status, t)
  PROVE  /\ e \in Database /\ SameIngest(d, e) /\ e.operations = d.operations
         /\ Len(d.audit) \in Nat /\ Len(e.audit) = Len(d.audit) + 1
         /\ \A i \in 1..Len(d.audit) : e.audit[i] = d.audit[i]
         /\ e.audit[Len(d.audit) + 1] =
              [operation |-> x, before |-> "requested", after |-> status, tx |-> t]
<1>. DEFINE row == [operation |-> x, before |-> "requested", after |-> status, tx |-> t]
            as == Append(d.audit, row)
<1>1. row \in AuditRow
  BY DEF AuditRow
<1>2. d.audit \in Seq(AuditRow)
  BY DEF Database
<1>3. e = [d EXCEPT !.audit = as]
  BY DEF InsertAuditTrail
<1>. HIDE DEF row
<1>4. /\ as \in Seq(AuditRow) /\ Len(d.audit) \in Nat /\ Len(as) = Len(d.audit) + 1
      /\ \A i \in 1..Len(d.audit) : as[i] = d.audit[i]
      /\ as[Len(d.audit) + 1] = row
  BY <1>1, <1>2, AppendProperties, LenProperties
<1>. HIDE DEF as, Balance, Operation, AuditRow, Encumbrance
<1>5. e \in Database /\ e.audit = as
  BY <1>3, <1>4 DEF Database
<1>6. SameIngest(d, e) /\ e.operations = d.operations
  BY <1>3 DEF Database, SameIngest
<1>. QED BY <1>4, <1>5, <1>6 DEF row

MappingType == mapping \in [Identities -> Users \cup {Nil}]

(* What a statement of the projection can do to the operations and to the    *)
(* audit trail.                                                              *)
OperationsStep(d, e, x, c) ==
  \A y \in TxIds :
    \/ e.operations[y] = d.operations[y]
    \/ /\ d.operations[y] = Nil /\ y = x /\ c.do = "InsertOperationFromEvent"
       /\ e.operations[y] \in Operation /\ e.operations[y].status = "requested"
    \/ /\ d.operations[y] # Nil /\ c.do = "SetOperationStatus" /\ y = c.id
       /\ e.operations[y] \in Operation /\ e.operations[y].status = c.status
AuditStep(d, e, x, c) ==
  /\ Len(d.audit) \in Nat
  /\ \/ e.audit = d.audit
     \/ /\ Len(e.audit) = Len(d.audit) + 1
        /\ \A i \in 1..Len(d.audit) : e.audit[i] = d.audit[i]
        /\ e.audit[Len(d.audit) + 1] \in Rows /\ e.audit[Len(d.audit) + 1].tx = x
        /\ c.do = "InsertAuditTrail" /\ c.tx = x

(* The kinds of statements and their fields. *)
LEMMA WriteFields ==
  ASSUME NEW x \in TxIds, NEW c \in Projecting(x), c.do \in Writes
  PROVE  \/ /\ c.do = "UpsertBalanceDelta" /\ c.owner \in Identities \cup {Nil} /\ c.token \in Tokens
            /\ c.available \in Int /\ c.encumbered \in Int
         \/ c.do = "UpsertTokenPrice" /\ c.token \in Tokens /\ c.price \in Int
         \/ c.do = "InsertOperationFromEvent" /\ c.id = x /\ c.row \in Row
         \/ c.do = "SetOperationStatus" /\ c.id \in TxIds /\ c.status \in {"committed", "cancelled"}
         \/ /\ c.do = "InsertEncumbrance" /\ c.id \in TxIds /\ c.owner \in Identities
            /\ c.token \in Tokens /\ c.amount \in Int
         \/ c.do = "ReleaseEncumbrance" /\ c.id \in TxIds
         \/ /\ c.do = "InsertAuditTrail" /\ c.id \in TxIds /\ c.tx = x
            /\ c.status \in {"committed", "cancelled"}
<1>. HIDE DEF Row
<1>1. c.do \notin {"ResolveFabricIdentity", "canonicalizePayload"}
  BY DEF Writes
<1>. QED BY <1>1 DEF Projecting

LEMMA EffectTyped ==
  ASSUME MappingType, NEW d \in Database, NEW x \in TxIds, NEW c \in Projecting(x),
         c.do \in Writes, NEW e, e = Effect(d, c)
  PROVE  /\ e \in Database /\ SameIngest(d, e)
         /\ OperationsStep(d, e, x, c) /\ AuditStep(d, e, x, c)
<1>0. Len(d.audit) \in Nat
  <2>1. d.audit \in Seq(AuditRow)
    BY DEF Database
  <2>. QED BY <2>1, LenProperties
<1>1. CASE c.do = "UpsertBalanceDelta"
  <2>1. e = UpsertBalanceDelta(d, UserOf(c.owner), c.token, c.available, c.encumbered)
    BY <1>1 DEF Effect
  <2>2. c.token \in Tokens /\ c.available \in Int /\ c.encumbered \in Int
    BY <1>1, WriteFields
  <2>3. e \in Database /\ SameIngest(d, e) /\ e.operations = d.operations /\ e.audit = d.audit
    BY <2>1, <2>2, BalanceTyped
  <2>. QED BY <1>0, <2>3 DEF OperationsStep, AuditStep
<1>2. CASE c.do = "UpsertTokenPrice"
  <2>1. e = UpsertTokenPrice(d, c.token, c.price)
    BY <1>2 DEF Effect
  <2>2. c.token \in Tokens /\ c.price \in Int
    BY <1>2, WriteFields
  <2>3. e \in Database /\ SameIngest(d, e) /\ e.operations = d.operations /\ e.audit = d.audit
    BY <2>1, <2>2, PriceTyped
  <2>. QED BY <1>0, <2>3 DEF OperationsStep, AuditStep
<1>3. CASE c.do = "InsertOperationFromEvent"
  <2>. DEFINE row == [c.row EXCEPT !.requestedBy = mapping[c.row.requestedBy]]
  <2>1. e = InsertOperationFromEvent(d, c.id, row)
    BY <1>3 DEF Effect
  <2>2. c.id = x /\ c.row \in Row
    BY <1>3, WriteFields
  <2>3. row \in Operation /\ row.status = "requested"
    <3>1. mapping[c.row.requestedBy] \in Users \cup {Nil}
      BY <2>2 DEF MappingType, Row
    <3>. QED BY <2>2, <3>1 DEF Row, Operation
  <2>. HIDE DEF row
  <2>4. /\ e \in Database /\ SameIngest(d, e) /\ e.audit = d.audit
        /\ e.operations[x] = IF d.operations[x] = Nil THEN row ELSE d.operations[x]
        /\ \A y \in TxIds : y # x => e.operations[y] = d.operations[y]
    BY <2>1, <2>2, <2>3, InsertOperationTyped
  <2>5. OperationsStep(d, e, x, c)
    BY <1>3, <2>3, <2>4 DEF OperationsStep
  <2>. QED BY <1>0, <2>4, <2>5 DEF AuditStep
<1>4. CASE c.do = "SetOperationStatus"
  <2>1. e = SetOperationStatus(d, c.id, c.status)
    BY <1>4 DEF Effect
  <2>2. c.id \in TxIds /\ c.status \in {"requested", "accepted", "committed", "cancelled"}
    BY <1>4, WriteFields
  <2>. DEFINE id == c.id
              status == c.status
  <2>3. StatusSet(d, e, id, status)
    <3>1. e = SetOperationStatus(d, id, status) /\ id \in TxIds
            /\ status \in {"requested", "accepted", "committed", "cancelled"}
      BY <2>1, <2>2
    <3>. HIDE DEF id, status
    <3>. QED BY <3>1, SetStatusTyped, Zenon
  <2>4. OperationsStep(d, e, x, c)
    BY <1>4, <2>2, <2>3 DEF OperationsStep, StatusSet
  <2>. QED BY <1>0, <2>3, <2>4 DEF AuditStep, StatusSet
<1>5. CASE c.do = "InsertEncumbrance"
  <2>1. e = InsertEncumbrance(d, mapping[c.owner], c.token, c.amount, c.id)
    BY <1>5 DEF Effect
  <2>2. c.id \in TxIds /\ c.token \in Tokens /\ c.amount \in Int /\ mapping[c.owner] \in Users \cup {Nil}
    <3>1. c.id \in TxIds /\ c.token \in Tokens /\ c.amount \in Int /\ c.owner \in Identities
      BY <1>5, WriteFields
    <3>. QED BY <3>1 DEF MappingType
  <2>3. e \in Database /\ SameIngest(d, e) /\ e.operations = d.operations /\ e.audit = d.audit
    <3>. DEFINE owner == mapping[c.owner]
                token == c.token
                amount == c.amount
                id == c.id
    <3>1. e = InsertEncumbrance(d, owner, token, amount, id) /\ id \in TxIds /\ token \in Tokens
            /\ amount \in Int /\ owner \in Users \cup {Nil}
      BY <2>1, <2>2
    <3>. HIDE DEF owner, token, amount, id
    <3>. QED BY <3>1, InsertEncumbranceTyped
  <2>. QED BY <1>0, <2>3 DEF OperationsStep, AuditStep
<1>6. CASE c.do = "ReleaseEncumbrance"
  <2>1. e = ReleaseEncumbrance(d, c.id)
    BY <1>6 DEF Effect
  <2>2. e \in Database /\ SameIngest(d, e) /\ e.operations = d.operations /\ e.audit = d.audit
    BY <2>1, ReleaseEncumbranceTyped
  <2>. QED BY <1>0, <2>2 DEF OperationsStep, AuditStep
<1>7. CASE c.do = "InsertAuditTrail"
  <2>1. e = InsertAuditTrail(d, c.id, c.status, c.tx)
    BY <1>7 DEF Effect
  <2>2. c.id \in TxIds /\ c.status \in {"committed", "cancelled"} /\ c.tx = x
    BY <1>7, WriteFields
  <2>. DEFINE row == [operation |-> c.id, before |-> "requested", after |-> c.status, tx |-> x]
  <2>3. /\ e \in Database /\ SameIngest(d, e) /\ e.operations = d.operations
        /\ Len(e.audit) = Len(d.audit) + 1
        /\ \A i \in 1..Len(d.audit) : e.audit[i] = d.audit[i]
        /\ e.audit[Len(d.audit) + 1] = row
    BY <2>1, <2>2, AuditTyped
  <2>4. row \in Rows /\ row.tx = x
    BY <2>2 DEF Rows
  <2>. HIDE DEF row
  <2>. QED BY <1>0, <1>7, <2>2, <2>3, <2>4 DEF OperationsStep, AuditStep
<1>. QED BY <1>1, <1>2, <1>3, <1>4, <1>5, <1>6, <1>7 DEF Writes

-----------------------------------------------------------------------------
(* Where a processor is in the calls of its block.                           *)

CallsOf(h) == processBlock(decodeBlock(chain[h]))

(* Two calls are the same but for the identities in the row of an operation, *)
(* which canonicalizePayload replaces as it goes.                            *)
SameCall(c, d) ==
  \/ c = d
  \/ /\ c.do = "InsertOperationFromEvent" /\ d.do = "InsertOperationFromEvent"
     /\ \E x \in TxIds : c \in Projecting(x) /\ d \in Projecting(x)

(* s is what is left of q after its first k calls. *)
Remains(s, q, k) ==
  /\ s \in Seq(AnyCall) /\ Len(q) = k + Len(s)
  /\ \A i \in 1..Len(s) : SameCall(s[i], q[k + i])

LEMMA SameDo == ASSUME NEW c, NEW d, SameCall(c, d) PROVE c.do = d.do
  BY DEF SameCall

LEMMA RemainsTail ==
  ASSUME NEW s, NEW q, NEW k \in Nat, Remains(s, q, k), s # <<>>
  PROVE  /\ Remains(Tail(s), q, k + 1) /\ k + 1 \in 1..Len(q)
         /\ Head(s) \in AnyCall /\ SameCall(Head(s), q[k + 1])
<1>1. /\ Tail(s) \in Seq(AnyCall) /\ Len(Tail(s)) = Len(s) - 1 /\ Len(s) \in Nat \ {0}
      /\ \A i \in 1..Len(Tail(s)) : Tail(s)[i] = s[i + 1]
  BY HeadTailProperties, LenProperties, EmptySeq DEF Remains
<1>2. Head(s) = s[1] /\ Head(s) \in AnyCall
  <2>1. s \in Seq(AnyCall)
    BY DEF Remains
  <2>2. Head(s) \in AnyCall
    BY <2>1, HeadTailProperties
  <2>3. Head(s) = s[1]
    OBVIOUS
  <2>. QED BY <2>2, <2>3
<1>3. Len(q) = (k + 1) + Len(Tail(s)) /\ k + 1 \in 1..Len(q) /\ 1 \in 1..Len(s)
  BY <1>1 DEF Remains
<1>4. \A i \in 1..Len(Tail(s)) : SameCall(Tail(s)[i], q[(k + 1) + i])
  <2>. SUFFICES ASSUME NEW i \in 1..Len(Tail(s)) PROVE SameCall(Tail(s)[i], q[(k + 1) + i])
    OBVIOUS
  <2>1. i + 1 \in 1..Len(s) /\ (k + 1) + i = k + (i + 1)
    BY <1>1
  <2>2. SameCall(s[i + 1], q[k + (i + 1)])
    BY <2>1 DEF Remains
  <2>. QED BY <1>1, <2>1, <2>2
<1>. QED BY <1>1, <1>2, <1>3, <1>4 DEF Remains

(* The first of some positions, 0 where there is none. *)
LEMMA FirstOf ==
  ASSUME NEW I, I \subseteq Nat \ {0}, NEW i, i = IF I # {} THEN Min(I) ELSE 0
  PROVE  i \in Nat /\ (i = 0 => I = {}) /\ (i # 0 => i \in I /\ \A j \in I : i <= j)
<1>1. CASE I = {}
  BY <1>1
<1>2. CASE I # {}
  BY <1>2, MinOfNats
<1>. QED BY <1>1, <1>2

(* Skipping an event leaves what follows its mark. *)
LEMMA RemainsAfterEvent ==
  ASSUME NEW s, NEW q, NEW k \in Nat, Remains(s, q, k), s # <<>>, Len(q) \in Nat,
         SameCall(s[1], q[k + 1]), s[1].do = "SaveEvent",
         NEW x, ProjectedFrom(q, k + 1, x)
  PROVE  \E l \in (k + 2)..Len(q) :
            /\ Remains(AfterEvent(s), q, l) /\ q[l] = MarkOf(x)
            /\ \A j \in (k + 2)..(l - 1) : q[j] \in Projecting(x)
<1>1. PICK l \in ((k + 1) + 1)..Len(q) :
        q[l] = MarkOf(x) /\ \A j \in ((k + 1) + 1)..(l - 1) : q[j] \in Projecting(x)
  BY DEF ProjectedFrom
<1>. DEFINE I == {j \in 1..Len(s) : s[j].do = "MarkEventProcessed"}
            i == IF I # {} THEN Min(I) ELSE 0
            n == Len(s)
<1>2. n \in Nat /\ Len(q) = k + n /\ s \in Seq(AnyCall)
  BY LenProperties DEF Remains
<1>3. i \in Nat /\ (i = 0 => I = {}) /\ (i # 0 => i \in I /\ \A j \in I : i <= j)
  <2>1. I \subseteq Nat \ {0}
    BY <1>2
  <2>. HIDE DEF I
  <2>. QED BY <2>1, FirstOf
<1>4. AfterEvent(s) = SubSeq(s, i + 1, n)
  BY DEF AfterEvent, SelectInSeq
<1>5. \A j \in 1..n : s[j].do = q[k + j].do
  BY SameDo DEF Remains
<1>. DEFINE m == l - k
<1>6. m \in 1..n /\ k + m = l /\ m > 1
  BY <1>1, <1>2
<1>7. m \in I
  <2>1. q[l].do = "MarkEventProcessed"
    BY <1>1 DEF MarkOf
  <2>. QED BY <1>5, <1>6, <2>1
<1>8. \A j \in I : m <= j
  <2>. SUFFICES ASSUME NEW j \in 1..n, s[j].do = "MarkEventProcessed", j < m PROVE FALSE
    BY <1>2, <1>6
  <2>1. CASE j = 1
    BY <2>1
  <2>2. CASE j # 1
    <3>1. k + j \in ((k + 1) + 1)..(l - 1)
      BY <1>2, <1>6, <2>2
    <3>2. q[k + j].do \in Projections
      BY <1>1, <3>1, ProjectingDo
    <3>. QED BY <1>5, <3>2 DEF Projections, Writes
  <2>. QED BY <2>1, <2>2
<1>9. i = m
  <2>. HIDE DEF I, i, m
  <2>1. i \in I
    BY <1>3, <1>7
  <2>2. i <= m /\ m <= i
    BY <1>3, <1>7, <1>8, <2>1
  <2>. QED BY <1>3, <1>6, <2>2
<1>. DEFINE t == SubSeq(s, m + 1, n)
<1>10. AfterEvent(s) = t
  BY <1>4, <1>9
<1>. HIDE DEF I, i, m
<1>11. /\ t \in Seq(AnyCall) /\ Len(t) = n - m
       /\ \A j \in 1..Len(t) : t[j] = s[m + j] /\ m + j \in 1..n
  <2>1. \A j \in (m + 1)..n : s[j] \in AnyCall
    BY <1>2, <1>6, ElementOfSeq
  <2>2. /\ t \in Seq(AnyCall) /\ Len(t) = IF m + 1 <= n THEN n - (m + 1) + 1 ELSE 0
        /\ \A j \in 1..(n - (m + 1) + 1) : t[j] = s[(m + 1) + j - 1]
    BY <1>2, <1>6, <2>1, SubSeqProperties
  <2>3. Len(t) = n - m
    BY <1>2, <1>6, <2>2
  <2>4. ASSUME NEW j \in 1..Len(t) PROVE t[j] = s[m + j] /\ m + j \in 1..n
    <3>1. j \in 1..(n - (m + 1) + 1) /\ (m + 1) + j - 1 = m + j /\ m + j \in 1..n
      BY <1>2, <1>6, <2>3
    <3>. QED BY <2>2, <3>1
  <2>. QED BY <2>2, <2>3, <2>4
<1>. HIDE DEF t
<1>12. Remains(t, q, l)
  <2>1. Len(q) = l + Len(t)
    <3>1. m \in Nat /\ l = k + m /\ Len(q) = k + n /\ Len(t) = n - m /\ n \in Nat
      BY <1>2, <1>6, <1>11
    <3>. HIDE DEF n
    <3>. QED BY <3>1
  <2>2. ASSUME NEW j \in 1..Len(t) PROVE SameCall(t[j], q[l + j])
    <3>1. k + (m + j) = l + j
      <4>1. m \in Nat /\ l \in Nat /\ k + m = l
        BY <1>1, <1>2, <1>6
      <4>2. j \in Nat
        BY <1>2, <1>6, <1>11
      <4>. QED BY <4>1, <4>2
    <3>2. SameCall(s[m + j], q[k + (m + j)])
      BY <1>11 DEF Remains
    <3>. QED BY <1>11, <3>1, <3>2
  <2>. QED BY <1>11, <2>1, <2>2 DEF Remains
<1>13. l \in (k + 2)..Len(q) /\ (k + 1) + 1 = k + 2
  BY <1>1, <1>2
<1>. QED BY <1>1, <1>10, <1>12, <1>13

(* Replacing an identity in the row of the operation to be inserted. *)
LEMMA RemainsCanonical ==
  ASSUME NEW s, NEW q, NEW k, Remains(s, q, k),
         NEW field \in {"owner", "counterparty"}, NEW user \in Users
  PROVE  Remains(Canonical(s, field, user), q, k)
<1>. DEFINE I == {j \in 1..Len(s) : s[j].do = "InsertOperationFromEvent"}
            i == IF I # {} THEN Min(I) ELSE 0
            n == Len(s)
            t == Canonical(s, field, user)
<1>2. n \in Nat /\ Len(q) = k + n /\ s \in Seq(AnyCall) /\ DOMAIN s = 1..n
      /\ \A j \in 1..n : s[j] \in AnyCall
  BY LenProperties, ElementOfSeq DEF Remains
<1>3. i \in Nat /\ (i = 0 => I = {}) /\ (i # 0 => i \in I /\ \A j \in I : i <= j)
  <2>1. I \subseteq Nat \ {0}
    BY <1>2
  <2>. HIDE DEF I
  <2>. QED BY <2>1, FirstOf
<1>4. t = [s EXCEPT ![i].row[field] = user]
  BY DEF Canonical, SelectInSeq
<1>5. i # 0 => i \in 1..n /\ s[i].do = "InsertOperationFromEvent"
  BY <1>3
<1>. HIDE DEF I, i
<1>6. CASE i = 0
  <2>1. t = s
    <3>1. i \notin DOMAIN s
      BY <1>2, <1>6
    <3>. HIDE DEF t, n
    <3>. QED BY <1>2, <1>4, <3>1
  <2>. QED BY <2>1
<1>7. CASE i # 0
  <2>. DEFINE c == [s[i] EXCEPT !.row = [s[i].row EXCEPT ![field] = user]]
  <2>1. t = [s EXCEPT ![i] = c]
    BY <1>4
  <2>2. PICK x \in TxIds : s[i] \in Projecting(x)
    <3>1. s[i] \in AnyCall /\ s[i].do = "InsertOperationFromEvent"
      BY <1>2, <1>5, <1>7
    <3>. HIDE DEF t, n
    <3>. QED BY <3>1 DEF AnyCall
  <2>3. s[i].do = "InsertOperationFromEvent"
    BY <1>5, <1>7
  <2>4. s[i] \in [do: {"InsertOperationFromEvent"}, id: {x}, row: Row]
    BY <2>2, <2>3 DEF Projecting
  <2>5. [s[i].row EXCEPT ![field] = user] \in Row
    BY <2>4 DEF Row
  <2>6. c \in [do: {"InsertOperationFromEvent"}, id: {x}, row: Row]
    <3>. DEFINE row == [s[i].row EXCEPT ![field] = user]
    <3>1. row \in Row
      BY <2>5
    <3>2. c = [s[i] EXCEPT !.row = row]
      OBVIOUS
    <3>. HIDE DEF row, c, Row
    <3>. QED BY <2>4, <3>1, <3>2
  <2>7. c \in Projecting(x) /\ c.do = "InsertOperationFromEvent"
    <3>. HIDE DEF c, Row
    <3>. QED BY <2>6 DEF Projecting
  <2>. HIDE DEF c, t
  <2>8. c \in AnyCall
    BY <2>7 DEF AnyCall
  <2>9. t \in Seq(AnyCall) /\ Len(t) = n /\ t[i] = c /\ \A j \in 1..n : j # i => t[j] = s[j]
    <3>1. i \in 1..n
      BY <1>5, <1>7
    <3>2. t \in Seq(AnyCall) /\ Len(t) = Len(s)
      BY <1>2, <2>1, <2>8, <3>1, ExceptSeq
    <3>. QED BY <1>2, <2>1, <3>1, <3>2
  <2>10. ASSUME NEW j \in 1..n PROVE SameCall(t[j], q[k + j])
    <3>1. SameCall(s[j], q[k + j])
      BY DEF Remains
    <3>2. CASE j # i
      BY <2>9, <3>1, <3>2
    <3>3. CASE j = i
      <4>1. t[j] = c /\ SameCall(s[i], q[k + i])
        BY <2>9, <3>1, <3>3
      <4>2. CASE s[i] = q[k + i]
        BY <2>2, <2>3, <2>7, <3>3, <4>1, <4>2 DEF SameCall
      <4>3. ASSUME NEW y \in TxIds, s[i] \in Projecting(y), q[k + i] \in Projecting(y),
                   q[k + i].do = "InsertOperationFromEvent"
            PROVE  SameCall(c, q[k + i])
        <5>1. y = x
          BY <2>3, <2>4, <4>3 DEF Projecting
        <5>. QED BY <2>7, <4>3, <5>1 DEF SameCall
      <4>4. SameCall(c, q[k + i])
        <5>. HIDE DEF n
        <5>. QED BY <4>1, <4>2, <4>3, <3>3 DEF SameCall
      <4>. QED BY <3>3, <4>1, <4>4
    <3>. QED BY <3>2, <3>3
  <2>. HIDE DEF n
  <2>11. Len(q) = k + Len(t)
    BY <1>2, <2>9 DEF n
  <2>12. \A j \in 1..Len(t) : SameCall(t[j], q[k + j])
    BY <2>9, <2>10
  <2>. QED BY <2>9, <2>11, <2>12 DEF Remains, t
<1>. QED BY <1>6, <1>7

-----------------------------------------------------------------------------
(* The steps of a processor, by what they do to its queue and to the         *)
(* database.                                                                 *)

Phases == {"starting", "reconciling", "reconnecting", "running", "down"}

(* The database e once a processor that has block h in hand has made call c. *)
Made(d, h, c, e) ==
  \/ c.do = "SaveBlock" /\ e = SaveBlock(d, h)
  \/ c.do = "SaveTransaction" /\ e = SaveTransaction(d, c.tx, h, c.index, c.code)
  \/ c.do = "SaveInvalidTransaction" /\ e = SaveInvalidTransaction(d, c.tx, h)
  \/ c.do = "SaveEvent" /\ e = SaveEvent(d, c.tx)
  \/ c.do = "MarkEventProcessed" /\ e = MarkEventProcessed(d, c.tx)
  \/ c.do \in Writes /\ e = Effect(d, c)
  \/ c.do = "UpdateCheckpoint" /\ e = UpdateCheckpoint(d, h, <<h>>)
  \/ c.do \in {"ResolveFabricIdentity", "canonicalizePayload"} /\ e = d

Control ==
  /\ phase \in [Processors -> Phases] /\ next \in [Processors -> Nat]
  /\ todo \in [Processors -> Seq(AnyCall)] /\ faults \in Nat
  /\ \A p \in Processors : phase[p] # "running" => todo[p] = <<>>

(* An answer that sends call c's block back, and one that lets it go on. *)
Blocked(c) == Malformed(c) \/ (c.do = "ResolveFabricIdentity" /\ mapping[c.identity] = Nil)
Passes(c) ==
  /\ ~Blocked(c)
  /\ c.do = "SaveEvent" => db.events[c.tx] # "processed"

Idles(p) ==
  /\ todo'[p] = <<>> /\ phase'[p] # "running" /\ phase'[p] \in Phases
  /\ phase[p] = "running" /\ todo[p] # <<>> /\ faults' = faults => Blocked(Head(todo[p]))
  /\ next'[p] \in {next[p], db.checkpoint.height}
  /\ phase'[p] = "reconciling" => next'[p] = db.checkpoint.height
  /\ \/ db' = db
     \/ phase[p] = "reconciling" /\ db' = UpdateCheckpoint(db, next[p], <<>>)

Subscribes(p) ==
  /\ phase[p] # "running" /\ todo'[p] = <<>> /\ phase'[p] = "running"
  /\ next'[p] = db.checkpoint.height + 1 /\ db' = db

Receives(p) ==
  /\ phase'[p] = "running" /\ phase[p] = "running" /\ todo[p] = <<>> /\ next'[p] = next[p]
  /\ next[p] \in DOMAIN chain /\ todo'[p] = CallsOf(next[p]) /\ db' = db

Busy(p) == phase[p] = "running" /\ phase'[p] = "running" /\ todo[p] # <<>>

Calls(p) ==
  /\ Busy(p) /\ next'[p] = next[p] /\ Passes(Head(todo[p]))
  /\ Made(db, next[p], Head(todo[p]), db') /\ Head(todo[p]).do # "UpdateCheckpoint"
  /\ \/ /\ todo'[p] = Tail(todo[p])
        /\ Head(todo[p]).do = "canonicalizePayload" /\ faults' = faults
             => mapping[Head(todo[p]).identity] = Nil
     \/ LET c == Head(todo[p])
        IN  /\ c.do = "canonicalizePayload" /\ mapping[c.identity] # Nil
            /\ todo'[p] = Canonical(Tail(todo[p]), c.field, mapping[c.identity])

Skips(p) ==
  /\ Busy(p) /\ next'[p] = next[p] /\ db' = db
  /\ Head(todo[p]).do = "SaveEvent" /\ db.events[Head(todo[p]).tx] = "processed"
  /\ todo'[p] = AfterEvent(todo[p])

Completes(p) ==
  /\ Busy(p) /\ next'[p] = next[p] + 1 /\ todo'[p] = Tail(todo[p])
  /\ Head(todo[p]).do = "UpdateCheckpoint"
  /\ db' = UpdateCheckpoint(db, next[p], <<next[p]>>)

Does(p) == Idles(p) \/ Subscribes(p) \/ Receives(p) \/ Calls(p) \/ Skips(p) \/ Completes(p)

Moves(p) ==
  /\ Does(p) /\ chain' = chain /\ mapping' = mapping
  /\ DOMAIN phase' = Processors /\ DOMAIN next' = Processors /\ DOMAIN todo' = Processors
  /\ phase' = [phase EXCEPT ![p] = phase'[p]]
  /\ next' = [next EXCEPT ![p] = next'[p]]
  /\ todo' = [todo EXCEPT ![p] = todo'[p]]
  /\ faults' = faults \/ (faults < MaxFaults /\ faults' = faults + 1)

Acts(p) ==
  \/ Process(p)
  \/ ReconcileFails(p) \/ CanonicalizeFails(p) \/ Fail(p) \/ Crash(p) \/ Restart(p)

LEMMA ErrorMoves ==
  ASSUME Control, NEW p \in Processors, Blocked(Head(todo[p])), Error(p) PROVE Moves(p)
  BY DEF Control, Error, Moves, Does, Idles, Phases

LEMMA ReplyMoves ==
  ASSUME Control, NEW p \in Processors, phase[p] = "running", todo[p] # <<>>,
         NEW d, Made(db, next[p], Head(todo[p]), d), Passes(Head(todo[p])),
         Head(todo[p]).do # "UpdateCheckpoint",
         Head(todo[p]).do = "canonicalizePayload" => mapping[Head(todo[p]).identity] = Nil,
         Reply(p, d)
  PROVE  Moves(p)
<1>. USE DEF Control, Reply, Return
<1>1. Calls(p)
  BY DEF Calls, Busy
<1>. QED BY <1>1 DEF Moves, Does

LEMMA WriteMoves ==
  ASSUME Control, NEW p \in Processors, CallWrite(p) PROVE Moves(p)
<1>1. PICK do \in Writes :
        Call(p, do) /\ IF Malformed(Head(todo[p])) THEN Error(p) ELSE Reply(p, Effect(db, Head(todo[p])))
  BY DEF CallWrite
<1>2. CASE Malformed(Head(todo[p]))
  BY <1>1, <1>2, ErrorMoves DEF Blocked
<1>3. CASE ~Malformed(Head(todo[p]))
  <2>1. Reply(p, Effect(db, Head(todo[p])))
    BY <1>1, <1>3
  <2>2. Head(todo[p]).do \in Writes /\ phase[p] = "running" /\ todo[p] # <<>>
    BY <1>1 DEF Call
  <2>3. Made(db, next[p], Head(todo[p]), Effect(db, Head(todo[p])))
    BY <2>2 DEF Made
  <2>4. /\ Passes(Head(todo[p]))
        /\ Head(todo[p]).do \notin {"UpdateCheckpoint", "canonicalizePayload"}
    BY <1>3, <2>2 DEF Writes, Passes, Blocked
  <2>. QED BY <2>1, <2>2, <2>3, <2>4, ReplyMoves
<1>. QED BY <1>2, <1>3

LEMMA ActsMove == ASSUME Control, NEW p \in Processors, Acts(p) PROVE Moves(p)
<1>. USE DEF Call
<1>1. CASE ReconcileRead(p)
  BY <1>1 DEF ReconcileRead, Control, Moves, Does, Idles, Phases, GetCheckpointHeight
<1>2. CASE ReconcileWrite(p)
  BY <1>2 DEF ReconcileWrite, Control, Moves, Does, Idles, Phases
<1>3. CASE Subscribe(p)
  BY <1>3 DEF Subscribe, Control, Moves, Does, Subscribes, Phases, GetCheckpointHeight
<1>4. CASE ReceiveBlock(p)
  <2>1. CASE Undecodable(chain[next[p]])
    BY <1>4, <2>1 DEF ReceiveBlock, Control, Moves, Does, Idles, Phases
  <2>2. CASE ~Undecodable(chain[next[p]])
    <3>1. todo' = [todo EXCEPT ![p] = CallsOf(next[p])]
      BY <1>4, <2>2 DEF ReceiveBlock, CallsOf
    <3>2. Receives(p)
      BY <1>4, <2>2, <3>1 DEF ReceiveBlock, Control, Receives
    <3>. QED BY <1>4, <2>2, <3>1, <3>2 DEF ReceiveBlock, Control, Moves, Does
  <2>. QED BY <2>1, <2>2
<1>5. CASE CallSaveBlock(p)
  BY <1>5, ReplyMoves DEF CallSaveBlock, Made, Passes, Blocked, Malformed
<1>6. CASE CallSaveTransaction(p)
  BY <1>6, ReplyMoves DEF CallSaveTransaction, Made, Passes, Blocked, Malformed
<1>7. CASE CallSaveInvalidTransaction(p)
  BY <1>7, ReplyMoves DEF CallSaveInvalidTransaction, Made, Passes, Blocked, Malformed
<1>8. CASE CallSaveEvent(p)
  <2>1. CASE ShouldProcess(db, Head(todo[p]).tx)
    BY <1>8, <2>1, ReplyMoves DEF CallSaveEvent, Made, Passes, Blocked, Malformed, ShouldProcess
  <2>2. CASE ~ShouldProcess(db, Head(todo[p]).tx)
    <3>1. Return(p, db, AfterEvent(todo[p]))
      BY <1>8, <2>2 DEF CallSaveEvent
    <3>2. Skips(p)
      BY <1>8, <2>2, <3>1 DEF CallSaveEvent, Return, Skips, Busy, Control, ShouldProcess
    <3>. QED BY <3>1, <3>2 DEF Return, Control, Moves, Does
  <2>. QED BY <2>1, <2>2
<1>9. CASE CallResolveFabricIdentity(p)
  <2>1. CASE mapping[Head(todo[p]).identity] = Nil
    BY <1>9, <2>1, ErrorMoves DEF CallResolveFabricIdentity, Blocked
  <2>2. CASE mapping[Head(todo[p]).identity] # Nil
    BY <1>9, <2>2, ReplyMoves DEF CallResolveFabricIdentity, Made, Passes, Blocked, Malformed
  <2>. QED BY <2>1, <2>2
<1>10. CASE CallCanonicalizePayload(p)
  <2>1. CASE mapping[Head(todo[p]).identity] = Nil
    BY <1>10, <2>1, ReplyMoves DEF CallCanonicalizePayload, Reply, Made, Passes, Blocked, Malformed
  <2>2. CASE mapping[Head(todo[p]).identity] # Nil
    <3>1. Return(p, db, Canonical(Tail(todo[p]), Head(todo[p]).field, mapping[Head(todo[p]).identity]))
      BY <1>10, <2>2 DEF CallCanonicalizePayload
    <3>2. Calls(p)
      BY <1>10, <2>2, <3>1 DEF CallCanonicalizePayload, Return, Calls, Busy, Control, Made, Passes, Blocked, Malformed
    <3>. QED BY <3>1, <3>2 DEF Return, Control, Moves, Does
  <2>. QED BY <2>1, <2>2
<1>11. CASE CanonicalizeFails(p)
  <2>1. faults' # faults
    BY <1>11 DEF CanonicalizeFails, Control
  <2>2. Calls(p)
    <3>1. Passes(Head(todo[p]))
      BY <1>11 DEF CanonicalizeFails, Passes, Blocked, Malformed
    <3>. QED BY <1>11, <2>1, <3>1 DEF CanonicalizeFails, Calls, Busy, Control, Made
  <2>. QED BY <1>11, <2>2 DEF CanonicalizeFails, Control, Moves, Does
<1>12. CASE CallWrite(p)
  BY <1>12, WriteMoves
<1>13. CASE CallMarkEventProcessed(p)
  BY <1>13, ReplyMoves DEF CallMarkEventProcessed, Made, Passes, Blocked, Malformed
<1>14. CASE CallUpdateCheckpoint(p)
  <2>1. Completes(p)
    BY <1>14 DEF CallUpdateCheckpoint, Completes, Busy, Control
  <2>. QED BY <1>14, <2>1 DEF CallUpdateCheckpoint, Control, Moves, Does
<1>15. CASE ReconcileFails(p)
  BY <1>15 DEF ReconcileFails, Control, Moves, Does, Idles, Phases
<1>16. CASE Fail(p)
  BY <1>16 DEF Fail, Control, Moves, Does, Idles, Phases
<1>17. CASE Crash(p)
  BY <1>17 DEF Crash, Control, Moves, Does, Idles, Phases
<1>18. CASE Restart(p)
  BY <1>18 DEF Restart, Control, Moves, Does, Idles, Phases
<1>. QED
  BY <1>1, <1>2, <1>3, <1>4, <1>5, <1>6, <1>7, <1>8, <1>9, <1>10, <1>11, <1>12, <1>13,
     <1>14, <1>15, <1>16, <1>17, <1>18 DEF Acts, Process

-----------------------------------------------------------------------------
(* What a call leaves of a database.                                         *)

(* Nothing that is recorded is forgotten. *)
Grows(d, e) ==
  /\ d.blocks \subseteq e.blocks
  /\ \A x \in TxIds : d.invalid[x] # Nil => e.invalid[x] # Nil
  /\ \A x \in TxIds : d.events[x] = "processed" => e.events[x] = "processed"
  /\ d.checkpoint.height <= e.checkpoint.height

(* The trace that call c of block h leaves for good. *)
Executed(d, c, h) ==
  /\ c.do = "SaveBlock" => h \in d.blocks
  /\ c.do = "SaveInvalidTransaction" => d.invalid[c.tx] # Nil
  /\ c.do = "MarkEventProcessed" => d.events[c.tx] = "processed"

(* What appears in e was not in d before call c for that transaction. *)
Explains(d, h, c, e) ==
  /\ \A y \in TxIds :
       \/ e.events[y] = d.events[y]
       \/ c = MarkOf(y)
       \/ c = SaveEventOf(y) /\ d.events[y] = "absent" /\ e.events[y] = "stored"
  /\ \A y \in TxIds :
       \/ e.operations[y] = d.operations[y] \/ d.operations[y] # Nil
       \/ c.do = "InsertOperationFromEvent" /\ c \in Projecting(y)
  /\ \A i \in 1..Len(e.audit) :
       \/ i \in 1..Len(d.audit) /\ e.audit[i] = d.audit[i]
       \/ c.do = "InsertAuditTrail" /\ e.audit[i] \in Rows /\ e.audit[i].tx = c.tx
  /\ \A y \in TxIds :
       \/ e.transactions[y] = d.transactions[y]
       \/ /\ c.do = "SaveTransaction" /\ c.tx = y
          /\ e.transactions[y] = [block |-> h, index |-> c.index, code |-> c.code]

LEMMA CallFields ==
  ASSUME NEW c \in AnyCall
  PROVE  /\ c.do = "SaveTransaction" => c.tx \in TxIds /\ c.index \in Nat /\ c.code \in STRING
         /\ c.do \in {"SaveInvalidTransaction", "SaveEvent", "MarkEventProcessed"} => c.tx \in TxIds
         /\ c.do = "SaveEvent" => c = SaveEventOf(c.tx)
         /\ c.do = "MarkEventProcessed" => c = MarkOf(c.tx)
         /\ c.do \in Projections => \E x \in TxIds : c \in Projecting(x)
<1>. USE DEF Projections, Writes
<1>1. CASE c \in [do: {"SaveBlock", "UpdateCheckpoint"}]
  BY <1>1
<1>2. CASE c \in [do: {"SaveTransaction"}, tx: TxIds, index: Nat, code: STRING]
  BY <1>2
<1>3. CASE c \in [do: {"SaveInvalidTransaction", "SaveEvent", "MarkEventProcessed"}, tx: TxIds]
  BY <1>3 DEF SaveEventOf, MarkOf
<1>4. CASE \E x \in TxIds : c \in Projecting(x)
  <2>1. c.do \in Projections
    BY <1>4, ProjectingDo
  <2>. QED BY <1>4, <2>1
<1>. QED BY <1>1, <1>2, <1>3, <1>4 DEF AnyCall

LEMMA SameIngestGrows ==
  ASSUME NEW d \in Database, NEW e, SameIngest(d, e) PROVE Grows(d, e)
<1>1. d.checkpoint.height \in Nat
  BY DEF Database
<1>. QED BY <1>1 DEF SameIngest, Grows

LEMMA WriteExplained ==
  ASSUME MappingType, NEW d \in Database, NEW h, NEW c \in AnyCall, c.do \in Writes,
         NEW e, e = Effect(d, c)
  PROVE  e \in Database /\ SameIngest(d, e) /\ Explains(d, h, c, e)
<1>1. PICK x \in TxIds : c \in Projecting(x)
  BY CallFields DEF Projections
<1>2. e \in Database /\ SameIngest(d, e) /\ OperationsStep(d, e, x, c) /\ AuditStep(d, e, x, c)
  BY <1>1, EffectTyped
<1>3. \A i \in 1..Len(e.audit) :
        \/ i \in 1..Len(d.audit) /\ e.audit[i] = d.audit[i]
        \/ c.do = "InsertAuditTrail" /\ e.audit[i] \in Rows /\ e.audit[i].tx = c.tx
  <2>1. CASE e.audit = d.audit
    BY <2>1
  <2>2. CASE e.audit # d.audit
    <3>1. /\ Len(d.audit) \in Nat /\ Len(e.audit) = Len(d.audit) + 1
          /\ \A i \in 1..Len(d.audit) : e.audit[i] = d.audit[i]
          /\ e.audit[Len(d.audit) + 1] \in Rows /\ e.audit[Len(d.audit) + 1].tx = x
          /\ c.do = "InsertAuditTrail" /\ c.tx = x
      BY <1>2, <2>2 DEF AuditStep
    <3>2. ASSUME NEW i \in 1..Len(e.audit), i \notin 1..Len(d.audit) PROVE i = Len(d.audit) + 1
      BY <3>1, <3>2
    <3>. QED BY <1>1, <3>1, <3>2
  <2>. QED BY <2>1, <2>2
<1>4. \A y \in TxIds :
        \/ e.operations[y] = d.operations[y] \/ d.operations[y] # Nil
        \/ c.do = "InsertOperationFromEvent" /\ c \in Projecting(y)
  BY <1>1, <1>2 DEF OperationsStep
<1>5. e.events = d.events /\ e.transactions = d.transactions
  BY <1>2 DEF SameIngest
<1>. QED BY <1>2, <1>3, <1>4, <1>5 DEF Explains

LEMMA MadeTyped ==
  ASSUME MappingType, NEW d \in Database, NEW h \in Nat, NEW c \in AnyCall,
         NEW e, Made(d, h, c, e)
  PROVE  /\ e \in Database /\ Grows(d, e) /\ Executed(e, c, h) /\ Explains(d, h, c, e)
         /\ c.do # "UpdateCheckpoint" => e.checkpoint = d.checkpoint
         /\ e.blocks \in {d.blocks, d.blocks \cup {h}}
<1>0. /\ d.checkpoint.height \in Nat
      /\ \A x \in TxIds : d.invalid[x] \in Nat \cup {Nil}
  BY DEF Database
<1>. USE CallFields
<1>1. CASE c.do = "SaveBlock"
  <2>1. e = SaveBlock(d, h)
    BY <1>1 DEF Made, Writes
  <2>2. /\ e \in Database /\ e.blocks = d.blocks \cup {h}
        /\ e.transactions = d.transactions /\ e.invalid = d.invalid /\ e.events = d.events
        /\ e.checkpoint = d.checkpoint /\ e.operations = d.operations /\ e.audit = d.audit
    BY <2>1, SaveBlockTyped
  <2>. QED BY <1>0, <1>1, <2>2 DEF Grows, Executed, Explains
<1>2. CASE c.do = "SaveTransaction"
  <2>1. e = SaveTransaction(d, c.tx, h, c.index, c.code)
    BY <1>2 DEF Made, Writes
  <2>. DEFINE x == c.tx
              n == c.index
              code == c.code
  <2>2. x \in TxIds /\ n \in Nat /\ code \in STRING
    BY <1>2
  <2>3. e = SaveTransaction(d, x, h, n, code)
    BY <2>1
  <2>. HIDE DEF x, n, code
  <2>4. /\ e \in Database
        /\ e.transactions[x] = [block |-> h, index |-> n, code |-> code]
        /\ \A y \in TxIds : y # x => e.transactions[y] = d.transactions[y]
        /\ e.blocks = d.blocks /\ e.invalid = d.invalid /\ e.events = d.events
        /\ e.checkpoint = d.checkpoint /\ e.operations = d.operations /\ e.audit = d.audit
    BY <2>2, <2>3, SaveTransactionTyped
  <2>5. Explains(d, h, c, e)
    BY <1>2, <2>4 DEF Explains, x, n, code
  <2>. QED BY <1>0, <1>2, <2>4, <2>5 DEF Grows, Executed
<1>3. CASE c.do = "SaveInvalidTransaction"
  <2>1. e = SaveInvalidTransaction(d, c.tx, h)
    BY <1>3 DEF Made, Writes
  <2>. DEFINE x == c.tx
  <2>2. x \in TxIds /\ e = SaveInvalidTransaction(d, x, h)
    BY <1>3, <2>1
  <2>. HIDE DEF x
  <2>3. /\ e \in Database /\ e.invalid[x] = h
        /\ \A y \in TxIds : y # x => e.invalid[y] = d.invalid[y]
        /\ e.blocks = d.blocks /\ e.transactions = d.transactions /\ e.events = d.events
        /\ e.checkpoint = d.checkpoint /\ e.operations = d.operations /\ e.audit = d.audit
    BY <2>2, SaveInvalidTyped
  <2>4. h # Nil
    BY NilAssumption
  <2>5. Executed(e, c, h)
    BY <1>3, <2>3, <2>4 DEF Executed, x
  <2>6. Grows(d, e)
    BY <1>0, <2>3, <2>4 DEF Grows
  <2>7. Explains(d, h, c, e)
    BY <1>3, <2>3 DEF Explains
  <2>. QED BY <2>3, <2>5, <2>6, <2>7
<1>4. CASE c.do \in {"SaveEvent", "MarkEventProcessed"}
  <2>. DEFINE x == c.tx
  <2>1. x \in TxIds /\ (e = SaveEvent(d, x) \/ e = MarkEventProcessed(d, x))
    BY <1>4 DEF Made, Writes
  <2>2. c.do = "SaveEvent" => c = SaveEventOf(x) /\ e = SaveEvent(d, x)
    BY DEF Made, Writes
  <2>3. c.do = "MarkEventProcessed" => c = MarkOf(x) /\ e = MarkEventProcessed(d, x)
    BY DEF Made, Writes
  <2>. HIDE DEF x
  <2>4. /\ e \in Database
        /\ e.events[x] = IF e = MarkEventProcessed(d, x) THEN "processed"
                         ELSE IF d.events[x] = "absent" THEN "stored" ELSE d.events[x]
        /\ \A y \in TxIds : y # x => e.events[y] = d.events[y]
        /\ e.blocks = d.blocks /\ e.transactions = d.transactions /\ e.invalid = d.invalid
        /\ e.checkpoint = d.checkpoint /\ e.operations = d.operations /\ e.audit = d.audit
    BY <2>1, EventTyped
  <2>5. c.do = "SaveEvent" => e.events[x] = IF d.events[x] = "absent" THEN "stored" ELSE d.events[x]
    <3>. SUFFICES ASSUME c.do = "SaveEvent"
                  PROVE e.events[x] = IF d.events[x] = "absent" THEN "stored" ELSE d.events[x]
      OBVIOUS
    <3>. DEFINE v == IF d.events[x] = "absent" THEN "stored" ELSE d.events[x]
    <3>1. e.events = [d.events EXCEPT ![x] = v]
      BY <2>2 DEF SaveEvent, Database
    <3>2. DOMAIN d.events = TxIds
      BY DEF Database
    <3>. HIDE DEF v
    <3>3. e.events[x] = v
      BY <2>1, <3>1, <3>2
    <3>. QED BY <3>3 DEF v
  <2>6. Executed(e, c, h)
    BY <1>4, <2>3, <2>4 DEF Executed, x
  <2>7. Grows(d, e)
    BY <1>0, <1>4, <2>1, <2>3, <2>4, <2>5 DEF Grows
  <2>8. Explains(d, h, c, e)
    <3>1. \A y \in TxIds : \/ e.events[y] = d.events[y]
                           \/ c = MarkOf(y)
                           \/ c = SaveEventOf(y) /\ d.events[y] = "absent" /\ e.events[y] = "stored"
      BY <1>4, <2>2, <2>3, <2>4, <2>5
    <3>. QED BY <2>4, <3>1 DEF Explains
  <2>. QED BY <1>4, <2>4, <2>6, <2>7, <2>8
<1>5. CASE c.do \in Writes
  <2>1. e = Effect(d, c)
    BY <1>5 DEF Made, Writes
  <2>2. e \in Database /\ SameIngest(d, e) /\ Explains(d, h, c, e)
    BY <1>5, <2>1, WriteExplained
  <2>3. Executed(e, c, h)
    BY <1>5 DEF Executed, Writes
  <2>4. Grows(d, e)
    BY <2>2, SameIngestGrows
  <2>. QED BY <2>2, <2>3, <2>4 DEF SameIngest
<1>6. CASE c.do = "UpdateCheckpoint"
  <2>1. e = UpdateCheckpoint(d, h, <<h>>)
    BY <1>6 DEF Made, Writes
  <2>. DEFINE s == <<h>>
  <2>2. s \in Seq(Nat) /\ e = UpdateCheckpoint(d, h, s)
    BY <2>1
  <2>. HIDE DEF s
  <2>3. /\ e \in Database
        /\ e.checkpoint.height = IF h > d.checkpoint.height THEN h ELSE d.checkpoint.height
        /\ e.blocks = d.blocks /\ e.transactions = d.transactions /\ e.invalid = d.invalid
        /\ e.events = d.events /\ e.operations = d.operations /\ e.audit = d.audit
    BY <2>2, UpdateCheckpointTyped
  <2>. QED BY <1>0, <1>6, <2>3 DEF Grows, Executed, Explains
<1>7. CASE c.do \in {"ResolveFabricIdentity", "canonicalizePayload"}
  <2>1. e = d
    BY <1>7 DEF Made, Writes
  <2>. QED BY <1>0, <1>7, <2>1 DEF Grows, Executed, Explains
<1>. QED BY <1>1, <1>2, <1>3, <1>4, <1>5, <1>6, <1>7 DEF Made

-----------------------------------------------------------------------------
(* The inductive invariant. *)

(* s is left of the calls q of block h after the first k, and those have     *)
(* left their traces in d.                                                   *)
Underway(d, q, s, h, k) == Remains(s, q, k) /\ \A j \in 1..k : Executed(d, q[j], h)

Ingested(d, h) == \A j \in 1..Len(CallsOf(h)) : Executed(d, CallsOf(h)[j], h)

Shape ==
  /\ chain \in Chains /\ db \in Database /\ db.blocks \subseteq DOMAIN chain
  /\ db.checkpoint.height \in {InitialHeight} \cup DOMAIN chain
  /\ InitialHeight <= db.checkpoint.height
  /\ MappingType /\ Control /\ faults \in 0..MaxFaults

(* Where a processor stands with respect to the checkpoint and to its block. *)
Position(p) ==
  /\ phase[p] = "running" => next[p] <= db.checkpoint.height + 1
  /\ phase[p] = "reconciling" => next[p] <= db.checkpoint.height
  /\ todo[p] # <<>> =>
       /\ next[p] \in DOMAIN chain
       /\ \E k \in Nat : Underway(db, CallsOf(next[p]), todo[p], next[p], k)

(* The checkpoint vouches for every block below it. *)
Vouched ==
  \A h \in DOMAIN chain :
    InitialHeight < h /\ h <= db.checkpoint.height => Ingested(db, h)

Ingest == Shape /\ (\A p \in Processors : Position(p)) /\ Vouched

LEMMA ChainFacts ==
  ASSUME chain \in Chains
  PROVE  /\ chain \in Seq(RawBlock) /\ Len(chain) \in Nat /\ DOMAIN chain = 1..Len(chain)
         /\ \A h \in DOMAIN chain : h \in Nat \ {0} /\ WellFormed(chain[h])
<1>1. chain \in Seq(RawBlock) /\ \A h \in DOMAIN chain : WellFormed(chain[h])
  BY ChainsAssumption
<1>2. Len(chain) \in Nat /\ DOMAIN chain = 1..Len(chain)
  BY <1>1, LenProperties
<1>. QED BY <1>1, <1>2

LEMMA CallsOfBlock ==
  ASSUME chain \in Chains, NEW h \in DOMAIN chain
  PROVE  LET q == CallsOf(h)
         IN  /\ q \in Seq(AnyCall) /\ Len(q) \in Nat /\ 2 <= Len(q)
             /\ q[1].do = "SaveBlock"
             /\ \A k \in 1..Len(q) : q[k].do = "UpdateCheckpoint" <=> k = Len(q)
             /\ \A k \in 1..Len(q) : q[k].do = "SaveBlock" <=> k = 1
             /\ Transcribes(q, chain[h])
  BY ChainFacts, BlockCallsAt, Zenon DEF CallsOf

LEMMA ExecutedGrows ==
  ASSUME NEW d, NEW e, Grows(d, e), NEW c \in AnyCall, NEW h, Executed(d, c, h)
  PROVE  Executed(e, c, h)
<1>1. c.do \in {"SaveInvalidTransaction", "MarkEventProcessed"} => c.tx \in TxIds
  BY CallFields
<1>. QED BY <1>1 DEF Grows, Executed

LEMMA IngestedGrows ==
  ASSUME chain \in Chains, NEW h \in DOMAIN chain, NEW d, NEW e, Grows(d, e), Ingested(d, h)
  PROVE  Ingested(e, h)
<1>1. \A j \in 1..Len(CallsOf(h)) : CallsOf(h)[j] \in AnyCall
  BY CallsOfBlock, ElementOfSeq
<1>. QED BY <1>1, ExecutedGrows DEF Ingested

LEMMA UnderwayGrows ==
  ASSUME NEW q \in Seq(AnyCall), NEW s, NEW h, NEW k \in Nat, NEW d, NEW e, Grows(d, e),
         Underway(d, q, s, h, k)
  PROVE  Underway(e, q, s, h, k)
<1>1. Len(s) \in Nat /\ Len(q) = k + Len(s)
  BY LenProperties DEF Underway, Remains
<1>2. \A j \in 1..k : j \in 1..Len(q)
  BY <1>1
<1>3. \A j \in 1..k : q[j] \in AnyCall
  BY <1>2, ElementOfSeq
<1>. QED BY <1>3, ExecutedGrows DEF Underway

LEMMA SameExecuted ==
  ASSUME NEW c, NEW d, SameCall(c, d), NEW e, NEW h, Executed(e, c, h)
  PROVE  Executed(e, d, h)
  BY DEF SameCall, Executed

(* The call at the head is made. *)
LEMMA UnderwayTail ==
  ASSUME NEW q \in Seq(AnyCall), NEW s, s # <<>>, NEW h, NEW k \in Nat, NEW d, NEW e, Grows(d, e),
         Underway(d, q, s, h, k), Executed(e, Head(s), h)
  PROVE  Underway(e, q, Tail(s), h, k + 1)
<1>1. Remains(Tail(s), q, k + 1) /\ SameCall(Head(s), q[k + 1])
  BY RemainsTail DEF Underway
<1>2. Executed(e, q[k + 1], h)
  BY <1>1, SameExecuted
<1>3. \A j \in 1..k : Executed(e, q[j], h)
  BY UnderwayGrows DEF Underway
<1>4. \A j \in 1..(k + 1) : j = k + 1 \/ j \in 1..k
  OBVIOUS
<1>. QED BY <1>1, <1>2, <1>3, <1>4 DEF Underway

(* A processed event is skipped. *)
LEMMA UnderwaySkip ==
  ASSUME chain \in Chains, NEW h \in DOMAIN chain, NEW s, s # <<>>, NEW k \in Nat, NEW d,
         Underway(d, CallsOf(h), s, h, k),
         Head(s).do = "SaveEvent", d.events[Head(s).tx] = "processed"
  PROVE  \E l \in Nat : Underway(d, CallsOf(h), AfterEvent(s), h, l)
<1>. DEFINE q == CallsOf(h)
<1>1. q \in Seq(AnyCall) /\ Len(q) \in Nat /\ Transcribes(q, chain[h])
  BY CallsOfBlock
<1>. HIDE DEF q
<1>2. /\ k + 1 \in 1..Len(q) /\ Head(s) \in AnyCall /\ SameCall(Head(s), q[k + 1])
      /\ Remains(s, q, k) /\ \A j \in 1..k : Executed(d, q[j], h)
  BY RemainsTail DEF Underway, q
<1>3. Head(s) = s[1]
  OBVIOUS
<1>4. q[k + 1].do = "SaveEvent"
  BY <1>2, SameDo
<1>5. q[k + 1] = Head(s)
  BY <1>2 DEF SameCall
<1>6. PICK i : /\ EventfulAt(chain[h], i) /\ q[k + 1] = SaveEventOf(chain[h].data[i].tx)
               /\ ProjectedFrom(q, k + 1, chain[h].data[i].tx)
  BY <1>1, <1>2, <1>4 DEF Transcribes
<1>. DEFINE x == chain[h].data[i].tx
<1>7. d.events[x] = "processed"
  <2>1. Head(s).tx = x
    BY <1>5, <1>6 DEF SaveEventOf
  <2>. QED BY <2>1
<1>8. ProjectedFrom(q, k + 1, x)
  BY <1>6
<1>. HIDE DEF x
<1>9. PICK l \in (k + 2)..Len(q) :
        /\ Remains(AfterEvent(s), q, l) /\ q[l] = MarkOf(x)
        /\ \A j \in (k + 2)..(l - 1) : q[j] \in Projecting(x)
  BY <1>1, <1>2, <1>3, <1>4, <1>8, SameDo, RemainsAfterEvent
<1>10. l \in Nat
  BY <1>1, <1>9
<1>11. ASSUME NEW j \in 1..l PROVE Executed(d, q[j], h)
  <2>1. CASE j \in 1..k
    BY <1>2, <2>1
  <2>2. CASE j = k + 1
    BY <1>4, <2>2 DEF Executed
  <2>3. CASE j = l
    BY <1>7, <1>9, <2>3 DEF Executed, MarkOf
  <2>4. CASE j \in (k + 2)..(l - 1)
    <3>1. q[j].do \in Projections
      BY <1>9, <2>4, ProjectingDo
    <3>. QED BY <3>1 DEF Executed, Projections, Writes
  <2>5. j \in 1..k \/ j = k + 1 \/ j = l \/ j \in (k + 2)..(l - 1)
    BY <1>9, <1>10
  <2>. QED BY <2>1, <2>2, <2>3, <2>4, <2>5
<1>12. Underway(d, q, AfterEvent(s), h, l)
  BY <1>9, <1>11 DEF Underway
<1>. QED BY <1>10, <1>12 DEF q

-----------------------------------------------------------------------------
(* Every step preserves it. *)

(* All of e is that of d but the hash, which is "init". *)
Rehashes(d, e) ==
  /\ e \in Database /\ e.checkpoint.height = d.checkpoint.height /\ e.checkpoint.hash = <<>>
  /\ e.blocks = d.blocks /\ e.transactions = d.transactions /\ e.invalid = d.invalid
  /\ e.events = d.events /\ e.operations = d.operations /\ e.audit = d.audit

LEMMA RehashTyped ==
  ASSUME NEW d \in Database, NEW h \in Nat, h <= d.checkpoint.height,
         NEW e, e = UpdateCheckpoint(d, h, <<>>)
  PROVE  Rehashes(d, e)
<1>. DEFINE s == <<>>
<1>1. s \in Seq(Nat) /\ e = UpdateCheckpoint(d, h, s)
  BY EmptySeq
<1>. HIDE DEF s
<1>2. d.checkpoint.height \in Nat
  BY DEF Database
<1>3. /\ e \in Database
      /\ e.checkpoint.height = IF h > d.checkpoint.height THEN h ELSE d.checkpoint.height
      /\ e.checkpoint.hash = s
      /\ e.blocks = d.blocks /\ e.transactions = d.transactions /\ e.invalid = d.invalid
      /\ e.events = d.events /\ e.operations = d.operations /\ e.audit = d.audit
  BY <1>1, UpdateCheckpointTyped
<1>4. e.checkpoint.height = d.checkpoint.height
  BY <1>2, <1>3
<1>. QED BY <1>3, <1>4 DEF Rehashes, s

LEMMA AdvanceTyped ==
  ASSUME NEW d \in Database, NEW h \in Nat, NEW e, e = UpdateCheckpoint(d, h, <<h>>)
  PROVE  /\ e.checkpoint.height = IF h > d.checkpoint.height THEN h ELSE d.checkpoint.height
         /\ e.checkpoint.hash = <<h>>
<1>. DEFINE s == <<h>>
<1>1. s \in Seq(Nat) /\ e = UpdateCheckpoint(d, h, s)
  OBVIOUS
<1>. HIDE DEF s
<1>2. /\ e.checkpoint.height = IF h > d.checkpoint.height THEN h ELSE d.checkpoint.height
      /\ e.checkpoint.hash = s
  BY <1>1, UpdateCheckpointTyped
<1>. QED BY <1>2 DEF s

(* What a step of p does to the database. *)
Writing(p) ==
  \/ db' = db
  \/ phase[p] = "reconciling" /\ Rehashes(db, db')
  \/ /\ phase[p] = "running" /\ todo[p] # <<>> /\ next[p] \in DOMAIN chain
     /\ Head(todo[p]) \in AnyCall /\ Made(db, next[p], Head(todo[p]), db')

LEMMA MovesWrite ==
  ASSUME Ingest, NEW p \in Processors, Moves(p) PROVE Writing(p)
<1>1. Position(p) /\ db \in Database /\ next[p] \in Nat /\ todo[p] \in Seq(AnyCall)
  BY DEF Ingest, Shape, Control
<1>2. CASE Idles(p)
  <2>1. CASE phase[p] = "reconciling" /\ db' = UpdateCheckpoint(db, next[p], <<>>)
    BY <1>1, <2>1, RehashTyped DEF Writing, Position
  <2>. QED BY <1>2, <2>1 DEF Idles, Writing
<1>3. CASE Calls(p) \/ Completes(p)
  <2>1. phase[p] = "running" /\ todo[p] # <<>>
    BY <1>3 DEF Calls, Completes, Busy
  <2>2. next[p] \in DOMAIN chain
    BY <1>1, <2>1 DEF Position
  <2>3. Head(todo[p]) \in AnyCall
    BY <1>1, <2>1, HeadTailProperties
  <2>4. Made(db, next[p], Head(todo[p]), db')
    BY <1>3 DEF Calls, Completes, Made
  <2>. QED BY <2>1, <2>2, <2>3, <2>4 DEF Writing
<1>4. CASE Subscribes(p) \/ Receives(p) \/ Skips(p)
  BY <1>4 DEF Subscribes, Receives, Skips, Writing
<1>. QED BY <1>2, <1>3, <1>4 DEF Moves, Does

(* A row of the audit trail stays where it is; a new one names its           *)
(* transaction.                                                              *)
AuditGrows(d, e) ==
  \A i \in 1..Len(e.audit) :
    (i \in 1..Len(d.audit) /\ e.audit[i] = d.audit[i]) \/ e.audit[i] \in Rows

LEMMA WritingGrows ==
  ASSUME Ingest, NEW p \in Processors, Writing(p)
  PROVE  /\ db' \in Database /\ Grows(db, db')
         /\ db'.blocks \subseteq DOMAIN chain
         /\ AuditGrows(db, db')
<1>. DEFINE h == next[p]
            c == Head(todo[p])
<1>1. /\ db \in Database /\ MappingType /\ chain \in Chains /\ db.checkpoint.height \in Nat
      /\ db.blocks \subseteq DOMAIN chain
  BY DEF Ingest, Shape, Database
<1>2. CASE db' = db
  BY <1>1, <1>2 DEF Grows, AuditGrows
<1>3. CASE Rehashes(db, db')
  BY <1>1, <1>3 DEF Rehashes, Grows, AuditGrows
<1>4. CASE h \in DOMAIN chain /\ c \in AnyCall /\ Made(db, h, c, db')
  <2>1. h \in Nat
    BY <1>1, <1>4, ChainFacts
  <2>. HIDE DEF h, c
  <2>2. /\ db' \in Database /\ Grows(db, db') /\ Explains(db, h, c, db')
        /\ db'.blocks \in {db.blocks, db.blocks \cup {h}}
    BY <1>1, <1>4, <2>1, MadeTyped
  <2>3. AuditGrows(db, db')
    BY <1>1, <2>2 DEF Explains, AuditGrows
  <2>. QED BY <1>1, <1>4, <2>2, <2>3
<1>. QED BY <1>2, <1>3, <1>4 DEF Writing

(* The last call of a block is the one that moves the checkpoint. *)
LEMMA LastCall ==
  ASSUME chain \in Chains, NEW h \in DOMAIN chain, NEW s, s # <<>>, NEW k \in Nat,
         Remains(s, CallsOf(h), k), Head(s).do = "UpdateCheckpoint"
  PROVE  k + 1 = Len(CallsOf(h)) /\ Tail(s) = <<>>
<1>. DEFINE q == CallsOf(h)
            m == Len(q)
            n == Len(Tail(s))
<1>1. Remains(Tail(s), q, k + 1) /\ k + 1 \in 1..m /\ SameCall(Head(s), q[k + 1])
  BY RemainsTail
<1>2. q[k + 1].do = "UpdateCheckpoint"
  BY <1>1, SameDo
<1>3. k + 1 = m
  BY <1>1, <1>2, CallsOfBlock
<1>4. Tail(s) \in Seq(AnyCall) /\ m = (k + 1) + n /\ n \in Nat
  BY <1>1, LenProperties DEF Remains
<1>. HIDE DEF q, m
<1>5. n = 0
  <2>. HIDE DEF n
  <2>. QED BY <1>3, <1>4
<1>6. Tail(s) = <<>>
  BY <1>4, <1>5, EmptySeq
<1>. QED BY <1>3, <1>6 DEF m, q

(* A call other than the last leaves the calls after it. *)
LEMMA CallsRemain ==
  ASSUME Ingest, NEW p \in Processors, Calls(p), NEW q, NEW k \in Nat, Remains(todo[p], q, k)
  PROVE  Remains(todo'[p], q, k + 1)
<1>. DEFINE s == todo[p]
            c == Head(s)
<1>1. s # <<>> /\ s \in Seq(AnyCall) /\ MappingType
  BY DEF Ingest, Shape, Control, Calls, Busy
<1>2. Remains(Tail(s), q, k + 1) /\ c \in AnyCall
  BY <1>1, RemainsTail
<1>3. CASE todo'[p] = Tail(s)
  BY <1>2, <1>3
<1>4. CASE todo'[p] # Tail(s)
  <2>. DEFINE user == mapping[c.identity]
              field == c.field
  <2>1. /\ c.do = "canonicalizePayload" /\ user # Nil
        /\ todo'[p] = Canonical(Tail(s), field, user)
    BY <1>4 DEF Calls
  <2>2. PICK x \in TxIds : c \in Projecting(x)
    <3>1. c.do \in Projections
      BY <2>1 DEF Projections
    <3>. HIDE DEF c
    <3>. QED BY <1>2, <3>1, CallFields
  <2>3. c.identity \in Identities /\ field \in {"owner", "counterparty"}
    <3>. HIDE DEF c
    <3>. QED BY <2>1, <2>2 DEF Projecting, c
  <2>4. user \in Users
    BY <1>1, <2>1, <2>3 DEF MappingType
  <2>. HIDE DEF user, field, s, c
  <2>5. Remains(Canonical(Tail(s), field, user), q, k + 1)
    BY <1>2, <2>3, <2>4, RemainsCanonical
  <2>. QED BY <2>1, <2>5
<1>. QED BY <1>3, <1>4

(* The position of the processor that moves. *)
LEMMA MoverPosition ==
  ASSUME Ingest, NEW p \in Processors, Moves(p)
  PROVE  Position(p)' /\ todo'[p] \in Seq(AnyCall) /\ next'[p] \in Nat /\ phase'[p] \in Phases
         /\ (phase'[p] # "running" => todo'[p] = <<>>)
<1>. DEFINE h == next[p]
            q == CallsOf(h)
            s == todo[p]
            c == Head(s)
<1>1. /\ Position(p) /\ db \in Database /\ h \in Nat /\ s \in Seq(AnyCall) /\ chain \in Chains
      /\ phase[p] \in Phases /\ MappingType /\ chain' = chain /\ mapping' = mapping
      /\ db.checkpoint.height \in Nat
  BY DEF Ingest, Shape, Control, Moves, Database
<1>2. Writing(p)
  BY MovesWrite
<1>3. Grows(db, db') /\ db' \in Database
  BY <1>2, WritingGrows
<1>4. db'.checkpoint.height \in Nat /\ db.checkpoint.height <= db'.checkpoint.height
  BY <1>3 DEF Grows, Database
<1>5. \A g : CallsOf(g)' = processBlock(decodeBlock(chain[g]))
  BY <1>1 DEF CallsOf
<1>6. CASE Idles(p)
  <2>1. /\ todo'[p] = <<>> /\ phase'[p] # "running" /\ phase'[p] \in Phases
        /\ next'[p] \in Nat /\ (phase'[p] = "reconciling" => next'[p] = db.checkpoint.height)
    BY <1>1, <1>6 DEF Idles
  <2>2. <<>> \in Seq(AnyCall)
    BY EmptySeq
  <2>3. phase'[p] = "reconciling" => next'[p] <= db'.checkpoint.height
    BY <1>1, <1>4, <2>1
  <2>. QED BY <2>1, <2>2, <2>3 DEF Position
<1>7. CASE Subscribes(p)
  <2>1. /\ todo'[p] = <<>> /\ phase'[p] = "running" /\ next'[p] = db.checkpoint.height + 1
        /\ next'[p] \in Nat
    BY <1>1, <1>7 DEF Subscribes
  <2>2. <<>> \in Seq(AnyCall)
    BY EmptySeq
  <2>3. next'[p] <= db'.checkpoint.height + 1
    BY <1>1, <1>4, <2>1
  <2>. QED BY <2>1, <2>2, <2>3 DEF Position, Phases
<1>8. ASSUME phase[p] = "running", phase'[p] = "running", next'[p] = h,
             todo'[p] # <<>> => h \in DOMAIN chain /\ \E k \in Nat : Underway(db', q, todo'[p], h, k),
             todo'[p] \in Seq(AnyCall)
      PROVE  Position(p)' /\ todo'[p] \in Seq(AnyCall) /\ next'[p] \in Nat /\ phase'[p] \in Phases
             /\ (phase'[p] # "running" => todo'[p] = <<>>)
  <2>1. h <= db.checkpoint.height + 1
    BY <1>1, <1>8 DEF Position
  <2>2. next'[p] <= db'.checkpoint.height + 1
    <3>. HIDE DEF h
    <3>. QED BY <1>1, <1>4, <1>8, <2>1
  <2>3. CallsOf(next[p])' = q
    <3>1. q = processBlock(decodeBlock(chain[h]))
      BY DEF CallsOf
    <3>. QED BY <1>1, <1>8, <3>1 DEF CallsOf
  <2>4. todo'[p] # <<>> => \E k \in Nat : Underway(db', CallsOf(next[p])', todo'[p], next'[p], k)
    <3>. HIDE DEF q, h
    <3>. QED BY <1>8, <2>3
  <2>5. todo'[p] # <<>> => next'[p] \in DOMAIN chain'
    BY <1>1, <1>8
  <2>. HIDE DEF q, h, s
  <2>. QED BY <1>1, <1>8, <2>2, <2>4, <2>5 DEF Position
<1>9. CASE Receives(p)
  <2>1. /\ phase[p] = "running" /\ phase'[p] = "running" /\ next'[p] = h /\ h \in DOMAIN chain
        /\ todo'[p] = q /\ db' = db
    BY <1>9 DEF Receives
  <2>2. q \in Seq(AnyCall)
    BY <1>1, <2>1, CallsOfBlock
  <2>3. Underway(db', q, q, h, 0)
    <3>1. Len(q) \in Nat /\ \A i \in 1..Len(q) : q[i] = q[0 + i]
      BY <2>2, LenProperties
    <3>2. \A i \in 1..Len(q) : SameCall(q[i], q[0 + i])
      BY <3>1 DEF SameCall
    <3>3. Remains(q, q, 0)
      BY <2>2, <3>1, <3>2 DEF Remains
    <3>. QED BY <3>3 DEF Underway
  <2>. QED BY <1>8, <2>1, <2>2, <2>3
<1>10. CASE Busy(p)
  <2>1. phase[p] = "running" /\ phase'[p] = "running" /\ s # <<>>
    BY <1>10 DEF Busy
  <2>2. h \in DOMAIN chain
    BY <1>1, <2>1 DEF Position
  <2>3. PICK k \in Nat : Underway(db, q, s, h, k)
    BY <1>1, <2>1 DEF Position
  <2>4. q \in Seq(AnyCall) /\ Len(q) \in Nat
    BY <1>1, <2>2, CallsOfBlock
  <2>5. Tail(s) \in Seq(AnyCall) /\ c \in AnyCall
    BY <1>1, <2>1, HeadTailProperties
  <2>6. ASSUME Made(db, h, c, db') PROVE Underway(db', q, Tail(s), h, k + 1)
    <3>. HIDE DEF h, q, s, c
    <3>1. Executed(db', c, h)
      BY <1>1, <2>5, <2>6, MadeTyped
    <3>. QED BY <1>3, <2>1, <2>3, <2>4, <3>1, UnderwayTail DEF c
  <2>7. CASE Calls(p)
    <3>1. next'[p] = h /\ Made(db, h, c, db')
      BY <2>7 DEF Calls
    <3>2. Remains(todo'[p], q, k + 1)
      BY <2>3, <2>7, CallsRemain DEF Underway
    <3>3. Underway(db', q, todo'[p], h, k + 1)
      BY <2>6, <3>1, <3>2 DEF Underway
    <3>4. todo'[p] \in Seq(AnyCall) /\ k + 1 \in Nat
      BY <3>2 DEF Remains
    <3>. HIDE DEF q, h, s, c
    <3>. QED BY <1>8, <2>1, <2>2, <3>1, <3>3, <3>4 DEF q, h
  <2>8. CASE Skips(p)
    <3>1. /\ next'[p] = h /\ db' = db /\ c.do = "SaveEvent" /\ db.events[c.tx] = "processed"
          /\ todo'[p] = AfterEvent(s)
      BY <2>8 DEF Skips
    <3>2. PICK l \in Nat : Underway(db, q, AfterEvent(s), h, l)
      <4>. HIDE DEF h, s
      <4>. QED BY <1>1, <2>1, <2>2, <2>3, <3>1, UnderwaySkip
    <3>3. Underway(db', q, todo'[p], h, l)
      BY <3>1, <3>2
    <3>4. todo'[p] \in Seq(AnyCall)
      BY <3>3 DEF Underway, Remains
    <3>. QED BY <1>8, <2>1, <2>2, <3>1, <3>3, <3>4
  <2>9. CASE Completes(p)
    <3>1. /\ next'[p] = h + 1 /\ todo'[p] = Tail(s) /\ c.do = "UpdateCheckpoint"
          /\ db' = UpdateCheckpoint(db, h, <<h>>)
      BY <2>9 DEF Completes
    <3>2. Tail(s) = <<>>
      BY <1>1, <2>1, <2>2, <2>3, <3>1, LastCall DEF Underway
    <3>3. h <= db'.checkpoint.height
      <4>. HIDE DEF h
      <4>1. db'.checkpoint.height = IF h > db.checkpoint.height THEN h ELSE db.checkpoint.height
        BY <1>1, <3>1, AdvanceTyped
      <4>. QED BY <1>1, <4>1
    <3>4. next'[p] <= db'.checkpoint.height + 1 /\ next'[p] \in Nat
      <4>. HIDE DEF h
      <4>. QED BY <1>1, <1>4, <3>1, <3>3
    <3>5. todo'[p] = <<>> /\ todo'[p] \in Seq(AnyCall)
      BY <2>5, <3>1, <3>2
    <3>. HIDE DEF h, q, s, c
    <3>. QED BY <1>1, <2>1, <3>4, <3>5 DEF Position
  <2>. QED BY <1>8, <2>7, <2>8, <2>9, <1>10, <1>6, <1>7, <1>9 DEF Moves, Does
<1>. QED BY <1>6, <1>7, <1>9, <1>10 DEF Moves, Does, Calls, Skips, Completes

(* The other processors keep theirs. *)
LEMMA StayerPosition ==
  ASSUME Ingest, NEW p \in Processors, NEW r \in Processors, r # p, Moves(p)
  PROVE  Position(r)'
<1>1. /\ phase'[r] = phase[r] /\ next'[r] = next[r] /\ todo'[r] = todo[r] /\ chain' = chain
  BY DEF Moves, Ingest, Shape, Control
<1>2. Position(r) /\ db \in Database /\ db.checkpoint.height \in Nat /\ next[r] \in Nat /\ chain \in Chains
  BY DEF Ingest, Shape, Control, Database
<1>3. Grows(db, db') /\ db' \in Database
  BY MovesWrite, WritingGrows
<1>4. db'.checkpoint.height \in Nat /\ db.checkpoint.height <= db'.checkpoint.height
  BY <1>3 DEF Grows, Database
<1>5. CallsOf(next[r])' = CallsOf(next[r])
  BY <1>1 DEF CallsOf
<1>6. ASSUME todo'[r] # <<>>
      PROVE  /\ next'[r] \in DOMAIN chain'
             /\ \E k \in Nat : Underway(db', CallsOf(next[r])', todo'[r], next'[r], k)
  <2>1. next[r] \in DOMAIN chain
    BY <1>1, <1>2, <1>6 DEF Position
  <2>2. PICK k \in Nat : Underway(db, CallsOf(next[r]), todo[r], next[r], k)
    BY <1>1, <1>2, <1>6 DEF Position
  <2>3. CallsOf(next[r]) \in Seq(AnyCall)
    BY <1>2, <2>1, CallsOfBlock
  <2>4. Underway(db', CallsOf(next[r]), todo[r], next[r], k)
    BY <1>3, <2>2, <2>3, UnderwayGrows
  <2>. QED BY <1>1, <1>5, <2>1, <2>4
<1>7. /\ phase'[r] = "running" => next'[r] <= db'.checkpoint.height + 1
      /\ phase'[r] = "reconciling" => next'[r] <= db'.checkpoint.height
  BY <1>1, <1>2, <1>4 DEF Position
<1>. QED BY <1>6, <1>7 DEF Position

(* The height moves when the block in hand is complete, and by one block. *)
LEMMA HeightMoves ==
  ASSUME Ingest, NEW p \in Processors, Moves(p)
  PROVE  \/ db'.checkpoint.height = db.checkpoint.height
         \/ /\ db'.checkpoint.height = db.checkpoint.height + 1
            /\ db'.checkpoint.height = next[p] /\ next[p] \in DOMAIN chain
            /\ Ingested(db, next[p])
            /\ todo[p] # <<>> /\ Head(todo[p]).do = "UpdateCheckpoint"
<1>. DEFINE h == next[p]
            c == Head(todo[p])
            q == CallsOf(h)
<1>1. /\ Position(p) /\ db \in Database /\ db.checkpoint.height \in Nat /\ h \in Nat
      /\ chain \in Chains /\ MappingType /\ todo[p] \in Seq(AnyCall)
  BY DEF Ingest, Shape, Control, Database
<1>2. CASE db' = db \/ Rehashes(db, db')
  BY <1>2 DEF Rehashes
<1>3. ASSUME phase[p] = "running", todo[p] # <<>>, h \in DOMAIN chain, c \in AnyCall,
             Made(db, h, c, db')
      PROVE  \/ db'.checkpoint.height = db.checkpoint.height
             \/ /\ db'.checkpoint.height = db.checkpoint.height + 1
                /\ db'.checkpoint.height = h /\ Ingested(db, h)
                /\ c.do = "UpdateCheckpoint"
  <2>1. CASE c.do # "UpdateCheckpoint"
    <3>. HIDE DEF c, h
    <3>1. db'.checkpoint = db.checkpoint
      BY <1>1, <1>3, <2>1, MadeTyped
    <3>. QED BY <3>1
  <2>2. CASE c.do = "UpdateCheckpoint"
    <3>1. db'.checkpoint.height = IF h > db.checkpoint.height THEN h ELSE db.checkpoint.height
      <4>. HIDE DEF c, h
      <4>1. db' = UpdateCheckpoint(db, h, <<h>>)
        BY <1>3, <2>2 DEF Made, Writes
      <4>. QED BY <1>1, <4>1, AdvanceTyped
    <3>2. h <= db.checkpoint.height + 1
      BY <1>1, <1>3 DEF Position
    <3>3. PICK k \in Nat : Underway(db, q, todo[p], h, k)
      BY <1>1, <1>3 DEF Position
    <3>4. Remains(todo[p], q, k) /\ \A j \in 1..k : Executed(db, q[j], h)
      BY <3>3 DEF Underway
    <3>5. k + 1 \in 1..Len(q) /\ SameCall(c, q[k + 1])
      BY <1>3, <3>4, RemainsTail
    <3>6. q[k + 1].do = "UpdateCheckpoint"
      BY <2>2, <3>5, SameDo
    <3>7. k + 1 = Len(q)
      BY <1>1, <1>3, <2>2, <3>4, LastCall
    <3>8. Executed(db, q[k + 1], h)
      BY <3>6 DEF Executed
    <3>9. \A j \in 1..(k + 1) : j \in 1..k \/ j = k + 1
      OBVIOUS
    <3>10. \A j \in 1..Len(q) : Executed(db, q[j], h)
      <4>. HIDE DEF q, h
      <4>. QED BY <3>4, <3>7, <3>8, <3>9
    <3>11. Ingested(db, h)
      BY <3>10 DEF Ingested
    <3>. HIDE DEF q, h, c
    <3>. QED BY <1>1, <2>2, <3>1, <3>2, <3>11
  <2>. QED BY <2>1, <2>2
<1>4. Writing(p)
  BY MovesWrite
<1>. QED BY <1>2, <1>3, <1>4 DEF Writing

LEMMA VouchedMoves ==
  ASSUME Ingest, NEW p \in Processors, Moves(p) PROVE Vouched'
<1>1. /\ chain' = chain /\ chain \in Chains /\ Vouched /\ db.checkpoint.height \in Nat
  BY DEF Moves, Ingest, Shape, Database
<1>2. Grows(db, db')
  BY MovesWrite, WritingGrows
<1>3. ASSUME NEW h \in DOMAIN chain, InitialHeight < h, h <= db'.checkpoint.height
      PROVE  Ingested(db', h)
  <2>1. h \in Nat
    BY <1>1, ChainFacts
  <2>2. CASE h <= db.checkpoint.height
    BY <1>1, <1>2, <1>3, <2>2, IngestedGrows DEF Vouched
  <2>3. CASE ~(h <= db.checkpoint.height)
    <3>1. /\ db'.checkpoint.height = db.checkpoint.height + 1
          /\ db'.checkpoint.height = next[p] /\ Ingested(db, next[p])
      BY <1>3, <2>3, HeightMoves
    <3>2. h = next[p]
      BY <1>1, <1>3, <2>1, <2>3, <3>1
    <3>3. Ingested(db, h)
      BY <3>1, <3>2
    <3>. QED BY <1>1, <1>2, <3>3, IngestedGrows
  <2>. QED BY <2>2, <2>3
<1>4. ASSUME NEW h, Ingested(db', h) PROVE Ingested(db, h)'
  <2>1. CallsOf(h)' = CallsOf(h)
    BY <1>1 DEF CallsOf
  <2>. QED BY <1>4, <2>1 DEF Ingested
<1>. QED BY <1>1, <1>3, <1>4 DEF Vouched

LEMMA ShapeMoves ==
  ASSUME Ingest, NEW p \in Processors, Moves(p) PROVE Shape'
<1>1. Shape /\ chain' = chain /\ mapping' = mapping
  BY DEF Ingest, Moves
<1>2. db' \in Database /\ db'.blocks \subseteq DOMAIN chain
  BY MovesWrite, WritingGrows
<1>3. /\ db'.checkpoint.height \in {InitialHeight} \cup DOMAIN chain
      /\ InitialHeight <= db'.checkpoint.height
  <2>1. db.checkpoint.height \in Nat
    BY <1>1 DEF Shape, Database
  <2>2. \/ db'.checkpoint.height = db.checkpoint.height
        \/ db'.checkpoint.height = db.checkpoint.height + 1 /\ db'.checkpoint.height \in DOMAIN chain
    BY HeightMoves
  <2>. QED BY <1>1, <2>1, <2>2, InitialHeightAssumption DEF Shape
<1>5. faults' \in 0..MaxFaults
  <2>1. faults' = faults \/ (faults < MaxFaults /\ faults' = faults + 1)
    BY DEF Moves
  <2>. QED BY <1>1, <2>1, MaxFaultsAssumption DEF Shape
<1>4. Control'
  <2>1. /\ todo'[p] \in Seq(AnyCall) /\ next'[p] \in Nat /\ phase'[p] \in Phases
        /\ (phase'[p] # "running" => todo'[p] = <<>>)
    BY MoverPosition
  <2>2. /\ phase' = [phase EXCEPT ![p] = phase'[p]]
        /\ next' = [next EXCEPT ![p] = next'[p]]
        /\ todo' = [todo EXCEPT ![p] = todo'[p]]
    BY DEF Moves
  <2>. DEFINE ph == phase'[p]
              nx == next'[p]
              td == todo'[p]
  <2>3. phase' = [phase EXCEPT ![p] = ph] /\ next' = [next EXCEPT ![p] = nx] /\ todo' = [todo EXCEPT ![p] = td]
    BY <2>2
  <2>4. td \in Seq(AnyCall) /\ nx \in Nat /\ ph \in Phases /\ (ph # "running" => td = <<>>)
    BY <2>1
  <2>5. faults' \in Nat
    BY <1>5, MaxFaultsAssumption
  <2>. HIDE DEF ph, nx, td
  <2>. QED BY <1>1, <2>3, <2>4, <2>5 DEF Shape, Control
<1>6. MappingType'
  BY <1>1 DEF Shape, MappingType
<1>. QED BY <1>1, <1>2, <1>3, <1>4, <1>5, <1>6 DEF Shape

LEMMA IngestMapped ==
  ASSUME Ingest, MapIdentity PROVE Ingest'
<1>1. UNCHANGED <<chain, db, phase, next, todo, faults>>
  BY DEF MapIdentity
<1>2. MappingType'
  BY DEF MapIdentity, MappingType, Ingest, Shape
<1>3. Shape'
  BY <1>1, <1>2 DEF Ingest, Shape, Control
<1>4. \A p \in Processors : Position(p)'
  BY <1>1 DEF Ingest, Position, CallsOf
<1>5. Vouched'
  BY <1>1 DEF Ingest, Vouched, Ingested, CallsOf
<1>. QED BY <1>3, <1>4, <1>5 DEF Ingest

LEMMA NextMoves ==
  ASSUME Ingest, [Next]_vars
  PROVE  (\E p \in Processors : Moves(p)) \/ MapIdentity \/ UNCHANGED vars
<1>1. Control
  BY DEF Ingest, Shape
<1>. QED BY <1>1, ActsMove DEF Next, Acts

LEMMA IngestNext == Ingest /\ [Next]_vars => Ingest'
<1>. SUFFICES ASSUME Ingest, [Next]_vars PROVE Ingest'
  OBVIOUS
<1>1. ASSUME NEW p \in Processors, Moves(p) PROVE Ingest'
  <2>1. \A r \in Processors : Position(r)'
    BY <1>1, MoverPosition, StayerPosition
  <2>. QED BY <1>1, <2>1, ShapeMoves, VouchedMoves DEF Ingest
<1>2. CASE UNCHANGED vars
  BY <1>2 DEF vars, Ingest, Shape, Position, Vouched, Ingested, CallsOf, Control, MappingType
<1>. QED BY <1>1, <1>2, NextMoves, IngestMapped

LEMMA IngestInit == Init => Ingest
<1>. SUFFICES ASSUME Init PROVE Ingest
  OBVIOUS
<1>1. /\ chain \in Chains /\ db = EmptyDatabase(InitialHeight) /\ MappingType
      /\ phase = [p \in Processors |-> "starting"] /\ next = [p \in Processors |-> 0]
      /\ todo = [p \in Processors |-> <<>>] /\ faults = 0
  BY DEF Init, Start, MappingType
<1>2. db \in Database
  BY <1>1, EmptyTyped, InitialHeightAssumption
<1>3. db.blocks = {} /\ Len(db.audit) = 0 /\ db.checkpoint.height = InitialHeight
  BY <1>1 DEF EmptyDatabase
<1>4. Control
  <2>1. <<>> \in Seq(AnyCall)
    BY EmptySeq
  <2>. QED BY <1>1, <2>1 DEF Control, Phases
<1>5. Shape
  BY <1>1, <1>2, <1>3, <1>4, InitialHeightAssumption, MaxFaultsAssumption DEF Shape
<1>6. \A p \in Processors : Position(p)
  BY <1>1 DEF Position
<1>7. Vouched
  BY <1>1, <1>3, ChainFacts, InitialHeightAssumption DEF Vouched
<1>. QED BY <1>5, <1>6, <1>7 DEF Ingest

LEMMA IngestAlways == Spec => []Ingest
  BY IngestInit, IngestNext, PTL DEF Spec

-----------------------------------------------------------------------------
(* Each row of the audit trail is that of a transaction. *)
Audited == \A i \in 1..Len(db.audit) : db.audit[i] \in Rows

(* Tables, processes and queues keep their shape: the recorded blocks are    *)
(* blocks of the chain, each audit row names its transaction, the checkpoint *)
(* stays within the chain, and only a running processor has calls to make.   *)
THEOREM WellTyped == Spec => []TypeOK
<1>1. Ingest /\ Audited => TypeOK
  <2>. SUFFICES ASSUME Ingest, Audited PROVE TypeOK
    OBVIOUS
  <2>1. Shape /\ chain \in Chains
    BY DEF Ingest, Shape
  <2>2. \A x \in TxIds : db.events[x] \in {"absent", "stored", "processed"}
    BY <2>1 DEF Shape, Database
  <2>3. \A u \in Users, t \in Tokens :
          db.balances[u][t] \in [available: Int, encumbered: Int, version: Nat]
    <3>1. db.balances \in [Users -> [Tokens -> Balance]]
      BY <2>1 DEF Shape, Database
    <3>. QED BY <3>1 DEF Balance
  <2>4. \A i \in DOMAIN db.audit : db.audit[i] \in Rows
    <3>1. db.audit \in Seq(AuditRow)
      BY <2>1 DEF Shape, Database
    <3>. QED BY <3>1, LenProperties DEF Audited
  <2>5. db.checkpoint.height \in InitialHeight..(InitialHeight + Len(chain))
    BY <2>1, ChainFacts, InitialHeightAssumption DEF Shape
  <2>. QED BY <2>1, <2>2, <2>3, <2>4, <2>5 DEF TypeOK, Shape, Control, Phases, MappingType
<1>2. Init => Audited
  BY DEF Init, Start, EmptyDatabase, Audited
<1>3. Ingest /\ Audited /\ [Next]_vars => Audited'
  <2>. SUFFICES ASSUME Ingest, Audited, [Next]_vars PROVE Audited'
    OBVIOUS
  <2>1. ASSUME NEW p \in Processors, Moves(p) PROVE Audited'
    <3>1. AuditGrows(db, db')
      BY <2>1, MovesWrite, WritingGrows
    <3>. QED BY <3>1 DEF AuditGrows, Audited
  <2>2. CASE MapIdentity \/ UNCHANGED vars
    BY <2>2 DEF MapIdentity, vars, Audited
  <2>. QED BY <2>1, <2>2, NextMoves
<1>. QED BY <1>1, <1>2, <1>3, IngestAlways, PTL DEF Spec

(* The checkpoint never moves back, and never by more than one block,        *)
(* whatever the number of processors: one that comes back to an old block,   *)
(* or reconciles while another runs, leaves it alone.                        *)
THEOREM CheckpointIsMonotone == Spec => CheckpointAdvances
<1>1. Ingest /\ [Next]_vars =>
        [db'.checkpoint.height \in {db.checkpoint.height, db.checkpoint.height + 1}]_vars
  <2>. SUFFICES ASSUME Ingest, [Next]_vars
                PROVE  db'.checkpoint.height \in {db.checkpoint.height, db.checkpoint.height + 1}
    OBVIOUS
  <2>1. ASSUME NEW p \in Processors, Moves(p)
        PROVE  db'.checkpoint.height \in {db.checkpoint.height, db.checkpoint.height + 1}
    BY <2>1, HeightMoves
  <2>2. CASE MapIdentity \/ UNCHANGED vars
    BY <2>2 DEF MapIdentity, vars
  <2>. QED BY <2>1, <2>2, NextMoves
<1>. QED BY <1>1, IngestAlways, PTL DEF Spec, CheckpointAdvances

-----------------------------------------------------------------------------
(* The transactions of the chain by position, and what the call at the head  *)
(* of a queue says of them.                                                  *)

Tr(h, i) ==
  [at |-> <<h, i>>, id |-> chain[h].data[i].tx, code |-> chain[h].filter[i],
   event |-> OurEvent(chain[h].data[i])]

LEMMA TransactionPositions ==
  /\ \A x \in Transactions :
       \E h \in DOMAIN chain : \E i : TransactionAt(chain[h], i) /\ x = Tr(h, i)
  /\ \A h \in DOMAIN chain : \A i : TransactionAt(chain[h], i) => Tr(h, i) \in Transactions
<1>1. ASSUME NEW x \in Transactions
      PROVE  \E h \in DOMAIN chain : \E i : TransactionAt(chain[h], i) /\ x = Tr(h, i)
  <2>1. PICK h \in DOMAIN chain : x \in TransactionsOf(h)
    BY DEF Transactions
  <2>2. PICK i \in {j \in DOMAIN chain[h].data : IsTransaction(chain[h].data[j])} : x = Tr(h, i)
    BY <2>1 DEF TransactionsOf, Tr
  <2>. QED BY <2>2 DEF TransactionAt
<1>2. ASSUME NEW h \in DOMAIN chain, NEW i, TransactionAt(chain[h], i)
      PROVE  Tr(h, i) \in Transactions
  <2>1. Tr(h, i) \in TransactionsOf(h)
    BY <1>2 DEF TransactionsOf, Tr, TransactionAt
  <2>. QED BY <2>1 DEF Transactions
<1>. QED BY <1>1, <1>2

LEMMA EventfulPositions ==
  /\ \A x \in Eventful :
       \E h \in DOMAIN chain : \E i : EventfulAt(chain[h], i) /\ x = Tr(h, i)
  /\ \A h \in DOMAIN chain : \A i : EventfulAt(chain[h], i) => Tr(h, i) \in Eventful
<1>1. \A h, i : /\ Tr(h, i).code = chain[h].filter[i]
                /\ Tr(h, i).event = OurEvent(chain[h].data[i])
  BY DEF Tr
<1>. QED BY <1>1, TransactionPositions DEF Eventful, EventfulAt

LEMMA SameTransactions ==
  ASSUME chain' = chain PROVE Transactions' = Transactions /\ Eventful' = Eventful
<1>1. Transactions' = Transactions
  BY DEF Transactions, TransactionsOf
<1>. QED BY <1>1 DEF Eventful

(* The position of processor p in the calls of its block. *)
LEMMA HeadOfQueue ==
  ASSUME Ingest, NEW p \in Processors, todo[p] # <<>>
  PROVE  /\ next[p] \in DOMAIN chain /\ Transcribes(CallsOf(next[p]), chain[next[p]])
         /\ CallsOf(next[p]) \in Seq(AnyCall) /\ Len(CallsOf(next[p])) \in Nat
         /\ \E k \in Nat : /\ k + 1 \in 1..Len(CallsOf(next[p]))
                           /\ SameCall(Head(todo[p]), CallsOf(next[p])[k + 1])
                           /\ \A j \in 1..k : Executed(db, CallsOf(next[p])[j], next[p])
<1>1. Position(p) /\ chain \in Chains
  BY DEF Ingest, Shape
<1>2. next[p] \in DOMAIN chain
  BY <1>1 DEF Position
<1>. DEFINE h == next[p]
            q == CallsOf(h)
<1>3. PICK k \in Nat : Underway(db, q, todo[p], h, k)
  BY <1>1 DEF Position
<1>4. k + 1 \in 1..Len(q) /\ SameCall(Head(todo[p]), q[k + 1])
  BY <1>3, RemainsTail DEF Underway
<1>5. \A j \in 1..k : Executed(db, q[j], h)
  BY <1>3 DEF Underway
<1>6. q \in Seq(AnyCall) /\ Len(q) \in Nat /\ Transcribes(q, chain[h])
  BY <1>1, <1>2, CallsOfBlock
<1>. HIDE DEF q, h
<1>. QED BY <1>2, <1>4, <1>5, <1>6 DEF q, h

(* A call about an event names a transaction of the block in hand that is    *)
(* valid and carries an event.                                               *)
LEMMA HeadIsEventful ==
  ASSUME Ingest, NEW p \in Processors, todo[p] # <<>>, NEW c, c = Head(todo[p]),
         c.do \in Projections \cup {"SaveEvent", "MarkEventProcessed"}
  PROVE  \E i : /\ EventfulAt(chain[next[p]], i)
                /\ c.do \in {"SaveEvent", "MarkEventProcessed", "InsertAuditTrail"}
                     => c.tx = chain[next[p]].data[i].tx
                /\ c.do = "InsertOperationFromEvent" => c.id = chain[next[p]].data[i].tx
<1>. DEFINE h == next[p]
            q == CallsOf(h)
<1>1. Transcribes(q, chain[h])
  BY HeadOfQueue
<1>2. PICK k \in Nat : k + 1 \in 1..Len(q) /\ SameCall(c, q[k + 1])
  BY HeadOfQueue
<1>. DEFINE d == q[k + 1]
<1>3. SameCall(c, d) /\ c.do = d.do
  BY <1>2, SameDo
<1>. HIDE DEF h
<1>4. CASE c.do \in {"SaveEvent", "MarkEventProcessed"}
  <2>1. c = d
    BY <1>3, <1>4 DEF SameCall
  <2>2. PICK i : /\ EventfulAt(chain[h], i)
                 /\ d = SaveEventOf(chain[h].data[i].tx) \/ d = MarkOf(chain[h].data[i].tx)
    BY <1>1, <1>2, <1>3, <1>4 DEF Transcribes
  <2>3. d.tx = chain[h].data[i].tx
    BY <2>2 DEF SaveEventOf, MarkOf
  <2>. QED BY <1>4, <2>1, <2>2, <2>3 DEF h
<1>5. CASE c.do \in Projections
  <2>1. PICK i : EventfulAt(chain[h], i) /\ d \in Projecting(chain[h].data[i].tx)
    BY <1>1, <1>2, <1>3, <1>5 DEF Transcribes
  <2>. DEFINE x == chain[h].data[i].tx
  <2>2. d \in Projecting(x)
    BY <2>1
  <2>. HIDE DEF d, x
  <2>3. c.do = "InsertAuditTrail" => c.tx = x
    <3>1. c.do = "InsertAuditTrail" => c = d
      BY <1>3 DEF SameCall
    <3>. QED BY <2>2, <3>1 DEF Projecting
  <2>4. c.do = "InsertOperationFromEvent" => c.id = x
    <3>. SUFFICES ASSUME c.do = "InsertOperationFromEvent" PROVE c.id = x
      OBVIOUS
    <3>1. d.do = "InsertOperationFromEvent" /\ d.id = x
      BY <1>3, <2>2 DEF Projecting
    <3>2. CASE c = d
      BY <3>1, <3>2
    <3>3. ASSUME NEW y, c \in Projecting(y), d \in Projecting(y) PROVE c.id = x
      BY <3>1, <3>3 DEF Projecting
    <3>. QED BY <1>3, <3>2, <3>3 DEF SameCall
  <2>5. c.do \notin {"SaveEvent", "MarkEventProcessed"}
    BY <1>5 DEF Projections, Writes
  <2>. QED BY <2>1, <2>3, <2>4, <2>5 DEF h, x
<1>. QED BY <1>4, <1>5

(* Ids of transactions the chain refused, or of other chaincodes. *)
Bare == TxIds \ {y.id : y \in Eventful}

LEMMA HeadNotBare ==
  ASSUME Ingest, NEW p \in Processors, todo[p] # <<>>, NEW i, EventfulAt(chain[next[p]], i)
  PROVE  chain[next[p]].data[i].tx \notin Bare
<1>1. next[p] \in DOMAIN chain
  BY HeadOfQueue
<1>2. Tr(next[p], i) \in Eventful
  BY <1>1, EventfulPositions
<1>3. Tr(next[p], i).id = chain[next[p]].data[i].tx
  BY DEF Tr
<1>. QED BY <1>2, <1>3 DEF Bare

(* Transactions the chain refused, and those of other chaincodes, leave      *)
(* nothing behind but the row of the transaction: no event, no operation, no *)
(* entry of the audit trail, with any number of processors and any replays.  *)
THEOREM RefusedLeaveNothing == Spec => []RefusedLeaveNoTrace
<1>1. Init => RefusedLeaveNoTrace
  <2>. SUFFICES ASSUME Init PROVE RefusedLeaveNoTrace
    OBVIOUS
  <2>1. db = EmptyDatabase(InitialHeight)
    BY DEF Init, Start
  <2>2. \A x \in TxIds : db.events[x] = "absent" /\ db.operations[x] = Nil
    BY <2>1 DEF EmptyDatabase
  <2>3. db.audit = <<>>
    BY <2>1 DEF EmptyDatabase
  <2>. QED BY <2>2, <2>3 DEF RefusedLeaveNoTrace
<1>2. Ingest /\ RefusedLeaveNoTrace /\ [Next]_vars => RefusedLeaveNoTrace'
  <2>. SUFFICES ASSUME Ingest, RefusedLeaveNoTrace, [Next]_vars PROVE RefusedLeaveNoTrace'
    OBVIOUS
  <2>1. /\ \A x \in Bare : db.events[x] = "absent" /\ db.operations[x] = Nil
        /\ \A x \in Bare : \A i \in DOMAIN db.audit : db.audit[i].tx # x
    BY DEF RefusedLeaveNoTrace, Bare
  <2>2. SUFFICES ASSUME NEW x \in Bare
                 PROVE  /\ db'.events[x] = "absent" /\ db'.operations[x] = Nil
                        /\ \A i \in DOMAIN db'.audit : db'.audit[i].tx # x
    <3>1. chain' = chain
      BY NextMoves DEF Moves, MapIdentity, vars
    <3>2. Bare' = Bare
      BY <3>1, SameTransactions DEF Bare
    <3>. QED BY <2>2, <3>2 DEF RefusedLeaveNoTrace, Bare
  <2>3. ASSUME NEW p \in Processors, Moves(p)
        PROVE  /\ db'.events[x] = "absent" /\ db'.operations[x] = Nil
               /\ \A i \in DOMAIN db'.audit : db'.audit[i].tx # x
    <3>1. db' = db \/ Rehashes(db, db') =>
            /\ db'.events = db.events /\ db'.operations = db.operations /\ db'.audit = db.audit
      BY DEF Rehashes
    <3>2. CASE db' = db \/ Rehashes(db, db')
      BY <2>1, <3>1, <3>2
    <3>. DEFINE c == Head(todo[p])
                h == next[p]
    <3>3. ASSUME todo[p] # <<>>, h \in DOMAIN chain, c \in AnyCall, Made(db, h, c, db')
          PROVE  /\ db'.events[x] = "absent" /\ db'.operations[x] = Nil
                 /\ \A i \in DOMAIN db'.audit : db'.audit[i].tx # x
      <4>1. /\ db \in Database /\ MappingType /\ h \in Nat
        BY DEF Ingest, Shape, Control
      <4>2. x \in TxIds
        BY DEF Bare
      <4>3. Explains(db, h, c, db') /\ db' \in Database
        <5>. HIDE DEF c, h
        <5>. QED BY <3>3, <4>1, MadeTyped
      <4>4. ASSUME c.do \in Projections \cup {"SaveEvent", "MarkEventProcessed"}
            PROVE  /\ c.do \in {"SaveEvent", "MarkEventProcessed", "InsertAuditTrail"} => c.tx # x
                   /\ c.do = "InsertOperationFromEvent" => c.id # x
        BY <3>3, <4>4, HeadIsEventful, HeadNotBare
      <4>. HIDE DEF c, h
      <4>5. db'.events[x] = "absent"
        <5>1. c = MarkOf(x) \/ c = SaveEventOf(x) =>
                c.do \in {"SaveEvent", "MarkEventProcessed"} /\ c.tx = x
          BY DEF MarkOf, SaveEventOf
        <5>2. ~(c = MarkOf(x) \/ c = SaveEventOf(x))
          BY <4>4, <5>1
        <5>. QED BY <2>1, <4>2, <4>3, <5>2 DEF Explains
      <4>6. db'.operations[x] = Nil
        <5>1. ~(c.do = "InsertOperationFromEvent" /\ c \in Projecting(x))
          <6>. SUFFICES ASSUME c.do = "InsertOperationFromEvent", c \in Projecting(x) PROVE FALSE
            OBVIOUS
          <6>1. c.id = x
            BY DEF Projecting
          <6>. QED BY <4>4, <6>1 DEF Projections, Writes
        <5>. QED BY <2>1, <4>2, <4>3, <5>1 DEF Explains
      <4>7. ASSUME NEW i \in DOMAIN db'.audit PROVE db'.audit[i].tx # x
        <5>1. db'.audit \in Seq(AuditRow) /\ db.audit \in Seq(AuditRow)
          BY <4>1, <4>3 DEF Database
        <5>2. i \in 1..Len(db'.audit) /\ DOMAIN db.audit = 1..Len(db.audit)
          BY <5>1, LenProperties
        <5>3. \/ i \in 1..Len(db.audit) /\ db'.audit[i] = db.audit[i]
              \/ c.do = "InsertAuditTrail" /\ db'.audit[i].tx = c.tx
          BY <4>3, <5>2 DEF Explains
        <5>4. c.do = "InsertAuditTrail" => c.tx # x
          BY <4>4 DEF Projections, Writes
        <5>. QED BY <2>1, <5>2, <5>3, <5>4
      <4>. QED BY <4>5, <4>6, <4>7
    <3>. QED BY <2>3, <3>2, <3>3, MovesWrite DEF Writing
  <2>4. CASE MapIdentity \/ UNCHANGED vars
    <3>1. db' = db
      BY <2>4 DEF MapIdentity, vars
    <3>. QED BY <2>1, <3>1
  <2>. QED BY <2>3, <2>4, NextMoves
<1>. QED BY <1>1, <1>2, IngestAlways, PTL DEF Spec

-----------------------------------------------------------------------------
(* What an ingested block has left. *)
LEMMA IngestedTraces ==
  ASSUME chain \in Chains, NEW h \in DOMAIN chain, NEW d, Ingested(d, h)
  PROVE  /\ h \in d.blocks
         /\ \A i : TransactionAt(chain[h], i) /\ chain[h].filter[i] # "VALID"
                     => d.invalid[chain[h].data[i].tx] # Nil
         /\ \A i : EventfulAt(chain[h], i) => d.events[chain[h].data[i].tx] = "processed"
<1>. DEFINE q == CallsOf(h)
<1>1. /\ Len(q) \in Nat /\ 2 <= Len(q) /\ q[1].do = "SaveBlock" /\ Transcribes(q, chain[h])
  BY CallsOfBlock
<1>2. \A j \in 1..Len(q) : Executed(d, q[j], h)
  BY DEF Ingested
<1>. HIDE DEF q
<1>3. h \in d.blocks
  <2>1. Executed(d, q[1], h)
    BY <1>1, <1>2
  <2>. QED BY <1>1, <2>1 DEF Executed
<1>4. ASSUME NEW i, TransactionAt(chain[h], i), chain[h].filter[i] # "VALID"
      PROVE  d.invalid[chain[h].data[i].tx] # Nil
  <2>1. PICK k \in 1..Len(q) : q[k] = SaveInvalidOf(chain[h].data[i].tx)
    BY <1>1, <1>4 DEF Transcribes
  <2>2. q[k].do = "SaveInvalidTransaction" /\ q[k].tx = chain[h].data[i].tx
    BY <2>1 DEF SaveInvalidOf
  <2>3. Executed(d, q[k], h)
    BY <1>2
  <2>. QED BY <2>2, <2>3 DEF Executed
<1>5. ASSUME NEW i, EventfulAt(chain[h], i) PROVE d.events[chain[h].data[i].tx] = "processed"
  <2>1. PICK k \in 1..Len(q) : q[k] = MarkOf(chain[h].data[i].tx)
    BY <1>1, <1>5 DEF Transcribes, EventfulAt
  <2>2. q[k].do = "MarkEventProcessed" /\ q[k].tx = chain[h].data[i].tx
    BY <2>1 DEF MarkOf
  <2>3. Executed(d, q[k], h)
    BY <1>2
  <2>. QED BY <2>2, <2>3 DEF Executed
<1>. QED BY <1>3, <1>4, <1>5

LEMMA TransactionIds ==
  ASSUME chain \in Chains, NEW h \in DOMAIN chain, NEW i, TransactionAt(chain[h], i)
  PROVE  /\ chain[h].data[i].tx \in TxIds /\ i \in Nat /\ chain[h].filter[i] \in STRING
         /\ i \in DOMAIN chain[h].data
<1>1. WellFormed(chain[h])
  BY ChainFacts
<1>2. /\ chain[h].data \in Seq(RawEnvelope) /\ chain[h].filter \in Seq(STRING)
      /\ Len(chain[h].filter) = Len(chain[h].data)
  BY <1>1 DEF WellFormed, RawBlock
<1>3. i \in DOMAIN chain[h].data /\ IsTransaction(chain[h].data[i])
  BY DEF TransactionAt
<1>4. chain[h].data[i].tx \in TxIds
  BY <1>1, <1>3 DEF WellFormed
<1>. QED BY <1>2, <1>3, <1>4, LenProperties, ElementOfSeq

(* Two transactions of one id with events are one. *)
LEMMA EventfulOnce ==
  ASSUME chain \in Chains, NEW h \in DOMAIN chain, NEW g \in DOMAIN chain, NEW i, NEW j,
         EventfulAt(chain[h], i), EventfulAt(chain[g], j),
         chain[h].data[i].tx = chain[g].data[j].tx
  PROVE  h = g /\ i = j
<1>1. ValidOnce(chain)
  BY ChainsAssumption
<1>. QED BY <1>1 DEF ValidOnce, EventfulAt, TransactionAt

InOrder ==
  \A h, g \in DOMAIN chain : \A i, j :
    /\ EventfulAt(chain[h], i) /\ EventfulAt(chain[g], j)
    /\ InitialHeight < h /\ (h < g \/ (h = g /\ i < j))
    /\ db.events[chain[g].data[j].tx] = "processed"
    => db.events[chain[h].data[i].tx] = "processed"

LEMMA InOrderSuffices == ASSUME chain \in Chains, InOrder PROVE ProjectedInOrder
<1>. SUFFICES ASSUME NEW x \in Eventful, NEW y \in Eventful, db.events[y.id] = "processed",
                     x.at[1] > InitialHeight, Before(x, y)
              PROVE  db.events[x.id] = "processed"
  BY DEF ProjectedInOrder, Projected
<1>1. PICK h \in DOMAIN chain : \E i : EventfulAt(chain[h], i) /\ x = Tr(h, i)
  BY EventfulPositions
<1>2. PICK i : EventfulAt(chain[h], i) /\ x = Tr(h, i)
  BY <1>1
<1>3. PICK g \in DOMAIN chain : \E j : EventfulAt(chain[g], j) /\ y = Tr(g, j)
  BY EventfulPositions
<1>4. PICK j : EventfulAt(chain[g], j) /\ y = Tr(g, j)
  BY <1>3
<1>5. /\ x.at = <<h, i>> /\ x.id = chain[h].data[i].tx
      /\ y.at = <<g, j>> /\ y.id = chain[g].data[j].tx
  BY <1>2, <1>4 DEF Tr
<1>6. h \in Nat /\ InitialHeight < h /\ (h < g \/ (h = g /\ i < j))
  BY <1>5, ChainFacts, InitialHeightAssumption DEF Before
<1>7. db.events[chain[g].data[j].tx] = "processed"
  BY <1>5
<1>8. db.events[chain[h].data[i].tx] = "processed"
  BY <1>2, <1>4, <1>6, <1>7, Zenon DEF InOrder
<1>. QED BY <1>5, <1>8

(* An event is marked when all those before it are. *)
LEMMA MarksInOrder ==
  ASSUME Ingest, NEW p \in Processors, todo[p] # <<>>, phase[p] = "running",
         NEW g \in DOMAIN chain, NEW j, EventfulAt(chain[g], j),
         Head(todo[p]) = MarkOf(chain[g].data[j].tx),
         NEW h \in DOMAIN chain, NEW i, EventfulAt(chain[h], i),
         InitialHeight < h, h < g \/ (h = g /\ i < j)
  PROVE  db.events[chain[h].data[i].tx] = "processed"
<1>. DEFINE b == next[p]
            q == CallsOf(b)
<1>1. b \in DOMAIN chain /\ Transcribes(q, chain[b])
  BY HeadOfQueue
<1>2. PICK k \in Nat : /\ k + 1 \in 1..Len(q) /\ SameCall(Head(todo[p]), q[k + 1])
                       /\ \A l \in 1..k : Executed(db, q[l], b)
  BY HeadOfQueue
<1>3. chain \in Chains /\ Position(p) /\ Vouched /\ db.checkpoint.height \in Nat
  BY DEF Ingest, Shape, Database
<1>4. b <= db.checkpoint.height + 1 /\ b \in Nat /\ h \in Nat
  BY <1>1, <1>3, ChainFacts DEF Position
<1>. HIDE DEF q, b
<1>5. q[k + 1].do = "MarkEventProcessed" /\ q[k + 1] = Head(todo[p])
  <2>1. Head(todo[p]).do = "MarkEventProcessed"
    BY DEF MarkOf
  <2>. QED BY <1>2, <2>1 DEF SameCall
<1>6. PICK m : /\ EventfulAt(chain[b], m) /\ q[k + 1] = MarkOf(chain[b].data[m].tx)
               /\ \A n : EventfulAt(chain[b], n) /\ n < m =>
                    \E l \in 1..Len(q) : l < k + 1 /\ q[l] = MarkOf(chain[b].data[n].tx)
  BY <1>1, <1>2, <1>5 DEF Transcribes
<1>7. chain[b].data[m].tx = chain[g].data[j].tx
  BY <1>5, <1>6 DEF MarkOf
<1>8. b = g /\ m = j
  BY <1>1, <1>3, <1>6, <1>7, EventfulOnce
<1>9. CASE h < g
  <2>1. Ingested(db, h)
    BY <1>3, <1>4, <1>8, <1>9 DEF Vouched
  <2>. QED BY <1>3, <2>1, IngestedTraces
<1>10. CASE h = g /\ i < j
  <2>1. PICK l \in 1..Len(q) : l < k + 1 /\ q[l] = MarkOf(chain[b].data[i].tx)
    BY <1>6, <1>8, <1>10
  <2>2. l \in 1..k
    BY <1>2, <2>1
  <2>3. Executed(db, q[l], b)
    BY <1>2, <2>2
  <2>4. q[l].do = "MarkEventProcessed" /\ q[l].tx = chain[h].data[i].tx
    BY <1>8, <1>10, <2>1 DEF MarkOf
  <2>. QED BY <2>3, <2>4 DEF Executed
<1>. QED BY <1>9, <1>10

LEMMA InOrderInit == Init => InOrder
<1>. SUFFICES ASSUME Init PROVE InOrder
  OBVIOUS
<1>1. Ingest
  BY IngestInit
<1>2. chain \in Chains /\ db = EmptyDatabase(InitialHeight)
  BY DEF Init, Start
<1>3. \A x \in TxIds : db.events[x] = "absent"
  BY <1>2 DEF EmptyDatabase
<1>4. \A g \in DOMAIN chain : \A j : EventfulAt(chain[g], j) => chain[g].data[j].tx \in TxIds
  BY <1>2, TransactionIds DEF EventfulAt
<1>. QED BY <1>3, <1>4 DEF InOrder

LEMMA InOrderNext == Ingest /\ InOrder /\ [Next]_vars => InOrder'
<1>. SUFFICES ASSUME Ingest, InOrder, [Next]_vars PROVE InOrder'
  OBVIOUS
<1>1. chain' = chain
  BY NextMoves DEF Moves, MapIdentity, vars
<1>2. SUFFICES ASSUME NEW h \in DOMAIN chain, NEW g \in DOMAIN chain, NEW i, NEW j,
                      EventfulAt(chain[h], i), EventfulAt(chain[g], j),
                      InitialHeight < h, h < g \/ (h = g /\ i < j),
                      db'.events[chain[g].data[j].tx] = "processed"
               PROVE  db'.events[chain[h].data[i].tx] = "processed"
  BY <1>1 DEF InOrder
<1>. DEFINE x == chain[h].data[i].tx
            y == chain[g].data[j].tx
<1>3. chain \in Chains /\ x \in TxIds /\ y \in TxIds
  <2>1. chain \in Chains
    BY DEF Ingest, Shape
  <2>2. TransactionAt(chain[h], i) /\ TransactionAt(chain[g], j)
    BY <1>2 DEF EventfulAt
  <2>. QED BY <2>1, <2>2, TransactionIds
<1>4. CASE db.events[y] = "processed" /\ (\E p \in Processors : Moves(p))
  <2>1. db.events[x] = "processed"
    BY <1>2, <1>4 DEF InOrder
  <2>2. Grows(db, db')
    BY <1>4, MovesWrite, WritingGrows
  <2>. HIDE DEF x
  <2>3. db'.events[x] = "processed"
    BY <1>3, <2>1, <2>2 DEF Grows
  <2>. QED BY <2>3 DEF x
<1>5. ASSUME NEW p \in Processors, Moves(p), db.events[y] # "processed"
      PROVE  db'.events[x] = "processed"
  <2>1. db'.events # db.events
    BY <1>2, <1>5
  <2>2. /\ phase[p] = "running" /\ todo[p] # <<>> /\ Head(todo[p]) \in AnyCall
        /\ Made(db, next[p], Head(todo[p]), db')
    BY <1>5, <2>1, MovesWrite DEF Writing, Rehashes
  <2>3. db \in Database /\ MappingType /\ next[p] \in Nat
    BY DEF Ingest, Shape, Control
  <2>4. Explains(db, next[p], Head(todo[p]), db') /\ Grows(db, db')
    BY <2>2, <2>3, MadeTyped
  <2>. HIDE DEF x, y
  <2>5. Head(todo[p]) = MarkOf(y)
    <3>1. db'.events[y] = "processed"
      BY <1>2 DEF y
    <3>. QED BY <1>3, <1>5, <2>4, <3>1 DEF Explains
  <2>6. db.events[x] = "processed"
    BY <1>2, <2>2, <2>5, MarksInOrder DEF x, y
  <2>. QED BY <1>3, <2>4, <2>6 DEF Grows
<1>6. CASE MapIdentity \/ UNCHANGED vars
  <2>1. db' = db
    BY <1>6 DEF MapIdentity, vars
  <2>. QED BY <1>2, <2>1 DEF InOrder
<1>. QED BY <1>4, <1>5, <1>6, NextMoves

(* Events are projected in chain order, by any number of processors and      *)
(* through any crash: one that cannot be projected yet holds back every      *)
(* later one.                                                                *)
THEOREM OrderKept == Spec => []ProjectedInOrder
<1>1. Ingest /\ InOrder => ProjectedInOrder
  BY InOrderSuffices DEF Ingest, Shape
<1>. QED BY <1>1, InOrderInit, InOrderNext, IngestAlways, PTL DEF Spec

-----------------------------------------------------------------------------
(* With one processor, the block in hand is the one after the checkpoint.    *)
OneProcessor == \A p, r \in Processors : p = r

Alone == \A p \in Processors : phase[p] = "running" => next[p] = db.checkpoint.height + 1

LEMMA AloneMoves ==
  ASSUME OneProcessor, Ingest, Alone, NEW p \in Processors, Moves(p) PROVE Alone'
<1>1. phase[p] = "running" => next[p] = db.checkpoint.height + 1
  BY DEF Alone
<1>2. db \in Database /\ db.checkpoint.height \in Nat /\ next[p] \in Nat /\ MappingType
  BY DEF Ingest, Shape, Control, Database
<1>3. phase'[p] = "running" => next'[p] = db'.checkpoint.height + 1
  <2>1. CASE Idles(p) \/ Subscribes(p)
    BY <2>1 DEF Idles, Subscribes
  <2>2. CASE Receives(p) \/ Skips(p)
    BY <1>1, <2>2 DEF Receives, Skips, Busy
  <2>3. CASE Calls(p)
    <3>. DEFINE c == Head(todo[p])
                h == next[p]
    <3>1. Made(db, h, c, db') /\ c.do # "UpdateCheckpoint" /\ next'[p] = next[p]
      BY <2>3 DEF Calls
    <3>2. c \in AnyCall
      <4>1. todo[p] \in Seq(AnyCall) /\ todo[p] # <<>>
        BY <2>3 DEF Ingest, Shape, Control, Calls, Busy
      <4>. QED BY <4>1, HeadTailProperties
    <3>3. db'.checkpoint = db.checkpoint
      <4>. HIDE DEF c, h
      <4>1. h \in Nat
        BY <1>2 DEF h
      <4>. QED BY <1>2, <3>1, <3>2, <4>1, MadeTyped
    <3>. QED BY <1>1, <2>3, <3>1, <3>3 DEF Calls, Busy
  <2>4. CASE Completes(p)
    <3>1. /\ next'[p] = next[p] + 1 /\ next[p] = db.checkpoint.height + 1
          /\ db' = UpdateCheckpoint(db, next[p], <<next[p]>>)
      BY <1>1, <2>4 DEF Completes, Busy
    <3>2. db'.checkpoint.height =
            IF next[p] > db.checkpoint.height THEN next[p] ELSE db.checkpoint.height
      BY <1>2, <3>1, AdvanceTyped
    <3>. QED BY <1>2, <3>1, <3>2
  <2>. QED BY <2>1, <2>2, <2>3, <2>4 DEF Moves, Does
<1>. QED BY <1>3 DEF Alone, OneProcessor

(* With one processor, the stored hash is the seed's, the reconciler's, or   *)
(* that of the block at the stored height.                                   *)
THEOREM HashAgrees == ASSUME OneProcessor PROVE Spec => []HashMatchesHeight
<1>1. Init => Alone /\ HashMatchesHeight
  <2>. SUFFICES ASSUME Init PROVE Alone /\ HashMatchesHeight
    OBVIOUS
  <2>1. db = EmptyDatabase(InitialHeight) /\ phase = [p \in Processors |-> "starting"]
    BY DEF Init, Start
  <2>2. db.checkpoint = [height |-> InitialHeight, hash |-> Nil]
    BY <2>1 DEF EmptyDatabase
  <2>. QED BY <2>1, <2>2 DEF Alone, HashMatchesHeight
<1>2. Ingest /\ Alone /\ HashMatchesHeight /\ [Next]_vars => Alone' /\ HashMatchesHeight'
  <2>. SUFFICES ASSUME Ingest, Alone, HashMatchesHeight, [Next]_vars
                PROVE  Alone' /\ HashMatchesHeight'
    OBVIOUS
  <2>1. CASE MapIdentity \/ UNCHANGED vars
    BY <2>1 DEF MapIdentity, vars, Alone, HashMatchesHeight
  <2>2. ASSUME NEW p \in Processors, Moves(p) PROVE HashMatchesHeight'
    <3>1. Writing(p)
      BY <2>2, MovesWrite
    <3>2. CASE db' = db
      BY <3>2 DEF HashMatchesHeight
    <3>3. CASE Rehashes(db, db')
      BY <3>3 DEF HashMatchesHeight, Rehashes
    <3>. DEFINE c == Head(todo[p])
                h == next[p]
    <3>4. ASSUME phase[p] = "running", c \in AnyCall, Made(db, h, c, db')
          PROVE  HashMatchesHeight'
      <4>1. /\ db \in Database /\ db.checkpoint.height \in Nat /\ h \in Nat /\ MappingType
            /\ h = db.checkpoint.height + 1
        BY <3>4 DEF Ingest, Shape, Control, Database, Alone
      <4>. HIDE DEF c, h
      <4>2. CASE c.do = "UpdateCheckpoint"
        <5>1. db' = UpdateCheckpoint(db, h, <<h>>)
          BY <3>4, <4>2 DEF Made, Writes
        <5>2. /\ db'.checkpoint.height = IF h > db.checkpoint.height THEN h ELSE db.checkpoint.height
              /\ db'.checkpoint.hash = <<h>>
          BY <4>1, <5>1, AdvanceTyped
        <5>3. db'.checkpoint.height = h
          BY <4>1, <5>2
        <5>. QED BY <5>2, <5>3 DEF HashMatchesHeight
      <4>3. CASE c.do # "UpdateCheckpoint"
        <5>1. db'.checkpoint = db.checkpoint
          BY <3>4, <4>1, <4>3, MadeTyped
        <5>. QED BY <5>1 DEF HashMatchesHeight
      <4>. QED BY <4>2, <4>3
    <3>. QED BY <3>1, <3>2, <3>3, <3>4 DEF Writing
  <2>. QED BY <2>1, <2>2, AloneMoves, NextMoves
<1>. QED BY <1>1, <1>2, IngestAlways, PTL DEF Spec

-----------------------------------------------------------------------------
(* The rows of transactions.  Rows are keyed by id, so a row may be that of  *)
(* a later transaction with the same id (the ordering service can deliver a  *)
(* transaction twice; peers refuse the second).  It is never that of an      *)
(* earlier one, where one processor runs or no id comes twice.               *)
DistinctIds ==
  \A c \in Chains : \A h, g \in DOMAIN c : \A i, j :
    /\ TransactionAt(c[h], i) /\ TransactionAt(c[g], j) /\ c[h].data[i].tx = c[g].data[j].tx
    => h = g /\ i = j

RowOf(d, h, i) ==
  \E g \in DOMAIN chain : \E j :
    /\ TransactionAt(chain[g], j) /\ chain[g].data[j].tx = chain[h].data[i].tx
    /\ h < g \/ (h = g /\ i <= j)
    /\ d.transactions[chain[h].data[i].tx] =
         [block |-> g, index |-> j, code |-> chain[g].filter[j]]

RowDone(d, h, c) == c.do = "SaveTransaction" => RowOf(d, h, c.index)

RowsUnderway(p) ==
  todo[p] # <<>> =>
    \E k \in Nat : /\ Remains(todo[p], CallsOf(next[p]), k)
                   /\ \A j \in 1..k : RowDone(db, next[p], CallsOf(next[p])[j])

RowsVouched ==
  \A h \in DOMAIN chain : InitialHeight < h /\ h <= db.checkpoint.height =>
    \A i : TransactionAt(chain[h], i) => RowOf(db, h, i)

Recorded == RowsVouched /\ \A p \in Processors : RowsUnderway(p)

(* A row gives way only to that of a transaction that is not before it. *)
LEMMA RowKept ==
  ASSUME Ingest, NEW p \in Processors, Moves(p),
         NEW h \in DOMAIN chain, NEW i, TransactionAt(chain[h], i), RowOf(db, h, i),
         \A m : /\ todo[p] # <<>> /\ Head(todo[p]) = SaveTransactionAt(chain[next[p]], m)
                /\ TransactionAt(chain[next[p]], m)
                /\ chain[next[p]].data[m].tx = chain[h].data[i].tx
                => h < next[p] \/ (h = next[p] /\ i <= m)
  PROVE  RowOf(db', h, i)
<1>. DEFINE x == chain[h].data[i].tx
            b == next[p]
            c == Head(todo[p])
<1>1. x \in TxIds /\ chain \in Chains /\ db \in Database /\ MappingType /\ b \in Nat
  BY TransactionIds DEF Ingest, Shape, Control
<1>2. CASE db'.transactions = db.transactions
  BY <1>2 DEF RowOf
<1>3. CASE db'.transactions # db.transactions
  <2>1. /\ todo[p] # <<>> /\ b \in DOMAIN chain /\ c \in AnyCall /\ Made(db, b, c, db')
    BY <1>3, MovesWrite DEF Writing, Rehashes
  <2>2. Explains(db, b, c, db')
    <3>. HIDE DEF b, c
    <3>. QED BY <1>1, <2>1, MadeTyped
  <2>3. CASE db'.transactions[x] = db.transactions[x]
    BY <2>3 DEF RowOf
  <2>4. CASE db'.transactions[x] # db.transactions[x]
    <3>1. /\ c.do = "SaveTransaction" /\ c.tx = x
          /\ db'.transactions[x] = [block |-> b, index |-> c.index, code |-> c.code]
      <4>. HIDE DEF x, b, c
      <4>. QED BY <1>1, <2>2, <2>4 DEF Explains
    <3>. DEFINE q == CallsOf(b)
    <3>2. PICK k \in Nat : k + 1 \in 1..Len(q) /\ SameCall(c, q[k + 1])
      BY <2>1, HeadOfQueue
    <3>3. Transcribes(q, chain[b])
      BY <2>1, HeadOfQueue
    <3>. HIDE DEF q
    <3>4. q[k + 1] = c /\ q[k + 1].do = "SaveTransaction"
      BY <3>1, <3>2 DEF SameCall
    <3>5. PICK m : TransactionAt(chain[b], m) /\ q[k + 1] = SaveTransactionAt(chain[b], m)
      BY <3>2, <3>3, <3>4 DEF Transcribes
    <3>6. c = SaveTransactionAt(chain[b], m)
      BY <3>4, <3>5
    <3>7. c.index = m /\ c.code = chain[b].filter[m] /\ chain[b].data[m].tx = x
      BY <3>1, <3>6 DEF SaveTransactionAt
    <3>8. h < b \/ (h = b /\ i <= m)
      BY <2>1, <3>5, <3>6, <3>7
    <3>9. db'.transactions[x] = [block |-> b, index |-> m, code |-> chain[b].filter[m]]
      BY <3>1, <3>7
    <3>. QED BY <2>1, <3>5, <3>7, <3>8, <3>9 DEF RowOf
  <2>. QED BY <2>3, <2>4
<1>. QED BY <1>2, <1>3

(* The row of the block in hand that the call at the head has just written. *)
LEMMA RowWritten ==
  ASSUME Ingest, NEW p \in Processors, todo[p] # <<>>,
         NEW c, c = Head(todo[p]), c.do = "SaveTransaction", Made(db, next[p], c, db')
  PROVE  RowOf(db', next[p], c.index)
<1>. DEFINE b == next[p]
            q == CallsOf(b)
<1>1. b \in DOMAIN chain /\ Transcribes(q, chain[b])
  BY HeadOfQueue
<1>2. PICK k \in Nat : k + 1 \in 1..Len(q) /\ SameCall(c, q[k + 1])
  BY HeadOfQueue
<1>. HIDE DEF q, b
<1>3. q[k + 1] = c
  BY <1>2 DEF SameCall
<1>4. PICK m : TransactionAt(chain[b], m) /\ q[k + 1] = SaveTransactionAt(chain[b], m)
  BY <1>1, <1>2, <1>3 DEF Transcribes
<1>5. c.tx = chain[b].data[m].tx /\ c.index = m /\ c.code = chain[b].filter[m]
  BY <1>3, <1>4 DEF SaveTransactionAt
<1>6. chain \in Chains /\ db \in Database
  BY DEF Ingest, Shape
<1>7. chain[b].data[m].tx \in TxIds /\ m \in Nat
  BY <1>1, <1>4, <1>6, TransactionIds
<1>8. db' = SaveTransaction(db, c.tx, b, c.index, c.code)
  BY DEF Made, Writes, b
<1>9. db'.transactions[c.tx] = [block |-> b, index |-> c.index, code |-> c.code]
  <2>. DEFINE row == [block |-> b, index |-> c.index, code |-> c.code]
              x == c.tx
  <2>1. x \in TxIds /\ db' = [db EXCEPT !.transactions[x] = row]
    BY <1>5, <1>7, <1>8 DEF SaveTransaction
  <2>2. DOMAIN db.transactions = TxIds
    BY <1>6 DEF Database
  <2>3. db'.transactions = [db.transactions EXCEPT ![x] = row]
    <3>. HIDE DEF row, x
    <3>. QED BY <1>6, <2>1 DEF Database
  <2>. HIDE DEF row, x
  <2>4. db'.transactions[x] = row
    BY <2>1, <2>2, <2>3
  <2>. QED BY <2>4 DEF row, x
<1>10. db'.transactions[chain[b].data[m].tx] = [block |-> b, index |-> m, code |-> chain[b].filter[m]]
  BY <1>5, <1>9
<1>11. RowOf(db', b, m)
  BY <1>1, <1>4, <1>7, <1>10 DEF RowOf
<1>. QED BY <1>5, <1>11 DEF b

(* A transaction of the block in hand that is done precedes the next one. *)
LEMMA DoneBeforeHead ==
  ASSUME Ingest, NEW p \in Processors, todo[p] # <<>>, NEW k \in Nat,
         Remains(todo[p], CallsOf(next[p]), k),
         NEW j \in 1..k, CallsOf(next[p])[j].do = "SaveTransaction"
  PROVE  LET b == next[p]
             i == CallsOf(b)[j].index
         IN  /\ b \in DOMAIN chain /\ TransactionAt(chain[b], i)
             /\ \A m : Head(todo[p]) = SaveTransactionAt(chain[b], m) => i <= m
<1>. DEFINE b == next[p]
            q == CallsOf(b)
            i == q[j].index
<1>1. b \in DOMAIN chain /\ Transcribes(q, chain[b]) /\ Len(q) \in Nat /\ chain \in Chains
  BY HeadOfQueue DEF Ingest, Shape
<1>2. k + 1 \in 1..Len(q) /\ SameCall(Head(todo[p]), q[k + 1])
  BY RemainsTail
<1>. HIDE DEF q, b
<1>3. j \in 1..Len(q) /\ j < k + 1 /\ q[j].do = "SaveTransaction"
  BY <1>1, <1>2 DEF q, b
<1>4. PICK n : TransactionAt(chain[b], n) /\ q[j] = SaveTransactionAt(chain[b], n)
  BY <1>1, <1>3 DEF Transcribes
<1>5. i = n /\ n \in Nat
  BY <1>1, <1>4, TransactionIds DEF SaveTransactionAt
<1>6. ASSUME NEW m, Head(todo[p]) = SaveTransactionAt(chain[b], m) PROVE i <= m
  <2>1. Head(todo[p]).do = "SaveTransaction" /\ Head(todo[p]).index = m
    BY <1>6 DEF SaveTransactionAt
  <2>2. q[k + 1] = Head(todo[p])
    BY <1>2, <2>1 DEF SameCall
  <2>3. q[k + 1].do = "SaveTransaction" /\ q[k + 1].index = m
    BY <2>1, <2>2
  <2>4. q[j].index < q[k + 1].index
    BY <1>1, <1>2, <1>3, <2>3 DEF Transcribes
  <2>5. PICK o : TransactionAt(chain[b], o) /\ q[k + 1] = SaveTransactionAt(chain[b], o)
    BY <1>1, <1>2, <2>3 DEF Transcribes
  <2>6. m = o /\ o \in Nat
    BY <1>1, <2>3, <2>5, TransactionIds DEF SaveTransactionAt
  <2>7. n < m
    BY <1>5, <2>3, <2>4
  <2>. QED BY <1>5, <2>6, <2>7
<1>. QED BY <1>1, <1>4, <1>5, <1>6 DEF q, b

(* With no id twice, no row gives way. *)
LEMMA DistinctKept ==
  ASSUME DistinctIds, Ingest, NEW p \in Processors, Moves(p),
         NEW h \in DOMAIN chain, NEW i, TransactionAt(chain[h], i), RowOf(db, h, i)
  PROVE  RowOf(db', h, i)
<1>1. chain \in Chains
  BY DEF Ingest, Shape
<1>2. i \in Nat
  BY <1>1, TransactionIds
<1>3. ASSUME NEW m, todo[p] # <<>>, TransactionAt(chain[next[p]], m),
             chain[next[p]].data[m].tx = chain[h].data[i].tx
      PROVE  h < next[p] \/ (h = next[p] /\ i <= m)
  <2>1. next[p] \in DOMAIN chain
    BY <1>3, HeadOfQueue
  <2>2. h = next[p] /\ i = m
    BY <1>1, <1>3, <2>1 DEF DistinctIds
  <2>. QED BY <1>2, <2>2
<1>. QED BY <1>3, RowKept

Unambiguous == (OneProcessor /\ Alone) \/ DistinctIds

LEMMA SameRows ==
  ASSUME chain' = chain, NEW h, NEW i PROVE RowOf(db, h, i)' = RowOf(db', h, i)
  BY DEF RowOf

LEMMA MoverRows ==
  ASSUME Ingest, Recorded, Unambiguous, NEW p \in Processors, Moves(p) PROVE RowsUnderway(p)'
<1>. DEFINE b == next[p]
            q == CallsOf(b)
            s == todo[p]
            c == Head(s)
<1>1. RowsUnderway(p) /\ chain' = chain /\ chain \in Chains /\ s \in Seq(AnyCall)
  BY DEF Recorded, Moves, Ingest, Shape, Control
<1>2. CASE todo'[p] = <<>>
  BY <1>2 DEF RowsUnderway
<1>3. ASSUME next'[p] = b, NEW k \in Nat, Remains(todo'[p], q, k), \A j \in 1..k : RowDone(db', b, q[j])
      PROVE  RowsUnderway(p)'
  <2>1. CallsOf(next[p])' = q
    BY <1>1, <1>3 DEF CallsOf
  <2>2. ASSUME NEW j \in 1..k PROVE RowDone(db, next[p], CallsOf(next[p])[j])'
    <3>1. RowDone(db', b, q[j])
      BY <1>3
    <3>2. \A h, i : RowOf(db', h, i) => RowOf(db, h, i)'
      BY <1>1, SameRows
    <3>. HIDE DEF q, b
    <3>. QED BY <1>3, <2>1, <3>1, <3>2 DEF RowDone
  <2>3. Remains(todo'[p], CallsOf(next[p])', k)
    BY <1>3, <2>1
  <2>. QED BY <2>2, <2>3 DEF RowsUnderway
<1>4. CASE Receives(p)
  <2>1. next'[p] = b /\ b \in DOMAIN chain /\ todo'[p] = q
    BY <1>4 DEF Receives
  <2>2. q \in Seq(AnyCall)
    BY <1>1, <2>1, CallsOfBlock
  <2>3. Len(q) \in Nat /\ \A i \in 1..Len(q) : q[i] = q[0 + i]
    BY <2>2, LenProperties
  <2>4. \A i \in 1..Len(q) : SameCall(q[i], q[0 + i])
    BY <2>3 DEF SameCall
  <2>5. Remains(todo'[p], q, 0)
    BY <2>1, <2>2, <2>3, <2>4 DEF Remains
  <2>6. \A j \in 1..0 : RowDone(db', b, q[j])
    OBVIOUS
  <2>. HIDE DEF q, b
  <2>. QED BY <1>3, <2>1, <2>5, <2>6
<1>5. ASSUME s # <<>>, NEW k \in Nat, Remains(s, q, k), NEW j \in 1..k, RowDone(db, b, q[j])
      PROVE  RowDone(db', b, q[j])
  <2>. SUFFICES ASSUME q[j].do = "SaveTransaction" PROVE RowOf(db', b, q[j].index)
    BY DEF RowDone
  <2>. DEFINE i == q[j].index
  <2>1. RowOf(db, b, i)
    BY <1>5 DEF RowDone
  <2>2. /\ b \in DOMAIN chain /\ TransactionAt(chain[b], i)
        /\ \A m : c = SaveTransactionAt(chain[b], m) => i <= m
    BY <1>5, DoneBeforeHead
  <2>. HIDE DEF i, q, c
  <2>. QED BY <2>1, <2>2, RowKept DEF i, c
<1>6. CASE Busy(p)
  <2>1. s # <<>>
    BY <1>6 DEF Busy
  <2>2. PICK k \in Nat : Remains(s, q, k) /\ \A j \in 1..k : RowDone(db, b, q[j])
    BY <1>1, <2>1 DEF RowsUnderway
  <2>3. \A j \in 1..k : RowDone(db', b, q[j])
    BY <1>5, <2>1, <2>2
  <2>4. b \in DOMAIN chain /\ q \in Seq(AnyCall) /\ Len(q) \in Nat /\ Transcribes(q, chain[b])
    BY <2>1, HeadOfQueue
  <2>5. k + 1 \in 1..Len(q) /\ c \in AnyCall /\ SameCall(c, q[k + 1])
    BY <2>1, <2>2, RemainsTail
  <2>6. CASE Calls(p)
    <3>1. next'[p] = b /\ Made(db, b, c, db')
      BY <2>6 DEF Calls
    <3>2. Remains(todo'[p], q, k + 1)
      BY <2>2, <2>6, CallsRemain
    <3>3. RowDone(db', b, q[k + 1])
      <4>. SUFFICES ASSUME q[k + 1].do = "SaveTransaction" PROVE RowOf(db', b, q[k + 1].index)
        BY DEF RowDone
      <4>1. c = q[k + 1]
        BY <2>5 DEF SameCall
      <4>. QED BY <2>1, <3>1, <4>1, RowWritten
    <3>4. \A j \in 1..(k + 1) : RowDone(db', b, q[j])
      <4>1. \A j \in 1..(k + 1) : j \in 1..k \/ j = k + 1
        OBVIOUS
      <4>. HIDE DEF q, b
      <4>. QED BY <2>3, <3>3, <4>1
    <3>5. k + 1 \in Nat
      OBVIOUS
    <3>. HIDE DEF q, b
    <3>. QED BY <1>3, <3>1, <3>2, <3>4, <3>5
  <2>7. CASE Skips(p)
    <3>1. next'[p] = b /\ c.do = "SaveEvent" /\ todo'[p] = AfterEvent(s)
      BY <2>7 DEF Skips
    <3>2. c = s[1] /\ q[k + 1].do = "SaveEvent"
      BY <2>1, <2>5, <3>1, SameDo
    <3>3. PICK i : ProjectedFrom(q, k + 1, chain[b].data[i].tx)
      BY <2>4, <2>5, <3>2 DEF Transcribes
    <3>. DEFINE x == chain[b].data[i].tx
    <3>4. ProjectedFrom(q, k + 1, x)
      BY <3>3
    <3>. HIDE DEF x, q, b
    <3>5. PICK l \in (k + 2)..Len(q) :
            /\ Remains(AfterEvent(s), q, l) /\ q[l] = MarkOf(x)
            /\ \A j \in (k + 2)..(l - 1) : q[j] \in Projecting(x)
      <4>1. SameCall(s[1], q[k + 1]) /\ s[1].do = "SaveEvent"
        BY <2>5, <3>1, <3>2
      <4>. QED BY <2>1, <2>2, <2>4, <3>4, <4>1, RemainsAfterEvent
    <3>6. l \in Nat
      BY <2>4, <3>5
    <3>7. ASSUME NEW j \in 1..l PROVE RowDone(db', b, q[j])
      <4>1. CASE j \in 1..k
        BY <2>3, <4>1
      <4>2. CASE j = k + 1
        BY <3>2, <4>2 DEF RowDone
      <4>3. CASE j = l
        BY <3>5, <4>3 DEF RowDone, MarkOf
      <4>4. CASE j \in (k + 2)..(l - 1)
        <5>1. q[j].do \in Projections
          BY <3>5, <4>4, ProjectingDo
        <5>. QED BY <5>1 DEF RowDone, Projections, Writes
      <4>5. j \in 1..k \/ j = k + 1 \/ j = l \/ j \in (k + 2)..(l - 1)
        BY <3>5, <3>6
      <4>. QED BY <4>1, <4>2, <4>3, <4>4, <4>5
    <3>. QED BY <1>3, <3>1, <3>5, <3>6, <3>7 DEF b, q
  <2>8. CASE Completes(p)
    <3>1. c.do = "UpdateCheckpoint" /\ todo'[p] = Tail(s)
      BY <2>8 DEF Completes
    <3>. QED BY <1>1, <1>2, <2>1, <2>2, <2>4, <3>1, LastCall
  <2>. QED BY <1>2, <1>4, <1>6, <2>6, <2>7, <2>8 DEF Moves, Does, Idles, Subscribes
<1>. QED BY <1>2, <1>4, <1>6 DEF Moves, Does, Idles, Subscribes, Calls, Skips, Completes

LEMMA StayerRows ==
  ASSUME Ingest, Recorded, Unambiguous, NEW p \in Processors, NEW r \in Processors, r # p, Moves(p)
  PROVE  RowsUnderway(r)'
<1>1. /\ next'[r] = next[r] /\ todo'[r] = todo[r] /\ chain' = chain /\ RowsUnderway(r)
  BY DEF Moves, Ingest, Shape, Control, Recorded
<1>2. DistinctIds
  BY DEF Unambiguous, OneProcessor
<1>3. CASE todo[r] = <<>>
  BY <1>1, <1>3 DEF RowsUnderway
<1>4. CASE todo[r] # <<>>
  <2>. DEFINE b == next[r]
              q == CallsOf(b)
  <2>1. PICK k \in Nat : Remains(todo[r], q, k) /\ \A j \in 1..k : RowDone(db, b, q[j])
    BY <1>1, <1>4 DEF RowsUnderway
  <2>2. CallsOf(next[r])' = q
    BY <1>1 DEF CallsOf
  <2>3. ASSUME NEW j \in 1..k PROVE RowDone(db, next[r], CallsOf(next[r])[j])'
    <3>1. CASE q[j].do # "SaveTransaction"
      <4>. HIDE DEF q
      <4>. QED BY <2>2, <3>1 DEF RowDone
    <3>2. CASE q[j].do = "SaveTransaction"
      <4>1. b \in DOMAIN chain /\ TransactionAt(chain[b], q[j].index)
        BY <1>4, <2>1, <3>2, DoneBeforeHead
      <4>2. RowOf(db, b, q[j].index)
        BY <2>1, <3>2 DEF RowDone
      <4>3. RowOf(db', b, q[j].index)
        BY <1>2, <4>1, <4>2, DistinctKept
      <4>4. \A h, i : RowOf(db', h, i) => RowOf(db, h, i)'
        BY <1>1, SameRows
      <4>. HIDE DEF q, b
      <4>5. next'[r] = b
        BY <1>1 DEF b
      <4>. QED BY <2>2, <4>3, <4>4, <4>5 DEF RowDone
    <3>. QED BY <3>1, <3>2
  <2>4. Remains(todo'[r], CallsOf(next[r])', k)
    BY <1>1, <2>1, <2>2
  <2>. QED BY <2>3, <2>4 DEF RowsUnderway
<1>. QED BY <1>3, <1>4

LEMMA VouchedRows ==
  ASSUME Ingest, Recorded, Unambiguous, NEW p \in Processors, Moves(p) PROVE RowsVouched'
<1>1. /\ chain' = chain /\ chain \in Chains /\ RowsVouched /\ RowsUnderway(p)
      /\ db.checkpoint.height \in Nat /\ next[p] \in Nat
  BY DEF Recorded, Moves, Ingest, Shape, Control, Database
<1>2. SUFFICES ASSUME NEW h \in DOMAIN chain, InitialHeight < h, h <= db'.checkpoint.height,
                      NEW i, TransactionAt(chain[h], i)
               PROVE  RowOf(db', h, i)
  <2>1. \A h, i : RowOf(db', h, i) => RowOf(db, h, i)'
    BY <1>1, SameRows
  <2>. QED BY <1>1, <1>2, <2>1 DEF RowsVouched
<1>3. h \in Nat
  BY <1>1, ChainFacts
<1>4. CASE h <= db.checkpoint.height
  <2>1. RowOf(db, h, i)
    BY <1>1, <1>2, <1>4 DEF RowsVouched
  <2>2. CASE DistinctIds
    BY <1>2, <2>1, <2>2, DistinctKept
  <2>3. CASE Alone
    <3>1. todo[p] # <<>> => h < next[p]
      <4>1. todo[p] # <<>> => phase[p] = "running"
        BY DEF Ingest, Shape, Control
      <4>2. phase[p] = "running" => next[p] = db.checkpoint.height + 1
        BY <2>3 DEF Alone
      <4>. QED BY <1>1, <1>3, <1>4, <4>1, <4>2
    <3>. QED BY <1>2, <2>1, <3>1, RowKept
  <2>. QED BY <2>2, <2>3 DEF Unambiguous
<1>5. CASE ~(h <= db.checkpoint.height)
  <2>1. /\ db'.checkpoint.height = db.checkpoint.height + 1 /\ db'.checkpoint.height = next[p]
        /\ todo[p] # <<>> /\ Head(todo[p]).do = "UpdateCheckpoint"
    BY <1>2, <1>5, HeightMoves
  <2>2. h = next[p]
    BY <1>1, <1>2, <1>3, <1>5, <2>1
  <2>. DEFINE q == CallsOf(h)
  <2>3. PICK k \in Nat : Remains(todo[p], q, k) /\ \A j \in 1..k : RowDone(db, h, q[j])
    BY <1>1, <2>1, <2>2 DEF RowsUnderway
  <2>4. k + 1 = Len(q)
    BY <1>1, <2>1, <2>3, LastCall
  <2>5. /\ Transcribes(q, chain[h]) /\ Len(q) \in Nat
        /\ \A j \in 1..Len(q) : q[j].do = "UpdateCheckpoint" <=> j = Len(q)
    BY <1>1, CallsOfBlock
  <2>. HIDE DEF q
  <2>6. PICK j \in 1..Len(q) : q[j] = SaveTransactionAt(chain[h], i)
    BY <1>2, <2>5 DEF Transcribes
  <2>7. q[j].do = "SaveTransaction" /\ q[j].index = i
    BY <2>6 DEF SaveTransactionAt
  <2>8. j \in 1..k
    <3>1. j # Len(q)
      BY <2>5, <2>7
    <3>. QED BY <2>4, <2>5, <3>1
  <2>9. RowOf(db, h, i)
    BY <2>3, <2>7, <2>8 DEF RowDone
  <2>. QED BY <1>2, <2>1, <2>9, RowKept DEF SaveTransactionAt
<1>. QED BY <1>4, <1>5

LEMMA RecordedNext ==
  ASSUME OneProcessor \/ DistinctIds
  PROVE  Ingest /\ Recorded /\ (OneProcessor => Alone) /\ [Next]_vars
           => Recorded' /\ (OneProcessor => Alone')
<1>. SUFFICES ASSUME Ingest, Recorded, OneProcessor => Alone, [Next]_vars
              PROVE  Recorded' /\ (OneProcessor => Alone')
  OBVIOUS
<1>1. Unambiguous
  BY DEF Unambiguous
<1>2. ASSUME NEW p \in Processors, Moves(p) PROVE Recorded'
  <2>1. \A r \in Processors : RowsUnderway(r)'
    BY <1>1, <1>2, MoverRows, StayerRows
  <2>. QED BY <1>1, <1>2, <2>1, VouchedRows DEF Recorded
<1>3. ASSUME NEW p \in Processors, Moves(p) PROVE OneProcessor => Alone'
  BY <1>3, AloneMoves
<1>4. CASE MapIdentity \/ UNCHANGED vars
  <2>1. UNCHANGED <<chain, db, phase, next, todo>>
    BY <1>4 DEF MapIdentity, vars
  <2>2. RowsVouched'
    BY <2>1 DEF Recorded, RowsVouched, RowOf
  <2>3. \A r \in Processors : RowsUnderway(r)'
    <3>. SUFFICES ASSUME NEW r \in Processors, todo[r] # <<>> PROVE RowsUnderway(r)'
      BY <2>1 DEF RowsUnderway
    <3>1. RowsUnderway(r)
      BY DEF Recorded
    <3>2. CallsOf(next[r])' = CallsOf(next[r])
      BY <2>1 DEF CallsOf
    <3>3. \A h, i : RowOf(db, h, i) => RowOf(db, h, i)'
      BY <2>1 DEF RowOf
    <3>4. \A c : RowDone(db, next[r], c) => RowDone(db, next[r], c)'
      BY <2>1, <3>3 DEF RowDone
    <3>. QED BY <2>1, <3>1, <3>2, <3>4 DEF RowsUnderway
  <2>4. OneProcessor => Alone'
    BY <2>1 DEF Alone
  <2>. QED BY <2>2, <2>3, <2>4 DEF Recorded
<1>. QED BY <1>2, <1>3, <1>4, NextMoves

Vouching == Recorded /\ (OneProcessor => Alone)

(* Everything between the height the checkpoint started from and the one it  *)
(* has reached is in the database: the block, each transaction with its      *)
(* place and verdict, the reason of the invalid ones, and every event,       *)
(* processed.  No crash, failed call or skipped event lets the checkpoint    *)
(* run ahead.  Two processors can put an old row over a newer one of the     *)
(* same id, so one of them runs, or no id comes twice.                       *)
THEOREM CheckpointVouches ==
  ASSUME OneProcessor \/ DistinctIds PROVE Spec => []CheckpointIsComplete
<1>1. Init => Recorded /\ (OneProcessor => Alone)
  <2>. SUFFICES ASSUME Init PROVE Recorded /\ Alone
    OBVIOUS
  <2>1. /\ db.checkpoint.height = InitialHeight /\ chain \in Chains
        /\ phase = [p \in Processors |-> "starting"] /\ todo = [p \in Processors |-> <<>>]
    BY DEF Init, Start, EmptyDatabase
  <2>2. RowsVouched
    BY <2>1, ChainFacts, InitialHeightAssumption DEF RowsVouched
  <2>. QED BY <2>1, <2>2 DEF Recorded, RowsUnderway, Alone
<1>2. Ingest /\ Recorded => CheckpointIsComplete
  <2>. SUFFICES ASSUME Ingest, Recorded PROVE CheckpointIsComplete
    OBVIOUS
  <2>1. /\ chain \in Chains /\ Vouched /\ RowsVouched /\ db.checkpoint.height \in Nat
        /\ db.checkpoint.height \in {InitialHeight} \cup DOMAIN chain
    BY DEF Ingest, Shape, Recorded, Database
  <2>2. ASSUME NEW h \in InitialHeight + 1 .. db.checkpoint.height
        PROVE  h \in DOMAIN chain /\ InitialHeight < h /\ h <= db.checkpoint.height
    BY <2>1, <2>2, ChainFacts, InitialHeightAssumption
  <2>3. InitialHeight + 1 .. db.checkpoint.height \subseteq db.blocks
    BY <2>1, <2>2, IngestedTraces DEF Vouched
  <2>4. ASSUME NEW x \in Transactions, x.at[1] \in InitialHeight + 1 .. db.checkpoint.height
        PROVE  /\ \E y \in Transactions : /\ ~Before(y, x) /\ y.id = x.id
                                           /\ db.transactions[x.id] = RecordedAs(y)
               /\ x.code # "VALID" => db.invalid[x.id] # Nil
               /\ x.code = "VALID" /\ x.event # Nil => db.events[x.id] = "processed"
    <3>1. PICK h \in DOMAIN chain : \E i : TransactionAt(chain[h], i) /\ x = Tr(h, i)
      BY TransactionPositions
    <3>2. PICK i : TransactionAt(chain[h], i) /\ x = Tr(h, i)
      BY <3>1
    <3>3. /\ x.at = <<h, i>> /\ x.id = chain[h].data[i].tx /\ x.code = chain[h].filter[i]
          /\ x.event = OurEvent(chain[h].data[i])
      BY <3>2 DEF Tr
    <3>4. h \in InitialHeight + 1 .. db.checkpoint.height
      BY <2>4, <3>3
    <3>5. InitialHeight < h /\ h <= db.checkpoint.height
      BY <2>2, <3>4
    <3>6. Ingested(db, h) /\ RowOf(db, h, i)
      BY <2>1, <3>2, <3>5 DEF Vouched, RowsVouched
    <3>7. /\ x.code # "VALID" => db.invalid[x.id] # Nil
          /\ x.code = "VALID" /\ x.event # Nil => db.events[x.id] = "processed"
      BY <2>1, <3>2, <3>3, <3>6, IngestedTraces DEF EventfulAt
    <3>8. PICK g, j :
            /\ g \in DOMAIN chain
            /\ TransactionAt(chain[g], j) /\ chain[g].data[j].tx = chain[h].data[i].tx
            /\ h < g \/ (h = g /\ i <= j)
            /\ db.transactions[chain[h].data[i].tx] =
                 [block |-> g, index |-> j, code |-> chain[g].filter[j]]
      BY <3>6 DEF RowOf
    <3>. DEFINE y == Tr(g, j)
    <3>9. y \in Transactions
      BY <3>8, TransactionPositions
    <3>10. y.at = <<g, j>> /\ y.id = x.id /\ RecordedAs(y) = db.transactions[x.id]
      BY <3>3, <3>8 DEF Tr, RecordedAs
    <3>11. g \in Nat /\ h \in Nat /\ i \in Nat /\ j \in Nat
      BY <2>1, <3>2, <3>8, ChainFacts, TransactionIds
    <3>. HIDE DEF y
    <3>12. ~Before(y, x)
      BY <3>3, <3>8, <3>10, <3>11 DEF Before
    <3>. QED BY <3>7, <3>9, <3>10, <3>12
  <2>. QED BY <2>3, <2>4 DEF CheckpointIsComplete
<1>3. Ingest /\ Vouching /\ [Next]_vars => Vouching'
  BY RecordedNext DEF Vouching, OneProcessor
<1>4. Init => Vouching
  BY <1>1 DEF Vouching
<1>5. Ingest /\ Vouching => CheckpointIsComplete
  BY <1>2 DEF Vouching
<1>. QED BY <1>3, <1>4, <1>5, IngestAlways, PTL DEF Spec
=============================================================================
