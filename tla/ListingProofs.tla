--------------------------- MODULE ListingProofs ---------------------------
(***************************************************************************)
(* What a walk through pages of a changing list shows, for every number of *)
(* owners and operations and every size of page.  The inductive invariant  *)
(* says what lies behind the walk: the rows that stand before the first    *)
(* place it has not asked for.                                             *)
(***************************************************************************)
EXTENDS Listing, FiniteSetTheorems, SequenceTheorems, NaturalsInduction, TLAPS

(* The least of some naturals. *)
LEMMA Least ==
  ASSUME NEW N, N \subseteq Nat, N # {}
  PROVE  \E n \in N : \A m \in N : n <= m
<1>1. PICK n \in N : \A m \in N : <<m, n>> \notin OpToRel(<, Nat)
  BY NatLessThanWellFounded, WFMin
<1>2. ASSUME NEW m \in N PROVE n <= m
  <2>1. m \in Nat /\ n \in Nat
    OBVIOUS
  <2>2. ~(m < n)
    BY <1>1, <2>1 DEF OpToRel
  <2>. QED BY <2>1, <2>2
<1>. QED BY <1>2

(* Cardinalities of finite sets: naturals, and those of subsets.           *)
LEMMA Cards ==
  ASSUME NEW S, IsFiniteSet(S), NEW T \in SUBSET S
  PROVE  /\ IsFiniteSet(T) /\ Cardinality(T) \in Nat /\ Cardinality(S) \in Nat
         /\ Cardinality(T) <= Cardinality(S)
         /\ Cardinality(T) = Cardinality(S) => T = S
BY FS_Subset, FS_CardinalityType

(***************************************************************************)
(* Sets that grow along a linear order: what stands at i or before it.     *)
(***************************************************************************)
Ranked(S, A) ==
  /\ IsFiniteSet(S)
  /\ \A i \in S : A[i] \subseteq S /\ i \in A[i]
  /\ \A i, j \in S : A[i] \subseteq A[j] \/ A[j] \subseteq A[i]
  /\ \A i, j \in S : i \in A[j] => A[i] \subseteq A[j]
  /\ \A i, j \in S : A[i] = A[j] => i = j

(* Each place is a natural from 1 to the number of rows.                   *)
LEMMA RankedTypes ==
  ASSUME NEW S, NEW A, Ranked(S, A), NEW i \in S
  PROVE  /\ Cardinality(A[i]) \in Nat /\ Cardinality(S) \in Nat /\ IsFiniteSet(A[i])
         /\ 1 <= Cardinality(A[i]) /\ Cardinality(A[i]) <= Cardinality(S)
<1>1. A[i] \subseteq S /\ i \in A[i] /\ IsFiniteSet(S)
  BY DEF Ranked
<1>2. IsFiniteSet(A[i]) /\ Cardinality(A[i]) \in Nat /\ Cardinality(S) \in Nat
      /\ Cardinality(A[i]) <= Cardinality(S)
  BY <1>1, Cards
<1>3. Cardinality(A[i]) # 0
  BY <1>1, <1>2, FS_EmptySet
<1>. QED BY <1>2, <1>3

(* No two rows have the same place.                                        *)
LEMMA RankedDiffer ==
  ASSUME NEW S, NEW A, Ranked(S, A), NEW i \in S, NEW j \in S,
         Cardinality(A[i]) = Cardinality(A[j])
  PROVE  i = j
<1>1. IsFiniteSet(A[i]) /\ IsFiniteSet(A[j])
  BY RankedTypes
<1>2. A[i] \subseteq A[j] \/ A[j] \subseteq A[i]
  BY DEF Ranked
<1>3. A[i] = A[j]
  BY <1>1, <1>2, FS_Subset
<1>. QED BY <1>3 DEF Ranked

(* Of some rows, one has the last place.                                   *)
LEMMA RankedLast ==
  ASSUME NEW S, NEW A, Ranked(S, A), NEW B, B \subseteq S, B # {}
  PROVE  \E m \in B : B \subseteq A[m]
<1>. DEFINE left(m) == Cardinality(S) - Cardinality(A[m])
            Left == {left(m) : m \in B}
<1>1. \A m \in B : left(m) \in Nat
  BY RankedTypes
<1>2. Left \subseteq Nat /\ Left # {}
  BY <1>1
<1>3. PICK m \in B : \A j \in B : left(m) <= left(j)
  <2>1. PICK n \in Left : \A l \in Left : n <= l
    <3>. HIDE DEF Left
    <3>. QED BY <1>2, Least
  <2>2. PICK m \in B : n = left(m)
    BY <2>1
  <2>. QED BY <2>1, <2>2
<1>4. ASSUME NEW j \in B PROVE j \in A[m]
  <2>1. Cardinality(A[j]) <= Cardinality(A[m])
    BY <1>3, <1>1, RankedTypes
  <2>2. j \in A[j] /\ (A[j] \subseteq A[m] \/ A[m] \subseteq A[j])
    BY DEF Ranked
  <2>3. CASE A[m] \subseteq A[j]
    <3>1. IsFiniteSet(A[j]) /\ Cardinality(A[m]) \in Nat /\ Cardinality(A[j]) \in Nat
      BY RankedTypes
    <3>2. Cardinality(A[m]) <= Cardinality(A[j])
      BY <2>3, <3>1, Cards
    <3>3. A[m] = A[j]
      BY <2>1, <2>3, <3>1, <3>2, FS_Subset
    <3>. QED BY <2>2, <3>3
  <2>. QED BY <2>2, <2>3
<1>. QED BY <1>4

(* No place is empty before one that is taken.                             *)
LEMMA RankedFill ==
  ASSUME NEW S, NEW A, Ranked(S, A), NEW o \in Nat,
         \A k \in S : Cardinality(A[k]) # o + 1, NEW i \in S
  PROVE  Cardinality(A[i]) <= o
<1>. SUFFICES ASSUME ~(Cardinality(A[i]) <= o) PROVE FALSE
  OBVIOUS
<1>. DEFINE Above == {Cardinality(A[k]) : k \in {j \in S : ~(Cardinality(A[j]) <= o)}}
<1>1. Above \subseteq Nat /\ Above # {}
  BY RankedTypes
<1>2. PICK c \in Above : \A d \in Above : c <= d
  BY <1>1, Least
<1>3. PICK k \in S : c = Cardinality(A[k]) /\ ~(Cardinality(A[k]) <= o)
  BY <1>2
<1>4. c \in Nat /\ IsFiniteSet(A[k]) /\ A[k] \subseteq S /\ k \in A[k] /\ c > o + 1
  <2>1. Cardinality(A[k]) \in Nat /\ IsFiniteSet(A[k])
    BY RankedTypes
  <2>2. A[k] \subseteq S /\ k \in A[k]
    BY DEF Ranked
  <2>. QED BY <1>3, <2>1, <2>2
<1>. DEFINE B == A[k] \ {k}
<1>5. Cardinality(B) = c - 1 /\ IsFiniteSet(B)
  BY <1>3, <1>4, FS_RemoveElement
<1>6. B # {} /\ B \subseteq S
  <2>1. CASE B = {}
    <3>1. Cardinality(B) = 0
      BY <2>1, FS_EmptySet
    <3>. HIDE DEF B
    <3>. QED BY <3>1, <1>4, <1>5
  <2>. QED BY <2>1, <1>4
<1>7. PICK m \in B : B \subseteq A[m]
  <2>. HIDE DEF B
  <2>. QED BY <1>6, RankedLast
<1>8. m \in S /\ m # k /\ m \in A[k] /\ Cardinality(A[m]) \in Nat /\ IsFiniteSet(A[m])
  BY <1>6, <1>7, RankedTypes
<1>9. A[m] \subseteq A[k] /\ A[m] # A[k]
  BY <1>8 DEF Ranked
<1>10. Cardinality(A[m]) < c
  BY <1>3, <1>4, <1>8, <1>9, Cards
<1>11. Cardinality(A[m]) <= o
  <2>1. Cardinality(A[m]) \notin Above
    BY <1>2, <1>4, <1>8, <1>10, <1>1
  <2>. QED BY <2>1, <1>8
<1>12. Cardinality(B) <= Cardinality(A[m])
  <2>. HIDE DEF B
  <2>. QED BY <1>7, <1>8, Cards
<1>. HIDE DEF B
<1>. QED BY <1>4, <1>5, <1>8, <1>11, <1>12

(***************************************************************************)
(* The two orders of the lists, and where each row stands in one.          *)
(***************************************************************************)
Rows == {S \in SUBSET Nat : IsFiniteSet(S)}

UpTo(S) == [i \in S |-> {j \in S : j <= i}]
From(S) == [i \in S |-> {j \in S : j >= i}]
Order(list, S) == IF list = "own" THEN From(S) ELSE UpTo(S)

PlaceIn(list, S) == IF list = "own" THEN NewestFirst(S) ELSE OldestFirst(S)

LEMMA OrdersRank ==
  ASSUME NEW S \in Rows, NEW list
  PROVE  Ranked(S, Order(list, S))
<1>1. S \subseteq Nat /\ IsFiniteSet(S)
  BY DEF Rows
<1>2. Ranked(S, UpTo(S))
  <2>. DEFINE A == UpTo(S)
  <2>1. \A i \in S : A[i] = {j \in S : j <= i}
    BY DEF UpTo
  <2>. HIDE DEF A
  <2>2. \A i \in S : A[i] \subseteq S /\ i \in A[i]
    BY <1>1, <2>1
  <2>3. \A i, j \in S : i \in A[j] <=> i <= j
    BY <1>1, <2>1
  <2>4. ASSUME NEW i \in S, NEW j \in S, i <= j PROVE A[i] \subseteq A[j]
    <3>1. ASSUME NEW k \in A[i] PROVE k \in A[j]
      <4>1. k \in S /\ k <= i /\ k \in Nat /\ i \in Nat /\ j \in Nat
        BY <1>1, <2>1, <3>1
      <4>2. k <= j
        BY <2>4, <4>1
      <4>. QED BY <2>1, <4>1, <4>2
    <3>. QED BY <3>1
  <2>5. \A i, j \in S : A[i] \subseteq A[j] \/ A[j] \subseteq A[i]
    BY <1>1, <2>4
  <2>6. \A i, j \in S : A[i] = A[j] => i = j
    BY <1>1, <2>2, <2>3
  <2>7. \A i, j \in S : i \in A[j] => A[i] \subseteq A[j]
    BY <2>3, <2>4
  <2>8. Ranked(S, A)
    BY <1>1, <2>2, <2>5, <2>6, <2>7 DEF Ranked
  <2>. QED BY <2>8 DEF A
<1>3. Ranked(S, From(S))
  <2>. DEFINE A == From(S)
  <2>1. \A i \in S : A[i] = {j \in S : j >= i}
    BY DEF From
  <2>. HIDE DEF A
  <2>2. \A i \in S : A[i] \subseteq S /\ i \in A[i]
    BY <1>1, <2>1
  <2>3. \A i, j \in S : i \in A[j] <=> i >= j
    BY <1>1, <2>1
  <2>4. ASSUME NEW i \in S, NEW j \in S, i >= j PROVE A[i] \subseteq A[j]
    <3>1. ASSUME NEW k \in A[i] PROVE k \in A[j]
      <4>1. k \in S /\ k >= i /\ k \in Nat /\ i \in Nat /\ j \in Nat
        BY <1>1, <2>1, <3>1
      <4>2. k >= j
        BY <2>4, <4>1
      <4>. QED BY <2>1, <4>1, <4>2
    <3>. QED BY <3>1
  <2>5. \A i, j \in S : A[i] \subseteq A[j] \/ A[j] \subseteq A[i]
    BY <1>1, <2>4
  <2>6. \A i, j \in S : A[i] = A[j] => i = j
    BY <1>1, <2>2, <2>3
  <2>7. \A i, j \in S : i \in A[j] => A[i] \subseteq A[j]
    BY <2>3, <2>4
  <2>8. Ranked(S, A)
    BY <1>1, <2>2, <2>5, <2>6, <2>7 DEF Ranked
  <2>. QED BY <2>8 DEF A
<1>. QED BY <1>2, <1>3 DEF Order

LEMMA PlacesRank ==
  ASSUME NEW S, NEW list
  PROVE  /\ DOMAIN PlaceIn(list, S) = S
         /\ \A i \in S : PlaceIn(list, S)[i] = Cardinality(Order(list, S)[i])
BY DEF PlaceIn, Order, NewestFirst, OldestFirst, UpTo, From

(* The places of a list are 1 to the number of its rows.                   *)
LEMMA PlaceTypes ==
  ASSUME NEW S \in Rows, NEW list, NEW i \in S
  PROVE  /\ PlaceIn(list, S)[i] \in Nat /\ 1 <= PlaceIn(list, S)[i]
         /\ Cardinality(S) \in Nat /\ PlaceIn(list, S)[i] <= Cardinality(S)
<1>1. Ranked(S, Order(list, S))
  BY OrdersRank
<1>2. PlaceIn(list, S)[i] = Cardinality(Order(list, S)[i])
  BY PlacesRank
<1>. QED BY <1>1, <1>2, RankedTypes

LEMMA PlacesDiffer ==
  ASSUME NEW S \in Rows, NEW list, NEW i \in S, NEW j \in S,
         PlaceIn(list, S)[i] = PlaceIn(list, S)[j]
  PROVE  i = j
<1>1. Ranked(S, Order(list, S))
  BY OrdersRank
<1>2. Cardinality(Order(list, S)[i]) = Cardinality(Order(list, S)[j])
  BY PlacesRank
<1>. QED BY <1>1, <1>2, RankedDiffer

(* An empty page is behind the last row.                                   *)
LEMMA EmptyPage ==
  ASSUME NEW S \in Rows, NEW list, NEW limit \in Nat \ {0}, NEW o \in Nat,
         Page(PlaceIn(list, S), limit, o) = {}, NEW i \in S
  PROVE  PlaceIn(list, S)[i] <= o
<1>1. Ranked(S, Order(list, S))
  BY OrdersRank
<1>2. ASSUME NEW k \in S, Cardinality(Order(list, S)[k]) = o + 1 PROVE FALSE
  <2>1. PlaceIn(list, S)[k] = o + 1 /\ DOMAIN PlaceIn(list, S) = S
    BY <1>2, PlacesRank
  <2>2. o + 1 \in o + 1 .. o + limit
    OBVIOUS
  <2>. QED BY <2>1, <2>2 DEF Page
<1>3. Cardinality(Order(list, S)[i]) <= o
  BY <1>1, <1>2, RankedFill
<1>. QED BY <1>3, PlacesRank

(* A row that leaves the queue moves each later one up by at most one.     *)
LEMMA PlacesWithout ==
  ASSUME NEW S \in Rows, NEW list, list # "own", NEW d \in S, NEW i \in S \ {d}
  PROVE  /\ S \ {d} \in Rows
         /\ PlaceIn(list, S \ {d})[i] \in Nat /\ PlaceIn(list, S)[i] \in Nat
         /\ PlaceIn(list, S \ {d})[i] <= PlaceIn(list, S)[i]
         /\ PlaceIn(list, S)[i] <= PlaceIn(list, S \ {d})[i] + 1
<1>. DEFINE T == S \ {d}
            U == {j \in S : j <= i}
<1>1. S \subseteq Nat /\ IsFiniteSet(S) /\ T \in Rows
  BY FS_Subset DEF Rows
<1>2. PlaceIn(list, S)[i] = Cardinality(U) /\ IsFiniteSet(U)
  BY <1>1, FS_Subset DEF PlaceIn, OldestFirst
<1>3. PlaceIn(list, T)[i] = Cardinality(U \ {d})
  <2>1. {j \in T : j <= i} = U \ {d}
    OBVIOUS
  <2>. QED BY <2>1 DEF PlaceIn, OldestFirst
<1>4. Cardinality(U) \in Nat
  BY <1>2, FS_CardinalityType
<1>5. Cardinality(U \ {d}) = (IF d \in U THEN Cardinality(U) - 1 ELSE Cardinality(U))
  BY <1>2, FS_RemoveElement
<1>6. Cardinality(U \ {d}) \in Nat
  BY <1>2, FS_RemoveElement, FS_CardinalityType
<1>. HIDE DEF U
<1>. QED BY <1>1, <1>2, <1>3, <1>4, <1>5, <1>6

(* A row that comes into a list moves none up, and of the queue none at    *)
(* all when it stands last.                                                *)
LEMMA PlacesWith ==
  ASSUME NEW S \in Rows, NEW list, NEW d \in Nat \ S, NEW i \in S
  PROVE  /\ S \cup {d} \in Rows
         /\ PlaceIn(list, S \cup {d})[i] \in Nat /\ PlaceIn(list, S)[i] \in Nat
         /\ PlaceIn(list, S)[i] <= PlaceIn(list, S \cup {d})[i]
         /\ list # "own" /\ i < d => PlaceIn(list, S)[i] = PlaceIn(list, S \cup {d})[i]
<1>. DEFINE T == S \cup {d}
<1>1. S \subseteq Nat /\ IsFiniteSet(S) /\ T \in Rows /\ IsFiniteSet(T) /\ i \in T /\ i \in Nat
  BY FS_AddElement DEF Rows
<1>2. CASE list = "own"
  <2>1. /\ PlaceIn(list, S)[i] = Cardinality({j \in S : j >= i})
        /\ PlaceIn(list, T)[i] = Cardinality({j \in T : j >= i})
    BY <1>1, <1>2 DEF PlaceIn, NewestFirst
  <2>2. IsFiniteSet({j \in T : j >= i})
    BY <1>1, FS_Subset
  <2>3. {j \in S : j >= i} \subseteq {j \in T : j >= i}
    OBVIOUS
  <2>. QED BY <1>1, <1>2, <2>1, <2>2, <2>3, Cards
<1>3. CASE list # "own"
  <2>1. /\ PlaceIn(list, S)[i] = Cardinality({j \in S : j <= i})
        /\ PlaceIn(list, T)[i] = Cardinality({j \in T : j <= i})
    BY <1>1, <1>3 DEF PlaceIn, OldestFirst
  <2>2. IsFiniteSet({j \in T : j <= i})
    BY <1>1, FS_Subset
  <2>3. {j \in S : j <= i} \subseteq {j \in T : j <= i}
    OBVIOUS
  <2>4. ASSUME i < d PROVE {j \in S : j <= i} = {j \in T : j <= i}
    BY <1>1, <2>4
  <2>. QED BY <1>1, <1>3, <2>1, <2>2, <2>3, <2>4, Cards
<1>. QED BY <1>2, <1>3

(***************************************************************************)
(* Pages: page p holds the places after (p-1)*l up to p*l.                 *)
(***************************************************************************)
LEMMA Multiples ==
  ASSUME NEW l \in Nat \ {0}, NEW p \in Nat, NEW q \in Nat, q <= p
  PROVE  p * l \in Nat /\ q * l \in Nat /\ q * l <= p * l
<1>. DEFINE n == p - q
<1>1. n \in Nat /\ p = q + n
  OBVIOUS
<1>. HIDE DEF n
<1>2. p * l = q * l + n * l
  BY <1>1
<1>3. q * l \in Nat /\ n * l \in Nat
  BY <1>1
<1>. QED BY <1>2, <1>3

LEMMA PageEnds ==
  ASSUME NEW l \in Nat \ {0}, NEW p \in Nat \ {0}
  PROVE  /\ paginationOffset(p, l) = (p - 1) * l
         /\ (p - 1) * l \in Nat /\ p * l \in Nat /\ (p - 1) * l + l = p * l
         /\ ((p + 1) - 1) * l = p * l
<1>1. p - 1 \in Nat /\ (p + 1) - 1 = p
  OBVIOUS
<1>2. (p - 1) * l + l = p * l
  OBVIOUS
<1>3. (p - 1) * l \in Nat /\ p * l \in Nat
  BY <1>1, Multiples
<1>4. paginationOffset(p, l) = (p - 1) * l
  <2>1. CASE p > 1
    BY <2>1 DEF paginationOffset
  <2>2. CASE p = 1
    BY <2>2 DEF paginationOffset
  <2>. QED BY <2>1, <2>2
<1>. QED BY <1>1, <1>2, <1>3, <1>4

LEMMA OnPage ==
  ASSUME NEW S \in Rows, NEW list, NEW l \in Nat \ {0}, NEW p \in Nat \ {0},
         NEW rows, rows = Page(PlaceIn(list, S), l, paginationOffset(p, l)), NEW i
  PROVE  i \in rows <=> /\ i \in S
                        /\ (p - 1) * l < PlaceIn(list, S)[i] /\ PlaceIn(list, S)[i] <= p * l
<1>. DEFINE o == paginationOffset(p, l)
            x == PlaceIn(list, S)[i]
<1>1. o = (p - 1) * l /\ o \in Nat /\ o + l = p * l
  BY PageEnds
<1>2. i \in rows <=> i \in S /\ x \in o + 1 .. o + l
  BY PlacesRank DEF Page
<1>3. i \in S => x \in Nat
  BY PlaceTypes
<1>. HIDE DEF o, x
<1>4. i \in rows <=> i \in S /\ o < x /\ x <= o + l
  BY <1>1, <1>2, <1>3
<1>. QED BY <1>1, <1>4 DEF x

(* As many pages as the total asks for hold every row.                     *)
LEMMA EnoughPages ==
  ASSUME NEW l \in Nat \ {0}, NEW n \in Nat
  PROVE  (n + l - 1) \div l \in Nat /\ n <= ((n + l - 1) \div l) * l
<1>. DEFINE m == (n + l - 1) \div l
<1>1. m \in Nat
  OBVIOUS
<1>2. n + l - 1 < (m + 1) * l
  OBVIOUS
<1>. HIDE DEF m
<1>3. (m + 1) * l = m * l + l /\ m * l \in Nat
  BY <1>1
<1>4. n <= m * l
  BY <1>2, <1>3
<1>. QED BY <1>1, <1>4 DEF m

LEMMA NoPages ==
  ASSUME NEW l \in Nat \ {0}
  PROVE  (0 + l - 1) \div l = 0
OBVIOUS

(***************************************************************************)
(* The inductive invariant: of a walk w, the rows R of its list and the    *)
(* operations V that are visible.                                          *)
(***************************************************************************)
Underway == {"asking", "counting", "showing"}

Walks ==
  [stage: Underway \cup {"none", "done"}, list: Lists, owner: Owners \cup {NoWalk.owner},
   limit: 1..MaxLimit, page: Nat \ {0}, pages: Nat, shown: SUBSET (Nat \X Nat),
   first: SUBSET Nat, left: Nat, late: BOOLEAN]

Seen(w) == {s[2] : s \in w.shown}

(* The places up to here have been asked for. *)
Reach(w) == IF w.stage = "asking" THEN (w.page - 1) * w.limit ELSE w.page * w.limit

(* What the walk has to show and has not shown. *)
Due(w, R) == (w.first \cap R) \ Seen(w)
Behind(w, R) == {i \in Due(w, R) : PlaceIn(w.list, R)[i] <= Reach(w)}

(* An investor's walk: what it has not shown is ahead of it.               *)
AllAhead(w, R) == \A i \in w.first \ Seen(w) : i \in R /\ Reach(w) < PlaceIn(w.list, R)[i]

Kept(w, R) ==
  w.list = "own" =>
    /\ w.stage # "counting"
    /\ w.stage = "showing" => w.page < w.pages
    /\ w.stage \in {"asking", "showing"} => AllAhead(w, R)
    /\ w.stage = "done" => w.first \subseteq Seen(w)

(* A walk through the queue: what is behind it is paid for, and all that is *)
(* due is behind it when it has shown the last page.                       *)
AtEnd(w) == \/ w.stage = "showing" /\ w.pages \in 1..w.page
            \/ w.stage = "done" /\ w.pages > 0

Paid(w, R) ==
  w.list # "own" =>
    /\ w.stage \in Underway => Cardinality(Behind(w, R)) <= w.left
    /\ AtEnd(w) => Cardinality(Due(w, R)) <= w.left

(* What a page has shown stays on it or before it.                         *)
ShownOnce(w) == \A s, t \in w.shown : s[2] = t[2] => s[1] = t[1]
StaysBefore(w, R) ==
  \A s \in w.shown : s[1] <= w.page /\ (s[2] \in R => PlaceIn(w.list, R)[s[2]] <= s[1] * w.limit)

Once(w, R, V) ==
  /\ Seen(w) \subseteq V /\ w.first \subseteq V
  /\ w.stage = "none" => w.shown = {} /\ w.page = 1
  /\ ~w.late => /\ ShownOnce(w)
                /\ w.stage \in Underway => StaysBefore(w, R)

Followed(w, R, V) == w \in Walks /\ Kept(w, R) /\ Paid(w, R) /\ Once(w, R, V)

Visibles == {i \in DOMAIN operations : Visible(i)}

Operations == [owner: Owners, status: {"requested", "decided"}, visible: BOOLEAN]

WalkInv ==
  /\ operations \in Seq(Operations)
  /\ Followed(walk, InList(walk.list, walk.owner), Visibles)

LEMMA WalkFields ==
  ASSUME NEW w \in Walks
  PROVE  /\ w.limit \in Nat \ {0} /\ w.page \in Nat \ {0} /\ w.pages \in Nat /\ w.left \in Nat
         /\ w.late \in BOOLEAN /\ w.list \in Lists
         /\ w.shown \subseteq Nat \X Nat /\ w.first \subseteq Nat
         /\ Seen(w) \subseteq Nat /\ Reach(w) \in Nat
<1>1. w.limit \in Nat \ {0}
  BY LimitAssumption DEF Walks
<1>2. w.page \in Nat \ {0} /\ w.shown \subseteq Nat \X Nat
  BY DEF Walks
<1>3. Reach(w) \in Nat
  BY <1>1, <1>2, PageEnds DEF Reach
<1>. QED BY <1>1, <1>2, <1>3 DEF Walks, Seen

LEMMA WalkTurned ==
  ASSUME NEW w \in Walks, NEW st \in Underway \cup {"none", "done"},
         NEW more \in SUBSET (Nat \X Nat), NEW n \in Nat
  PROVE  [w EXCEPT !.stage = st, !.shown = more, !.pages = n] \in Walks
BY DEF Walks

LEMMA DueTypes ==
  ASSUME NEW w, NEW R \in Rows
  PROVE  /\ IsFiniteSet(Due(w, R)) /\ Cardinality(Due(w, R)) \in Nat
         /\ IsFiniteSet(Behind(w, R)) /\ Cardinality(Behind(w, R)) \in Nat
         /\ Behind(w, R) \subseteq Due(w, R) /\ Due(w, R) \subseteq R
<1>1. IsFiniteSet(R) /\ Due(w, R) \subseteq R /\ Behind(w, R) \subseteq Due(w, R)
  BY DEF Rows, Due, Behind
<1>. QED BY <1>1, Cards

(* One of two sets has at most one element the other lacks.                *)
LEMMA OneMore ==
  ASSUME NEW S, IsFiniteSet(S), NEW T, \A x, y \in T \ S : x = y
  PROVE  IsFiniteSet(T) /\ Cardinality(T) \in Nat /\ Cardinality(T) <= Cardinality(S) + 1
<1>1. Cardinality(S) \in Nat
  BY FS_CardinalityType
<1>2. CASE T \subseteq S
  BY <1>1, <1>2, Cards
<1>3. CASE ~(T \subseteq S)
  <2>1. PICK x \in T \ S : TRUE
    BY <1>3
  <2>2. T \subseteq S \cup {x}
    BY <2>1
  <2>3. IsFiniteSet(S \cup {x}) /\ Cardinality(S \cup {x}) = Cardinality(S) + 1
    BY <2>1, FS_AddElement
  <2>. QED BY <1>1, <2>2, <2>3, Cards
<1>. QED BY <1>2, <1>3

(* What two walks at the same point have in common.                        *)
SamePoint(w, x) ==
  /\ x.list = w.list /\ x.stage = w.stage /\ x.page = w.page /\ x.limit = w.limit
  /\ x.pages = w.pages /\ x.shown = w.shown /\ x.first = w.first

LEMMA SameReach ==
  ASSUME NEW w, NEW x, SamePoint(w, x), NEW R
  PROVE  /\ Seen(x) = Seen(w) /\ Reach(x) = Reach(w) /\ (AtEnd(x) <=> AtEnd(w))
         /\ Due(x, R) = Due(w, R) /\ Behind(x, R) = Behind(w, R)
         /\ (ShownOnce(x) <=> ShownOnce(w)) /\ (StaysBefore(x, R) <=> StaysBefore(w, R))
         /\ (AllAhead(x, R) <=> AllAhead(w, R)) /\ (Kept(x, R) <=> Kept(w, R))
<1>1. Seen(x) = Seen(w) /\ Reach(x) = Reach(w)
  BY DEF SamePoint, Seen, Reach
<1>2. Due(x, R) = Due(w, R) /\ Behind(x, R) = Behind(w, R)
  BY <1>1 DEF SamePoint, Due, Behind
<1>3. AllAhead(x, R) <=> AllAhead(w, R)
  BY <1>1 DEF SamePoint, AllAhead
<1>4. (ShownOnce(x) <=> ShownOnce(w)) /\ (StaysBefore(x, R) <=> StaysBefore(w, R))
  BY DEF SamePoint, ShownOnce, StaysBefore
<1>5. Kept(x, R) <=> Kept(w, R)
  BY <1>1, <1>3 DEF SamePoint, Kept
<1>6. AtEnd(x) <=> AtEnd(w)
  BY DEF SamePoint, AtEnd
<1>. QED BY <1>1, <1>2, <1>3, <1>4, <1>5, <1>6

(* A row leaves the queue: one more is behind at most, and it is paid for. *)
LEMMA FollowedWithout ==
  ASSUME NEW w, NEW R \in Rows, NEW V, Followed(w, R, V), w.list # "own", NEW d \in R,
         NEW x, x = IF w.stage \in Underway THEN [w EXCEPT !.left = @ + 1] ELSE w
  PROVE  Followed(x, R \ {d}, V)
<1>. DEFINE T == R \ {d}
<1>1. w \in Walks /\ Paid(w, R) /\ Once(w, R, V)
  BY DEF Followed
<1>2. x \in Walks /\ SamePoint(w, x) /\ x.late = w.late
      /\ x.left = (IF w.stage \in Underway THEN w.left + 1 ELSE w.left)
  BY <1>1 DEF Walks, SamePoint
<1>3. T \in Rows
  BY FS_Subset DEF Rows
<1>4. \A i \in T : /\ PlaceIn(w.list, T)[i] \in Nat /\ PlaceIn(w.list, R)[i] \in Nat
                   /\ PlaceIn(w.list, T)[i] <= PlaceIn(w.list, R)[i]
                   /\ PlaceIn(w.list, R)[i] <= PlaceIn(w.list, T)[i] + 1
  BY PlacesWithout
<1>5. Cardinality(Due(w, T)) <= Cardinality(Due(w, R))
  <2>1. Due(w, T) \subseteq Due(w, R)
    BY DEF Due
  <2>. QED BY <2>1, DueTypes, Cards
<1>6. Cardinality(Behind(w, T)) <= Cardinality(Behind(w, R)) + 1
  <2>1. ASSUME NEW i \in Behind(w, T) \ Behind(w, R)
        PROVE  i \in R /\ PlaceIn(w.list, R)[i] = Reach(w) + 1
    <3>1. i \in T /\ i \in Due(w, R) /\ PlaceIn(w.list, T)[i] <= Reach(w)
      BY DEF Behind, Due
    <3>2. ~(PlaceIn(w.list, R)[i] <= Reach(w))
      BY <3>1 DEF Behind
    <3>3. Reach(w) \in Nat
      BY <1>1, WalkFields
    <3>. DEFINE m == PlaceIn(w.list, R)[i]
                n == PlaceIn(w.list, T)[i]
    <3>4. i \in R /\ m \in Nat /\ n \in Nat /\ n <= Reach(w) /\ m <= n + 1
      BY <1>4, <3>1
    <3>5. ~(m <= Reach(w))
      BY <3>2
    <3>. HIDE DEF m, n
    <3>6. m = Reach(w) + 1
      BY <3>3, <3>4, <3>5
    <3>. QED BY <3>4, <3>6 DEF m
  <2>2. \A i, j \in Behind(w, T) \ Behind(w, R) : i = j
    BY <2>1, PlacesDiffer
  <2>. QED BY <2>2, DueTypes, OneMore
<1>. HIDE DEF T
<1>7. Paid(x, T)
  <2>1. (w.stage \in Underway => Cardinality(Behind(w, R)) <= w.left)
        /\ (AtEnd(w) => Cardinality(Due(w, R)) <= w.left)
    BY <1>1 DEF Paid
  <2>2. /\ Cardinality(Behind(w, R)) \in Nat /\ Cardinality(Behind(w, T)) \in Nat
        /\ Cardinality(Due(w, R)) \in Nat /\ Cardinality(Due(w, T)) \in Nat
        /\ w.left \in Nat
    BY <1>1, <1>3, DueTypes, WalkFields
  <2>3. w.stage \in Underway => Cardinality(Behind(w, T)) <= x.left
    BY <1>2, <1>6, <2>1, <2>2
  <2>4. AtEnd(w) => Cardinality(Due(w, T)) <= x.left
    BY <1>2, <1>5, <2>1, <2>2
  <2>5. x.stage = w.stage
    BY <1>2, <2>1 DEF SamePoint
  <2>6. Due(x, T) = Due(w, T) /\ Behind(x, T) = Behind(w, T) /\ (AtEnd(x) <=> AtEnd(w))
    BY <1>2, SameReach
  <2>. QED BY <2>3, <2>4, <2>5, <2>6 DEF Paid
<1>8. StaysBefore(w, R) => StaysBefore(w, T)
  <2>. SUFFICES ASSUME StaysBefore(w, R), NEW s \in w.shown
                PROVE  s[1] <= w.page /\ (s[2] \in T => PlaceIn(w.list, T)[s[2]] <= s[1] * w.limit)
    BY DEF StaysBefore
  <2>1. s[1] <= w.page /\ (s[2] \in R => PlaceIn(w.list, R)[s[2]] <= s[1] * w.limit)
    BY DEF StaysBefore
  <2>2. s[1] * w.limit \in Nat
    BY <1>1, WalkFields, Multiples
  <2>3. ASSUME s[2] \in T PROVE PlaceIn(w.list, T)[s[2]] <= s[1] * w.limit
    <3>1. s[2] \in R
      BY <2>3 DEF T
    <3>. QED BY <1>4, <2>1, <2>2, <2>3, <3>1
  <2>. QED BY <2>1, <2>3
<1>9. Once(x, T, V)
  BY <1>1, <1>2, <1>8, SameReach DEF Once, SamePoint
<1>10. Kept(x, T)
  BY <1>2 DEF Kept, SamePoint
<1>. QED BY <1>2, <1>7, <1>9, <1>10 DEF Followed, T

(* Where the rows stay, more may become visible, the walk may be late, and *)
(* an investor's may be charged.                                           *)
LEMMA FollowedSame ==
  ASSUME NEW w, NEW R, NEW V, Followed(w, R, V), NEW W, V \subseteq W,
         NEW x \in Walks, SamePoint(w, x), w.late => x.late,
         x.left = w.left \/ w.list = "own"
  PROVE  Followed(x, R, W)
<1>1. w \in Walks /\ Kept(w, R) /\ Paid(w, R) /\ Once(w, R, V)
  BY DEF Followed
<1>2. Kept(x, R)
  BY <1>1, SameReach
<1>3. Paid(x, R)
  <2>1. Due(x, R) = Due(w, R) /\ Behind(x, R) = Behind(w, R) /\ (AtEnd(x) <=> AtEnd(w))
    BY SameReach
  <2>. QED BY <1>1, <2>1 DEF Paid, SamePoint
<1>4. Once(x, R, W)
  <2>1. /\ Seen(x) = Seen(w)
        /\ (ShownOnce(x) <=> ShownOnce(w)) /\ (StaysBefore(x, R) <=> StaysBefore(w, R))
    BY SameReach
  <2>. QED BY <1>1, <2>1 DEF Once, SamePoint
<1>. QED BY <1>2, <1>3, <1>4 DEF Followed

(* A row comes into the list: what is due stands where it stood or later,  *)
(* and nothing moves unless the row is late.                               *)
LEMMA FollowedWith ==
  ASSUME NEW w, NEW R \in Rows, NEW V, Followed(w, R, V), R \subseteq V,
         NEW d \in Nat \ V, NEW late \in BOOLEAN,
         ~late => w.list # "own" /\ \A i \in R : i < d,
         NEW x, x = IF w.stage \in Underway /\ late THEN [w EXCEPT !.late = TRUE] ELSE w
  PROVE  Followed(x, R \cup {d}, V \cup {d})
<1>. DEFINE T == R \cup {d}
<1>1. w \in Walks /\ Kept(w, R) /\ Paid(w, R) /\ Once(w, R, V)
  BY DEF Followed
<1>2. x \in Walks /\ SamePoint(w, x) /\ x.left = w.left
      /\ (~x.late => ~w.late /\ (w.stage \in Underway => ~late))
  <2>1. CASE w.stage \in Underway /\ late
    BY <1>1, <2>1 DEF Walks, SamePoint
  <2>2. CASE ~(w.stage \in Underway /\ late)
    BY <1>1, <2>2 DEF SamePoint
  <2>. QED BY <2>1, <2>2
<1>3. d \notin R /\ T \in Rows
  BY FS_AddElement DEF Rows
<1>4. \A i \in R : /\ PlaceIn(w.list, T)[i] \in Nat /\ PlaceIn(w.list, R)[i] \in Nat
                   /\ PlaceIn(w.list, R)[i] <= PlaceIn(w.list, T)[i]
  BY <1>3, PlacesWith
<1>11. ~late => \A i \in R : PlaceIn(w.list, R)[i] = PlaceIn(w.list, T)[i]
  BY <1>3, PlacesWith
<1>5. Reach(w) \in Nat
  BY <1>1, WalkFields
<1>6. Kept(x, T)
  <2>1. AllAhead(w, R) => AllAhead(w, T)
    <3>. SUFFICES ASSUME AllAhead(w, R), NEW i \in w.first \ Seen(w)
                  PROVE  i \in T /\ Reach(w) < PlaceIn(w.list, T)[i]
      BY DEF AllAhead
    <3>1. i \in R /\ Reach(w) < PlaceIn(w.list, R)[i]
      BY DEF AllAhead
    <3>. QED BY <1>4, <1>5, <3>1
  <2>2. Kept(w, T)
    BY <1>1, <2>1 DEF Kept
  <2>. QED BY <1>2, <2>2, SameReach
<1>7. Paid(x, T)
  <2>. SUFFICES ASSUME w.list # "own" PROVE Paid(x, T)
    BY <1>2 DEF Paid, SamePoint
  <2>1. /\ w.first \subseteq V /\ (w.stage \in Underway => Cardinality(Behind(w, R)) <= w.left)
        /\ (AtEnd(w) => Cardinality(Due(w, R)) <= w.left)
    BY <1>1 DEF Paid, Once
  <2>2. Due(w, T) = Due(w, R)
    BY <2>1 DEF Due
  <2>3. Behind(w, T) \subseteq Behind(w, R)
    <3>1. ASSUME NEW i \in Behind(w, T) PROVE i \in Behind(w, R)
      <4>1. i \in Due(w, R) /\ i \in R /\ PlaceIn(w.list, T)[i] <= Reach(w)
        BY <2>2, DueTypes DEF Behind
      <4>2. PlaceIn(w.list, R)[i] <= Reach(w)
        BY <1>4, <1>5, <4>1
      <4>. QED BY <4>1, <4>2 DEF Behind
    <3>. QED BY <3>1
  <2>4. /\ Cardinality(Behind(w, R)) \in Nat /\ Cardinality(Behind(w, T)) \in Nat /\ w.left \in Nat
        /\ Cardinality(Behind(w, T)) <= Cardinality(Behind(w, R))
    BY <1>1, <1>3, <2>3, DueTypes, Cards, WalkFields
  <2>5. w.stage \in Underway => Cardinality(Behind(w, T)) <= w.left
    BY <2>1, <2>4
  <2>6. Due(x, T) = Due(w, T) /\ Behind(x, T) = Behind(w, T) /\ (AtEnd(x) <=> AtEnd(w))
    BY <1>2, SameReach
  <2>. QED BY <1>2, <2>1, <2>2, <2>5, <2>6 DEF Paid, SamePoint
<1>8. Seen(w) \subseteq V
  BY <1>1 DEF Once
<1>9. ~late => (StaysBefore(w, R) => StaysBefore(w, T))
  <2>. SUFFICES ASSUME ~late, StaysBefore(w, R), NEW s \in w.shown
                PROVE  s[1] <= w.page /\ (s[2] \in T => PlaceIn(w.list, T)[s[2]] <= s[1] * w.limit)
    BY DEF StaysBefore
  <2>1. s[1] <= w.page /\ (s[2] \in R => PlaceIn(w.list, R)[s[2]] <= s[1] * w.limit)
    BY DEF StaysBefore
  <2>2. s[2] # d
    BY <1>8 DEF Seen
  <2>. QED BY <1>11, <2>1, <2>2
<1>. HIDE DEF T
<1>10. Once(x, T, V \cup {d})
  <2>1. /\ Seen(x) = Seen(w)
        /\ (ShownOnce(x) <=> ShownOnce(w)) /\ (StaysBefore(x, T) <=> StaysBefore(w, T))
    BY <1>2, SameReach
  <2>. QED BY <1>1, <1>2, <1>8, <1>9, <2>1 DEF Once, SamePoint
<1>. QED BY <1>2, <1>6, <1>7, <1>10 DEF Followed, T

(* The walk starts: nothing stands before the first page.                  *)
LEMMA FollowedStart ==
  ASSUME NEW w, NEW R, NEW V, Followed(w, R, V), w.stage = "none",
         NEW list \in Lists, NEW u \in Owners \cup {NoWalk.owner}, NEW n,
         NEW T \in Rows, T \subseteq V,
         NEW x, x = [w EXCEPT !.stage = "asking", !.list = list, !.owner = u,
                              !.limit = paginationLimit(n), !.first = T]
  PROVE  Followed(x, T, V)
<1>1. w \in Walks /\ w.shown = {} /\ w.page = 1
  BY DEF Followed, Once
<1>2. paginationLimit(n) \in 1..MaxLimit
  BY LimitAssumption DEF paginationLimit
<1>3. x \in Walks
  BY <1>1, <1>2 DEF Walks, Underway, Rows
<1>4. /\ x.stage = "asking" /\ x.list = list /\ x.first = T /\ x.shown = {} /\ x.page = 1
  BY <1>1 DEF Walks
<1>5. Seen(x) = {} /\ Reach(x) = 0
  <2>1. x.limit \in Nat
    BY <1>3, WalkFields
  <2>. QED BY <1>4, <2>1 DEF Seen, Reach
<1>6. \A i \in T : PlaceIn(list, T)[i] \in Nat /\ 1 <= PlaceIn(list, T)[i]
  BY PlaceTypes
<1>7. Kept(x, T)
  BY <1>4, <1>5, <1>6 DEF Kept, AllAhead
<1>8. Behind(x, T) = {}
  BY <1>4, <1>5, <1>6 DEF Behind, Due
<1>9. Paid(x, T)
  <2>1. Cardinality(Behind(x, T)) = 0 /\ x.left \in Nat
    BY <1>3, <1>8, FS_EmptySet, WalkFields
  <2>2. ~AtEnd(x)
    BY <1>4 DEF AtEnd
  <2>. QED BY <1>4, <2>1, <2>2 DEF Paid
<1>10. Once(x, T, V)
  BY <1>4, <1>5 DEF Once, ShownOnce, StaysBefore
<1>. QED BY <1>3, <1>7, <1>9, <1>10 DEF Followed

(* A page is shown: what it holds is no longer behind the walk, and what   *)
(* other pages have shown is not on it.                                    *)
PageShown(w, R, rows, x) ==
  /\ rows = Page(PlaceIn(w.list, R), w.limit, paginationOffset(w.page, w.limit))
  /\ x.shown = w.shown \cup ({w.page} \X rows)
  /\ x.stage \in {"counting", "showing", "done"}
  /\ x.list = w.list /\ x.page = w.page /\ x.limit = w.limit
  /\ x.first = w.first /\ x.left = w.left /\ x.late = w.late

Onward(w, R, V, rows, x) ==
  /\ Seen(x) = Seen(w) \cup rows
  /\ AllAhead(w, R) => AllAhead(x, R)
  /\ Cardinality(Behind(x, R)) <= Cardinality(Behind(w, R))
  /\ Once(x, R, V)

LEMMA FollowedPage ==
  ASSUME NEW w, NEW R \in Rows, NEW V, Followed(w, R, V), R \subseteq V, w.stage = "asking",
         NEW rows, NEW x \in Walks, PageShown(w, R, rows, x)
  PROVE  Onward(w, R, V, rows, x)
<1>1. w \in Walks /\ Once(w, R, V)
  BY DEF Followed
<1>2. w.limit \in Nat \ {0} /\ w.page \in Nat \ {0} /\ w.shown \subseteq Nat \X Nat
  BY <1>1, WalkFields
<1>. DEFINE P == PlaceIn(w.list, R)
            off == (w.page - 1) * w.limit
            end == w.page * w.limit
<1>3. \A i : i \in rows <=> i \in R /\ off < P[i] /\ P[i] <= end
  BY <1>2, OnPage DEF PageShown
<1>4. \A i \in R : P[i] \in Nat
  BY PlaceTypes
<1>5. off \in Nat /\ end \in Nat /\ off <= end
  <2>1. off \in Nat /\ end \in Nat /\ off + w.limit = end
    BY <1>2, PageEnds
  <2>. HIDE DEF off, end
  <2>. QED BY <1>2, <2>1
<1>6. Reach(w) = off /\ Reach(x) = end
  BY DEF Reach, PageShown
<1>7. Seen(x) = Seen(w) \cup rows
  <2>1. \A s : s \in x.shown <=> s \in w.shown \/ \E i \in rows : s = <<w.page, i>>
    BY DEF PageShown
  <2>2. ASSUME NEW i \in Seen(x) PROVE i \in Seen(w) \cup rows
    BY <2>1 DEF Seen
  <2>3. ASSUME NEW i \in Seen(w) PROVE i \in Seen(x)
    BY <2>1 DEF Seen
  <2>4. ASSUME NEW i \in rows PROVE i \in Seen(x)
    <3>1. <<w.page, i>> \in x.shown /\ i = <<w.page, i>>[2]
      BY <2>1
    <3>. QED BY <3>1 DEF Seen
  <2>. QED BY <2>2, <2>3, <2>4
<1>8. PlaceIn(x.list, R) = P /\ x.first = w.first
  BY DEF PageShown
<1>9. AllAhead(w, R) => AllAhead(x, R)
  <2>. SUFFICES ASSUME AllAhead(w, R), NEW i \in w.first \ Seen(x)
                PROVE  i \in R /\ end < P[i]
    BY <1>6, <1>8, Zenon DEF AllAhead
  <2>1. i \in w.first \ Seen(w) /\ i \notin rows
    BY <1>7
  <2>2. i \in R /\ off < P[i]
    BY <1>6, <2>1 DEF AllAhead
  <2>. QED BY <1>3, <1>4, <1>5, <2>1, <2>2
<1>10. Cardinality(Behind(x, R)) <= Cardinality(Behind(w, R))
  <2>1. ASSUME NEW i \in Behind(x, R) PROVE i \in Behind(w, R)
    <3>1. i \in Due(w, R) /\ i \in R /\ i \notin rows /\ P[i] <= end
      BY <1>6, <1>7, <1>8 DEF Behind, Due
    <3>2. P[i] <= off
      BY <1>3, <1>4, <1>5, <3>1
    <3>. QED BY <1>6, <3>1, <3>2 DEF Behind
  <2>. QED BY <2>1, DueTypes, Cards
<1>11. ASSUME ~w.late PROVE ShownOnce(x) /\ StaysBefore(x, R)
  <2>1. ShownOnce(w) /\ StaysBefore(w, R)
    BY <1>1, <1>11 DEF Once, Underway
  <2>2. ASSUME NEW s \in x.shown
        PROVE  /\ s \in w.shown \/ (s[1] = w.page /\ s[2] \in rows)
               /\ s[1] \in Nat /\ s[1] <= w.page
               /\ (s[2] \in R => P[s[2]] <= s[1] * w.limit)
    <3>1. CASE s \in w.shown
      <4>1. s[1] <= w.page /\ (s[2] \in R => P[s[2]] <= s[1] * w.limit)
        BY <2>1, <3>1, Zenon DEF StaysBefore
      <4>2. s[1] \in Nat
        BY <1>2, <3>1
      <4>. QED BY <3>1, <4>1, <4>2
    <3>2. CASE s \notin w.shown
      <4>1. s[1] = w.page /\ s[2] \in rows
        BY <3>2 DEF PageShown
      <4>. QED BY <1>2, <1>3, <4>1
    <3>. QED BY <3>1, <3>2
  <2>3. ASSUME NEW s \in w.shown, s[2] \in rows PROVE s[1] = w.page
    <3>1. s[1] \in Nat /\ s[1] <= w.page /\ s[2] \in R /\ P[s[2]] <= s[1] * w.limit
      BY <1>2, <1>3, <2>1, <2>3 DEF StaysBefore
    <3>2. off < P[s[2]] /\ P[s[2]] \in Nat
      BY <1>3, <1>4, <2>3
    <3>3. CASE s[1] <= w.page - 1
      <4>1. s[1] * w.limit <= off /\ s[1] * w.limit \in Nat
        BY <1>2, <3>1, <3>3, Multiples
      <4>. HIDE DEF off, P
      <4>. QED BY <1>5, <3>1, <3>2, <4>1
    <3>. QED BY <1>2, <3>1, <3>3
  <2>4. ShownOnce(x)
    <3>. SUFFICES ASSUME NEW s \in x.shown, NEW t \in x.shown, s[2] = t[2] PROVE s[1] = t[1]
      BY DEF ShownOnce
    <3>1. CASE s \in w.shown /\ t \in w.shown
      BY <2>1, <3>1 DEF ShownOnce
    <3>2. CASE s \in w.shown /\ t \notin w.shown
      BY <2>2, <2>3, <3>2
    <3>3. CASE s \notin w.shown /\ t \in w.shown
      BY <2>2, <2>3, <3>3
    <3>4. CASE s \notin w.shown /\ t \notin w.shown
      BY <2>2, <3>4
    <3>. QED BY <3>1, <3>2, <3>3, <3>4
  <2>5. x.page = w.page /\ x.limit = w.limit
    BY DEF PageShown
  <2>6. StaysBefore(x, R)
    BY <1>8, <2>2, <2>5 DEF StaysBefore
  <2>. QED BY <2>4, <2>6
<1>12. Once(x, R, V)
  <2>1. Seen(x) \subseteq V /\ x.first \subseteq V
    BY <1>1, <1>3, <1>7, <1>8 DEF Once
  <2>2. x.stage # "none" /\ x.late = w.late
    BY DEF PageShown
  <2>. QED BY <1>11, <2>1, <2>2 DEF Once
<1>. QED BY <1>7, <1>9, <1>10, <1>12, Zenon DEF Onward

(* A page of the queue, before its total is asked for.                     *)
LEMMA FollowedQueuePage ==
  ASSUME NEW w, NEW R \in Rows, NEW V, Followed(w, R, V), R \subseteq V,
         w.stage = "asking", w.list = "queue",
         NEW rows, rows = Page(PlaceIn(w.list, R), w.limit, paginationOffset(w.page, w.limit)),
         NEW x, x = [w EXCEPT !.stage = "counting", !.shown = w.shown \cup ({w.page} \X rows)]
  PROVE  Followed(x, R, V)
<1>1. w \in Walks /\ Kept(w, R) /\ Paid(w, R)
  BY DEF Followed
<1>2. rows \subseteq Nat
  BY PlacesRank DEF Page, Rows
<1>3. x \in Walks /\ x.stage = "counting" /\ x.list = "queue" /\ PageShown(w, R, rows, x)
  <2>1. {w.page} \X rows \subseteq Nat \X Nat
    BY <1>1, <1>2, WalkFields
  <2>. QED BY <1>1, <2>1 DEF Walks, Underway, PageShown
<1>4. Cardinality(Behind(x, R)) <= Cardinality(Behind(w, R)) /\ Once(x, R, V)
  <2>1. Onward(w, R, V, rows, x)
    BY <1>3, FollowedPage
  <2>. QED BY <2>1 DEF Onward
<1>5. Kept(x, R)
  BY <1>3 DEF Kept
<1>6. Paid(x, R)
  <2>1. Cardinality(Behind(w, R)) <= w.left
    BY <1>1 DEF Paid, Underway
  <2>2. /\ Cardinality(Behind(w, R)) \in Nat /\ Cardinality(Behind(x, R)) \in Nat
        /\ w.left \in Nat
    BY <1>1, DueTypes, WalkFields
  <2>3. Cardinality(Behind(x, R)) <= w.left
    BY <1>4, <2>1, <2>2
  <2>4. ~AtEnd(x) /\ x.first = w.first /\ x.left = w.left
    BY <1>3 DEF AtEnd, PageShown
  <2>. QED BY <2>1, <2>3, <2>4 DEF Paid
<1>. QED BY <1>3, <1>4, <1>5, <1>6 DEF Followed

(* A page of a list without a total: an empty one is behind everything.    *)
LEMMA FollowedListPage ==
  ASSUME NEW w, NEW R \in Rows, NEW V, Followed(w, R, V), R \subseteq V,
         w.stage = "asking",
         NEW rows, rows = Page(PlaceIn(w.list, R), w.limit, paginationOffset(w.page, w.limit)),
         NEW x, x = [w EXCEPT !.stage = IF rows = {} THEN "done" ELSE "showing",
                              !.shown = w.shown \cup ({w.page} \X rows),
                              !.pages = w.page + 1]
  PROVE  Followed(x, R, V)
<1>1. w \in Walks /\ Kept(w, R) /\ Paid(w, R)
  BY DEF Followed
<1>2. rows \subseteq Nat
  BY PlacesRank DEF Page, Rows
<1>3. w.page \in Nat \ {0} /\ w.limit \in Nat \ {0}
  BY <1>1, WalkFields
<1>4. /\ x \in Walks /\ PageShown(w, R, rows, x) /\ x.pages = w.page + 1
      /\ rows = {} => x.stage = "done"
      /\ rows # {} => x.stage = "showing"
  <2>1. {w.page} \X rows \subseteq Nat \X Nat
    BY <1>2, <1>3
  <2>2. PICK st : st = IF rows = {} THEN "done" ELSE "showing"
    OBVIOUS
  <2>3. PICK more : more = w.shown \cup ({w.page} \X rows)
    OBVIOUS
  <2>4. PICK n : n = w.page + 1
    OBVIOUS
  <2>5. st \in {"done", "showing"} /\ more \subseteq Nat \X Nat /\ n \in Nat
    BY <1>1, <1>3, <2>1, <2>2, <2>3, <2>4, WalkFields
  <2>6. x = [w EXCEPT !.stage = st, !.shown = more, !.pages = n]
    BY <2>2, <2>3, <2>4
  <2>7. /\ x \in Walks /\ x.stage = st /\ x.shown = more /\ x.pages = n
        /\ x.list = w.list /\ x.page = w.page /\ x.limit = w.limit
        /\ x.first = w.first /\ x.left = w.left /\ x.late = w.late
    <3>1. x \in Walks
      <4>1. /\ w \in Walks /\ n \in Nat /\ more \in SUBSET (Nat \X Nat)
            /\ st \in Underway \cup {"none", "done"}
        BY <1>1, <2>5 DEF Underway
      <4>2. [w EXCEPT !.stage = st, !.shown = more, !.pages = n] \in Walks
        BY <4>1, WalkTurned, Zenon
      <4>. QED BY <2>6, <4>2, Zenon
    <3>2. x.stage = st /\ x.shown = more /\ x.pages = n
      BY <1>1, <2>6 DEF Walks
    <3>3. /\ x.list = w.list /\ x.page = w.page /\ x.limit = w.limit
          /\ x.first = w.first /\ x.left = w.left /\ x.late = w.late
      BY <1>1, <2>6 DEF Walks
    <3>. QED BY <3>1, <3>2, <3>3
  <2>8. PageShown(w, R, rows, x)
    BY <2>3, <2>5, <2>7 DEF PageShown
  <2>9. (rows = {} => st = "done") /\ (rows # {} => st = "showing")
    BY <2>2
  <2>. QED BY <2>4, <2>7, <2>8, <2>9
<1>5. /\ Seen(x) = Seen(w) \cup rows
      /\ AllAhead(w, R) => AllAhead(x, R)
      /\ Cardinality(Behind(x, R)) <= Cardinality(Behind(w, R))
      /\ Once(x, R, V)
  <2>1. x \in Walks /\ PageShown(w, R, rows, x)
    BY <1>4
  <2>2. Onward(w, R, V, rows, x)
    BY <2>1, FollowedPage
  <2>. QED BY <2>2, Zenon DEF Onward
<1>6. x.list = w.list /\ x.page = w.page /\ x.first = w.first /\ x.left = w.left
  BY <1>4 DEF PageShown
<1>7. ASSUME rows = {}, NEW i \in R PROVE PlaceIn(w.list, R)[i] <= Reach(w)
  <2>1. paginationOffset(w.page, w.limit) \in Nat /\ paginationOffset(w.page, w.limit) = Reach(w)
    BY <1>3, PageEnds DEF Reach
  <2>. QED BY <1>3, <1>7, <2>1, EmptyPage
<1>8. \A i \in R : PlaceIn(w.list, R)[i] \in Nat
  BY PlaceTypes
<1>9. Reach(w) \in Nat
  BY <1>1, WalkFields
<1>10. Kept(x, R)
  <2>. SUFFICES ASSUME w.list = "own" PROVE Kept(x, R)
    BY <1>6 DEF Kept
  <2>1. AllAhead(w, R)
    BY <1>1 DEF Kept
  <2>2. CASE rows = {}
    <3>1. w.first \subseteq Seen(w)
      <4>. SUFFICES ASSUME NEW i \in w.first \ Seen(w) PROVE FALSE
        OBVIOUS
      <4>1. i \in R /\ Reach(w) < PlaceIn(w.list, R)[i]
        BY <2>1 DEF AllAhead
      <4>. QED BY <1>7, <1>8, <1>9, <2>2, <4>1
    <3>. QED BY <1>4, <1>5, <1>6, <2>2, <3>1 DEF Kept
  <2>3. CASE rows # {}
    <3>1. x.stage = "showing" /\ x.pages = w.page + 1
      BY <1>4, <2>3
    <3>2. AllAhead(x, R)
      BY <1>5, <2>1
    <3>3. x.page < x.pages
      BY <1>3, <1>6, <3>1
    <3>. QED BY <3>1, <3>2, <3>3 DEF Kept
  <2>. QED BY <2>2, <2>3
<1>11. Paid(x, R)
  <2>. SUFFICES ASSUME w.list # "own" PROVE Paid(x, R)
    BY <1>6 DEF Paid
  <2>1. Cardinality(Behind(w, R)) <= w.left
    BY <1>1 DEF Paid, Underway
  <2>2. /\ Cardinality(Behind(w, R)) \in Nat /\ Cardinality(Behind(x, R)) \in Nat
        /\ w.left \in Nat
    BY <1>1, DueTypes, WalkFields
  <2>3. Cardinality(Behind(x, R)) <= x.left
    <3>1. Cardinality(Behind(x, R)) <= Cardinality(Behind(w, R))
      BY <1>5
    <3>. QED BY <1>6, <2>1, <2>2, <3>1
  <2>4. ASSUME AtEnd(x) PROVE Cardinality(Due(x, R)) <= x.left
    <3>1. rows = {}
      BY <1>3, <1>4, <1>6, <2>4 DEF AtEnd
    <3>2. Due(x, R) = Behind(w, R)
      <4>1. Due(x, R) = Due(w, R)
        BY <1>5, <1>6, <3>1 DEF Due
      <4>. QED BY <1>7, <3>1, <4>1, DueTypes DEF Behind
    <3>. QED BY <1>6, <2>1, <3>2
  <2>. QED BY <1>6, <2>1, <2>3, <2>4 DEF Paid
<1>. QED BY <1>4, <1>5, <1>10, <1>11 DEF Followed

(* The total: its last page holds the last row of the queue.               *)
LEMMA FollowedTotal ==
  ASSUME NEW w, NEW R \in Rows, NEW V, Followed(w, R, V), R \subseteq V,
         w.stage = "counting", NEW n \in {0, Cardinality(R)},
         NEW x, x = [w EXCEPT !.stage = "showing", !.pages = (n + w.limit - 1) \div w.limit]
  PROVE  Followed(x, R, V)
<1>1. w \in Walks /\ Kept(w, R) /\ Paid(w, R) /\ Once(w, R, V)
  BY DEF Followed
<1>2. w.limit \in Nat \ {0} /\ w.page \in Nat \ {0} /\ w.list # "own"
  BY <1>1, WalkFields DEF Kept
<1>. DEFINE m == (n + w.limit - 1) \div w.limit
<1>3. n \in Nat /\ Cardinality(R) \in Nat
  BY FS_CardinalityType DEF Rows
<1>4. m \in Nat /\ n <= m * w.limit
  BY <1>2, <1>3, EnoughPages
<1>5. n = 0 => m = 0
  BY <1>2, NoPages
<1>. HIDE DEF m
<1>6. x = [w EXCEPT !.stage = "showing", !.pages = m]
  BY DEF m
<1>7. /\ x \in Walks /\ x.stage = "showing" /\ x.pages = m /\ x.list = w.list /\ x.page = w.page
      /\ x.limit = w.limit /\ x.shown = w.shown /\ x.first = w.first /\ x.left = w.left
      /\ x.late = w.late
  BY <1>1, <1>4, <1>6 DEF Walks, Underway
<1>8. Seen(x) = Seen(w) /\ Reach(x) = Reach(w) /\ Reach(w) = w.page * w.limit
  BY <1>7 DEF Seen, Reach
<1>9. Due(x, R) = Due(w, R) /\ Behind(x, R) = Behind(w, R)
  BY <1>7, <1>8 DEF Due, Behind
<1>10. Paid(x, R)
  <2>1. Cardinality(Behind(w, R)) <= w.left
    BY <1>1, <1>2 DEF Paid, Underway
  <2>2. ASSUME AtEnd(x) PROVE Due(w, R) = Behind(w, R)
    <3>1. m <= w.page /\ m # 0
      BY <1>2, <1>4, <1>7, <2>2 DEF AtEnd
    <3>2. m * w.limit <= w.page * w.limit /\ m * w.limit \in Nat /\ w.page * w.limit \in Nat
      BY <1>2, <1>4, <3>1, Multiples
    <3>3. Cardinality(R) <= Reach(w)
      BY <1>3, <1>4, <1>5, <1>8, <3>1, <3>2
    <3>4. Reach(w) \in Nat
      BY <1>1, WalkFields
    <3>5. ASSUME NEW i \in Due(w, R) PROVE PlaceIn(w.list, R)[i] <= Reach(w)
      <4>1. PlaceIn(w.list, R)[i] \in Nat /\ PlaceIn(w.list, R)[i] <= Cardinality(R)
        BY DueTypes, PlaceTypes
      <4>. QED BY <1>3, <3>3, <3>4, <4>1
    <3>. QED BY <3>5 DEF Behind
  <2>. QED BY <1>7, <1>9, <2>1, <2>2 DEF Paid
<1>11. Once(x, R, V)
  <2>1. w.stage \in Underway
    BY DEF Underway
  <2>2. ShownOnce(x) <=> ShownOnce(w)
    BY <1>7 DEF ShownOnce
  <2>3. StaysBefore(x, R) <=> StaysBefore(w, R)
    BY <1>7 DEF StaysBefore
  <2>. QED BY <1>1, <1>7, <1>8, <2>1, <2>2, <2>3 DEF Once
<1>12. Kept(x, R)
  BY <1>2, <1>7 DEF Kept
<1>. QED BY <1>7, <1>10, <1>11, <1>12 DEF Followed

(* The next page begins where this one ends; the last ends the walk.       *)
LEMMA FollowedTurn ==
  ASSUME NEW w, NEW R \in Rows, NEW V, Followed(w, R, V), w.stage = "showing",
         NEW x, x = IF w.page < w.pages THEN [w EXCEPT !.stage = "asking", !.page = @ + 1]
                    ELSE [w EXCEPT !.stage = "done"]
  PROVE  Followed(x, R, V)
<1>1. w \in Walks /\ Kept(w, R) /\ Paid(w, R) /\ Once(w, R, V)
  BY DEF Followed
<1>2. w.limit \in Nat \ {0} /\ w.page \in Nat \ {0} /\ w.pages \in Nat
      /\ w.shown \subseteq Nat \X Nat
  BY <1>1, WalkFields
<1>3. x \in Walks /\ x.list = w.list /\ x.limit = w.limit /\ x.shown = w.shown
      /\ x.first = w.first /\ x.left = w.left /\ x.late = w.late /\ x.pages = w.pages
  <2>1. CASE w.page < w.pages
    <3>1. PICK n : n = w.page + 1
      OBVIOUS
    <3>2. n \in Nat \ {0} /\ x = [w EXCEPT !.stage = "asking", !.page = n]
      BY <1>2, <2>1, <3>1
    <3>. QED BY <1>1, <3>2 DEF Walks, Underway
  <2>2. CASE ~(w.page < w.pages)
    BY <1>1, <1>2, <2>2 DEF Walks, Underway
  <2>. QED BY <2>1, <2>2
<1>4. Seen(x) = Seen(w) /\ Due(x, R) = Due(w, R) /\ (ShownOnce(x) <=> ShownOnce(w))
  BY <1>3 DEF Seen, Due, ShownOnce
<1>5. Seen(x) \subseteq V
  BY <1>1, <1>4 DEF Once
<1>6. CASE w.page < w.pages
  <2>1. x.stage = "asking" /\ x.page = w.page + 1
    BY <1>1, <1>6 DEF Walks
  <2>2. Reach(x) = Reach(w)
    BY <1>2, <1>3, <2>1, PageEnds DEF Reach
  <2>3. Behind(x, R) = Behind(w, R) /\ (AllAhead(x, R) <=> AllAhead(w, R))
    BY <1>3, <1>4, <2>2 DEF Behind, AllAhead
  <2>4. Kept(x, R)
    BY <1>1, <1>3, <2>1, <2>3 DEF Kept
  <2>5. Paid(x, R)
    <3>1. ~AtEnd(x) /\ w.stage \in Underway
      BY <2>1 DEF AtEnd, Underway
    <3>. QED BY <1>1, <1>3, <2>3, <3>1 DEF Paid
  <2>6. StaysBefore(w, R) => StaysBefore(x, R)
    <3>. SUFFICES ASSUME StaysBefore(w, R), NEW s \in w.shown
                  PROVE  s[1] <= w.page + 1
                         /\ (s[2] \in R => PlaceIn(w.list, R)[s[2]] <= s[1] * w.limit)
      BY <1>3, <2>1 DEF StaysBefore
    <3>1. s[1] <= w.page /\ (s[2] \in R => PlaceIn(w.list, R)[s[2]] <= s[1] * w.limit)
      BY DEF StaysBefore
    <3>2. s[1] \in Nat
      BY <1>2
    <3>3. s[1] <= w.page + 1
      BY <1>2, <3>1, <3>2
    <3>. QED BY <3>1, <3>3
  <2>7. Once(x, R, V)
    <3>1. x.stage # "none" /\ w.stage \in Underway
      BY <2>1 DEF Underway
    <3>. QED BY <1>1, <1>3, <1>4, <1>5, <2>6, <3>1 DEF Once
  <2>. QED BY <1>3, <2>4, <2>5, <2>7 DEF Followed
<1>7. CASE ~(w.page < w.pages)
  <2>1. x.stage = "done"
    BY <1>1, <1>7 DEF Walks
  <2>2. Kept(x, R)
    BY <1>1, <1>3, <1>7 DEF Kept
  <2>3. Paid(x, R)
    <3>1. AtEnd(x) => AtEnd(w)
      BY <1>2, <1>3, <1>7, <2>1 DEF AtEnd
    <3>2. x.stage \notin Underway
      BY <2>1 DEF Underway
    <3>. QED BY <1>1, <1>3, <1>4, <3>1, <3>2 DEF Paid
  <2>4. Once(x, R, V)
    <3>1. x.stage # "none" /\ x.stage \notin Underway
      BY <2>1 DEF Underway
    <3>. QED BY <1>1, <1>3, <1>4, <1>5, <3>1 DEF Once
  <2>. QED BY <1>3, <2>2, <2>3, <2>4 DEF Followed
<1>. QED BY <1>6, <1>7

(* The same page again: what it holds is ahead once more.                  *)
LEMMA FollowedReload ==
  ASSUME NEW w, NEW R \in Rows, NEW V, Followed(w, R, V), w.stage = "showing", w.list = "queue",
         NEW x, x = [w EXCEPT !.stage = "asking"]
  PROVE  Followed(x, R, V)
<1>1. w \in Walks /\ Paid(w, R) /\ Once(w, R, V)
  BY DEF Followed
<1>2. x \in Walks /\ x.stage = "asking" /\ x.list = w.list /\ x.limit = w.limit
      /\ x.shown = w.shown /\ x.first = w.first /\ x.left = w.left /\ x.late = w.late
      /\ x.page = w.page
  BY <1>1 DEF Walks, Underway
<1>3. Seen(x) = Seen(w) /\ Due(x, R) = Due(w, R) /\ (ShownOnce(x) <=> ShownOnce(w))
      /\ (StaysBefore(x, R) <=> StaysBefore(w, R))
  BY <1>2 DEF Seen, Due, ShownOnce, StaysBefore
<1>4. Reach(x) \in Nat /\ Reach(w) \in Nat /\ Reach(x) <= Reach(w)
  <2>1. w.limit \in Nat \ {0} /\ w.page \in Nat \ {0}
    BY <1>1, WalkFields
  <2>2. (w.page - 1) * w.limit \in Nat /\ w.page * w.limit \in Nat
        /\ (w.page - 1) * w.limit + w.limit = w.page * w.limit
    BY <2>1, PageEnds
  <2>3. Reach(x) = (w.page - 1) * w.limit /\ Reach(w) = w.page * w.limit
    BY <1>2 DEF Reach
  <2>4. Reach(x) + w.limit = Reach(w) /\ Reach(x) \in Nat /\ Reach(w) \in Nat
    BY <2>2, <2>3
  <2>. QED BY <2>1, <2>4
<1>5. Behind(x, R) \subseteq Behind(w, R)
  <2>1. ASSUME NEW i \in Behind(x, R) PROVE i \in Behind(w, R)
    <3>1. i \in Due(w, R) /\ i \in R /\ PlaceIn(w.list, R)[i] <= Reach(x)
      BY <1>2, <1>3, DueTypes DEF Behind
    <3>2. PlaceIn(w.list, R)[i] \in Nat
      BY <3>1, PlaceTypes
    <3>3. PlaceIn(w.list, R)[i] <= Reach(w)
      BY <1>4, <3>1, <3>2
    <3>. QED BY <3>1, <3>3 DEF Behind
  <2>. QED BY <2>1
<1>6. w.stage \in Underway /\ x.stage \in Underway /\ x.stage # "none" /\ ~AtEnd(x)
  BY <1>2 DEF Underway, AtEnd
<1>7. Paid(x, R)
  <2>1. Cardinality(Behind(w, R)) <= w.left
    BY <1>1, <1>6 DEF Paid
  <2>2. /\ Cardinality(Behind(w, R)) \in Nat /\ Cardinality(Behind(x, R)) \in Nat
        /\ w.left \in Nat /\ Cardinality(Behind(x, R)) <= Cardinality(Behind(w, R))
    BY <1>1, <1>5, DueTypes, Cards, WalkFields
  <2>3. Cardinality(Behind(x, R)) <= w.left
    BY <2>1, <2>2
  <2>. QED BY <1>2, <1>6, <2>1, <2>3 DEF Paid
<1>8. Once(x, R, V)
  BY <1>1, <1>2, <1>3, <1>6 DEF Once
<1>9. Kept(x, R)
  BY <1>2 DEF Kept
<1>. QED BY <1>2, <1>7, <1>8, <1>9 DEF Followed

(***************************************************************************)
(* What each change of the operations does to the lists.                   *)
(***************************************************************************)
LEMMA ListRows ==
  ASSUME operations \in Seq(Operations), NEW list, NEW u
  PROVE  /\ InList(list, u) \in Rows /\ InList(list, u) \subseteq Visibles
         /\ Visibles \subseteq DOMAIN operations /\ DOMAIN operations = 1..Len(operations)
         /\ DOMAIN operations \subseteq Nat
<1>1. DOMAIN operations = 1..Len(operations) /\ Len(operations) \in Nat
  OBVIOUS
<1>2. IsFiniteSet(DOMAIN operations) /\ DOMAIN operations \subseteq Nat
  BY <1>1, FS_Interval
<1>3. InList(list, u) \subseteq Visibles /\ Visibles \subseteq DOMAIN operations
  BY DEF InList, RowsOf, PendingRows, OwnedBy, Pending, Visibles
<1>4. IsFiniteSet(InList(list, u))
  BY <1>2, <1>3, FS_Subset
<1>. QED BY <1>1, <1>2, <1>3, <1>4 DEF Rows

LEMMA InsertBegins ==
  ASSUME operations \in Seq(Operations), BeginInsert, NEW list, NEW u
  PROVE  /\ operations' \in Seq(Operations) /\ walk' = walk
         /\ InList(list, u)' = InList(list, u) /\ Visibles' = Visibles
<1>1. PICK o \in Operations : o.visible = FALSE /\ operations' = Append(operations, o)
  <2>1. PICK v \in Owners :
          operations' = Append(operations, [owner |-> v, status |-> "requested", visible |-> FALSE])
    BY DEF BeginInsert
  <2>. DEFINE o == [owner |-> v, status |-> "requested", visible |-> FALSE]
  <2>2. o \in Operations /\ o.visible = FALSE
    BY DEF Operations
  <2>. QED BY <2>1, <2>2
<1>2. operations' \in Seq(Operations)
  BY <1>1
<1>3. /\ DOMAIN operations' = 1 .. Len(operations) + 1 /\ DOMAIN operations = 1..Len(operations)
      /\ Len(operations) \in Nat
      /\ \A i \in DOMAIN operations : operations'[i] = operations[i]
      /\ operations'[Len(operations) + 1].visible = FALSE
  BY <1>1
<1>4. \A i : i \in DOMAIN operations' /\ operations'[i].visible
             <=> i \in DOMAIN operations /\ operations[i].visible
  BY <1>3
<1>5. Visibles' = Visibles
  BY <1>4 DEF Visibles, Visible
<1>6. PendingRows' = PendingRows
  BY <1>3, <1>4 DEF PendingRows, Pending, Visible
<1>7. RowsOf(u)' = RowsOf(u)
  BY <1>3, <1>4 DEF RowsOf, OwnedBy, Visible
<1>8. InList(list, u)' = InList(list, u)
  BY <1>6, <1>7 DEF InList
<1>. QED BY <1>2, <1>5, <1>8 DEF BeginInsert

LEMMA InsertCommits ==
  ASSUME operations \in Seq(Operations), NEW d \in DOMAIN operations, CommitInsert(d),
         NEW list, NEW u
  PROVE  /\ operations' \in Seq(Operations)
         /\ d \in Nat \ Visibles /\ Visibles' = Visibles \cup {d}
         /\ \/ InList(list, u)' = InList(list, u)
            \/ /\ InList(list, u)' = InList(list, u) \cup {d}
               /\ list = "own" => operations[d].owner = u
<1>1. ~Visible(d) /\ operations' = [operations EXCEPT ![d].visible = TRUE]
  BY DEF CommitInsert
<1>. DEFINE o == [operations[d] EXCEPT !.visible = TRUE]
<1>8. /\ d \in 1..Len(operations) /\ d \in Nat /\ operations[d] \in Operations
      /\ operations' = [operations EXCEPT ![d] = o]
  BY <1>1, ListRows
<1>9. /\ o \in Operations /\ o.visible = TRUE
      /\ o.owner = operations[d].owner /\ o.status = operations[d].status
  BY <1>8 DEF Operations
<1>. HIDE DEF o
<1>2. DOMAIN operations' = DOMAIN operations
      /\ operations'[d].visible = TRUE /\ operations'[d].owner = operations[d].owner
      /\ operations'[d].status = operations[d].status
      /\ \A i \in DOMAIN operations : i # d => operations'[i] = operations[i]
  BY <1>8, <1>9
<1>3. operations' \in Seq(Operations)
  BY <1>8, <1>9, ExceptSeq
<1>4. Visibles' = Visibles \cup {d} /\ d \notin Visibles
  BY <1>1, <1>2 DEF Visibles, Visible
<1>5. \/ PendingRows' = PendingRows
      \/ PendingRows' = PendingRows \cup {d}
  <2>1. CASE operations[d].status = "requested"
    BY <1>1, <1>2, <2>1 DEF PendingRows, Pending, Visible
  <2>2. CASE operations[d].status # "requested"
    BY <1>1, <1>2, <2>2 DEF PendingRows, Pending, Visible
  <2>. QED BY <2>1, <2>2
<1>6. \/ RowsOf(u)' = RowsOf(u)
      \/ RowsOf(u)' = RowsOf(u) \cup {d} /\ operations[d].owner = u
  <2>1. CASE operations[d].owner = u
    BY <1>1, <1>2, <2>1 DEF RowsOf, OwnedBy, Visible
  <2>2. CASE operations[d].owner # u
    BY <1>1, <1>2, <2>2 DEF RowsOf, OwnedBy, Visible
  <2>. QED BY <2>1, <2>2
<1>7. \/ InList(list, u)' = InList(list, u)
      \/ /\ InList(list, u)' = InList(list, u) \cup {d}
         /\ list = "own" => operations[d].owner = u
  <2>1. CASE list = "own"
    BY <1>6, <2>1 DEF InList
  <2>2. CASE list # "own"
    BY <1>5, <2>2 DEF InList
  <2>. QED BY <2>1, <2>2
<1>. QED BY <1>3, <1>4, <1>7, <1>8

LEMMA DecisionTakes ==
  ASSUME operations \in Seq(Operations), NEW d \in DOMAIN operations, Decide(d), NEW list, NEW u
  PROVE  /\ operations' \in Seq(Operations) /\ Visibles' = Visibles
         /\ list = "own" => InList(list, u)' = InList(list, u)
         /\ list # "own" => d \in InList(list, u) /\ InList(list, u)' = InList(list, u) \ {d}
<1>1. Pending(d) /\ operations' = [operations EXCEPT ![d].status = "decided"]
  BY DEF Decide
<1>. DEFINE o == [operations[d] EXCEPT !.status = "decided"]
<1>8. /\ d \in 1..Len(operations) /\ d \in Nat /\ operations[d] \in Operations
      /\ operations' = [operations EXCEPT ![d] = o]
  BY <1>1, ListRows
<1>9. /\ o \in Operations /\ o.status = "decided"
      /\ o.owner = operations[d].owner /\ o.visible = operations[d].visible
  BY <1>8 DEF Operations
<1>. HIDE DEF o
<1>2. DOMAIN operations' = DOMAIN operations
      /\ operations'[d].visible = operations[d].visible
      /\ operations'[d].owner = operations[d].owner
      /\ operations'[d].status = "decided"
      /\ \A i \in DOMAIN operations : i # d => operations'[i] = operations[i]
  BY <1>8, <1>9
<1>3. operations' \in Seq(Operations)
  BY <1>8, <1>9, ExceptSeq
<1>4. Visibles' = Visibles
  BY <1>2 DEF Visibles, Visible
<1>5. d \in PendingRows /\ PendingRows' = PendingRows \ {d}
  BY <1>1, <1>2 DEF PendingRows, Pending, Visible
<1>6. RowsOf(u)' = RowsOf(u)
  BY <1>2 DEF RowsOf, OwnedBy, Visible
<1>. QED BY <1>3, <1>4, <1>5, <1>6 DEF InList

(***************************************************************************)
(* The invariant holds.                                                    *)
(***************************************************************************)
LEMMA WalkInit == Init => WalkInv
<1>. SUFFICES ASSUME Init PROVE WalkInv
  OBVIOUS
<1>1. operations = <<>> /\ walk = NoWalk
  BY DEF Init
<1>2. operations \in Seq(Operations)
  BY <1>1
<1>3. walk \in Walks
  BY <1>1, LimitAssumption DEF NoWalk, Walks, Lists
<1>4. walk.stage = "none" /\ walk.shown = {} /\ walk.page = 1 /\ walk.first = {}
      /\ walk.list = "queue" /\ walk.late = FALSE
  BY <1>1 DEF NoWalk
<1>5. Followed(walk, InList(walk.list, walk.owner), Visibles)
  <2>1. Seen(walk) = {} /\ ~AtEnd(walk) /\ walk.stage \notin Underway
    BY <1>4 DEF Seen, AtEnd, Underway
  <2>. QED BY <1>3, <1>4, <2>1 DEF Followed, Kept, Paid, Once, ShownOnce
<1>. QED BY <1>2, <1>5 DEF WalkInv

(* What the walk has after a step, the rows of its list and what is visible. *)
LEMMA WalkInvSuffices ==
  ASSUME NEW x, walk' = x, NEW list, list = x.list, NEW u, u = x.owner,
         NEW R, InList(list, u)' = R, NEW V, Visibles' = V,
         operations' \in Seq(Operations), Followed(x, R, V)
  PROVE  WalkInv'
<1>1. InList(walk.list, walk.owner)' = R
  BY DEF InList, RowsOf, PendingRows, OwnedBy, Pending, Visible
<1>. QED BY <1>1 DEF WalkInv

(* A step of the walk leaves the operations.                               *)
LEMMA WalkSteps ==
  ASSUME WalkInv, operations' = operations, NEW x, walk' = x,
         NEW R, R = InList(x.list, x.owner), Followed(x, R, Visibles)
  PROVE  WalkInv'
<1>1. PICK list, u : list = x.list /\ u = x.owner
  OBVIOUS
<1>2. InList(list, u)' = R
  BY <1>1 DEF InList, RowsOf, PendingRows, OwnedBy, Pending, Visible
<1>3. PICK V : V = Visibles
  OBVIOUS
<1>4. Visibles' = V
  BY <1>3 DEF Visibles, Visible
<1>5. operations' \in Seq(Operations)
  BY DEF WalkInv
<1>. QED BY <1>1, <1>2, <1>3, <1>4, <1>5, WalkInvSuffices

(* What holds of the walk before a step, in names that a step leaves alone. *)
LEMMA WalkNow ==
  ASSUME WalkInv
  PROVE  \E w, list, u, R, V :
           /\ w = walk /\ list = w.list /\ u = w.owner /\ R = InList(list, u) /\ V = Visibles
           /\ R \in Rows /\ R \subseteq V /\ V \subseteq Nat /\ Followed(w, R, V) /\ w \in Walks
           /\ PlaceIn(list, R) = (IF list = "own" THEN NewestFirst(RowsOf(u))
                                  ELSE OldestFirst(PendingRows))
<1>1. operations \in Seq(Operations) /\ Followed(walk, InList(walk.list, walk.owner), Visibles)
  BY DEF WalkInv
<1>2. InList(walk.list, walk.owner) \in Rows /\ InList(walk.list, walk.owner) \subseteq Visibles
      /\ Visibles \subseteq Nat
  BY <1>1, ListRows
<1>3. walk \in Walks
  BY <1>1 DEF Followed
<1>4. PlaceIn(walk.list, InList(walk.list, walk.owner))
      = (IF walk.list = "own" THEN NewestFirst(RowsOf(walk.owner)) ELSE OldestFirst(PendingRows))
  BY DEF PlaceIn, InList
<1>. QED BY <1>1, <1>2, <1>3, <1>4

LEMMA WalkBeginInsert ==
  ASSUME WalkInv, BeginInsert
  PROVE  WalkInv'
<1>1. PICK w, list, u, R, V :
        /\ w = walk /\ list = w.list /\ u = w.owner /\ R = InList(list, u) /\ V = Visibles
        /\ Followed(w, R, V)
  BY WalkNow
<1>2. operations \in Seq(Operations)
  BY DEF WalkInv
<1>3. /\ operations' \in Seq(Operations) /\ walk' = walk
      /\ InList(list, u)' = InList(list, u) /\ Visibles' = Visibles
  BY <1>2, InsertBegins
<1>. QED BY <1>1, <1>3, WalkInvSuffices

LEMMA WalkCommitInsert ==
  ASSUME WalkInv, NEW d \in DOMAIN operations, CommitInsert(d)
  PROVE  WalkInv'
<1>1. PICK w, list, u, R, V :
        /\ w = walk /\ list = w.list /\ u = w.owner /\ R = InList(list, u) /\ V = Visibles
        /\ R \in Rows /\ R \subseteq V /\ V \subseteq Nat /\ Followed(w, R, V) /\ w \in Walks
  BY WalkNow
<1>2. operations \in Seq(Operations)
  BY DEF WalkInv
<1>3. /\ operations' \in Seq(Operations)
      /\ d \in Nat \ V /\ Visibles' = V \cup {d}
      /\ \/ InList(list, u)' = R
         \/ /\ InList(list, u)' = R \cup {d}
            /\ list = "own" => operations[d].owner = u
  BY <1>1, <1>2, InsertCommits
<1>4. PICK x : walk' = x
  OBVIOUS
<1>5. x = IF w.stage \in Underway /\ Late(d) THEN [w EXCEPT !.late = TRUE] ELSE w
  <2>1. Walking <=> w.stage \in Underway
    BY <1>1 DEF Walking, Walks, Underway
  <2>. QED BY <1>1, <1>4, <2>1 DEF CommitInsert
<1>6. x \in Walks /\ SamePoint(w, x) /\ x.left = w.left /\ (w.late => x.late)
      /\ x.list = list /\ x.owner = u
  <2>1. CASE w.stage \in Underway /\ Late(d)
    BY <1>1, <1>5, <2>1 DEF Walks, SamePoint
  <2>2. CASE ~(w.stage \in Underway /\ Late(d))
    BY <1>1, <1>5, <2>2 DEF SamePoint
  <2>. QED BY <2>1, <2>2
<1>7. CASE InList(list, u)' = R
  <2>1. Followed(x, R, V \cup {d})
    BY <1>1, <1>6, FollowedSame
  <2>. QED BY <1>3, <1>4, <1>6, <1>7, <2>1, WalkInvSuffices
<1>8. CASE InList(list, u)' = R \cup {d} /\ (list = "own" => operations[d].owner = u)
  <2>1. ASSUME ~Late(d) PROVE list # "own" /\ \A i \in R : i < d
    <3>1. list # "own"
      BY <1>1, <1>8, <2>1 DEF Late
    <3>2. ASSUME NEW i \in R PROVE i < d
      <4>1. i \in DOMAIN operations /\ Pending(i) /\ i \in Nat
        BY <1>1, <3>1 DEF InList, PendingRows
      <4>2. ~(d < i)
        BY <1>1, <2>1, <3>1, <4>1 DEF Late
      <4>3. i # d
        BY <1>1, <1>3
      <4>. QED BY <1>3, <4>1, <4>2, <4>3
    <3>. QED BY <3>1, <3>2
  <2>2. PICK b \in BOOLEAN : b <=> Late(d)
    OBVIOUS
  <2>3. ~b => w.list # "own" /\ \A i \in R : i < d
    BY <1>1, <2>1, <2>2
  <2>4. x = IF w.stage \in Underway /\ b THEN [w EXCEPT !.late = TRUE] ELSE w
    BY <1>5, <2>2
  <2>5. Followed(x, R \cup {d}, V \cup {d})
    BY <1>1, <1>3, <2>2, <2>3, <2>4, FollowedWith
  <2>. QED BY <1>3, <1>4, <1>6, <1>8, <2>5, WalkInvSuffices
<1>. QED BY <1>3, <1>7, <1>8

LEMMA WalkDecide ==
  ASSUME WalkInv, NEW d \in DOMAIN operations, Decide(d)
  PROVE  WalkInv'
<1>1. PICK w, list, u, R, V :
        /\ w = walk /\ list = w.list /\ u = w.owner /\ R = InList(list, u) /\ V = Visibles
        /\ R \in Rows /\ Followed(w, R, V) /\ w \in Walks
  BY WalkNow
<1>2. operations \in Seq(Operations)
  BY DEF WalkInv
<1>3. /\ operations' \in Seq(Operations) /\ Visibles' = V
      /\ list = "own" => InList(list, u)' = R
      /\ list # "own" => d \in R /\ InList(list, u)' = R \ {d}
  BY <1>1, <1>2, DecisionTakes
<1>4. PICK x : walk' = x
  OBVIOUS
<1>5. x = IF w.stage \in Underway THEN [w EXCEPT !.left = @ + 1] ELSE w
  <2>1. Walking <=> w.stage \in Underway
    BY <1>1 DEF Walking, Walks, Underway
  <2>. QED BY <1>1, <1>4, <2>1 DEF Decide
<1>6. x \in Walks /\ SamePoint(w, x) /\ x.late = w.late /\ x.list = list /\ x.owner = u
  <2>1. CASE w.stage \in Underway
    <3>1. w.left + 1 \in Nat
      BY <1>1, WalkFields
    <3>2. PICK n : n = w.left + 1
      OBVIOUS
    <3>3. n \in Nat /\ x = [w EXCEPT !.left = n]
      BY <1>5, <2>1, <3>1, <3>2
    <3>. QED BY <1>1, <3>3 DEF Walks, SamePoint
  <2>2. CASE ~(w.stage \in Underway)
    BY <1>1, <1>5, <2>2 DEF SamePoint
  <2>. QED BY <2>1, <2>2
<1>7. CASE list = "own"
  <2>1. Followed(x, R, V)
    BY <1>1, <1>6, <1>7, FollowedSame
  <2>. QED BY <1>3, <1>4, <1>6, <1>7, <2>1, WalkInvSuffices
<1>8. CASE list # "own"
  <2>1. Followed(x, R \ {d}, V)
    BY <1>1, <1>3, <1>5, <1>8, FollowedWithout
  <2>. QED BY <1>3, <1>4, <1>6, <1>8, <2>1, WalkInvSuffices
<1>. QED BY <1>7, <1>8

LEMMA WalkStart ==
  ASSUME WalkInv, Start
  PROVE  WalkInv'
<1>1. PICK w, list, u, R, V :
        /\ w = walk /\ V = Visibles /\ R = InList(list, u) /\ Followed(w, R, V) /\ w \in Walks
  BY WalkNow
<1>2. /\ walk.stage = "none" /\ operations' = operations
      /\ \E l \in Lists, v \in Owners, n \in 0..(MaxLimit + 1) :
           walk' = [walk EXCEPT !.stage = "asking", !.list = l, !.owner = v,
                                !.limit = paginationLimit(n), !.first = InList(l, v)]
  BY DEF Start
<1>3. PICK l \in Lists, v \in Owners, n \in 0..(MaxLimit + 1) :
        walk' = [walk EXCEPT !.stage = "asking", !.list = l, !.owner = v,
                             !.limit = paginationLimit(n), !.first = InList(l, v)]
  BY <1>2
<1>4. PICK T : T = InList(l, v)
  OBVIOUS
<1>5. T \in Rows /\ T \subseteq V
  BY <1>1, <1>4, ListRows DEF WalkInv
<1>6. PICK x : x = [w EXCEPT !.stage = "asking", !.list = l, !.owner = v,
                             !.limit = paginationLimit(n), !.first = T]
  OBVIOUS
<1>7. Followed(x, T, V)
  BY <1>1, <1>2, <1>5, <1>6, FollowedStart
<1>8. x.list = l /\ x.owner = v
  BY <1>1, <1>6 DEF Walks
<1>9. walk' = x
  BY <1>1, <1>3, <1>4, <1>6
<1>10. T = InList(x.list, x.owner) /\ Followed(x, T, Visibles)
  BY <1>1, <1>4, <1>7, <1>8
<1>. QED BY <1>2, <1>9, <1>10, WalkSteps

(* A step of the walk that keeps its list.                                 *)
LEMMA WalkStays ==
  ASSUME WalkInv, operations' = operations, NEW w, w = walk, NEW x, walk' = x,
         x.list = w.list, x.owner = w.owner, NEW R, R = InList(w.list, w.owner),
         NEW V, V = Visibles, Followed(x, R, V)
  PROVE  WalkInv'
BY WalkSteps

LEMMA WalkPages ==
  ASSUME WalkInv, handleCustodianQueue \/ handleLenderPending \/ handleInvestorOperations
  PROVE  WalkInv'
<1>1. PICK w, list, u, R, V :
        /\ w = walk /\ list = w.list /\ u = w.owner /\ R = InList(list, u) /\ V = Visibles
        /\ R \in Rows /\ R \subseteq V /\ Followed(w, R, V) /\ w \in Walks
        /\ PlaceIn(list, R) = (IF list = "own" THEN NewestFirst(RowsOf(u))
                               ELSE OldestFirst(PendingRows))
  BY WalkNow
<1>2. PICK rows : rows = Page(PlaceIn(w.list, R), w.limit, paginationOffset(w.page, w.limit))
  OBVIOUS
<1>3. CASE handleCustodianQueue
  <2>1. w.stage = "asking" /\ w.list = "queue" /\ operations' = operations
    BY <1>1, <1>3 DEF handleCustodianQueue
  <2>2. GetPendingOperations(walk.limit, Offset) = rows
    BY <1>1, <1>2, <2>1 DEF GetPendingOperations, Offset
  <2>3. PICK x : x = [w EXCEPT !.stage = "counting",
                               !.shown = w.shown \cup ({w.page} \X rows)]
    OBVIOUS
  <2>4. walk' = x
    BY <1>1, <1>3, <2>2, <2>3 DEF handleCustodianQueue, Showing
  <2>5. Followed(x, R, V)
    BY <1>1, <1>2, <2>1, <2>3, FollowedQueuePage
  <2>6. x.list = w.list /\ x.owner = w.owner
    BY <1>1, <2>3 DEF Walks
  <2>. QED BY <1>1, <2>1, <2>4, <2>5, <2>6, WalkStays
<1>4. CASE handleLenderPending \/ handleInvestorOperations
  <2>1. ShowPage(rows)
    <3>1. CASE handleLenderPending
      BY <1>1, <1>2, <3>1 DEF handleLenderPending, GetPendingOperations, Offset
    <3>2. CASE handleInvestorOperations
      BY <1>1, <1>2, <3>2 DEF handleInvestorOperations, GetOperationsByOwner, Offset
    <3>. QED BY <1>4, <3>1, <3>2
  <2>2. w.stage = "asking" /\ operations' = operations
    BY <1>1, <2>1 DEF ShowPage
  <2>3. PICK x : x = [w EXCEPT !.stage = IF rows = {} THEN "done" ELSE "showing",
                               !.shown = w.shown \cup ({w.page} \X rows),
                               !.pages = w.page + 1]
    OBVIOUS
  <2>4. walk' = x
    BY <1>1, <2>1, <2>3 DEF ShowPage, Showing
  <2>5. Followed(x, R, V)
    BY <1>1, <1>2, <2>2, <2>3, FollowedListPage
  <2>6. x.list = w.list /\ x.owner = w.owner
    BY <1>1, <2>3 DEF Walks
  <2>. QED BY <1>1, <2>2, <2>4, <2>5, <2>6, WalkStays
<1>. QED BY <1>3, <1>4

LEMMA WalkTotals ==
  ASSUME WalkInv, CountQueue \/ CountFails
  PROVE  WalkInv'
<1>1. PICK w, list, u, R, V :
        /\ w = walk /\ list = w.list /\ u = w.owner /\ R = InList(list, u) /\ V = Visibles
        /\ R \in Rows /\ R \subseteq V /\ Followed(w, R, V) /\ w \in Walks
  BY WalkNow
<1>2. walk.stage = "counting" /\ operations' = operations
  BY DEF CountQueue, CountFails, ShowTotal
<1>3. R = PendingRows
  BY <1>1, <1>2 DEF Followed, Kept, InList
<1>4. PICK n \in {0, Cardinality(R)} : ShowTotal(n)
  BY <1>3 DEF CountQueue, CountFails, CountPendingOperations
<1>5. PICK x : x = [w EXCEPT !.stage = "showing", !.pages = (n + w.limit - 1) \div w.limit]
  OBVIOUS
<1>6. walk' = x
  BY <1>1, <1>4, <1>5 DEF ShowTotal
<1>7. Followed(x, R, V)
  BY <1>1, <1>2, <1>5, FollowedTotal
<1>8. x.list = w.list /\ x.owner = w.owner
  BY <1>1, <1>5 DEF Walks
<1>. QED BY <1>1, <1>2, <1>6, <1>7, <1>8, WalkStays

LEMMA WalkTurns ==
  ASSUME WalkInv, Turn \/ Reload
  PROVE  WalkInv'
<1>1. PICK w, list, u, R, V :
        /\ w = walk /\ list = w.list /\ u = w.owner /\ R = InList(list, u) /\ V = Visibles
        /\ R \in Rows /\ Followed(w, R, V) /\ w \in Walks
  BY WalkNow
<1>2. CASE Turn
  <2>1. w.stage = "showing" /\ operations' = operations
    BY <1>1, <1>2 DEF Turn
  <2>2. PICK x : x = IF w.page < w.pages THEN [w EXCEPT !.stage = "asking", !.page = @ + 1]
                     ELSE [w EXCEPT !.stage = "done"]
    OBVIOUS
  <2>3. walk' = x
    BY <1>1, <1>2, <2>2 DEF Turn
  <2>4. Followed(x, R, V)
    BY <1>1, <2>1, <2>2, FollowedTurn
  <2>5. x.list = w.list /\ x.owner = w.owner
    BY <1>1, <2>2 DEF Walks
  <2>. QED BY <1>1, <2>1, <2>3, <2>4, <2>5, WalkStays
<1>3. CASE Reload
  <2>1. w.stage = "showing" /\ w.list = "queue" /\ operations' = operations
    BY <1>1, <1>3 DEF Reload
  <2>2. PICK x : x = [w EXCEPT !.stage = "asking"]
    OBVIOUS
  <2>3. walk' = x
    BY <1>1, <1>3, <2>2 DEF Reload
  <2>4. Followed(x, R, V)
    BY <1>1, <2>1, <2>2, FollowedReload
  <2>5. x.list = w.list /\ x.owner = w.owner
    BY <1>1, <2>2 DEF Walks
  <2>. QED BY <1>1, <2>1, <2>3, <2>4, <2>5, WalkStays
<1>. QED BY <1>2, <1>3

LEMMA WalkNext == WalkInv /\ [Next]_vars => WalkInv'
<1>. SUFFICES ASSUME WalkInv, [Next]_vars PROVE WalkInv'
  OBVIOUS
<1>1. CASE UNCHANGED vars
  BY <1>1 DEF vars, WalkInv, InList, RowsOf, PendingRows, OwnedBy, Pending, Visible, Visibles
<1>2. CASE BeginInsert
  BY <1>2, WalkBeginInsert
<1>3. CASE \E i \in DOMAIN operations : CommitInsert(i) \/ Decide(i)
  BY <1>3, WalkCommitInsert, WalkDecide
<1>4. CASE Start
  BY <1>4, WalkStart
<1>5. CASE Turn \/ Reload
  BY <1>5, WalkTurns
<1>6. CASE handleCustodianQueue \/ handleLenderPending \/ handleInvestorOperations
  BY <1>6, WalkPages
<1>7. CASE CountQueue \/ CountFails
  BY <1>7, WalkTotals
<1>. QED BY <1>1, <1>2, <1>3, <1>4, <1>5, <1>6, <1>7 DEF Next

LEMMA WalkInvariant == Spec => []WalkInv
BY WalkInit, WalkNext, PTL DEF Spec

(***************************************************************************)
(* The theorems.                                                           *)
(***************************************************************************)
(* Operations and walk keep their shape.                                   *)
THEOREM TypeCorrect == Spec => []TypeOK
<1>. SUFFICES ASSUME WalkInv PROVE TypeOK
  BY WalkInvariant, PTL
<1>1. operations \in Seq(Operations) /\ walk \in Walks
      /\ Seen(walk) \subseteq Visibles /\ walk.first \subseteq Visibles
  BY DEF WalkInv, Followed, Once
<1>2. Visibles \subseteq DOMAIN operations
  BY DEF Visibles
<1>3. walk.shown \subseteq Nat \X DOMAIN operations
  <2>1. ASSUME NEW s \in walk.shown PROVE s \in Nat \X DOMAIN operations
    <3>1. s \in Nat \X Nat
      BY <1>1, WalkFields
    <3>2. s[2] \in Seen(walk)
      BY DEF Seen
    <3>. QED BY <1>1, <1>2, <3>1, <3>2
  <2>. QED BY <2>1
<1>4. walk.limit \in 1..MaxLimit /\ walk.page \in Nat /\ walk.pages \in Nat
      /\ walk.stage \in {"none", "asking", "counting", "showing", "done"}
  BY <1>1 DEF Walks, Underway
<1>. QED BY <1>1, <1>2, <1>3, <1>4 DEF TypeOK, Operations

(* A walk through the pending operations that has come to its end misses   *)
(* no more of those that were pending all the time than have left the      *)
(* queue meanwhile.                                                        *)
THEOREM MissesBounded == Spec => []MissesAreBounded
<1>. SUFFICES ASSUME WalkInv PROVE MissesAreBounded
  BY WalkInvariant, PTL
<1>. SUFFICES ASSUME walk.stage = "done", walk.list # "own", walk.pages > 0
              PROVE  Cardinality({i \in walk.first : Pending(i)} \ Shown) <= walk.left
  BY DEF MissesAreBounded
<1>1. operations \in Seq(Operations) /\ Paid(walk, PendingRows) /\ walk.first \subseteq Visibles
  BY DEF WalkInv, Followed, InList, Once
<1>2. {i \in walk.first : Pending(i)} = walk.first \cap PendingRows
  BY <1>1 DEF PendingRows, Visibles
<1>3. AtEnd(walk) /\ Shown = Seen(walk)
  BY DEF AtEnd, Shown, Seen
<1>. QED BY <1>1, <1>2, <1>3 DEF Paid, Due

(* An investor's walk that has come to its end has shown everything that   *)
(* was there when it started.                                              *)
THEOREM OwnListComplete == Spec => []OwnListIsComplete
<1>1. WalkInv => OwnListIsComplete
  BY DEF WalkInv, Followed, Kept, OwnListIsComplete, Shown, Seen
<1>. QED BY <1>1, WalkInvariant, PTL

(* What shows up on two pages takes a row that came in before it.          *)
THEOREM RepeatsNeedLate == Spec => []RepeatsNeedLateInserts
<1>. SUFFICES ASSUME WalkInv PROVE RepeatsNeedLateInserts
  BY WalkInvariant, PTL
<1>. SUFFICES ASSUME ~walk.late, NEW i \in Repeated PROVE FALSE
  BY DEF RepeatsNeedLateInserts
<1>1. walk \in Walks /\ ShownOnce(walk)
  BY DEF WalkInv, Followed, Once
<1>2. walk.shown \subseteq Nat \X Nat
  BY <1>1, WalkFields
<1>. DEFINE S == {s \in walk.shown : s[2] = i}
<1>3. i \in Shown /\ Cardinality(S) > 1
  BY DEF Repeated
<1>4. PICK t \in S : TRUE
  BY <1>3 DEF Shown
<1>5. S = {t}
  <2>1. ASSUME NEW s \in S PROVE s = t
    <3>1. s[1] = t[1] /\ s[2] = t[2]
      BY <1>1, <1>4 DEF ShownOnce
    <3>2. s \in Nat \X Nat /\ t \in Nat \X Nat
      BY <1>2, <1>4
    <3>. QED BY <3>1, <3>2
  <2>. QED BY <1>4, <2>1
<1>6. Cardinality(S) = 1
  BY <1>5, FS_Singleton
<1>. HIDE DEF S
<1>. QED BY <1>3, <1>6
=============================================================================
