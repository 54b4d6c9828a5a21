---------------------------- MODULE TotalsProofs ----------------------------
(***************************************************************************)
(* Totals over finite sets do not depend on the order the elements are     *)
(* taken in.  The library's fold is a recursive function over the subsets  *)
(* of the set; each fact below that needs induction over them takes the    *)
(* smallest subset that would refute it (WFMin), so that no theorem with   *)
(* an operator for a parameter is needed.                                  *)
(***************************************************************************)
EXTENDS Totals, FiniteSetTheorems, TLAPS

Pick(s) == CHOOSE x \in s : TRUE

(* it is the function that the fold over S defines. *)
IsFold(it, f, S) ==
  it = [s \in SUBSET S |-> IF s = {} THEN 0 ELSE f[Pick(s)] + it[s \ {Pick(s)}]]

LEMMA PickIn == ASSUME NEW s, s # {} PROVE Pick(s) \in s
  BY DEF Pick

LEMMA TotalDef ==
  ASSUME NEW f, NEW S
  PROVE  Total(f, S) = (CHOOSE it : IsFold(it, f, S))[S]
  BY DEF Total, MapThenSumSet, MapThenFoldSet, IsFold, Pick

LEMMA SmallestSubset ==
  ASSUME NEW S, IsFiniteSet(S), NEW T, T \subseteq SUBSET S, T # {}
  PROVE  \E m \in T : \A u \in T : u \subseteq m => u = m
<1>1. T \subseteq FiniteSubsetsOf(S)
  BY FS_Subset DEF FiniteSubsetsOf
<1>2. IsWellFoundedOn(StrictSubsetOrdering(S), FiniteSubsetsOf(S))
  BY FS_StrictSubsetOrderingWellFounded
<1>3. PICK m \in T : \A u \in T : ~(<<u, m>> \in StrictSubsetOrdering(S))
  BY <1>1, <1>2, WFMin
<1> QED
  BY <1>3 DEF StrictSubsetOrdering

LEMMA FoldsAgree ==
  ASSUME NEW S, IsFiniteSet(S), NEW f, NEW R, NEW T, S \subseteq R, S \subseteq T,
         NEW a, IsFold(a, f, R), NEW b, IsFold(b, f, T)
  PROVE  a[S] = b[S]
<1> DEFINE Bad == {s \in SUBSET S : a[s] # b[s]}
<1> SUFFICES ASSUME Bad # {} PROVE FALSE
  OBVIOUS
<1>1. PICK m \in Bad : \A u \in Bad : u \subseteq m => u = m
  <2>1. Bad \subseteq SUBSET S
    OBVIOUS
  <2> HIDE DEF Bad
  <2> QED
    BY <2>1, SmallestSubset
<1>2. /\ m \in SUBSET R /\ m \in SUBSET T /\ m \in SUBSET S
      /\ a[m] = IF m = {} THEN 0 ELSE f[Pick(m)] + a[m \ {Pick(m)}]
      /\ b[m] = IF m = {} THEN 0 ELSE f[Pick(m)] + b[m \ {Pick(m)}]
  BY DEF IsFold
<1>3. CASE m = {}
  BY <1>2, <1>3
<1>4. CASE m # {}
  <2>1. Pick(m) \in m
    BY <1>4, PickIn
  <2>2. m \ {Pick(m)} \notin Bad
    BY <1>1, <2>1
  <2>3. a[m \ {Pick(m)}] = b[m \ {Pick(m)}]
    BY <1>2, <2>2
  <2> QED
    BY <1>1, <1>2, <1>4, <2>3
<1> QED
  BY <1>3, <1>4

(* The fold of a subset is the restriction of the fold. *)
LEMMA FoldsExist ==
  ASSUME NEW S, IsFiniteSet(S), NEW f
  PROVE  \E it : IsFold(it, f, S)
<1> DEFINE Bad == {s \in SUBSET S : ~\E it : IsFold(it, f, s)}
<1> SUFFICES ASSUME Bad # {} PROVE FALSE
  OBVIOUS
<1>1. PICK m \in Bad : \A u \in Bad : u \subseteq m => u = m
  <2>1. Bad \subseteq SUBSET S
    OBVIOUS
  <2> HIDE DEF Bad
  <2> QED
    BY <2>1, SmallestSubset
<1> DEFINE it(s) == CHOOSE g : IsFold(g, f, s)
           g == [s \in SUBSET m |-> IF s = {} THEN 0
                                    ELSE f[Pick(s)] + it(s \ {Pick(s)})[s \ {Pick(s)}]]
<1>2. ASSUME NEW u \in SUBSET m, u # m PROVE IsFold(it(u), f, u)
  <2>1. u \notin Bad /\ u \in SUBSET S
    BY <1>1, <1>2
  <2>2. \E h : IsFold(h, f, u)
    BY <2>1
  <2> QED
    BY <2>2
<1>3. ASSUME NEW u \in SUBSET m, u # m PROVE g[u] = it(u)[u]
  <2>1. IsFold(it(u), f, u)
    BY <1>2, <1>3
  <2>2. it(u)[u] = IF u = {} THEN 0 ELSE f[Pick(u)] + it(u)[u \ {Pick(u)}]
    <3> HIDE DEF it
    <3> QED
      BY <2>1 DEF IsFold
  <2>3. ASSUME u # {} PROVE it(u)[u \ {Pick(u)}] = it(u \ {Pick(u)})[u \ {Pick(u)}]
    <3> DEFINE v == u \ {Pick(u)}
    <3>1. v \subseteq u /\ v \in SUBSET m /\ v # m
      BY <1>3, <2>3, PickIn
    <3>2. IsFold(it(v), f, v)
      BY <1>2, <3>1
    <3>3. IsFiniteSet(v)
      BY <3>1, FS_Subset
    <3> HIDE DEF v, it
    <3>4. it(u)[v] = it(v)[v]
      BY <2>1, <3>1, <3>2, <3>3, FoldsAgree
    <3> QED
      BY <3>4 DEF v
  <2> HIDE DEF it
  <2> QED
    BY <2>2, <2>3
<1>4. g = [s \in SUBSET m |-> IF s = {} THEN 0 ELSE f[Pick(s)] + g[s \ {Pick(s)}]]
  <2>1. \A s \in SUBSET m : s # {} => /\ s \ {Pick(s)} \in SUBSET m
                                      /\ s \ {Pick(s)} # m
    BY PickIn
  <2>2. \A s \in SUBSET m : s # {} => g[s \ {Pick(s)}] = it(s \ {Pick(s)})[s \ {Pick(s)}]
    BY <1>3, <2>1
  <2> HIDE DEF it
  <2>3. \A s \in SUBSET m : g[s] = IF s = {} THEN 0 ELSE f[Pick(s)] + g[s \ {Pick(s)}]
    BY <2>2
  <2>4. g = [s \in SUBSET m |-> g[s]]
    OBVIOUS
  <2> HIDE DEF g
  <2> QED
    BY <2>3, <2>4
<1>5. IsFold(g, f, m)
  <2> HIDE DEF g
  <2> QED
    BY <1>4 DEF IsFold
<1> QED
  BY <1>1, <1>5

(* The fold takes one element, and goes on with the others. *)
LEMMA TotalStep ==
  ASSUME NEW S, IsFiniteSet(S), NEW f
  PROVE  Total(f, S) = IF S = {} THEN 0 ELSE f[Pick(S)] + Total(f, S \ {Pick(S)})
<1> DEFINE it(s) == CHOOSE g : IsFold(g, f, s)
           v == S \ {Pick(S)}
<1>1. IsFold(it(S), f, S)
  BY FoldsExist
<1>2. IsFiniteSet(v) /\ v \subseteq S
  BY FS_Subset
<1>3. IsFold(it(v), f, v)
  <2>1. \E g : IsFold(g, f, v)
    BY <1>2, FoldsExist
  <2> QED
    BY <2>1
<1>4. Total(f, S) = it(S)[S] /\ Total(f, v) = it(v)[v]
  BY TotalDef
<1> HIDE DEF it
<1>5. it(S)[S] = IF S = {} THEN 0 ELSE f[Pick(S)] + it(S)[v]
  BY <1>1 DEF IsFold
<1>6. it(S)[v] = it(v)[v]
  <2> HIDE DEF v
  <2> QED
    BY <1>1, <1>2, <1>3, FoldsAgree
<1> QED
  BY <1>4, <1>5, <1>6

(* The facts about totals. *)

LEMMA TotalEmpty == ASSUME NEW f PROVE Total(f, {}) = 0
  BY TotalStep, FS_EmptySet

LEMMA TotalInt ==
  ASSUME NEW S, IsFiniteSet(S), NEW f, \A x \in S : f[x] \in Int
  PROVE  Total(f, S) \in Int
<1> DEFINE Bad == {s \in SUBSET S : Total(f, s) \notin Int}
<1> SUFFICES ASSUME Bad # {} PROVE FALSE
  OBVIOUS
<1>1. PICK m \in Bad : \A u \in Bad : u \subseteq m => u = m
  <2>1. Bad \subseteq SUBSET S
    OBVIOUS
  <2> HIDE DEF Bad
  <2> QED
    BY <2>1, SmallestSubset
<1>2. IsFiniteSet(m)
  BY FS_Subset
<1>3. Total(f, m) = IF m = {} THEN 0 ELSE f[Pick(m)] + Total(f, m \ {Pick(m)})
  BY <1>2, TotalStep
<1>4. m # {} => Pick(m) \in m /\ m \ {Pick(m)} \notin Bad
  BY <1>1, PickIn
<1>5. m # {} => f[Pick(m)] \in Int /\ Total(f, m \ {Pick(m)}) \in Int
  BY <1>4
<1> QED
  BY <1>1, <1>3, <1>5

(* Any element may be taken first. *)
LEMMA TotalRemove ==
  ASSUME NEW S, IsFiniteSet(S), NEW f, \A x \in S : f[x] \in Int, NEW e \in S
  PROVE  Total(f, S) = f[e] + Total(f, S \ {e})
<1> DEFINE Bad == {s \in SUBSET S : \E x \in s : Total(f, s) # f[x] + Total(f, s \ {x})}
<1> SUFFICES ASSUME Bad # {} PROVE FALSE
  OBVIOUS
<1>1. PICK m \in Bad : \A u \in Bad : u \subseteq m => u = m
  <2>1. Bad \subseteq SUBSET S
    OBVIOUS
  <2> HIDE DEF Bad
  <2> QED
    BY <2>1, SmallestSubset
<1>2. PICK x \in m : Total(f, m) # f[x] + Total(f, m \ {x})
  BY <1>1
<1> DEFINE p == Pick(m)
<1>3. p \in m /\ m \in SUBSET S /\ IsFiniteSet(m)
  BY <1>2, PickIn, FS_Subset
<1> HIDE DEF p
<1>4. Total(f, m) = f[p] + Total(f, m \ {p})
  BY <1>2, <1>3, TotalStep DEF p
<1>5. p # x
  BY <1>2, <1>4
<1>6. Total(f, m \ {p}) = f[x] + Total(f, (m \ {p}) \ {x})
  <2>1. m \ {p} \notin Bad
    BY <1>1, <1>3
  <2> QED
    BY <1>2, <1>3, <1>5, <2>1
<1>7. Total(f, m \ {x}) = f[p] + Total(f, (m \ {x}) \ {p})
  <2>1. m \ {x} \notin Bad
    BY <1>1, <1>2
  <2> QED
    BY <1>2, <1>3, <1>5, <2>1
<1>8. (m \ {p}) \ {x} = (m \ {x}) \ {p}
  OBVIOUS
<1>9. Total(f, (m \ {p}) \ {x}) \in Int
  <2>1. IsFiniteSet((m \ {p}) \ {x}) /\ (m \ {p}) \ {x} \subseteq S
    BY <1>3, FS_Subset
  <2> HIDE DEF Bad
  <2> QED
    BY <2>1, TotalInt
<1>10. f[p] \in Int /\ f[x] \in Int
  BY <1>3, <1>2
<1> DEFINE rest == Total(f, (m \ {p}) \ {x})
<1>11. /\ Total(f, m) = f[p] + (f[x] + rest)
       /\ Total(f, m \ {x}) = f[p] + rest
       /\ rest \in Int
  BY <1>4, <1>6, <1>7, <1>8, <1>9
<1> HIDE DEF Bad, rest
<1> QED
  BY <1>2, <1>10, <1>11

LEMMA TotalAdd ==
  ASSUME NEW S, IsFiniteSet(S), NEW f, NEW e, e \notin S, \A x \in S \cup {e} : f[x] \in Int
  PROVE  Total(f, S \cup {e}) = Total(f, S) + f[e]
<1>1. IsFiniteSet(S \cup {e})
  BY FS_AddElement
<1>2. Total(f, S \cup {e}) = f[e] + Total(f, (S \cup {e}) \ {e})
  BY <1>1, TotalRemove
<1>3. (S \cup {e}) \ {e} = S
  OBVIOUS
<1>4. Total(f, S \cup {e}) = f[e] + Total(f, S)
  BY <1>2, <1>3, Zenon
<1>5. Total(f, S) \in Int /\ f[e] \in Int
  BY TotalInt
<1> QED
  BY <1>4, <1>5

(* Only the values on the set count. *)
LEMMA TotalAgrees ==
  ASSUME NEW S, IsFiniteSet(S), NEW f, NEW g, \A x \in S : f[x] = g[x]
  PROVE  Total(f, S) = Total(g, S)
<1> DEFINE Bad == {s \in SUBSET S : Total(f, s) # Total(g, s)}
<1> SUFFICES ASSUME Bad # {} PROVE FALSE
  OBVIOUS
<1>1. PICK m \in Bad : \A u \in Bad : u \subseteq m => u = m
  <2>1. Bad \subseteq SUBSET S
    OBVIOUS
  <2> HIDE DEF Bad
  <2> QED
    BY <2>1, SmallestSubset
<1>2. IsFiniteSet(m)
  BY FS_Subset
<1>3. /\ Total(f, m) = IF m = {} THEN 0 ELSE f[Pick(m)] + Total(f, m \ {Pick(m)})
      /\ Total(g, m) = IF m = {} THEN 0 ELSE g[Pick(m)] + Total(g, m \ {Pick(m)})
  BY <1>2, TotalStep
<1>4. m # {} => Pick(m) \in m /\ m \ {Pick(m)} \notin Bad
  BY <1>1, PickIn
<1>5. m # {} => f[Pick(m)] = g[Pick(m)] /\ Total(f, m \ {Pick(m)}) = Total(g, m \ {Pick(m)})
  BY <1>4
<1> QED
  BY <1>1, <1>3, <1>5

(* What is zero on the set adds up to zero. *)
LEMMA TotalZero ==
  ASSUME NEW S, IsFiniteSet(S), NEW f, \A x \in S : f[x] = 0
  PROVE  Total(f, S) = 0
<1> DEFINE Bad == {s \in SUBSET S : Total(f, s) # 0}
<1> SUFFICES ASSUME Bad # {} PROVE FALSE
  OBVIOUS
<1>1. PICK m \in Bad : \A u \in Bad : u \subseteq m => u = m
  <2>1. Bad \subseteq SUBSET S
    OBVIOUS
  <2> HIDE DEF Bad
  <2> QED
    BY <2>1, SmallestSubset
<1>2. IsFiniteSet(m)
  BY FS_Subset
<1>3. Total(f, m) = IF m = {} THEN 0 ELSE f[Pick(m)] + Total(f, m \ {Pick(m)})
  BY <1>2, TotalStep
<1>4. m # {} => Pick(m) \in m /\ m \ {Pick(m)} \notin Bad
  BY <1>1, PickIn
<1>5. m # {} => f[Pick(m)] = 0 /\ Total(f, m \ {Pick(m)}) = 0
  BY <1>4
<1> QED
  BY <1>1, <1>3, <1>5

(* At most two elements count. *)
LEMMA TotalPair ==
  ASSUME NEW S, IsFiniteSet(S), NEW f, NEW a \in S, NEW b \in S, a # b, f[a] \in Int, f[b] \in Int,
         \A x \in S : x # a /\ x # b => f[x] = 0
  PROVE  Total(f, S) = f[a] + f[b]
<1>1. \A x \in S : f[x] \in Int
  OBVIOUS
<1>2. Total(f, S) = f[a] + Total(f, S \ {a})
  BY <1>1, TotalRemove
<1>3. IsFiniteSet(S \ {a}) /\ IsFiniteSet((S \ {a}) \ {b})
  BY FS_Subset
<1>4. Total(f, S \ {a}) = f[b] + Total(f, (S \ {a}) \ {b})
  BY <1>1, <1>3, TotalRemove
<1>5. Total(f, (S \ {a}) \ {b}) = 0
  BY <1>3, TotalZero
<1> QED
  BY <1>2, <1>4, <1>5
=============================================================================
