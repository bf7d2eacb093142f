----------------------------- MODULE SumLemmas ------------------------------
(***************************************************************************)
(* What the proofs need of SumFunction, the TLA+ form of the SUM(...) the  *)
(* queries of the posting engine take over stock_ledger and stock_balance. *)
(*                                                                         *)
(* SumFunction is a recursive function on the subsets of its domain.  The  *)
(* induction theorems of the library cannot be instantiated by the provers *)
(* at hand, so the induction is written as a minimal counterexample.       *)
(***************************************************************************)
EXTENDS Integers, Functions, FiniteSetTheorems, TLAPS

\* The element SumFunction takes out of a set.
Pick(s) == CHOOSE x \in s : TRUE

\* One unfolding of the sum of f over the subsets of D.
Unfold(g, f, D) ==
  [s \in SUBSET D |-> IF s = {} THEN 0 ELSE f[Pick(s)] + g[s \ {Pick(s)}]]

\* g is the sum of f over every subset of D.
IsSum(g, f, D) == g = Unfold(g, f, D)

\* SumFunction is the choice of such a g, at the whole domain.
LEMMA SumIsChoice ==
  ASSUME NEW f, NEW D, DOMAIN f = D
  PROVE  SumFunction(f) = (CHOOSE g : IsSum(g, f, D))[D]
  BY DEF SumFunction, SumFunctionOnSet, FoldFunctionOnSet, MapThenFoldSet, IsSum, Unfold, Pick

\* Every property of the subsets of a finite set that fails, fails at a set
\* all of whose strict subsets have it.
LEMMA MinimalSubset ==
  ASSUME NEW D, IsFiniteSet(D), NEW T, T \subseteq SUBSET D, T # {}
  PROVE  \E s \in T : \A t \in T : t \subseteq s => t = s
<1>1. IsWellFoundedOn(StrictSubsetOrdering(D), SUBSET D)
  BY FS_StrictSubsetOrderingWellFounded, FS_FiniteSubsetsOfFinite
<1>2. \E s \in T : \A t \in T : ~(<<t, s>> \in StrictSubsetOrdering(D))
  BY <1>1, WFMin
<1>3. QED BY <1>2 DEF StrictSubsetOrdering

\* The sum of zeros is zero: no ledger row, no stock.
LEMMA ZeroSum ==
  ASSUME NEW D, IsFiniteSet(D)
  PROVE  SumFunction([d \in D |-> 0]) = 0
<1> DEFINE f == [d \in D |-> 0]
           h == [s \in SUBSET D |-> 0]
           g == CHOOSE g : IsSum(g, f, D)
<1>0. \A s \in SUBSET D : s # {} => Pick(s) \in s /\ Pick(s) \in D
  BY DEF Pick
<1>1. IsSum(h, f, D)
  BY <1>0 DEF IsSum, Unfold
<1>2. IsSum(g, f, D)
  BY <1>1
<1>3. SumFunction(f) = g[D]
  BY SumIsChoice
<1> HIDE DEF g
<1>4. \A s \in SUBSET D : g[s] = 0
  <2> SUFFICES ASSUME {s \in SUBSET D : g[s] # 0} # {} PROVE FALSE
    OBVIOUS
  <2>1. PICK s \in SUBSET D : g[s] # 0 /\ \A t \in SUBSET D : g[t] # 0 /\ t \subseteq s => t = s
    <3> DEFINE T == {s \in SUBSET D : g[s] # 0}
    <3>1. T \subseteq SUBSET D /\ T # {}
      OBVIOUS
    <3> HIDE DEF T
    <3>2. \E s \in T : \A t \in T : t \subseteq s => t = s
      BY <3>1, MinimalSubset
    <3>3. QED BY <3>2 DEF T
  <2>2. s # {}
    BY <2>1, <1>2 DEF IsSum, Unfold
  <2>3. g[s] = f[Pick(s)] + g[s \ {Pick(s)}]
    BY <1>2, <2>2 DEF IsSum, Unfold
  <2>4. g[s \ {Pick(s)}] = 0
    BY <1>0, <2>1, <2>2
  <2>5. QED BY <1>0, <2>1, <2>2, <2>3, <2>4
<1>5. QED BY <1>3, <1>4

\* Every non-empty set of naturals has a least element.
LEMMA LeastNat ==
  ASSUME NEW T, T \subseteq Nat, T # {}
  PROVE  \E n \in T : \A m \in T : n <= m
<1> DEFINE Less == {ss \in Nat \X Nat : ss[1] < ss[2]}
<1>1. IsWellFoundedOn(Less, Nat)
  <2>1. OpToRel(<, Nat) = Less
    BY Zenon DEF OpToRel
  <2>2. QED BY NatLessThanWellFounded, <2>1, Zenon
<1>2. \E n \in T : \A m \in T : ~(<<m, n>> \in Less)
  <2> HIDE DEF Less
  <2>1. QED BY <1>1, WFMin
<1>3. \A m, n \in Nat : <<m, n>> \in Less <=> m < n
  OBVIOUS
<1> HIDE DEF Less
<1>4. \A n \in T : n \in Nat
  OBVIOUS
<1>5. \E n \in T : \A m \in T : ~(m < n)
  BY <1>2, <1>3, <1>4, Zenon
<1>6. QED BY <1>4, <1>5

\* The defining equation of the sum has an integer solution: unfolding as
\* often as D has elements reaches every subset.
LEMMA SumExists ==
  ASSUME NEW D, IsFiniteSet(D), NEW f \in [D -> Int]
  PROVE  \E g \in [SUBSET D -> Int] : IsSum(g, f, D)
<1> DEFINE Upto(g, n) == \A s \in SUBSET D : Cardinality(s) < n => g[s] = Unfold(g, f, D)[s]
           Good(n) == \E g \in [SUBSET D -> Int] : Upto(g, n)
<1>0. \A s \in SUBSET D : s # {} =>
        /\ Pick(s) \in D /\ s \ {Pick(s)} \in SUBSET D
        /\ Cardinality(s) \in Nat /\ Cardinality(s \ {Pick(s)}) < Cardinality(s)
  <2> SUFFICES ASSUME NEW s \in SUBSET D, s # {}
               PROVE  /\ Pick(s) \in D /\ s \ {Pick(s)} \in SUBSET D
                      /\ Cardinality(s) \in Nat /\ Cardinality(s \ {Pick(s)}) < Cardinality(s)
    OBVIOUS
  <2>1. Pick(s) \in s
    BY DEF Pick
  <2>2. IsFiniteSet(s) /\ Cardinality(s) \in Nat
    BY FS_Subset, FS_CardinalityType
  <2>3. Cardinality(s \ {Pick(s)}) = Cardinality(s) - 1
    BY <2>1, <2>2, FS_RemoveElement
  <2>4. QED BY <2>1, <2>2, <2>3
<1>1. ASSUME NEW g \in [SUBSET D -> Int] PROVE Unfold(g, f, D) \in [SUBSET D -> Int]
  <2>1. \A s \in SUBSET D : (IF s = {} THEN 0 ELSE f[Pick(s)] + g[s \ {Pick(s)}]) \in Int
    BY <1>0
  <2>2. QED BY <2>1 DEF Unfold
<1>2. Good(0)
  <2>1. [s \in SUBSET D |-> 0] \in [SUBSET D -> Int]
    OBVIOUS
  <2>2. \A s \in SUBSET D : ~(Cardinality(s) < 0)
    BY FS_Subset, FS_CardinalityType
  <2>3. QED BY <2>1, <2>2
<1>3. ASSUME NEW n \in Nat, Good(n) PROVE Good(n + 1)
  <2>1. PICK g \in [SUBSET D -> Int] : Upto(g, n)
    BY <1>3
  <2> DEFINE h == Unfold(g, f, D)
  <2>2. h \in [SUBSET D -> Int]
    BY <1>1
  <2>3. ASSUME NEW s \in SUBSET D, Cardinality(s) < n + 1 PROVE h[s] = Unfold(h, f, D)[s]
    <3>1. CASE s = {}
      BY <3>1 DEF Unfold
    <3>2. CASE s # {}
      <4> DEFINE t == s \ {Pick(s)}
      <4>1. t \in SUBSET D /\ Cardinality(t) < n
        <5>1. Cardinality(t) \in Nat
          BY FS_Subset, FS_CardinalityType
        <5>2. QED BY <1>0, <2>3, <3>2, <5>1
      <4>2. g[t] = h[t]
        BY <2>1, <4>1
      <4>3. h[s] = f[Pick(s)] + g[t] /\ Unfold(h, f, D)[s] = f[Pick(s)] + h[t]
        <5> HIDE DEF h
        <5>1. Unfold(h, f, D)[s] = f[Pick(s)] + h[t]
          BY <3>2 DEF Unfold
        <5>2. h[s] = f[Pick(s)] + g[t]
          BY <3>2 DEF Unfold, h
        <5>3. QED BY <5>1, <5>2
      <4>4. QED BY <4>2, <4>3
    <3>3. QED BY <3>1, <3>2
  <2>4. QED BY <2>2, <2>3
<1> HIDE DEF Good
<1>4. \A n \in Nat : Good(n)
  <2> SUFFICES ASSUME {n \in Nat : ~Good(n)} # {} PROVE FALSE
    OBVIOUS
  <2>1. PICK n \in Nat : ~Good(n) /\ \A m \in Nat : ~Good(m) => n <= m
    <3> DEFINE T == {n \in Nat : ~Good(n)}
    <3>1. T \subseteq Nat /\ T # {}
      OBVIOUS
    <3> HIDE DEF T
    <3>2. \E n \in T : \A m \in T : n <= m
      BY <3>1, LeastNat
    <3>3. QED BY <3>2 DEF T
  <2>2. n # 0
    BY <1>2, <2>1
  <2>3. Good(n - 1) /\ n - 1 \in Nat
    BY <2>1, <2>2
  <2>4. Good((n - 1) + 1)
    BY <1>3, <2>3
  <2>5. QED BY <2>1, <2>4
<1>5. PICK g \in [SUBSET D -> Int] : Upto(g, Cardinality(D) + 1)
  <2>1. Cardinality(D) + 1 \in Nat
    BY FS_CardinalityType
  <2>2. Good(Cardinality(D) + 1)
    BY <1>4, <2>1
  <2>3. QED BY <2>2 DEF Good
<1>6. \A s \in SUBSET D : Cardinality(s) < Cardinality(D) + 1
  <2>1. \A s \in SUBSET D : Cardinality(s) \in Nat /\ Cardinality(s) <= Cardinality(D)
    BY FS_Subset, FS_CardinalityType
  <2>2. QED BY <2>1, FS_CardinalityType
<1>7. g = Unfold(g, f, D)
  <2>1. Unfold(g, f, D) \in [SUBSET D -> Int]
    BY <1>1
  <2>2. \A s \in SUBSET D : g[s] = Unfold(g, f, D)[s]
    BY <1>5, <1>6
  <2>3. QED BY <2>1, <2>2
<1>8. QED BY <1>7 DEF IsSum

\* The chosen sum is an integer function that satisfies its equation.
LEMMA SumIs ==
  ASSUME NEW D, IsFiniteSet(D), NEW f \in [D -> Int]
  PROVE  \E g \in [SUBSET D -> Int] : IsSum(g, f, D) /\ SumFunction(f) = g[D]
<1> DEFINE g == CHOOSE g : IsSum(g, f, D)
<1>1. IsSum(g, f, D) /\ SumFunction(f) = g[D]
  BY SumExists, SumIsChoice
<1> HIDE DEF g
<1>2. DOMAIN g = SUBSET D /\ g = [s \in SUBSET D |-> g[s]]
  BY <1>1 DEF IsSum, Unfold
<1>3. PICK h \in [SUBSET D -> Int] : IsSum(h, f, D)
  BY SumExists
<1>4. \A s \in SUBSET D : g[s] = h[s]
  <2> SUFFICES ASSUME {s \in SUBSET D : g[s] # h[s]} # {} PROVE FALSE
    OBVIOUS
  <2>1. PICK s \in SUBSET D : g[s] # h[s] /\ \A t \in SUBSET D : g[t] # h[t] /\ t \subseteq s => t = s
    <3> DEFINE T == {s \in SUBSET D : g[s] # h[s]}
    <3>1. T \subseteq SUBSET D /\ T # {}
      OBVIOUS
    <3> HIDE DEF T
    <3>2. \E s \in T : \A t \in T : t \subseteq s => t = s
      BY <3>1, MinimalSubset
    <3>3. QED BY <3>2 DEF T
  <2>2. s # {}
    BY <2>1, <1>1, <1>3 DEF IsSum, Unfold
  <2>3. g[s] = f[Pick(s)] + g[s \ {Pick(s)}] /\ h[s] = f[Pick(s)] + h[s \ {Pick(s)}]
    BY <1>1, <1>3, <2>2 DEF IsSum, Unfold
  <2>4. g[s \ {Pick(s)}] = h[s \ {Pick(s)}]
    BY <2>1, <2>2 DEF Pick
  <2>5. QED BY <2>1, <2>3, <2>4
<1>5. g \in [SUBSET D -> Int]
  BY <1>2, <1>3, <1>4
<1>6. QED BY <1>1, <1>5

\* A sum of integers is an integer.
LEMMA SumType ==
  ASSUME NEW D, IsFiniteSet(D), NEW f \in [D -> Int]
  PROVE  SumFunction(f) \in Int
<1>1. PICK g \in [SUBSET D -> Int] : SumFunction(f) = g[D]
  BY SumIs
<1>2. QED BY <1>1

\* Replacing one summand moves the sum by the difference.
LEMMA SumUpdate ==
  ASSUME NEW D, IsFiniteSet(D), NEW f \in [D -> Int], NEW d \in D, NEW v \in Int
  PROVE  SumFunction([f EXCEPT ![d] = v]) = SumFunction(f) - f[d] + v
<1> DEFINE e == [f EXCEPT ![d] = v]
<1>0. e \in [D -> Int] /\ e[d] = v /\ \A x \in D : x # d => e[x] = f[x]
  OBVIOUS
<1> HIDE DEF e
<1>1. PICK g \in [SUBSET D -> Int] : IsSum(g, f, D) /\ SumFunction(f) = g[D]
  BY SumIs
<1>2. PICK h \in [SUBSET D -> Int] : IsSum(h, e, D) /\ SumFunction(e) = h[D]
  BY <1>0, SumIs
<1> DEFINE Moved(s) == h[s] = g[s] + (IF d \in s THEN v - f[d] ELSE 0)
<1>3. \A s \in SUBSET D : Moved(s)
  <2> SUFFICES ASSUME {s \in SUBSET D : ~Moved(s)} # {} PROVE FALSE
    OBVIOUS
  <2>1. PICK s \in SUBSET D : ~Moved(s) /\ \A t \in SUBSET D : ~Moved(t) /\ t \subseteq s => t = s
    <3> DEFINE T == {s \in SUBSET D : ~Moved(s)}
    <3>1. T \subseteq SUBSET D /\ T # {}
      OBVIOUS
    <3> HIDE DEF T
    <3>2. \E s \in T : \A t \in T : t \subseteq s => t = s
      BY <3>1, MinimalSubset
    <3>3. QED BY <3>2 DEF T
  <2>2. s # {}
    BY <2>1, <1>1, <1>2 DEF IsSum, Unfold
  <2> DEFINE t == s \ {Pick(s)}
  <2>3. Pick(s) \in s /\ Pick(s) \in D
    BY <2>2 DEF Pick
  <2>4. g[s] = f[Pick(s)] + g[t] /\ h[s] = e[Pick(s)] + h[t]
    BY <1>1, <1>2, <2>2 DEF IsSum, Unfold
  <2>5. t \in SUBSET D /\ Moved(t)
    BY <2>1, <2>3
  <2>6. g[t] \in Int /\ h[t] \in Int /\ f[d] \in Int /\ f[Pick(s)] \in Int
    BY <2>3, <2>5
  <2>7. CASE Pick(s) = d
    BY <1>0, <2>1, <2>3, <2>4, <2>5, <2>6, <2>7
  <2>8. CASE Pick(s) # d
    <3>1. d \in t <=> d \in s
      BY <2>8
    <3>2. e[Pick(s)] = f[Pick(s)]
      BY <1>0, <2>3, <2>8
    <3> HIDE DEF t
    <3>3. QED BY <2>1, <2>4, <2>5, <2>6, <3>1, <3>2
  <2>9. QED BY <2>7, <2>8
<1>4. h[D] = g[D] + (v - f[d])
  BY <1>3
<1>5. g[D] \in Int /\ f[d] \in Int
  OBVIOUS
<1>6. QED BY <1>1, <1>2, <1>4, <1>5 DEF e

\* Any element may be taken out of the sum first.
TakesAny(g, f, D) == \A s \in SUBSET D : \A y \in s : g[s] = f[y] + g[s \ {y}]

\* The sum does not depend on the choice.
LEMMA SumRemove ==
  ASSUME NEW D, IsFiniteSet(D), NEW f, f \in [D -> Int], NEW g, g \in [SUBSET D -> Int], IsSum(g, f, D)
  PROVE  TakesAny(g, f, D)
<1> DEFINE Free(s) == \A y \in s : g[s] = f[y] + g[s \ {y}]
<1> SUFFICES ASSUME {s \in SUBSET D : ~Free(s)} # {} PROVE FALSE
  BY DEF TakesAny
<1>1. PICK s \in SUBSET D : ~Free(s) /\ \A t \in SUBSET D : ~Free(t) /\ t \subseteq s => t = s
  <2> DEFINE T == {s \in SUBSET D : ~Free(s)}
  <2>1. T \subseteq SUBSET D /\ T # {}
    OBVIOUS
  <2> HIDE DEF T
  <2>2. \E s \in T : \A t \in T : t \subseteq s => t = s
    BY <2>1, MinimalSubset
  <2>3. QED BY <2>2 DEF T
<1>2. PICK y \in s : g[s] # f[y] + g[s \ {y}]
  BY <1>1
<1> DEFINE p == Pick(s)
<1>3. p \in s /\ p \in D /\ y \in D
  BY <1>2 DEF Pick
<1>4. g[s] = f[p] + g[s \ {p}]
  BY <1>2 DEF IsSum, Unfold
<1>5. p # y
  BY <1>2, <1>4
<1> HIDE DEF p
<1>6. Free(s \ {p}) /\ Free(s \ {y})
  <2>1. ASSUME NEW z \in s PROVE Free(s \ {z})
    <3>1. s \ {z} \in SUBSET D /\ s \ {z} \subseteq s /\ s \ {z} # s
      OBVIOUS
    <3> HIDE DEF Free
    <3>2. QED BY <1>1, <3>1
  <2> HIDE DEF Free
  <2>2. QED BY <1>2, <1>3, <2>1
<1>7. g[s \ {p}] = f[y] + g[(s \ {p}) \ {y}]
  BY <1>2, <1>5, <1>6
<1>8. g[s \ {y}] = f[p] + g[(s \ {y}) \ {p}]
  BY <1>3, <1>5, <1>6
<1>9. (s \ {p}) \ {y} = (s \ {y}) \ {p}
  OBVIOUS
<1>10. f[y] \in Int /\ f[p] \in Int /\ g[(s \ {y}) \ {p}] \in Int
  <2>1. (s \ {y}) \ {p} \in SUBSET D
    OBVIOUS
  <2>2. QED BY <1>3, <2>1
<1>11. g[s] = f[p] + (f[y] + g[(s \ {y}) \ {p}])
  BY <1>4, <1>7, <1>9
<1>12. g[s] # f[y] + (f[p] + g[(s \ {y}) \ {p}])
  BY <1>2, <1>8
<1> DEFINE a == f[p]
           b == f[y]
           k == g[(s \ {y}) \ {p}]
<1>13. a \in Int /\ b \in Int /\ k \in Int /\ g[s] = a + (b + k) /\ g[s] # b + (a + k)
  BY <1>10, <1>11, <1>12
<1> HIDE DEF a, b, k
<1>14. QED BY <1>13

\* A summand more adds its value: a movement more in the ledger.
LEMMA SumExtend ==
  ASSUME NEW D, IsFiniteSet(D), NEW x, x \notin D, NEW f \in [D \cup {x} -> Int]
  PROVE  SumFunction(f) = SumFunction([d \in D |-> f[d]]) + f[x]
<1> DEFINE E == D \cup {x}
           e == [d \in D |-> f[d]]
<1>0. IsFiniteSet(E) /\ e \in [D -> Int] /\ \A d \in D : e[d] = f[d]
  BY FS_AddElement
<1>1. PICK h \in [SUBSET E -> Int] : IsSum(h, f, E) /\ SumFunction(f) = h[E]
  BY <1>0, SumIs
<1> HIDE DEF e
<1>2. PICK g \in [SUBSET D -> Int] : IsSum(g, e, D) /\ SumFunction(e) = g[D]
  BY <1>0, SumIs
<1>3. \A s \in SUBSET D : g[s] = h[s]
  <2> SUFFICES ASSUME {s \in SUBSET D : g[s] # h[s]} # {} PROVE FALSE
    OBVIOUS
  <2>1. PICK s \in SUBSET D : g[s] # h[s] /\ \A t \in SUBSET D : g[t] # h[t] /\ t \subseteq s => t = s
    <3> DEFINE T == {s \in SUBSET D : g[s] # h[s]}
    <3>1. T \subseteq SUBSET D /\ T # {}
      OBVIOUS
    <3> HIDE DEF T
    <3>2. \E s \in T : \A t \in T : t \subseteq s => t = s
      BY <3>1, MinimalSubset
    <3>3. QED BY <3>2 DEF T
  <2>2. s \in SUBSET E
    OBVIOUS
  <2>3. s # {}
    BY <2>1, <2>2, <1>1, <1>2 DEF IsSum, Unfold
  <2>4. Pick(s) \in s /\ Pick(s) \in D
    BY <2>3 DEF Pick
  <2>5. g[s] = e[Pick(s)] + g[s \ {Pick(s)}]
    BY <1>2, <2>3 DEF IsSum, Unfold
  <2>6. h[s] = f[Pick(s)] + h[s \ {Pick(s)}]
    BY <1>1, <2>2, <2>3 DEF IsSum, Unfold
  <2>7. g[s \ {Pick(s)}] = h[s \ {Pick(s)}]
    BY <2>1, <2>4
  <2>8. QED BY <1>0, <2>1, <2>4, <2>5, <2>6, <2>7
<1>4. h[E] = f[x] + h[E \ {x}]
  <2>1. f \in [E -> Int] /\ E \in SUBSET E /\ x \in E
    OBVIOUS
  <2> HIDE DEF E
  <2>2. IsFiniteSet(E) /\ IsSum(h, f, E)
    BY <1>0, <1>1
  <2>3. TakesAny(h, f, E)
    BY <2>1, <2>2, SumRemove
  <2>4. QED BY <2>1, <2>3 DEF TakesAny
<1>5. E \ {x} = D
  OBVIOUS
<1>6. h[D] = g[D] /\ g[D] \in Int /\ f[x] \in Int
  BY <1>3
<1>7. SumFunction(f) = f[x] + SumFunction(e) /\ SumFunction(e) \in Int
  BY <1>1, <1>2, <1>4, <1>5, <1>6
<1>8. SumFunction(f) = SumFunction(e) + f[x]
  BY <1>6, <1>7
<1>9. QED BY <1>8 DEF e

\* A sum of natural numbers is one: what bills have delivered of a line.
LEMMA SumNat ==
  ASSUME NEW D, IsFiniteSet(D), NEW f \in [D -> Nat]
  PROVE  SumFunction(f) \in Nat
<1>0. f \in [D -> Int]
  OBVIOUS
<1>1. PICK g \in [SUBSET D -> Int] : IsSum(g, f, D) /\ SumFunction(f) = g[D]
  BY <1>0, SumIs
<1>2. \A s \in SUBSET D : g[s] \in Nat
  <2> SUFFICES ASSUME {s \in SUBSET D : g[s] \notin Nat} # {} PROVE FALSE
    OBVIOUS
  <2>1. PICK s \in SUBSET D : g[s] \notin Nat /\ \A t \in SUBSET D : g[t] \notin Nat /\ t \subseteq s => t = s
    <3> DEFINE T == {s \in SUBSET D : g[s] \notin Nat}
    <3>1. T \subseteq SUBSET D /\ T # {}
      OBVIOUS
    <3> HIDE DEF T
    <3>2. \E s \in T : \A t \in T : t \subseteq s => t = s
      BY <3>1, MinimalSubset
    <3>3. QED BY <3>2 DEF T
  <2>2. s # {}
    BY <2>1, <1>1 DEF IsSum, Unfold
  <2>3. Pick(s) \in s /\ Pick(s) \in D
    BY <2>2 DEF Pick
  <2>4. g[s] = f[Pick(s)] + g[s \ {Pick(s)}]
    BY <1>1, <2>2 DEF IsSum, Unfold
  <2>5. g[s \ {Pick(s)}] \in Nat
    BY <2>1, <2>3
  <2>6. QED BY <2>1, <2>3, <2>4, <2>5
<1>3. QED BY <1>1, <1>2

\* Sums add up summand by summand: reservations before and what a bill takes.
LEMMA SumPlus ==
  ASSUME NEW D, IsFiniteSet(D), NEW f \in [D -> Int], NEW g \in [D -> Int]
  PROVE  SumFunction([d \in D |-> f[d] + g[d]]) = SumFunction(f) + SumFunction(g)
<1> DEFINE h == [d \in D |-> f[d] + g[d]]
<1>0. h \in [D -> Int] /\ \A d \in D : h[d] = f[d] + g[d]
  OBVIOUS
<1> HIDE DEF h
<1>1. PICK a \in [SUBSET D -> Int] : IsSum(a, f, D) /\ SumFunction(f) = a[D]
  BY SumIs
<1>2. PICK b \in [SUBSET D -> Int] : IsSum(b, g, D) /\ SumFunction(g) = b[D]
  BY SumIs
<1>3. PICK c \in [SUBSET D -> Int] : IsSum(c, h, D) /\ SumFunction(h) = c[D]
  BY <1>0, SumIs
<1>4. \A s \in SUBSET D : c[s] = a[s] + b[s]
  <2> SUFFICES ASSUME {s \in SUBSET D : c[s] # a[s] + b[s]} # {} PROVE FALSE
    OBVIOUS
  <2>1. PICK s \in SUBSET D : c[s] # a[s] + b[s] /\ \A t \in SUBSET D : c[t] # a[t] + b[t] /\ t \subseteq s => t = s
    <3> DEFINE T == {s \in SUBSET D : c[s] # a[s] + b[s]}
    <3>1. T \subseteq SUBSET D /\ T # {}
      OBVIOUS
    <3> HIDE DEF T
    <3>2. \E s \in T : \A t \in T : t \subseteq s => t = s
      BY <3>1, MinimalSubset
    <3>3. QED BY <3>2 DEF T
  <2>2. s # {}
    <3>1. a[{}] = 0 /\ b[{}] = 0 /\ c[{}] = 0
      BY <1>1, <1>2, <1>3 DEF IsSum, Unfold
    <3>2. c[{}] = a[{}] + b[{}]
      BY <3>1
    <3>3. QED BY <2>1, <3>2, Zenon
  <2>3. Pick(s) \in s /\ Pick(s) \in D
    BY <2>2 DEF Pick
  <2> DEFINE p == Pick(s)
             t == s \ {p}
  <2>4. /\ a[s] = f[p] + a[t]
        /\ b[s] = g[p] + b[t]
        /\ c[s] = h[p] + c[t]
    BY <1>1, <1>2, <1>3, <2>2 DEF IsSum, Unfold
  <2>5. c[t] = a[t] + b[t] /\ t \in SUBSET D
    BY <2>1, <2>3
  <2>6. p \in D
    BY <2>3
  <2> HIDE DEF p, t
  <2>7. /\ a[t] \in Int /\ b[t] \in Int /\ f[p] \in Int /\ g[p] \in Int /\ h[p] = f[p] + g[p]
    BY <1>0, <2>5, <2>6
  <2>8. QED BY <2>1, <2>4, <2>5, <2>7
<1>5. c[D] = a[D] + b[D]
  BY <1>4
<1>6. QED BY <1>1, <1>2, <1>3, <1>5 DEF h

\* f has the values of g and of h, over two sets apart.
Splits(f, g, h, A, B) ==
  /\ IsFiniteSet(A) /\ IsFiniteSet(B) /\ A \cap B = {}
  /\ f \in [A \cup B -> Int] /\ g \in [A -> Int] /\ h \in [B -> Int]
  /\ (\A a \in A : g[a] = f[a]) /\ \A b \in B : h[b] = f[b]

\* The sum over two sets apart is the sum of the sums: rows committed and rows
\* being written.
LEMMA SumUnion ==
  ASSUME NEW A, NEW B, NEW f, NEW g, NEW h, Splits(f, g, h, A, B)
  PROVE  SumFunction(f) = SumFunction(g) + SumFunction(h)
<1>0. IsFiniteSet(A) /\ IsFiniteSet(B) /\ A \cap B = {} /\ f \in [A \cup B -> Int]
  BY DEF Splits
<1> DEFINE Part(s) == [x \in s |-> f[x]]
           Split(s) == SumFunction(Part(A \cup s)) = SumFunction(Part(A)) + SumFunction(Part(s))
<1>1. \A s \in SUBSET B : Split(s)
  <2> SUFFICES ASSUME {s \in SUBSET B : ~Split(s)} # {} PROVE FALSE
    OBVIOUS
  <2>1. PICK s \in SUBSET B : ~Split(s) /\ \A t \in SUBSET B : ~Split(t) /\ t \subseteq s => t = s
    <3> HIDE DEF Split
    <3> DEFINE T == {s \in SUBSET B : ~Split(s)}
    <3>1. T \subseteq SUBSET B /\ T # {}
      OBVIOUS
    <3> HIDE DEF T
    <3>2. \E s \in T : \A t \in T : t \subseteq s => t = s
      BY <1>0, <3>1, MinimalSubset
    <3>3. QED BY <3>2 DEF T
  <2>2. SumFunction(Part(A)) \in Int
    <3>1. Part(A) \in [A -> Int]
      BY <1>0
    <3>2. QED BY <1>0, <3>1, SumType
  <2>3. s # {}
    <3>1. SumFunction(Part({})) = 0
      <4>1. Part({}) = [d \in {} |-> 0]
        OBVIOUS
      <4>2. QED BY <4>1, ZeroSum, FS_EmptySet
    <3>2. A \cup {} = A
      OBVIOUS
    <3>3. Split({})
      BY <2>2, <3>1, <3>2
    <3>4. QED BY <2>1, <3>3
  <2>4. PICK x \in s : TRUE
    BY <2>3
  <2> DEFINE t == s \ {x}
  <2>5. Split(t)
    <3>1. t \in SUBSET B /\ t \subseteq s /\ t # s
      BY <2>4
    <3> HIDE DEF t, Split
    <3>2. QED BY <2>1, <3>1
  <2>6. IsFiniteSet(t) /\ IsFiniteSet(A \cup t)
    BY <1>0, FS_Subset, FS_Union
  <2>7. x \in B /\ x \notin A /\ x \notin t /\ f[x] \in Int /\ s = t \cup {x} /\ A \cup s = (A \cup t) \cup {x}
    BY <1>0, <2>4
  <2>8. SumFunction(Part(s)) = SumFunction(Part(t)) + f[x]
    <3>1. Part(s) \in [t \cup {x} -> Int]
      BY <1>0, <2>7
    <3>2. SumFunction(Part(s)) = SumFunction([d \in t |-> Part(s)[d]]) + Part(s)[x]
      BY <2>6, <2>7, <3>1, SumExtend
    <3>3. [d \in t |-> Part(s)[d]] = Part(t) /\ Part(s)[x] = f[x]
      BY <2>7
    <3>4. QED BY <3>2, <3>3
  <2>9. SumFunction(Part(A \cup s)) = SumFunction(Part(A \cup t)) + f[x]
    <3>1. Part(A \cup s) \in [(A \cup t) \cup {x} -> Int]
      BY <1>0, <2>7
    <3>2. SumFunction(Part(A \cup s)) = SumFunction([d \in A \cup t |-> Part(A \cup s)[d]]) + Part(A \cup s)[x]
      BY <2>6, <2>7, <3>1, SumExtend
    <3>3. [d \in A \cup t |-> Part(A \cup s)[d]] = Part(A \cup t) /\ Part(A \cup s)[x] = f[x]
      BY <2>7
    <3>4. QED BY <3>2, <3>3
  <2>10. SumFunction(Part(t)) \in Int
    <3>1. Part(t) \in [t -> Int]
      BY <1>0
    <3>2. QED BY <2>6, <3>1, SumType
  <2> DEFINE a == SumFunction(Part(A))
             b == SumFunction(Part(t))
             c == f[x]
  <2>11. /\ a \in Int /\ b \in Int /\ c \in Int
         /\ SumFunction(Part(A \cup t)) = a + b /\ SumFunction(Part(s)) = b + c
         /\ SumFunction(Part(A \cup s)) = SumFunction(Part(A \cup t)) + c
         /\ SumFunction(Part(A \cup s)) # a + SumFunction(Part(s))
    BY <2>1, <2>2, <2>5, <2>7, <2>8, <2>9, <2>10
  <2> HIDE DEF a, b, c, Part
  <2>12. QED BY <2>11
<1>2. Split(B)
  BY <1>1
<1>3. Part(A \cup B) = f /\ Part(A) = g /\ Part(B) = h
  BY DEF Splits
<1>4. QED BY <1>2, <1>3

\* g has the values of f under other names.
Renames(g, f, m, A, B) ==
  /\ \A x \in A : g[x] = f[m[x]]
  /\ \A x, y \in A : m[x] = m[y] => x = y
  /\ \A y \in B : \E x \in A : m[x] = y

\* A sum does not depend on what its summands are called: a row that gives
\* back the points of another.
LEMMA SumRename ==
  ASSUME NEW A, IsFiniteSet(A), NEW B, NEW m \in [A -> B], NEW f \in [B -> Int], NEW g \in [A -> Int],
         Renames(g, f, m, A, B)
  PROVE  SumFunction(g) = SumFunction(f)
<1> DEFINE Image(s) == {m[x] : x \in s}
           Here(s) == [a \in s |-> f[m[a]]]
           There(s) == [b \in Image(s) |-> f[b]]
           Same(s) == SumFunction(Here(s)) = SumFunction(There(s))
<1>1. \A s \in SUBSET A : Same(s)
  <2> SUFFICES ASSUME {s \in SUBSET A : ~Same(s)} # {} PROVE FALSE
    OBVIOUS
  <2>1. PICK s \in SUBSET A : ~Same(s) /\ \A t \in SUBSET A : ~Same(t) /\ t \subseteq s => t = s
    <3> HIDE DEF Same
    <3> DEFINE T == {s \in SUBSET A : ~Same(s)}
    <3>1. T \subseteq SUBSET A /\ T # {}
      OBVIOUS
    <3> HIDE DEF T
    <3>2. \E s \in T : \A t \in T : t \subseteq s => t = s
      BY <3>1, MinimalSubset
    <3>3. QED BY <3>2 DEF T
  <2>2. s # {}
    <3>1. Here({}) = There({})
      OBVIOUS
    <3>2. QED BY <2>1, <3>1
  <2>3. PICK x \in s : TRUE
    BY <2>2
  <2> DEFINE t == s \ {x}
  <2>4. Same(t)
    <3>1. t \in SUBSET A /\ t \subseteq s /\ t # s
      BY <2>3
    <3> HIDE DEF t, Same
    <3>2. QED BY <2>1, <3>1
  <2>5. IsFiniteSet(t) /\ IsFiniteSet(Image(t))
    <3>1. IsFiniteSet(t)
      BY FS_Subset
    <3>2. [a \in t |-> m[a]] \in Surjection(t, Image(t))
      BY Zenon DEF Surjection
    <3>3. QED BY <3>1, <3>2, FS_Surjection
  <2>6. x \notin t /\ m[x] \in B /\ m[x] \notin Image(t) /\ s = t \cup {x} /\ Image(s) = Image(t) \cup {m[x]}
    BY <2>3 DEF Renames
  <2>7. SumFunction(Here(s)) = SumFunction(Here(t)) + f[m[x]]
    <3>1. Here(s) \in [t \cup {x} -> Int]
      BY <2>6
    <3>2. SumFunction(Here(s)) = SumFunction([d \in t |-> Here(s)[d]]) + Here(s)[x]
      <4> HIDE DEF t, Here
      <4>1. QED BY <2>5, <2>6, <3>1, SumExtend
    <3>3. [d \in t |-> Here(s)[d]] = Here(t) /\ Here(s)[x] = f[m[x]]
      BY <2>6
    <3>4. QED BY <3>2, <3>3
  <2>8. SumFunction(There(s)) = SumFunction(There(t)) + f[m[x]]
    <3>1. There(s) \in [Image(t) \cup {m[x]} -> Int]
      BY <2>6
    <3>2. SumFunction(There(s)) = SumFunction([d \in Image(t) |-> There(s)[d]]) + There(s)[m[x]]
      <4> HIDE DEF t, There, Image
      <4>1. QED BY <2>5, <2>6, <3>1, SumExtend
    <3>3. [d \in Image(t) |-> There(s)[d]] = There(t) /\ There(s)[m[x]] = f[m[x]]
      BY <2>6
    <3>4. QED BY <3>2, <3>3
  <2>9. QED BY <2>1, <2>4, <2>7, <2>8
<1>2. Same(A)
  BY <1>1
<1>3. Image(A) = B /\ There(A) = f /\ Here(A) = g
  BY DEF Renames
<1>4. QED BY <1>2, <1>3

\* The sum of the opposites.
LEMMA SumMinus ==
  ASSUME NEW D, IsFiniteSet(D), NEW f \in [D -> Int], NEW g \in [D -> Int], \A d \in D : g[d] = 0 - f[d]
  PROVE  SumFunction(g) = 0 - SumFunction(f)
<1>1. [d \in D |-> f[d] + g[d]] = [d \in D |-> 0]
  <2>1. \A d \in D : f[d] + g[d] = 0
    OBVIOUS
  <2>2. QED BY <2>1
<1>2. 0 = SumFunction(f) + SumFunction(g)
  <2>1. SumFunction([d \in D |-> f[d] + g[d]]) = SumFunction(f) + SumFunction(g)
    BY SumPlus
  <2>2. QED BY <1>1, <2>1, ZeroSum
<1>3. SumFunction(f) \in Int /\ SumFunction(g) \in Int
  BY SumType
<1>4. QED BY <1>2, <1>3

=============================================================================
