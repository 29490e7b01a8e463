---------------------------- MODULE SumTheorems ----------------------------
(***************************************************************************)
(* Sums over finite sets, as the capacity of workers adds them up: what    *)
(* MapThenSumSet returns does not depend on the order of the elements,     *)
(* and it grows with the set.  And finite sets of numbers, and lists of    *)
(* records, of which the engines' states are made.                         *)
(***************************************************************************)
EXTENDS Placement, FiniteSetTheorems, SequenceTheorems, WellFoundedInduction, TLAPS

SumOver(f, S) == MapThenSumSet(LAMBDA x : f[x], S)

-----------------------------------------------------------------------------
(* Induction over finite sets: where there is a counterexample, there is a *)
(* minimal one.                                                            *)

\* A nonempty set of finite sets has a minimal one.
LEMMA MinimalSet ==
  ASSUME NEW S, IsFiniteSet(S), NEW C \in SUBSET SUBSET S, C # {}
  PROVE  \E T \in C : \A x \in T : T \ {x} \notin C
<1>1. SUBSET S \subseteq FiniteSubsetsOf(S)
  BY FS_Subset DEF FiniteSubsetsOf
<1>2. PICK T \in C : \A U \in C : ~(<<U, T>> \in StrictSubsetOrdering(S))
  <2>1. C \subseteq FiniteSubsetsOf(S)
    BY <1>1
  <2>. QED BY <2>1, FS_StrictSubsetOrderingWellFounded, WFMin
<1>3. ASSUME NEW x \in T, T \ {x} \in C PROVE FALSE
  BY <1>2, <1>3 DEF StrictSubsetOrdering
<1>. QED BY <1>3

\* A nonempty set of numbers has a least one.
LEMMA LeastNumber ==
  ASSUME NEW S \in SUBSET Nat, S # {}
  PROVE  \E m \in S : \A n \in S : m <= n
<1>. DEFINE Less == OpToRel(<, Nat)
<1>1. IsWellFoundedOn(Less, Nat)
  BY NatLessThanWellFounded
<1>. HIDE DEF Less
<1>2. PICK m \in S : \A n \in S : ~(<<n, m>> \in Less)
  BY <1>1, WFMin
<1>3. \A n \in S : ~(n < m)
  BY <1>2 DEF Less, OpToRel
<1>. QED BY <1>3

-----------------------------------------------------------------------------
(* The recursive function behind a sum.                                    *)

Picked(s) == CHOOSE x \in s : TRUE
IsSum(g, f, S) == \A s \in SUBSET S : g[s] = IF s = {} THEN 0 ELSE f[Picked(s)] + g[s \ {Picked(s)}]

\* It is defined: level by level of the sizes of the subsets.
LEMMA SumExists ==
  ASSUME NEW S, IsFiniteSet(S), NEW f, \A x \in S : f[x] \in Int
  PROVE  \E g \in [SUBSET S -> Int] : IsSum(g, f, S)
<1>. DEFINE Upto(n) == {s \in SUBSET S : Cardinality(s) <= n}
            Partial(g, n) == \A s \in Upto(n) : g[s] = IF s = {} THEN 0 ELSE f[Picked(s)] + g[s \ {Picked(s)}]
            Bad == {n \in Nat : ~\E g \in [Upto(n) -> Int] : Partial(g, n)}
<1>1. \A s \in SUBSET S : IsFiniteSet(s) /\ Cardinality(s) \in Nat /\ Cardinality(s) <= Cardinality(S)
  BY FS_Subset, FS_CardinalityType
<1>2. \A s \in SUBSET S : s # {} => Picked(s) \in s
  BY DEF Picked
<1>3. 0 \notin Bad
  <2>1. Upto(0) = {{}}
    BY <1>1, FS_EmptySet
  <2>2. [s \in Upto(0) |-> 0] \in [Upto(0) -> Int] /\ Partial([s \in Upto(0) |-> 0], 0)
    BY <2>1
  <2>. QED BY <2>2
<1>4. ASSUME NEW n \in Nat, n \notin Bad PROVE n + 1 \notin Bad
  <2>1. PICK g \in [Upto(n) -> Int] : Partial(g, n)
    BY <1>4
  <2>. DEFINE h == [s \in Upto(n + 1) |-> IF s = {} THEN 0 ELSE f[Picked(s)] + g[s \ {Picked(s)}]]
  <2>2. ASSUME NEW s \in Upto(n + 1), s # {} PROVE s \ {Picked(s)} \in Upto(n)
    <3>1. Picked(s) \in s /\ IsFiniteSet(s) /\ Cardinality(s) \in Nat
      BY <1>1, <1>2, <2>2
    <3>2. Cardinality(s \ {Picked(s)}) = Cardinality(s) - 1
      BY <3>1, FS_RemoveElement
    <3>. QED BY <3>1, <3>2, <2>2
  <2>3. h \in [Upto(n + 1) -> Int]
    <3>1. ASSUME NEW s \in Upto(n + 1), s # {} PROVE f[Picked(s)] + g[s \ {Picked(s)}] \in Int
      BY <3>1, <2>2, <1>2
    <3>. QED BY <3>1
  <2>4. \A s \in Upto(n) : h[s] = g[s] /\ s \in Upto(n + 1)
    <3>1. ASSUME NEW s \in Upto(n) PROVE s \in Upto(n + 1)
      BY <1>1
    <3>. QED BY <2>1, <3>1
  <2>5. Partial(h, n + 1)
    BY <2>2, <2>4
  <2>. QED BY <2>3, <2>5
<1>5. Bad = {}
  <2>1. SUFFICES ASSUME Bad # {} PROVE FALSE
    OBVIOUS
  <2>2. PICK m \in Bad : \A n \in Bad : m <= n
    <3>1. Bad \in SUBSET Nat
      OBVIOUS
    <3>. HIDE DEF Bad
    <3>. QED BY <2>1, <3>1, LeastNumber
  <2>3. m \in Nat /\ m # 0
    BY <1>3
  <2>4. m - 1 \in Nat /\ m - 1 \notin Bad
    <3>. HIDE DEF Bad
    <3>. QED BY <2>2, <2>3
  <2>5. (m - 1) + 1 \notin Bad
    <3>. HIDE DEF Bad
    <3>. QED BY <2>4, <1>4
  <2>6. (m - 1) + 1 = m
    BY <2>3
  <2>. HIDE DEF Bad
  <2>. QED BY <2>2, <2>5, <2>6
<1>6. Cardinality(S) \in Nat /\ Upto(Cardinality(S)) = SUBSET S
  BY <1>1
<1>7. PICK g \in [Upto(Cardinality(S)) -> Int] : Partial(g, Cardinality(S))
  BY <1>5, <1>6
<1>. QED BY <1>6, <1>7 DEF IsSum

\* It has one solution, on a set as on its subsets.
LEMMA SumUnique ==
  ASSUME NEW S, IsFiniteSet(S), NEW T \in SUBSET S, NEW f, NEW e,
         \A x \in T : f[x] = e[x],
         NEW g, IsSum(g, f, S), NEW h, IsSum(h, e, T)
  PROVE  \A s \in SUBSET T : g[s] = h[s]
<1>. DEFINE Bad == {s \in SUBSET T : g[s] # h[s]}
<1>1. SUFFICES ASSUME Bad # {} PROVE FALSE
  OBVIOUS
<1>2. IsFiniteSet(T) /\ Bad \in SUBSET SUBSET T
  BY FS_Subset
<1>3. PICK s \in Bad : \A x \in s : s \ {x} \notin Bad
  <2>. HIDE DEF Bad
  <2>. QED BY <1>1, <1>2, MinimalSet
<1>4. s # {}
  BY DEF IsSum
<1>5. Picked(s) \in s /\ s \ {Picked(s)} \in SUBSET T
  BY <1>4 DEF Picked
<1>6. g[s \ {Picked(s)}] = h[s \ {Picked(s)}]
  BY <1>3, <1>5
<1>. QED BY <1>4, <1>5, <1>6 DEF IsSum

\* A sum over a set is the value of the solution.
LEMMA SumIsSolution ==
  ASSUME NEW S, IsFiniteSet(S), NEW f, \A x \in S : f[x] \in Int
  PROVE  \E g \in [SUBSET S -> Int] : IsSum(g, f, S) /\ SumOver(f, S) = g[S]
<1>. DEFINE Step(g) == [s \in SUBSET S |-> IF s = {} THEN 0 ELSE f[Picked(s)] + g[s \ {Picked(s)}]]
            iter == CHOOSE g : g = Step(g)
<1>1. PICK g \in [SUBSET S -> Int] : IsSum(g, f, S)
  BY SumExists
<1>2. g = Step(g)
  BY <1>1 DEF IsSum
<1>3. iter = Step(iter)
  <2>. HIDE DEF Step
  <2>. QED BY <1>2
<1>4. SumOver(f, S) = iter[S]
  BY DEF SumOver, MapThenSumSet, MapThenFoldSet, Picked
<1>5. IsSum(iter, f, S)
  <2>. HIDE DEF iter
  <2>. QED BY <1>3 DEF IsSum
<1>6. \A s \in SUBSET S : iter[s] = g[s]
  <2>. HIDE DEF iter
  <2>. QED BY <1>1, <1>5, SumUnique
<1>. QED BY <1>1, <1>4, <1>6

-----------------------------------------------------------------------------
(* What sums are.                                                          *)

LEMMA SumEmpty == ASSUME NEW f PROVE SumOver(f, {}) = 0
<1>1. IsFiniteSet({}) /\ {} \in SUBSET {}
  BY FS_EmptySet
<1>2. PICK g \in [SUBSET {} -> Int] : IsSum(g, f, {}) /\ SumOver(f, {}) = g[{}]
  BY <1>1, SumIsSolution
<1>. QED BY <1>1, <1>2 DEF IsSum

\* Of equal numbers, over equal sets.
LEMMA SumCongruent ==
  ASSUME NEW S, IsFiniteSet(S), NEW f, NEW e, \A x \in S : f[x] \in Int /\ f[x] = e[x]
  PROVE  SumOver(f, S) = SumOver(e, S)
<1>1. PICK g \in [SUBSET S -> Int] : IsSum(g, f, S) /\ SumOver(f, S) = g[S]
  BY SumIsSolution
<1>2. PICK h \in [SUBSET S -> Int] : IsSum(h, e, S) /\ SumOver(e, S) = h[S]
  BY SumIsSolution
<1>3. \A s \in SUBSET S : g[s] = h[s]
  BY <1>1, <1>2, SumUnique
<1>. QED BY <1>1, <1>2, <1>3

\* Any element may be taken out.
LEMMA SumRemove ==
  ASSUME NEW S, IsFiniteSet(S), NEW f, \A x \in S : f[x] \in Int, NEW x \in S
  PROVE  SumOver(f, S) = f[x] + SumOver(f, S \ {x}) /\ SumOver(f, S \ {x}) \in Int
<1>1. PICK g \in [SUBSET S -> Int] : IsSum(g, f, S) /\ SumOver(f, S) = g[S]
  BY SumIsSolution
<1>. DEFINE Bad == {T \in SUBSET S : \E y \in T : g[T] # f[y] + g[T \ {y}]}
<1>2. Bad = {}
  <2>1. SUFFICES ASSUME Bad # {} PROVE FALSE
    OBVIOUS
  <2>2. PICK T \in Bad : \A y \in T : T \ {y} \notin Bad
    <3>1. Bad \in SUBSET SUBSET S
      OBVIOUS
    <3>. HIDE DEF Bad
    <3>. QED BY <2>1, <3>1, MinimalSet
  <2>3. PICK y \in T : g[T] # f[y] + g[T \ {y}]
    OBVIOUS
  <2>. DEFINE p == Picked(T)
  <2>4. p \in T /\ g[T] = f[p] + g[T \ {p}]
    BY <1>1, <2>3 DEF IsSum, Picked
  <2>. HIDE DEF p
  <2>5. CASE y = p
    BY <2>3, <2>4, <2>5
  <2>6. CASE y # p
    <3>1. T \ {p} \in SUBSET S /\ y \in T \ {p} /\ T \ {y} \in SUBSET S /\ p \in T \ {y}
      BY <2>4, <2>6
    <3>2. T \ {p} \notin Bad /\ T \ {y} \notin Bad
      BY <2>2, <2>4
    <3>3. g[T \ {p}] = f[y] + g[(T \ {p}) \ {y}] /\ g[T \ {y}] = f[p] + g[(T \ {y}) \ {p}]
      BY <3>1, <3>2
    <3>4. (T \ {p}) \ {y} = (T \ {y}) \ {p} /\ (T \ {y}) \ {p} \in SUBSET S
      OBVIOUS
    <3>5. f[y] \in Int /\ f[p] \in Int /\ g[(T \ {y}) \ {p}] \in Int
      BY <2>4, <3>4
    <3>6. g[T \ {p}] = f[y] + g[(T \ {y}) \ {p}] /\ g[T] = f[p] + g[T \ {p}]
      BY <2>4, <3>3, <3>4
    <3>7. g[T] = f[y] + (f[p] + g[(T \ {y}) \ {p}])
      BY <3>5, <3>6
    <3>. QED BY <2>3, <3>3, <3>7
  <2>. QED BY <2>5, <2>6
<1>3. g[S] = f[x] + g[S \ {x}]
  BY <1>2
<1>4. IsFiniteSet(S \ {x}) /\ S \ {x} \in SUBSET S
  BY FS_Subset
<1>5. PICK h \in [SUBSET (S \ {x}) -> Int] : IsSum(h, f, S \ {x}) /\ SumOver(f, S \ {x}) = h[S \ {x}]
  BY <1>4, SumIsSolution
<1>6. g[S \ {x}] = h[S \ {x}]
  BY <1>1, <1>4, <1>5, SumUnique
<1>. QED BY <1>1, <1>3, <1>4, <1>5, <1>6

\* Of natural numbers.
LEMMA SumNat ==
  ASSUME NEW S, IsFiniteSet(S), NEW f, \A x \in S : f[x] \in Nat
  PROVE  SumOver(f, S) \in Nat
<1>. DEFINE Bad == {T \in SUBSET S : SumOver(f, T) \notin Nat}
<1>1. SUFFICES ASSUME Bad # {} PROVE FALSE
  OBVIOUS
<1>2. PICK T \in Bad : \A y \in T : T \ {y} \notin Bad
  <2>1. Bad \in SUBSET SUBSET S
    OBVIOUS
  <2>. HIDE DEF Bad
  <2>. QED BY <1>1, <2>1, MinimalSet
<1>3. T # {}
  BY SumEmpty
<1>4. PICK y \in T : TRUE
  BY <1>3
<1>5. T \ {y} \in SUBSET S /\ IsFiniteSet(T) /\ SumOver(f, T \ {y}) \in Nat
  BY <1>2, <1>4, FS_Subset
<1>6. SumOver(f, T) = f[y] + SumOver(f, T \ {y})
  <2>1. \A x \in T : f[x] \in Int
    OBVIOUS
  <2>. HIDE DEF Bad
  <2>. QED BY <1>5, <2>1, SumRemove
<1>. QED BY <1>5, <1>6

\* Over two disjoint sets.
LEMMA SumUnion ==
  ASSUME NEW S, IsFiniteSet(S), NEW T, IsFiniteSet(T), S \cap T = {},
         NEW f, \A x \in S \cup T : f[x] \in Nat
  PROVE  SumOver(f, S \cup T) = SumOver(f, S) + SumOver(f, T)
<1>. DEFINE Bad == {U \in SUBSET S : SumOver(f, U \cup T) # SumOver(f, U) + SumOver(f, T)}
<1>1. SUFFICES ASSUME Bad # {} PROVE FALSE
  BY DEF Bad
<1>2. PICK U \in Bad : \A y \in U : U \ {y} \notin Bad
  <2>1. Bad \in SUBSET SUBSET S
    OBVIOUS
  <2>. HIDE DEF Bad
  <2>. QED BY <1>1, <2>1, MinimalSet
<1>3. SumOver(f, T) \in Nat
  BY SumNat
<1>4. U # {}
  <2>1. SUFFICES ASSUME U = {} PROVE FALSE
    OBVIOUS
  <2>2. U \cup T = T
    BY <2>1
  <2>. QED BY <1>3, <2>1, <2>2, SumEmpty
<1>5. PICK y \in U : TRUE
  BY <1>4
<1>6. IsFiniteSet(U) /\ IsFiniteSet(U \cup T) /\ y \in U \cup T /\ U \ {y} \in SUBSET S
  BY FS_Subset, FS_Union
<1>7. (U \cup T) \ {y} = (U \ {y}) \cup T
  BY <1>5
<1>8. SumOver(f, (U \ {y}) \cup T) = SumOver(f, U \ {y}) + SumOver(f, T)
  BY <1>2, <1>6
<1>9. (\A x \in U : f[x] \in Int) /\ (\A x \in U \cup T : f[x] \in Int)
  OBVIOUS
<1>10. /\ SumOver(f, U \cup T) = f[y] + SumOver(f, (U \cup T) \ {y})
       /\ SumOver(f, U) = f[y] + SumOver(f, U \ {y})
       /\ SumOver(f, U \ {y}) \in Int
  <2>. HIDE DEF Bad
  <2>. QED BY <1>6, <1>9, SumRemove
<1>11. SumOver(f, U \cup T) # SumOver(f, U) + SumOver(f, T)
  OBVIOUS
<1>12. f[y] \in Int
  BY <1>5, <1>9
<1>. HIDE DEF Bad
<1>. QED BY <1>3, <1>7, <1>8, <1>10, <1>11, <1>12

\* Over a part of a set.
LEMMA SumSubset ==
  ASSUME NEW S, IsFiniteSet(S), NEW T \in SUBSET S, NEW f, \A x \in S : f[x] \in Nat
  PROVE  SumOver(f, T) <= SumOver(f, S)
<1>1. IsFiniteSet(T) /\ IsFiniteSet(S \ T) /\ T \cap (S \ T) = {} /\ T \cup (S \ T) = S
  BY FS_Subset
<1>2. SumOver(f, S) = SumOver(f, T) + SumOver(f, S \ T)
  BY <1>1, SumUnion
<1>3. SumOver(f, T) \in Nat /\ SumOver(f, S \ T) \in Nat
  BY <1>1, SumNat
<1>. QED BY <1>2, <1>3

\* A set that stays within two others.
LEMMA SumGrows ==
  ASSUME NEW S, IsFiniteSet(S), NEW A, IsFiniteSet(A), NEW T \in SUBSET (S \cup A),
         NEW f, \A x \in S \cup A : f[x] \in Nat
  PROVE  SumOver(f, T) <= SumOver(f, S) + SumOver(f, A)
<1>1. /\ IsFiniteSet(A \ S) /\ S \cap (A \ S) = {} /\ S \cup (A \ S) = S \cup A
      /\ IsFiniteSet(S \cup A) /\ IsFiniteSet(T)
  BY FS_Subset, FS_Union
<1>2. SumOver(f, S \cup A) = SumOver(f, S) + SumOver(f, A \ S)
  BY <1>1, SumUnion
<1>3. SumOver(f, T) <= SumOver(f, S \cup A)
  BY <1>1, SumSubset
<1>4. SumOver(f, A \ S) <= SumOver(f, A)
  BY SumSubset
<1>5. /\ SumOver(f, T) \in Nat /\ SumOver(f, S) \in Nat /\ SumOver(f, A) \in Nat
      /\ SumOver(f, A \ S) \in Nat /\ SumOver(f, S \cup A) \in Nat
  BY <1>1, SumNat
<1>. QED BY <1>2, <1>3, <1>4, <1>5

-----------------------------------------------------------------------------
(* The load of applications, and best fit                                  *)

\* A load is a sum over any table of its reservations.
LEMMA LoadIsSum ==
  ASSUME NEW apps, NEW demand, NEW d, NEW need, \A a \in apps : need[a] = demand[a][d]
  PROVE  Load(apps, demand, d) = SumOver(need, apps)
<1>. DEFINE Mine(g)  == [s \in SUBSET apps |-> IF s = {} THEN 0 ELSE demand[Picked(s)][d] + g[s \ {Picked(s)}]]
            Yours(g) == [s \in SUBSET apps |-> IF s = {} THEN 0 ELSE need[Picked(s)] + g[s \ {Picked(s)}]]
<1>1. \A s \in SUBSET apps : s # {} => Picked(s) \in apps
  BY DEF Picked
<1>2. \A g : Mine(g) = Yours(g)
  BY <1>1
<1>3. Load(apps, demand, d) = (CHOOSE g : g = Mine(g))[apps]
  BY DEF Load, MapThenSumSet, MapThenFoldSet, Picked
<1>4. SumOver(need, apps) = (CHOOSE g : g = Yours(g))[apps]
  BY DEF SumOver, MapThenSumSet, MapThenFoldSet, Picked
<1>. HIDE DEF Mine, Yours
<1>. QED BY <1>2, <1>3, <1>4

\* The order of placement is total.
LEMMA PlacementOrder ==
  ASSUME NEW A \in SUBSET Nat, NEW demand, \A a \in A : demand[a] \in Vector(Nat)
  PROVE  /\ \A a \in A : ~PlacedBefore(a, a, demand)
         /\ \A a, b \in A : a # b => PlacedBefore(a, b, demand) \/ PlacedBefore(b, a, demand)
         /\ \A a, b, c \in A :
              PlacedBefore(a, b, demand) /\ PlacedBefore(b, c, demand) => PlacedBefore(a, c, demand)
<1>1. \A a \in A : demand[a].memory \in Nat /\ demand[a].cpu \in Nat /\ demand[a].storage \in Nat /\ a \in Nat
  BY DEF Vector
<1>2. \A a \in A : ~PlacedBefore(a, a, demand)
  BY <1>1 DEF PlacedBefore
<1>3. ASSUME NEW a \in A, NEW b \in A, a # b
      PROVE  PlacedBefore(a, b, demand) \/ PlacedBefore(b, a, demand)
  <2>1. a < b \/ b < a
    BY <1>3
  <2>2. CASE demand[a].memory = demand[b].memory /\ demand[a].cpu = demand[b].cpu /\ demand[a].storage = demand[b].storage
    <3>1. demand[a] \in Vector(Nat) /\ demand[b] \in Vector(Nat)
      OBVIOUS
    <3>2. demand[a] = demand[b]
      BY <2>2, <3>1 DEF Vector
    <3>. QED BY <2>1, <3>2 DEF PlacedBefore
  <2>3. CASE ~(demand[a].memory = demand[b].memory /\ demand[a].cpu = demand[b].cpu /\ demand[a].storage = demand[b].storage)
    BY <1>1, <2>3 DEF PlacedBefore
  <2>. QED BY <2>2, <2>3
<1>4. ASSUME NEW a \in A, NEW b \in A, NEW c \in A, PlacedBefore(a, b, demand), PlacedBefore(b, c, demand)
      PROVE  PlacedBefore(a, c, demand)
  BY <1>1, <1>4 DEF PlacedBefore
<1>. QED BY <1>2, <1>3, <1>4

\* Of finitely many applications one is placed last.
LEMMA LastPlaced ==
  ASSUME NEW A \in SUBSET Nat, IsFiniteSet(A), NEW demand, \A a \in A : demand[a] \in Vector(Nat), A # {}
  PROVE  \E a \in A : \A b \in A \ {a} : PlacedBefore(b, a, demand)
<1>. DEFINE Bad == {T \in SUBSET A : T # {} /\ ~\E a \in T : \A b \in T \ {a} : PlacedBefore(b, a, demand)}
<1>1. SUFFICES ASSUME Bad # {} PROVE FALSE
  OBVIOUS
<1>2. PICK T \in Bad : \A y \in T : T \ {y} \notin Bad
  <2>1. Bad \in SUBSET SUBSET A
    OBVIOUS
  <2>. HIDE DEF Bad
  <2>. QED BY <1>1, <2>1, MinimalSet
<1>3. PICK x \in T : TRUE
  OBVIOUS
<1>4. T \ {x} # {}
  BY <1>3
<1>5. T \ {x} \in SUBSET A /\ T \ {x} \notin Bad
  BY <1>2
<1>6. PICK a \in T \ {x} : \A b \in (T \ {x}) \ {a} : PlacedBefore(b, a, demand)
  BY <1>4, <1>5
<1>7. CASE PlacedBefore(x, a, demand)
  <2>1. \A b \in T \ {a} : PlacedBefore(b, a, demand)
    BY <1>6, <1>7
  <2>. QED BY <1>6, <2>1
<1>8. CASE ~PlacedBefore(x, a, demand)
  <2>1. x \in A /\ a \in A /\ a # x /\ T \in SUBSET A
    BY <1>6
  <2>2. PlacedBefore(a, x, demand)
    BY <1>8, <2>1, PlacementOrder
  <2>3. \A b \in T \ {x} : PlacedBefore(b, x, demand)
    <3>. HIDE DEF Bad
    <3>1. ASSUME NEW b \in T \ {x}, b # a PROVE PlacedBefore(b, x, demand)
      <4>1. b \in A /\ PlacedBefore(b, a, demand)
        BY <1>6, <2>1, <3>1
      <4>. QED BY <2>1, <2>2, <4>1, PlacementOrder
    <3>. QED BY <2>2, <3>1
  <2>. QED BY <1>3, <2>3
<1>. QED BY <1>7, <1>8

\* What best fit puts on a worker fits what was free there.
LEMMA BestFitFits ==
  ASSUME NEW A \in SUBSET Nat, IsFiniteSet(A), NEW demand, \A a \in A : demand[a] \in Vector(Nat),
         NEW workers, NEW free, NEW asg \in Placements(A, workers, demand, free),
         NEW w, NEW d \in Dimension, free[w][d] \in Int, \E a \in A : asg[a] = w
  PROVE  Load({a \in A : asg[a] = w}, demand, d) <= free[w][d]
<1>. DEFINE mine == {a \in A : asg[a] = w}
            need == [a \in A |-> demand[a][d]]
<1>1. asg \in [A -> workers] /\ IsBestFit(asg, workers, demand, free) /\ DOMAIN asg = A
  BY DEF Placements
<1>2. mine \in SUBSET A /\ mine # {} /\ IsFiniteSet(mine) /\ mine \in SUBSET Nat
  BY FS_Subset
<1>3. PICK a \in mine : \A b \in mine \ {a} : PlacedBefore(b, a, demand)
  <2>1. \A b \in mine : demand[b] \in Vector(Nat)
    BY <1>2
  <2>. HIDE DEF mine
  <2>. QED BY <1>2, <2>1, LastPlaced
<1>4. {b \in DOMAIN asg : asg[b] = w /\ PlacedBefore(b, a, demand)} = mine \ {a}
  BY <1>1, <1>3, PlacementOrder
<1>5. a \in A /\ asg[a] = w /\ w \in workers
  BY <1>1
<1>6. demand[a][d] <= free[w][d] - Load(mine \ {a}, demand, d)
  <2>1. Fits(demand[a], RoomAt(w, a, asg, demand, free))
    BY <1>1, <1>5 DEF IsBestFit
  <2>2. RoomAt(w, a, asg, demand, free)[d] = free[w][d] - Load(mine \ {a}, demand, d)
    BY <1>4 DEF RoomAt
  <2>. QED BY <2>1, <2>2 DEF Fits
<1>7. \A x \in A : need[x] = demand[x][d] /\ need[x] \in Nat
  BY DEF Vector, Dimension
<1>8. /\ Load(mine, demand, d) = SumOver(need, mine)
      /\ Load(mine \ {a}, demand, d) = SumOver(need, mine \ {a})
  <2>1. \A x \in mine : need[x] = demand[x][d]
    BY <1>2, <1>7
  <2>. HIDE DEF mine, need
  <2>. QED BY <2>1, LoadIsSum
<1>9. SumOver(need, mine) = need[a] + SumOver(need, mine \ {a}) /\ SumOver(need, mine \ {a}) \in Int
  <2>1. \A x \in mine : need[x] \in Int
    BY <1>2, <1>7
  <2>. HIDE DEF mine, need
  <2>. QED BY <1>2, <1>3, <2>1, SumRemove
<1>10. need[a] = demand[a][d] /\ need[a] \in Nat
  BY <1>5, <1>7
<1>. HIDE DEF mine, need
<1>11. Load(mine, demand, d) <= free[w][d]
  BY <1>6, <1>8, <1>9, <1>10
<1>. QED BY <1>11 DEF mine
\* In every nonempty set of reservations one is placed before the others.
LEMMA FirstPlaced ==
  ASSUME NEW A \in SUBSET Nat, IsFiniteSet(A), NEW demand, \A a \in A : demand[a] \in Vector(Nat), A # {}
  PROVE  \E a \in A : \A b \in A \ {a} : PlacedBefore(a, b, demand)
<1>. DEFINE Bad == {T \in SUBSET A : T # {} /\ ~\E a \in T : \A b \in T \ {a} : PlacedBefore(a, b, demand)}
<1>1. SUFFICES ASSUME Bad # {} PROVE FALSE
  OBVIOUS
<1>2. PICK T \in Bad : \A y \in T : T \ {y} \notin Bad
  <2>1. Bad \in SUBSET SUBSET A
    OBVIOUS
  <2>. HIDE DEF Bad
  <2>. QED BY <1>1, <2>1, MinimalSet
<1>3. PICK x \in T : TRUE
  OBVIOUS
<1>4. T \ {x} # {}
  BY <1>3
<1>5. T \ {x} \in SUBSET A /\ T \ {x} \notin Bad
  BY <1>2
<1>6. PICK a \in T \ {x} : \A b \in (T \ {x}) \ {a} : PlacedBefore(a, b, demand)
  BY <1>4, <1>5
<1>7. CASE PlacedBefore(a, x, demand)
  <2>1. \A b \in T \ {a} : PlacedBefore(a, b, demand)
    BY <1>6, <1>7
  <2>. QED BY <1>6, <2>1
<1>8. CASE ~PlacedBefore(a, x, demand)
  <2>1. x \in A /\ a \in A /\ a # x /\ T \in SUBSET A
    BY <1>6
  <2>2. PlacedBefore(x, a, demand)
    BY <1>8, <2>1, PlacementOrder
  <2>3. \A b \in T \ {x} : PlacedBefore(x, b, demand)
    <3>. HIDE DEF Bad
    <3>1. ASSUME NEW b \in T \ {x}, b # a PROVE PlacedBefore(x, b, demand)
      <4>1. b \in A /\ PlacedBefore(a, b, demand)
        BY <1>6, <2>1, <3>1
      <4>. QED BY <2>1, <2>2, <4>1, PlacementOrder
    <3>. QED BY <2>2, <3>1
  <2>. QED BY <1>3, <2>3
<1>. QED BY <1>7, <1>8

\* The reservations can be put in that order, each once.
LEMMA SortExists ==
  ASSUME NEW A \in SUBSET Nat, IsFiniteSet(A), NEW demand, \A a \in A : demand[a] \in Vector(Nat)
  PROVE  \E s \in [1 .. Cardinality(A) -> A] :
           /\ A = {s[i] : i \in 1 .. Cardinality(A)}
           /\ \A i, j \in 1 .. Cardinality(A) : i < j => PlacedBefore(s[i], s[j], demand)
<1>. DEFINE Sorted(s, T) == /\ T = {s[i] : i \in 1 .. Cardinality(T)}
                            /\ \A i, j \in 1 .. Cardinality(T) : i < j => PlacedBefore(s[i], s[j], demand)
            Bad == {T \in SUBSET A : ~\E s \in [1 .. Cardinality(T) -> T] : Sorted(s, T)}
<1>1. SUFFICES ASSUME Bad # {} PROVE FALSE
  OBVIOUS
<1>2. PICK T \in Bad : \A y \in T : T \ {y} \notin Bad
  <2>1. Bad \in SUBSET SUBSET A
    OBVIOUS
  <2>. HIDE DEF Bad
  <2>. QED BY <1>1, <2>1, MinimalSet
<1>3. T \in SUBSET A /\ IsFiniteSet(T) /\ \A a \in T : demand[a] \in Vector(Nat)
  BY FS_Subset
<1>4. CASE T = {}
  <2>1. Cardinality(T) = 0
    BY <1>4, FS_EmptySet
  <2>2. 1 .. Cardinality(T) = {}
    BY <2>1
  <2>3. [i \in {} |-> 0] \in [1 .. Cardinality(T) -> T] /\ Sorted([i \in {} |-> 0], T)
    BY <1>4, <2>2
  <2>. QED BY <2>3
<1>5. CASE T # {}
  <2>1. PICK a \in T : \A b \in T \ {a} : PlacedBefore(b, a, demand)
    <3>1. T \in SUBSET Nat
      BY <1>3
    <3>. HIDE DEF Bad
    <3>. QED BY <1>3, <1>5, <3>1, LastPlaced
  <2>. DEFINE U == T \ {a}
              n == Cardinality(U)
  <2>2. U \in SUBSET A /\ U \notin Bad
    BY <1>2, <2>1
  <2>3. PICK s \in [1 .. n -> U] : Sorted(s, U)
    BY <2>2
  <2>4. n \in Nat /\ Cardinality(T) = n + 1
    <3>1. Cardinality(T \ {a}) = Cardinality(T) - 1 /\ Cardinality(T) \in Nat /\ Cardinality(T \ {a}) \in Nat
      <4>. HIDE DEF Bad
      <4>. QED BY <1>3, <2>1, FS_RemoveElement, FS_CardinalityType, FS_Subset
    <3>. QED BY <3>1
  <2>. DEFINE t == [i \in 1 .. n + 1 |-> IF i = n + 1 THEN a ELSE s[i]]
  <2>. HIDE DEF Bad, n
  <2>5. /\ \A i \in 1 .. n : i \in 1 .. n + 1 /\ t[i] = s[i] /\ s[i] \in U
        /\ n + 1 \in 1 .. n + 1 /\ t[n + 1] = a
        /\ \A i \in 1 .. n + 1 : i \in 1 .. n \/ i = n + 1
    BY <2>3, <2>4
  <2>6. U = {s[i] : i \in 1 .. n} /\ \A i, j \in 1 .. n : i < j => PlacedBefore(s[i], s[j], demand)
    BY <2>3 DEF n
  <2>7. t \in [1 .. n + 1 -> T]
    BY <2>1, <2>5
  <2>. HIDE DEF t
  <2>8. T = {t[i] : i \in 1 .. n + 1}
    <3>1. \A x \in T : \E i \in 1 .. n + 1 : t[i] = x
      BY <2>1, <2>5, <2>6
    <3>. QED BY <2>7, <3>1
  <2>9. ASSUME NEW i \in 1 .. n + 1, NEW j \in 1 .. n + 1, i < j PROVE PlacedBefore(t[i], t[j], demand)
    <3>1. i \in 1 .. n
      BY <2>4, <2>9
    <3>2. CASE j = n + 1
      BY <2>1, <2>5, <3>1, <3>2
    <3>3. CASE j \in 1 .. n
      BY <2>5, <2>6, <2>9, <3>1, <3>3
    <3>. QED BY <2>5, <3>2, <3>3
  <2>10. t \in [1 .. Cardinality(T) -> T] /\ Sorted(t, T)
    BY <2>4, <2>7, <2>8, <2>9
  <2>. QED BY <1>2, <2>10 DEF Bad
<1>. QED BY <1>4, <1>5

-----------------------------------------------------------------------------
(* The loop that places one reservation after another.                     *)

\* What the lemmas ask of reservations and of free capacity.
Reservations(apps, demand) == apps \in SUBSET Nat /\ IsFiniteSet(apps) /\ \A a \in apps : demand[a] \in Vector(Nat)
Bins(workers, free) == \A w \in workers, d \in Dimension : free[w][d] \in Int

\* Applications that come before all others, and the one whose turn it is.
Closed(S, apps, demand) == S \in SUBSET apps /\ \A b \in S, c \in apps : PlacedBefore(c, b, demand) => c \in S
Turn(a, apps, asg, demand) ==
  a \in apps \ DOMAIN asg /\ \A c \in apps \ DOMAIN asg : c # a => PlacedBefore(a, c, demand)

\* The choice of a worker, and what is left in the bins once it is made.
Best(w, workers, need, bins) ==
  /\ w \in workers /\ Fits(need, bins[w])
  /\ \A v \in workers : Fits(need, bins[v]) =>
       bins[w].memory < bins[v].memory \/ (bins[w].memory = bins[v].memory /\ w <= v)
Charged(bins2, bins, workers, w, need) ==
  \A v \in workers, d \in Dimension : bins2[v][d] = IF v = w THEN bins[v][d] - need[d] ELSE bins[v][d]

\* One more application weighs as much as it asks for.
LEMMA LoadAdds ==
  ASSUME NEW A, NEW demand, Reservations(A, demand),
         NEW S, S \subseteq A, NEW a \in A, a \notin S, NEW d \in Dimension
  PROVE  /\ Load(S \cup {a}, demand, d) = Load(S, demand, d) + demand[a][d]
         /\ Load(S, demand, d) \in Nat /\ demand[a][d] \in Nat
<1>0. A \in SUBSET Nat /\ IsFiniteSet(A) /\ \A b \in A : demand[b] \in Vector(Nat)
  BY DEF Reservations
<1>. DEFINE need == [x \in A |-> demand[x][d]]
            T == S \cup {a}
<1>1. ASSUME NEW x \in A PROVE need[x] = demand[x][d] /\ need[x] \in Nat
  BY <1>0 DEF Vector, Dimension
<1>2. T \subseteq A /\ IsFiniteSet(T) /\ a \in T /\ T \ {a} = S /\ IsFiniteSet(S) /\ S \subseteq A /\ a \in A
  BY <1>0, FS_Subset
<1>6. (\A x \in T : need[x] = demand[x][d]) /\ \A x \in S : need[x] = demand[x][d]
  BY <1>1, <1>2
<1>7. (\A x \in T : need[x] \in Int) /\ (\A x \in S : need[x] \in Nat) /\ need[a] = demand[a][d] /\ need[a] \in Nat
  BY <1>1, <1>2
<1>. HIDE DEF need, T
<1>3. Load(T, demand, d) = SumOver(need, T) /\ Load(S, demand, d) = SumOver(need, S)
  <2>1. ASSUME NEW X, \A x \in X : need[x] = demand[x][d] PROVE Load(X, demand, d) = SumOver(need, X)
    BY <2>1, LoadIsSum
  <2>. QED BY <1>6, <2>1
<1>4. SumOver(need, T) = need[a] + SumOver(need, S)
  <2>1. SumOver(need, T) = need[a] + SumOver(need, T \ {a})
    BY <1>2, <1>7, SumRemove
  <2>. QED BY <1>2, <2>1
<1>5. SumOver(need, S) \in Nat
  BY <1>2, <1>7, SumNat
<1>8. Load(T, demand, d) = Load(S, demand, d) + demand[a][d] /\ Load(S, demand, d) \in Nat /\ demand[a][d] \in Nat
  BY <1>3, <1>4, <1>5, <1>7
<1>. QED BY <1>8 DEF T

LEMMA LoadNat ==
  ASSUME NEW A, NEW demand, Reservations(A, demand), NEW S, S \subseteq A, NEW d \in Dimension
  PROVE  Load(S, demand, d) \in Nat
<1>. DEFINE need == [x \in A |-> demand[x][d]]
<1>1. \A x \in A : need[x] = demand[x][d] /\ need[x] \in Nat
  BY DEF Reservations, Vector, Dimension
<1>2. IsFiniteSet(S) /\ \A x \in S : need[x] = demand[x][d] /\ need[x] \in Nat
  BY <1>1, FS_Subset DEF Reservations
<1>. HIDE DEF need
<1>3. Load(S, demand, d) = SumOver(need, S)
  BY <1>2, LoadIsSum
<1>4. SumOver(need, S) \in Nat
  BY <1>2, SumNat
<1>. QED BY <1>3, <1>4

LEMMA LoadEmpty == ASSUME NEW demand, NEW d PROVE Load({}, demand, d) = 0
<1>. DEFINE need == [x \in {} |-> 0]
<1>1. \A x \in {} : need[x] = demand[x][d]
  OBVIOUS
<1>. HIDE DEF need
<1>2. Load({}, demand, d) = SumOver(need, {})
  BY <1>1, LoadIsSum
<1>. QED BY <1>2, SumEmpty

\* Among workers with room one has the least memory left, and the lowest number.
LEMMA TightestExists ==
  ASSUME NEW C \in SUBSET Nat, C # {}, NEW bins, \A w \in C : bins[w].memory \in Nat
  PROVE  \E w \in C : \A v \in C :
           bins[w].memory < bins[v].memory \/ (bins[w].memory = bins[v].memory /\ w <= v)
<1>. DEFINE M == {bins[w].memory : w \in C}
<1>1. PICK m \in M : \A n \in M : m <= n
  <2>1. M \in SUBSET Nat /\ M # {}
    OBVIOUS
  <2>. HIDE DEF M
  <2>. QED BY <2>1, LeastNumber
<1>. DEFINE L == {w \in C : bins[w].memory = m}
<1>2. PICK w \in L : \A v \in L : w <= v
  <2>1. L \in SUBSET Nat /\ L # {}
    BY <1>1
  <2>. HIDE DEF L
  <2>. QED BY <2>1, LeastNumber
<1>3. \A v \in C : m <= bins[v].memory
  BY <1>1
<1>. QED BY <1>2, <1>3

\* Before the first reservation nothing is placed.
LEMMA NothingFits ==
  ASSUME NEW A, NEW demand, NEW W, NEW free, Bins(W, free)
  PROVE  FitSoFar([a \in {} |-> 0], A, W, demand, free, free)
<1>. DEFINE none == [a \in {} |-> 0]
<1>1. DOMAIN none = {} /\ none \in [{} -> W]
  OBVIOUS
<1>. HIDE DEF none
<1>2. \A w : {a \in DOMAIN none : none[a] = w} = {}
  BY <1>1
<1>3. \A w \in W, d \in Dimension : free[w][d] = free[w][d] - Load({a \in DOMAIN none : none[a] = w}, demand, d)
  BY <1>2, LoadEmpty DEF Bins
<1>4. IsBestFit(none, W, demand, free)
  BY <1>1 DEF IsBestFit
<1>5. FitSoFar(none, A, W, demand, free, free)
  BY <1>1, <1>3, <1>4 DEF FitSoFar
<1>. QED BY <1>5 DEF none

\* Best fit leaves no choice: two best fits agree on every application whose
\* predecessors both of them place.
LEMMA BestFitAgrees ==
  ASSUME NEW A, NEW demand, Reservations(A, demand),
         NEW workers \in SUBSET Nat, NEW free, Bins(workers, free),
         NEW D, Closed(D, A, demand),
         NEW f \in [D -> workers], IsBestFit(f, workers, demand, free),
         NEW g \in [A -> workers], IsBestFit(g, workers, demand, free)
  PROVE  \A b \in D : f[b] = g[b]
<1>0. A \in SUBSET Nat /\ IsFiniteSet(A) /\ \A b \in A : demand[b] \in Vector(Nat)
  BY DEF Reservations
<1>9. D \in SUBSET A /\ \A c \in D, e \in A : PlacedBefore(e, c, demand) => e \in D
  BY DEF Closed
<1>. DEFINE Bad == {b \in D : f[b] # g[b]}
<1>1. SUFFICES ASSUME Bad # {} PROVE FALSE
  OBVIOUS
<1>2. PICK b \in Bad : \A c \in Bad \ {b} : PlacedBefore(b, c, demand)
  <2>1. Bad \in SUBSET Nat /\ Bad \in SUBSET A
    BY <1>0, <1>9
  <2>2. IsFiniteSet(Bad) /\ \A a \in Bad : demand[a] \in Vector(Nat)
    BY <1>0, <1>9, <2>1, FS_Subset
  <2>. HIDE DEF Bad
  <2>. QED BY <1>1, <2>1, <2>2, FirstPlaced
<1>3. b \in D /\ b \in A /\ f[b] # g[b] /\ f[b] \in workers /\ g[b] \in workers /\ f[b] \in Nat /\ g[b] \in Nat
  BY <1>0, <1>9
<1>4. \A c \in D : PlacedBefore(c, b, demand) => f[c] = g[c]
  <2>1. ASSUME NEW c \in D, PlacedBefore(c, b, demand), c \in Bad PROVE FALSE
    <3>1. c # b
      BY <1>0, <1>3, <2>1, PlacementOrder
    <3>2. PlacedBefore(b, c, demand)
      BY <1>2, <2>1, <3>1
    <3>3. PlacedBefore(b, b, demand)
      BY <1>0, <1>9, <1>3, <2>1, <3>2, PlacementOrder
    <3>. QED BY <1>0, <1>3, <3>3, PlacementOrder
  <2>. QED BY <2>1
<1>5. \A w \in workers : RoomAt(w, b, f, demand, free) = RoomAt(w, b, g, demand, free)
  <2>1. ASSUME NEW w \in workers
        PROVE  {c \in DOMAIN f : f[c] = w /\ PlacedBefore(c, b, demand)}
                 = {c \in DOMAIN g : g[c] = w /\ PlacedBefore(c, b, demand)}
    BY <1>0, <1>9, <1>3, <1>4
  <2>. QED BY <2>1 DEF RoomAt
<1>6. \A w \in workers : RoomAt(w, b, f, demand, free).memory \in Int
  <2>. SUFFICES ASSUME NEW w \in workers PROVE RoomAt(w, b, f, demand, free).memory \in Int
    OBVIOUS
  <2>. DEFINE before == {c \in DOMAIN f : f[c] = w /\ PlacedBefore(c, b, demand)}
  <2>1. before \in SUBSET A /\ b \in A \ before
    BY <1>0, <1>9, <1>3, PlacementOrder
  <2>2. Load(before, demand, "memory") \in Nat
    <3>. HIDE DEF before
    <3>1. before \subseteq A /\ b \in A /\ b \notin before /\ "memory" \in Dimension
      BY <2>1 DEF Dimension
    <3>. QED BY <3>1, LoadAdds
  <2>3. RoomAt(w, b, f, demand, free).memory = free[w]["memory"] - Load(before, demand, "memory")
    BY DEF RoomAt, Dimension
  <2>4. free[w]["memory"] \in Int
    BY DEF Dimension, Bins
  <2>. HIDE DEF before
  <2>. QED BY <2>2, <2>3, <2>4
<1>7. /\ Fits(demand[b], RoomAt(f[b], b, f, demand, free))
      /\ \A w \in workers : Fits(demand[b], RoomAt(w, b, f, demand, free)) =>
           \/ RoomAt(f[b], b, f, demand, free).memory < RoomAt(w, b, f, demand, free).memory
           \/ RoomAt(f[b], b, f, demand, free).memory = RoomAt(w, b, f, demand, free).memory /\ f[b] <= w
  BY <1>3 DEF IsBestFit
<1>8. /\ Fits(demand[b], RoomAt(g[b], b, g, demand, free))
      /\ \A w \in workers : Fits(demand[b], RoomAt(w, b, g, demand, free)) =>
           \/ RoomAt(g[b], b, g, demand, free).memory < RoomAt(w, b, g, demand, free).memory
           \/ RoomAt(g[b], b, g, demand, free).memory = RoomAt(w, b, g, demand, free).memory /\ g[b] <= w
  BY <1>3 DEF IsBestFit
<1>. QED BY <1>3, <1>5, <1>6, <1>7, <1>8

\* When its turn comes, a worker has the room that is left in its bin.
LEMMA RoomIsLeft ==
  ASSUME NEW A, NEW demand, Reservations(A, demand),
         NEW W, NEW free, NEW bins, NEW asg, FitSoFar(asg, A, W, demand, free, bins),
         NEW a, Turn(a, A, asg, demand),
         NEW D \in SUBSET A, NEW g \in [D -> W], \A b \in DOMAIN asg : b \in D /\ g[b] = asg[b]
  PROVE  \A w \in W : /\ \A d \in Dimension : RoomAt(w, a, g, demand, free)[d] = bins[w][d]
                      /\ RoomAt(w, a, g, demand, free).memory = bins[w].memory
<1>. SUFFICES ASSUME NEW w \in W
              PROVE  /\ \A d \in Dimension : RoomAt(w, a, g, demand, free)[d] = bins[w][d]
                     /\ RoomAt(w, a, g, demand, free).memory = bins[w].memory
  OBVIOUS
<1>. DEFINE before == {b \in DOMAIN g : g[b] = w /\ PlacedBefore(b, a, demand)}
<1>0. A \in SUBSET Nat /\ IsFiniteSet(A) /\ \A b \in A : demand[b] \in Vector(Nat)
  BY DEF Reservations
<1>turn. a \in A \ DOMAIN asg /\ \A c \in A \ DOMAIN asg : c # a => PlacedBefore(a, c, demand)
  BY DEF Turn
<1>1. \A c \in A : PlacedBefore(c, a, demand) <=> c \in DOMAIN asg
  <2>1. ASSUME NEW c \in A, PlacedBefore(c, a, demand), c \notin DOMAIN asg PROVE FALSE
    <3>1. c # a
      BY <1>0, <1>turn, <2>1, PlacementOrder
    <3>2. PlacedBefore(a, c, demand)
      BY <1>0, <1>turn, <2>1, <3>1
    <3>3. PlacedBefore(a, a, demand)
      BY <1>0, <1>turn, <2>1, <3>2, PlacementOrder
    <3>. QED BY <1>0, <1>turn, <3>3, PlacementOrder
  <2>2. ASSUME NEW c \in DOMAIN asg PROVE PlacedBefore(c, a, demand)
    BY <1>0, <1>turn DEF FitSoFar
  <2>. QED BY <2>1, <2>2
<1>2. before = {b \in DOMAIN asg : asg[b] = w}
  BY <1>1 DEF FitSoFar
<1>3. \A d \in Dimension : bins[w][d] = free[w][d] - Load({b \in DOMAIN asg : asg[b] = w}, demand, d)
  BY DEF FitSoFar
<1>4. \A d \in Dimension : RoomAt(w, a, g, demand, free)[d] = free[w][d] - Load(before, demand, d)
  BY DEF RoomAt
<1>. HIDE DEF before
<1>5. \A d \in Dimension : RoomAt(w, a, g, demand, free)[d] = bins[w][d]
  BY <1>2, <1>3, <1>4
<1>. QED BY <1>5 DEF Dimension

\* Placing the next application where it leaves least memory keeps that so.
LEMMA NextIsPlaced ==
  ASSUME NEW A, NEW demand, Reservations(A, demand), NEW W, NEW free, Bins(W, free),
         NEW bins, NEW asg, FitSoFar(asg, A, W, demand, free, bins), NEW a, Turn(a, A, asg, demand),
         NEW w, Best(w, W, demand[a], bins), NEW bins2, Charged(bins2, bins, W, w, demand[a])
  PROVE  FitSoFar([b \in DOMAIN asg \cup {a} |-> IF b = a THEN w ELSE asg[b]], A, W, demand, free, bins2)
<1>adds. ASSUME NEW S, S \subseteq A, a \notin S, NEW d \in Dimension
         PROVE  /\ Load(S \cup {a}, demand, d) = Load(S, demand, d) + demand[a][d]
                /\ Load(S, demand, d) \in Nat /\ demand[a][d] \in Nat
  <2>1. a \in A
    BY DEF Turn
  <2>. QED BY <1>adds, <2>1, LoadAdds
<1>. DEFINE asg2 == [b \in DOMAIN asg \cup {a} |-> IF b = a THEN w ELSE asg[b]]
<1>best. /\ w \in W /\ Fits(demand[a], bins[w])
      /\ \A v \in W : Fits(demand[a], bins[v]) =>
           bins[w].memory < bins[v].memory \/ (bins[w].memory = bins[v].memory /\ w <= v)
  BY DEF Best
<1>charged. \A v \in W, d \in Dimension : bins2[v][d] = IF v = w THEN bins[v][d] - demand[a][d] ELSE bins[v][d]
  BY DEF Charged
<1>0. A \in SUBSET Nat /\ IsFiniteSet(A) /\ \A b \in A : demand[b] \in Vector(Nat)
  BY DEF Reservations
<1>turn. a \in A \ DOMAIN asg /\ \A c \in A \ DOMAIN asg : c # a => PlacedBefore(a, c, demand)
  BY DEF Turn
<1>1. /\ DOMAIN asg2 = DOMAIN asg \cup {a} /\ asg2[a] = w /\ \A b \in DOMAIN asg : asg2[b] = asg[b]
      /\ DOMAIN asg \subseteq A /\ asg \in [DOMAIN asg -> W] /\ a \in A /\ a \notin DOMAIN asg
  BY <1>0, <1>turn DEF FitSoFar
<1>2. DOMAIN asg2 \subseteq A /\ asg2 \in [DOMAIN asg2 -> W]
  BY <1>best, <1>1
<1>. HIDE DEF asg2
<1>kept. DOMAIN asg2 \in SUBSET A /\ \A b \in DOMAIN asg : b \in DOMAIN asg2 /\ asg2[b] = asg[b]
  BY <1>1, <1>2
<1>3. ASSUME NEW b \in DOMAIN asg2, NEW c \in A \ DOMAIN asg2 PROVE PlacedBefore(b, c, demand)
  <2>1. CASE b = a
    BY <1>0, <1>turn, <1>1, <2>1
  <2>2. CASE b \in DOMAIN asg
    BY <1>1, <2>2 DEF FitSoFar
  <2>. QED BY <1>1, <2>1, <2>2
<1>4. \A v \in W : /\ \A d \in Dimension : RoomAt(v, a, asg2, demand, free)[d] = bins[v][d]
                   /\ RoomAt(v, a, asg2, demand, free).memory = bins[v].memory
  BY <1>2, <1>kept, RoomIsLeft
<1>5. ASSUME NEW b \in DOMAIN asg, NEW v \in W PROVE RoomAt(v, b, asg2, demand, free) = RoomAt(v, b, asg, demand, free)
  <2>1. ~PlacedBefore(a, b, demand)
    <3>1. b \in A /\ a \in A /\ PlacedBefore(b, a, demand)
      BY <1>1 DEF FitSoFar
    <3>. QED BY <1>0, <1>turn, <3>1, PlacementOrder
  <2>2. {c \in DOMAIN asg2 : asg2[c] = v /\ PlacedBefore(c, b, demand)} = {c \in DOMAIN asg : asg[c] = v /\ PlacedBefore(c, b, demand)}
    BY <1>1, <2>1
  <2>. QED BY <2>2 DEF RoomAt
<1>6. IsBestFit(asg2, W, demand, free)
  <2>. SUFFICES ASSUME NEW b \in DOMAIN asg2
                PROVE  /\ Fits(demand[b], RoomAt(asg2[b], b, asg2, demand, free))
                       /\ \A v \in W : Fits(demand[b], RoomAt(v, b, asg2, demand, free)) =>
                            \/ RoomAt(asg2[b], b, asg2, demand, free).memory < RoomAt(v, b, asg2, demand, free).memory
                            \/ /\ RoomAt(asg2[b], b, asg2, demand, free).memory = RoomAt(v, b, asg2, demand, free).memory
                               /\ asg2[b] <= v
    BY <1>2 DEF IsBestFit
  <2>1. CASE b = a
    <3>1. \A v \in W : Fits(demand[a], RoomAt(v, a, asg2, demand, free)) <=> Fits(demand[a], bins[v])
      BY <1>4 DEF Fits
    <3>. QED BY <1>best, <1>1, <1>4, <2>1, <3>1
  <2>2. CASE b \in DOMAIN asg
    <3>1. /\ Fits(demand[b], RoomAt(asg[b], b, asg, demand, free))
          /\ \A v \in W : Fits(demand[b], RoomAt(v, b, asg, demand, free)) =>
               \/ RoomAt(asg[b], b, asg, demand, free).memory < RoomAt(v, b, asg, demand, free).memory
               \/ /\ RoomAt(asg[b], b, asg, demand, free).memory = RoomAt(v, b, asg, demand, free).memory
                  /\ asg[b] <= v
      <4>1. IsBestFit(asg, W, demand, free) /\ asg[b] \in W
        BY <1>1, <2>2 DEF FitSoFar
      <4>. QED BY <2>2, <4>1 DEF IsBestFit
    <3>2. asg2[b] = asg[b] /\ asg[b] \in W /\ \A v \in W : RoomAt(v, b, asg2, demand, free) = RoomAt(v, b, asg, demand, free)
      BY <1>1, <1>5, <2>2
    <3>. QED BY <3>1, <3>2
  <2>. QED BY <1>1, <2>1, <2>2
<1>7. ASSUME NEW v \in W, NEW d \in Dimension
      PROVE  bins2[v][d] = free[v][d] - Load({b \in DOMAIN asg2 : asg2[b] = v}, demand, d)
  <2>. DEFINE on == {b \in DOMAIN asg : asg[b] = v}
              on2 == {b \in DOMAIN asg2 : asg2[b] = v}
  <2>1. bins[v][d] = free[v][d] - Load(on, demand, d) /\ free[v][d] \in Int
    BY <1>0, <1>turn DEF FitSoFar, Bins
  <2>2. on \subseteq A /\ a \in A /\ a \notin on
    BY <1>1
  <2>3. CASE v = w
    <3>1. on2 = on \cup {a}
      BY <1>1, <2>3
    <3>. HIDE DEF on, on2
    <3>2. Load(on \cup {a}, demand, d) = Load(on, demand, d) + demand[a][d] /\ Load(on, demand, d) \in Nat /\ demand[a][d] \in Nat
      BY <2>2, <1>adds
    <3>3. bins2[v][d] = bins[v][d] - demand[a][d]
      BY <1>charged, <2>3
    <3>4. bins2[v][d] = free[v][d] - Load(on2, demand, d)
      BY <2>1, <3>1, <3>2, <3>3
    <3>. QED BY <3>4 DEF on2
  <2>4. CASE v # w
    <3>1. on2 = on
      BY <1>1, <2>4
    <3>. HIDE DEF on, on2
    <3>2. bins2[v][d] = bins[v][d]
      BY <1>charged, <2>4
    <3>3. bins2[v][d] = free[v][d] - Load(on2, demand, d)
      BY <2>1, <3>1, <3>2
    <3>. QED BY <3>3 DEF on2
  <2>. QED BY <2>3, <2>4
<1>8. FitSoFar(asg2, A, W, demand, free, bins2)
  BY <1>2, <1>3, <1>6, <1>7 DEF FitSoFar
<1>. QED BY <1>8 DEF asg2

\* Every best fit agrees with a partial one, on what that one has placed.
LEMMA SoFarAgrees ==
  ASSUME NEW A, NEW demand, Reservations(A, demand),
         NEW W \in SUBSET Nat, NEW free, Bins(W, free),
         NEW bins, NEW asg, FitSoFar(asg, A, W, demand, free, bins)
  PROVE  \A g \in Placements(A, W, demand, free) : \A b \in DOMAIN asg : g[b] = asg[b]
<1>. SUFFICES ASSUME NEW g \in Placements(A, W, demand, free) PROVE \A b \in DOMAIN asg : g[b] = asg[b]
  OBVIOUS
<1>0. A \in SUBSET Nat /\ IsFiniteSet(A) /\ \A b \in A : demand[b] \in Vector(Nat)
  BY DEF Reservations
<1>1. g \in [A -> W] /\ IsBestFit(g, W, demand, free)
  BY DEF Placements
<1>2. DOMAIN asg \in SUBSET A /\ asg \in [DOMAIN asg -> W] /\ IsBestFit(asg, W, demand, free)
  BY DEF FitSoFar
<1>3. ASSUME NEW b \in DOMAIN asg, NEW c \in A, PlacedBefore(c, b, demand), c \notin DOMAIN asg PROVE FALSE
  <2>1. PlacedBefore(b, c, demand) /\ b \in A
    BY <1>3 DEF FitSoFar
  <2>2. PlacedBefore(b, b, demand)
    BY <1>0, <1>3, <2>1, PlacementOrder
  <2>. QED BY <1>0, <2>1, <2>2, PlacementOrder
<1>4. Closed(DOMAIN asg, A, demand)
  BY <1>2, <1>3 DEF Closed
<1>5. \A b \in DOMAIN asg : asg[b] = g[b]
  BY <1>1, <1>2, <1>4, BestFitAgrees
<1>. QED BY <1>5

\* What has placed every application is the placement.
LEMMA WholeIsPlacement ==
  ASSUME NEW A, NEW demand, Reservations(A, demand),
         NEW W \in SUBSET Nat, NEW free, Bins(W, free),
         NEW bins, NEW asg, FitSoFar(asg, A, W, demand, free, bins)
  PROVE  W # {} /\ DOMAIN asg = A => Placements(A, W, demand, free) = {asg}
<1>1. \A g \in Placements(A, W, demand, free) : \A b \in DOMAIN asg : g[b] = asg[b]
  BY SoFarAgrees, Z3
<1>. SUFFICES ASSUME W # {}, DOMAIN asg = A PROVE Placements(A, W, demand, free) = {asg}
  OBVIOUS
<1>2. asg \in [A -> W] /\ IsBestFit(asg, W, demand, free)
  BY DEF FitSoFar
<1>3. asg \in Placements(A, W, demand, free)
  BY <1>2 DEF Placements
<1>4. ASSUME NEW g \in Placements(A, W, demand, free) PROVE g = asg
  <2>1. g \in [A -> W]
    BY DEF Placements
  <2>. QED BY <1>1, <1>2, <2>1
<1>. QED BY <1>3, <1>4

\* Where the next application fits no bin, there is no placement.
LEMMA NoneIsLeft ==
  ASSUME NEW A, NEW demand, Reservations(A, demand),
         NEW W \in SUBSET Nat, NEW free, Bins(W, free),
         NEW bins, NEW asg, FitSoFar(asg, A, W, demand, free, bins),
         NEW a, Turn(a, A, asg, demand),
         \A w \in W : ~Fits(demand[a], bins[w])
  PROVE  Placements(A, W, demand, free) = {}
<1>0. \A g \in Placements(A, W, demand, free) : \A b \in DOMAIN asg : g[b] = asg[b]
  BY SoFarAgrees, Z3
<1>. SUFFICES ASSUME NEW g \in Placements(A, W, demand, free) PROVE FALSE
  OBVIOUS
<1>1. g \in [A -> W] /\ IsBestFit(g, W, demand, free)
  BY DEF Placements
<1>turn. a \in A \ DOMAIN asg /\ \A c \in A \ DOMAIN asg : c # a => PlacedBefore(a, c, demand)
  BY DEF Turn
<1>2. DOMAIN asg \subseteq A
  BY DEF FitSoFar
<1>3. \A b \in DOMAIN asg : b \in A /\ g[b] = asg[b]
  BY <1>0, <1>2
<1>4. A \in SUBSET A /\ g[a] \in W
  BY <1>turn, <1>1
<1>5. \A d \in Dimension : RoomAt(g[a], a, g, demand, free)[d] = bins[g[a]][d]
  BY <1>1, <1>3, <1>4, RoomIsLeft
<1>6. Fits(demand[a], RoomAt(g[a], a, g, demand, free))
  BY <1>turn, <1>1, <1>4 DEF IsBestFit
<1>. QED BY <1>4, <1>5, <1>6 DEF Fits

\* What a function yields on a finite set is a finite set.
LEMMA FiniteImage ==
  ASSUME NEW S, IsFiniteSet(S), NEW f
  PROVE  IsFiniteSet({f[x] : x \in S})
<1>. DEFINE T == {f[x] : x \in S}
            g == [x \in S |-> f[x]]
<1>1. g \in Surjection(S, T)
  BY DEF Surjection
<1>. QED BY <1>1, FS_Surjection

\* Finitely many numbers have a largest.
LEMMA LargestExists ==
  ASSUME NEW S \in SUBSET Nat, IsFiniteSet(S), S # {}
  PROVE  Max(S) \in S /\ \A n \in S : Max(S) >= n
<1>. DEFINE Bad == {T \in SUBSET S : T # {} /\ ~\E m \in T : \A n \in T : m >= n}
<1>1. SUFFICES ASSUME Bad # {} PROVE FALSE
  <2>1. ASSUME Bad = {} PROVE Max(S) \in S /\ \A n \in S : Max(S) >= n
    <3>1. \E m \in S : \A n \in S : m >= n
      BY <2>1
    <3>. QED BY <3>1 DEF Max
  <2>. QED BY <2>1
<1>2. PICK T \in Bad : \A y \in T : T \ {y} \notin Bad
  <2>1. Bad \in SUBSET SUBSET S
    OBVIOUS
  <2>. HIDE DEF Bad
  <2>. QED BY <1>1, <2>1, MinimalSet
<1>3. PICK y \in T : TRUE
  OBVIOUS
<1>4. y \in Nat /\ T \in SUBSET Nat
  BY <1>2, <1>3
<1>5. CASE T \ {y} = {}
  <2>1. \A n \in T : y >= n
    BY <1>3, <1>4, <1>5
  <2>. QED BY <1>2, <1>3, <2>1
<1>6. CASE T \ {y} # {}
  <2>1. PICK m \in T \ {y} : \A n \in T \ {y} : m >= n
    BY <1>2, <1>3, <1>6
  <2>2. m \in Nat
    BY <1>4, <2>1
  <2>3. CASE m >= y
    <3>1. \A n \in T : m >= n
      BY <2>1, <2>3
    <3>. QED BY <1>2, <2>1, <3>1
  <2>4. CASE y >= m
    <3>1. \A n \in T : y >= n
      BY <1>3, <1>4, <2>1, <2>2, <2>4
    <3>. QED BY <1>2, <1>3, <3>1
  <2>. QED BY <1>4, <2>2, <2>3, <2>4
<1>. QED BY <1>5, <1>6

-----------------------------------------------------------------------------
(* Lists of records.                                                       *)

LEMMA ListType ==
  ASSUME NEW T, NEW s \in Seq(T)
  PROVE  /\ Len(s) \in Nat /\ DOMAIN s = 1 .. Len(s) /\ IsFiniteSet(DOMAIN s) /\ DOMAIN s \in SUBSET Nat
         /\ s \in [DOMAIN s -> T] /\ Len(s) + 1 \notin DOMAIN s
<1>1. Len(s) \in Nat /\ DOMAIN s = 1 .. Len(s) /\ s \in [1 .. Len(s) -> T]
  OBVIOUS
<1>2. IsFiniteSet(1 .. Len(s))
  BY <1>1, FS_Interval
<1>. QED BY <1>1, <1>2

\* A record more.
LEMMA ListAppend ==
  ASSUME NEW T, NEW s \in Seq(T), NEW x
  PROVE  /\ DOMAIN Append(s, x) = DOMAIN s \cup {Len(s) + 1}
         /\ \A i \in DOMAIN s : Append(s, x)[i] = s[i]
         /\ Append(s, x)[Len(s) + 1] = x
         /\ Append(s, x) \in Seq(T \cup {x})
<1>1. s \in Seq(T \cup {x}) /\ Len(s) \in Nat /\ DOMAIN s = 1 .. Len(s)
  <2>1. s \in [1 .. Len(s) -> T \cup {x}] /\ Len(s) \in Nat
    OBVIOUS
  <2>. QED BY <2>1, SeqDef
<1>2. /\ Append(s, x) \in Seq(T \cup {x}) /\ Len(Append(s, x)) = Len(s) + 1
      /\ DOMAIN Append(s, x) = 1 .. Len(Append(s, x))
      /\ \A i \in 1 .. Len(s) : Append(s, x)[i] = s[i]
      /\ Append(s, x)[Len(s) + 1] = x
  BY <1>1, AppendProperties
<1>. QED BY <1>1, <1>2

\* As many records, of another type.
LEMMA ListRetype ==
  ASSUME NEW T, NEW s \in Seq(T), NEW U, NEW t, DOMAIN t = DOMAIN s, t \in [DOMAIN s -> U]
  PROVE  t \in Seq(U) /\ Len(t) = Len(s)
<1>1. Len(s) \in Nat /\ DOMAIN s = 1 .. Len(s)
  OBVIOUS
<1>2. t \in [1 .. Len(s) -> U]
  BY <1>1
<1>3. t \in Seq(U)
  BY <1>1, <1>2
<1>4. Len(t) \in Nat /\ DOMAIN t = 1 .. Len(t)
  BY <1>3
<1>5. 1 .. Len(t) = 1 .. Len(s)
  BY <1>1, <1>4
<1>. QED BY <1>1, <1>3, <1>4, <1>5

\* One record written.
OneChanged(new, s, i, v) == new = [s EXCEPT ![i] = v]

LEMMA ListChange ==
  ASSUME NEW T, NEW s \in Seq(T), NEW i \in DOMAIN s, NEW v \in T, NEW new, OneChanged(new, s, i, v)
  PROVE  /\ new \in Seq(T) /\ DOMAIN new = DOMAIN s /\ Len(new) = Len(s) /\ new \in [DOMAIN s -> T]
         /\ new[i] = v /\ \A j \in DOMAIN s : j # i => new[j] = s[j]
<1>1. Len(s) \in Nat /\ DOMAIN s = 1 .. Len(s) /\ s \in [DOMAIN s -> T]
  BY ListType
<1>2. DOMAIN new = DOMAIN s /\ new \in [DOMAIN s -> T] /\ new[i] = v /\ \A j \in DOMAIN s : j # i => new[j] = s[j]
  BY <1>1 DEF OneChanged
<1>3. new \in Seq(T) /\ Len(new) = Len(s)
  BY <1>2, ListRetype
<1>. QED BY <1>2, <1>3

\* A list that another continues.
Continues(new, old) == DOMAIN old \subseteq DOMAIN new /\ \A i \in DOMAIN old : new[i] = old[i]

\* One more of a list of records.
LEMMA ListContinued ==
  ASSUME NEW T, NEW s \in Seq(T), NEW x \in T
  PROVE  /\ Append(s, x) \in Seq(T) /\ Continues(Append(s, x), s) /\ Continues(s, s)
         /\ Len(s) \in Nat /\ Len(s) + 1 \notin DOMAIN s
         /\ DOMAIN Append(s, x) = DOMAIN s \cup {Len(s) + 1} /\ Append(s, x)[Len(s) + 1] = x
<1>1. T \cup {x} = T
  OBVIOUS
<1>. QED BY <1>1, ListAppend, ListType DEF Continues

LEMMA OneChangedBy ==
  ASSUME NEW s, NEW i, NEW v
  PROVE  OneChanged([s EXCEPT ![i] = v], s, i, v)
BY DEF OneChanged

\* A list of a smaller kind.
LEMMA ListWidens ==
  ASSUME NEW T, NEW U, T \subseteq U, NEW s \in Seq(T)
  PROVE  s \in Seq(U)
<1>1. s \in [DOMAIN s -> U]
  BY ListType
<1>. QED BY <1>1, ListRetype

\* A set with no two elements.
LEMMA AtMostOne ==
  ASSUME NEW S, IsFiniteSet(S)
  PROVE  /\ Cardinality(S) <= 1 <=> \A x, y \in S : x = y
         /\ Cardinality(S) = 0 <=> S = {}
         /\ Cardinality(S) = 1 <=> \E x : S = {x}
<1>1. Cardinality(S) \in Nat /\ (Cardinality(S) = 0 <=> S = {})
  BY FS_CardinalityType, FS_EmptySet
<1>2. \A x : Cardinality({x}) = 1
  BY FS_Singleton
<1>3. ASSUME NEW x \in S, NEW y \in S, x # y PROVE ~(Cardinality(S) <= 1)
  <2>1. IsFiniteSet({x}) /\ y \notin {x} /\ Cardinality({x}) = 1
    BY <1>3, FS_Singleton
  <2>2. Cardinality({x} \cup {y}) = 2
    BY <2>1, FS_AddElement
  <2>3. Cardinality({x} \cup {y}) <= Cardinality(S)
    BY FS_Subset
  <2>. QED BY <1>1, <2>2, <2>3
<1>4. ASSUME \A x, y \in S : x = y PROVE S = {} \/ \E x : S = {x}
  <2>1. ASSUME NEW x \in S PROVE S = {x}
    BY <1>4, <2>1
  <2>. QED BY <2>1
<1>5. CASE \A x, y \in S : x = y
  <2>1. CASE S = {}
    BY <1>1, <2>1
  <2>2. CASE \E x : S = {x}
    BY <1>1, <1>2, <2>2
  <2>. QED BY <1>4, <1>5, <2>1, <2>2
<1>6. CASE ~\A x, y \in S : x = y
  <2>1. ~(Cardinality(S) <= 1) /\ S # {}
    BY <1>3, <1>6
  <2>. QED BY <1>1, <1>2, <1>6, <2>1
<1>. QED BY <1>5, <1>6

\* A set mapped into others, one to one in each, is no larger than they are
\* together.
LEMMA FibresCount ==
  ASSUME NEW S, IsFiniteSet(S), NEW R, IsFiniteSet(R), NEW m, NEW o, NEW q,
         \A x \in S : m[x] \in R /\ o[x] \in 1 .. q[m[x]],
         \A x, y \in S : m[x] = m[y] /\ o[x] = o[y] => x = y,
         \A r \in R : q[r] \in Nat
  PROVE  Cardinality(S) <= SumOver(q, R)
<1>. DEFINE Of(T) == {x \in S : m[x] \in T}
            Bad == {T \in SUBSET R : ~(Cardinality(Of(T)) <= SumOver(q, T))}
<1>1. SUFFICES ASSUME Bad # {} PROVE FALSE
  <2>1. Of(R) = S
    OBVIOUS
  <2>2. Bad = {} => Cardinality(Of(R)) <= SumOver(q, R)
    OBVIOUS
  <2>. QED BY <2>1, <2>2
<1>2. PICK T \in Bad : \A y \in T : T \ {y} \notin Bad
  <2>1. Bad \in SUBSET SUBSET R
    OBVIOUS
  <2>. HIDE DEF Bad
  <2>. QED BY <1>1, <2>1, MinimalSet
<1>3. T \in SUBSET R /\ ~(Cardinality(Of(T)) <= SumOver(q, T)) /\ IsFiniteSet(T)
  BY FS_Subset
<1>4. T # {}
  <2>1. SUFFICES ASSUME T = {} PROVE FALSE
    OBVIOUS
  <2>2. Of(T) = {}
    BY <2>1
  <2>. HIDE DEF Of
  <2>. QED BY <1>3, <2>1, <2>2, SumEmpty, FS_EmptySet
<1>5. PICK r \in T : TRUE
  BY <1>4
<1>6. Cardinality(Of(T \ {r})) <= SumOver(q, T \ {r})
  BY <1>2, <1>3
<1>7. SumOver(q, T) = q[r] + SumOver(q, T \ {r}) /\ SumOver(q, T \ {r}) \in Int /\ q[r] \in Nat
  <2>1. \A x \in T : q[x] \in Int
    BY <1>3
  <2>. QED BY <1>3, <1>5, <2>1, SumRemove
<1>8. Of(T) = Of(T \ {r}) \cup Of({r})
  BY <1>5
<1>9. IsFiniteSet(Of(T \ {r})) /\ IsFiniteSet(Of({r}))
  BY FS_Subset
<1>10. Cardinality(Of({r})) <= q[r]
  <2>. DEFINE f == [x \in Of({r}) |-> o[x]]
  <2>1. f \in [Of({r}) -> 1 .. q[r]] /\ \A x, y \in Of({r}) : f[x] = f[y] => x = y
    OBVIOUS
  <2>2. IsFiniteSet(1 .. q[r]) /\ Cardinality(1 .. q[r]) = q[r]
    BY <1>7, FS_Interval
  <2>. HIDE DEF f, Of
  <2>3. f \in Injection(Of({r}), 1 .. q[r])
    BY <2>1 DEF Injection, IsInjective
  <2>4. Cardinality(Of({r})) <= Cardinality(1 .. q[r])
    BY <2>2, <2>3, FS_Injection
  <2>. QED BY <2>2, <2>4
<1>. HIDE DEF Of, Bad
<1>11. Cardinality(Of(T)) <= Cardinality(Of(T \ {r})) + Cardinality(Of({r}))
  <2>1. Cardinality(Of(T)) = Cardinality(Of(T \ {r})) + Cardinality(Of({r})) - Cardinality(Of(T \ {r}) \cap Of({r}))
    BY <1>8, <1>9, FS_Union
  <2>2. IsFiniteSet(Of(T \ {r}) \cap Of({r}))
    BY <1>9, FS_Subset
  <2>. QED BY <1>9, <2>1, <2>2, FS_CardinalityType
<1>12. Cardinality(Of(T)) \in Nat /\ Cardinality(Of(T \ {r})) \in Nat /\ Cardinality(Of({r})) \in Nat
  BY <1>8, <1>9, FS_Union, FS_CardinalityType
<1>. QED BY <1>3, <1>6, <1>7, <1>10, <1>11, <1>12
=============================================================================
