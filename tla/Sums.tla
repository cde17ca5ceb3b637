-------------------------------- MODULE Sums --------------------------------
(***************************************************************************)
(* What SumFunctionOnSet, the sum of a function's values over a finite     *)
(* set, computes: the models count quantities, positions and lengths with  *)
(* it.  The operator is a fold, whose recursive definition has a solution  *)
(* and only one; both follow from a smallest set for which they would      *)
(* fail, as do the laws of addition below.                                 *)
(***************************************************************************)
EXTENDS Integers, Functions, FiniteSetTheorems, WellFoundedInduction, TLAPS

\* Among the subsets of a finite set, any collection has a smallest one.
LEMMA SmallestSubset ==
  ASSUME NEW S, IsFiniteSet(S), NEW B, B \subseteq SUBSET S, B # {}
  PROVE  \E T \in B : \A U \in B : U \subseteq T => U = T
<1>1. IsWellFoundedOn(StrictSubsetOrdering(S), SUBSET S)
  BY FS_StrictSubsetOrderingWellFounded, FS_FiniteSubsetsOfFinite
<1>2. PICK T \in B : \A U \in B : ~(<<U, T>> \in StrictSubsetOrdering(S))
  BY <1>1, WFMin
<1> QED BY <1>2 DEF StrictSubsetOrdering

\* The natural numbers have least elements.
LEMMA LeastNatural ==
  ASSUME NEW S, S \subseteq Nat, S # {}
  PROVE  \E n \in S : \A m \in S : n <= m
<1>1. PICK n \in S : \A m \in S : ~(<<m, n>> \in OpToRel(<, Nat))
  BY NatLessThanWellFounded, WFMin
<1>2. ASSUME NEW m \in S PROVE n <= m
  <2>1. m \in Nat /\ n \in Nat OBVIOUS
  <2>2. ~(m < n) BY <1>1, <2>1 DEF OpToRel
  <2> QED BY <2>1, <2>2
<1> QED BY <1>2

Picked(s) == CHOOSE x \in s : TRUE

\* g is the fold that SumFunctionOnSet(f, S) looks up.
IsFold(g, f, S) ==
  g = [s \in SUBSET S |-> IF s = {} THEN 0 ELSE f[Picked(s)] + g[s \ {Picked(s)}]]

\* Two folds of the same function agree where both are defined.
LEMMA OneFold ==
  ASSUME NEW f, NEW S, NEW T, IsFiniteSet(S), IsFiniteSet(T),
         NEW g, NEW h, IsFold(g, f, S), IsFold(h, f, T),
         NEW s, s \subseteq S, s \subseteq T
  PROVE  g[s] = h[s]
<1> DEFINE B == {u \in SUBSET S : u \subseteq T /\ g[u] # h[u]}
<1> SUFFICES ASSUME B # {} PROVE FALSE OBVIOUS
<1>1. PICK u \in B : \A v \in B : v \subseteq u => v = u
  <2> HIDE DEF B
  <2>1. B \subseteq SUBSET S BY DEF B
  <2> QED BY <2>1, SmallestSubset
<1>2. u \subseteq S /\ u \subseteq T /\ g[u] # h[u] BY <1>1
<1>3. /\ g[u] = IF u = {} THEN 0 ELSE f[Picked(u)] + g[u \ {Picked(u)}]
      /\ h[u] = IF u = {} THEN 0 ELSE f[Picked(u)] + h[u \ {Picked(u)}]
  BY <1>2 DEF IsFold
<1>4. u # {} BY <1>2, <1>3
<1>5. Picked(u) \in u BY <1>4 DEF Picked
<1>6. g[u \ {Picked(u)}] = h[u \ {Picked(u)}] BY <1>1, <1>2, <1>5
<1> QED BY <1>2, <1>3, <1>6

LEMMA FoldExists ==
  ASSUME NEW f, NEW S, IsFiniteSet(S)
  PROVE  \E g : IsFold(g, f, S)
<1> DEFINE B == {T \in SUBSET S : ~ \E g : IsFold(g, f, T)}
<1> SUFFICES ASSUME B # {} PROVE FALSE OBVIOUS
<1>1. PICK T \in B : \A U \in B : U \subseteq T => U = T
  <2> HIDE DEF B
  <2>1. B \subseteq SUBSET S BY DEF B
  <2> QED BY <2>1, SmallestSubset
<1> DEFINE G(U) == CHOOSE g : IsFold(g, f, U)
           h == [s \in SUBSET T |-> IF s = {} THEN 0
                                    ELSE f[Picked(s)] + G(s \ {Picked(s)})[s \ {Picked(s)}]]
<1>2. ASSUME NEW U, U \subseteq T, U # T PROVE IsFold(G(U), f, U)
  <2>1. \E g : IsFold(g, f, U) BY <1>1, <1>2
  <2> QED BY <2>1
<1>3. \A U : U \subseteq T => IsFiniteSet(U) BY <1>1, FS_Subset
<1>4. ASSUME NEW u, u \subseteq T, u # T PROVE h[u] = G(u)[u]
  <2>0. h[u] = IF u = {} THEN 0 ELSE f[Picked(u)] + G(u \ {Picked(u)})[u \ {Picked(u)}]
    BY <1>4
  <2>1. IsFold(G(u), f, u) BY <1>2, <1>4
  <2>2. G(u)[u] = IF u = {} THEN 0 ELSE f[Picked(u)] + G(u)[u \ {Picked(u)}]
    <3> HIDE DEF G
    <3> QED BY <2>1 DEF IsFold
  <2>3. CASE u = {} BY <2>0, <2>2, <2>3
  <2>4. CASE u # {}
    <3> DEFINE v == u \ {Picked(u)}
    <3>1. v \subseteq u /\ v \subseteq T /\ v # T BY <1>4
    <3>2. IsFold(G(v), f, v) BY <1>2, <3>1
    <3>3. IsFiniteSet(u) /\ IsFiniteSet(v) BY <1>3, <1>4, <3>1
    <3>4. G(u)[v] = G(v)[v]
      <4> HIDE DEF G, v
      <4> QED BY <2>1, <3>1, <3>2, <3>3, OneFold
    <3> QED BY <2>0, <2>2, <2>4, <3>4
  <2> QED BY <2>3, <2>4
<1>5. IsFold(h, f, T)
  <2>1. ASSUME NEW s \in SUBSET T, s # {} PROVE h[s \ {Picked(s)}] = G(s \ {Picked(s)})[s \ {Picked(s)}]
    <3>1. Picked(s) \in s BY <2>1 DEF Picked
    <3>2. s \ {Picked(s)} \subseteq T /\ s \ {Picked(s)} # T BY <3>1
    <3> HIDE DEF h, G
    <3> QED BY <1>4, <3>2
  <2>2. h = [s \in SUBSET T |-> IF s = {} THEN 0 ELSE f[Picked(s)] + h[s \ {Picked(s)}]]
    <3>1. ASSUME NEW s \in SUBSET T
          PROVE  (IF s = {} THEN 0 ELSE f[Picked(s)] + G(s \ {Picked(s)})[s \ {Picked(s)}])
                 = (IF s = {} THEN 0 ELSE f[Picked(s)] + h[s \ {Picked(s)}])
      <4> HIDE DEF h, G
      <4> QED BY <2>1
    <3> DEFINE k == [s \in SUBSET T |-> IF s = {} THEN 0 ELSE f[Picked(s)] + h[s \ {Picked(s)}]]
    <3>2. h = k
      <4> HIDE DEF G
      <4> QED BY <3>1
    <3> QED BY <3>2
  <2> HIDE DEF h
  <2> QED BY <2>2 DEF IsFold
<1>6. ~ \E g : IsFold(g, f, T) BY <1>1
<1> QED BY <1>5, <1>6

\* The fold a sum looks up is the one its definition describes.
LEMMA SumByFold ==
  ASSUME NEW f, NEW S, IsFiniteSet(S)
  PROVE  \E g : IsFold(g, f, S) /\ SumFunctionOnSet(f, S) = g[S]
<1> DEFINE g == CHOOSE g : IsFold(g, f, S)
<1>1. IsFold(g, f, S) BY FoldExists
<1>2. SumFunctionOnSet(f, S) = g[S]
  BY DEF IsFold, Picked, SumFunctionOnSet, FoldFunctionOnSet, MapThenFoldSet
<1> QED BY <1>1, <1>2

\* Nothing sums to 0.
LEMMA SumEmpty ==
  ASSUME NEW f
  PROVE  SumFunctionOnSet(f, {}) = 0
<1>1. IsFiniteSet({}) BY FS_EmptySet
<1>2. PICK g : IsFold(g, f, {}) /\ SumFunctionOnSet(f, {}) = g[{}] BY <1>1, SumByFold
<1> QED BY <1>2 DEF IsFold

\* The recursion, with the element the definition chooses.
LEMMA SumPicked ==
  ASSUME NEW f, NEW S, IsFiniteSet(S), S # {}
  PROVE  /\ Picked(S) \in S
         /\ SumFunctionOnSet(f, S) = f[Picked(S)] + SumFunctionOnSet(f, S \ {Picked(S)})
<1> DEFINE U == S \ {Picked(S)}
<1>1. Picked(S) \in S BY DEF Picked
<1>2. IsFiniteSet(U) BY FS_Subset
<1>3. PICK g : IsFold(g, f, S) /\ SumFunctionOnSet(f, S) = g[S] BY SumByFold
<1>4. PICK h : IsFold(h, f, U) /\ SumFunctionOnSet(f, U) = h[U] BY <1>2, SumByFold
<1>5. g[U] = h[U]
  <2>1. U \subseteq S OBVIOUS
  <2> HIDE DEF U
  <2> QED BY <1>2, <1>3, <1>4, <2>1, OneFold
<1>6. g[S] = f[Picked(S)] + g[U] BY <1>3 DEF IsFold
<1> QED BY <1>1, <1>3, <1>4, <1>5, <1>6

\* A sum of integers is an integer.
LEMMA SumType ==
  ASSUME NEW f, NEW S, IsFiniteSet(S), \A x \in S : f[x] \in Int
  PROVE  SumFunctionOnSet(f, S) \in Int
<1> DEFINE B == {U \in SUBSET S : SumFunctionOnSet(f, U) \notin Int}
<1> SUFFICES ASSUME B # {} PROVE FALSE OBVIOUS
<1>1. PICK U \in B : \A V \in B : V \subseteq U => V = U
  <2> HIDE DEF B
  <2>1. B \subseteq SUBSET S BY DEF B
  <2> QED BY <2>1, SmallestSubset
<1>2. IsFiniteSet(U) BY <1>1, FS_Subset
<1>3. U # {}
  <2>1. SumFunctionOnSet(f, {}) \in Int BY SumEmpty
  <2> QED BY <1>1, <2>1
<1>4. /\ Picked(U) \in U
      /\ SumFunctionOnSet(f, U) = f[Picked(U)] + SumFunctionOnSet(f, U \ {Picked(U)})
  BY <1>2, <1>3, SumPicked
<1>5. SumFunctionOnSet(f, U \ {Picked(U)}) \in Int BY <1>1, <1>4
<1>6. f[Picked(U)] \in Int BY <1>1, <1>4
<1> QED BY <1>1, <1>4, <1>5, <1>6

\* Any element can be taken out of a sum.
LEMMA SumTakeOut ==
  ASSUME NEW f, NEW S, IsFiniteSet(S), \A x \in S : f[x] \in Int, NEW x \in S
  PROVE  SumFunctionOnSet(f, S) = f[x] + SumFunctionOnSet(f, S \ {x})
<1> DEFINE Sum(U) == SumFunctionOnSet(f, U)
           B == {U \in SUBSET S : \E y \in U : Sum(U) # f[y] + Sum(U \ {y})}
<1> SUFFICES ASSUME B # {} PROVE FALSE OBVIOUS
<1>1. PICK U \in B : \A V \in B : V \subseteq U => V = U
  <2> HIDE DEF B
  <2>1. B \subseteq SUBSET S BY DEF B
  <2> QED BY <2>1, SmallestSubset
<1>2. PICK y \in U : Sum(U) # f[y] + Sum(U \ {y}) BY <1>1
<1>3. PICK c : c = Picked(U) OBVIOUS
<1>4. U \subseteq S BY <1>1
<1>5. \A V : V \subseteq S => IsFiniteSet(V) BY FS_Subset
<1>6. c \in U /\ Sum(U) = f[c] + Sum(U \ {c}) BY <1>3, <1>4, <1>5, SumPicked
<1>7. c # y BY <1>2, <1>6
<1>8. Sum(U \ {c}) = f[y] + Sum((U \ {c}) \ {y})
  <2>1. U \ {c} \notin B BY <1>1, <1>6
  <2>2. U \ {c} \in SUBSET S /\ y \in U \ {c} BY <1>4, <1>7
  <2> QED BY <2>1, <2>2
<1>9. Sum(U \ {y}) = f[c] + Sum((U \ {y}) \ {c})
  <2>1. U \ {y} \notin B BY <1>1
  <2>2. U \ {y} \in SUBSET S /\ c \in U \ {y} BY <1>4, <1>6, <1>7
  <2> QED BY <2>1, <2>2
<1>10. (U \ {c}) \ {y} = (U \ {y}) \ {c} OBVIOUS
<1>11. f[y] \in Int /\ f[c] \in Int BY <1>2, <1>4, <1>6
<1>12. Sum((U \ {c}) \ {y}) \in Int
  <2>1. (U \ {c}) \ {y} \subseteq S BY <1>4
  <2> QED BY <1>5, <2>1, SumType
<1> DEFINE V == (U \ {c}) \ {y}
<1>13. /\ Sum(U) = f[c] + (f[y] + Sum(V))
       /\ Sum(U) # f[y] + (f[c] + Sum(V))
  BY <1>2, <1>6, <1>8, <1>9, <1>10
<1> HIDE DEF Sum, V, B
<1>14. PICK m \in Int, n \in Int, k \in Int : m = f[c] /\ n = f[y] /\ k = Sum(V)
  BY <1>11, <1>12 DEF V
<1> QED BY <1>13, <1>14

\* A sum depends on the values it adds.
LEMMA SumSame ==
  ASSUME NEW f, NEW g, NEW S, IsFiniteSet(S), \A x \in S : f[x] = g[x]
  PROVE  SumFunctionOnSet(f, S) = SumFunctionOnSet(g, S)
<1> DEFINE B == {U \in SUBSET S : SumFunctionOnSet(f, U) # SumFunctionOnSet(g, U)}
<1> SUFFICES ASSUME B # {} PROVE FALSE OBVIOUS
<1>1. PICK U \in B : \A V \in B : V \subseteq U => V = U
  <2> HIDE DEF B
  <2>1. B \subseteq SUBSET S BY DEF B
  <2> QED BY <2>1, SmallestSubset
<1>2. IsFiniteSet(U) BY <1>1, FS_Subset
<1>3. U # {} BY <1>1, SumEmpty
<1>4. PICK c : c = Picked(U) OBVIOUS
<1>5. /\ c \in U
      /\ SumFunctionOnSet(f, U) = f[c] + SumFunctionOnSet(f, U \ {c})
      /\ SumFunctionOnSet(g, U) = g[c] + SumFunctionOnSet(g, U \ {c})
  BY <1>2, <1>3, <1>4, SumPicked
<1>6. SumFunctionOnSet(f, U \ {c}) = SumFunctionOnSet(g, U \ {c})
  <2>1. U \ {c} \notin B /\ U \ {c} \in SUBSET S BY <1>1, <1>5
  <2> QED BY <2>1
<1>7. f[c] = g[c] BY <1>1, <1>5
<1> QED BY <1>1, <1>5, <1>6, <1>7

\* Zeros sum to 0.
LEMMA SumZero ==
  ASSUME NEW f, NEW S, IsFiniteSet(S), \A x \in S : f[x] = 0
  PROVE  SumFunctionOnSet(f, S) = 0
<1> DEFINE B == {U \in SUBSET S : SumFunctionOnSet(f, U) # 0}
<1> SUFFICES ASSUME B # {} PROVE FALSE OBVIOUS
<1>1. PICK U \in B : \A V \in B : V \subseteq U => V = U
  <2> HIDE DEF B
  <2>1. B \subseteq SUBSET S BY DEF B
  <2> QED BY <2>1, SmallestSubset
<1>2. IsFiniteSet(U) BY <1>1, FS_Subset
<1>3. U # {} BY <1>1, SumEmpty
<1>4. PICK c : c = Picked(U) OBVIOUS
<1>5. c \in U /\ SumFunctionOnSet(f, U) = f[c] + SumFunctionOnSet(f, U \ {c})
  BY <1>2, <1>3, <1>4, SumPicked
<1>6. SumFunctionOnSet(f, U \ {c}) = 0
  <2>1. U \ {c} \notin B /\ U \ {c} \in SUBSET S BY <1>1, <1>5
  <2> QED BY <2>1
<1>7. f[c] = 0 BY <1>1, <1>5
<1> QED BY <1>1, <1>5, <1>6, <1>7

\* One value and zeros sum to that value.
LEMMA SumOne ==
  ASSUME NEW f, NEW S, IsFiniteSet(S), NEW x \in S, f[x] \in Int,
         \A y \in S : y # x => f[y] = 0
  PROVE  SumFunctionOnSet(f, S) = f[x]
<1>1. IsFiniteSet(S \ {x}) BY FS_Subset
<1>2. SumFunctionOnSet(f, S \ {x}) = 0 BY <1>1, SumZero
<1>3. SumFunctionOnSet(f, S) = f[x] + SumFunctionOnSet(f, S \ {x}) BY SumTakeOut
<1> QED BY <1>2, <1>3

\* Naturals sum to a natural number, no less than any of them.
LEMMA SumNat ==
  ASSUME NEW f, NEW S, IsFiniteSet(S), \A x \in S : f[x] \in Nat
  PROVE  /\ SumFunctionOnSet(f, S) \in Nat
         /\ \A x \in S : f[x] <= SumFunctionOnSet(f, S)
<1> DEFINE B == {U \in SUBSET S : SumFunctionOnSet(f, U) \notin Nat}
<1>1. B = {}
  <2> SUFFICES ASSUME B # {} PROVE FALSE OBVIOUS
  <2>1. PICK U \in B : \A V \in B : V \subseteq U => V = U
    <3> HIDE DEF B
    <3>1. B \subseteq SUBSET S BY DEF B
    <3> QED BY <3>1, SmallestSubset
  <2>2. IsFiniteSet(U) BY <2>1, FS_Subset
  <2>3. U # {}
    <3>1. SumFunctionOnSet(f, {}) \in Nat BY SumEmpty
    <3> QED BY <2>1, <3>1
  <2>4. PICK c : c = Picked(U) OBVIOUS
  <2>5. c \in U /\ SumFunctionOnSet(f, U) = f[c] + SumFunctionOnSet(f, U \ {c})
    BY <2>2, <2>3, <2>4, SumPicked
  <2>6. SumFunctionOnSet(f, U \ {c}) \in Nat
    <3>1. U \ {c} \notin B /\ U \ {c} \in SUBSET S BY <2>1, <2>5
    <3> QED BY <3>1
  <2>7. f[c] \in Nat BY <2>1, <2>5
  <2> QED BY <2>1, <2>5, <2>6, <2>7
<1>2. \A U : U \subseteq S => SumFunctionOnSet(f, U) \in Nat BY <1>1
<1>3. ASSUME NEW x \in S PROVE f[x] <= SumFunctionOnSet(f, S)
  <2>1. SumFunctionOnSet(f, S) = f[x] + SumFunctionOnSet(f, S \ {x}) BY SumTakeOut
  <2>2. SumFunctionOnSet(f, S \ {x}) \in Nat /\ f[x] \in Nat BY <1>2
  <2> QED BY <2>1, <2>2
<1> QED BY <1>2, <1>3

\* The sum over two disjoint sets is the sum of the two sums.
LEMMA SumUnion ==
  ASSUME NEW f, NEW S, NEW T, IsFiniteSet(S), IsFiniteSet(T), S \cap T = {},
         \A x \in S \cup T : f[x] \in Int
  PROVE  SumFunctionOnSet(f, S \cup T) = SumFunctionOnSet(f, S) + SumFunctionOnSet(f, T)
<1> DEFINE Sum(U) == SumFunctionOnSet(f, U)
           B == {U \in SUBSET T : Sum(S \cup U) # Sum(S) + Sum(U)}
<1> SUFFICES ASSUME B # {} PROVE FALSE OBVIOUS
<1>1. PICK U \in B : \A V \in B : V \subseteq U => V = U
  <2> HIDE DEF B
  <2>1. B \subseteq SUBSET T BY DEF B
  <2> QED BY <2>1, SmallestSubset
<1>2. U \subseteq T /\ Sum(S \cup U) # Sum(S) + Sum(U) BY <1>1
<1>3. IsFiniteSet(U) /\ IsFiniteSet(S \cup U) BY <1>2, FS_Subset, FS_Union
<1>4. Sum(S) \in Int BY SumType
<1>5. U # {}
  <2>1. Sum({}) = 0 BY SumEmpty
  <2> HIDE DEF Sum, B
  <2>2. Sum(S) + 0 = Sum(S) BY <1>4
  <2> SUFFICES ASSUME U = {} PROVE FALSE OBVIOUS
  <2>3. S \cup U = S OBVIOUS
  <2> QED BY <1>2, <2>1, <2>2, <2>3
<1>6. PICK x : x \in U BY <1>5
<1> DEFINE V == U \ {x}
<1>7. Sum(S \cup V) = Sum(S) + Sum(V)
  <2>1. V \notin B /\ V \in SUBSET T BY <1>1, <1>6
  <2> QED BY <2>1
<1>8. Sum(U) = f[x] + Sum(V)
  <2>1. \A y \in U : f[y] \in Int BY <1>2
  <2> QED BY <1>3, <1>6, <2>1, SumTakeOut
<1>9. Sum(S \cup U) = f[x] + Sum(S \cup V)
  <2>1. \A y \in S \cup U : f[y] \in Int BY <1>2
  <2>2. (S \cup U) \ {x} = S \cup V BY <1>2, <1>6
  <2>3. SumFunctionOnSet(f, S \cup U) = f[x] + SumFunctionOnSet(f, (S \cup U) \ {x})
    BY <1>3, <1>6, <2>1, SumTakeOut
  <2> QED BY <2>2, <2>3
<1>10. Sum(V) \in Int /\ f[x] \in Int
  <2>1. IsFiniteSet(V) /\ \A y \in V : f[y] \in Int BY <1>2, <1>3, FS_Subset
  <2> HIDE DEF V
  <2> QED BY <1>2, <1>6, <2>1, SumType
<1> HIDE DEF Sum, V, B
<1>11. PICK m \in Int, n \in Int, k \in Int : m = f[x] /\ n = Sum(S) /\ k = Sum(V)
  BY <1>4, <1>10
<1> QED BY <1>2, <1>7, <1>8, <1>9, <1>11

\* The n values of f from m + 1 on are those of g.
Continues(f, g, m, n) == \A k \in 1..n : f[m + k] = g[k] /\ g[k] \in Int

LEMMA SumShift ==
  ASSUME NEW f, NEW g, NEW m \in Nat, NEW n \in Nat, Continues(f, g, m, n)
  PROVE  SumFunctionOnSet(f, (m + 1)..(m + n)) = SumFunctionOnSet(g, 1..n)
<1>0. \A k \in 1..n : f[m + k] = g[k] /\ g[k] \in Int BY DEF Continues
<1> DEFINE F(k) == SumFunctionOnSet(f, (m + 1)..(m + k))
           G(k) == SumFunctionOnSet(g, 1..k)
           B == {k \in 0..n : F(k) # G(k)}
<1> SUFFICES ASSUME B # {} PROVE FALSE OBVIOUS
<1>1. PICK k \in B : \A j \in B : k <= j
  <2> HIDE DEF B
  <2>1. B \subseteq Nat BY DEF B
  <2> QED BY <2>1, LeastNatural
<1>2. k \in 0..n /\ F(k) # G(k) BY <1>1
<1>3. k # 0
  <2>1. (m + 1)..(m + 0) = {} /\ 1..0 = {} OBVIOUS
  <2> QED BY <1>2, <2>1, SumEmpty
<1>4. k - 1 \in 0..n /\ k \in 1..n BY <1>2, <1>3
<1>5. F(k - 1) = G(k - 1)
  <2>1. ~(k <= k - 1) BY <1>2
  <2>2. k - 1 \notin B BY <1>1, <2>1
  <2> QED BY <1>4, <2>2
<1>6. G(k) = g[k] + G(k - 1)
  <2>1. IsFiniteSet(1..k) BY <1>4, FS_Interval
  <2>2. k \in 1..k /\ (1..k) \ {k} = 1..(k - 1) BY <1>4
  <2>3. \A j \in 1..k : g[j] \in Int BY <1>0, <1>4
  <2>4. SumFunctionOnSet(g, 1..k) = g[k] + SumFunctionOnSet(g, (1..k) \ {k})
    <3> DEFINE R == 1..k
    <3> HIDE DEF R, B, F, G
    <3> SUFFICES SumFunctionOnSet(g, R) = g[k] + SumFunctionOnSet(g, R \ {k}) BY DEF R
    <3>1. IsFiniteSet(R) /\ k \in R /\ \A j \in R : g[j] \in Int BY <2>1, <2>2, <2>3 DEF R
    <3>2. \A j \in R : SumFunctionOnSet(g, R) = g[j] + SumFunctionOnSet(g, R \ {j})
      BY <3>1, SumTakeOut
    <3> QED BY <3>1, <3>2
  <2> QED BY <2>2, <2>4
<1>7. F(k) = f[m + k] + F(k - 1)
  <2>1. IsFiniteSet((m + 1)..(m + k)) BY <1>4, FS_Interval
  <2>2. m + k \in (m + 1)..(m + k) /\ ((m + 1)..(m + k)) \ {m + k} = (m + 1)..(m + (k - 1))
    BY <1>4
  <2>3. \A j \in (m + 1)..(m + k) : f[j] \in Int
    <3> SUFFICES ASSUME NEW j \in (m + 1)..(m + k) PROVE f[j] \in Int OBVIOUS
    <3>1. j - m \in 1..n /\ m + (j - m) = j BY <1>4
    <3> QED BY <1>0, <3>1
  <2> DEFINE R == (m + 1)..(m + k)
  <2>4. SumFunctionOnSet(f, R) = f[m + k] + SumFunctionOnSet(f, R \ {m + k})
    <3>1. IsFiniteSet(R) /\ m + k \in R /\ \A j \in R : f[j] \in Int BY <2>1, <2>2, <2>3
    <3> HIDE DEF R, B, F, G
    <3>2. \A j \in R : SumFunctionOnSet(f, R) = f[j] + SumFunctionOnSet(f, R \ {j})
      BY <3>1, SumTakeOut
    <3> QED BY <3>1, <3>2
  <2> QED BY <2>2, <2>4
<1>8. f[m + k] = g[k] BY <1>0, <1>4
<1> HIDE DEF F, G, B
<1> QED BY <1>2, <1>5, <1>6, <1>7, <1>8

\* The values of h are the m values of f, then the n values of g.
Joins(h, f, g, m, n) ==
  /\ \A k \in 1..m : h[k] = f[k] /\ f[k] \in Int
  /\ Continues(h, g, m, n)

\* The sum over a concatenation.
LEMMA SumConcat ==
  ASSUME NEW h, NEW f, NEW g, NEW m \in Nat, NEW n \in Nat, Joins(h, f, g, m, n)
  PROVE  SumFunctionOnSet(h, 1..(m + n))
         = SumFunctionOnSet(f, 1..m) + SumFunctionOnSet(g, 1..n)
<1>0. /\ \A k \in 1..m : h[k] = f[k] /\ f[k] \in Int
      /\ \A k \in 1..n : h[m + k] = g[k] /\ g[k] \in Int
  BY DEF Joins, Continues
<1> DEFINE S == 1..m
           T == (m + 1)..(m + n)
<1>1. IsFiniteSet(S) /\ IsFiniteSet(T) BY FS_Interval
<1>2. S \cap T = {} /\ S \cup T = 1..(m + n) OBVIOUS
<1>3. \A k \in S \cup T : h[k] \in Int
  <2> SUFFICES ASSUME NEW k \in T PROVE h[k] \in Int BY <1>0
  <2>1. k - m \in 1..n /\ m + (k - m) = k OBVIOUS
  <2> QED BY <1>0, <2>1
<1>4. SumFunctionOnSet(h, S) = SumFunctionOnSet(f, S) BY <1>0, <1>1, SumSame
<1>5. SumFunctionOnSet(h, T) = SumFunctionOnSet(g, 1..n)
  <2>1. Continues(h, g, m, n) BY DEF Joins
  <2> HIDE DEF S
  <2> QED BY <2>1, SumShift
<1>6. SumFunctionOnSet(h, S \cup T) = SumFunctionOnSet(h, S) + SumFunctionOnSet(h, T)
  <2> HIDE DEF S, T
  <2> QED BY <1>1, <1>2, <1>3, SumUnion
<1> QED BY <1>2, <1>4, <1>5, <1>6

\* A sum of values a * f[x] + g[x].
LEMMA SumLinear ==
  ASSUME NEW f, NEW g, NEW h, NEW S, IsFiniteSet(S), NEW a \in Int,
         \A x \in S : f[x] \in Int /\ g[x] \in Int /\ h[x] = a * f[x] + g[x]
  PROVE  /\ SumFunctionOnSet(h, S) = a * SumFunctionOnSet(f, S) + SumFunctionOnSet(g, S)
         /\ SumFunctionOnSet(f, S) \in Int /\ SumFunctionOnSet(g, S) \in Int
<1> DEFINE F(U) == SumFunctionOnSet(f, U)
           G(U) == SumFunctionOnSet(g, U)
           H(U) == SumFunctionOnSet(h, U)
           B == {U \in SUBSET S : H(U) # a * F(U) + G(U)}
<1>0. \A U \in SUBSET S : F(U) \in Int /\ G(U) \in Int
  <2> SUFFICES ASSUME NEW U \in SUBSET S PROVE F(U) \in Int /\ G(U) \in Int OBVIOUS
  <2>1. IsFiniteSet(U) BY FS_Subset
  <2> QED BY <2>1, SumType
<1> SUFFICES ASSUME B # {} PROVE FALSE BY <1>0
<1>1. PICK U \in B : \A V \in B : V \subseteq U => V = U
  <2> HIDE DEF B
  <2>1. B \subseteq SUBSET S BY DEF B
  <2> QED BY <2>1, SmallestSubset
<1>2. IsFiniteSet(U) BY <1>1, FS_Subset
<1>3. U # {}
  <2>1. F({}) = 0 /\ G({}) = 0 /\ H({}) = 0 BY SumEmpty
  <2>2. a * 0 + 0 = 0 OBVIOUS
  <2>3. H({}) = a * F({}) + G({})
    <3> HIDE DEF F, G, H, B
    <3> QED BY <2>1, <2>2
  <2>4. {} \notin B BY <2>3
  <2> HIDE DEF B
  <2> QED BY <1>1, <2>4
<1>4. PICK c : c = Picked(U) OBVIOUS
<1>5. c \in U /\ F(U) = f[c] + F(U \ {c}) /\ G(U) = g[c] + G(U \ {c}) /\ H(U) = h[c] + H(U \ {c})
  BY <1>2, <1>3, <1>4, SumPicked
<1>6. U \ {c} \notin B /\ U \ {c} \in SUBSET S BY <1>1, <1>5
<1>7. /\ f[c] \in Int /\ g[c] \in Int /\ h[c] = a * f[c] + g[c]
      /\ F(U \ {c}) \in Int /\ G(U \ {c}) \in Int
  BY <1>0, <1>1, <1>5, <1>6
<1>8. H(U \ {c}) = a * F(U \ {c}) + G(U \ {c}) /\ H(U) # a * F(U) + G(U) BY <1>1, <1>6
<1> HIDE DEF F, G, H, B
<1>9. PICK p \in Int, q \in Int : p = F(U \ {c}) /\ q = G(U \ {c}) BY <1>7
<1>10. a * (f[c] + p) = a * f[c] + a * p BY <1>7
<1>11. a * f[c] \in Int /\ a * p \in Int BY <1>7
<1> QED BY <1>5, <1>7, <1>8, <1>9, <1>10, <1>11

\* A sum whose terms outside Z are zero, and the others between -b / 2 and b / 2.
LEMMA SumBounded ==
  ASSUME NEW v, NEW S, IsFiniteSet(S), NEW Z \in SUBSET S, NEW b \in Nat,
         \A x \in S : v[x] \in Int /\ -b <= 2 * v[x] /\ 2 * v[x] <= b,
         \A x \in S \ Z : v[x] = 0
  PROVE  /\ SumFunctionOnSet(v, S) \in Int /\ Cardinality(Z) \in Nat
         /\ -(b * Cardinality(Z)) <= 2 * SumFunctionOnSet(v, S)
         /\ 2 * SumFunctionOnSet(v, S) <= b * Cardinality(Z)
<1> DEFINE V(U) == SumFunctionOnSet(v, U)
           Within(n, U) == -(b * n) <= 2 * V(U) /\ 2 * V(U) <= b * n
           B == {U \in SUBSET Z : ~Within(Cardinality(U), U)}
<1>0. \A U \in SUBSET S : IsFiniteSet(U) /\ Cardinality(U) \in Nat /\ V(U) \in Int
  <2> SUFFICES ASSUME NEW U \in SUBSET S
               PROVE  IsFiniteSet(U) /\ Cardinality(U) \in Nat /\ V(U) \in Int
    OBVIOUS
  <2>1. IsFiniteSet(U) BY FS_Subset
  <2> QED BY <2>1, SumType, FS_CardinalityType
<1>1. V(S) = V(Z)
  <2>1. IsFiniteSet(Z) /\ IsFiniteSet(S \ Z) BY <1>0
  <2>2. Z \cup (S \ Z) = S /\ Z \cap (S \ Z) = {} OBVIOUS
  <2>3. V(Z \cup (S \ Z)) = V(Z) + V(S \ Z)
    <3>1. PICK T : T = S \ Z OBVIOUS
    <3>2. \A x \in Z \cup T : v[x] \in Int BY <3>1
    <3>3. SumFunctionOnSet(v, Z \cup T) = SumFunctionOnSet(v, Z) + SumFunctionOnSet(v, T)
      BY <2>1, <2>2, <3>1, <3>2, SumUnion
    <3> QED BY <3>1, <3>3
  <2>4. V(S \ Z) = 0 BY <2>1, SumZero
  <2>5. V(Z) \in Int BY <1>0
  <2>6. V(S) = V(Z) + V(S \ Z)
    <3>1. V(S) = V(Z \cup (S \ Z)) BY <2>2
    <3> QED BY <2>3, <3>1
  <2>7. V(Z) + 0 = V(Z) BY <2>5
  <2> QED BY <2>4, <2>6, <2>7
<1>2. ASSUME B # {} PROVE FALSE
  <2>1. PICK U \in B : \A W \in B : W \subseteq U => W = U
    <3> HIDE DEF B
    <3>1. B \subseteq SUBSET Z BY DEF B
    <3>2. IsFiniteSet(Z) BY <1>0
    <3> QED BY <1>2, <3>1, <3>2, SmallestSubset
  <2>2. IsFiniteSet(U) /\ U \in SUBSET S BY <1>0, <2>1
  <2>3. U # {}
    <3>1. V({}) = 0 /\ Cardinality({}) = 0 BY SumEmpty, FS_EmptySet
    <3>2. b * 0 = 0 OBVIOUS
    <3>3. Within(0, {}) BY <3>1, <3>2
    <3> HIDE DEF Within, V
    <3> QED BY <2>1, <3>1, <3>3
  <2>4. PICK c : c = Picked(U) OBVIOUS
  <2>5. c \in U /\ V(U) = v[c] + V(U \ {c}) BY <2>2, <2>3, <2>4, SumPicked
  <2>6. U \ {c} \notin B /\ U \ {c} \in SUBSET Z BY <2>1, <2>5
  <2>7. PICK n \in Nat : n = Cardinality(U \ {c}) BY <1>0, <2>6
  <2>8. Cardinality(U) = n + 1
    <3>1. Cardinality(U \ {c}) = Cardinality(U) - 1 BY <2>2, <2>5, FS_RemoveElement
    <3>2. Cardinality(U) \in Nat BY <1>0, <2>2
    <3> QED BY <2>7, <3>1, <3>2
  <2>9. PICK r \in Int, t \in Int : r = v[c] /\ t = V(U \ {c}) BY <1>0, <2>2, <2>5, <2>6
  <2>10. -b <= 2 * r /\ 2 * r <= b BY <2>2, <2>5, <2>9
  <2>11. Within(n, U \ {c}) BY <2>6, <2>7
  <2>12. -(b * n) <= 2 * t /\ 2 * t <= b * n BY <2>9, <2>11
  <2>13. b * (n + 1) = b * n + b /\ b * n \in Nat OBVIOUS
  <2>14. -(b * (n + 1)) <= 2 * (r + t) /\ 2 * (r + t) <= b * (n + 1)
    <3> HIDE DEF V, Within, B
    <3>1. PICK m \in Nat : m = b * n BY <2>13
    <3> QED BY <2>10, <2>12, <2>13, <3>1
  <2>15. Within(n + 1, U) BY <2>5, <2>9, <2>14
  <2> HIDE DEF Within, V
  <2> QED BY <2>1, <2>8, <2>15
<1>3. Within(Cardinality(Z), Z)
  <2> HIDE DEF Within
  <2> QED BY <1>2
<1> QED BY <1>0, <1>1, <1>3

\* Changing one of the values changes the sum by as much.
LEMMA SumChange ==
  ASSUME NEW f, NEW g, NEW S, IsFiniteSet(S), NEW x \in S,
         \A y \in S : f[y] \in Int /\ g[y] \in Int /\ (y # x => g[y] = f[y])
  PROVE  /\ SumFunctionOnSet(f, S) \in Int /\ SumFunctionOnSet(g, S) \in Int
         /\ SumFunctionOnSet(g, S) = SumFunctionOnSet(f, S) + (g[x] - f[x])
<1> DEFINE rest == S \ {x}
<1>1. IsFiniteSet(rest) BY FS_Subset
<1>2. /\ SumFunctionOnSet(f, S) = f[x] + SumFunctionOnSet(f, rest)
      /\ SumFunctionOnSet(g, S) = g[x] + SumFunctionOnSet(g, rest)
  BY SumTakeOut
<1>3. SumFunctionOnSet(g, rest) = SumFunctionOnSet(f, rest) BY <1>1, SumSame
<1>4. SumFunctionOnSet(f, rest) \in Int BY <1>1, SumType
<1>5. f[x] \in Int /\ g[x] \in Int OBVIOUS
<1> QED BY <1>2, <1>3, <1>4, <1>5

LEMMA SumScaled ==
  ASSUME NEW f, NEW h, NEW S, IsFiniteSet(S), NEW a \in Int,
         \A x \in S : f[x] \in Int /\ h[x] = a * f[x]
  PROVE  /\ SumFunctionOnSet(h, S) = a * SumFunctionOnSet(f, S)
         /\ SumFunctionOnSet(f, S) \in Int
<1> DEFINE zero == [x \in S |-> 0]
<1>1. \A x \in S : f[x] \in Int /\ zero[x] \in Int /\ h[x] = a * f[x] + zero[x]
  <2> SUFFICES ASSUME NEW x \in S
               PROVE  f[x] \in Int /\ zero[x] \in Int /\ h[x] = a * f[x] + zero[x]
    OBVIOUS
  <2>1. a * f[x] \in Int /\ a * f[x] + 0 = a * f[x] OBVIOUS
  <2> QED BY <2>1
<1>2. SumFunctionOnSet(zero, S) = 0 BY SumZero
<1> HIDE DEF zero
<1>3. /\ SumFunctionOnSet(h, S) = a * SumFunctionOnSet(f, S) + SumFunctionOnSet(zero, S)
      /\ SumFunctionOnSet(f, S) \in Int
  <2>1. ASSUME NEW g, \A x \in S : f[x] \in Int /\ g[x] \in Int /\ h[x] = a * f[x] + g[x]
        PROVE  /\ SumFunctionOnSet(h, S) = a * SumFunctionOnSet(f, S) + SumFunctionOnSet(g, S)
               /\ SumFunctionOnSet(f, S) \in Int
    BY <2>1, SumLinear
  <2> QED BY <1>1, <2>1
<1>4. a * SumFunctionOnSet(f, S) + 0 = a * SumFunctionOnSet(f, S) BY <1>3
<1> QED BY <1>2, <1>3, <1>4

=============================================================================
