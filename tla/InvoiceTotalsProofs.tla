------------------------ MODULE InvoiceTotalsProofs ------------------------
(***************************************************************************)
(* Proofs about InvoiceTotals, for any lines, number of lines, discounts   *)
(* and reported totals: first what a sum over a function is, by induction  *)
(* over finite sets, then the totals of an invoice and of its XML.         *)
(***************************************************************************)
EXTENDS InvoiceTotals, FiniteSetTheorems, WellFoundedInduction, TLAPS

-----------------------------------------------------------------------------
(***************************************************************************)
(* Induction over the subsets of a finite set, with the sets that have the *)
(* property as a set.                                                      *)
(***************************************************************************)
LEMMA LeastNatural ==
  ASSUME NEW T, T \subseteq Nat, T # {}
  PROVE  \E m \in T : \A n \in T : m <= n
<1> DEFINE R == OpToRel(<, Nat)
<1>1. IsWellFoundedOn(R, Nat)
  BY NatLessThanWellFounded
<1>2. \A m \in Nat, n \in Nat : <<n, m>> \in R <=> n < m
  BY DEF OpToRel
<1> HIDE DEF R
<1>3. PICK m \in T : \A n \in T : ~(<<n, m>> \in R)
  BY <1>1, WFMin
<1>4. ASSUME NEW n \in T PROVE m <= n
  <2>1. ~(n < m)
    BY <1>2, <1>3
  <2> QED
    BY <2>1
<1> QED
  BY <1>4

LEMMA SubsetFacts ==
  ASSUME NEW D, IsFiniteSet(D), NEW s \in SUBSET D
  PROVE  /\ IsFiniteSet(s) /\ Cardinality(s) \in Nat
         /\ Cardinality(s) = 0 <=> s = {}
         /\ \A x \in s : Cardinality(s \ {x}) = Cardinality(s) - 1
<1>1. IsFiniteSet(s)
  BY FS_Subset
<1>2. Cardinality(s) \in Nat
  BY <1>1, FS_CardinalityType
<1>3. Cardinality(s) = 0 <=> s = {}
  BY <1>1, FS_EmptySet
<1>4. ASSUME NEW x \in s PROVE Cardinality(s \ {x}) = Cardinality(s) - 1
  BY <1>1, FS_RemoveElement
<1> QED
  BY <1>1, <1>2, <1>3, <1>4

\* What holds of every subset when it holds of the subsets with one element less.
LEMMA InductionOverSubsets ==
  ASSUME NEW D, IsFiniteSet(D), NEW P,
         \A s \in SUBSET D : (\A x \in s : s \ {x} \in P) => s \in P
  PROVE  SUBSET D \subseteq P
<1> SUFFICES ASSUME NEW r \in SUBSET D, r \notin P
             PROVE  FALSE
  OBVIOUS
<1> DEFINE T == {Cardinality(s) : s \in (SUBSET D) \ P}
<1>1. T \subseteq Nat /\ T # {}
  BY SubsetFacts
<1>2. PICK m \in T : \A n \in T : m <= n
  BY <1>1, LeastNatural
<1>3. PICK s \in (SUBSET D) \ P : m = Cardinality(s)
  OBVIOUS
<1>4. PICK x \in s : s \ {x} \notin P
  BY <1>3
<1>5. Cardinality(s \ {x}) \in T /\ Cardinality(s) \in Nat
  BY <1>4, SubsetFacts
<1>6. Cardinality(s \ {x}) = Cardinality(s) - 1
  BY SubsetFacts
<1>7. Cardinality(s) <= Cardinality(s \ {x})
  BY <1>2, <1>3, <1>5
<1> QED
  BY <1>5, <1>6, <1>7

-----------------------------------------------------------------------------
(***************************************************************************)
(* SumFunction: the function its definition chooses exists, so it can be   *)
(* unfolded, and the order in which it takes the elements does not matter. *)
(***************************************************************************)
Pick(s) == CHOOSE x \in s : TRUE
Step(F, s, g) == IF s = {} THEN 0 ELSE F[Pick(s)] + g[s \ {Pick(s)}]
Sums(F) == CHOOSE g : g = [s \in SUBSET DOMAIN F |-> Step(F, s, g)]

LEMMA SumExpanded == ASSUME NEW F PROVE SumFunction(F) = Sums(F)[DOMAIN F]
  BY Zenon DEF SumFunction, SumFunctionOnSet, FoldFunctionOnSet, MapThenFoldSet,
               Sums, Step, Pick

LEMMA PickInSet == ASSUME NEW s, s # {} PROVE Pick(s) \in s
  BY DEF Pick

\* By induction on the cardinality of the sets it is defined for.
LEMMA SumsExist ==
  ASSUME NEW F, IsFiniteSet(DOMAIN F)
  PROVE  \E g : g = [s \in SUBSET DOMAIN F |-> Step(F, s, g)]
<1> DEFINE D == DOMAIN F
           Small(n) == {s \in SUBSET D : Cardinality(s) <= n}
           Solves(g, n) == g = [s \in Small(n) |-> Step(F, s, g)]
           T == {n \in Nat : ~\E g : Solves(g, n)}
<1>1. ~(0 \in T)
  <2> DEFINE g == [s \in Small(0) |-> 0]
  <2>1. ASSUME NEW s \in Small(0) PROVE s = {}
    <3>1. s \in SUBSET D /\ Cardinality(s) <= 0
      OBVIOUS
    <3> QED
      BY <3>1, SubsetFacts
  <2>2. \A s \in Small(0) : Step(F, s, g) = 0
    BY <2>1 DEF Step
  <2>3. Solves(g, 0)
    BY <2>2
  <2> QED
    BY <2>3
<1>2. ASSUME NEW n \in Nat, \E g : Solves(g, n) PROVE \E g : Solves(g, n + 1)
  <2>1. PICK g : Solves(g, n)
    BY <1>2
  <2> DEFINE h == [s \in Small(n + 1) |-> Step(F, s, g)]
  <2>2. Small(n) \subseteq Small(n + 1)
    <3>1. ASSUME NEW s \in Small(n) PROVE s \in Small(n + 1)
      <4>1. s \in SUBSET D /\ Cardinality(s) <= n
        OBVIOUS
      <4>2. Cardinality(s) \in Nat
        BY <4>1, SubsetFacts
      <4> QED
        BY <4>1, <4>2
    <3> QED
      BY <3>1
  <2>3. \A s \in Small(n) : h[s] = g[s]
    BY <2>1, <2>2
  <2>4. ASSUME NEW s \in Small(n + 1) PROVE Step(F, s, g) = Step(F, s, h)
    <3>1. CASE s = {}
      BY <3>1 DEF Step
    <3>2. CASE s # {}
      <4>1. s \in SUBSET D /\ Cardinality(s) <= n + 1 /\ Pick(s) \in s
        BY <3>2, PickInSet
      <4>2. Cardinality(s) \in Nat /\ Cardinality(s \ {Pick(s)}) = Cardinality(s) - 1
        BY <4>1, SubsetFacts
      <4>3. s \ {Pick(s)} \in Small(n)
        BY <4>1, <4>2
      <4>4. h[s \ {Pick(s)}] = g[s \ {Pick(s)}]
        BY <2>3, <4>3
      <4> HIDE DEF h
      <4> QED
        BY <4>4 DEF Step
    <3> QED
      BY <3>1, <3>2
  <2>5. h = [s \in Small(n + 1) |-> Step(F, s, h)]
    BY <2>4
  <2>6. Solves(h, n + 1)
    BY <2>5
  <2> QED
    BY <2>6
<1>3. T = {}
  <2> SUFFICES ASSUME T # {} PROVE FALSE
    OBVIOUS
  <2> HIDE DEF Solves
  <2>1. PICK m \in T : \A n \in T : m <= n
    BY LeastNatural
  <2>2. m \in Nat /\ m # 0
    BY <1>1
  <2>3. m - 1 \in Nat /\ ~(m <= m - 1)
    BY <2>2
  <2>4. \E g : Solves(g, m - 1)
    BY <2>1, <2>3
  <2>5. \E g : Solves(g, (m - 1) + 1)
    BY <1>2, <2>3, <2>4
  <2>6. (m - 1) + 1 = m
    BY <2>2
  <2> QED
    BY <2>5, <2>6
<1>4. Cardinality(D) \in Nat /\ Small(Cardinality(D)) = SUBSET D
  <2>1. Cardinality(D) \in Nat
    BY FS_CardinalityType
  <2>2. \A s \in SUBSET D : Cardinality(s) <= Cardinality(D)
    BY FS_Subset
  <2> QED
    BY <2>1, <2>2
<1>5. PICK g : Solves(g, Cardinality(D))
  <2> HIDE DEF Solves
  <2> QED
    BY <1>3, <1>4
<1> QED
  BY <1>4, <1>5

LEMMA SumUnfolds ==
  ASSUME NEW F, IsFiniteSet(DOMAIN F)
  PROVE  \A s \in SUBSET DOMAIN F : Sums(F)[s] = Step(F, s, Sums(F))
<1>1. Sums(F) = [s \in SUBSET DOMAIN F |-> Step(F, s, Sums(F))]
  BY SumsExist DEF Sums
<1> QED
  BY <1>1

\* g gives every part of D a number that grows by what F says of each element.
Grows(D, F, g) ==
    /\ g[{}] = 0
    /\ \A s \in SUBSET D : g[s] \in Int
    /\ \A s \in SUBSET D : \A x \in s : g[s] = F[x] + g[s \ {x}]

\* Any element may be taken first.
LEMMA SumGrows ==
  ASSUME NEW D, IsFiniteSet(D), NEW F \in [D -> Int]
  PROVE  Grows(D, F, Sums(F))
<1> DEFINE S == Sums(F)
           P == {s \in SUBSET D : \A x \in s : S[s] = F[x] + S[s \ {x}]}
<1>1. \A s \in SUBSET D : S[s] = IF s = {} THEN 0 ELSE F[Pick(s)] + S[s \ {Pick(s)}]
  BY SumUnfolds DEF Step
<1> HIDE DEF S
<1>2. \A s \in SUBSET D : S[s] \in Int
  <2> DEFINE Q == {s \in SUBSET D : S[s] \in Int}
  <2>1. ASSUME NEW s \in SUBSET D, \A x \in s : s \ {x} \in Q
        PROVE  s \in Q
    <3>1. CASE s = {}
      <4>1. S[s] = 0
        BY <1>1, <3>1
      <4> QED
        BY <4>1
    <3>2. CASE s # {}
      <4>1. Pick(s) \in s /\ F[Pick(s)] \in Int
        BY <3>2, PickInSet
      <4>2. S[s \ {Pick(s)}] \in Int
        BY <2>1, <4>1
      <4>3. S[s] = F[Pick(s)] + S[s \ {Pick(s)}]
        BY <1>1, <3>2
      <4> QED
        BY <4>1, <4>2, <4>3
    <3> QED
      BY <3>1, <3>2
  <2>2. SUBSET D \subseteq Q
    <3> HIDE DEF Q
    <3> QED
      BY <2>1, InductionOverSubsets
  <2> QED
    BY <2>2
<1>3. ASSUME NEW s \in SUBSET D, \A x \in s : s \ {x} \in P
      PROVE  s \in P
  <2>1. CASE s = {}
    BY <1>1, <2>1
  <2>2. CASE s # {}
    <3> DEFINE y == Pick(s)
    <3>1. y \in s /\ F[y] \in Int
      BY <2>2, PickInSet
    <3> HIDE DEF y
    <3>2. S[s] = F[y] + S[s \ {y}]
      BY <1>1, <2>2 DEF y
    <3>3. s \ {y} \in P
      BY <1>3, <3>1
    <3>4. ASSUME NEW x \in s PROVE S[s] = F[x] + S[s \ {x}]
      <4>1. CASE x = y
        BY <3>2, <4>1
      <4>2. CASE x # y
        <5>1. S[s \ {y}] = F[x] + S[(s \ {y}) \ {x}]
          BY <3>3, <4>2
        <5>2. s \ {x} \in P /\ y \in s \ {x}
          BY <1>3, <3>1, <4>2
        <5>3. S[s \ {x}] = F[y] + S[(s \ {x}) \ {y}]
          BY <5>2
        <5>4. (s \ {y}) \ {x} = (s \ {x}) \ {y}
          OBVIOUS
        <5> DEFINE rest == S[(s \ {x}) \ {y}]
        <5>5. rest \in Int
          BY <1>2
        <5>6. F[x] \in Int
          OBVIOUS
        <5> HIDE DEF rest
        <5>7. S[s \ {y}] = F[x] + rest /\ S[s \ {x}] = F[y] + rest
          BY <5>1, <5>3, <5>4 DEF rest
        <5> QED
          BY <3>1, <3>2, <5>5, <5>6, <5>7
      <4> QED
        BY <4>1, <4>2
    <3> QED
      BY <3>4
  <2> QED
    BY <2>1, <2>2
<1>4. SUBSET D \subseteq P
  <2> HIDE DEF P
  <2> QED
    BY <1>3, InductionOverSubsets
<1>5. S[{}] = 0
  BY <1>1
<1> QED
  BY <1>2, <1>4, <1>5 DEF S, Grows

\* What grows by the same amounts is the sum.
LEMMA SumUnique ==
  ASSUME NEW D, IsFiniteSet(D), NEW F \in [D -> Int], NEW g, Grows(D, F, g)
  PROVE  \A s \in SUBSET D : Sums(F)[s] = g[s]
<1> DEFINE P == {s \in SUBSET D : Sums(F)[s] = g[s]}
<1>0. Grows(D, F, Sums(F))
  BY SumGrows
<1>1. ASSUME NEW s \in SUBSET D, \A x \in s : s \ {x} \in P
      PROVE  s \in P
  <2>1. CASE s = {}
    BY <1>0, <2>1 DEF Grows
  <2>2. CASE s # {}
    <3>1. PICK x \in s : TRUE
      BY <2>2
    <3>2. Sums(F)[s] = F[x] + Sums(F)[s \ {x}]
      BY <1>0 DEF Grows
    <3>3. g[s] = F[x] + g[s \ {x}]
      BY DEF Grows
    <3>4. Sums(F)[s \ {x}] = g[s \ {x}]
      BY <1>1
    <3> QED
      BY <3>2, <3>3, <3>4
  <2> QED
    BY <2>1, <2>2
<1>2. SUBSET D \subseteq P
  <2> HIDE DEF P
  <2> QED
    BY <1>1, InductionOverSubsets
<1> QED
  BY <1>2

LEMMA SumType ==
  ASSUME NEW D, IsFiniteSet(D), NEW F \in [D -> Int]
  PROVE  SumFunction(F) \in Int /\ SumFunction(F) = Sums(F)[D]
<1>1. SumFunction(F) = Sums(F)[D]
  BY SumExpanded
<1>2. Grows(D, F, Sums(F))
  BY SumGrows
<1> QED
  BY <1>1, <1>2 DEF Grows

LEMMA SumIs ==
  ASSUME NEW D, IsFiniteSet(D), NEW F \in [D -> Int], NEW g, Grows(D, F, g)
  PROVE  SumFunction(F) = g[D]
<1>1. \A s \in SUBSET D : Sums(F)[s] = g[s]
  BY SumUnique
<1>2. SumFunction(F) = Sums(F)[D]
  BY SumType
<1> QED
  BY <1>1, <1>2

LEMMA SumAdds ==
  ASSUME NEW D, IsFiniteSet(D), NEW G \in [D -> Int], NEW H \in [D -> Int]
  PROVE  SumFunction([i \in D |-> G[i] + H[i]]) = SumFunction(G) + SumFunction(H)
<1> DEFINE F == [i \in D |-> G[i] + H[i]]
           g == [s \in SUBSET D |-> Sums(G)[s] + Sums(H)[s]]
<1>1. F \in [D -> Int] /\ \A i \in D : F[i] = G[i] + H[i]
  OBVIOUS
<1>2. Grows(D, G, Sums(G)) /\ Grows(D, H, Sums(H))
  BY SumGrows
<1>3. Grows(D, F, g)
  <2>1. g[{}] = 0
    BY <1>2 DEF Grows
  <2>2. ASSUME NEW s \in SUBSET D PROVE g[s] \in Int
    BY <1>2 DEF Grows
  <2>3. ASSUME NEW s \in SUBSET D, NEW x \in s PROVE g[s] = F[x] + g[s \ {x}]
    <3>1. s \ {x} \in SUBSET D /\ x \in D
      OBVIOUS
    <3>2. Sums(G)[s] = G[x] + Sums(G)[s \ {x}] /\ Sums(G)[s \ {x}] \in Int /\ G[x] \in Int
      BY <1>2, <3>1 DEF Grows
    <3>3. Sums(H)[s] = H[x] + Sums(H)[s \ {x}] /\ Sums(H)[s \ {x}] \in Int /\ H[x] \in Int
      BY <1>2, <3>1 DEF Grows
    <3>4. g[s] = Sums(G)[s] + Sums(H)[s] /\ g[s \ {x}] = Sums(G)[s \ {x}] + Sums(H)[s \ {x}]
      BY <3>1
    <3>5. F[x] = G[x] + H[x]
      BY <3>1
    <3> HIDE DEF F, g
    <3> QED
      BY <3>2, <3>3, <3>4, <3>5
  <2> HIDE DEF F, g
  <2> QED
    BY <2>1, <2>2, <2>3 DEF Grows
<1>4. g[D] = Sums(G)[D] + Sums(H)[D]
  OBVIOUS
<1>5. SumFunction(G) = Sums(G)[D] /\ SumFunction(H) = Sums(H)[D]
  BY SumType
<1> HIDE DEF F, g
<1>6. SumFunction(F) = g[D]
  BY <1>1, <1>3, SumIs
<1> QED
  BY <1>4, <1>5, <1>6 DEF F

\* The sum over a part of the domain.
LEMMA SumOfPart ==
  ASSUME NEW D, IsFiniteSet(D), NEW F \in [D -> Int], NEW E \in SUBSET D
  PROVE  SumFunction([i \in E |-> F[i]]) = Sums(F)[E]
<1> DEFINE G == [i \in E |-> F[i]]
<1>1. IsFiniteSet(E)
  BY FS_Subset
<1>2. G \in [E -> Int] /\ \A i \in E : G[i] = F[i]
  OBVIOUS
<1>3. Grows(D, F, Sums(F))
  BY SumGrows
<1> HIDE DEF G
<1>4. Grows(E, G, Sums(F))
  BY <1>2, <1>3 DEF Grows
<1>5. SumFunction(G) = Sums(F)[E]
  BY <1>1, <1>2, <1>4, SumIs
<1> QED
  BY <1>5 DEF G

\* A function that is 0 everywhere but in one place.
LEMMA SumOfOne ==
  ASSUME NEW D, IsFiniteSet(D), NEW F \in [D -> Int], NEW d \in D,
         \A i \in D : i # d => F[i] = 0
  PROVE  SumFunction(F) = F[d]
<1> DEFINE g == [s \in SUBSET D |-> IF d \in s THEN F[d] ELSE 0]
<1>1. F[d] \in Int
  OBVIOUS
<1>2. ASSUME NEW s \in SUBSET D, NEW x \in s PROVE g[s] = F[x] + g[s \ {x}]
  <2>1. CASE x = d
    BY <1>1, <2>1
  <2>2. CASE x # d
    <3>1. F[x] = 0 /\ s \ {x} \in SUBSET D /\ (d \in s \ {x} <=> d \in s)
      BY <2>2
    <3>2. g[s] \in Int /\ g[s \ {x}] = g[s]
      BY <1>1, <3>1
    <3> HIDE DEF g
    <3> QED
      BY <3>1, <3>2
  <2> QED
    BY <2>1, <2>2
<1>3. g[{}] = 0 /\ g[D] = F[d] /\ \A s \in SUBSET D : g[s] \in Int
  BY <1>1
<1> HIDE DEF g
<1>4. Grows(D, F, g)
  BY <1>2, <1>3 DEF Grows
<1> QED
  BY <1>3, <1>4, SumIs

LEMMA SumOfZeros ==
  ASSUME NEW D, IsFiniteSet(D)
  PROVE  SumFunction([i \in D |-> 0]) = 0
<1> DEFINE F == [i \in D |-> 0]
           g == [s \in SUBSET D |-> 0]
<1>1. F \in [D -> Int] /\ g[D] = 0
  OBVIOUS
<1>2. Grows(D, F, g)
  BY DEF Grows
<1> HIDE DEF F, g
<1>3. SumFunction(F) = 0
  BY <1>1, <1>2, SumIs
<1> QED
  BY <1>3 DEF F

(***************************************************************************)
(* Adding up by keys gives the same as adding up: the groups of an element *)
(* more differ in one place.                                               *)
(***************************************************************************)
Keys(D, k) == {k[i] : i \in D}
WithKey(D, k, r) == {i \in D : k[i] = r}
SumsByKey(D, k, F) == [r \in Keys(D, k) |-> SumFunction([i \in WithKey(D, k, r) |-> F[i]])]

LEMMA SumByKey ==
  ASSUME NEW D, IsFiniteSet(D), NEW F \in [D -> Int], NEW k
  PROVE  /\ IsFiniteSet(Keys(D, k))
         /\ SumsByKey(D, k, F) \in [Keys(D, k) -> Int]
         /\ SumFunction(SumsByKey(D, k, F)) = SumFunction(F)
<1> DEFINE keys == {k[i] : i \in D}
           In(s, r) == {i \in s : k[i] = r}
           Groups(s) == [r \in keys |-> Sums(F)[In(s, r)]]
           g == [s \in SUBSET D |-> SumFunction(Groups(s))]
<1>1. IsFiniteSet(keys)
  <2> DEFINE f == [i \in D |-> k[i]]
  <2>1. f \in Surjection(D, keys)
    BY DEF Surjection
  <2> HIDE DEF f
  <2> QED
    BY <2>1, FS_Surjection
<1>2. Grows(D, F, Sums(F))
  BY SumGrows
<1>3. ASSUME NEW s \in SUBSET D PROVE Groups(s) \in [keys -> Int]
  <2>1. \A r \in keys : In(s, r) \in SUBSET D
    OBVIOUS
  <2>2. \A r \in keys : Sums(F)[In(s, r)] \in Int
    BY <1>2, <2>1 DEF Grows
  <2> QED
    BY <2>2
<1>4. ASSUME NEW r \in keys PROVE SumFunction([i \in In(D, r) |-> F[i]]) = Groups(D)[r]
  <2>1. In(D, r) \in SUBSET D
    OBVIOUS
  <2>2. Groups(D)[r] = Sums(F)[In(D, r)]
    OBVIOUS
  <2> HIDE DEF In
  <2>3. SumFunction([i \in In(D, r) |-> F[i]]) = Sums(F)[In(D, r)]
    BY <2>1, SumOfPart
  <2> QED
    BY <2>2, <2>3
<1>5. Grows(D, F, g)
  <2>1. g[{}] = 0
    <3>1. \A r \in keys : In({}, r) = {}
      OBVIOUS
    <3>2. Sums(F)[{}] = 0
      BY <1>2 DEF Grows
    <3>3. Groups({}) = [r \in keys |-> 0]
      BY <3>1, <3>2
    <3>4. g[{}] = SumFunction(Groups({}))
      OBVIOUS
    <3> QED
      BY <1>1, <3>3, <3>4, SumOfZeros
  <2>2. ASSUME NEW s \in SUBSET D PROVE g[s] \in Int
    <3>1. SumFunction(Groups(s)) \in Int
      <4> HIDE DEF Groups
      <4> QED
        BY <1>1, <1>3, SumType
    <3> QED
      BY <3>1
  <2>3. ASSUME NEW s \in SUBSET D, NEW x \in s PROVE g[s] = F[x] + g[s \ {x}]
    <3> DEFINE one == [r \in keys |-> IF r = k[x] THEN F[x] ELSE 0]
               rest == Groups(s \ {x})
    <3>1. F[x] \in Int /\ k[x] \in keys /\ s \ {x} \in SUBSET D
      OBVIOUS
    <3>2. one \in [keys -> Int] /\ rest \in [keys -> Int] /\ Groups(s) \in [keys -> Int]
      <4>1. one \in [keys -> Int]
        BY <3>1
      <4>2. Groups(s) \in [keys -> Int] /\ rest \in [keys -> Int]
        <5> HIDE DEF Groups, keys
        <5> QED
          BY <1>3, <3>1
      <4> QED
        BY <4>1, <4>2
    <3>3. ASSUME NEW r \in keys PROVE Groups(s)[r] = one[r] + rest[r]
      <4>1. CASE r = k[x]
        <5>1. In(s, r) \in SUBSET D /\ x \in In(s, r) /\ In(s, r) \ {x} = In(s \ {x}, r)
          BY <4>1
        <5>2. Sums(F)[In(s, r)] = F[x] + Sums(F)[In(s, r) \ {x}]
          BY <1>2, <5>1 DEF Grows
        <5>3. Groups(s)[r] = Sums(F)[In(s, r)] /\ rest[r] = Sums(F)[In(s \ {x}, r)]
          OBVIOUS
        <5>4. one[r] = F[x]
          BY <4>1
        <5> HIDE DEF one, rest, Groups
        <5> QED
          BY <5>1, <5>2, <5>3, <5>4
      <4>2. CASE r # k[x]
        <5>1. In(s, r) = In(s \ {x}, r)
          BY <4>2
        <5>2. Groups(s)[r] = rest[r] /\ one[r] = 0 /\ rest[r] \in Int
          BY <3>2, <4>2, <5>1
        <5> HIDE DEF one, rest, Groups
        <5> QED
          BY <5>2
      <4> QED
        BY <4>1, <4>2
    <3>4. SumFunction(one) = F[x]
      <4>1. one[k[x]] = F[x] /\ \A r \in keys : r # k[x] => one[r] = 0
        BY <3>1
      <4> HIDE DEF one
      <4> QED
        BY <1>1, <3>1, <3>2, <4>1, SumOfOne
    <3>5. g[s] = SumFunction(Groups(s)) /\ g[s \ {x}] = SumFunction(rest)
      BY <3>1
    <3> HIDE DEF one, rest, Groups, g
    <3>6. Groups(s) = [r \in keys |-> one[r] + rest[r]]
      BY <3>2, <3>3
    <3>7. SumFunction(Groups(s)) = SumFunction(one) + SumFunction(rest)
      BY <1>1, <3>2, <3>6, SumAdds
    <3> QED
      BY <3>4, <3>5, <3>7
  <2> HIDE DEF g
  <2> QED
    BY <2>1, <2>2, <2>3 DEF Grows
<1>6. g[D] = SumFunction(Groups(D))
  OBVIOUS
<1>7. SumFunction(F) = g[D]
  <2> HIDE DEF g
  <2> QED
    BY <1>5, SumIs
<1>8. keys = Keys(D, k) /\ \A r \in keys : WithKey(D, k, r) = In(D, r)
  BY DEF Keys, WithKey
<1>9. SumsByKey(D, k, F) = Groups(D)
  BY <1>4, <1>8 DEF SumsByKey
<1>10. Groups(D) \in [keys -> Int]
  BY <1>3
<1> HIDE DEF Groups, keys
<1> QED
  BY <1>1, <1>6, <1>7, <1>8, <1>9, <1>10

-----------------------------------------------------------------------------
(***************************************************************************)
(* Roundings.                                                              *)
(***************************************************************************)
LEMMA CentsFacts ==
  ASSUME NEW amount \in Int, NEW c \in Cents(amount)
  PROVE  /\ c \in Int
         /\ 2 * (c * Cent - amount) <= Cent
         /\ 2 * (amount - c * Cent) <= Cent
<1>1. c \in {amount \div Cent, amount \div Cent + 1} /\ 2 * Distance(c * Cent, amount) <= Cent
  BY DEF Cents
<1>2. Cent = 100000
  BY DEF Cent, Scale
<1>3. c \in Int
  BY <1>1, <1>2
<1> QED
  BY <1>1, <1>2, <1>3 DEF Distance

\* Each part was rounded to a cent.
Rounded(D, parts, exact) ==
    \A i \in D : 2 * (parts[i] * Cent - exact[i]) <= Cent /\ 2 * (exact[i] - parts[i] * Cent) <= Cent

LEMMA RoundingsAdd ==
  ASSUME NEW D, IsFiniteSet(D), NEW parts \in [D -> Int], NEW exact \in [D -> Int],
         Rounded(D, parts, exact)
  PROVE  /\ 2 * (SumFunction(parts) * Cent - SumFunction(exact)) <= Cardinality(D) * Cent
         /\ 2 * (SumFunction(exact) - SumFunction(parts) * Cent) <= Cardinality(D) * Cent
<1> DEFINE p == Sums(parts)
           e == Sums(exact)
           Q == {s \in SUBSET D : /\ 2 * (p[s] * Cent - e[s]) <= Cardinality(s) * Cent
                                  /\ 2 * (e[s] - p[s] * Cent) <= Cardinality(s) * Cent}
<1>1. Grows(D, parts, p) /\ Grows(D, exact, e)
  BY SumGrows
<1>2. Cent = 100000
  BY DEF Cent, Scale
<1> HIDE DEF p, e
<1>3. ASSUME NEW s \in SUBSET D, \A x \in s : s \ {x} \in Q
      PROVE  s \in Q
  <2>1. CASE s = {}
    <3>1. p[s] = 0 /\ e[s] = 0 /\ Cardinality(s) = 0
      BY <1>1, <2>1, SubsetFacts DEF Grows
    <3> QED
      BY <1>2, <3>1
  <2>2. CASE s # {}
    <3>1. PICK x \in s : TRUE
      BY <2>2
    <3> DEFINE t == s \ {x}
    <3>2. t \in SUBSET D /\ s \ {x} = t
      OBVIOUS
    <3>3. p[t] \in Int /\ e[t] \in Int /\ parts[x] \in Int /\ exact[x] \in Int
      BY <1>1, <3>2 DEF Grows
    <3>4. p[s] = parts[x] + p[t] /\ e[s] = exact[x] + e[t]
      BY <1>1, <3>2 DEF Grows
    <3>5. /\ Cardinality(t) = Cardinality(s) - 1
          /\ Cardinality(s) \in Nat
      BY <3>2, SubsetFacts
    <3>6. /\ 2 * (p[t] * Cent - e[t]) <= Cardinality(t) * Cent
          /\ 2 * (e[t] - p[t] * Cent) <= Cardinality(t) * Cent
      BY <1>3, <3>1
    <3>7. /\ 2 * (parts[x] * Cent - exact[x]) <= Cent
          /\ 2 * (exact[x] - parts[x] * Cent) <= Cent
      BY DEF Rounded
    <3> HIDE DEF t
    <3>8. /\ 2 * (p[s] * Cent - e[s]) <= Cardinality(s) * Cent
          /\ 2 * (e[s] - p[s] * Cent) <= Cardinality(s) * Cent
      BY <1>2, <3>3, <3>4, <3>5, <3>6, <3>7
    <3> QED
      BY <3>8
  <2> QED
    BY <2>1, <2>2
<1>4. D \in Q
  <2>1. SUBSET D \subseteq Q
    <3> HIDE DEF Q
    <3> QED
      BY <1>3, InductionOverSubsets
  <2> QED
    BY <2>1
<1>5. SumFunction(parts) = p[D] /\ SumFunction(exact) = e[D]
  BY SumType DEF p, e
<1> QED
  BY <1>4, <1>5

\* Parts rounded on their own and a total rounded once.
LEMMA RoundedAddUp ==
  ASSUME NEW D, IsFiniteSet(D), NEW exact \in [D -> Int], NEW parts \in RoundedEach(exact),
         NEW total \in Cents(SumFunction(exact))
  PROVE  AddsUp(parts, total)
<1>1. DOMAIN exact = D /\ DOMAIN parts = D /\ \A i \in D : parts[i] \in Cents(exact[i])
  BY DEF RoundedEach
<1>2. ASSUME NEW i \in D
      PROVE  /\ parts[i] \in Int
             /\ 2 * (parts[i] * Cent - exact[i]) <= Cent /\ 2 * (exact[i] - parts[i] * Cent) <= Cent
  <2>1. exact[i] \in Int
    OBVIOUS
  <2> QED
    BY <1>1, <2>1, CentsFacts
<1>3. parts \in [D -> Int]
  <2>1. parts = [i \in D |-> parts[i]]
    BY <1>1 DEF RoundedEach
  <2> QED
    BY <1>2, <2>1
<1>4. Rounded(D, parts, exact)
  BY <1>2 DEF Rounded
<1> DEFINE n == Cardinality(D)
           p == SumFunction(parts)
           e == SumFunction(exact)
<1>5. n \in Nat /\ p \in Int /\ e \in Int
  BY <1>3, FS_CardinalityType, SumType
<1>6. 2 * (p * Cent - e) <= n * Cent /\ 2 * (e - p * Cent) <= n * Cent
  BY <1>3, <1>4, RoundingsAdd
<1>7. total \in Int /\ 2 * (total * Cent - e) <= Cent /\ 2 * (e - total * Cent) <= Cent
  BY <1>5, CentsFacts
<1>8. AddsUp(parts, total) <=> 2 * Distance(p, total) <= n + 1
  BY <1>1 DEF AddsUp
<1> HIDE DEF n, p, e
<1>9. Cent = 100000
  BY DEF Cent, Scale
<1>10. 2 * (p - total) <= n + 1 /\ 2 * (total - p) <= n + 1
  BY <1>5, <1>6, <1>7, <1>9
<1> QED
  BY <1>5, <1>7, <1>8, <1>10 DEF Distance

-----------------------------------------------------------------------------
(***************************************************************************)
(* The sums over the lines of an invoice, without operators as arguments.  *)
(***************************************************************************)
BasisOf(lines) == [i \in DOMAIN lines |-> Basis(lines[i])]
TaxOf(lines) == [i \in DOMAIN lines |-> Tax(lines[i])]

BasisAt(lines) ==
    [r \in Rates(lines) |-> SumFunction([i \in DOMAIN LinesAt(lines, r) |->
                                            Basis(LinesAt(lines, r)[i])])]
TaxAt(lines) ==
    [r \in Rates(lines) |-> SumFunction([i \in DOMAIN LinesAt(lines, r) |->
                                            Tax(LinesAt(lines, r)[i])])]

LEMMA LineFacts ==
  ASSUME NEW line \in CanonicalLine
  PROVE  Basis(line) \in Int /\ Tax(line) \in Int
<1>1. line.quantity \in Int /\ line.unitPrice \in Int /\ line.taxRate \in Int
  BY DEF CanonicalLine
<1>2. line.quantity * line.unitPrice \in Int
  BY <1>1
<1> QED
  BY <1>1, <1>2 DEF Basis, Tax

LEMMA LinesFacts ==
  ASSUME NEW lines \in Seq(CanonicalLine)
  PROVE  /\ IsFiniteSet(DOMAIN lines)
         /\ BasisOf(lines) \in [DOMAIN lines -> Int]
         /\ TaxOf(lines) \in [DOMAIN lines -> Int]
         /\ SumFunction(BasisOf(lines)) \in Int
         /\ SumFunction(TaxOf(lines)) \in Int
<1>1. DOMAIN lines = 1 .. Len(lines) /\ Len(lines) \in Nat
  OBVIOUS
<1>2. IsFiniteSet(DOMAIN lines)
  BY <1>1, FS_Interval
<1>3. \A i \in DOMAIN lines : Basis(lines[i]) \in Int /\ Tax(lines[i]) \in Int
  <2>1. \A i \in DOMAIN lines : lines[i] \in CanonicalLine
    OBVIOUS
  <2> QED
    BY <2>1, LineFacts
<1>4. BasisOf(lines) \in [DOMAIN lines -> Int] /\ TaxOf(lines) \in [DOMAIN lines -> Int]
  BY <1>3 DEF BasisOf, TaxOf
<1> QED
  BY <1>2, <1>4, SumType

LEMMA SumLines ==
  ASSUME NEW lines \in Seq(CanonicalLine)
  PROVE  sumLines(lines) = SumFunction(BasisOf(lines)) + SumFunction(TaxOf(lines))
<1> DEFINE D == DOMAIN lines
           b == BasisOf(lines)
           t == TaxOf(lines)
<1>1. sumLines(lines) = SumFunction([i \in D |-> Basis(lines[i]) + Tax(lines[i])])
  BY Zenon DEF sumLines, SumOver
<1>2. \A i \in D : Basis(lines[i]) = b[i] /\ Tax(lines[i]) = t[i]
  BY DEF BasisOf, TaxOf
<1>3. [i \in D |-> Basis(lines[i]) + Tax(lines[i])] = [i \in D |-> b[i] + t[i]]
  BY <1>2
<1>4. SumFunction([i \in D |-> b[i] + t[i]]) = SumFunction(b) + SumFunction(t)
  BY LinesFacts, SumAdds
<1> QED
  BY <1>1, <1>3, <1>4

\* The groups per rate have the sum of the lines.
LEMMA RatesFacts ==
  ASSUME NEW lines \in Seq(CanonicalLine)
  PROVE  /\ IsFiniteSet(Rates(lines))
         /\ BasisAt(lines) \in [Rates(lines) -> Int]
         /\ TaxAt(lines) \in [Rates(lines) -> Int]
         /\ SumFunction(BasisAt(lines)) = SumFunction(BasisOf(lines))
         /\ SumFunction(TaxAt(lines)) = SumFunction(TaxOf(lines))
<1> DEFINE D == DOMAIN lines
           k == [i \in D |-> lines[i].taxRate]
<1>1. Rates(lines) = Keys(D, k)
  BY DEF Rates, Keys
<1>2. ASSUME NEW F \in [D -> Int]
      PROVE  /\ IsFiniteSet(Rates(lines))
             /\ SumsByKey(D, k, F) \in [Rates(lines) -> Int]
             /\ SumFunction(SumsByKey(D, k, F)) = SumFunction(F)
  <2>1. IsFiniteSet(D)
    BY LinesFacts
  <2> HIDE DEF k, D
  <2> QED
    BY <1>1, <2>1, SumByKey
<1>3. ASSUME NEW r
      PROVE  DOMAIN LinesAt(lines, r) = WithKey(D, k, r)
             /\ \A i \in WithKey(D, k, r) : LinesAt(lines, r)[i] = lines[i] /\ i \in D
  BY DEF LinesAt, Restrict, WithKey
<1>4. BasisAt(lines) = SumsByKey(D, k, BasisOf(lines))
  <2>1. ASSUME NEW r \in Rates(lines)
        PROVE  [i \in DOMAIN LinesAt(lines, r) |-> Basis(LinesAt(lines, r)[i])]
                 = [i \in WithKey(D, k, r) |-> BasisOf(lines)[i]]
    BY <1>3 DEF BasisOf
  <2> HIDE DEF k, D
  <2> QED
    BY <1>1, <2>1 DEF BasisAt, SumsByKey
<1>5. TaxAt(lines) = SumsByKey(D, k, TaxOf(lines))
  <2>1. ASSUME NEW r \in Rates(lines)
        PROVE  [i \in DOMAIN LinesAt(lines, r) |-> Tax(LinesAt(lines, r)[i])]
                 = [i \in WithKey(D, k, r) |-> TaxOf(lines)[i]]
    BY <1>3 DEF TaxOf
  <2> HIDE DEF k, D
  <2> QED
    BY <1>1, <2>1 DEF TaxAt, SumsByKey
<1>6. BasisOf(lines) \in [D -> Int] /\ TaxOf(lines) \in [D -> Int]
  BY LinesFacts
<1> HIDE DEF k, D
<1> QED
  BY <1>2, <1>4, <1>5, <1>6

LEMMA TotalsFacts ==
  ASSUME NEW inv, NEW t \in computeInvoiceTotals(inv)
  PROVE  /\ t.netTotal \in Cents(SumFunction(BasisOf(inv.lines)))
         /\ t.taxTotal \in Cents(SumFunction(TaxOf(inv.lines)))
         /\ t.discountTotal \in Cents(inv.discount * Scale)
         /\ t.grandTotal = t.netTotal + t.taxTotal - t.discountTotal
  BY DEF computeInvoiceTotals, SumOver, BasisOf, TaxOf

LEMMA XmlFacts ==
  ASSUME NEW inv, NEW x \in buildCiiXml(inv)
  PROVE  /\ x.lineTotal \in RoundedEach(BasisOf(inv.lines))
         /\ x.basis \in RoundedEach(BasisAt(inv.lines))
         /\ x.tax \in RoundedEach(TaxAt(inv.lines))
  BY DEF buildCiiXml, SumOver, BasisOf, BasisAt, TaxAt

-----------------------------------------------------------------------------
(***************************************************************************)
(* The mapper.                                                             *)
(***************************************************************************)
ValidLine(line) == line.quantity > 0 /\ line.unitPrice >= 0 /\ line.taxRate \in 0 .. 1000

LEMMA MappedLine ==
  ASSUME NEW row \in RawLines, row # None
  PROVE  mapLine(row) \in CanonicalLine /\ ValidLine(mapLine(row))
<1>1. /\ row.quantity \in Int \cup {None} /\ row.unitPrice \in Int \cup {None}
      /\ row.taxRate \in Int \cup {None}
  BY InvoiceTotalsAssumption
<1> DEFINE q == asNumber(row.quantity, 10)
           p == asNumber(row.unitPrice, 0)
           t == asNumber(row.taxRate, 0)
<1>2. q \in Int /\ p \in Int /\ t \in Int
  BY <1>1 DEF asNumber
<1>3. mapLine(row) = [quantity  |-> IF q > 0 THEN q ELSE 10,
                      unitPrice |-> Larger(p, 0),
                      taxRate   |-> IF t \in 0 .. 1000 THEN t ELSE 0]
  BY DEF mapLine
<1> HIDE DEF q, p, t
<1> QED
  BY <1>2, <1>3 DEF CanonicalLine, ValidLine, Larger

LEMMA ExtractedLines ==
  ASSUME NEW input \in Body, ~HasNullLine(input)
  PROVE  /\ extractLines(input) \in Seq(CanonicalLine)
         /\ extractLines(input) # <<>>
         /\ \A i \in DOMAIN extractLines(input) :
               \/ ValidLine(extractLines(input)[i])
               \/ input.lines = <<>> /\ input.total # None /\ input.total < 0
<1>1. input.lines \in Seq(RawLines) /\ input.total \in Int \cup {None}
  BY DEF Body
<1>2. CASE input.lines # <<>>
  <2> DEFINE n == Len(input.lines)
  <2>1. n \in Nat /\ n # 0 /\ DOMAIN input.lines = 1 .. n
    BY <1>1, <1>2
  <2>2. \A i \in 1 .. n : input.lines[i] \in RawLines /\ input.lines[i] # None
    BY <1>1, <2>1 DEF HasNullLine
  <2>3. extractLines(input) = [i \in 1 .. n |-> mapLine(input.lines[i])]
    BY <1>2, <2>1 DEF extractLines
  <2>4. \A i \in 1 .. n : mapLine(input.lines[i]) \in CanonicalLine
                            /\ ValidLine(mapLine(input.lines[i]))
    BY <2>2, MappedLine
  <2> HIDE DEF n
  <2>5. extractLines(input) \in [1 .. n -> CanonicalLine]
    BY <2>3, <2>4
  <2>6. extractLines(input) \in Seq(CanonicalLine)
    BY <2>1, <2>5
  <2>7. 1 \in DOMAIN extractLines(input)
    BY <2>1, <2>3
  <2> QED
    BY <2>3, <2>4, <2>6, <2>7
<1>3. CASE input.lines = <<>>
  <2> DEFINE price == IF input.inTotalAmount THEN asNumber(input.total, 0) ELSE 0
             line == [quantity |-> 10, unitPrice |-> price, taxRate |-> 0]
  <2>1. price \in Int /\ (price >= 0 \/ (input.total # None /\ input.total < 0))
    BY <1>1 DEF asNumber
  <2>2. extractLines(input) = <<line>>
    BY <1>3 DEF extractLines
  <2> HIDE DEF price
  <2>3. line \in CanonicalLine /\ (price >= 0 => ValidLine(line))
    BY <2>1 DEF CanonicalLine, ValidLine
  <2> HIDE DEF line
  <2>4. <<line>> \in Seq(CanonicalLine) /\ <<line>> # <<>>
    BY <2>3
  <2>5. \A i \in DOMAIN <<line>> : <<line>>[i] = line
    OBVIOUS
  <2> QED
    BY <1>3, <2>1, <2>2, <2>3, <2>4, <2>5
<1> QED
  BY <1>2, <1>3

LEMMA ExpectedFacts ==
  ASSUME NEW lines \in Seq(CanonicalLine), NEW discount \in Int
  PROVE  /\ expectedTotal(lines, discount) \in Int
         /\ expectedTotal(lines, discount) >= 0
         /\ expectedTotal(lines, Larger(discount, 0)) = expectedTotal(lines, discount)
         /\ discount >= 0 => \/ expectedTotal(lines, discount) = sumLines(lines) - discount * Scale
                             \/ sumLines(lines) < discount * Scale
<1>1. sumLines(lines) \in Int
  BY LinesFacts, SumLines
<1>2. Larger(0, Larger(discount, 0)) = Larger(0, discount) /\ Larger(0, discount) \in Int
  BY DEF Larger
<1>3. Larger(0, discount) * Scale \in Int
  BY <1>2 DEF Scale
<1>4. discount >= 0 => Larger(0, discount) = discount
  BY DEF Larger
<1>5. discount * Scale \in Int
  BY DEF Scale
<1> QED
  BY <1>1, <1>2, <1>3, <1>4, <1>5 DEF expectedTotal, Larger

\* The reasons for which MAP_CANONICAL may refuse a body that has no null line.
HeaderRefused(input) ==
    \/ "two characters" \in {input.header.buyer, input.header.seller}
    \/ "more digits" \in {input.header.issueDate, input.header.dueDate}

TotalRefused(input) ==
    /\ input.total # None /\ input.total < 0
    /\ \/ input.lines = <<>>
       \/ expectedTotal(extractLines(input), asNumber(input.discount, 0)) <= Cent

LEMMA MappedHeader ==
  ASSUME NEW input \in Body
  PROVE  /\ mapHeader(input.header) \in Header
         /\ HeaderIsCanonical(mapHeader(input.header)) \/ HeaderRefused(input)
<1>1. input.header \in Header
  BY InvoiceTotalsAssumption DEF Body
<1> QED
  BY <1>1 DEF mapHeader, normalizeCountry, normalizeDate, Header, Country, Date,
              HeaderIsCanonical, HeaderRefused

\* The mapper's total is the expected one or the reported one, within the tolerance, and
\* so the schema can only object to the header or to what is negative.
LEMMA MapperSatisfiesSchema ==
  ASSUME NEW input \in Body, ~HasNullLine(input)
  PROVE  /\ mapGhlToCanonical(input) \in CanonicalInvoice
         /\ \/ IsCanonical(mapGhlToCanonical(input))
            \/ HeaderRefused(input)
            \/ TotalRefused(input)
<1> DEFINE c == mapGhlToCanonical(input)
           lines == extractLines(input)
           discount == asNumber(input.discount, 0)
           expected == expectedTotal(lines, discount)
           parsed == IF input.total = None THEN expected ELSE input.total * Scale
<1>1. discount \in Int /\ input.total \in Int \cup {None}
  <2>1. input.discount \in Discounts /\ input.total \in Int \cup {None}
    BY DEF Body
  <2>2. input.discount \in Int \cup {None}
    BY <2>1, InvoiceTotalsAssumption
  <2> QED
    BY <2>1, <2>2 DEF asNumber
<1>2. /\ lines \in Seq(CanonicalLine) /\ lines # <<>>
      /\ \A i \in DOMAIN lines : ValidLine(lines[i])
                                   \/ (input.lines = <<>> /\ input.total # None /\ input.total < 0)
  BY ExtractedLines
<1>3. /\ c.header = mapHeader(input.header)
      /\ c.lines = lines /\ c.discount = Larger(discount, 0)
      /\ c.totalAmount = IF WithinTolerance(parsed, expected) THEN parsed ELSE expected
      /\ c = [header |-> c.header, lines |-> c.lines, discount |-> c.discount,
              totalAmount |-> c.totalAmount]
  BY DEF mapGhlToCanonical
<1> HIDE DEF c, lines, discount
<1>4. expected \in Int /\ expected >= 0 /\ expectedTotal(lines, c.discount) = expected
  BY <1>1, <1>2, <1>3, ExpectedFacts
<1>5. parsed \in Int /\ (parsed >= 0 \/ (input.total # None /\ input.total < 0))
  BY <1>1, <1>4 DEF Scale
<1> HIDE DEF expected, parsed
<1>6. Cent = 100000
  BY DEF Cent, Scale
<1>7. /\ c.totalAmount \in Int /\ WithinTolerance(c.totalAmount, expected)
      /\ c.totalAmount < 0 => c.totalAmount = parsed /\ expected <= Cent
  BY <1>3, <1>4, <1>5, <1>6 DEF WithinTolerance, Distance
<1>8. c.discount \in Int /\ c.discount >= 0
  BY <1>1, <1>3 DEF Larger
<1>9. c.header \in Header /\ (HeaderIsCanonical(c.header) \/ HeaderRefused(input))
  BY <1>3, MappedHeader
<1>10. c \in CanonicalInvoice
  BY <1>2, <1>3, <1>7, <1>8, <1>9 DEF CanonicalInvoice
<1>11. CASE c.totalAmount < 0
  BY <1>5, <1>7, <1>10, <1>11 DEF c, lines, discount, expected, TotalRefused
<1>12. CASE \E i \in DOMAIN lines : ~ValidLine(lines[i])
  BY <1>2, <1>10, <1>12 DEF c, TotalRefused
<1>13. CASE /\ HeaderIsCanonical(c.header) /\ c.totalAmount >= 0
            /\ \A i \in DOMAIN lines : ValidLine(lines[i])
  <2>1. IsCanonical(c)
    BY <1>2, <1>3, <1>4, <1>7, <1>8, <1>13 DEF IsCanonical, ValidLine
  <2> QED
    BY <1>10, <2>1 DEF c
<1> QED
  BY <1>7, <1>9, <1>10, <1>11, <1>12, <1>13 DEF c

-----------------------------------------------------------------------------
(***************************************************************************)
(* The behaviours.                                                         *)
(***************************************************************************)
TotalsInv == TypeOK /\ MappingFailsOnlyForCause

LEMMA ReportedBody ==
  ASSUME NEW input \in Bodies, NEW total \in ReportedTotals(input)
  PROVE  [input EXCEPT !.total = total] \in Body
<1> DEFINE expected == expectedTotal(extractLines(input), asNumber(input.discount, 0))
<1>1. /\ input = [header |-> input.header, lines |-> input.lines,
                  discount |-> input.discount, total |-> None,
                  inTotalAmount |-> input.inTotalAmount]
      /\ input.header \in Headers /\ input.discount \in Discounts /\ input.inTotalAmount \in BOOLEAN
  BY DEF Bodies
<1>2. input.lines \in Seq(RawLines)
  <2>1. PICK n \in 0 .. MaxLines : input.lines \in [1 .. n -> RawLines]
    BY DEF Bodies
  <2>2. n \in Nat
    BY InvoiceTotalsAssumption
  <2> QED
    BY <2>1, <2>2
<1>3. input \in Body
  BY <1>1, <1>2 DEF Body
<1>4. asNumber(input.discount, 0) \in Int
  <2>1. input.discount \in Int \cup {None}
    BY <1>1, InvoiceTotalsAssumption
  <2> QED
    BY <2>1 DEF asNumber
<1>5. CASE HasNullLine(input)
  BY <1>1, <1>2, <1>5 DEF ReportedTotals, Body
<1>6. CASE ~HasNullLine(input)
  <2>1. expected \in Int
    BY <1>3, <1>4, <1>6, ExtractedLines, ExpectedFacts
  <2>2. total \in {None} \cup {expected \div Scale + offset : offset \in Offsets}
    BY <1>6 DEF ReportedTotals
  <2> HIDE DEF expected
  <2>3. \A offset \in Offsets : expected \div Scale + offset \in Int
    BY <2>1, InvoiceTotalsAssumption DEF Scale
  <2>4. total \in Int \cup {None}
    BY <2>2, <2>3
  <2> QED
    BY <1>1, <1>2, <2>4 DEF Body
<1> QED
  BY <1>5, <1>6

LEMMA InitEstablishesInv == Init => TotalsInv
<1> SUFFICES ASSUME Init PROVE TotalsInv
  OBVIOUS
<1>1. PICK input \in Bodies : \E total \in ReportedTotals(input) :
                                 body = [input EXCEPT !.total = total]
  BY DEF Init
<1>2. body \in Body
  BY <1>1, ReportedBody
<1> QED
  BY <1>2 DEF Init, TotalsInv, TypeOK, MappingFailsOnlyForCause

LEMMA NextKeepsInv == TotalsInv /\ [Next]_vars => TotalsInv'
<1> SUFFICES ASSUME TotalsInv, [Next]_vars PROVE TotalsInv'
  OBVIOUS
<1>1. CASE Map
  <2>1. body \in Body /\ body' = body
    BY <1>1 DEF TotalsInv, TypeOK, Map
  <2>2. CASE ~HasNullLine(body) /\ IsCanonical(mapGhlToCanonical(body))
    <3>1. stage' = "mapped" /\ invoice' = mapGhlToCanonical(body)
      BY <1>1, <2>2 DEF Map
    <3>2. invoice' \in CanonicalInvoice /\ IsCanonical(invoice')
      BY <2>1, <2>2, <3>1, MapperSatisfiesSchema
    <3> QED
      BY <2>1, <3>1, <3>2 DEF TotalsInv, TypeOK, MappingFailsOnlyForCause
  <2>3. CASE HasNullLine(body) \/ ~IsCanonical(mapGhlToCanonical(body))
    <3>1. stage' = "rejected" /\ invoice' = invoice /\ stage = "fetched"
      BY <1>1, <2>3 DEF Map
    <3>2. HasNullLine(body) \/ HeaderRefused(body) \/ TotalRefused(body)
      BY <2>1, <2>3, MapperSatisfiesSchema
    <3>3. MappingFailsOnlyForCause'
      BY <2>1, <3>2 DEF MappingFailsOnlyForCause, HeaderRefused, TotalRefused
    <3> QED
      BY <2>1, <3>1, <3>3 DEF TotalsInv, TypeOK
  <2> QED
    BY <2>2, <2>3
<1>2. CASE Generate
  BY <1>2 DEF Generate, TotalsInv, TypeOK, MappingFailsOnlyForCause
<1>3. CASE UNCHANGED vars
  BY <1>3 DEF vars, TotalsInv, TypeOK, MappingFailsOnlyForCause
<1> QED
  BY <1>1, <1>2, <1>3 DEF Next

LEMMA TotalsInvariant == Spec => []TotalsInv
  BY InitEstablishesInv, NextKeepsInv, PTL DEF Spec

(***************************************************************************)
(* The variables keep their types, whatever GHL sends: what was mapped     *)
(* satisfies the schema, and totals and XML are computed from it.          *)
(***************************************************************************)
THEOREM TypeCorrectness == Spec => []TypeOK
<1>1. TotalsInv => TypeOK
  BY DEF TotalsInv
<1> QED
  BY <1>1, TotalsInvariant, PTL

(***************************************************************************)
(* MAP_CANONICAL throws only for a cause: a null among the lines, a        *)
(* country of two characters that are not letters, a date after the year   *)
(* 9999, or a negative total with no line, or nearly nothing left to pay,  *)
(* beside it.  For every other body the mapper's result passes the schema. *)
(***************************************************************************)
THEOREM MapperAndSchemaAgree == Spec => []MappingFailsOnlyForCause
<1>1. TotalsInv => MappingFailsOnlyForCause
  BY DEF TotalsInv
<1> QED
  BY <1>1, TotalsInvariant, PTL

(***************************************************************************)
(* The documents ask for the total of the canonical invoice, up to three   *)
(* roundings and the tolerance, for any number of lines, unless the        *)
(* discount is larger than the invoice.                                    *)
(***************************************************************************)
THEOREM DocumentsAskForTheTotal == Spec => []DocumentsAskForTheCanonicalTotal
<1>1. TypeOK => DocumentsAskForTheCanonicalTotal
  <2> SUFFICES ASSUME TypeOK, stage = "generated", ~(sumLines(invoice.lines) < invoice.discount * Scale)
               PROVE  2 * Distance(totals.grandTotal * Cent, invoice.totalAmount) <= 5 * Cent
    BY DEF DocumentsAskForTheCanonicalTotal
  <2>1. /\ invoice \in CanonicalInvoice /\ IsCanonical(invoice)
        /\ totals \in computeInvoiceTotals(invoice)
    BY DEF TypeOK
  <2> DEFINE net == SumFunction(BasisOf(invoice.lines))
             tax == SumFunction(TaxOf(invoice.lines))
             discount == invoice.discount * Scale
             asked == invoice.totalAmount
  <2>2. /\ invoice.lines \in Seq(CanonicalLine) /\ invoice.discount \in Int /\ asked \in Int
        /\ invoice.discount >= 0
    BY <2>1 DEF CanonicalInvoice, IsCanonical
  <2>3. net \in Int /\ tax \in Int /\ sumLines(invoice.lines) = net + tax
    BY <2>2, LinesFacts, SumLines
  <2>4. discount \in Int
    BY <2>2 DEF Scale
  <2>5. Distance(asked, net + tax - discount) <= Cent
    <3>1. expectedTotal(invoice.lines, invoice.discount) = net + tax - discount
      <4>1. ~(sumLines(invoice.lines) < discount)
        OBVIOUS
      <4>2. \/ expectedTotal(invoice.lines, invoice.discount) = sumLines(invoice.lines) - discount
            \/ sumLines(invoice.lines) < discount
        BY <2>2, ExpectedFacts
      <4> HIDE DEF net, tax, discount
      <4> QED
        BY <2>3, <2>4, <4>1, <4>2
    <3> QED
      BY <2>1, <3>1 DEF IsCanonical, WithinTolerance
  <2>6. /\ totals.netTotal \in Cents(net) /\ totals.taxTotal \in Cents(tax)
        /\ totals.discountTotal \in Cents(discount)
        /\ totals.grandTotal = totals.netTotal + totals.taxTotal - totals.discountTotal
    BY <2>1, TotalsFacts
  <2> HIDE DEF net, tax, discount, asked
  <2>7. /\ totals.netTotal \in Int /\ 2 * (totals.netTotal * Cent - net) <= Cent
        /\ 2 * (net - totals.netTotal * Cent) <= Cent
    BY <2>3, <2>6, CentsFacts
  <2>8. /\ totals.taxTotal \in Int /\ 2 * (totals.taxTotal * Cent - tax) <= Cent
        /\ 2 * (tax - totals.taxTotal * Cent) <= Cent
    BY <2>3, <2>6, CentsFacts
  <2>9. /\ totals.discountTotal \in Int /\ 2 * (totals.discountTotal * Cent - discount) <= Cent
        /\ 2 * (discount - totals.discountTotal * Cent) <= Cent
    BY <2>4, <2>6, CentsFacts
  <2>10. Cent = 100000
    BY DEF Cent, Scale
  <2>11. asked - (net + tax - discount) <= Cent /\ (net + tax - discount) - asked <= Cent
    BY <2>2, <2>3, <2>4, <2>5, <2>10 DEF Distance
  <2>12. PICK n \in Int, t \in Int, d \in Int :
            n = totals.netTotal * Cent /\ t = totals.taxTotal * Cent /\ d = totals.discountTotal * Cent
    BY <2>7, <2>8, <2>9, <2>10
  <2>13. totals.grandTotal * Cent = n + t - d
    <3>1. \A a, b, c \in Int : (a + b - c) * 100000 = a * 100000 + b * 100000 - c * 100000
      OBVIOUS
    <3>2. totals.grandTotal * 100000
            = totals.netTotal * 100000 + totals.taxTotal * 100000 - totals.discountTotal * 100000
      BY <3>1, <2>6, <2>7, <2>8, <2>9
    <3> QED
      BY <3>2, <2>10, <2>12
  <2>14. /\ 2 * (n - net) <= 100000 /\ 2 * (net - n) <= 100000
         /\ 2 * (t - tax) <= 100000 /\ 2 * (tax - t) <= 100000
         /\ 2 * (d - discount) <= 100000 /\ 2 * (discount - d) <= 100000
         /\ asked - (net + tax - discount) <= 100000 /\ (net + tax - discount) - asked <= 100000
    BY <2>7, <2>8, <2>9, <2>10, <2>11, <2>12
  <2>15. 2 * ((n + t - d) - asked) <= 500000 /\ 2 * (asked - (n + t - d)) <= 500000
    BY <2>2, <2>3, <2>4, <2>14
  <2>16. 2 * Distance(n + t - d, asked) <= 5 * Cent
    BY <2>2, <2>10, <2>15 DEF Distance
  <2> QED
    BY <2>13, <2>16 DEF asked
<1> QED
  BY <1>1, TypeCorrectness, PTL

(***************************************************************************)
(* The amounts of the XML add up within their roundings, for any lines and *)
(* any grouping of them by rate.                                           *)
(***************************************************************************)
THEOREM XmlAmountsAddUp == Spec => []XmlAddsUp
<1>1. TypeOK => XmlAddsUp
  <2> SUFFICES ASSUME TypeOK, stage = "generated"
               PROVE  /\ AddsUp(xml.lineTotal, totals.netTotal)
                      /\ AddsUp(xml.basis, totals.netTotal)
                      /\ AddsUp(xml.tax, totals.taxTotal)
    BY DEF XmlAddsUp
  <2> DEFINE lines == invoice.lines
  <2>1. /\ lines \in Seq(CanonicalLine)
        /\ totals \in computeInvoiceTotals(invoice) /\ xml \in buildCiiXml(invoice)
    BY DEF TypeOK, CanonicalInvoice
  <2>2. /\ totals.netTotal \in Cents(SumFunction(BasisOf(lines)))
        /\ totals.taxTotal \in Cents(SumFunction(TaxOf(lines)))
    BY <2>1, TotalsFacts
  <2>3. /\ xml.lineTotal \in RoundedEach(BasisOf(lines))
        /\ xml.basis \in RoundedEach(BasisAt(lines))
        /\ xml.tax \in RoundedEach(TaxAt(lines))
    BY <2>1, XmlFacts
  <2> HIDE DEF lines
  <2>4. AddsUp(xml.lineTotal, totals.netTotal)
    BY <2>1, <2>2, <2>3, LinesFacts, RoundedAddUp
  <2>5. AddsUp(xml.basis, totals.netTotal)
    BY <2>1, <2>2, <2>3, RatesFacts, RoundedAddUp
  <2>6. AddsUp(xml.tax, totals.taxTotal)
    BY <2>1, <2>2, <2>3, RatesFacts, RoundedAddUp
  <2> QED
    BY <2>4, <2>5, <2>6
<1> QED
  BY <1>1, TypeCorrectness, PTL
=============================================================================
