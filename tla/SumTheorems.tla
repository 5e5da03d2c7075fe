----------------------------- MODULE SumTheorems -----------------------------
(***************************************************************************)
(* Facts about SumFunctionOnSet, the sum of a function over a finite set,  *)
(* that the proofs about totals cite.  The library defines it as a fold:   *)
(* the value, at the whole set, of a function that takes the elements one  *)
(* by one.  What holds of it is proved with sets of subsets in the place   *)
(* of predicates: of the subsets that lack a property, one of least size   *)
(* would have it.                                                          *)
(***************************************************************************)
EXTENDS Integers, Functions, FiniteSetTheorems, WellFoundedInduction, TLAPS

-----------------------------------------------------------------------------
(* Induction over the subsets of a finite set.                             *)

\* A set of naturals that is not empty has a least element.
LEMMA LeastElement ==
  ASSUME NEW T \in SUBSET Nat, T # {}
  PROVE  \E m \in T : \A k \in T : m <= k
<1>1. PICK m \in T : \A k \in T : <<k, m>> \notin OpToRel(<, Nat)
  BY NatLessThanWellFounded, WFMin
<1>2. \A k \in T : ~(k < m)
  BY <1>1 DEF OpToRel
<1>3. QED
  BY <1>2

\* A set of subsets of a finite set that has the empty one, and every other of
\* which it has all that lack one element, has them all.
LEMMA FiniteInduction ==
  ASSUME NEW S, IsFiniteSet(S), NEW Q, {} \in Q,
         \A t \in SUBSET S : t # {} /\ (\A x \in t : t \ {x} \in Q) => t \in Q
  PROVE  \A t \in SUBSET S : t \in Q
<1> SUFFICES ASSUME NEW u \in SUBSET S, u \notin Q PROVE FALSE
  OBVIOUS
<1> DEFINE B == {t \in SUBSET S : t \notin Q}
           T == {Cardinality(t) : t \in B}
<1>1. \A t \in SUBSET S : IsFiniteSet(t) /\ Cardinality(t) \in Nat
  BY FS_Subset, FS_CardinalityType
<1>2. T \in SUBSET Nat /\ T # {}
  BY <1>1
<1>3. PICK m \in T : \A k \in T : m <= k
  BY <1>2, LeastElement
<1>4. PICK t \in B : Cardinality(t) = m
  OBVIOUS
<1>5. ASSUME NEW x \in t PROVE t \ {x} \in Q
  <2>1. Cardinality(t \ {x}) = Cardinality(t) - 1
    BY <1>1, FS_RemoveElement
  <2>2. t \ {x} \in B => Cardinality(t \ {x}) \in T
    OBVIOUS
  <2>3. t \ {x} \notin B
    <3>1. Cardinality(t) \in Nat /\ Cardinality(t) <= m
      BY <1>1, <1>4
    <3>2. \A k \in T : Cardinality(t) <= k
      BY <1>3, <1>4
    <3>3. QED
      BY <2>1, <2>2, <3>1, <3>2
  <2>4. QED
    BY <2>3
<1>6. t # {} /\ t \in SUBSET S
  OBVIOUS
<1>7. QED
  BY <1>5, <1>6

-----------------------------------------------------------------------------
(* What a sum is.                                                          *)

\* The order in which a fold takes the elements of a set.
Pick(s) == CHOOSE x \in s : TRUE

\* What a fold goes through: a value for every subset.
Sums(g, f, S) ==
  g = [s \in SUBSET S |-> IF s = {} THEN 0 ELSE f[Pick(s)] + g[s \ {Pick(s)}]]

\* The library's sum, its definitions expanded.
LEMMA Unfold ==
  ASSUME NEW f, NEW S
  PROVE  SumFunctionOnSet(f, S) = (CHOOSE g : Sums(g, f, S))[S]
BY DEF SumFunctionOnSet, FoldFunctionOnSet, MapThenFoldSet, Sums, Pick

\* Every finite set has the function that the fold chooses.
LEMMA SumsExist ==
  ASSUME NEW f, NEW S, IsFiniteSet(S)
  PROVE  \E g : Sums(g, f, S)
<1> DEFINE value(g, s) == IF s = {} THEN 0 ELSE f[Pick(s)] + g[s \ {Pick(s)}]
           UpTo(n) == {s \in SUBSET S : Cardinality(s) <= n}
           Good(n, g) == \A s \in UpTo(n) : g[s] = value(g, s)
           N == {n \in Nat : \A g : ~Good(n, g)}
<1>1. \A s \in SUBSET S : IsFiniteSet(s) /\ Cardinality(s) \in Nat /\ Cardinality(s) <= Cardinality(S)
  BY FS_Subset, FS_CardinalityType
<1>2. \A s \in SUBSET S : s # {} => Pick(s) \in s /\ Cardinality(s \ {Pick(s)}) = Cardinality(s) - 1
  BY <1>1, FS_RemoveElement DEF Pick
<1>3. ASSUME NEW n \in Nat, NEW g, Good(n, g)
      PROVE  \E h : Good(n + 1, h)
  <2> DEFINE h == [s \in SUBSET S |-> IF s \in UpTo(n) THEN g[s] ELSE value(g, s)]
  <2>1. ASSUME NEW s \in UpTo(n + 1), s # {} PROVE s \ {Pick(s)} \in UpTo(n) /\ s \ {Pick(s)} \in SUBSET S
    BY <1>1, <1>2, <2>1
  <2>2. ASSUME NEW s \in UpTo(n + 1) PROVE h[s] = value(g, s)
    BY <1>3, <2>2
  <2>3. ASSUME NEW s \in UpTo(n + 1) PROVE value(h, s) = value(g, s)
    BY <2>1, <2>3
  <2>4. Good(n + 1, h)
    BY <2>2, <2>3
  <2>5. QED
    BY <2>4
<1>4. \E g : Good(0, g)
  <2> DEFINE g == [s \in SUBSET S |-> 0]
  <2>1. \A s \in UpTo(0) : s = {}
    BY <1>1, FS_EmptySet
  <2>2. Good(0, g)
    BY <2>1
  <2>3. QED
    BY <2>2
<1>5. \A n \in Nat : \E g : Good(n, g)
  <2> SUFFICES ASSUME N # {} PROVE FALSE
    OBVIOUS
  <2>1. PICK m \in N : \A k \in N : m <= k
    BY LeastElement
  <2>2. m # 0
    BY <1>4
  <2>3. m - 1 \in Nat /\ m - 1 \notin N
    <3>1. m \in Nat
      OBVIOUS
    <3> HIDE DEF N
    <3>2. QED
      BY <2>1, <2>2, <3>1
  <2>4. \E h : Good(m - 1 + 1, h)
    <3>1. \E g : Good(m - 1, g)
      BY <2>3
    <3> HIDE DEF Good
    <3>2. QED
      BY <1>3, <2>3, <3>1
  <2>5. m - 1 + 1 = m
    OBVIOUS
  <2>6. QED
    BY <2>4, <2>5
<1>6. PICK g : Good(Cardinality(S), g)
  BY <1>1, <1>5, FS_CardinalityType
<1> DEFINE r == [s \in SUBSET S |-> g[s]]
<1>7. \A s \in SUBSET S : g[s] = value(g, s)
  BY <1>1, <1>6
<1>8. \A s \in SUBSET S : value(r, s) = value(g, s)
  BY <1>2
<1>9. r = [s \in SUBSET S |-> value(r, s)]
  BY <1>7, <1>8
<1>10. QED
  BY <1>9 DEF Sums

\* g[s] is the sum over the subset s.
Adds(g, f, S) ==
  /\ g[{}] = 0
  /\ \A s \in SUBSET S : s # {} => g[s] = f[Pick(s)] + g[s \ {Pick(s)}]

\* A sum is that of its parts, taken one by one.
LEMMA SumsOf ==
  ASSUME NEW f, NEW S, IsFiniteSet(S)
  PROVE  \E g : SumFunctionOnSet(f, S) = g[S] /\ Adds(g, f, S)
<1> DEFINE g == CHOOSE h : Sums(h, f, S)
<1>1. Sums(g, f, S)
  BY SumsExist
<1>2. SumFunctionOnSet(f, S) = g[S]
  BY Unfold
<1> HIDE DEF g
<1>3. Adds(g, f, S)
  BY <1>1 DEF Sums, Adds
<1>4. QED
  BY <1>2, <1>3

\* What the fold takes next is an element.
LEMMA Picked == ASSUME NEW s, s # {} PROVE Pick(s) \in s
BY DEF Pick

-----------------------------------------------------------------------------
(* What sums do.                                                           *)

\* Of two functions, one nowhere above the other, the sums compare as they do.
LEMMA SumMonotone ==
  ASSUME NEW S, IsFiniteSet(S), NEW f, NEW h,
         \A x \in S : f[x] \in Nat /\ h[x] \in Nat /\ f[x] <= h[x]
  PROVE  /\ SumFunctionOnSet(f, S) \in Nat /\ SumFunctionOnSet(h, S) \in Nat
         /\ SumFunctionOnSet(f, S) <= SumFunctionOnSet(h, S)
<1>1. PICK g : SumFunctionOnSet(f, S) = g[S] /\ Adds(g, f, S)
  BY SumsOf
<1>2. PICK k : SumFunctionOnSet(h, S) = k[S] /\ Adds(k, h, S)
  BY SumsOf
<1> DEFINE Q == {t \in SUBSET S : g[t] \in Nat /\ k[t] \in Nat /\ g[t] <= k[t]}
<1>3. {} \in Q
  BY <1>1, <1>2 DEF Adds
<1>4. ASSUME NEW t \in SUBSET S, t # {}, \A x \in t : t \ {x} \in Q
      PROVE  t \in Q
  <2>1. /\ Pick(t) \in t
        /\ g[t] = f[Pick(t)] + g[t \ {Pick(t)}]
        /\ k[t] = h[Pick(t)] + k[t \ {Pick(t)}]
    BY <1>1, <1>2, <1>4, Picked DEF Adds
  <2>2. Pick(t) \in S /\ t \ {Pick(t)} \in Q
    BY <1>4, <2>1
  <2>3. QED
    BY <2>1, <2>2
<1>5. \A t \in SUBSET S : t \in Q
  <2> HIDE DEF Q
  <2>1. QED
    BY <1>3, <1>4, FiniteInduction
<1>6. S \in Q
  BY <1>5
<1>7. QED
  BY <1>1, <1>2, <1>6

\* A sum of nothing but zeros is 0.
LEMMA SumOfZeros ==
  ASSUME NEW S, IsFiniteSet(S), NEW f, \A x \in S : f[x] = 0
  PROVE  SumFunctionOnSet(f, S) = 0
<1>1. PICK g : SumFunctionOnSet(f, S) = g[S] /\ Adds(g, f, S)
  BY SumsOf
<1> DEFINE Q == {t \in SUBSET S : g[t] = 0}
<1>2. {} \in Q
  BY <1>1 DEF Adds
<1>3. ASSUME NEW t \in SUBSET S, t # {}, \A x \in t : t \ {x} \in Q
      PROVE  t \in Q
  <2>1. Pick(t) \in t /\ g[t] = f[Pick(t)] + g[t \ {Pick(t)}]
    BY <1>1, <1>3, Picked DEF Adds
  <2>2. Pick(t) \in S /\ t \ {Pick(t)} \in Q
    BY <1>3, <2>1
  <2>3. QED
    BY <2>1, <2>2
<1>4. \A t \in SUBSET S : t \in Q
  <2> HIDE DEF Q
  <2>1. QED
    BY <1>2, <1>3, FiniteInduction
<1>5. QED
  BY <1>1, <1>4

\* When one value changes by d, the sum over a set changes by d if the set has
\* the element, and stays the same if it does not.
LEMMA SumChanged ==
  ASSUME NEW S, IsFiniteSet(S), NEW f, NEW h, NEW a, NEW d \in Int,
         \A x \in S : f[x] \in Int /\ h[x] = IF x = a THEN f[x] + d ELSE f[x]
  PROVE  /\ SumFunctionOnSet(f, S) \in Int
         /\ SumFunctionOnSet(h, S) = SumFunctionOnSet(f, S) + (IF a \in S THEN d ELSE 0)
<1>1. PICK g : SumFunctionOnSet(f, S) = g[S] /\ Adds(g, f, S)
  BY SumsOf
<1>2. PICK k : SumFunctionOnSet(h, S) = k[S] /\ Adds(k, h, S)
  BY SumsOf
<1> DEFINE Q == {t \in SUBSET S : g[t] \in Int /\ k[t] = g[t] + (IF a \in t THEN d ELSE 0)}
<1>3. {} \in Q
  BY <1>1, <1>2 DEF Adds
<1>4. ASSUME NEW t \in SUBSET S, t # {}, \A x \in t : t \ {x} \in Q
      PROVE  t \in Q
  <2>1. /\ Pick(t) \in t
        /\ g[t] = f[Pick(t)] + g[t \ {Pick(t)}]
        /\ k[t] = h[Pick(t)] + k[t \ {Pick(t)}]
    BY <1>1, <1>2, <1>4, Picked DEF Adds
  <2>2. Pick(t) \in S /\ t \ {Pick(t)} \in Q
    BY <1>4, <2>1
  <2>3. CASE Pick(t) = a
    BY <2>1, <2>2, <2>3
  <2>4. CASE Pick(t) # a
    <3>1. a \in t <=> a \in t \ {Pick(t)}
      BY <2>4
    <3>2. QED
      BY <2>1, <2>2, <2>4, <3>1
  <2>5. QED
    BY <2>3, <2>4
<1>5. \A t \in SUBSET S : t \in Q
  <2> HIDE DEF Q
  <2>1. QED
    BY <1>3, <1>4, FiniteInduction
<1>6. S \in Q
  BY <1>5
<1>7. QED
  BY <1>1, <1>2, <1>6
==============================================================================
