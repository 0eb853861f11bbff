--------------------------------- MODULE Sums ---------------------------------
(***************************************************************************)
(* What SumFunction of the community modules returns, for functions from    *)
(* finite sets to numbers.  It is a recursive function on the subsets of    *)
(* the domain that takes an element of its choice off a set; what is needed *)
(* of it follows from the smallest set, or number, that would be an          *)
(* exception.                                                               *)
(***************************************************************************)
EXTENDS Integers, FiniteSets, Functions, FiniteSetTheorems, WellFoundedInduction, TLAPS

LEMMA SmallestNumber ==
    ASSUME NEW T \in SUBSET Nat, T # {}
    PROVE  \E n \in T : \A k \in T : n <= k
<1>1. PICK n \in T : \A k \in T : <<k, n>> \notin OpToRel(<, Nat)
  BY NatLessThanWellFounded, WFMin
<1>2. \A k \in T : ~ (k < n)
  BY <1>1 DEF OpToRel
<1> QED
  BY <1>2

LEMMA SmallestSubset ==
    ASSUME NEW S, IsFiniteSet(S), NEW T \in SUBSET (SUBSET S), T # {}
    PROVE  \E m \in T : \A s \in T : s \subseteq m => s = m
<1>1. PICK m \in T : \A s \in T : <<s, m>> \notin StrictSubsetOrdering(S)
  BY FS_StrictSubsetOrderingWellFounded, FS_FiniteSubsetsOfFinite, WFMin
<1> QED
  BY <1>1 DEF StrictSubsetOrdering

\* What the sum over s is, if the one over a smaller set is known.
Added(it, f, s) ==
    IF s = {} THEN 0 ELSE LET x == CHOOSE x \in s : TRUE IN f[x] + it[s \ {x}]

Adds(it, f, S) == it = [s \in SUBSET S |-> Added(it, f, s)]

SumOver(f, S) == CHOOSE it : Adds(it, f, S)

LEMMA SumIsFold ==
    ASSUME NEW f, NEW S, DOMAIN f = S
    PROVE  SumFunction(f) = SumOver(f, S)[S]
  BY DEF SumFunction, SumFunctionOnSet, FoldFunctionOnSet, MapThenFoldSet, SumOver, Adds, Added

AddsUpTo(it, f, S, n) ==
    \A s \in SUBSET S : Cardinality(s) <= n => it[s] = Added(it, f, s)

LEMMA SumUpTo ==
    ASSUME NEW f, NEW S, IsFiniteSet(S), NEW n \in Nat
    PROVE  \E it : AddsUpTo(it, f, S, n)
<1> DEFINE T == {k \in Nat : ~ \E it : AddsUpTo(it, f, S, k)}
<1>1. SUFFICES ASSUME T # {} PROVE FALSE
  OBVIOUS
<1>2. PICK k \in T : \A m \in T : k <= m
  BY <1>1, SmallestNumber
<1>3. \A s \in SUBSET S : IsFiniteSet(s) /\ Cardinality(s) \in Nat /\ (Cardinality(s) = 0 <=> s = {})
  BY FS_Subset, FS_CardinalityType, FS_EmptySet
<1>4. \E it : AddsUpTo(it, f, S, k)
  <2>1. CASE k = 0
    <3> DEFINE it == [s \in SUBSET S |-> 0]
    <3>1. \A s \in SUBSET S : Cardinality(s) <= 0 => s = {}
      BY <1>3
    <3>2. AddsUpTo(it, f, S, k)
      BY <2>1, <3>1 DEF AddsUpTo, Added
    <3> QED
      BY <3>2
  <2>2. CASE k # 0
    <3>1. k - 1 \in Nat /\ k - 1 \notin T
      BY <1>2, <2>2
    <3>2. PICK before : AddsUpTo(before, f, S, k - 1)
      BY <3>1
    <3> DEFINE it == [s \in SUBSET S |-> Added(before, f, s)]
    <3>3. ASSUME NEW s \in SUBSET S, Cardinality(s) <= k
          PROVE  it[s] = Added(it, f, s)
      <4>1. CASE s = {}
        BY <4>1 DEF Added
      <4>2. CASE s # {}
        <5>1. PICK x \in s : x = CHOOSE y \in s : TRUE
          BY <4>2
        <5>2. s \ {x} \in SUBSET S /\ Cardinality(s \ {x}) <= k - 1
          BY <1>3, <3>3, FS_RemoveElement
        <5>3. before[s \ {x}] = Added(before, f, s \ {x})
          BY <3>2, <5>2 DEF AddsUpTo
        <5>4. it[s \ {x}] = before[s \ {x}]
          BY <5>2, <5>3
        <5> QED
          BY <4>2, <5>1, <5>4 DEF Added
      <4> QED
        BY <4>1, <4>2
    <3>4. AddsUpTo(it, f, S, k)
      BY <3>3 DEF AddsUpTo
    <3> QED
      BY <3>4
  <2> QED
    BY <2>1, <2>2
<1> QED
  BY <1>4

LEMMA SumEquation ==
    ASSUME NEW f, NEW S, IsFiniteSet(S)
    PROVE  \A s \in SUBSET S : SumOver(f, S)[s] = Added(SumOver(f, S), f, s)
<1>1. PICK n \in Nat : \A s \in SUBSET S : Cardinality(s) <= n
  BY FS_Subset, FS_CardinalityType
<1>2. PICK before : AddsUpTo(before, f, S, n)
  BY SumUpTo
<1> DEFINE it == [s \in SUBSET S |-> before[s]]
<1>3. \A s \in SUBSET S : it[s] = Added(it, f, s)
  <2> TAKE s \in SUBSET S
  <2>1. before[s] = Added(before, f, s)
    BY <1>1, <1>2 DEF AddsUpTo
  <2>2. \A x \in s : s \ {x} \in SUBSET S
    OBVIOUS
  <2>3. Added(it, f, s) = Added(before, f, s)
    BY <2>2 DEF Added
  <2> QED
    BY <2>1, <2>3
<1>4. Adds(it, f, S)
  BY <1>3 DEF Adds
<1>5. Adds(SumOver(f, S), f, S)
  BY <1>4 DEF SumOver
<1> QED
  BY <1>5 DEF Adds

\* The sum over s is the one over s without an element of it, and that element.
LEMMA SumStep ==
    ASSUME NEW f, NEW S, IsFiniteSet(S), NEW s \in SUBSET S, s # {}
    PROVE  \E x \in s : /\ x = CHOOSE y \in s : TRUE
                        /\ SumOver(f, S)[s] = f[x] + SumOver(f, S)[s \ {x}]
<1>1. PICK x \in s : x = CHOOSE y \in s : TRUE
  OBVIOUS
<1>2. SumOver(f, S)[s] = Added(SumOver(f, S), f, s)
  BY SumEquation
<1>3. Added(SumOver(f, S), f, s) = f[x] + SumOver(f, S)[s \ {x}]
  BY <1>1 DEF Added
<1> QED
  BY <1>1, <1>2, <1>3

LEMMA SumOfNone ==
    ASSUME NEW f, NEW S, IsFiniteSet(S)
    PROVE  SumOver(f, S)[{}] = 0
  BY SumEquation DEF Added

LEMMA SumOverType ==
    ASSUME NEW S, IsFiniteSet(S), NEW f \in [S -> Nat]
    PROVE  \A s \in SUBSET S : SumOver(f, S)[s] \in Nat
<1> DEFINE T == {s \in SUBSET S : SumOver(f, S)[s] \notin Nat}
<1>1. SUFFICES ASSUME T # {} PROVE FALSE
  OBVIOUS
<1>2. PICK m \in T : \A s \in T : s \subseteq m => s = m
  <2>1. T \in SUBSET (SUBSET S)
    OBVIOUS
  <2> HIDE DEF T
  <2> QED
    BY <1>1, <2>1, SmallestSubset
<1>3. m # {} /\ m \in SUBSET S
  <2>1. m \in SUBSET S /\ SumOver(f, S)[m] \notin Nat
    BY <1>2
  <2> QED
    BY <2>1, SumOfNone
<1>4. PICK x \in m : SumOver(f, S)[m] = f[x] + SumOver(f, S)[m \ {x}]
  BY <1>3, SumStep
<1>5. m \ {x} \in SUBSET S /\ m \ {x} \notin T /\ f[x] \in Nat
  BY <1>2
<1> QED
  BY <1>2, <1>4, <1>5

LEMMA SumOverUpdate ==
    ASSUME NEW S, IsFiniteSet(S), NEW f \in [S -> Nat], NEW g \in [S -> Nat],
           NEW x \in S, \A y \in S \ {x} : f[y] = g[y]
    PROVE  \A s \in SUBSET S :
              SumOver(g, S)[s] = IF x \in s THEN SumOver(f, S)[s] + g[x] - f[x]
                                 ELSE SumOver(f, S)[s]
<1> DEFINE Right(s) == SumOver(g, S)[s] = IF x \in s THEN SumOver(f, S)[s] + g[x] - f[x]
                                          ELSE SumOver(f, S)[s]
           T == {s \in SUBSET S : ~ Right(s)}
<1>1. SUFFICES ASSUME T # {} PROVE FALSE
  OBVIOUS
<1>2. PICK m \in T : \A s \in T : s \subseteq m => s = m
  <2>1. T \in SUBSET (SUBSET S)
    OBVIOUS
  <2> HIDE DEF T
  <2> QED
    BY <1>1, <2>1, SmallestSubset
<1>3. m # {} /\ m \in SUBSET S
  BY <1>2, SumOfNone
<1>4. PICK c \in m : /\ c = CHOOSE y \in m : TRUE
                     /\ SumOver(f, S)[m] = f[c] + SumOver(f, S)[m \ {c}]
  BY <1>3, SumStep
<1>5. SumOver(g, S)[m] = g[c] + SumOver(g, S)[m \ {c}]
  <2>1. \E y \in m : /\ y = CHOOSE z \in m : TRUE
                    /\ SumOver(g, S)[m] = g[y] + SumOver(g, S)[m \ {y}]
    BY <1>3, SumStep
  <2> QED
    BY <1>4, <2>1
<1>6. m \ {c} \in SUBSET S /\ Right(m \ {c})
  BY <1>2
<1>7. /\ SumOver(f, S)[m \ {c}] \in Nat /\ SumOver(g, S)[m \ {c}] \in Nat
      /\ f[c] \in Nat /\ g[c] \in Nat /\ f[x] \in Nat /\ g[x] \in Nat
  BY <1>6, SumOverType
<1>8. Right(m)
  <2>1. CASE c = x
    <3>1. PICK q \in Nat : q = SumOver(f, S)[m \ {c}]
      BY <1>7
    <3>2. SumOver(g, S)[m \ {c}] = q
      BY <1>6, <2>1, <3>1
    <3>3. SumOver(f, S)[m] = f[x] + q /\ SumOver(g, S)[m] = g[x] + q
      BY <1>4, <1>5, <2>1, <3>1, <3>2
    <3>4. g[x] + q = f[x] + q + g[x] - f[x]
      BY <1>7
    <3> QED
      BY <2>1, <3>3, <3>4
  <2>2. CASE c # x
    <3>1. f[c] = g[c] /\ (x \in m <=> x \in m \ {c})
      BY <2>2
    <3> QED
      BY <1>4, <1>5, <1>6, <1>7, <3>1
  <2> QED
    BY <2>1, <2>2
<1> QED
  BY <1>2, <1>8

\* Sums are numbers, a sum changes as much as the one value that changes, and the sum
\* of nothing but zeros is zero.
LEMMA SumType ==
    ASSUME NEW S, IsFiniteSet(S), NEW f \in [S -> Nat]
    PROVE  SumFunction(f) \in Nat
  BY SumIsFold, SumOverType

LEMMA SumUpdate ==
    ASSUME NEW S, IsFiniteSet(S), NEW f \in [S -> Nat], NEW g \in [S -> Nat],
           NEW x \in S, \A y \in S \ {x} : f[y] = g[y]
    PROVE  SumFunction(g) = SumFunction(f) + g[x] - f[x]
<1>1. SumFunction(f) = SumOver(f, S)[S] /\ SumFunction(g) = SumOver(g, S)[S]
  BY SumIsFold
<1>2. S \in SUBSET S
  OBVIOUS
<1>3. SumOver(g, S)[S] = SumOver(f, S)[S] + g[x] - f[x]
  BY <1>2, SumOverUpdate
<1> QED
  BY <1>1, <1>3

LEMMA SumOfZeros ==
    ASSUME NEW S, IsFiniteSet(S), NEW f \in [S -> Nat], \A x \in S : f[x] = 0
    PROVE  SumFunction(f) = 0
<1> DEFINE T == {s \in SUBSET S : SumOver(f, S)[s] # 0}
<1>1. SUFFICES ASSUME T # {} PROVE FALSE
  BY SumIsFold
<1>2. PICK m \in T : \A s \in T : s \subseteq m => s = m
  <2>1. T \in SUBSET (SUBSET S)
    OBVIOUS
  <2> HIDE DEF T
  <2> QED
    BY <1>1, <2>1, SmallestSubset
<1>3. m # {} /\ m \in SUBSET S
  BY <1>2, SumOfNone
<1>4. PICK x \in m : SumOver(f, S)[m] = f[x] + SumOver(f, S)[m \ {x}]
  BY <1>3, SumStep
<1>5. m \ {x} \in SUBSET S /\ m \ {x} \notin T /\ f[x] = 0
  BY <1>2
<1> QED
  BY <1>2, <1>4, <1>5

\* Whichever element is taken off a set first.
LEMMA SumRemoval ==
    ASSUME NEW S, IsFiniteSet(S), NEW f \in [S -> Nat]
    PROVE  \A s \in SUBSET S : \A x \in s :
              SumOver(f, S)[s] = f[x] + SumOver(f, S)[s \ {x}]
<1> DEFINE Right(s) == \A x \in s : SumOver(f, S)[s] = f[x] + SumOver(f, S)[s \ {x}]
           T == {s \in SUBSET S : ~ Right(s)}
<1>1. SUFFICES ASSUME T # {} PROVE FALSE
  OBVIOUS
<1>2. PICK m \in T : \A s \in T : s \subseteq m => s = m
  <2>1. T \in SUBSET (SUBSET S)
    OBVIOUS
  <2> HIDE DEF T
  <2> QED
    BY <1>1, <2>1, SmallestSubset
<1>3. PICK x \in m : SumOver(f, S)[m] # f[x] + SumOver(f, S)[m \ {x}]
  BY <1>2
<1>4. PICK c \in m : SumOver(f, S)[m] = f[c] + SumOver(f, S)[m \ {c}]
  BY <1>2, <1>3, SumStep
<1>5. c # x /\ c \in m \ {x} /\ x \in m \ {c}
  BY <1>3, <1>4
<1>6. m \in SUBSET S /\ m \ {c} \in SUBSET S /\ m \ {x} \in SUBSET S
      /\ m \ {c} # m /\ m \ {x} # m
  BY <1>2, <1>5
<1>7. Right(m \ {c}) /\ Right(m \ {x})
  BY <1>2, <1>6
<1> DEFINE rest == (m \ {c}) \ {x}
<1>8. rest = (m \ {x}) \ {c} /\ rest \in SUBSET S
  BY <1>6
<1>9. SumOver(f, S)[m \ {c}] = f[x] + SumOver(f, S)[rest]
  BY <1>5, <1>7
<1>10. SumOver(f, S)[m \ {x}] = f[c] + SumOver(f, S)[rest]
  BY <1>5, <1>7, <1>8
<1>11. SumOver(f, S)[rest] \in Nat /\ f[c] \in Nat /\ f[x] \in Nat
  BY <1>6, <1>8, SumOverType
<1> HIDE DEF rest
<1> QED
  BY <1>3, <1>4, <1>9, <1>10, <1>11

\* A function on a part of the domain has the sum over that part.
LEMMA SumRestricted ==
    ASSUME NEW T, IsFiniteSet(T), NEW S \in SUBSET T,
           NEW f \in [T -> Nat], NEW g \in [S -> Nat], \A x \in S : g[x] = f[x]
    PROVE  \A s \in SUBSET S : SumOver(g, S)[s] = SumOver(f, T)[s]
<1> DEFINE U == {s \in SUBSET S : SumOver(g, S)[s] # SumOver(f, T)[s]}
<1>0. IsFiniteSet(S)
  BY FS_Subset
<1>1. SUFFICES ASSUME U # {} PROVE FALSE
  OBVIOUS
<1>2. PICK m \in U : \A s \in U : s \subseteq m => s = m
  <2>1. U \in SUBSET (SUBSET S)
    OBVIOUS
  <2> HIDE DEF U
  <2> QED
    BY <1>0, <1>1, <2>1, SmallestSubset
<1>3. m \in SUBSET S /\ m \in SUBSET T /\ m # {}
  BY <1>0, <1>2, SumOfNone
<1>4. PICK x \in m : TRUE
  BY <1>3
<1>5. SumOver(g, S)[m] = g[x] + SumOver(g, S)[m \ {x}]
  BY <1>0, <1>3, SumRemoval
<1>6. SumOver(f, T)[m] = f[x] + SumOver(f, T)[m \ {x}]
  BY <1>3, SumRemoval
<1>7. SumOver(g, S)[m \ {x}] = SumOver(f, T)[m \ {x}] /\ g[x] = f[x]
  BY <1>2, <1>3
<1> QED
  BY <1>2, <1>5, <1>6, <1>7

\* What is zero does not count.
LEMMA SumOfNonzero ==
    ASSUME NEW T, IsFiniteSet(T), NEW S \in SUBSET T,
           NEW f \in [T -> Nat], \A x \in T \ S : f[x] = 0
    PROVE  \A s \in SUBSET T : SumOver(f, T)[s] = SumOver(f, T)[s \cap S]
<1> DEFINE U == {s \in SUBSET T : SumOver(f, T)[s] # SumOver(f, T)[s \cap S]}
<1>1. SUFFICES ASSUME U # {} PROVE FALSE
  OBVIOUS
<1>2. PICK m \in U : \A s \in U : s \subseteq m => s = m
  <2>1. U \in SUBSET (SUBSET T)
    OBVIOUS
  <2> HIDE DEF U
  <2> QED
    BY <1>1, <2>1, SmallestSubset
<1>3. m \in SUBSET T /\ m # {}
  <2>1. {} \cap S = {}
    OBVIOUS
  <2> QED
    BY <1>2, <2>1
<1>4. PICK x \in m : TRUE
  BY <1>3
<1>5. SumOver(f, T)[m] = f[x] + SumOver(f, T)[m \ {x}]
  BY <1>3, SumRemoval
<1>6. SumOver(f, T)[m \ {x}] = SumOver(f, T)[(m \ {x}) \cap S]
  BY <1>2, <1>3
<1>7. CASE x \in S
  <2>1. (m \cap S) \ {x} = (m \ {x}) \cap S /\ m \cap S \in SUBSET T /\ x \in m \cap S
    BY <1>3, <1>7
  <2>2. SumOver(f, T)[m \cap S] = f[x] + SumOver(f, T)[(m \cap S) \ {x}]
    BY <2>1, SumRemoval
  <2> QED
    BY <1>2, <1>5, <1>6, <2>1, <2>2
<1>8. CASE x \notin S
  <2>1. (m \ {x}) \cap S = m \cap S /\ f[x] = 0 /\ m \ {x} \in SUBSET T
    BY <1>3, <1>8
  <2>2. SumOver(f, T)[m \ {x}] \in Nat
    BY <2>1, SumOverType
  <2> QED
    BY <1>2, <1>5, <1>6, <2>1, <2>2
<1> QED
  BY <1>7, <1>8

LEMMA SumOfPart ==
    ASSUME NEW T, IsFiniteSet(T), NEW S \in SUBSET T,
           NEW f \in [T -> Nat], NEW g \in [S -> Nat],
           \A x \in S : g[x] = f[x], \A x \in T \ S : f[x] = 0
    PROVE  SumFunction(g) = SumFunction(f)
<1>1. SumFunction(f) = SumOver(f, T)[T] /\ SumFunction(g) = SumOver(g, S)[S]
  BY SumIsFold
<1>2. SumOver(g, S)[S] = SumOver(f, T)[S]
  BY SumRestricted
<1>3. T \cap S = S /\ T \in SUBSET T
  OBVIOUS
<1>4. \A s \in SUBSET T : SumOver(f, T)[s] = SumOver(f, T)[s \cap S]
  BY SumOfNonzero
<1>5. SumOver(f, T)[T] = SumOver(f, T)[T \cap S]
  BY <1>3, <1>4, Zenon
<1> QED
  BY <1>1, <1>2, <1>3, <1>5

\* One value that is not zero is the sum.
LEMMA SumOfOne ==
    ASSUME NEW S, IsFiniteSet(S), NEW f \in [S -> Nat], NEW x \in S,
           \A y \in S \ {x} : f[y] = 0
    PROVE  SumFunction(f) = f[x]
<1>1. PICK g \in [S -> Nat] : g = [y \in S |-> 0]
  OBVIOUS
<1>2. SumFunction(g) = 0
  BY <1>1, SumOfZeros
<1>3. SumFunction(f) = SumFunction(g) + f[x] - g[x]
  BY <1>1, SumUpdate
<1> QED
  BY <1>1, <1>2, <1>3

\* The sum of sums.
LEMMA SumOfPairs ==
    ASSUME NEW S, IsFiniteSet(S), NEW f \in [S -> Nat], NEW g \in [S -> Nat],
           NEW h \in [S -> Nat], \A x \in S : h[x] = f[x] + g[x]
    PROVE  SumFunction(h) = SumFunction(f) + SumFunction(g)
<1> DEFINE U == {s \in SUBSET S : SumOver(h, S)[s] # SumOver(f, S)[s] + SumOver(g, S)[s]}
<1>1. SUFFICES ASSUME U # {} PROVE FALSE
  BY SumIsFold
<1>2. PICK m \in U : \A s \in U : s \subseteq m => s = m
  <2>1. U \in SUBSET (SUBSET S)
    OBVIOUS
  <2> HIDE DEF U
  <2> QED
    BY <1>1, <2>1, SmallestSubset
<1>3. m \in SUBSET S /\ m # {}
  <2>1. SumOver(h, S)[{}] = SumOver(f, S)[{}] + SumOver(g, S)[{}]
    BY SumOfNone
  <2> QED
    BY <1>2, <2>1
<1>4. PICK x \in m : TRUE
  BY <1>3
<1>5. /\ SumOver(f, S)[m] = f[x] + SumOver(f, S)[m \ {x}]
      /\ SumOver(g, S)[m] = g[x] + SumOver(g, S)[m \ {x}]
      /\ SumOver(h, S)[m] = h[x] + SumOver(h, S)[m \ {x}]
  BY <1>3, SumRemoval
<1>6. SumOver(h, S)[m \ {x}] = SumOver(f, S)[m \ {x}] + SumOver(g, S)[m \ {x}]
  BY <1>2, <1>3
<1>7. /\ SumOver(f, S)[m \ {x}] \in Nat /\ SumOver(g, S)[m \ {x}] \in Nat
      /\ f[x] \in Nat /\ g[x] \in Nat /\ h[x] = f[x] + g[x]
  BY <1>3, SumOverType
<1>8. SumOver(h, S)[m] = SumOver(f, S)[m] + SumOver(g, S)[m]
  <2>1. PICK p \in Nat, q \in Nat : p = SumOver(f, S)[m \ {x}] /\ q = SumOver(g, S)[m \ {x}]
    BY <1>7
  <2> QED
    BY <1>5, <1>6, <1>7, <2>1
<1> QED
  BY <1>2, <1>8
===============================================================================
