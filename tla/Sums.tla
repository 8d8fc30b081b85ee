-------------------------------- MODULE Sums --------------------------------
(***************************************************************************)
(* What SumFunctionOnSet, a fold of the community modules, computes over   *)
(* finite sets of integers.  The fold takes the elements in an order of    *)
(* its own; the lemmas say that the order does not matter.                 *)
(***************************************************************************)
EXTENDS Integers, FiniteSetsExt, FiniteSetTheorems, TLAPS

\* Among the subsets of a finite set that have some property there is one none of
\* whose proper subsets has it: induction over finite sets, without an operator.
LEMMA SmallestSubset ==
    ASSUME NEW S, IsFiniteSet(S), NEW B \in SUBSET SUBSET S, B # {}
    PROVE  \E M \in B : \A T \in SUBSET M : T # M => T \notin B
<1>1. IsWellFoundedOn(StrictSubsetOrdering(S), SUBSET S)
  BY FS_StrictSubsetOrderingWellFounded, FS_FiniteSubsetsOfFinite
<1>2. PICK M \in B : \A T \in B : <<T, M>> \notin StrictSubsetOrdering(S)
  BY <1>1, WFMin
<1>3. ASSUME NEW T \in SUBSET M, T # M
      PROVE  <<T, M>> \in StrictSubsetOrdering(S)
  <2>1. <<T, M>> \in (SUBSET S) \X (SUBSET S)
    OBVIOUS
  <2> QED BY <1>3, <2>1, Zenon DEF StrictSubsetOrdering
<1>4. \A T \in SUBSET M : T # M => T \notin B
  BY <1>2, <1>3
<1> QED BY <1>4

\* Whatever holds of the empty set, and of a set when it holds of the set without any
\* one of its elements, holds of every finite set.
LEMMA SetInduction ==
    ASSUME NEW S, IsFiniteSet(S), NEW F, {} \in F,
           \A T \in SUBSET S : \A x \in T : T \ {x} \in F => T \in F
    PROVE  S \in F
<1> DEFINE B == {T \in SUBSET S : T \notin F}
<1> SUFFICES ASSUME B # {} PROVE FALSE
  OBVIOUS
<1>1. PICK M \in B : \A T \in SUBSET M : T # M => T \notin B
  <2>1. B \in SUBSET SUBSET S
    OBVIOUS
  <2> HIDE DEF B
  <2> QED BY <2>1, SmallestSubset
<1>2. PICK x \in M : TRUE
  OBVIOUS
<1>3. M \ {x} \in SUBSET M /\ M \ {x} # M /\ M \ {x} \in SUBSET S
  OBVIOUS
<1>4. M \ {x} \in F
  BY <1>1, <1>3
<1> QED BY <1>4

\* A set that holds 0, and n + 1 with n, holds every natural number.
LEMMA UpFromZero ==
    ASSUME NEW F, 0 \in F, \A n \in Nat : n \in F => n + 1 \in F
    PROVE  Nat \subseteq F
<1> DEFINE B == {n \in Nat : n \notin F}
           R == {ss \in Nat \X Nat : ss[1] < ss[2]}
<1> SUFFICES ASSUME B # {} PROVE FALSE
  OBVIOUS
<1>1. IsWellFoundedOn(R, Nat)
  BY NatLessThanWellFounded DEF OpToRel
<1>2. PICK m \in B : \A n \in B : <<n, m>> \notin R
  <2> HIDE DEF R
  <2> QED BY <1>1, WFMin
<1>3. m # 0 /\ m - 1 \in Nat
  OBVIOUS
<1>4. m - 1 \notin B
  <2>1. <<m - 1, m>> \in R
    BY <1>3
  <2> QED BY <1>2, <2>1
<1> QED BY <1>3, <1>4

----------------------------------------------------------------------------
(* The recursive function behind the fold *)

First(s) == CHOOSE x \in s : TRUE
Rest(s)  == s \ {First(s)}

Folded(g, f, s) == IF s = {} THEN 0 ELSE f[First(s)] + g[Rest(s)]

IsSum(g, f, S) == g = [s \in SUBSET S |-> Folded(g, f, s)]

\* A non-empty set has a first element.
LEMMA FirstIsElement ==
    ASSUME NEW s, s # {}
    PROVE  First(s) \in s
BY DEF First

\* What the library's fold says of a sum, its base named.
LEMMA SumUnfolds ==
    ASSUME NEW S, NEW f
    PROVE  SumFunctionOnSet(f, S) = (CHOOSE g : IsSum(g, f, S))[S]
BY DEF SumFunctionOnSet, FoldFunctionOnSet, MapThenFoldSet, IsSum, Folded, Rest, First

\* The recursive definition has a solution: built up by the size of the sets.
LEMMA SumExists ==
    ASSUME NEW S, IsFiniteSet(S), NEW f
    PROVE  \E g : IsSum(g, f, S)
<1> DEFINE Small(n) == {s \in SUBSET S : Cardinality(s) <= n}
           F == {n \in Nat : \E g : g = [s \in Small(n) |-> Folded(g, f, s)]}
<1>1. \A s \in SUBSET S : IsFiniteSet(s) /\ Cardinality(s) \in Nat
  BY FS_Subset, FS_CardinalityType
<1>2. 0 \in F
  <2>1. \A s \in Small(0) : s = {}
    BY <1>1, FS_EmptySet
  <2>2. [s \in Small(0) |-> 0] = [s \in Small(0) |-> Folded([t \in Small(0) |-> 0], f, s)]
    BY <2>1 DEF Folded
  <2> QED BY <2>2
<1>3. ASSUME NEW n \in Nat, n \in F
      PROVE  n + 1 \in F
  <2>1. PICK g : g = [s \in Small(n) |-> Folded(g, f, s)]
    BY <1>3
  <2> DEFINE h == [s \in Small(n + 1) |-> Folded(g, f, s)]
  <2>2. \A s \in Small(n) : s \in Small(n + 1) /\ h[s] = g[s]
    <3>1. \A s \in Small(n) : s \in Small(n + 1)
      BY <1>1
    <3>2. \A s \in Small(n) : g[s] = Folded(g, f, s)
      BY <2>1
    <3> QED BY <3>1, <3>2
  <2>3. \A s \in Small(n + 1) : s # {} => Rest(s) \in Small(n)
    <3> SUFFICES ASSUME NEW s \in Small(n + 1), s # {}
                 PROVE  Cardinality(Rest(s)) <= n
      BY DEF Rest
    <3>1. Cardinality(Rest(s)) = Cardinality(s) - 1
      BY <1>1, FirstIsElement, FS_RemoveElement DEF Rest
    <3> QED BY <3>1, <1>1
  <2>4. \A s \in Small(n + 1) : Folded(g, f, s) = Folded(h, f, s)
    <3> HIDE DEF h
    <3> QED BY <2>2, <2>3 DEF Folded
  <2>5. h = [s \in Small(n + 1) |-> Folded(h, f, s)]
    BY <2>4
  <2>6. \E k : k = [s \in Small(n + 1) |-> Folded(k, f, s)]
    <3> HIDE DEF h
    <3> QED BY <2>5, Zenon
  <2>7. n + 1 \in Nat
    OBVIOUS
  <2> QED BY <2>6, <2>7, Zenon
<1>4. Cardinality(S) \in F
  <2> HIDE DEF F
  <2> QED BY <1>2, <1>3, UpFromZero, FS_CardinalityType
<1>5. Small(Cardinality(S)) = SUBSET S
  BY FS_Subset
<1> QED BY <1>4, <1>5 DEF IsSum

\* The solutions for a set and for one of its subsets agree.
LEMMA SumUnique ==
    ASSUME NEW S, IsFiniteSet(S), NEW T \in SUBSET S, NEW f,
           NEW g, IsSum(g, f, S), NEW h, IsSum(h, f, T)
    PROVE  g[T] = h[T]
<1> DEFINE B == {U \in SUBSET T : g[U] # h[U]}
<1> SUFFICES ASSUME B # {} PROVE FALSE
  OBVIOUS
<1>1. IsFiniteSet(T)
  BY FS_Subset
<1>2. PICK M \in B : \A U \in SUBSET M : U # M => U \notin B
  <2>1. B \in SUBSET SUBSET T
    OBVIOUS
  <2> HIDE DEF B
  <2> QED BY <1>1, <2>1, SmallestSubset
<1>3. g[M] = Folded(g, f, M) /\ h[M] = Folded(h, f, M)
  BY DEF IsSum
<1>4. M # {}
  BY <1>3 DEF Folded
<1>5. Rest(M) \in SUBSET M /\ Rest(M) # M
  BY <1>4, FirstIsElement DEF Rest
<1>6. g[Rest(M)] = h[Rest(M)]
  BY <1>2, <1>5
<1> QED BY <1>3, <1>4, <1>6 DEF Folded

\* The sum takes out the first element and adds the rest.
LEMMA SumDefined ==
    ASSUME NEW S, IsFiniteSet(S), NEW f
    PROVE  /\ SumFunctionOnSet(f, {}) = 0
           /\ S # {} => SumFunctionOnSet(f, S) = f[First(S)] + SumFunctionOnSet(f, Rest(S))
<1> DEFINE sol(T) == CHOOSE g : IsSum(g, f, T)
<1>1. \A T \in SUBSET S : IsSum(sol(T), f, T)
  <2> SUFFICES ASSUME NEW T \in SUBSET S PROVE IsSum(sol(T), f, T)
    OBVIOUS
  <2>1. IsFiniteSet(T)
    BY FS_Subset
  <2> QED BY <2>1, SumExists
<1>2. \A T \in SUBSET S : SumFunctionOnSet(f, T) = sol(T)[T]
  BY SumUnfolds
<1> HIDE DEF sol
<1>3. \A T \in SUBSET S : sol(T)[T] = Folded(sol(T), f, T)
  BY <1>1 DEF IsSum
<1>4. ASSUME S # {}
      PROVE  sol(S)[Rest(S)] = sol(Rest(S))[Rest(S)]
  BY <1>1, SumUnique DEF Rest
<1> QED BY <1>2, <1>3, <1>4 DEF Folded, Rest

----------------------------------------------------------------------------
(* Sums of integers *)

\* The sum of integers is an integer.
LEMMA SumInt ==
    ASSUME NEW S, IsFiniteSet(S), NEW f, \A x \in S : f[x] \in Int
    PROVE  SumFunctionOnSet(f, S) \in Int
<1> DEFINE B == {T \in SUBSET S : SumFunctionOnSet(f, T) \notin Int}
<1> SUFFICES ASSUME B # {} PROVE FALSE
  OBVIOUS
<1>1. PICK M \in B : \A U \in SUBSET M : U # M => U \notin B
  <2>1. B \in SUBSET SUBSET S
    OBVIOUS
  <2> HIDE DEF B
  <2> QED BY <2>1, SmallestSubset
<1>2. IsFiniteSet(M)
  BY FS_Subset
<1>3. M # {}
  <2>1. SumFunctionOnSet(f, {}) = 0
    BY SumDefined
  <2> QED BY <2>1
<1>4. First(M) \in M
  BY <1>3, FirstIsElement
<1>5. SumFunctionOnSet(f, Rest(M)) \in Int
  BY <1>1, <1>4 DEF Rest
<1>6. SumFunctionOnSet(f, M) = f[First(M)] + SumFunctionOnSet(f, Rest(M))
  BY <1>2, <1>3, SumDefined
<1> QED BY <1>4, <1>5, <1>6

\* Any element may be taken first.
LEMMA SumApart ==
    ASSUME NEW S, IsFiniteSet(S), NEW f, \A x \in S : f[x] \in Int, NEW x \in S
    PROVE  SumFunctionOnSet(f, S) = f[x] + SumFunctionOnSet(f, S \ {x})
<1> DEFINE Ok(T) == \A y \in T : SumFunctionOnSet(f, T) = f[y] + SumFunctionOnSet(f, T \ {y})
           B == {T \in SUBSET S : ~Ok(T)}
<1> SUFFICES ASSUME B # {} PROVE FALSE
  OBVIOUS
<1>1. PICK M \in B : \A U \in SUBSET M : U # M => U \notin B
  <2>1. B \in SUBSET SUBSET S
    OBVIOUS
  <2> HIDE DEF B
  <2> QED BY <2>1, SmallestSubset
<1>2. \A T \in SUBSET S : IsFiniteSet(T)
  BY FS_Subset
<1>3. \A T \in SUBSET S : SumFunctionOnSet(f, T) \in Int
  BY <1>2, SumInt
<1>4. PICK y \in M : SumFunctionOnSet(f, M) # f[y] + SumFunctionOnSet(f, M \ {y})
  OBVIOUS
<1> DEFINE c == First(M)
<1>5. c \in M /\ Rest(M) = M \ {c}
  BY <1>4, FirstIsElement DEF Rest
<1>6. SumFunctionOnSet(f, M) = f[c] + SumFunctionOnSet(f, M \ {c})
  BY <1>2, <1>4, <1>5, SumDefined
<1> HIDE DEF c
<1>7. c # y
  BY <1>4, <1>6
<1>8. \A z \in M : \A w \in M \ {z} : SumFunctionOnSet(f, M \ {z}) = f[w] + SumFunctionOnSet(f, (M \ {z}) \ {w})
  <2> SUFFICES ASSUME NEW z \in M PROVE Ok(M \ {z})
    OBVIOUS
  <2>1. M \ {z} \in SUBSET M /\ M \ {z} # M /\ M \ {z} \in SUBSET S
    OBVIOUS
  <2> HIDE DEF Ok
  <2> QED BY <1>1, <2>1
<1>9. SumFunctionOnSet(f, M \ {c}) = f[y] + SumFunctionOnSet(f, (M \ {c}) \ {y})
  BY <1>5, <1>7, <1>8
<1>10. SumFunctionOnSet(f, M \ {y}) = f[c] + SumFunctionOnSet(f, (M \ {y}) \ {c})
  BY <1>5, <1>7, <1>8
<1>11. (M \ {c}) \ {y} = (M \ {y}) \ {c}
  OBVIOUS
<1>12. f[c] \in Int /\ f[y] \in Int /\ SumFunctionOnSet(f, (M \ {y}) \ {c}) \in Int
  BY <1>3, <1>5
<1>13. SumFunctionOnSet(f, M \ {c}) = f[y] + SumFunctionOnSet(f, (M \ {y}) \ {c})
  BY <1>9, <1>11
<1>14. SumFunctionOnSet(f, M) = f[y] + SumFunctionOnSet(f, M \ {y})
  BY <1>6, <1>10, <1>12, <1>13
<1> QED BY <1>4, <1>14

\* The facts about a sum over a set and its subsets that inductions need.
LEMMA SumSteps ==
    ASSUME NEW S, IsFiniteSet(S), NEW f, \A x \in S : f[x] \in Int
    PROVE  /\ SumFunctionOnSet(f, {}) = 0
           /\ \A T \in SUBSET S :
                 /\ SumFunctionOnSet(f, T) \in Int
                 /\ \A x \in T : SumFunctionOnSet(f, T) = f[x] + SumFunctionOnSet(f, T \ {x})
<1>1. ASSUME NEW T \in SUBSET S
      PROVE  /\ SumFunctionOnSet(f, T) \in Int
             /\ \A x \in T : SumFunctionOnSet(f, T) = f[x] + SumFunctionOnSet(f, T \ {x})
  <2>1. IsFiniteSet(T)
    BY FS_Subset
  <2> QED BY <2>1, SumInt, SumApart
<1> QED BY <1>1, SumDefined

\* Larger terms have a larger sum.
LEMMA SumMonotone ==
    ASSUME NEW S, IsFiniteSet(S),
           NEW f, \A x \in S : f[x] \in Int, NEW g, \A x \in S : g[x] \in Int,
           \A x \in S : f[x] <= g[x]
    PROVE  SumFunctionOnSet(f, S) <= SumFunctionOnSet(g, S)
<1> DEFINE F == {T \in SUBSET S : SumFunctionOnSet(f, T) <= SumFunctionOnSet(g, T)}
<1>1. {} \in F
  BY SumSteps
<1>2. ASSUME NEW T \in SUBSET S, NEW x \in T, T \ {x} \in F
      PROVE  T \in F
  <2>1. /\ SumFunctionOnSet(f, T) = f[x] + SumFunctionOnSet(f, T \ {x})
        /\ SumFunctionOnSet(g, T) = g[x] + SumFunctionOnSet(g, T \ {x})
        /\ SumFunctionOnSet(f, T \ {x}) \in Int /\ SumFunctionOnSet(g, T \ {x}) \in Int
    BY SumSteps
  <2> QED BY <1>2, <2>1
<1>3. S \in F
  <2> HIDE DEF F
  <2> QED BY <1>1, <1>2, SetInduction
<1> QED BY <1>3

\* Equal terms have equal sums.
LEMMA SumSame ==
    ASSUME NEW S, IsFiniteSet(S), NEW f, \A x \in S : f[x] \in Int,
           NEW g, \A x \in S : g[x] = f[x]
    PROVE  SumFunctionOnSet(g, S) = SumFunctionOnSet(f, S)
<1>1. SumFunctionOnSet(f, S) \in Int /\ SumFunctionOnSet(g, S) \in Int
  BY SumInt
<1>2. SumFunctionOnSet(f, S) <= SumFunctionOnSet(g, S)
  BY SumMonotone
<1>3. SumFunctionOnSet(g, S) <= SumFunctionOnSet(f, S)
  BY SumMonotone
<1> QED BY <1>1, <1>2, <1>3

\* The sum of no terms but zeros.
LEMMA SumZero ==
    ASSUME NEW S, IsFiniteSet(S), NEW f, \A x \in S : f[x] = 0
    PROVE  SumFunctionOnSet(f, S) = 0
<1> DEFINE F == {T \in SUBSET S : SumFunctionOnSet(f, T) = 0}
<1>1. {} \in F
  BY SumSteps
<1>2. ASSUME NEW T \in SUBSET S, NEW x \in T, T \ {x} \in F
      PROVE  T \in F
  BY <1>2, SumSteps
<1>3. S \in F
  <2> HIDE DEF F
  <2> QED BY <1>1, <1>2, SetInduction
<1> QED BY <1>3

\* The sum of natural numbers is one, and no term exceeds it.
LEMMA SumNat ==
    ASSUME NEW S, IsFiniteSet(S), NEW f, \A x \in S : f[x] \in Nat
    PROVE  /\ SumFunctionOnSet(f, S) \in Nat
           /\ \A x \in S : f[x] <= SumFunctionOnSet(f, S)
<1> DEFINE F == {T \in SUBSET S : SumFunctionOnSet(f, T) \in Nat}
<1>1. {} \in F
  BY SumSteps
<1>2. ASSUME NEW T \in SUBSET S, NEW x \in T, T \ {x} \in F
      PROVE  T \in F
  <2>1. SumFunctionOnSet(f, T) = f[x] + SumFunctionOnSet(f, T \ {x})
    BY SumSteps
  <2> QED BY <1>2, <2>1
<1>3. \A T \in SUBSET S : T \in F
  <2> SUFFICES ASSUME NEW T \in SUBSET S PROVE T \in F
    OBVIOUS
  <2>1. IsFiniteSet(T)
    BY FS_Subset
  <2> HIDE DEF F
  <2> QED BY <1>1, <1>2, <2>1, SetInduction
<1>4. ASSUME NEW x \in S
      PROVE  f[x] <= SumFunctionOnSet(f, S)
  <2>1. SumFunctionOnSet(f, S \ {x}) \in Nat
    BY <1>3
  <2>2. SumFunctionOnSet(f, S) = f[x] + SumFunctionOnSet(f, S \ {x})
    BY SumSteps
  <2> QED BY <2>1, <2>2
<1> QED BY <1>3, <1>4

\* One term changes: the sum changes by as much.
LEMMA SumChange ==
    ASSUME NEW S, IsFiniteSet(S), NEW x \in S,
           NEW f, \A y \in S : f[y] \in Int, NEW g, \A y \in S : g[y] \in Int,
           \A y \in S \ {x} : g[y] = f[y]
    PROVE  SumFunctionOnSet(g, S) = SumFunctionOnSet(f, S) - f[x] + g[x]
<1>1. IsFiniteSet(S \ {x})
  BY FS_RemoveElement
<1>2. SumFunctionOnSet(g, S \ {x}) = SumFunctionOnSet(f, S \ {x})
  BY <1>1, SumSame
<1>3. /\ SumFunctionOnSet(f, S) = f[x] + SumFunctionOnSet(f, S \ {x})
      /\ SumFunctionOnSet(g, S) = g[x] + SumFunctionOnSet(g, S \ {x})
      /\ SumFunctionOnSet(f, S \ {x}) \in Int
  BY SumSteps
<1> QED BY <1>2, <1>3
=============================================================================
