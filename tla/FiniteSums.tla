----------------------------- MODULE FiniteSums -----------------------------
(***************************************************************************)
(* Facts about SumFunctionOnSet of the community modules, and about the    *)
(* least and the greatest element of a finite set of numbers.  Induction   *)
(* is over the set of the numbers a claim holds for.                       *)
(***************************************************************************)
EXTENDS Integers, FiniteSetsExt, FiniteSetTheorems, WellFoundedInduction, TLAPS

-----------------------------------------------------------------------------
(* Induction, and extreme elements.                                        *)

\* A set of naturals that is not empty has a least element.
LEMMA LeastNatural ==
    ASSUME NEW T \in SUBSET Nat, T # {}
    PROVE  \E x \in T : \A y \in T : x <= y
<1>1. IsWellFoundedOn(OpToRel(<, Nat), Nat)
  BY NatLessThanWellFounded
<1>2. PICK x \in T : \A y \in T : <<y, x>> \notin OpToRel(<, Nat)
  BY <1>1, WFMin
<1>3. \A y \in T : ~(y < x)
  BY <1>2 DEF OpToRel
<1> QED
  BY <1>3

\* Induction over the naturals for a set, where the library's is for an operator.
LEMMA SetInduction ==
    ASSUME NEW T, 0 \in T, \A n \in Nat : n \in T => n + 1 \in T
    PROVE  \A n \in Nat : n \in T
<1> SUFFICES ASSUME Nat \ T # {} PROVE FALSE
  OBVIOUS
<1>1. PICK n \in Nat \ T : \A m \in Nat \ T : n <= m
  BY LeastNatural
<1>2. n # 0 /\ n - 1 \in Nat /\ n - 1 \in T
  BY <1>1
<1>3. (n - 1) + 1 = n
  BY <1>1
<1> QED
  BY <1>1, <1>2, <1>3

\* Min and Max of FiniteSetsExt are a least and a greatest element.
LEMMA MinFacts ==
    ASSUME NEW S \in SUBSET Nat, S # {}
    PROVE  Min(S) \in S /\ \A y \in S : Min(S) <= y
<1>1. \E x \in S : \A y \in S : x <= y
  BY LeastNatural
<1> QED
  BY <1>1 DEF Min

LEMMA MaxFacts ==
    ASSUME NEW n \in Nat, NEW S \in SUBSET (1 .. n), S # {}
    PROVE  Max(S) \in S /\ \A y \in S : y <= Max(S)
<1> DEFINE T == {n - x : x \in S}
<1>0. \A x \in S : x \in Nat /\ x <= n /\ n - x \in Nat
  OBVIOUS
<1>1. T \in SUBSET Nat /\ T # {}
  BY <1>0
<1>2. PICK t \in T : \A u \in T : t <= u
  BY <1>1, LeastNatural
<1>3. PICK x \in S : t = n - x
  BY <1>2
<1>4. \A y \in S : x >= y
  <2> SUFFICES ASSUME NEW y \in S PROVE x >= y
    OBVIOUS
  <2>1. n - x <= n - y
    BY <1>2, <1>3
  <2> QED
    BY <1>0, <2>1
<1>5. \A y \in S : y \in Nat
  BY <1>0
<1>6. Max(S) \in S /\ \A y \in S : Max(S) >= y
  BY <1>4 DEF Max
<1> QED
  BY <1>5, <1>6

-----------------------------------------------------------------------------
(* The recursion of SumFunctionOnSet.                                      *)

Pick(s) == CHOOSE x \in s : TRUE

SumStep(f, it, s) == IF s = {} THEN 0 ELSE f[Pick(s)] + it[s \ {Pick(s)}]

IsSum(f, it, D) == it = [s \in SUBSET D |-> SumStep(f, it, s)]

\* Taking one element out of a finite set takes one off its size.
LEMMA Removed ==
    ASSUME NEW n \in Nat, NEW s, IsFiniteSet(s), Cardinality(s) = n + 1, NEW x \in s
    PROVE  IsFiniteSet(s \ {x}) /\ Cardinality(s \ {x}) = n /\ s # {}
<1>1. IsFiniteSet(s \ {x}) /\ Cardinality(s \ {x}) = Cardinality(s) - 1
  BY FS_RemoveElement
<1> QED
  BY <1>1

\* Pick, by which a fold over a set goes on, is one of the set's elements.
LEMMA Picked ==
    ASSUME NEW s, s # {}
    PROVE  Pick(s) \in s
  BY DEF Pick

\* The recursion has a solution on the subsets of a finite set.
LEMMA SumExists ==
    ASSUME NEW f, NEW S, IsFiniteSet(S)
    PROVE  \E it : IsSum(f, it, S)
<1> DEFINE Small(n) == {s \in SUBSET S : Cardinality(s) < n}
           T == {n \in Nat : \E it : it = [s \in Small(n) |-> SumStep(f, it, s)]}
<1>1. \A s \in SUBSET S : IsFiniteSet(s) /\ Cardinality(s) \in Nat
  BY FS_Subset, FS_CardinalityType
<1>2. 0 \in T
  <2>1. Small(0) = {}
    BY <1>1
  <2> DEFINE e == [s \in Small(0) |-> 0]
  <2>2. e = [s \in Small(0) |-> SumStep(f, e, s)]
    BY <2>1
  <2> QED
    BY <2>2
<1>3. ASSUME NEW n \in Nat, n \in T PROVE n + 1 \in T
  <2>1. PICK it : it = [s \in Small(n) |-> SumStep(f, it, s)]
    BY <1>3
  <2> DEFINE it2 == [s \in Small(n + 1) |-> SumStep(f, it, s)]
  <2>0. it2 = [s \in Small(n + 1) |-> SumStep(f, it, s)]
    OBVIOUS
  <2>2. Small(n) \subseteq Small(n + 1)
    BY <1>1
  <2>3. \A s \in Small(n) : it2[s] = it[s]
    BY <2>1, <2>2
  <2>4. ASSUME NEW s \in Small(n + 1), s # {}
        PROVE  s \ {Pick(s)} \in Small(n)
    <3>1. Pick(s) \in s
      BY <2>4, Picked
    <3>2. IsFiniteSet(s) /\ Cardinality(s) \in Nat
      BY <1>1
    <3>3. Cardinality(s \ {Pick(s)}) = Cardinality(s) - 1
      BY <3>1, <3>2, FS_RemoveElement
    <3> QED
      BY <3>2, <3>3
  <2> HIDE DEF Small, it2
  <2>5. ASSUME NEW s \in Small(n + 1) PROVE SumStep(f, it2, s) = SumStep(f, it, s)
    <3>1. CASE s = {}
      BY <3>1 DEF SumStep
    <3>2. CASE s # {}
      <4>1. it2[s \ {Pick(s)}] = it[s \ {Pick(s)}]
        BY <2>3, <2>4, <3>2
      <4> QED
        BY <3>2, <4>1 DEF SumStep
    <3> QED
      BY <3>1, <3>2
  <2>6. it2 = [s \in Small(n + 1) |-> SumStep(f, it2, s)]
    BY <2>0, <2>5
  <2>7. \E i : i = [s \in Small(n + 1) |-> SumStep(f, i, s)]
    BY <2>6
  <2> QED
    BY <2>7
<1> DEFINE m == Cardinality(S) + 1
<1>4. m \in Nat
  BY FS_CardinalityType
<1>5. m \in T
  <2> HIDE DEF T
  <2> QED
    BY <1>2, <1>3, <1>4, SetInduction
<1>6. Small(m) = SUBSET S
  <2>1. \A s \in SUBSET S : Cardinality(s) <= Cardinality(S)
    BY FS_Subset
  <2> QED
    BY <1>1, <1>4, <2>1
<1>7. PICK it : it = [s \in Small(m) |-> SumStep(f, it, s)]
  BY <1>5
<1> QED
  BY <1>6, <1>7 DEF IsSum

\* Two solutions, of functions that agree, agree on what both are defined on.
LEMMA SumUnique ==
    ASSUME NEW f, NEW g, NEW a, NEW b, NEW D, NEW E, IsSum(f, a, D), IsSum(g, b, E),
           NEW S, IsFiniteSet(S), S \subseteq D, S \subseteq E, \A x \in S : f[x] = g[x]
    PROVE  a[S] = b[S]
<1> DEFINE T == {n \in Nat : \A s \in SUBSET S :
                    IsFiniteSet(s) /\ Cardinality(s) = n => a[s] = b[s]}
<1>0. \A s \in SUBSET S : a[s] = SumStep(f, a, s) /\ b[s] = SumStep(g, b, s)
  BY DEF IsSum
<1>1. 0 \in T
  <2> SUFFICES ASSUME NEW s \in SUBSET S, IsFiniteSet(s), Cardinality(s) = 0
               PROVE  a[s] = b[s]
    OBVIOUS
  <2>1. s = {}
    BY FS_EmptySet
  <2> QED
    BY <1>0, <2>1 DEF SumStep
<1>2. ASSUME NEW n \in Nat, n \in T PROVE n + 1 \in T
  <2> SUFFICES ASSUME NEW s \in SUBSET S, IsFiniteSet(s), Cardinality(s) = n + 1
               PROVE  a[s] = b[s]
    OBVIOUS
  <2>1. s # {}
    BY FS_EmptySet
  <2>2. Pick(s) \in s
    BY <2>1, Picked
  <2> DEFINE t == s \ {Pick(s)}
  <2>3. IsFiniteSet(t) /\ Cardinality(t) = n /\ t \in SUBSET S
    BY <2>2, Removed
  <2>4. a[t] = b[t]
    BY <1>2, <2>3
  <2>5. f[Pick(s)] = g[Pick(s)]
    BY <2>2
  <2> QED
    BY <1>0, <2>1, <2>4, <2>5 DEF SumStep
<1>3. Cardinality(S) \in Nat
  BY FS_CardinalityType
<1>4. Cardinality(S) \in T
  <2> HIDE DEF T
  <2> QED
    BY <1>1, <1>2, <1>3, SetInduction
<1> QED
  BY <1>4

\* SumFunctionOnSet is the value of a solution.
LEMMA SumOfSolution ==
    ASSUME NEW f, NEW S, IsFiniteSet(S)
    PROVE  \E it : IsSum(f, it, S) /\ SumFunctionOnSet(f, S) = it[S]
<1> DEFINE it == CHOOSE it : it = [s \in SUBSET S |->
                   IF s = {} THEN 0
                   ELSE f[CHOOSE x \in s : TRUE] + it[s \ {CHOOSE x \in s : TRUE}]]
<1>1. \E i : i = [s \in SUBSET S |->
                   IF s = {} THEN 0
                   ELSE f[CHOOSE x \in s : TRUE] + i[s \ {CHOOSE x \in s : TRUE}]]
  <2>1. PICK i : IsSum(f, i, S)
    BY SumExists
  <2>2. i = [s \in SUBSET S |->
                   IF s = {} THEN 0
                   ELSE f[CHOOSE x \in s : TRUE] + i[s \ {CHOOSE x \in s : TRUE}]]
    BY <2>1 DEF IsSum, SumStep, Pick
  <2> QED
    BY <2>2
<1>2. IsSum(f, it, S)
  BY <1>1 DEF IsSum, SumStep, Pick
<1>3. SumFunctionOnSet(f, S) = it[S]
  BY DEF SumFunctionOnSet, FoldFunctionOnSet, MapThenFoldSet
<1> QED
  BY <1>2, <1>3

-----------------------------------------------------------------------------
(* Sums.                                                                   *)

\* A solution on a set is one of the sums of its subsets.
LEMMA SolutionIsSum ==
    ASSUME NEW f, NEW D, NEW it, IsSum(f, it, D),
           NEW S \in SUBSET D, IsFiniteSet(S)
    PROVE  it[S] = SumFunctionOnSet(f, S)
<1>1. PICK i : IsSum(f, i, S) /\ SumFunctionOnSet(f, S) = i[S]
  BY SumOfSolution
<1>2. i[S] = it[S]
  BY <1>1, SumUnique
<1> QED
  BY <1>1, <1>2

\* The sum over no elements is nothing; over a set it is the picked element's
\* term and the sum over the others; it is an integer when the terms are.
LEMMA SumEmpty ==
    ASSUME NEW f
    PROVE  SumFunctionOnSet(f, {}) = 0
<1>1. IsFiniteSet({})
  BY FS_EmptySet
<1>2. PICK it : IsSum(f, it, {}) /\ SumFunctionOnSet(f, {}) = it[{}]
  BY <1>1, SumOfSolution
<1> QED
  BY <1>2 DEF IsSum, SumStep

LEMMA SumPicked ==
    ASSUME NEW f, NEW S, IsFiniteSet(S), S # {}
    PROVE  SumFunctionOnSet(f, S) = f[Pick(S)] + SumFunctionOnSet(f, S \ {Pick(S)})
<1> DEFINE t == S \ {Pick(S)}
<1>1. PICK it : IsSum(f, it, S) /\ SumFunctionOnSet(f, S) = it[S]
  BY SumOfSolution
<1>2. IsFiniteSet(t) /\ t \in SUBSET S
  BY FS_RemoveElement
<1>3. it[t] = SumFunctionOnSet(f, t)
  BY <1>1, <1>2, SolutionIsSum
<1>4. it[S] = f[Pick(S)] + it[t]
  BY <1>1 DEF IsSum, SumStep
<1> QED
  BY <1>1, <1>3, <1>4

LEMMA SumType ==
    ASSUME NEW f, NEW S, IsFiniteSet(S), \A x \in S : f[x] \in Int
    PROVE  SumFunctionOnSet(f, S) \in Int
<1> DEFINE T == {n \in Nat : \A s \in SUBSET S :
                    IsFiniteSet(s) /\ Cardinality(s) = n => SumFunctionOnSet(f, s) \in Int}
<1>1. 0 \in T
  <2>1. \A s : IsFiniteSet(s) /\ Cardinality(s) = 0 => s = {}
    BY FS_EmptySet
  <2> QED
    BY <2>1, SumEmpty
<1>2. ASSUME NEW n \in Nat, n \in T PROVE n + 1 \in T
  <2> SUFFICES ASSUME NEW s \in SUBSET S, IsFiniteSet(s), Cardinality(s) = n + 1
               PROVE  SumFunctionOnSet(f, s) \in Int
    OBVIOUS
  <2>1. s # {} /\ Pick(s) \in s
    BY FS_EmptySet, Picked
  <2>2. IsFiniteSet(s \ {Pick(s)}) /\ Cardinality(s \ {Pick(s)}) = n
    BY <2>1, Removed
  <2>3. SumFunctionOnSet(f, s \ {Pick(s)}) \in Int
    BY <1>2, <2>2
  <2>4. f[Pick(s)] \in Int
    BY <2>1
  <2> QED
    BY <2>1, <2>3, <2>4, SumPicked
<1>3. Cardinality(S) \in Nat
  BY FS_CardinalityType
<1>4. Cardinality(S) \in T
  <2> HIDE DEF T
  <2> QED
    BY <1>1, <1>2, <1>3, SetInduction
<1> QED
  BY <1>4

\* Any element may be taken out first.
LEMMA SumRemove ==
    ASSUME NEW f, NEW S, IsFiniteSet(S), \A x \in S : f[x] \in Int, NEW e \in S
    PROVE  SumFunctionOnSet(f, S) = f[e] + SumFunctionOnSet(f, S \ {e})
<1> DEFINE T == {n \in Nat : \A s \in SUBSET S :
                    IsFiniteSet(s) /\ Cardinality(s) = n =>
                        \A x \in s : SumFunctionOnSet(f, s) = f[x] + SumFunctionOnSet(f, s \ {x})}
<1>1. 0 \in T
  <2>1. \A s : IsFiniteSet(s) /\ Cardinality(s) = 0 => s = {}
    BY FS_EmptySet
  <2> QED
    BY <2>1
<1>2. ASSUME NEW n \in Nat, n \in T PROVE n + 1 \in T
  <2> SUFFICES ASSUME NEW s \in SUBSET S, IsFiniteSet(s), Cardinality(s) = n + 1, NEW x \in s
               PROVE  SumFunctionOnSet(f, s) = f[x] + SumFunctionOnSet(f, s \ {x})
    OBVIOUS
  <2> DEFINE p == Pick(s)
             both == (s \ {p}) \ {x}
  <2>1. p \in s
    BY Picked
  <2>2. SumFunctionOnSet(f, s) = f[p] + SumFunctionOnSet(f, s \ {p})
    BY SumPicked
  <2>3. CASE x = p
    BY <2>2, <2>3
  <2>4. CASE x # p
    <3>1. IsFiniteSet(s \ {p}) /\ Cardinality(s \ {p}) = n /\ x \in s \ {p}
      BY <2>1, <2>4, Removed
    <3>2. IsFiniteSet(s \ {x}) /\ Cardinality(s \ {x}) = n /\ p \in s \ {x}
      BY <2>1, <2>4, Removed
    <3>3. SumFunctionOnSet(f, s \ {p}) = f[x] + SumFunctionOnSet(f, both)
      BY <1>2, <3>1
    <3>4. SumFunctionOnSet(f, s \ {x}) = f[p] + SumFunctionOnSet(f, (s \ {x}) \ {p})
      BY <1>2, <3>2
    <3>5. SumFunctionOnSet(f, (s \ {x}) \ {p}) = SumFunctionOnSet(f, both)
      <4>1. (s \ {x}) \ {p} = both
        OBVIOUS
      <4> QED
        BY <4>1, Zenon
    <3>6. IsFiniteSet(both) /\ \A y \in both : f[y] \in Int
      BY <3>1, FS_RemoveElement
    <3>7. SumFunctionOnSet(f, both) \in Int /\ f[x] \in Int /\ f[p] \in Int
      <4>1. SumFunctionOnSet(f, both) \in Int
        BY <3>6, SumType
      <4>2. x \in S /\ p \in S
        BY <2>1
      <4> QED
        BY <4>1, <4>2
    <3> HIDE DEF p, both
    <3> QED
      BY <2>2, <3>3, <3>4, <3>5, <3>7
  <2> QED
    BY <2>3, <2>4
<1>3. Cardinality(S) \in Nat
  BY FS_CardinalityType
<1>4. Cardinality(S) \in T
  <2> HIDE DEF T
  <2> QED
    BY <1>1, <1>2, <1>3, SetInduction
<1> QED
  BY <1>4

\* An element is added.
LEMMA SumAdd ==
    ASSUME NEW f, NEW S, IsFiniteSet(S), \A x \in S : f[x] \in Int,
           NEW e, e \notin S, f[e] \in Int
    PROVE  SumFunctionOnSet(f, S \cup {e}) = SumFunctionOnSet(f, S) + f[e]
<1>1. IsFiniteSet(S \cup {e}) /\ (S \cup {e}) \ {e} = S
  BY FS_AddElement
<1>2. SumFunctionOnSet(f, (S \cup {e}) \ {e}) = SumFunctionOnSet(f, S)
  BY <1>1, Zenon
<1>3. SumFunctionOnSet(f, S \cup {e}) = f[e] + SumFunctionOnSet(f, (S \cup {e}) \ {e})
  <2>1. e \in S \cup {e} /\ \A x \in S \cup {e} : f[x] \in Int
    OBVIOUS
  <2> QED
    BY <1>1, <2>1, SumRemove
<1>4. SumFunctionOnSet(f, S) \in Int
  BY SumType
<1> QED
  BY <1>2, <1>3, <1>4

\* Functions that agree on a set have one sum on it.
LEMMA SumAgrees ==
    ASSUME NEW f, NEW g, NEW S, IsFiniteSet(S), \A x \in S : f[x] = g[x]
    PROVE  SumFunctionOnSet(f, S) = SumFunctionOnSet(g, S)
<1>1. PICK a : IsSum(f, a, S) /\ SumFunctionOnSet(f, S) = a[S]
  BY SumOfSolution
<1>2. PICK b : IsSum(g, b, S) /\ SumFunctionOnSet(g, S) = b[S]
  BY SumOfSolution
<1>3. a[S] = b[S]
  BY <1>1, <1>2, SumUnique
<1> QED
  BY <1>1, <1>2, <1>3
=============================================================================
