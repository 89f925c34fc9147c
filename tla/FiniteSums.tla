------------------------------ MODULE FiniteSums ------------------------------
(***************************************************************************)
(* Facts about induction and about sums over finite sets, which the proofs *)
(* of the other modules rest on.  Sums are folds of the Functions module:  *)
(* SumFunctionOnSet(f, S) adds up f[x] for the elements x of S.            *)
(*                                                                         *)
(* Induction is stated for a set P, the things that have the property, and *)
(* rests on well-foundedness: what is not in P has a least element.        *)
(***************************************************************************)
EXTENDS Functions, FiniteSets, FiniteSetTheorems, WellFoundedInduction, TLAPS

(* Natural numbers: what contains 0 and successors contains all.           *)
LEMMA NatSetInduction ==
  ASSUME NEW P, 0 \in P, \A n \in Nat : n \in P => n + 1 \in P
  PROVE  Nat \subseteq P
<1> DEFINE T == Nat \ P
<1> SUFFICES ASSUME T # {} PROVE FALSE
  OBVIOUS
<1>1. PICK x \in T : \A y \in T : ~ (<<y, x>> \in OpToRel(<, Nat))
  <2>1. T \subseteq Nat
    OBVIOUS
  <2>2. IsWellFoundedOn(OpToRel(<, Nat), Nat)
    BY NatLessThanWellFounded
  <2> HIDE DEF T
  <2> QED
    BY <2>1, <2>2, WFMin
<1>2. x # 0 /\ x - 1 \in Nat /\ x - 1 < x
  OBVIOUS
<1>3. x - 1 \in P
  BY <1>1, <1>2 DEF OpToRel
<1> QED
  BY <1>2, <1>3

(* A function can be defined by recursion over an interval.                *)
Recursion(f, D, start, step, b, N) ==
  f \in [b .. b + N -> D] /\ f[b] = start /\ \A k \in b + 1 .. b + N : f[k] = step[f[k - 1]]

(* A function over an interval can be defined by recursion.               *)
LEMMA RecursionExists ==
  ASSUME NEW D, NEW start \in D, NEW step \in [D -> D], NEW b \in Nat, NEW N \in Nat
  PROVE  \E f : Recursion(f, D, start, step, b, N)
<1> DEFINE Defined(n, f) == f[b] = start /\ \A k \in b + 1 .. b + n : f[k] = step[f[k - 1]]
           P == {n \in Nat : \E f \in [b .. b + n -> D] : Defined(n, f)}
<1>1. 0 \in P
  <2> DEFINE f == [k \in b .. b + 0 |-> start]
  <2>1. f \in [b .. b + 0 -> D] /\ Defined(0, f)
    OBVIOUS
  <2> QED
    BY <2>1
<1>2. \A n \in Nat : n \in P => n + 1 \in P
  <2> SUFFICES ASSUME NEW n \in Nat, n \in P PROVE n + 1 \in P
    OBVIOUS
  <2>1. PICK f \in [b .. b + n -> D] : Defined(n, f)
    OBVIOUS
  <2> DEFINE g == [k \in b .. b + (n + 1) |-> IF k = b + (n + 1) THEN step[f[b + n]] ELSE f[k]]
  <2>2. \A k \in b .. b + n : k \in b .. b + (n + 1) /\ g[k] = f[k]
    OBVIOUS
  <2>3. g[b + (n + 1)] = step[f[b + n]] /\ f[b + n] \in D
    OBVIOUS
  <2>4. g \in [b .. b + (n + 1) -> D]
    BY <2>2, <2>3
  <2>5. \A k \in b + 1 .. b + (n + 1) : g[k] = step[g[k - 1]]
    <3> TAKE k \in b + 1 .. b + (n + 1)
    <3>1. CASE k = b + (n + 1)
      <4>1. k - 1 = b + n /\ k - 1 \in b .. b + n
        BY <3>1
      <4> HIDE DEF g
      <4> QED
        BY <2>2, <2>3, <3>1, <4>1
    <3>2. CASE k # b + (n + 1)
      <4>1. k \in b + 1 .. b + n /\ k \in b .. b + n /\ k - 1 \in b .. b + n
        BY <3>2
      <4>2. f[k] = step[f[k - 1]]
        BY <2>1, <4>1
      <4> HIDE DEF g
      <4> QED
        BY <2>2, <4>1, <4>2
    <3> QED
      BY <3>1, <3>2
  <2>6. g[b] = start
    BY <2>1, <2>2
  <2> HIDE DEF g
  <2> QED
    BY <2>4, <2>5, <2>6
<1> HIDE DEF P
<1>3. N \in P
  BY <1>1, <1>2, NatSetInduction
<1> QED
  BY <1>3 DEF P, Recursion

(* Finite sets: what contains the empty set and, with a part of S, that    *)
(* part and one more element of S, contains every part of S.               *)
LEMMA FiniteSetInduction ==
  ASSUME NEW P, NEW S, IsFiniteSet(S), {} \in P,
         \A T \in SUBSET S : \A x \in S \ T : T \in P => T \cup {x} \in P
  PROVE  SUBSET S \subseteq P
<1> DEFINE B == (SUBSET S) \ P
<1> SUFFICES ASSUME B # {} PROVE FALSE
  OBVIOUS
<1>1. PICK T \in B : \A U \in B : ~ (<<U, T>> \in StrictSubsetOrdering(S))
  <2>1. B \subseteq FiniteSubsetsOf(S)
    BY FS_FiniteSubsetsOfFinite
  <2>2. IsWellFoundedOn(StrictSubsetOrdering(S), FiniteSubsetsOf(S))
    BY FS_StrictSubsetOrderingWellFounded
  <2> HIDE DEF B
  <2> QED
    BY <2>1, <2>2, WFMin
<1>2. PICK x \in T : TRUE
  OBVIOUS
<1>3. T \ {x} \in P
  <2>1. <<T \ {x}, T>> \in StrictSubsetOrdering(S)
    BY DEF StrictSubsetOrdering
  <2> QED
    BY <1>1, <2>1
<1> QED
  <2>1. (T \ {x}) \cup {x} = T
    BY <1>2
  <2> QED
    BY <1>2, <1>3, <2>1

(* A set without one of its elements.                                     *)
LEMMA WithoutOne ==
  ASSUME NEW S, IsFiniteSet(S), NEW T \in SUBSET S, NEW x \in T
  PROVE  /\ T \ {x} \in SUBSET S
         /\ IsFiniteSet(T) /\ IsFiniteSet(T \ {x})
         /\ Cardinality(T) \in Nat /\ Cardinality(T \ {x}) \in Nat
         /\ Cardinality(T \ {x}) = Cardinality(T) - 1
<1>1. IsFiniteSet(T)
  BY FS_Subset
<1>2. IsFiniteSet(T \ {x}) /\ Cardinality(T \ {x}) = Cardinality(T) - 1
  BY <1>1, FS_RemoveElement
<1>3. Cardinality(T) \in Nat /\ Cardinality(T \ {x}) \in Nat
  BY <1>1, <1>2, FS_CardinalityType
<1> QED
  BY <1>1, <1>2, <1>3

(* A set with a new element.                                              *)
LEMMA OneMore ==
  ASSUME NEW S, IsFiniteSet(S), NEW x, x \notin S
  PROVE  /\ IsFiniteSet(S \cup {x})
         /\ Cardinality(S \cup {x}) = Cardinality(S) + 1
BY FS_AddElement

(* A set with an element that may have been in it.                        *)
LEMMA WithOneMore ==
  ASSUME NEW S, IsFiniteSet(S), NEW x
  PROVE  /\ IsFiniteSet(S \cup {x})
         /\ Cardinality(S \cup {x}) <= Cardinality(S) + 1
<1>1. Cardinality(S) \in Nat
  BY FS_CardinalityType
<1>2. /\ IsFiniteSet(S \cup {x})
      /\ Cardinality(S \cup {x}) = IF x \in S THEN Cardinality(S) ELSE Cardinality(S) + 1
  BY FS_AddElement
<1> QED
  BY <1>1, <1>2

(* Sets without a common element.                                         *)
LEMMA DisjointUnion ==
  ASSUME NEW S, NEW T, IsFiniteSet(S), IsFiniteSet(T), S \cap T = {}
  PROVE  /\ IsFiniteSet(S \cup T)
         /\ Cardinality(S \cup T) = Cardinality(S) + Cardinality(T)
<1>1. Cardinality(S \cap T) = 0
  BY FS_EmptySet
<1>2. Cardinality(S) \in Nat /\ Cardinality(T) \in Nat
  BY FS_CardinalityType
<1>3. /\ IsFiniteSet(S \cup T)
      /\ Cardinality(S \cup T) = Cardinality(S) + Cardinality(T) - Cardinality(S \cap T)
  BY FS_Union
<1> QED
  BY <1>1, <1>2, <1>3

(* A set of natural numbers has a least element.                           *)
LEMMA LeastExists ==
  ASSUME NEW S, S \subseteq Nat, S # {}
  PROVE  \E n \in S : \A m \in S : n <= m
<1>1. PICK n \in S : \A m \in S : ~ (<<m, n>> \in OpToRel(<, Nat))
  <2>1. IsWellFoundedOn(OpToRel(<, Nat), Nat)
    BY NatLessThanWellFounded
  <2> QED
    BY <2>1, WFMin
<1>2. \A m \in S : ~(m < n)
  BY <1>1 DEF OpToRel
<1>3. \A m \in S : n <= m
  BY <1>2
<1> QED
  BY <1>3

(* A bounded set of numbers has a greatest element.                       *)
LEMMA GreatestExists ==
  ASSUME NEW S, S # {}, NEW n \in Nat, S \subseteq 0 .. n
  PROVE  \E m \in S : \A k \in S : k <= m
<1> DEFINE T == {j \in Nat : \E k \in S : j = n - k}
<1>1. \A k \in S : k \in Int /\ n - k \in T
  OBVIOUS
<1>2. T # {} /\ T \subseteq Nat
  BY <1>1
<1>3. PICK j \in T : \A i \in T : j <= i
  BY <1>2, LeastExists
<1>4. PICK m \in S : j = n - m
  OBVIOUS
<1> HIDE DEF T
<1>5. \A k \in S : k <= m
  BY <1>1, <1>3, <1>4
<1> QED
  BY <1>4, <1>5

-----------------------------------------------------------------------------
(* Orders on finite sets, as sets of pairs: total and transitive.          *)
TotallyOrders(R, S) ==
  /\ \A x, y \in S : x = y \/ <<x, y>> \in R \/ <<y, x>> \in R
  /\ \A x, y, z \in S : <<x, y>> \in R /\ <<y, z>> \in R => <<x, z>> \in R

LastOf(g, R, T) == g \in T /\ \A x \in T : x = g \/ <<x, g>> \in R

(* Every part has a last element.                                          *)
LEMMA LastExists ==
  ASSUME NEW S, IsFiniteSet(S), NEW R, TotallyOrders(R, S), NEW T \in SUBSET S, T # {}
  PROVE  \E g : LastOf(g, R, T)
<1> DEFINE P == {U \in SUBSET S : U # {} => \E g \in U : \A x \in U : x = g \/ <<x, g>> \in R}
<1>1. {} \in P
  OBVIOUS
<1>2. ASSUME NEW U \in SUBSET S, NEW y \in S \ U, U \in P
      PROVE  U \cup {y} \in P
  <2>1. CASE U = {}
    BY <1>2, <2>1
  <2>2. CASE U # {}
    <3>1. PICK g \in U : \A x \in U : x = g \/ <<x, g>> \in R
      BY <1>2, <2>2
    <3>2. CASE <<y, g>> \in R
      BY <1>2, <3>1, <3>2
    <3>3. CASE <<g, y>> \in R
      <4>1. \A x \in U \cup {y} : x = y \/ <<x, y>> \in R
        BY <3>1, <3>3 DEF TotallyOrders
      <4> QED
        BY <1>2, <4>1
    <3> QED
      BY <1>2, <3>2, <3>3 DEF TotallyOrders
  <2> QED
    BY <2>1, <2>2
<1> HIDE DEF P
<1>3. SUBSET S \subseteq P
  BY <1>1, <1>2, FiniteSetInduction
<1> QED
  BY <1>3 DEF P, LastOf

(* A finite set of numbers has a greatest one.                             *)
LEMMA FiniteHasGreatest ==
  ASSUME NEW S, IsFiniteSet(S), S \subseteq Int, S # {}
  PROVE  \E m \in S : \A k \in S : k <= m
<1> DEFINE R == {p \in S \X S : p[1] <= p[2]}
<1>1. \A x, y \in S : <<x, y>> \in R <=> x <= y
  OBVIOUS
<1> HIDE DEF R
<1>2. TotallyOrders(R, S)
  BY <1>1 DEF TotallyOrders
<1>3. PICK g : LastOf(g, R, S)
  BY <1>2, LastExists
<1>4. g \in S /\ \A x \in S : x = g \/ x <= g
  BY <1>1, <1>3 DEF LastOf
<1>5. \A x \in S : x <= g
  BY <1>4
<1> QED
  BY <1>4, <1>5

(* In some sequence the elements stand in order.                           *)
Listed(f, R, T, n) ==
  /\ f \in [1 .. n -> T]
  /\ \A i, j \in 1 .. n : i < j => f[i] # f[j] /\ <<f[i], f[j]>> \in R

(* Every finite set can be listed in order.                                *)
LEMMA OrderedListing ==
  ASSUME NEW S, IsFiniteSet(S), NEW R, TotallyOrders(R, S)
  PROVE  \E f : Listed(f, R, S, Cardinality(S))
<1> DEFINE P == {n \in Nat : \A T \in SUBSET S : Cardinality(T) = n => \E f : Listed(f, R, T, n)}
<1>0. \A T \in SUBSET S : IsFiniteSet(T) /\ Cardinality(T) \in Nat
  BY FS_Subset, FS_CardinalityType
<1>1. 0 \in P
  <2> SUFFICES ASSUME NEW T \in SUBSET S PROVE Listed([i \in 1 .. 0 |-> i], R, T, 0)
    OBVIOUS
  <2> QED
    BY DEF Listed
<1>2. ASSUME NEW n \in Nat, n \in P PROVE n + 1 \in P
  <2> SUFFICES ASSUME NEW T \in SUBSET S, Cardinality(T) = n + 1
               PROVE  \E f : Listed(f, R, T, n + 1)
    OBVIOUS
  <2>1. T # {}
    BY FS_EmptySet
  <2>2. PICK g : LastOf(g, R, T)
    BY <2>1, LastExists
  <2> DEFINE U == T \ {g}
  <2>3. U \in SUBSET S /\ Cardinality(U) = n /\ g \in T
    <3>1. g \in T
      BY <2>2 DEF LastOf
    <3>2. Cardinality(T \ {g}) = Cardinality(T) - 1
      BY <3>1, WithoutOne
    <3> QED
      BY <3>1, <3>2
  <2>4. PICK f : Listed(f, R, U, n)
    BY <1>2, <2>3
  <2> DEFINE h == [i \in 1 .. n + 1 |-> IF i = n + 1 THEN g ELSE f[i]]
  <2>5. \A i \in 1 .. n : h[i] = f[i] /\ f[i] \in T /\ f[i] # g
    BY <2>4 DEF Listed
  <2>6. h[n + 1] = g
    OBVIOUS
  <2>7. h \in [1 .. n + 1 -> T]
    <3>1. \A i \in 1 .. n + 1 : i = n + 1 \/ i \in 1 .. n
      OBVIOUS
    <3>2. \A i \in 1 .. n + 1 : h[i] \in T
      BY <2>3, <2>5, <2>6, <3>1
    <3> QED
      BY <3>2
  <2>8. \A i, j \in 1 .. n + 1 : i < j => h[i] # h[j] /\ <<h[i], h[j]>> \in R
    <3> SUFFICES ASSUME NEW i \in 1 .. n + 1, NEW j \in 1 .. n + 1, i < j
                 PROVE  h[i] # h[j] /\ <<h[i], h[j]>> \in R
      OBVIOUS
    <3>1. i \in 1 .. n
      OBVIOUS
    <3>2. CASE j = n + 1
      BY <2>2, <2>5, <2>6, <3>1, <3>2 DEF LastOf
    <3>3. CASE j # n + 1
      <4>1. j \in 1 .. n
        BY <3>3
      <4> HIDE DEF h
      <4> QED
        BY <2>4, <2>5, <3>1, <4>1 DEF Listed
    <3> QED
      BY <3>2, <3>3
  <2> HIDE DEF h
  <2> QED
    BY <2>7, <2>8 DEF Listed
<1>3. Nat \subseteq P
  <2> HIDE DEF P
  <2> QED
    BY <1>1, <1>2, NatSetInduction
<1> QED
  BY <1>0, <1>3

-----------------------------------------------------------------------------
(* A set of parts of a finite set has a minimal one.                       *)
LEMMA MinimalPart ==
  ASSUME NEW S, IsFiniteSet(S), NEW B, B \subseteq SUBSET S, B # {}
  PROVE  \E T \in B : \A U \in B : U \subseteq T => U = T
<1>1. PICK T \in B : \A U \in B : ~ (<<U, T>> \in StrictSubsetOrdering(S))
  <2>1. B \subseteq FiniteSubsetsOf(S)
    BY FS_FiniteSubsetsOfFinite
  <2>2. IsWellFoundedOn(StrictSubsetOrdering(S), FiniteSubsetsOf(S))
    BY FS_StrictSubsetOrderingWellFounded
  <2> QED
    BY <2>1, <2>2, WFMin
<1> QED
  BY <1>1 DEF StrictSubsetOrdering

(* A finite set has a part of each size up to its own.                     *)
LEMMA PartOfSize ==
  ASSUME NEW S, IsFiniteSet(S), NEW n \in 0 .. Cardinality(S)
  PROVE  \E T \in SUBSET S : Cardinality(T) = n
<1> DEFINE P == {U \in SUBSET S : n <= Cardinality(U) => \E T \in SUBSET S : Cardinality(T) = n}
<1>0. Cardinality(S) \in Nat
  BY FS_CardinalityType
<1>1. {} \in P
  <2>1. Cardinality({}) = 0
    BY FS_EmptySet
  <2>2. CASE n = 0
    BY <2>1, <2>2
  <2>3. CASE n # 0
    BY <1>0, <2>1, <2>3
  <2> QED
    BY <2>2, <2>3
<1>2. \A U \in SUBSET S : \A x \in S \ U : U \in P => U \cup {x} \in P
  <2> SUFFICES ASSUME NEW U \in SUBSET S, NEW x \in S \ U, U \in P,
                      n <= Cardinality(U \cup {x})
               PROVE  \E T \in SUBSET S : Cardinality(T) = n
    OBVIOUS
  <2>1. IsFiniteSet(U) /\ Cardinality(U) \in Nat
    BY FS_Subset, FS_CardinalityType
  <2>2. Cardinality(U \cup {x}) = Cardinality(U) + 1
    BY <2>1, FS_AddElement
  <2>3. CASE n = Cardinality(U \cup {x})
    <3>1. U \cup {x} \in SUBSET S
      OBVIOUS
    <3> QED
      BY <2>3, <3>1
  <2>4. CASE n # Cardinality(U \cup {x})
    BY <1>0, <2>1, <2>2, <2>4
  <2> QED
    BY <2>3, <2>4
<1> HIDE DEF P
<1>3. S \in P
  BY <1>1, <1>2, FiniteSetInduction
<1> QED
  BY <1>0, <1>3 DEF P

-----------------------------------------------------------------------------
(* The fold, unfolded: the sum over s of an element of s and of the rest.  *)
Chosen(s) == CHOOSE x \in s : TRUE
Step(f, g, s) == IF s = {} THEN 0 ELSE f[Chosen(s)] + g[s \ {Chosen(s)}]
Iterates(f, g, S) == g = [s \in SUBSET S |-> Step(f, g, s)]

(* The sum is the last value of an iteration.                             *)
LEMMA SumUnfolded ==
  ASSUME NEW f, NEW S
  PROVE  SumFunctionOnSet(f, S) = (CHOOSE g : Iterates(f, g, S))[S]
BY DEF SumFunctionOnSet, FoldFunctionOnSet, MapThenFoldSet, Iterates, Step, Chosen

(* The element an iteration takes first is one of the set.                *)
LEMMA ChosenIsElement ==
  ASSUME NEW s, s # {}
  PROVE  Chosen(s) \in s
BY DEF Chosen

(* There is such a function: it is built up by the size of sets.           *)
LEMMA IterationExists ==
  ASSUME NEW f, NEW S, IsFiniteSet(S)
  PROVE  \E g : Iterates(f, g, S)
<1> DEFINE D(n) == {s \in SUBSET S : Cardinality(s) <= n}
           P == {n \in Nat : \E g : g = [s \in D(n) |-> Step(f, g, s)]}
<1>0. \A s \in SUBSET S : IsFiniteSet(s) /\ Cardinality(s) \in Nat
  BY FS_Subset, FS_CardinalityType
<1>1. \A s \in SUBSET S : s # {} =>
         /\ s \ {Chosen(s)} \in SUBSET S
         /\ Cardinality(s \ {Chosen(s)}) = Cardinality(s) - 1
  BY ChosenIsElement, WithoutOne
<1>2. 0 \in P
  <2> DEFINE g == [s \in D(0) |-> 0]
  <2>1. \A s \in D(0) : s = {}
    BY <1>0, FS_EmptySet
  <2>2. g = [s \in D(0) |-> Step(f, g, s)]
    BY <2>1 DEF Step
  <2> QED
    BY <2>2
<1>3. \A n \in Nat : n \in P => n + 1 \in P
  <2> SUFFICES ASSUME NEW n \in Nat, n \in P PROVE n + 1 \in P
    OBVIOUS
  <2>1. PICK g : g = [s \in D(n) |-> Step(f, g, s)]
    OBVIOUS
  <2> DEFINE h == [s \in D(n + 1) |-> Step(f, g, s)]
  <2>2. \A s \in D(n) : s \in D(n + 1) /\ h[s] = g[s]
    <3> SUFFICES ASSUME NEW s \in D(n) PROVE s \in D(n + 1) /\ h[s] = g[s]
      OBVIOUS
    <3>1. s \in D(n + 1)
      BY <1>0
    <3>2. g[s] = Step(f, g, s)
      BY <2>1
    <3> QED
      BY <3>1, <3>2
  <2>3. \A s \in D(n + 1) : Step(f, g, s) = Step(f, h, s)
    <3> SUFFICES ASSUME NEW s \in D(n + 1), s # {} PROVE Step(f, g, s) = Step(f, h, s)
      BY DEF Step
    <3>1. s \ {Chosen(s)} \in D(n)
      BY <1>0, <1>1
    <3> HIDE DEF h, D
    <3> QED
      BY <3>1, <2>2 DEF Step
  <2>4. h = [s \in D(n + 1) |-> Step(f, h, s)]
    BY <2>3
  <2> HIDE DEF h
  <2> QED
    BY <2>4, SMTT(30)
<1>4. Cardinality(S) \in P
  <2> HIDE DEF P
  <2> QED
    BY <1>0, <1>2, <1>3, NatSetInduction
<1>5. D(Cardinality(S)) = SUBSET S
  BY <1>0, FS_Subset
<1> HIDE DEF D
<1> QED
  BY <1>4, <1>5 DEF Iterates

(* What is iterated over a part agrees with what is iterated over the whole.*)
LEMMA IterationIsUnique ==
  ASSUME NEW f, NEW S, IsFiniteSet(S), NEW g, Iterates(f, g, S),
         NEW T \in SUBSET S, NEW h, Iterates(f, h, T)
  PROVE  \A s \in SUBSET T : g[s] = h[s]
<1> DEFINE P == {n \in Nat : \A s \in SUBSET T : Cardinality(s) = n => g[s] = h[s]}
<1>a. IsFiniteSet(T)
  BY FS_Subset
<1>0. \A s \in SUBSET T : IsFiniteSet(s) /\ Cardinality(s) \in Nat
  BY <1>a, FS_Subset, FS_CardinalityType
<1>1. \A s \in SUBSET T : g[s] = Step(f, g, s) /\ h[s] = Step(f, h, s)
  BY DEF Iterates
<1>2. 0 \in P
  BY <1>0, <1>1, FS_EmptySet DEF Step
<1>3. \A n \in Nat : n \in P => n + 1 \in P
  <2> SUFFICES ASSUME NEW n \in Nat, n \in P, NEW s \in SUBSET T, Cardinality(s) = n + 1
               PROVE  g[s] = h[s]
    OBVIOUS
  <2>1. s # {}
    BY FS_EmptySet
  <2>2. s \ {Chosen(s)} \in SUBSET T /\ Cardinality(s \ {Chosen(s)}) = n
    <3>1. Chosen(s) \in s
      BY <2>1, ChosenIsElement
    <3> HIDE DEF P
    <3> QED
      BY <1>a, <3>1, WithoutOne, SMTT(30)
  <2>3. g[s \ {Chosen(s)}] = h[s \ {Chosen(s)}]
    BY <2>2
  <2> QED
    BY <1>1, <2>1, <2>3 DEF Step
<1> HIDE DEF P
<1>4. Nat \subseteq P
  BY <1>2, <1>3, NatSetInduction
<1> QED
  BY <1>0, <1>4 DEF P

(* The recursion equation of sums.                                         *)
LEMMA SumChosen ==
  ASSUME NEW f, NEW S, IsFiniteSet(S)
  PROVE  SumFunctionOnSet(f, S) =
           IF S = {} THEN 0 ELSE f[Chosen(S)] + SumFunctionOnSet(f, S \ {Chosen(S)})
<1> DEFINE g == CHOOSE g : Iterates(f, g, S)
           T == S \ {Chosen(S)}
           h == CHOOSE h : Iterates(f, h, T)
<1>1. Iterates(f, g, S) /\ SumFunctionOnSet(f, S) = g[S]
  BY IterationExists, SumUnfolded
<1>2. IsFiniteSet(T) /\ T \in SUBSET S
  BY FS_Subset
<1>3. Iterates(f, h, T) /\ SumFunctionOnSet(f, T) = h[T]
  BY <1>2, IterationExists, SumUnfolded
<1> HIDE DEF g, h
<1>4. g[S] = Step(f, g, S)
  BY <1>1 DEF Iterates
<1>5. g[T] = h[T]
  BY <1>1, <1>2, <1>3, IterationIsUnique
<1> QED
  BY <1>1, <1>3, <1>4, <1>5 DEF Step

-----------------------------------------------------------------------------
(* Other folds: what holds of the empty set, and of a set when it holds of *)
(* the rest, whatever is taken out of it first, holds of all parts of a    *)
(* finite set.                                                             *)
Picks(pick, S) == \A s \in SUBSET S : s # {} => pick[s] \in s
Inherits(pick, S, P) == \A s \in SUBSET S : s # {} /\ s \ {pick[s]} \in P => s \in P

(* What a non-empty set inherits from itself less its pick, every set has. *)
LEMMA PickInduction ==
  ASSUME NEW S, IsFiniteSet(S), NEW pick, Picks(pick, S), NEW P, {} \in P,
         Inherits(pick, S, P)
  PROVE  SUBSET S \subseteq P
<1> DEFINE Q == {n \in Nat : \A s \in SUBSET S : Cardinality(s) = n => s \in P}
<1>0. \A s \in SUBSET S : IsFiniteSet(s) /\ Cardinality(s) \in Nat
  BY FS_Subset, FS_CardinalityType
<1>1. 0 \in Q
  BY <1>0, FS_EmptySet
<1>2. \A n \in Nat : n \in Q => n + 1 \in Q
  <2> SUFFICES ASSUME NEW n \in Nat, n \in Q, NEW s \in SUBSET S, Cardinality(s) = n + 1
               PROVE  s \in P
    OBVIOUS
  <2>1. s # {}
    <3>1. Cardinality({}) = 0
      BY FS_EmptySet
    <3> HIDE DEF Q
    <3> QED
      BY <3>1
  <2>2. s \ {pick[s]} \in SUBSET S /\ Cardinality(s \ {pick[s]}) = n
    <3>1. pick[s] \in s /\ IsFiniteSet(s)
      BY <1>0, <2>1 DEF Picks
    <3>2. Cardinality(s \ {pick[s]}) = Cardinality(s) - 1
      BY <3>1, WithoutOne
    <3> HIDE DEF Q
    <3> QED
      BY <3>2
  <2>3. s \ {pick[s]} \in P
    BY <2>2
  <2> QED
    BY <2>1, <2>3 DEF Inherits
<1>3. Nat \subseteq Q
  <2> HIDE DEF Q
  <2> QED
    BY <1>1, <1>2, NatSetInduction
<1> QED
  BY <1>0, <1>3

(* The element a fold takes first, as such a function.                     *)
FirstChoices(S) == [s \in SUBSET S |-> Chosen(s)]

(* It is one: a set that is not empty has a chosen element.               *)
LEMMA ChoicesPick ==
  ASSUME NEW S
  PROVE  Picks(FirstChoices(S), S) /\ \A s \in SUBSET S : FirstChoices(S)[s] = Chosen(s)
BY ChosenIsElement DEF FirstChoices, Picks

(* So the induction goes along a fold.                                     *)
LEMMA ChosenInduction ==
  ASSUME NEW S, IsFiniteSet(S), NEW P, {} \in P,
         \A s \in SUBSET S : s # {} /\ s \ {Chosen(s)} \in P => s \in P
  PROVE  SUBSET S \subseteq P
<1> DEFINE pick == FirstChoices(S)
<1>1. Picks(pick, S) /\ \A s \in SUBSET S : pick[s] = Chosen(s)
  BY ChoicesPick
<1> HIDE DEF pick
<1>2. Inherits(pick, S, P)
  BY <1>1 DEF Inherits
<1> QED
  BY <1>1, <1>2, PickInduction

(* A fold, its operation given as a function of pairs.                     *)
PickStep(next, base, f, pick, g, s) ==
  IF s = {} THEN base ELSE next[<<f[pick[s]], g[s \ {pick[s]}]>>]
PickFolded(next, base, f, pick, g, D) == g = [s \in D |-> PickStep(next, base, f, pick, g, s)]

(* There is such a fold, again built up by the size of sets.               *)
LEMMA PickFoldExists ==
  ASSUME NEW next, NEW base, NEW f, NEW S, IsFiniteSet(S), NEW pick, Picks(pick, S)
  PROVE  \E g : PickFolded(next, base, f, pick, g, SUBSET S)
<1> DEFINE D(n) == {s \in SUBSET S : Cardinality(s) <= n}
           P == {n \in Nat : \E g : PickFolded(next, base, f, pick, g, D(n))}
<1>0. \A s \in SUBSET S : IsFiniteSet(s) /\ Cardinality(s) \in Nat
  BY FS_Subset, FS_CardinalityType
<1>1. \A s \in SUBSET S : s # {} =>
         /\ s \ {pick[s]} \in SUBSET S
         /\ Cardinality(s \ {pick[s]}) = Cardinality(s) - 1
  BY WithoutOne DEF Picks
<1>2. 0 \in P
  <2> DEFINE g == [s \in D(0) |-> base]
  <2>1. \A s \in D(0) : s = {}
    BY <1>0, FS_EmptySet
  <2>2. PickFolded(next, base, f, pick, g, D(0))
    BY <2>1 DEF PickFolded, PickStep
  <2> QED
    BY <2>2
<1>3. \A n \in Nat : n \in P => n + 1 \in P
  <2> SUFFICES ASSUME NEW n \in Nat, n \in P PROVE n + 1 \in P
    OBVIOUS
  <2>1. PICK g : PickFolded(next, base, f, pick, g, D(n))
    OBVIOUS
  <2> DEFINE h == [s \in D(n + 1) |-> PickStep(next, base, f, pick, g, s)]
  <2>2. \A s \in D(n) : s \in D(n + 1) /\ h[s] = g[s]
    <3> SUFFICES ASSUME NEW s \in D(n) PROVE s \in D(n + 1) /\ h[s] = g[s]
      OBVIOUS
    <3>1. s \in D(n + 1)
      BY <1>0
    <3>2. g[s] = PickStep(next, base, f, pick, g, s)
      BY <2>1 DEF PickFolded
    <3> QED
      BY <3>1, <3>2
  <2>3. \A s \in D(n + 1) : PickStep(next, base, f, pick, g, s) = PickStep(next, base, f, pick, h, s)
    <3> SUFFICES ASSUME NEW s \in D(n + 1), s # {}
                 PROVE  PickStep(next, base, f, pick, g, s) = PickStep(next, base, f, pick, h, s)
      BY DEF PickStep
    <3>1. s \ {pick[s]} \in D(n)
      BY <1>0, <1>1
    <3> HIDE DEF h, D
    <3> QED
      BY <3>1, <2>2 DEF PickStep
  <2>4. PickFolded(next, base, f, pick, h, D(n + 1))
    BY <2>3 DEF PickFolded
  <2> HIDE DEF h, D
  <2> QED
    BY <2>4
<1>4. Cardinality(S) \in P
  <2> HIDE DEF P
  <2> QED
    BY <1>0, <1>2, <1>3, NatSetInduction
<1>5. D(Cardinality(S)) = SUBSET S
  BY <1>0, FS_Subset
<1> HIDE DEF D
<1> QED
  BY <1>4, <1>5

(* In particular there is a fold as the library's modules define it.       *)
FoldStep(next, base, f, g, s) ==
  IF s = {} THEN base ELSE next[<<f[Chosen(s)], g[s \ {Chosen(s)}]>>]
Folded(next, base, f, g, D) == g = [s \in D |-> FoldStep(next, base, f, g, s)]

(* The same for the fold the library's operators write.                    *)
LEMMA FoldExists ==
  ASSUME NEW next, NEW base, NEW f, NEW S, IsFiniteSet(S)
  PROVE  \E g : Folded(next, base, f, g, SUBSET S)
<1> DEFINE pick == FirstChoices(S)
<1>1. Picks(pick, S) /\ \A s \in SUBSET S : pick[s] = Chosen(s)
  BY ChoicesPick
<1> HIDE DEF pick
<1>2. PICK g : PickFolded(next, base, f, pick, g, SUBSET S)
  BY <1>1, PickFoldExists
<1>3. \A s \in SUBSET S : PickStep(next, base, f, pick, g, s) = FoldStep(next, base, f, g, s)
  BY <1>1 DEF PickStep, FoldStep
<1>4. Folded(next, base, f, g, SUBSET S)
  BY <1>2, <1>3 DEF PickFolded, Folded
<1> QED
  BY <1>4

-----------------------------------------------------------------------------
(* Sums of integers.                                                       *)

(* The empty sum.                                                         *)
LEMMA SumOfNothing ==
  ASSUME NEW f
  PROVE  SumFunctionOnSet(f, {}) = 0
BY SumChosen, FS_EmptySet

(* A sum of integers is an integer.                                       *)
LEMMA SumIsInt ==
  ASSUME NEW f, NEW S, IsFiniteSet(S), \A x \in S : f[x] \in Int
  PROVE  SumFunctionOnSet(f, S) \in Int
<1> DEFINE P == {n \in Nat : \A T \in SUBSET S : Cardinality(T) = n => SumFunctionOnSet(f, T) \in Int}
<1>0. \A T \in SUBSET S : IsFiniteSet(T) /\ Cardinality(T) \in Nat
  BY FS_Subset, FS_CardinalityType
<1>1. 0 \in P
  BY <1>0, SumOfNothing, FS_EmptySet
<1>2. \A n \in Nat : n \in P => n + 1 \in P
  <2> SUFFICES ASSUME NEW n \in Nat, n \in P, NEW T \in SUBSET S, Cardinality(T) = n + 1
               PROVE  SumFunctionOnSet(f, T) \in Int
    OBVIOUS
  <2>1. T # {}
    BY FS_EmptySet
  <2>2. T \ {Chosen(T)} \in SUBSET S /\ Cardinality(T \ {Chosen(T)}) = n
    <3>1. Chosen(T) \in T
      BY <2>1, ChosenIsElement
    <3> HIDE DEF P
    <3> QED
      BY <1>0, <3>1, WithoutOne
  <2>3. SumFunctionOnSet(f, T \ {Chosen(T)}) \in Int
    BY <2>2
  <2>4. f[Chosen(T)] \in Int
    BY <2>1, ChosenIsElement
  <2> QED
    BY <1>0, <2>1, <2>3, <2>4, SumChosen
<1> HIDE DEF P
<1>3. Nat \subseteq P
  BY <1>1, <1>2, NatSetInduction
<1> QED
  BY <1>0, <1>3 DEF P

(* Any element can be taken out of a sum.                                  *)
LEMMA SumWithout ==
  ASSUME NEW f, NEW S, IsFiniteSet(S), \A x \in S : f[x] \in Int, NEW e \in S
  PROVE  SumFunctionOnSet(f, S) = f[e] + SumFunctionOnSet(f, S \ {e})
<1> DEFINE P == {n \in Nat : \A T \in SUBSET S : \A x \in T : Cardinality(T) = n =>
                   SumFunctionOnSet(f, T) = f[x] + SumFunctionOnSet(f, T \ {x})}
<1>0. \A T \in SUBSET S : IsFiniteSet(T) /\ Cardinality(T) \in Nat
  BY FS_Subset, FS_CardinalityType
<1>1. 0 \in P
  BY <1>0, FS_EmptySet
<1>2. \A n \in Nat : n \in P => n + 1 \in P
  <2> SUFFICES ASSUME NEW n \in Nat, n \in P,
                      NEW T \in SUBSET S, NEW x \in T, Cardinality(T) = n + 1
               PROVE  SumFunctionOnSet(f, T) = f[x] + SumFunctionOnSet(f, T \ {x})
    OBVIOUS
  <2> DEFINE c == Chosen(T)
  <2>1. c \in T
    BY ChosenIsElement
  <2> HIDE DEF c
  <2>2. SumFunctionOnSet(f, T) = f[c] + SumFunctionOnSet(f, T \ {c})
    BY <1>0, SumChosen DEF c
  <2>3. CASE c = x
    BY <2>2, <2>3
  <2>4. CASE c # x
    <3> DEFINE R == T \ {c, x}
    <3>1. T \ {c} \in SUBSET S /\ x \in T \ {c} /\ Cardinality(T \ {c}) = n /\ (T \ {c}) \ {x} = R
      <4>1. T \ {c} \in SUBSET S /\ Cardinality(T \ {c}) = Cardinality(T) - 1
        BY <2>1, WithoutOne
      <4> HIDE DEF P
      <4> QED
        BY <4>1, <2>4
    <3>2. T \ {x} \in SUBSET S /\ c \in T \ {x} /\ Cardinality(T \ {x}) = n /\ (T \ {x}) \ {c} = R
      <4>1. T \ {x} \in SUBSET S /\ Cardinality(T \ {x}) = Cardinality(T) - 1
        BY WithoutOne
      <4> HIDE DEF P
      <4> QED
        BY <4>1, <2>1, <2>4
    <3>3. SumFunctionOnSet(f, T \ {c}) = f[x] + SumFunctionOnSet(f, R)
      BY <3>1
    <3>4. SumFunctionOnSet(f, T \ {x}) = f[c] + SumFunctionOnSet(f, R)
      BY <3>2
    <3>5. f[x] \in Int /\ f[c] \in Int /\ SumFunctionOnSet(f, R) \in Int
      <4>1. R \in SUBSET S
        OBVIOUS
      <4>2. SumFunctionOnSet(f, R) \in Int
        BY <1>0, <4>1, SumIsInt
      <4> QED
        BY <2>1, <4>2
    <3> HIDE DEF R
    <3> QED
      BY <2>2, <3>3, <3>4, <3>5
  <2> QED
    BY <2>3, <2>4
<1> HIDE DEF P
<1>3. Nat \subseteq P
  BY <1>1, <1>2, NatSetInduction
<1> QED
  BY <1>0, <1>3 DEF P

(* A sum with one more summand.                                           *)
LEMMA SumWith ==
  ASSUME NEW f, NEW S, IsFiniteSet(S), NEW e, e \notin S, \A x \in S \cup {e} : f[x] \in Int
  PROVE  SumFunctionOnSet(f, S \cup {e}) = f[e] + SumFunctionOnSet(f, S)
<1>1. IsFiniteSet(S \cup {e}) /\ (S \cup {e}) \ {e} = S
  BY FS_AddElement
<1> QED
  BY <1>1, SumWithout

(* What agrees on all elements has the same sum.                           *)
LEMMA SumIsDetermined ==
  ASSUME NEW f, NEW g, NEW S, IsFiniteSet(S), \A x \in S : f[x] \in Int /\ f[x] = g[x]
  PROVE  SumFunctionOnSet(f, S) = SumFunctionOnSet(g, S)
<1> DEFINE P == {T \in SUBSET S : SumFunctionOnSet(f, T) = SumFunctionOnSet(g, T)}
<1>1. {} \in P
  BY SumOfNothing
<1>2. \A T \in SUBSET S : \A x \in S \ T : T \in P => T \cup {x} \in P
  <2> SUFFICES ASSUME NEW T \in SUBSET S, NEW x \in S \ T, T \in P PROVE T \cup {x} \in P
    OBVIOUS
  <2>1. IsFiniteSet(T)
    BY FS_Subset
  <2>2. SumFunctionOnSet(f, T \cup {x}) = f[x] + SumFunctionOnSet(f, T)
    BY <2>1, SumWith
  <2>3. SumFunctionOnSet(g, T \cup {x}) = g[x] + SumFunctionOnSet(g, T)
    BY <2>1, SumWith
  <2> QED
    BY <2>2, <2>3
<1> HIDE DEF P
<1>3. S \in P
  BY <1>1, <1>2, FiniteSetInduction
<1> QED
  BY <1>3 DEF P

(* Summing two functions at once.                                         *)
LEMMA SumOfSums ==
  ASSUME NEW f, NEW g, NEW h, NEW S, IsFiniteSet(S),
         \A x \in S : f[x] \in Int /\ g[x] \in Int /\ h[x] = f[x] + g[x]
  PROVE  SumFunctionOnSet(h, S) = SumFunctionOnSet(f, S) + SumFunctionOnSet(g, S)
<1> DEFINE P == {T \in SUBSET S :
                   SumFunctionOnSet(h, T) = SumFunctionOnSet(f, T) + SumFunctionOnSet(g, T)}
<1>1. {} \in P
  BY SumOfNothing
<1>2. \A T \in SUBSET S : \A x \in S \ T : T \in P => T \cup {x} \in P
  <2> SUFFICES ASSUME NEW T \in SUBSET S, NEW x \in S \ T, T \in P PROVE T \cup {x} \in P
    OBVIOUS
  <2>1. IsFiniteSet(T)
    BY FS_Subset
  <2>2. /\ SumFunctionOnSet(f, T \cup {x}) = f[x] + SumFunctionOnSet(f, T)
        /\ SumFunctionOnSet(g, T \cup {x}) = g[x] + SumFunctionOnSet(g, T)
    BY <2>1, SumWith
  <2>3. SumFunctionOnSet(h, T \cup {x}) = h[x] + SumFunctionOnSet(h, T)
    <3>1. \A y \in T \cup {x} : h[y] \in Int
      OBVIOUS
    <3> HIDE DEF P
    <3> QED
      BY <2>1, <3>1, SumWith
  <2>4. SumFunctionOnSet(f, T) \in Int /\ SumFunctionOnSet(g, T) \in Int
    BY <2>1, SumIsInt
  <2> QED
    BY <2>2, <2>3, <2>4
<1> HIDE DEF P
<1>3. S \in P
  BY <1>1, <1>2, FiniteSetInduction
<1> QED
  BY <1>3 DEF P

(* Larger summands have no smaller sum.                                   *)
LEMMA SumIsMonotonic ==
  ASSUME NEW f, NEW g, NEW S, IsFiniteSet(S),
         \A x \in S : f[x] \in Int /\ g[x] \in Int /\ f[x] <= g[x]
  PROVE  SumFunctionOnSet(f, S) <= SumFunctionOnSet(g, S)
<1> DEFINE P == {T \in SUBSET S : SumFunctionOnSet(f, T) <= SumFunctionOnSet(g, T)}
<1>1. {} \in P
  BY SumOfNothing
<1>2. \A T \in SUBSET S : \A x \in S \ T : T \in P => T \cup {x} \in P
  <2> SUFFICES ASSUME NEW T \in SUBSET S, NEW x \in S \ T, T \in P PROVE T \cup {x} \in P
    OBVIOUS
  <2>1. IsFiniteSet(T)
    BY FS_Subset
  <2>2. /\ SumFunctionOnSet(f, T \cup {x}) = f[x] + SumFunctionOnSet(f, T)
        /\ SumFunctionOnSet(g, T \cup {x}) = g[x] + SumFunctionOnSet(g, T)
    BY <2>1, SumWith
  <2>3. SumFunctionOnSet(f, T) \in Int /\ SumFunctionOnSet(g, T) \in Int
    BY <2>1, SumIsInt
  <2> QED
    BY <2>2, <2>3
<1> HIDE DEF P
<1>3. S \in P
  BY <1>1, <1>2, FiniteSetInduction
<1> QED
  BY <1>3 DEF P

(* A sum of natural numbers is one.                                       *)
LEMMA SumIsNat ==
  ASSUME NEW f, NEW S, IsFiniteSet(S), \A x \in S : f[x] \in Nat
  PROVE  SumFunctionOnSet(f, S) \in Nat
<1> DEFINE P == {T \in SUBSET S : SumFunctionOnSet(f, T) \in Nat}
<1>1. {} \in P
  BY SumOfNothing
<1>2. \A T \in SUBSET S : \A x \in S \ T : T \in P => T \cup {x} \in P
  <2> SUFFICES ASSUME NEW T \in SUBSET S, NEW x \in S \ T, T \in P PROVE T \cup {x} \in P
    OBVIOUS
  <2>1. IsFiniteSet(T)
    BY FS_Subset
  <2>2. SumFunctionOnSet(f, T \cup {x}) = f[x] + SumFunctionOnSet(f, T)
    BY <2>1, SumWith
  <2> QED
    BY <2>2
<1> HIDE DEF P
<1>3. S \in P
  BY <1>1, <1>2, FiniteSetInduction
<1> QED
  BY <1>3 DEF P

(* The elements of a finite set, counted by the parts it is made of.       *)
Parted(part, S, X) ==
  /\ \A s, t \in S : s # t => part[s] \cap part[t] = {}
  /\ \A x : x \in X <=> \E s \in S : x \in part[s]

(* What consists of finitely many finite parts is finite.                 *)
LEMMA PartsAreFinite ==
  ASSUME NEW S, IsFiniteSet(S), NEW X, NEW part, Parted(part, S, X), \A s \in S : IsFiniteSet(part[s])
  PROVE  IsFiniteSet(X)
<1> DEFINE Of(T) == UNION {part[s] : s \in T}
           P == {T \in SUBSET S : IsFiniteSet(Of(T))}
<1>1. {} \in P
  <2>1. Of({}) = {}
    OBVIOUS
  <2> HIDE DEF Of
  <2> QED
    BY <2>1, FS_EmptySet
<1>2. \A T \in SUBSET S : \A x \in S \ T : T \in P => T \cup {x} \in P
  <2> SUFFICES ASSUME NEW T \in SUBSET S, NEW x \in S \ T, T \in P PROVE T \cup {x} \in P
    OBVIOUS
  <2>1. Of(T \cup {x}) = Of(T) \cup part[x]
    OBVIOUS
  <2>2. IsFiniteSet(Of(T)) /\ IsFiniteSet(part[x]) /\ T \cup {x} \in SUBSET S
    OBVIOUS
  <2> HIDE DEF Of
  <2>3. IsFiniteSet(Of(T) \cup part[x])
    BY <2>2, FS_Union
  <2> QED
    BY <2>1, <2>2, <2>3
<1>3. S \in P
  <2> HIDE DEF P
  <2> QED
    BY <1>1, <1>2, FiniteSetInduction
<1>4. Of(S) = X
  BY DEF Parted
<1> QED
  BY <1>3, <1>4

(* The sizes of its parts sum up to the size of a set.                    *)
LEMMA SumOfParts ==
  ASSUME NEW f, NEW S, IsFiniteSet(S), NEW X, IsFiniteSet(X), NEW part, Parted(part, S, X),
         \A s \in S : f[s] = Cardinality(part[s])
  PROVE  /\ \A s \in S : f[s] \in Nat
         /\ SumFunctionOnSet(f, S) = Cardinality(X)
<1> DEFINE Of(T) == UNION {part[s] : s \in T}
           P == {T \in SUBSET S : SumFunctionOnSet(f, T) = Cardinality(Of(T))}
<1> USE DEF Parted
<1>a. Of(S) = X
  OBVIOUS
<1>0. \A T \in SUBSET S : IsFiniteSet(Of(T)) /\ Cardinality(Of(T)) \in Nat
  <2> TAKE T \in SUBSET S
  <2>1. Of(T) \in SUBSET X
    OBVIOUS
  <2> HIDE DEF Of
  <2> QED
    BY <2>1, FS_Subset, FS_CardinalityType
<1>b. \A s \in S : IsFiniteSet(part[s]) /\ f[s] \in Nat
  <2> TAKE s \in S
  <2>1. part[s] \in SUBSET X
    OBVIOUS
  <2>2. IsFiniteSet(part[s])
    BY <2>1, FS_Subset
  <2> QED
    BY <2>2, FS_CardinalityType
<1>1. {} \in P
  <2>1. Of({}) = {}
    OBVIOUS
  <2> QED
    BY <2>1, SumOfNothing, FS_EmptySet
<1>2. \A T \in SUBSET S : \A x \in S \ T : T \in P => T \cup {x} \in P
  <2> SUFFICES ASSUME NEW T \in SUBSET S, NEW x \in S \ T, T \in P PROVE T \cup {x} \in P
    OBVIOUS
  <2>1. IsFiniteSet(T)
    BY FS_Subset
  <2>2. SumFunctionOnSet(f, T \cup {x}) = f[x] + SumFunctionOnSet(f, T)
    BY <2>1, <1>b, SumWith
  <2>3. Of(T \cup {x}) = Of(T) \cup part[x] /\ Of(T) \cap part[x] = {}
    OBVIOUS
  <2>4. SumFunctionOnSet(f, T) = Cardinality(Of(T))
    OBVIOUS
  <2> HIDE DEF Of
  <2>5. Cardinality(Of(T \cup {x})) = Cardinality(Of(T)) + Cardinality(part[x])
    BY <1>0, <1>b, <2>3, DisjointUnion
  <2> QED
    BY <1>0, <1>b, <2>2, <2>4, <2>5
<1>3. S \in P
  <2> HIDE DEF P
  <2> QED
    BY <1>1, <1>2, FiniteSetInduction
<1> QED
  BY <1>a, <1>b, <1>3

(* The sum with one summand.                                              *)
LEMMA SumOfOne ==
  ASSUME NEW f, NEW e, f[e] \in Int
  PROVE  SumFunctionOnSet(f, {e}) = f[e]
<1>1. SumFunctionOnSet(f, {} \cup {e}) = f[e] + SumFunctionOnSet(f, {})
  BY FS_EmptySet, SumWith
<1> QED
  BY <1>1, SumOfNothing

(* A sum over two sets without a common element.                          *)
LEMMA SumOfDisjointUnion ==
  ASSUME NEW f, NEW S, NEW T, IsFiniteSet(S), IsFiniteSet(T), S \cap T = {},
         \A x \in S \cup T : f[x] \in Int
  PROVE  SumFunctionOnSet(f, S \cup T) = SumFunctionOnSet(f, S) + SumFunctionOnSet(f, T)
<1> DEFINE P == {U \in SUBSET T : SumFunctionOnSet(f, S \cup U) = SumFunctionOnSet(f, S) + SumFunctionOnSet(f, U)}
<1>0. SumFunctionOnSet(f, S) \in Int
  BY SumIsInt
<1>1. {} \in P
  <2>1. S \cup {} = S
    OBVIOUS
  <2> QED
    BY <1>0, <2>1, SumOfNothing
<1>2. \A U \in SUBSET T : \A x \in T \ U : U \in P => U \cup {x} \in P
  <2> SUFFICES ASSUME NEW U \in SUBSET T, NEW x \in T \ U, U \in P PROVE U \cup {x} \in P
    OBVIOUS
  <2>1. IsFiniteSet(U) /\ IsFiniteSet(S \cup U)
    BY FS_Subset, FS_Union
  <2>2. SumFunctionOnSet(f, U \cup {x}) = f[x] + SumFunctionOnSet(f, U)
    BY <2>1, SumWith
  <2>3. SumFunctionOnSet(f, (S \cup U) \cup {x}) = f[x] + SumFunctionOnSet(f, S \cup U)
    BY <2>1, SumWith
  <2>4. SumFunctionOnSet(f, U) \in Int /\ f[x] \in Int
    BY <2>1, SumIsInt
  <2>5. SumFunctionOnSet(f, (S \cup U) \cup {x}) = SumFunctionOnSet(f, S \cup (U \cup {x}))
    <3>1. (S \cup U) \cup {x} = S \cup (U \cup {x})
      OBVIOUS
    <3> QED
      BY <3>1, Zenon
  <2> QED
    BY <1>0, <2>2, <2>3, <2>4, <2>5
<1>3. T \in P
  <2> HIDE DEF P
  <2> QED
    BY <1>1, <1>2, FiniteSetInduction
<1> QED
  BY <1>3

(* A sum is modular.                                                       *)
LEMMA SumOfUnion ==
  ASSUME NEW f, NEW S, NEW T, IsFiniteSet(S), IsFiniteSet(T), \A x \in S \cup T : f[x] \in Int
  PROVE  SumFunctionOnSet(f, S \cup T) + SumFunctionOnSet(f, S \cap T)
           = SumFunctionOnSet(f, S) + SumFunctionOnSet(f, T)
<1> DEFINE rest == T \ S
           both == S \cap T
<1>1. IsFiniteSet(rest) /\ IsFiniteSet(both)
  BY FS_Subset
<1>2. S \cup T = S \cup rest /\ S \cap rest = {} /\ T = rest \cup both /\ rest \cap both = {}
  OBVIOUS
<1>3. (\A x \in S \cup rest : f[x] \in Int) /\ (\A x \in rest \cup both : f[x] \in Int)
  OBVIOUS
<1> HIDE DEF rest
<1>4. SumFunctionOnSet(f, S \cup rest) = SumFunctionOnSet(f, S) + SumFunctionOnSet(f, rest)
  BY <1>1, <1>2, <1>3, SumOfDisjointUnion
<1>5. SumFunctionOnSet(f, rest \cup both) = SumFunctionOnSet(f, rest) + SumFunctionOnSet(f, both)
  BY <1>1, <1>2, <1>3, SumOfDisjointUnion
<1>6. /\ SumFunctionOnSet(f, S) \in Int
      /\ SumFunctionOnSet(f, rest) \in Int
      /\ SumFunctionOnSet(f, both) \in Int
  BY <1>1, <1>3, SumIsInt
<1>7. /\ SumFunctionOnSet(f, S \cup T) = SumFunctionOnSet(f, S \cup rest)
      /\ SumFunctionOnSet(f, T) = SumFunctionOnSet(f, rest \cup both)
  BY <1>2, Zenon
<1> QED
  BY <1>4, <1>5, <1>6, <1>7

(* Fewer natural numbers have no larger sum.                              *)
LEMMA SumOfPart ==
  ASSUME NEW f, NEW S, IsFiniteSet(S), \A x \in S : f[x] \in Nat, NEW T \in SUBSET S
  PROVE  SumFunctionOnSet(f, T) <= SumFunctionOnSet(f, S)
<1> DEFINE rest == S \ T
<1>1. IsFiniteSet(T) /\ IsFiniteSet(rest)
  BY FS_Subset
<1>2. T \cup rest = S /\ T \cap rest = {}
  OBVIOUS
<1>3. (\A x \in T : f[x] \in Nat) /\ (\A x \in rest : f[x] \in Nat) /\ (\A x \in T \cup rest : f[x] \in Int)
  OBVIOUS
<1> HIDE DEF rest
<1>4. SumFunctionOnSet(f, T) \in Nat /\ SumFunctionOnSet(f, rest) \in Nat
  BY <1>1, <1>3, SumIsNat
<1>5. SumFunctionOnSet(f, T \cup rest) = SumFunctionOnSet(f, T) + SumFunctionOnSet(f, rest)
  BY <1>1, <1>2, <1>3, SumOfDisjointUnion
<1>6. SumFunctionOnSet(f, S) = SumFunctionOnSet(f, T \cup rest)
  BY <1>2, Zenon
<1> QED
  BY <1>4, <1>5, <1>6

(* A sum is the sum of the sums over parts.                                *)
LEMMA SumOfPartialSums ==
  ASSUME NEW f, NEW X, IsFiniteSet(X), \A x \in X : f[x] \in Int,
         NEW g, NEW S, IsFiniteSet(S), NEW part, Parted(part, S, X),
         \A s \in S : g[s] = SumFunctionOnSet(f, part[s])
  PROVE  SumFunctionOnSet(g, S) = SumFunctionOnSet(f, X)
<1> USE DEF Parted
<1> DEFINE Of(T) == UNION {part[s] : s \in T}
           P == {T \in SUBSET S : SumFunctionOnSet(g, T) = SumFunctionOnSet(f, Of(T))}
<1>a. Of(S) = X
  OBVIOUS
<1>0. \A T \in SUBSET S : IsFiniteSet(Of(T)) /\ (\A x \in Of(T) : f[x] \in Int)
  <2> TAKE T \in SUBSET S
  <2>1. Of(T) \in SUBSET X
    OBVIOUS
  <2> HIDE DEF Of
  <2> QED
    BY <2>1, FS_Subset
<1>b. \A s \in S : /\ IsFiniteSet(part[s]) /\ (\A x \in part[s] : f[x] \in Int)
                    /\ g[s] \in Int
  <2> TAKE s \in S
  <2>1. part[s] \in SUBSET X
    OBVIOUS
  <2>2. IsFiniteSet(part[s])
    BY <2>1, FS_Subset
  <2> QED
    BY <2>1, <2>2, SumIsInt
<1>1. {} \in P
  <2>1. Of({}) = {}
    OBVIOUS
  <2> QED
    BY <2>1, SumOfNothing
<1>2. \A T \in SUBSET S : \A x \in S \ T : T \in P => T \cup {x} \in P
  <2> SUFFICES ASSUME NEW T \in SUBSET S, NEW x \in S \ T, T \in P PROVE T \cup {x} \in P
    OBVIOUS
  <2>1. IsFiniteSet(T)
    BY FS_Subset
  <2>2. SumFunctionOnSet(g, T \cup {x}) = g[x] + SumFunctionOnSet(g, T)
    BY <2>1, <1>b, SumWith
  <2>3. Of(T \cup {x}) = Of(T) \cup part[x] /\ Of(T) \cap part[x] = {}
    OBVIOUS
  <2>4. SumFunctionOnSet(g, T) = SumFunctionOnSet(f, Of(T))
    OBVIOUS
  <2>a. T \cup {x} \in SUBSET S
    OBVIOUS
  <2> HIDE DEF Of
  <2>5. SumFunctionOnSet(f, Of(T) \cup part[x]) = SumFunctionOnSet(f, Of(T)) + SumFunctionOnSet(f, part[x])
    <3>1. \A y \in Of(T) \cup part[x] : f[y] \in Int
      BY <1>0, <1>b
    <3> QED
      BY <1>0, <1>b, <2>3, <3>1, SumOfDisjointUnion
  <2>6. SumFunctionOnSet(f, Of(T \cup {x})) = SumFunctionOnSet(f, Of(T) \cup part[x])
    BY <2>3, Zenon
  <2>7. SumFunctionOnSet(f, Of(T)) \in Int
    BY <1>0, SumIsInt
  <2> QED
    BY <1>b, <2>2, <2>4, <2>5, <2>6, <2>7, <2>a
<1>3. S \in P
  <2> HIDE DEF P
  <2> QED
    BY <1>1, <1>2, FiniteSetInduction
<1>4. SumFunctionOnSet(f, Of(S)) = SumFunctionOnSet(f, X)
  BY <1>a, Zenon
<1> QED
  BY <1>3, <1>4

(* A sum whose summands are numbered otherwise.                            *)
LEMMA SumReindexed ==
  ASSUME NEW f, NEW S, IsFiniteSet(S), NEW g, NEW T, NEW h,
         \A x \in S : h[x] \in T, \A x, y \in S : h[x] = h[y] => x = y,
         \A y \in T : \E x \in S : h[x] = y,
         \A x \in S : f[x] \in Int /\ g[h[x]] = f[x]
  PROVE  /\ IsFiniteSet(T) /\ \A y \in T : g[y] \in Int
         /\ SumFunctionOnSet(f, S) = SumFunctionOnSet(g, T)
<1>1. IsFiniteSet(T)
  <2> DEFINE k == [x \in S |-> h[x]]
  <2>1. k \in Surjection(S, T)
    BY DEF Surjection
  <2> HIDE DEF k
  <2> QED
    BY <2>1, FS_Surjection
<1>2. \A y \in T : g[y] \in Int
  OBVIOUS
<1> DEFINE part == [y \in T |-> {x \in S : h[x] = y}]
<1>3. Parted(part, T, S)
  BY DEF Parted
<1>4. \A y \in T : g[y] = SumFunctionOnSet(f, part[y])
  <2> TAKE y \in T
  <2>1. PICK x \in S : h[x] = y
    OBVIOUS
  <2>2. part[y] = {x}
    BY <2>1
  <2>3. SumFunctionOnSet(f, {x}) = f[x]
    BY SumOfOne
  <2> QED
    BY <2>1, <2>2, <2>3
<1> HIDE DEF part
<1>5. SumFunctionOnSet(g, T) = SumFunctionOnSet(f, S)
  BY <1>1, <1>3, <1>4, SumOfPartialSums
<1> QED
  BY <1>1, <1>2, <1>5

(* Summands that are all the same.                                        *)
LEMMA SumOfConstant ==
  ASSUME NEW f, NEW S, IsFiniteSet(S), NEW k \in Int, \A x \in S : f[x] = k
  PROVE  SumFunctionOnSet(f, S) = k * Cardinality(S)
<1> DEFINE P == {T \in SUBSET S : SumFunctionOnSet(f, T) = k * Cardinality(T)}
<1>1. {} \in P
  BY SumOfNothing, FS_EmptySet
<1>2. \A T \in SUBSET S : \A x \in S \ T : T \in P => T \cup {x} \in P
  <2> SUFFICES ASSUME NEW T \in SUBSET S, NEW x \in S \ T, T \in P PROVE T \cup {x} \in P
    OBVIOUS
  <2>1. IsFiniteSet(T) /\ Cardinality(T) \in Nat
    BY FS_Subset, FS_CardinalityType
  <2>2. SumFunctionOnSet(f, T \cup {x}) = k + SumFunctionOnSet(f, T)
    BY <2>1, SumWith
  <2>3. Cardinality(T \cup {x}) = Cardinality(T) + 1
    BY <2>1, OneMore
  <2>4. k * (Cardinality(T) + 1) = k * Cardinality(T) + k
    BY <2>1
  <2>5. k * Cardinality(T) \in Int
    BY <2>1
  <2>6. SumFunctionOnSet(f, T) = k * Cardinality(T)
    OBVIOUS
  <2> QED
    BY <2>2, <2>3, <2>4, <2>5, <2>6
<1> HIDE DEF P
<1>3. S \in P
  BY <1>1, <1>2, FiniteSetInduction
<1> QED
  BY <1>3 DEF P

(* A common factor of the summands.                                       *)
LEMMA SumOfMultiples ==
  ASSUME NEW f, NEW g, NEW S, IsFiniteSet(S), NEW k \in Int,
         \A x \in S : f[x] \in Int /\ g[x] = k * f[x]
  PROVE  SumFunctionOnSet(g, S) = k * SumFunctionOnSet(f, S)
<1> DEFINE P == {T \in SUBSET S : SumFunctionOnSet(g, T) = k * SumFunctionOnSet(f, T)}
<1>1. {} \in P
  BY SumOfNothing
<1>2. \A T \in SUBSET S : \A x \in S \ T : T \in P => T \cup {x} \in P
  <2> SUFFICES ASSUME NEW T \in SUBSET S, NEW x \in S \ T, T \in P PROVE T \cup {x} \in P
    OBVIOUS
  <2>1. IsFiniteSet(T) /\ g[x] \in Int
    BY FS_Subset
  <2>2. SumFunctionOnSet(f, T \cup {x}) = f[x] + SumFunctionOnSet(f, T)
    BY <2>1, SumWith
  <2>3. SumFunctionOnSet(g, T \cup {x}) = g[x] + SumFunctionOnSet(g, T)
    <3>1. \A y \in T \cup {x} : g[y] \in Int
      OBVIOUS
    <3> HIDE DEF P
    <3> QED
      BY <2>1, <3>1, SumWith
  <2>4. SumFunctionOnSet(f, T) \in Int /\ f[x] \in Int
    BY <2>1, SumIsInt
  <2>5. k * (f[x] + SumFunctionOnSet(f, T)) = k * f[x] + k * SumFunctionOnSet(f, T)
    BY <2>4
  <2>6. SumFunctionOnSet(g, T) = k * SumFunctionOnSet(f, T) /\ g[x] = k * f[x]
    OBVIOUS
  <2> QED
    BY <2>2, <2>3, <2>5, <2>6
<1> HIDE DEF P
<1>3. S \in P
  BY <1>1, <1>2, FiniteSetInduction
<1> QED
  BY <1>3 DEF P

(* A table of numbers, added up by rows or by columns.                     *)
ColumnAt(m, S, t) == [s \in S |-> m[s][t]]
ColumnSums(m, S, U, T) == [t \in T |-> SumFunctionOnSet(ColumnAt(m, S, t), U)]

(* Both ways the sum is the same.                                          *)
LEMMA RowsAndColumns ==
  ASSUME NEW S, IsFiniteSet(S), NEW T, IsFiniteSet(T), NEW m, \A s \in S : \A t \in T : m[s][t] \in Int,
         NEW rows, \A s \in S : rows[s] = SumFunctionOnSet(m[s], T)
  PROVE  SumFunctionOnSet(rows, S) = SumFunctionOnSet(ColumnSums(m, S, S, T), T)
<1> DEFINE P == {U \in SUBSET S : SumFunctionOnSet(rows, U) = SumFunctionOnSet(ColumnSums(m, S, U, T), T)}
<1>0. \A s \in S : rows[s] \in Int
  BY SumIsInt
<1>1. {} \in P
  <2> DEFINE z == ColumnSums(m, S, {}, T)
  <2>1. \A t \in T : z[t] = 0
    BY SumOfNothing DEF ColumnSums
  <2> HIDE DEF z
  <2>2. SumFunctionOnSet(z, T) = 0 * Cardinality(T)
    BY <2>1, SumOfConstant
  <2>3. Cardinality(T) \in Nat
    BY FS_CardinalityType
  <2>4. SumFunctionOnSet(z, T) = 0
    BY <2>2, <2>3
  <2> QED
    BY <2>4, SumOfNothing DEF z
<1>2. \A U \in SUBSET S : \A x \in S \ U : U \in P => U \cup {x} \in P
  <2> SUFFICES ASSUME NEW U \in SUBSET S, NEW x \in S \ U, U \in P PROVE U \cup {x} \in P
    OBVIOUS
  <2>1. IsFiniteSet(U)
    BY FS_Subset
  <2>2. SumFunctionOnSet(rows, U \cup {x}) = rows[x] + SumFunctionOnSet(rows, U)
    BY <1>0, <2>1, SumWith
  <2> DEFINE f == m[x]
             g == ColumnSums(m, S, U, T)
             h == ColumnSums(m, S, U \cup {x}, T)
  <2>3. \A t \in T : f[t] \in Int /\ g[t] \in Int /\ h[t] = f[t] + g[t]
    <3> TAKE t \in T
    <3>1. \A s \in S : ColumnAt(m, S, t)[s] = m[s][t] /\ ColumnAt(m, S, t)[s] \in Int
      BY DEF ColumnAt
    <3>2. /\ SumFunctionOnSet(ColumnAt(m, S, t), U \cup {x}) = ColumnAt(m, S, t)[x] + SumFunctionOnSet(ColumnAt(m, S, t), U)
          /\ SumFunctionOnSet(ColumnAt(m, S, t), U) \in Int
      BY <2>1, <3>1, SumWith, SumIsInt
    <3> QED
      BY <3>1, <3>2 DEF ColumnSums
  <2>4. SumFunctionOnSet(h, T) = SumFunctionOnSet(f, T) + SumFunctionOnSet(g, T)
    <3> HIDE DEF f, g, h
    <3> QED
      BY <2>3, SumOfSums
  <2> QED
    BY <2>2, <2>4
<1> HIDE DEF P
<1>3. S \in P
  BY <1>1, <1>2, FiniteSetInduction
<1> QED
  BY <1>3 DEF P

(* Of several numbers one is no less than their average.                   *)
LEMMA SomeReachTheAverage ==
  ASSUME NEW f, NEW S, IsFiniteSet(S), S # {}, \A x \in S : f[x] \in Int,
         NEW k \in Int, k * Cardinality(S) <= SumFunctionOnSet(f, S)
  PROVE  \E x \in S : k <= f[x]
<1> SUFFICES ASSUME \A x \in S : f[x] < k PROVE FALSE
  OBVIOUS
<1> DEFINE g == [x \in S |-> k - 1]
<1>1. \A x \in S : g[x] = k - 1 /\ g[x] \in Int /\ f[x] <= g[x]
  OBVIOUS
<1>2. k - 1 \in Int
  OBVIOUS
<1> HIDE DEF g
<1>3. SumFunctionOnSet(g, S) = (k - 1) * Cardinality(S)
  BY <1>1, <1>2, SumOfConstant
<1>4. SumFunctionOnSet(f, S) <= SumFunctionOnSet(g, S)
  BY <1>1, SumIsMonotonic
<1>5. Cardinality(S) \in Nat /\ Cardinality(S) # 0
  BY FS_CardinalityType, FS_EmptySet
<1>6. (k - 1) * Cardinality(S) = k * Cardinality(S) - Cardinality(S)
  BY <1>5
<1>7. SumFunctionOnSet(f, S) \in Int /\ k * Cardinality(S) \in Int
  BY <1>5, SumIsInt
<1> QED
  BY <1>3, <1>4, <1>5, <1>6, <1>7

===============================================================================
