---------------------------- MODULE EvaluationProofs ----------------------------
(***************************************************************************)
(* Redundancy for all requirements and resources: nothing is used twice,   *)
(* there is no more redundancy than resources allow for and some if they   *)
(* allow for any, and both matchers tell the same.  The analyser for all   *)
(* samples: energies add up, and requirements reach the agents.            *)
(***************************************************************************)
EXTENDS MCEvaluation, FiniteSums, SequenceTheorems

(* The sums of the matchers are the library's.                            *)
LEMMA SumOverIsSum ==
  ASSUME NEW f, NEW S
  PROVE  SumOver(f, S) = SumFunctionOnSet(f, S)
BY DEF SumOver, SumFunctionOnSet

-----------------------------------------------------------------------------
(* The types, and that sorting keeps the requirements.                     *)
RedundancyTypeOK ==
  /\ given \in Cases
  /\ available \in SUBSET given.instances
  /\ redundancy \in Nat
  /\ assigned \in [DOMAIN required -> [Names(given.instances) -> Nat]]
  /\ pc = "fit" =>
       /\ DOMAIN models \subseteq Nat
       /\ \A k \in DOMAIN models : models[k] \in DOMAIN required

(* What CasesAreReal says of the case given.                              *)
LEMMA CaseFacts ==
  ASSUME given \in Cases
  PROVE  /\ IsFiniteSet(DOMAIN required) /\ NotAssigned \notin DOMAIN required
         /\ \A r \in DOMAIN required : required[r].min \in Nat /\ (required[r].min > 0 => required[r].max > 0)
         /\ IsFiniteSet(given.instances)
         /\ \A i, j \in given.instances : i.name = j.name => i.model = j.model
BY CasesAreReal DEF CaseAssumption, required

(* The part that gets a resource in a pass over what is left              *)
(* (Redundancy.cpp) is a requirement.                                     *)
LEMMA FirstFittingIsRequired ==
  ASSUME RedundancyTypeOK, pc = "fit", NEW i, Fitting(i) # {}
  PROVE  FirstFitting(i) \in DOMAIN required
<1>1. Fitting(i) \subseteq Nat /\ Fitting(i) \subseteq DOMAIN models
  BY DEF RedundancyTypeOK, Fitting
<1>2. \E k \in Fitting(i) : \A j \in Fitting(i) : k <= j
  BY <1>1, LeastExists
<1>3. (CHOOSE k \in Fitting(i) : \A j \in Fitting(i) : k <= j) \in Fitting(i)
  BY <1>2
<1> QED
  BY <1>1, <1>3 DEF RedundancyTypeOK, FirstFitting

(* The loops start with nothing assigned.                                 *)
LEMMA TypeInit ==
  ASSUME Init PROVE RedundancyTypeOK
BY DEF Init, RedundancyTypeOK, required

(* Every step of the loops keeps the types.                               *)
LEMMA TypeStep ==
  ASSUME RedundancyTypeOK, [Next]_vars
  PROVE  RedundancyTypeOK'
<1> USE DEF RedundancyTypeOK
<1>0. IsFiniteSet(given.instances)
  BY CaseFacts
<1>1. CASE Solve
  <2>1. PICK f \in Matches(given.o, required, available) :
          assigned' = With(f) /\ available' \in LeftAfter(available, f)
    BY <1>1 DEF Solve
  <2>2. available' \in SUBSET available
    BY <2>1 DEF LeftAfter
  <2>3. given' = given /\ redundancy' = redundancy + 1 /\ pc = "solve" /\ pc' = pc
    BY <1>1 DEF Solve
  <2>4. required' = required
    BY <2>3 DEF required
  <2>5. assigned' \in [DOMAIN required -> [Names(given.instances) -> Nat]]
    <3>1. \A r, n : Cardinality({i \in available : i.name = n /\ f[i] = r}) \in Nat
      <4> TAKE r, n
      <4>1. IsFiniteSet({i \in available : i.name = n /\ f[i] = r})
        BY <1>0, FS_Subset
      <4> QED
        BY <4>1, FS_CardinalityType
    <3>2. \A r \in DOMAIN required : DOMAIN assigned[r] = Names(given.instances)
      OBVIOUS
    <3>3. \A r \in DOMAIN required : \A n \in Names(given.instances) :
            assigned[r][n] + Cardinality({i \in available : i.name = n /\ f[i] = r}) \in Nat
      <4> TAKE r \in DOMAIN required
      <4> TAKE n \in Names(given.instances)
      <4>1. assigned[r][n] \in Nat
        OBVIOUS
      <4>2. Cardinality({i \in available : i.name = n /\ f[i] = r}) \in Nat
        BY <3>1
      <4> HIDE DEF RedundancyTypeOK
      <4> QED
        BY <4>1, <4>2
    <3> QED
      BY <2>1, <3>2, <3>3 DEF With
  <2> QED
    BY <2>2, <2>3, <2>4, <2>5
<1>2. CASE SolveHalf
  BY <1>2 DEF SolveHalf, required
<1>3. CASE NoMatch
  BY <1>3 DEF NoMatch, required
<1>4. CASE SortModels
  <2>1. PICK q \in Orders!SetToSeqs(DOMAIN required) : models' = q
    BY <1>4 DEF SortModels
  <2>2. \E n : q \in [1 .. n -> DOMAIN required]
    BY DEF Orders!SetToSeqs
  <2>3. DOMAIN q \subseteq Nat /\ \A k \in DOMAIN q : q[k] \in DOMAIN required
    BY <2>2
  <2> QED
    BY <1>4, <2>1, <2>3 DEF SortModels, required
<1>5. CASE Fit
  <2>1. PICK i \in available :
          /\ available' = available \ {i}
          /\ IF Fitting(i) # {}
             THEN assigned' = [assigned EXCEPT ![FirstFitting(i)][i.name] = @ + 1]
             ELSE UNCHANGED assigned
    BY <1>5 DEF Fit
  <2>2. assigned' \in [DOMAIN required -> [Names(given.instances) -> Nat]]
    <3>1. i.name \in Names(given.instances)
      BY DEF Names
    <3>2. CASE Fitting(i) # {}
      <4>1. FirstFitting(i) \in DOMAIN required
        BY <1>5, <3>2, FirstFittingIsRequired DEF Fit
      <4>2. assigned' = [assigned EXCEPT ![FirstFitting(i)][i.name] = @ + 1]
        BY <2>1, <3>2
      <4> QED
        BY <3>1, <4>1, <4>2
    <3>3. CASE Fitting(i) = {}
      BY <2>1, <3>3
    <3> QED
      BY <3>2, <3>3
  <2> QED
    BY <1>5, <2>1, <2>2 DEF Fit, required
<1>6. CASE NextRound
  BY <1>6 DEF NextRound, required
<1>7. CASE UNCHANGED vars
  BY <1>7 DEF vars, required
<1> QED
  BY <1>1, <1>2, <1>3, <1>4, <1>5, <1>6, <1>7 DEF Next

(* Redundancies and counts of assigned resources are natural numbers,     *)
(* what is available was given, and sorting the parts loses none of them. *)
THEOREM TypeCorrect == Spec => []RedundancyTypeOK
<1>1. Init => RedundancyTypeOK
  BY TypeInit
<1>2. RedundancyTypeOK /\ [Next]_vars => RedundancyTypeOK'
  BY TypeStep
<1> QED
  BY <1>1, <1>2, PTL DEF Spec

-----------------------------------------------------------------------------
(* Nothing is used twice.  Solve moves as many instances of a name from    *)
(* those available to the requirements as the match has used; Fit moves at *)
(* most the one it takes.                                                  *)

Used(instances, f) == {i \in instances : f[i] # NotAssigned}
Part(f, r, n) == {i \in available : i.name = n /\ f[i] = r}
Column(table, n) == [r \in DOMAIN required |-> table[r][n]]

(* Instances that share a name can be counted.                            *)
LEMMA CountedByName ==
  ASSUME RedundancyTypeOK, NEW n, NEW S \in SUBSET given.instances
  PROVE  IsFiniteSet(Named(S, n)) /\ Cardinality(Named(S, n)) \in Nat
<1>1. IsFiniteSet(given.instances)
  BY CaseFacts DEF RedundancyTypeOK
<1>2. Named(S, n) \in SUBSET given.instances
  BY DEF Named
<1>3. IsFiniteSet(Named(S, n))
  BY <1>1, <1>2, FS_Subset
<1> QED
  BY <1>3, FS_CardinalityType

(* What a match assigns of a name, to all requirements.                    *)
LEMMA MatchedByName ==
  ASSUME RedundancyTypeOK, NEW f \in Matches(given.o, required, available), NEW n,
         NEW c, \A r \in DOMAIN required : c[r] = Cardinality(Part(f, r, n))
  PROVE  /\ \A r \in DOMAIN required : c[r] \in Nat
         /\ SumFunctionOnSet(c, DOMAIN required) = Cardinality(Named(Used(available, f), n))
<1>0. /\ IsFiniteSet(DOMAIN required) /\ NotAssigned \notin DOMAIN required
      /\ IsFiniteSet(Named(available, n))
  BY CaseFacts, CountedByName DEF RedundancyTypeOK
<1>1. f \in [available -> DOMAIN required \cup {NotAssigned}]
  BY DEF Matches
<1> DEFINE part == [r \in DOMAIN required |-> Part(f, r, n)]
<1>2. \A x : x \in Named(Used(available, f), n) <=> \E r \in DOMAIN required : x \in part[r]
  BY <1>0, <1>1 DEF Named, Used, Part
<1>3. \A r, s \in DOMAIN required : r # s => part[r] \cap part[s] = {}
  BY DEF Part
<1>4. \A r \in DOMAIN required : c[r] = Cardinality(part[r])
  OBVIOUS
<1>5. IsFiniteSet(Named(Used(available, f), n))
  BY CountedByName DEF Used, RedundancyTypeOK
<1> HIDE DEF part
<1>6. Parted(part, DOMAIN required, Named(Used(available, f), n))
  BY <1>2, <1>3 DEF Parted
<1> QED
  BY <1>0, <1>4, <1>5, <1>6, SumOfParts

(* What is left of a name.                                                 *)
LEMMA LeftByName ==
  ASSUME RedundancyTypeOK, NEW f \in Matches(given.o, required, available),
         NEW left \in LeftAfter(available, f), NEW n
  PROVE  Cardinality(Named(left, n)) + Cardinality(Named(Used(available, f), n)) = Cardinality(Named(available, n))
<1>0. left \in SUBSET available /\ Used(available, f) \in SUBSET available
  BY DEF LeftAfter, Used
<1>1. /\ Cardinality(Named(left, n)) \in Nat
      /\ Cardinality(Named(Used(available, f), n)) \in Nat
      /\ Cardinality(Named(available, n)) \in Nat
  BY <1>0, CountedByName DEF RedundancyTypeOK
<1>2. CASE \E i \in available : i.name = n
  BY <1>1, <1>2 DEF LeftAfter, Used
<1>3. CASE ~ \E i \in available : i.name = n
  <2>1. Named(left, n) = {} /\ Named(Used(available, f), n) = {} /\ Named(available, n) = {}
    BY <1>0, <1>3 DEF Named
  <2> QED
    BY <2>1, FS_EmptySet
<1> QED
  BY <1>2, <1>3

(* A match counts as often for a name as instances of it are removed, and *)
(* so does a resource that strengthens a part; no step else changes       *)
(* either.                                                                *)
LEMMA NothingIsUsedTwiceStep ==
  ASSUME RedundancyTypeOK, RedundancyTypeOK', NothingIsUsedTwice, [Next]_vars
  PROVE  NothingIsUsedTwice'
<1>0. /\ given' = given /\ required' = required
      /\ IsFiniteSet(DOMAIN required)
  <2>1. given' = given
    BY DEF Next, Solve, SolveHalf, NoMatch, SortModels, Fit, NextRound, vars
  <2> QED
    BY <2>1, CaseFacts DEF required, RedundancyTypeOK
<1> SUFFICES ASSUME NEW n \in Names(given.instances)
             PROVE  SumFunctionOnSet(Column(assigned', n), DOMAIN required) + Cardinality(Named(available', n))
                      <= Cardinality(Named(given.instances, n))
  BY <1>0, SumOverIsSum DEF NothingIsUsedTwice, Column
<1> DEFINE before == Column(assigned, n)
           after == Column(assigned', n)
<1>1. SumFunctionOnSet(before, DOMAIN required) + Cardinality(Named(available, n))
        <= Cardinality(Named(given.instances, n))
  BY SumOverIsSum DEF NothingIsUsedTwice, Column
<1>2. /\ Cardinality(Named(available, n)) \in Nat
      /\ Cardinality(Named(given.instances, n)) \in Nat
      /\ Cardinality(Named(available', n)) \in Nat
  <2>1. available \in SUBSET given.instances /\ available' \in SUBSET given.instances
    BY <1>0 DEF RedundancyTypeOK
  <2> QED
    BY <2>1, CountedByName
<1>3. \A r \in DOMAIN required : before[r] \in Nat /\ after[r] \in Nat
  <2>1. /\ assigned \in [DOMAIN required -> [Names(given.instances) -> Nat]]
        /\ assigned' \in [DOMAIN required -> [Names(given.instances) -> Nat]]
    BY <1>0 DEF RedundancyTypeOK
  <2> QED
    BY <2>1 DEF Column
<1>4. /\ SumFunctionOnSet(before, DOMAIN required) \in Int
      /\ SumFunctionOnSet(after, DOMAIN required) \in Int
  <2> HIDE DEF before, after
  <2> QED
    BY <1>0, <1>3, SumIsInt
<1>5. CASE Solve
  <2>1. PICK f \in Matches(given.o, required, available) :
          assigned' = With(f) /\ available' \in LeftAfter(available, f)
    BY <1>5 DEF Solve
  <2> DEFINE c == [r \in DOMAIN required |-> Cardinality(Part(f, r, n))]
  <2>2. /\ \A r \in DOMAIN required : c[r] \in Nat
        /\ SumFunctionOnSet(c, DOMAIN required) = Cardinality(Named(Used(available, f), n))
    BY MatchedByName
  <2>3. \A r \in DOMAIN required : after[r] = before[r] + c[r]
    <3> TAKE r \in DOMAIN required
    <3>1. n \in DOMAIN assigned[r]
      BY DEF RedundancyTypeOK
    <3>2. assigned'[r][n] = assigned[r][n] + c[r]
      BY <2>1, <3>1 DEF With, Part
    <3> QED
      BY <3>2 DEF Column
  <2>4. Cardinality(Named(available', n)) + Cardinality(Named(Used(available, f), n)) = Cardinality(Named(available, n))
    BY <2>1, LeftByName
  <2>5. Cardinality(Named(Used(available, f), n)) \in Nat
    BY CountedByName DEF RedundancyTypeOK, Used
  <2> HIDE DEF before, after, c
  <2>6. SumFunctionOnSet(after, DOMAIN required)
          = SumFunctionOnSet(before, DOMAIN required) + SumFunctionOnSet(c, DOMAIN required)
    BY <1>0, <1>3, <2>2, <2>3, SumOfSums
  <2> QED
    BY <1>1, <1>2, <1>4, <2>2, <2>4, <2>5, <2>6 DEF after
<1>6. CASE Fit
  <2>1. PICK i \in available :
          /\ available' = available \ {i}
          /\ IF Fitting(i) # {}
             THEN assigned' = [assigned EXCEPT ![FirstFitting(i)][i.name] = @ + 1]
             ELSE UNCHANGED assigned
    BY <1>6 DEF Fit
  <2>2. CASE Fitting(i) # {} /\ i.name = n
    <3> DEFINE r == FirstFitting(i)
    <3>1. r \in DOMAIN required
      BY <1>6, <2>2, FirstFittingIsRequired DEF Fit
    <3> HIDE DEF r
    <3>2. assigned' = [assigned EXCEPT ![r][n] = @ + 1]
      BY <2>1, <2>2 DEF r
    <3>3. after[r] = before[r] + 1 /\ \A s \in DOMAIN required \ {r} : after[s] = before[s]
      BY <3>1, <3>2 DEF Column, RedundancyTypeOK
    <3>4. Named(available', n) = Named(available, n) \ {i} /\ i \in Named(available, n)
      BY <2>1, <2>2 DEF Named
    <3>5. Cardinality(Named(available', n)) = Cardinality(Named(available, n)) - 1
      <4>1. IsFiniteSet(Named(available, n))
        BY CountedByName DEF RedundancyTypeOK
      <4> HIDE DEF before, after
      <4> QED
        BY <3>4, <4>1, FS_RemoveElement
    <3> HIDE DEF before, after
    <3>6. /\ SumFunctionOnSet(after, DOMAIN required) = after[r] + SumFunctionOnSet(after, DOMAIN required \ {r})
          /\ SumFunctionOnSet(before, DOMAIN required) = before[r] + SumFunctionOnSet(before, DOMAIN required \ {r})
      BY <1>0, <1>3, <3>1, SumWithout
    <3>7. IsFiniteSet(DOMAIN required \ {r})
      BY <1>0, FS_Subset
    <3>8. SumFunctionOnSet(before, DOMAIN required \ {r}) = SumFunctionOnSet(after, DOMAIN required \ {r})
      BY <3>7, <1>3, <3>3, SumIsDetermined
    <3>9. SumFunctionOnSet(before, DOMAIN required \ {r}) \in Int
      BY <3>7, <1>3, SumIsInt
    <3> QED
      BY <1>1, <1>2, <1>3, <1>4, <3>1, <3>3, <3>5, <3>6, <3>8, <3>9 DEF after
  <2>3. CASE Fitting(i) = {} \/ i.name # n
    <3>1. \A s \in DOMAIN required : after[s] = before[s]
      BY <2>1, <2>3 DEF Column, RedundancyTypeOK
    <3>2. Named(available', n) \in SUBSET Named(available, n)
      BY <2>1 DEF Named
    <3>3. Cardinality(Named(available', n)) <= Cardinality(Named(available, n))
      BY <3>2, CountedByName, FS_Subset DEF RedundancyTypeOK
    <3> HIDE DEF before, after
    <3>4. SumFunctionOnSet(before, DOMAIN required) = SumFunctionOnSet(after, DOMAIN required)
      BY <1>0, <1>3, <3>1, SumIsDetermined
    <3> QED
      BY <1>1, <1>2, <1>4, <3>3, <3>4 DEF after
  <2> QED
    BY <2>2, <2>3
<1>7. CASE UNCHANGED <<available, assigned>>
  BY <1>1, <1>7
<1> QED
  BY <1>5, <1>6, <1>7 DEF Next, SolveHalf, NoMatch, SortModels, NextRound, vars

(* What NothingIsUsedTwice says of every requirement, of every resource   *)
(* and of every way to match: removal by names keeps the books.           *)
THEOREM NothingUsedTwice == Spec => []NothingIsUsedTwice
<1>1. Init => NothingIsUsedTwice
  <2> SUFFICES ASSUME Init, NEW n \in Names(given.instances)
               PROVE  SumFunctionOnSet(Column(assigned, n), DOMAIN required) + Cardinality(Named(available, n))
                        <= Cardinality(Named(given.instances, n))
    BY SumOverIsSum DEF NothingIsUsedTwice, Column
  <2>1. RedundancyTypeOK
    BY TypeInit
  <2>2. IsFiniteSet(DOMAIN required)
    BY <2>1, CaseFacts DEF RedundancyTypeOK
  <2> DEFINE c == Column(assigned, n)
             none == [r \in DOMAIN required |-> {}]
  <2>3. \A r \in DOMAIN required : c[r] = 0
    BY DEF Column, Init, required
  <2>4. SumFunctionOnSet(c, DOMAIN required) = 0
    <3>1. Parted(none, DOMAIN required, {})
      BY DEF Parted
    <3>2. \A r \in DOMAIN required : c[r] = Cardinality(none[r])
      BY <2>3, FS_EmptySet
    <3> HIDE DEF c, none
    <3> QED
      BY <2>2, <3>1, <3>2, FS_EmptySet, SumOfParts
  <2>5. available = given.instances
    BY DEF Init
  <2>6. Cardinality(Named(available, n)) \in Nat
    BY <2>1, CountedByName DEF RedundancyTypeOK
  <2> QED
    BY <2>4, <2>5, <2>6
<1>2. RedundancyTypeOK /\ RedundancyTypeOK' /\ NothingIsUsedTwice /\ [Next]_vars => NothingIsUsedTwice'
  BY NothingIsUsedTwiceStep
<1> QED
  BY <1>1, <1>2, TypeCorrect, PTL DEF Spec

-----------------------------------------------------------------------------
(* Hall's theorem, with a demand for each member of R: if every group finds*)
(* as much around it as it demands, all demands can be met at once.  Among *)
(* the relations that keep this condition a minimal one relates each member*)
(* of I to one of R only (Rado).                                           *)

Around(E, I, G) == {i \in I : \E r \in G : <<r, i>> \in E}
Satisfied(d, R, I, E) ==
  \A G \in SUBSET R : SumFunctionOnSet(d, G) <= Cardinality(Around(E, I, G))
GivenTo(f, I, r) == {i \in I : f[i] = r}

(* The instances a group of requirements may get can be counted.          *)
LEMMA AroundIsFinite ==
  ASSUME NEW I, IsFiniteSet(I), NEW E, NEW G
  PROVE  IsFiniteSet(Around(E, I, G)) /\ Cardinality(Around(E, I, G)) \in Nat
<1>1. Around(E, I, G) \in SUBSET I
  BY DEF Around
<1> QED
  BY <1>1, FS_Subset, FS_CardinalityType

(* What fails without an edge is a group for which the edge is the only one*)
(* to its end.                                                             *)
LEMMA NeededEdge ==
  ASSUME NEW R, IsFiniteSet(R), NEW I, IsFiniteSet(I), NEW d, \A r \in R : d[r] \in Nat,
         NEW E, Satisfied(d, R, I, E), NEW r \in R, NEW i \in I, <<r, i>> \in E,
         NEW F, F = E \ {<<r, i>>}, ~ Satisfied(d, R, I, F)
  PROVE  \E G \in SUBSET R :
           /\ r \in G /\ \A s \in G : s # r => <<s, i>> \notin E
           /\ Cardinality(Around(F, I, G)) < SumFunctionOnSet(d, G)
<1>1. PICK G \in SUBSET R : ~ (SumFunctionOnSet(d, G) <= Cardinality(Around(F, I, G)))
  BY DEF Satisfied
<1>2. SumFunctionOnSet(d, G) \in Int
  BY FS_Subset, SumIsInt
<1>3. Cardinality(Around(F, I, G)) < SumFunctionOnSet(d, G)
  BY <1>1, <1>2, AroundIsFinite
<1>4. Around(F, I, G) # Around(E, I, G)
  BY <1>1 DEF Satisfied
<1>5. r \in G /\ \A s \in G : s # r => <<s, i>> \notin E
  BY <1>4 DEF Around
<1> QED
  BY <1>3, <1>5

(* Where no pair can be missed, no instance is of use for two             *)
(* requirements: each of the two pairs is in a group that needs all it    *)
(* has (NeededEdge), and the groups would together have too little.       *)
LEMMA MinimalIsMatching ==
  ASSUME NEW R, IsFiniteSet(R), NEW I, IsFiniteSet(I), NEW d, \A r \in R : d[r] \in Nat,
         NEW E \in SUBSET (R \X I), Satisfied(d, R, I, E),
         \A F \in SUBSET E : Satisfied(d, R, I, F) => F = E,
         NEW i \in I, NEW r \in R, NEW s \in R, <<r, i>> \in E, <<s, i>> \in E
  PROVE  r = s
<1> SUFFICES ASSUME r # s PROVE FALSE
  OBVIOUS
<1> DEFINE E1 == E \ {<<r, i>>}
           E2 == E \ {<<s, i>>}
<1>1. ~ Satisfied(d, R, I, E1) /\ ~ Satisfied(d, R, I, E2)
  BY DEF Satisfied
<1>2. PICK G \in SUBSET R :
        /\ r \in G /\ \A t \in G : t # r => <<t, i>> \notin E
        /\ Cardinality(Around(E1, I, G)) < SumFunctionOnSet(d, G)
  BY <1>1, NeededEdge
<1>3. PICK H \in SUBSET R :
        /\ s \in H /\ \A t \in H : t # s => <<t, i>> \notin E
        /\ Cardinality(Around(E2, I, H)) < SumFunctionOnSet(d, H)
  BY <1>1, NeededEdge
<1> DEFINE A == Around(E1, I, G)
           B == Around(E2, I, H)
<1>4. r \notin H /\ s \notin G
  BY <1>2, <1>3
<1>5. Around(E, I, G \cup H) \in SUBSET (A \cup B \cup {i})
  BY DEF Around
<1>6. Around(E, I, G \cap H) \in SUBSET (A \cap B)
  <2> SUFFICES ASSUME NEW j \in I, NEW t \in G \cap H, <<t, j>> \in E PROVE j \in A /\ j \in B
    BY DEF Around
  <2>1. t # r /\ t # s
    BY <1>4
  <2>2. <<t, j>> \in E1 /\ <<t, j>> \in E2
    BY <2>1
  <2> HIDE DEF E1, E2
  <2> QED
    BY <2>2 DEF Around
<1>7. /\ IsFiniteSet(G) /\ IsFiniteSet(H)
      /\ SumFunctionOnSet(d, G \cup H) + SumFunctionOnSet(d, G \cap H)
           = SumFunctionOnSet(d, G) + SumFunctionOnSet(d, H)
  BY FS_Subset, SumOfUnion
<1>8. /\ SumFunctionOnSet(d, G) \in Int /\ SumFunctionOnSet(d, H) \in Int
      /\ SumFunctionOnSet(d, G \cup H) \in Int /\ SumFunctionOnSet(d, G \cap H) \in Int
  <2>1. IsFiniteSet(G \cup H) /\ IsFiniteSet(G \cap H)
    BY <1>7, FS_Union, FS_Subset
  <2> QED
    BY <1>7, <2>1, SumIsInt
<1>9. /\ SumFunctionOnSet(d, G \cup H) <= Cardinality(Around(E, I, G \cup H))
      /\ SumFunctionOnSet(d, G \cap H) <= Cardinality(Around(E, I, G \cap H))
  BY DEF Satisfied
<1> HIDE DEF E1, E2
<1>10. /\ IsFiniteSet(A) /\ Cardinality(A) \in Nat
       /\ IsFiniteSet(B) /\ Cardinality(B) \in Nat
       /\ Cardinality(Around(E, I, G \cup H)) \in Nat
       /\ Cardinality(Around(E, I, G \cap H)) \in Nat
  BY AroundIsFinite
<1>11. Cardinality(A) < SumFunctionOnSet(d, G) /\ Cardinality(B) < SumFunctionOnSet(d, H)
  BY <1>2, <1>3
<1> HIDE DEF A, B
<1>12. /\ IsFiniteSet(A \cup B) /\ IsFiniteSet(A \cap B)
       /\ Cardinality(A \cup B) = Cardinality(A) + Cardinality(B) - Cardinality(A \cap B)
       /\ Cardinality(A \cup B) \in Nat /\ Cardinality(A \cap B) \in Nat
  <2>1. IsFiniteSet(A \cup B) /\ IsFiniteSet(A \cap B)
    BY <1>10, FS_Union, FS_Subset
  <2>2. Cardinality(A \cup B) = Cardinality(A) + Cardinality(B) - Cardinality(A \cap B)
    BY <1>10, FS_Union
  <2> QED
    BY <2>1, <2>2, FS_CardinalityType
<1>13. Cardinality(Around(E, I, G \cup H)) <= Cardinality(A \cup B) + 1
  <2>1. IsFiniteSet((A \cup B) \cup {i}) /\ Cardinality((A \cup B) \cup {i}) <= Cardinality(A \cup B) + 1
    <3> DEFINE U == A \cup B
    <3>1. IsFiniteSet(U) /\ Cardinality(U) \in Nat
      BY <1>12
    <3> HIDE DEF U
    <3>2. IsFiniteSet(U \cup {i}) /\ Cardinality(U \cup {i}) <= Cardinality(U) + 1
      BY <3>1, WithOneMore
    <3> QED
      BY <3>2 DEF U
  <2>2. Cardinality(Around(E, I, G \cup H)) <= Cardinality((A \cup B) \cup {i})
    BY <1>5, <2>1, FS_Subset
  <2>3. Cardinality((A \cup B) \cup {i}) \in Nat
    BY <2>1, FS_CardinalityType
  <2> QED
    BY <1>10, <1>12, <2>1, <2>2, <2>3
<1>14. Cardinality(Around(E, I, G \cap H)) <= Cardinality(A \cap B)
  BY <1>6, <1>12, FS_Subset
<1> QED
  BY <1>7, <1>8, <1>9, <1>10, <1>11, <1>12, <1>13, <1>14

(* Hall's theorem with multiplicities: if every group of requirements has *)
(* as many instances around it as it demands, all demands can be met at   *)
(* once.                                                                  *)
LEMMA Marriage ==
  ASSUME NEW R, IsFiniteSet(R), NEW I, IsFiniteSet(I), NEW d, \A r \in R : d[r] \in Nat,
         NEW E0 \in SUBSET (R \X I), Satisfied(d, R, I, E0), NEW none, none \notin R
  PROVE  \E f \in [I -> R \cup {none}] :
           /\ \A i \in I : f[i] # none => <<f[i], i>> \in E0
           /\ \A r \in R : Cardinality(GivenTo(f, I, r)) = d[r]
<1> DEFINE B == {E \in SUBSET E0 : Satisfied(d, R, I, E)}
<1>1. IsFiniteSet(E0)
  BY FS_Product, FS_Subset
<1>2. PICK E \in B : \A F \in B : F \subseteq E => F = E
  <2>1. B \subseteq SUBSET E0 /\ E0 \in B
    OBVIOUS
  <2> HIDE DEF B
  <2> QED
    BY <1>1, <2>1, MinimalPart
<1>3. \A i \in I : \A r, s \in R : <<r, i>> \in E /\ <<s, i>> \in E => r = s
  <2>1. E \in SUBSET (R \X I) /\ Satisfied(d, R, I, E)
    OBVIOUS
  <2>2. \A F \in SUBSET E : Satisfied(d, R, I, F) => F = E
    BY <1>2
  <2> HIDE DEF B
  <2> QED
    BY <2>1, <2>2, MinimalIsMatching
<1> DEFINE PartFor(r) == Around(E, I, {r})
           Chosen1(r) == CHOOSE T \in SUBSET PartFor(r) : Cardinality(T) = d[r]
<1>4. \A r \in R : Chosen1(r) \in SUBSET PartFor(r) /\ Cardinality(Chosen1(r)) = d[r]
  <2> TAKE r \in R
  <2>1. SumFunctionOnSet(d, {r}) = d[r]
    <3>1. d[r] \in Int
      OBVIOUS
    <3> QED
      BY <3>1, SumOfOne
  <2>2. SumFunctionOnSet(d, {r}) <= Cardinality(PartFor(r))
    BY DEF Satisfied
  <2>3. IsFiniteSet(PartFor(r)) /\ Cardinality(PartFor(r)) \in Nat
    BY AroundIsFinite
  <2>4. \E T \in SUBSET PartFor(r) : Cardinality(T) = d[r]
    <3> HIDE DEF PartFor
    <3> QED
      BY <2>1, <2>2, <2>3, PartOfSize
  <2> QED
    BY <2>4
<1>5. \A r \in R : \A i \in Chosen1(r) : i \in I /\ <<r, i>> \in E
  BY <1>4 DEF Around
<1> HIDE DEF Chosen1
<1> DEFINE Of(i) == {r \in R : i \in Chosen1(r)}
           f == [i \in I |-> IF Of(i) = {} THEN none ELSE CHOOSE r \in Of(i) : TRUE]
<1>6. \A i \in I : \A r \in R : f[i] = r <=> i \in Chosen1(r)
  <2> TAKE i \in I
  <2> TAKE r \in R
  <2>1. f[i] = IF Of(i) = {} THEN none ELSE CHOOSE t \in Of(i) : TRUE
    OBVIOUS
  <2>2. CASE Of(i) = {}
    BY <2>1, <2>2
  <2>3. CASE Of(i) # {}
    <3>1. f[i] \in Of(i)
      BY <2>1, <2>3
    <3> HIDE DEF f
    <3>2. i \in Chosen1(f[i]) /\ f[i] \in R
      BY <3>1
    <3> QED
      BY <1>3, <1>5, <3>2
  <2> QED
    BY <2>2, <2>3
<1>7. f \in [I -> R \cup {none}]
  OBVIOUS
<1> HIDE DEF f
<1>8. \A i \in I : f[i] # none => <<f[i], i>> \in E0
  BY <1>5, <1>6, <1>7
<1>9. \A r \in R : Cardinality(GivenTo(f, I, r)) = d[r]
  <2> TAKE r \in R
  <2>1. GivenTo(f, I, r) = Chosen1(r)
    BY <1>5, <1>6 DEF GivenTo
  <2> QED
    BY <1>4, <2>1
<1> QED
  BY <1>7, <1>8, <1>9

-----------------------------------------------------------------------------
(* Redundancy is real.                                                     *)

Minimum == [r \in DOMAIN required |-> required[r].min]
Need(G) == SumFunctionOnSet(Minimum, G)
Suppliers(S, G) == {i \in S : \E r \in G : Supplies(given.o, i.model, r)}

(* What a group of requirements needs is a natural number.                *)
LEMMA NeedIsNat ==
  ASSUME RedundancyTypeOK, NEW G \in SUBSET DOMAIN required
  PROVE  IsFiniteSet(G) /\ (\A r \in G : Minimum[r] \in Nat) /\ Need(G) \in Nat
<1>1. /\ IsFiniteSet(DOMAIN required)
      /\ \A r \in DOMAIN required : required[r].min \in Nat
  BY CaseFacts DEF RedundancyTypeOK
<1>2. IsFiniteSet(G)
  BY <1>1, FS_Subset
<1>3. \A r \in G : Minimum[r] \in Nat
  BY <1>1 DEF Minimum
<1> QED
  BY <1>2, <1>3, SumIsNat DEF Need

(* The instances that may serve a group of requirements can be counted.   *)
LEMMA SuppliersAreFinite ==
  ASSUME RedundancyTypeOK, NEW S \in SUBSET given.instances, NEW G
  PROVE  IsFiniteSet(Suppliers(S, G)) /\ Cardinality(Suppliers(S, G)) \in Nat
<1>1. IsFiniteSet(given.instances)
  BY CaseFacts DEF RedundancyTypeOK
<1>2. Suppliers(S, G) \in SUBSET given.instances
  BY DEF Suppliers
<1> QED
  BY <1>1, <1>2, FS_Subset, FS_CardinalityType

(* The condition of RedundancyIsReal, in terms of Need and Suppliers.     *)
LEMMA SufficesByNeed ==
  ASSUME RedundancyTypeOK, NEW S \in SUBSET given.instances, NEW n \in Nat
  PROVE  Suffices(given.o, required, S, n)
           <=> \A G \in SUBSET DOMAIN required : n * Need(G) <= Cardinality(Suppliers(S, G))
<1>1. \A G \in SUBSET DOMAIN required : SumOver([r \in G |-> required[r].min], G) = Need(G)
  <2> TAKE G \in SUBSET DOMAIN required
  <2> DEFINE g == [r \in G |-> required[r].min]
  <2>1. IsFiniteSet(G) /\ \A r \in G : Minimum[r] \in Int /\ Minimum[r] = g[r]
    BY NeedIsNat DEF Minimum
  <2> HIDE DEF g
  <2>2. SumFunctionOnSet(Minimum, G) = SumFunctionOnSet(g, G)
    BY <2>1, SumIsDetermined
  <2> QED
    BY <2>2, SumOverIsSum DEF Need, g
<1> QED
  BY <1>1 DEF Suffices, Suppliers

(* What a match gives to a group supplies the group, and is what it needs. *)
Taken(f, G) == {i \in available : f[i] \in G}

(* A match takes from the instances that may serve a group exactly what   *)
(* the group needs.                                                       *)
LEMMA MatchMeetsNeeds ==
  ASSUME RedundancyTypeOK, NEW f \in Matches(given.o, required, available),
         NEW G \in SUBSET DOMAIN required
  PROVE  /\ Taken(f, G) \in SUBSET Suppliers(Used(available, f), G)
         /\ Need(G) = Cardinality(Taken(f, G))
<1>0. NotAssigned \notin DOMAIN required /\ IsFiniteSet(available)
  BY CaseFacts, FS_Subset DEF RedundancyTypeOK
<1>1. Taken(f, G) \in SUBSET Suppliers(Used(available, f), G)
  BY <1>0 DEF Taken, Suppliers, Used, Matches
<1> DEFINE part == [r \in G |-> GivenTo(f, available, r)]
<1>2. Parted(part, G, Taken(f, G))
  BY DEF Parted, Taken, GivenTo
<1>3. \A r \in G : Minimum[r] = Cardinality(part[r])
  BY DEF Minimum, Matches, GivenTo
<1>4. IsFiniteSet(Taken(f, G))
  BY <1>0, FS_Subset DEF Taken
<1> HIDE DEF part
<1> QED
  BY <1>1, <1>2, <1>3, <1>4, NeedIsNat, SumOfParts DEF Need

(* Suppliers are counted by their names: of one name either all supply the *)
(* group or none.                                                          *)
SupplyingNames(G) == {n \in Names(given.instances) : \E i \in Suppliers(given.instances, G) : i.name = n}

(* The instances that may serve a group are counted name by name, as      *)
(* individuals of one name have one model.                                *)
LEMMA SuppliersByName ==
  ASSUME RedundancyTypeOK, NEW S \in SUBSET given.instances, NEW G,
         NEW c, \A n \in SupplyingNames(G) : c[n] = Cardinality(Named(S, n))
  PROVE  /\ IsFiniteSet(SupplyingNames(G))
         /\ \A n \in SupplyingNames(G) : c[n] \in Nat
         /\ SumFunctionOnSet(c, SupplyingNames(G)) = Cardinality(Suppliers(S, G))
<1>0. \A i, j \in given.instances : i.name = j.name => i.model = j.model
  BY CaseFacts DEF RedundancyTypeOK
<1>1. IsFiniteSet(SupplyingNames(G))
  <2> DEFINE f == [i \in Suppliers(given.instances, G) |-> i.name]
  <2>1. f \in Surjection(Suppliers(given.instances, G), SupplyingNames(G))
    BY DEF Surjection, SupplyingNames, Names, Suppliers
  <2>2. IsFiniteSet(Suppliers(given.instances, G))
    BY SuppliersAreFinite
  <2> QED
    BY <2>1, <2>2, FS_Surjection
<1> DEFINE part == [n \in SupplyingNames(G) |-> Named(S, n)]
<1>2. Parted(part, SupplyingNames(G), Suppliers(S, G))
  <2>1. \A m, n \in SupplyingNames(G) : m # n => part[m] \cap part[n] = {}
    BY DEF Named
  <2>2. ASSUME NEW i \in Suppliers(S, G)
        PROVE  i.name \in SupplyingNames(G) /\ i \in part[i.name]
    BY DEF Suppliers, SupplyingNames, Names, Named
  <2>3. ASSUME NEW n \in SupplyingNames(G), NEW i \in part[n]
        PROVE  i \in Suppliers(S, G)
    <3>1. PICK j \in Suppliers(given.instances, G) : j.name = n
      BY DEF SupplyingNames
    <3>2. i \in S /\ i.name = n
      BY DEF Named
    <3>3. i.model = j.model
      BY <1>0, <3>1, <3>2 DEF Suppliers
    <3> QED
      BY <3>1, <3>2, <3>3 DEF Suppliers
  <2> QED
    BY <2>1, <2>2, <2>3 DEF Parted
<1>3. \A n \in SupplyingNames(G) : c[n] = Cardinality(part[n])
  OBVIOUS
<1>4. IsFiniteSet(Suppliers(S, G))
  BY SuppliersAreFinite
<1> DEFINE I == SupplyingNames(G)
           whole == Suppliers(S, G)
<1> HIDE DEF part, I, whole
<1>5. IsFiniteSet(I) /\ IsFiniteSet(whole) /\ Parted(part, I, whole)
      /\ \A n \in I : c[n] = Cardinality(part[n])
  BY <1>1, <1>2, <1>3, <1>4 DEF I, whole
<1>6. (\A n \in I : c[n] \in Nat) /\ SumFunctionOnSet(c, I) = Cardinality(whole)
  BY <1>5, SumOfParts
<1> QED
  BY <1>1, <1>6 DEF I, whole

(* What is left to supply a group is what has not been used of it.         *)
LEMMA LeftToSupply ==
  ASSUME RedundancyTypeOK, NEW f \in Matches(given.o, required, available),
         NEW left \in LeftAfter(available, f), NEW G
  PROVE  Cardinality(Suppliers(left, G)) + Cardinality(Suppliers(Used(available, f), G))
           = Cardinality(Suppliers(available, G))
<1>0. /\ left \in SUBSET given.instances /\ Used(available, f) \in SUBSET given.instances
      /\ available \in SUBSET given.instances
  BY DEF LeftAfter, Used, RedundancyTypeOK
<1> DEFINE a == [n \in SupplyingNames(G) |-> Cardinality(Named(left, n))]
           b == [n \in SupplyingNames(G) |-> Cardinality(Named(Used(available, f), n))]
           c == [n \in SupplyingNames(G) |-> Cardinality(Named(available, n))]
<1>1. /\ \A n \in SupplyingNames(G) : a[n] = Cardinality(Named(left, n))
      /\ \A n \in SupplyingNames(G) : b[n] = Cardinality(Named(Used(available, f), n))
      /\ \A n \in SupplyingNames(G) : c[n] = Cardinality(Named(available, n))
  OBVIOUS
<1> HIDE DEF a, b, c
<1>2. /\ IsFiniteSet(SupplyingNames(G))
      /\ \A n \in SupplyingNames(G) : a[n] \in Nat
      /\ SumFunctionOnSet(a, SupplyingNames(G)) = Cardinality(Suppliers(left, G))
  BY <1>0, <1>1, SuppliersByName
<1>3. /\ \A n \in SupplyingNames(G) : b[n] \in Nat
      /\ SumFunctionOnSet(b, SupplyingNames(G)) = Cardinality(Suppliers(Used(available, f), G))
  BY <1>0, <1>1, SuppliersByName
<1>4. SumFunctionOnSet(c, SupplyingNames(G)) = Cardinality(Suppliers(available, G))
  BY <1>0, <1>1, SuppliersByName
<1>5. \A n \in SupplyingNames(G) : c[n] = a[n] + b[n]
  BY <1>1, LeftByName
<1>6. SumFunctionOnSet(c, SupplyingNames(G)) = SumFunctionOnSet(a, SupplyingNames(G)) + SumFunctionOnSet(b, SupplyingNames(G))
  <2>1. \A n \in SupplyingNames(G) : a[n] \in Int /\ b[n] \in Int /\ c[n] = a[n] + b[n]
    BY <1>2, <1>3, <1>5
  <2> QED
    BY <1>2, <2>1, SumOfSums
<1> QED
  BY <1>2, <1>3, <1>4, <1>6

(* Resources that suffice can be matched: Hall's theorem.                  *)
LEMMA MatchExists ==
  ASSUME RedundancyTypeOK, Suffices(given.o, required, available, 1)
  PROVE  Matches(given.o, required, available) # {}
<1> DEFINE R == DOMAIN required
           E == {e \in R \X available : Supplies(given.o, e[2].model, e[1])}
<1>0. /\ IsFiniteSet(R) /\ NotAssigned \notin R /\ IsFiniteSet(available)
      /\ \A r \in R : required[r].min > 0 => required[r].max > 0
  BY CaseFacts, FS_Subset DEF RedundancyTypeOK
<1>1. \A r \in R : Minimum[r] \in Nat /\ Minimum[r] = required[r].min
  BY NeedIsNat DEF Minimum
<1>2. Satisfied(Minimum, R, available, E)
  <2> SUFFICES ASSUME NEW G \in SUBSET R
               PROVE  SumFunctionOnSet(Minimum, G) <= Cardinality(Around(E, available, G))
    BY DEF Satisfied
  <2>1. 1 * Need(G) <= Cardinality(Suppliers(available, G))
    BY SufficesByNeed DEF RedundancyTypeOK
  <2>2. Around(E, available, G) = Suppliers(available, G)
    BY DEF Around, Suppliers
  <2>3. Need(G) \in Nat
    BY NeedIsNat
  <2> QED
    BY <2>1, <2>2, <2>3 DEF Need
<1>3. E \in SUBSET (R \X available)
  OBVIOUS
<1>4. \A r \in R, i \in available : <<r, i>> \in E => Supplies(given.o, i.model, r)
  OBVIOUS
<1> HIDE DEF R, E
<1>5. PICK f \in [available -> R \cup {NotAssigned}] :
        /\ \A i \in available : f[i] # NotAssigned => <<f[i], i>> \in E
        /\ \A r \in R : Cardinality(GivenTo(f, available, r)) = Minimum[r]
  BY <1>0, <1>1, <1>2, <1>3, Marriage
<1>6. \A i \in available : f[i] # NotAssigned => Supplies(given.o, i.model, f[i]) /\ required[f[i]].max > 0
  <2> SUFFICES ASSUME NEW i \in available, f[i] # NotAssigned
               PROVE  Supplies(given.o, i.model, f[i]) /\ required[f[i]].max > 0
    OBVIOUS
  <2>1. f[i] \in R /\ <<f[i], i>> \in E
    BY <1>5
  <2>2. i \in GivenTo(f, available, f[i])
    BY DEF GivenTo
  <2>3. IsFiniteSet(GivenTo(f, available, f[i]))
    BY <1>0, FS_Subset DEF GivenTo
  <2>4. Minimum[f[i]] # 0
    BY <1>5, <2>1, <2>2, <2>3, FS_EmptySet
  <2> QED
    BY <1>0, <1>1, <1>4, <2>1, <2>4
<1>7. \A r \in R : Cardinality({i \in available : f[i] = r}) = required[r].min
  BY <1>1, <1>5 DEF GivenTo
<1> QED
  BY <1>5, <1>6, <1>7 DEF Matches, R

(* While resources are assigned to all requirements, what has been assigned*)
(* and what can still supply a group do not exceed what there was for it.  *)
NeedsAreCovered ==
  pc = "solve" =>
    /\ redundancy = 0 => available = given.instances
    /\ \A G \in SUBSET DOMAIN required :
         redundancy * Need(G) + Cardinality(Suppliers(available, G)) <= Cardinality(Suppliers(given.instances, G))

(* A pass of the first loop gives each group its needs once more, and     *)
(* takes no more away from what may serve it than the instances used.     *)
LEMMA CoveredStep ==
  ASSUME RedundancyTypeOK, NEW f \in Matches(given.o, required, available),
         NeedsAreCovered, pc = "solve", NEW G \in SUBSET DOMAIN required
  PROVE  /\ (redundancy + 1) * Need(G) <= Cardinality(Suppliers(given.instances, G))
         /\ \A left \in LeftAfter(available, f) :
              (redundancy + 1) * Need(G) + Cardinality(Suppliers(left, G))
                <= Cardinality(Suppliers(given.instances, G))
<1>1. /\ Taken(f, G) \in SUBSET Suppliers(Used(available, f), G)
      /\ Need(G) = Cardinality(Taken(f, G))
  BY MatchMeetsNeeds
<1>2. /\ Used(available, f) \in SUBSET available /\ available \in SUBSET given.instances
      /\ Used(available, f) \in SUBSET given.instances
      /\ redundancy \in Nat
  BY DEF Used, RedundancyTypeOK
<1>3. /\ IsFiniteSet(Suppliers(Used(available, f), G))
      /\ Cardinality(Suppliers(Used(available, f), G)) \in Nat
      /\ IsFiniteSet(Suppliers(available, G)) /\ Cardinality(Suppliers(available, G)) \in Nat
      /\ Cardinality(Suppliers(given.instances, G)) \in Nat
  BY <1>2, SuppliersAreFinite
<1>4. Need(G) <= Cardinality(Suppliers(Used(available, f), G))
  BY <1>1, <1>3, FS_Subset
<1>5. Cardinality(Suppliers(Used(available, f), G)) <= Cardinality(Suppliers(available, G))
  <2>1. Suppliers(Used(available, f), G) \in SUBSET Suppliers(available, G)
    BY <1>2 DEF Suppliers
  <2> QED
    BY <1>3, <2>1, FS_Subset
<1>6. Need(G) \in Nat
  BY NeedIsNat
<1>7. (redundancy + 1) * Need(G) = redundancy * Need(G) + Need(G) /\ redundancy * Need(G) \in Nat
  BY <1>2, <1>6
<1>8. redundancy * Need(G) + Cardinality(Suppliers(available, G)) <= Cardinality(Suppliers(given.instances, G))
  BY DEF NeedsAreCovered
<1>9. ASSUME NEW left \in LeftAfter(available, f)
      PROVE  (redundancy + 1) * Need(G) + Cardinality(Suppliers(left, G)) <= Cardinality(Suppliers(given.instances, G))
  <2>1. left \in SUBSET given.instances
    BY <1>2 DEF LeftAfter
  <2>2. Cardinality(Suppliers(left, G)) \in Nat
    BY <2>1, SuppliersAreFinite
  <2>3. Cardinality(Suppliers(left, G)) + Cardinality(Suppliers(Used(available, f), G))
          = Cardinality(Suppliers(available, G))
    BY LeftToSupply
  <2> QED
    BY <1>3, <1>4, <1>6, <1>7, <1>8, <2>2, <2>3
<1>10. (redundancy + 1) * Need(G) <= Cardinality(Suppliers(given.instances, G))
  BY <1>3, <1>4, <1>5, <1>6, <1>7, <1>8
<1> QED
  BY <1>9, <1>10

(* Nothing has been given and everything is left.                         *)
LEMMA CoveredInit ==
  ASSUME Init, RedundancyTypeOK
  PROVE  NeedsAreCovered /\ RedundancyIsReal
<1>1. redundancy = 0 /\ available = given.instances
  BY DEF Init
<1>2. \A G \in SUBSET DOMAIN required :
        /\ redundancy * Need(G) = 0
        /\ Cardinality(Suppliers(given.instances, G)) \in Nat
  BY <1>1, NeedIsNat, SuppliersAreFinite
<1>3. NeedsAreCovered
  BY <1>1, <1>2 DEF NeedsAreCovered
<1>4. Suffices(given.o, required, given.instances, redundancy)
  BY <1>1, <1>2, SufficesByNeed
<1>5. pc = "thrown" => ~ HasMinRequirements(required)
  BY DEF Init, HasMinRequirements
<1> QED
  BY <1>3, <1>4, <1>5 DEF RedundancyIsReal

(* NeedsAreCovered is kept, and when no match is left some group of       *)
(* requirements lacks resources.                                          *)
LEMMA RedundancyIsRealStep ==
  ASSUME RedundancyTypeOK, RedundancyTypeOK', NeedsAreCovered, RedundancyIsReal, [Next]_vars
  PROVE  NeedsAreCovered' /\ RedundancyIsReal'
<1>0. given' = given /\ required' = required
  <2>1. given' = given
    BY DEF Next, Solve, SolveHalf, NoMatch, SortModels, Fit, NextRound, vars
  <2> QED
    BY <2>1 DEF required
<1>2. CASE Solve
  <2>1. PICK f \in Matches(given.o, required, available) : available' \in LeftAfter(available, f)
    BY <1>2 DEF Solve
  <2>2. pc = "solve" /\ pc' = "solve" /\ redundancy' = redundancy + 1 /\ redundancy \in Nat
    BY <1>2 DEF Solve, RedundancyTypeOK
  <2>3. \A G \in SUBSET DOMAIN required :
          /\ redundancy' * Need(G) <= Cardinality(Suppliers(given.instances, G))
          /\ redundancy' * Need(G) + Cardinality(Suppliers(available', G)) <= Cardinality(Suppliers(given.instances, G))
    BY <2>1, <2>2, CoveredStep
  <2>4. Suffices(given.o, required, given.instances, redundancy')
    BY <2>2, <2>3, SufficesByNeed
  <2>5. NeedsAreCovered'
    BY <1>0, <2>2, <2>3 DEF NeedsAreCovered, Need, Minimum, Suppliers
  <2> QED
    BY <1>0, <2>2, <2>4, <2>5 DEF RedundancyIsReal
<1>3. CASE SolveHalf
  <2>1. PICK f \in Matches(given.o, required, available) : TRUE
    BY <1>3 DEF SolveHalf
  <2>2. pc = "solve" /\ pc' = "crashed" /\ redundancy' = redundancy + 1 /\ redundancy \in Nat
    BY <1>3 DEF SolveHalf, RedundancyTypeOK
  <2>3. \A G \in SUBSET DOMAIN required : redundancy' * Need(G) <= Cardinality(Suppliers(given.instances, G))
    BY <2>1, <2>2, CoveredStep
  <2>4. Suffices(given.o, required, given.instances, redundancy')
    BY <2>2, <2>3, SufficesByNeed
  <2> QED
    BY <1>0, <2>2, <2>4 DEF RedundancyIsReal, NeedsAreCovered
<1>4. CASE NoMatch
  <2>1. /\ pc = "solve" /\ Matches(given.o, required, available) = {}
        /\ redundancy' = redundancy /\ pc' = IF redundancy = 0 THEN "thrown" ELSE "sort"
    BY <1>4 DEF NoMatch
  <2>2. redundancy = 0 => available = given.instances
    BY <2>1 DEF NeedsAreCovered
  <2>3. redundancy = 0 => ~ Suffices(given.o, required, given.instances, 1)
    BY <2>1, <2>2, MatchExists
  <2>4. Suffices(given.o, required, given.instances, redundancy)
    BY DEF RedundancyIsReal
  <2>5. RedundancyIsReal'
    BY <1>0, <2>1, <2>3, <2>4 DEF RedundancyIsReal
  <2> QED
    BY <2>1, <2>5 DEF NeedsAreCovered
<1>5. CASE SortModels \/ Fit \/ NextRound
  <2>1. /\ redundancy' = redundancy
        /\ pc' \in {"fit", "sort", "done"}
    BY <1>5 DEF SortModels, Fit, NextRound
  <2> QED
    BY <1>0, <2>1 DEF NeedsAreCovered, RedundancyIsReal
<1>6. CASE UNCHANGED vars
  <2>1. redundancy' = redundancy /\ pc' = pc /\ available' = available
    BY <1>6 DEF vars
  <2> QED
    BY <1>0, <2>1 DEF NeedsAreCovered, RedundancyIsReal, Need, Minimum, Suppliers
<1> QED
  BY <1>2, <1>3, <1>4, <1>5, <1>6 DEF Next

(* What RedundancyIsReal says of every requirement, of every resource and  *)
(* of every way to match and to sort them.                                 *)
THEOREM RedundancyReal == Spec => []RedundancyIsReal
<1>1. Init /\ RedundancyTypeOK => NeedsAreCovered /\ RedundancyIsReal
  BY CoveredInit
<1>2. RedundancyTypeOK /\ RedundancyTypeOK' /\ NeedsAreCovered /\ RedundancyIsReal /\ [Next]_vars
        => NeedsAreCovered' /\ RedundancyIsReal'
  BY RedundancyIsRealStep
<1> QED
  BY <1>1, <1>2, TypeCorrect, PTL DEF Spec

-----------------------------------------------------------------------------
(* The two matchers agree.  A match gives each cell of the other problem as*)
(* many instances as it assigns; a solution of the other problem provides  *)
(* for each group of requirements, so that Hall's theorem gives a match.   *)

Cells(avail) == {c \in (DOMAIN required) \X (DOMAIN avail) : Supplies(given.o, c[2], c[1])}
Largest(avail) == Greatest({0} \cup {avail[a].max : a \in DOMAIN avail})
RowOf(avail, r) == {c \in Cells(avail) : c[1] = r}
ColumnOf(avail, a) == {c \in Cells(avail) : c[2] = a}
CountOf(a) == {i \in available : i.model = a}
Models == {i.model : i \in available}

(* ResourceMatch::solve's constraints, with names for rows and columns.   *)
LEMMA SolutionsUnfolded ==
  ASSUME NEW avail
  PROVE  Solutions(given.o, required, avail) =
           {s \in [Cells(avail) -> 0 .. Largest(avail)] :
              /\ \A c \in Cells(avail) : s[c] <= required[c[1]].max
              /\ \A r \in DOMAIN required : SumOver(s, RowOf(avail, r)) >= required[r].min
              /\ \A a \in DOMAIN avail : SumOver(s, ColumnOf(avail, a)) <= avail[a].max}
BY DEF Solutions, Cells, Largest, RowOf, ColumnOf

Unrelated == \A a, b \in Models : ~ Below(given.o, a, b)

(* Counting the models available counts the instances of each.            *)
LEMMA CountsUnfolded ==
  ASSUME RedundancyTypeOK
  PROVE  /\ DOMAIN Counts(available) = Models
         /\ \A a \in Models : Counts(available)[a].max = Cardinality(CountOf(a))
         /\ \A a : IsFiniteSet(CountOf(a)) /\ Cardinality(CountOf(a)) \in Nat
         /\ \A a : Cardinality(CountOf(a)) <= Cardinality(available)
         /\ IsFiniteSet(available) /\ Cardinality(available) \in Nat
<1>1. IsFiniteSet(available)
  BY CaseFacts, FS_Subset DEF RedundancyTypeOK
<1>2. \A a : CountOf(a) \in SUBSET available
  BY DEF CountOf
<1>3. \A a : IsFiniteSet(CountOf(a)) /\ Cardinality(CountOf(a)) <= Cardinality(available)
  BY <1>1, <1>2, FS_Subset
<1>4. Cardinality(available) \in Nat /\ \A a : Cardinality(CountOf(a)) \in Nat
  BY <1>1, <1>3, FS_CardinalityType
<1>5. /\ DOMAIN Counts(available) = Models
      /\ \A a \in Models : Counts(available)[a].max = Cardinality(CountOf(a))
  BY DEF Counts, Models, CountOf
<1> QED
  BY <1>1, <1>3, <1>4, <1>5

(* What is not derived from anything else that is there counts for itself. *)
LEMMA AccumulatedCounts ==
  ASSUME RedundancyTypeOK, Unrelated
  PROVE  /\ DOMAIN Accumulated(given.o, Counts(available)) = Models
         /\ \A a \in Models : Accumulated(given.o, Counts(available))[a].max = Cardinality(CountOf(a))
<1> DEFINE counts == Counts(available)
<1>1. DOMAIN counts = Models /\ \A a \in Models : counts[a].max = Cardinality(CountOf(a))
  BY CountsUnfolded
<1> HIDE DEF counts
<1>2. DOMAIN Accumulated(given.o, counts) = Models
  BY <1>1 DEF Accumulated
<1>3. ASSUME NEW a \in Models
      PROVE  Accumulated(given.o, counts)[a].max = Cardinality(CountOf(a))
  <2> DEFINE counted == {a} \cup {b \in DOMAIN counts : a < b /\ Below(given.o, b, a)}
             m == [b \in counted |-> counts[b].max]
  <2>1. counted = {a}
    BY <1>1 DEF Unrelated
  <2>2. Accumulated(given.o, counts)[a].max = SumOver(m, counted)
    BY <1>1 DEF Accumulated
  <2>3. m[a] = Cardinality(CountOf(a)) /\ m[a] \in Int
    BY <1>1, CountsUnfolded
  <2> HIDE DEF m, counted
  <2>4. SumFunctionOnSet(m, {a}) = m[a]
    BY <2>3, SumOfOne
  <2>5. SumFunctionOnSet(m, counted) = SumFunctionOnSet(m, {a})
    BY <2>1, Zenon
  <2> QED
    BY <2>2, <2>3, <2>4, <2>5, SumOverIsSum
<1> QED
  BY <1>2, <1>3 DEF counts

Boundaries == \A r \in DOMAIN required : required[r].max \in Nat /\ required[r].min <= required[r].max

(* A solution has finitely many entries.                                  *)
LEMMA CellsAreFinite ==
  ASSUME RedundancyTypeOK, NEW avail, DOMAIN avail = Models
  PROVE  IsFiniteSet(Cells(avail))
<1>1. IsFiniteSet(available) /\ IsFiniteSet(DOMAIN required)
  BY CountsUnfolded, CaseFacts DEF RedundancyTypeOK
<1>2. IsFiniteSet(Models)
  <2> DEFINE f == [i \in available |-> i.model]
  <2>1. f \in Surjection(available, Models)
    BY DEF Surjection, Models
  <2> QED
    BY <1>1, <2>1, FS_Surjection
<1>3. IsFiniteSet((DOMAIN required) \X Models)
  BY <1>1, <1>2, FS_Product
<1>4. Cells(avail) \in SUBSET ((DOMAIN required) \X Models)
  BY DEF Cells
<1> QED
  BY <1>3, <1>4, FS_Subset

(* A bound on what a cell may hold.                                        *)
LEMMA LargestIsUpperBound ==
  ASSUME RedundancyTypeOK, NEW avail, DOMAIN avail = Models,
         \A a \in Models : avail[a].max = Cardinality(CountOf(a))
  PROVE  Largest(avail) \in Nat /\ \A a \in Models : avail[a].max <= Largest(avail)
<1> DEFINE S == {0} \cup {avail[a].max : a \in DOMAIN avail}
<1>1. Cardinality(available) \in Nat /\ S \subseteq 0 .. Cardinality(available) /\ 0 \in S
  BY CountsUnfolded
<1>2. \A a \in Models : avail[a].max \in S
  OBVIOUS
<1> HIDE DEF S
<1>3. Greatest(S) \in S /\ \A k \in S : k <= Greatest(S)
  BY <1>1, GreatestExists DEF Greatest
<1>4. \A a \in Models : avail[a].max <= Greatest(S)
  BY <1>2, <1>3, Zenon
<1>6. Greatest(S) \in 0 .. Cardinality(available)
  BY <1>1, <1>3, Zenon
<1>5. Largest(avail) = Greatest(S)
  BY DEF Largest, S
<1>7. Greatest(S) \in Nat
  BY <1>1, <1>6
<1> QED
  BY <1>4, <1>5, <1>7, Zenon

(* From a match to a solution: what it assigns, by requirement and model.  *)
Both(f, c) == {i \in available : f[i] = c[1] /\ i.model = c[2]}

(* Counting the models an assignment by instance uses gives an assignment *)
(* by number.                                                             *)
LEMMA MatchGivesSolution ==
  ASSUME RedundancyTypeOK, Boundaries, NEW f \in Matches(given.o, required, available),
         NEW avail, DOMAIN avail = Models, \A a \in Models : avail[a].max = Cardinality(CountOf(a))
  PROVE  Solutions(given.o, required, avail) # {}
<1> DEFINE s == [c \in Cells(avail) |-> Cardinality(Both(f, c))]
<1>0. IsFiniteSet(available) /\ NotAssigned \notin DOMAIN required
  BY CaseFacts, CountsUnfolded DEF RedundancyTypeOK
<1>1. \A r \in DOMAIN required : /\ Cardinality(GivenTo(f, available, r)) = required[r].min
                                 /\ IsFiniteSet(GivenTo(f, available, r))
  <2>1. \A r \in DOMAIN required : Cardinality(GivenTo(f, available, r)) = required[r].min
    BY DEF Matches, GivenTo
  <2>2. \A r : GivenTo(f, available, r) \in SUBSET available
    BY DEF GivenTo
  <2> QED
    BY <1>0, <2>1, <2>2, FS_Subset
<1>2. \A i \in available : f[i] \in DOMAIN required => Supplies(given.o, i.model, f[i])
  BY <1>0 DEF Matches
<1>3. \A c \in Cells(avail) : c[1] \in DOMAIN required /\ c[2] \in Models /\ c = <<c[1], c[2]>>
  BY DEF Cells
<1>4. \A c : /\ IsFiniteSet(Both(f, c)) /\ Cardinality(Both(f, c)) \in Nat
             /\ Cardinality(Both(f, c)) <= Cardinality(CountOf(c[2]))
  <2> TAKE c
  <2>1. Both(f, c) \in SUBSET CountOf(c[2])
    BY DEF Both, CountOf
  <2> QED
    BY <2>1, CountsUnfolded, FS_Subset, FS_CardinalityType
<1>5. ASSUME NEW c \in Cells(avail)
      PROVE  s[c] \in 0 .. Largest(avail) /\ s[c] <= required[c[1]].max
  <2>1. Cardinality(Both(f, c)) <= required[c[1]].max
    <3>1. Both(f, c) \in SUBSET GivenTo(f, available, c[1])
      BY DEF Both, GivenTo
    <3>2. Cardinality(Both(f, c)) <= required[c[1]].min
      BY <1>1, <1>3, <3>1, FS_Subset
    <3>3. required[c[1]].min \in Nat /\ required[c[1]].max \in Nat /\ required[c[1]].min <= required[c[1]].max
      BY <1>3, CaseFacts DEF Boundaries, RedundancyTypeOK
    <3> QED
      BY <1>4, <3>2, <3>3
  <2>2. avail[c[2]].max = Cardinality(CountOf(c[2])) /\ Cardinality(CountOf(c[2])) \in Nat
    BY <1>3, CountsUnfolded
  <2>3. Largest(avail) \in Nat /\ avail[c[2]].max <= Largest(avail)
    BY <1>3, LargestIsUpperBound
  <2> QED
    BY <1>4, <2>1, <2>2, <2>3
<1>6. ASSUME NEW r \in DOMAIN required
      PROVE  SumOver(s, RowOf(avail, r)) >= required[r].min
  <2> DEFINE part == [c \in RowOf(avail, r) |-> Both(f, c)]
  <2>1. Parted(part, RowOf(avail, r), GivenTo(f, available, r))
    <3>1. \A c, e \in RowOf(avail, r) : c # e => part[c] \cap part[e] = {}
      BY <1>3 DEF RowOf, Both
    <3>2. ASSUME NEW i \in GivenTo(f, available, r)
          PROVE  \E c \in RowOf(avail, r) : i \in part[c]
      <4>1. <<r, i.model>> \in RowOf(avail, r)
        BY <1>2 DEF RowOf, Cells, GivenTo, Models
      <4>2. i \in part[<<r, i.model>>]
        BY <4>1 DEF Both, GivenTo
      <4> QED
        BY <4>1, <4>2
    <3>3. ASSUME NEW c \in RowOf(avail, r), NEW i \in part[c]
          PROVE  i \in GivenTo(f, available, r)
      BY DEF RowOf, Both, GivenTo
    <3> QED
      BY <3>1, <3>2, <3>3 DEF Parted
  <2>2. \A c \in RowOf(avail, r) : s[c] = Cardinality(part[c])
    BY DEF RowOf
  <2>3. IsFiniteSet(RowOf(avail, r))
    BY CellsAreFinite, FS_Subset DEF RowOf
  <2> HIDE DEF part, s
  <2>4. SumFunctionOnSet(s, RowOf(avail, r)) = Cardinality(GivenTo(f, available, r))
    BY <1>1, <2>1, <2>2, <2>3, SumOfParts
  <2>5. required[r].min \in Nat
    BY CaseFacts DEF RedundancyTypeOK
  <2> QED
    BY <1>1, <2>4, <2>5, SumOverIsSum
<1>7. ASSUME NEW a \in DOMAIN avail
      PROVE  SumOver(s, ColumnOf(avail, a)) <= avail[a].max
  <2> DEFINE part == [c \in ColumnOf(avail, a) |-> Both(f, c)]
             all == {i \in CountOf(a) : f[i] \in DOMAIN required}
  <2>1. Parted(part, ColumnOf(avail, a), all)
    <3>1. \A c, e \in ColumnOf(avail, a) : c # e => part[c] \cap part[e] = {}
      BY <1>3 DEF ColumnOf, Both
    <3>2. ASSUME NEW i \in all
          PROVE  \E c \in ColumnOf(avail, a) : i \in part[c]
      <4>1. <<f[i], a>> \in ColumnOf(avail, a)
        BY <1>2 DEF ColumnOf, Cells, CountOf
      <4>2. i \in part[<<f[i], a>>]
        BY <4>1 DEF Both, CountOf
      <4> QED
        BY <4>1, <4>2
    <3>3. ASSUME NEW c \in ColumnOf(avail, a), NEW i \in part[c]
          PROVE  i \in all
      BY <1>3 DEF ColumnOf, Both, CountOf
    <3> QED
      BY <3>1, <3>2, <3>3 DEF Parted
  <2>2. \A c \in ColumnOf(avail, a) : s[c] = Cardinality(part[c])
    BY DEF ColumnOf
  <2>3. IsFiniteSet(ColumnOf(avail, a))
    BY CellsAreFinite, FS_Subset DEF ColumnOf
  <2>4. IsFiniteSet(all) /\ Cardinality(all) <= Cardinality(CountOf(a))
    <3>1. all \in SUBSET CountOf(a)
      OBVIOUS
    <3> HIDE DEF all
    <3> QED
      BY <3>1, CountsUnfolded, FS_Subset
  <2> HIDE DEF part, all, s
  <2>5. SumFunctionOnSet(s, ColumnOf(avail, a)) = Cardinality(all)
    BY <2>1, <2>2, <2>3, <2>4, SumOfParts
  <2> QED
    BY <2>4, <2>5, SumOverIsSum
<1>8. s \in [Cells(avail) -> 0 .. Largest(avail)] /\ \A c \in Cells(avail) : s[c] <= required[c[1]].max
  BY <1>5
<1> HIDE DEF s
<1>9. s \in Solutions(given.o, required, avail)
  BY <1>6, <1>7, <1>8, SolutionsUnfolded
<1> QED
  BY <1>9

(* From a solution to a match: it provides for each group of requirements  *)
(* no more than there is of the models that can supply the group.          *)
InGroup(avail, G) == {c \in Cells(avail) : c[1] \in G}
GroupColumn(avail, G, a) == {c \in InGroup(avail, G) : c[2] = a}
SupplyingModels(G) == {a \in Models : \E r \in G : Supplies(given.o, a, r)}

(* Finitely many models are available.                                    *)
LEMMA ModelsAreFinite ==
  ASSUME RedundancyTypeOK
  PROVE  IsFiniteSet(Models)
<1> DEFINE f == [i \in available |-> i.model]
<1>1. f \in Surjection(available, Models)
  BY DEF Surjection, Models
<1>2. IsFiniteSet(available)
  BY CountsUnfolded
<1> QED
  BY <1>1, <1>2, FS_Surjection

(* Rows of a solution reach the minimum, columns keep to what is          *)
(* available.                                                             *)
LEMMA SolutionFacts ==
  ASSUME RedundancyTypeOK, NEW avail, DOMAIN avail = Models,
         \A a \in Models : avail[a].max = Cardinality(CountOf(a)),
         NEW s \in Solutions(given.o, required, avail)
  PROVE  /\ DOMAIN s = Cells(avail)
         /\ \A c \in Cells(avail) : s[c] \in Nat
         /\ \A r \in DOMAIN required : SumFunctionOnSet(s, RowOf(avail, r)) >= required[r].min
         /\ \A a \in Models : SumFunctionOnSet(s, ColumnOf(avail, a)) <= Cardinality(CountOf(a))
<1>1. /\ s \in [Cells(avail) -> 0 .. Largest(avail)]
      /\ \A r \in DOMAIN required : SumOver(s, RowOf(avail, r)) >= required[r].min
      /\ \A a \in DOMAIN avail : SumOver(s, ColumnOf(avail, a)) <= avail[a].max
  BY SolutionsUnfolded
<1>2. Largest(avail) \in Nat
  BY LargestIsUpperBound
<1>3. \A c \in Cells(avail) : s[c] \in Nat
  BY <1>1, <1>2
<1>4. \A r \in DOMAIN required : SumFunctionOnSet(s, RowOf(avail, r)) >= required[r].min
  BY <1>1, SumOverIsSum
<1>5. \A a \in Models : SumFunctionOnSet(s, ColumnOf(avail, a)) <= Cardinality(CountOf(a))
  BY <1>1, SumOverIsSum
<1> QED
  BY <1>1, <1>3, <1>4, <1>5

(* The rows of a group sum up to what the group needs, at least.          *)
LEMMA GroupNeeds ==
  ASSUME RedundancyTypeOK, NEW avail, DOMAIN avail = Models,
         NEW s, \A c \in Cells(avail) : s[c] \in Nat,
         \A r \in DOMAIN required : SumFunctionOnSet(s, RowOf(avail, r)) >= required[r].min,
         NEW G \in SUBSET DOMAIN required
  PROVE  Need(G) <= SumFunctionOnSet(s, InGroup(avail, G))
<1> DEFINE row == [r \in G |-> RowOf(avail, r)]
           g == [r \in G |-> SumFunctionOnSet(s, row[r])]
<1>1. IsFiniteSet(Cells(avail)) /\ InGroup(avail, G) \in SUBSET Cells(avail)
  BY CellsAreFinite DEF InGroup
<1>2. IsFiniteSet(InGroup(avail, G)) /\ \A c \in InGroup(avail, G) : s[c] \in Int
  BY <1>1, FS_Subset
<1>3. Parted(row, G, InGroup(avail, G))
  BY DEF Parted, RowOf, InGroup
<1>4. \A r \in G : g[r] = SumFunctionOnSet(s, row[r]) /\ g[r] \in Int
  <2> TAKE r \in G
  <2>1. row[r] \in SUBSET Cells(avail)
    BY DEF RowOf
  <2>2. IsFiniteSet(row[r]) /\ \A c \in row[r] : s[c] \in Int
    BY <1>1, <2>1, FS_Subset
  <2> HIDE DEF row
  <2>3. SumFunctionOnSet(s, row[r]) \in Int
    BY <2>2, SumIsInt
  <2> QED
    BY <2>3
<1>5. \A r \in G : Minimum[r] \in Int /\ Minimum[r] <= g[r]
  <2> TAKE r \in G
  <2>1. g[r] = SumFunctionOnSet(s, RowOf(avail, r))
    OBVIOUS
  <2>2. Minimum[r] = required[r].min /\ Minimum[r] \in Nat
    BY NeedIsNat DEF Minimum
  <2> HIDE DEF g
  <2> QED
    BY <1>4, <2>1, <2>2
<1> HIDE DEF row, g
<1>6. SumFunctionOnSet(g, G) = SumFunctionOnSet(s, InGroup(avail, G))
  BY <1>2, <1>3, <1>4, NeedIsNat, SumOfPartialSums
<1>7. SumFunctionOnSet(Minimum, G) <= SumFunctionOnSet(g, G)
  BY <1>4, <1>5, NeedIsNat, SumIsMonotonic
<1> QED
  BY <1>6, <1>7 DEF Need

(* The columns of a group sum up to no more than the instances that may   *)
(* serve it.                                                              *)
LEMMA GroupGets ==
  ASSUME RedundancyTypeOK, NEW avail, DOMAIN avail = Models,
         NEW s, \A c \in Cells(avail) : s[c] \in Nat,
         \A a \in Models : SumFunctionOnSet(s, ColumnOf(avail, a)) <= Cardinality(CountOf(a)),
         NEW G \in SUBSET DOMAIN required
  PROVE  SumFunctionOnSet(s, InGroup(avail, G)) <= Cardinality(Suppliers(available, G))
<1> DEFINE M == SupplyingModels(G)
           column == [a \in M |-> GroupColumn(avail, G, a)]
           h == [a \in M |-> SumFunctionOnSet(s, column[a])]
           part == [a \in M |-> CountOf(a)]
           k == [a \in M |-> Cardinality(CountOf(a))]
<1>1. IsFiniteSet(Cells(avail)) /\ InGroup(avail, G) \in SUBSET Cells(avail)
  BY CellsAreFinite DEF InGroup
<1>2. IsFiniteSet(InGroup(avail, G)) /\ \A c \in InGroup(avail, G) : s[c] \in Int
  BY <1>1, FS_Subset
<1>3. IsFiniteSet(M) /\ M \in SUBSET Models
  <2>1. M \in SUBSET Models
    BY DEF SupplyingModels
  <2> HIDE DEF M
  <2> QED
    BY <2>1, ModelsAreFinite, FS_Subset
<1>4. Parted(column, M, InGroup(avail, G))
  BY DEF Parted, GroupColumn, InGroup, SupplyingModels, Cells
<1>5. Parted(part, M, Suppliers(available, G))
  BY DEF Parted, CountOf, Suppliers, SupplyingModels, Models
<1>6. \A a \in M : /\ h[a] = SumFunctionOnSet(s, column[a]) /\ h[a] \in Int
                   /\ h[a] <= k[a] /\ k[a] = Cardinality(part[a]) /\ k[a] \in Int
  <2> TAKE a \in M
  <2>1. /\ h[a] = SumFunctionOnSet(s, column[a]) /\ column[a] = GroupColumn(avail, G, a)
        /\ k[a] = Cardinality(CountOf(a)) /\ k[a] = Cardinality(part[a])
    OBVIOUS
  <2>2. GroupColumn(avail, G, a) \in SUBSET ColumnOf(avail, a) /\ ColumnOf(avail, a) \in SUBSET Cells(avail)
    BY DEF GroupColumn, InGroup, ColumnOf
  <2>3. /\ IsFiniteSet(ColumnOf(avail, a)) /\ \A c \in ColumnOf(avail, a) : s[c] \in Nat
        /\ IsFiniteSet(GroupColumn(avail, G, a)) /\ \A c \in GroupColumn(avail, G, a) : s[c] \in Int
    BY <1>1, <2>2, FS_Subset
  <2>4. SumFunctionOnSet(s, GroupColumn(avail, G, a)) <= SumFunctionOnSet(s, ColumnOf(avail, a))
    BY <2>2, <2>3, SumOfPart
  <2>5. SumFunctionOnSet(s, GroupColumn(avail, G, a)) \in Int /\ SumFunctionOnSet(s, ColumnOf(avail, a)) \in Int
    BY <2>3, SumIsInt
  <2>6. SumFunctionOnSet(s, ColumnOf(avail, a)) <= Cardinality(CountOf(a)) /\ Cardinality(CountOf(a)) \in Int
    BY <1>3, CountsUnfolded
  <2> HIDE DEF h, k, column, part, M
  <2> QED
    BY <2>1, <2>4, <2>5, <2>6
<1>7. IsFiniteSet(Suppliers(available, G))
  BY SuppliersAreFinite DEF RedundancyTypeOK
<1> HIDE DEF M, column, h, part, k
<1>8. SumFunctionOnSet(h, M) = SumFunctionOnSet(s, InGroup(avail, G))
  BY <1>2, <1>3, <1>4, <1>6, SumOfPartialSums
<1>9. SumFunctionOnSet(h, M) <= SumFunctionOnSet(k, M)
  BY <1>3, <1>6, SumIsMonotonic
<1>10. SumFunctionOnSet(k, M) = Cardinality(Suppliers(available, G))
  BY <1>3, <1>5, <1>6, <1>7, SumOfParts
<1> QED
  BY <1>8, <1>9, <1>10

(* Where numbers can be assigned no group lacks instances, so that        *)
(* instances can (MatchExists).                                           *)
LEMMA SolutionGivesMatch ==
  ASSUME RedundancyTypeOK, NEW avail, DOMAIN avail = Models,
         \A a \in Models : avail[a].max = Cardinality(CountOf(a)),
         NEW s \in Solutions(given.o, required, avail)
  PROVE  Matches(given.o, required, available) # {}
<1>1. /\ \A c \in Cells(avail) : s[c] \in Nat
      /\ \A r \in DOMAIN required : SumFunctionOnSet(s, RowOf(avail, r)) >= required[r].min
      /\ \A a \in Models : SumFunctionOnSet(s, ColumnOf(avail, a)) <= Cardinality(CountOf(a))
  BY SolutionFacts
<1>2. ASSUME NEW G \in SUBSET DOMAIN required
      PROVE  1 * Need(G) <= Cardinality(Suppliers(available, G))
  <2>1. Need(G) <= SumFunctionOnSet(s, InGroup(avail, G))
    BY <1>1, GroupNeeds
  <2>2. SumFunctionOnSet(s, InGroup(avail, G)) <= Cardinality(Suppliers(available, G))
    BY <1>1, GroupGets
  <2>3. SumFunctionOnSet(s, InGroup(avail, G)) \in Int
    <3>1. InGroup(avail, G) \in SUBSET Cells(avail)
      BY DEF InGroup
    <3>2. IsFiniteSet(InGroup(avail, G))
      BY <3>1, CellsAreFinite, FS_Subset
    <3> QED
      BY <1>1, <3>1, <3>2, SumIsInt
  <2>4. Need(G) \in Nat /\ Cardinality(Suppliers(available, G)) \in Nat
    BY NeedIsNat, SuppliersAreFinite DEF RedundancyTypeOK
  <2> QED
    BY <2>1, <2>2, <2>3, <2>4
<1>3. available \in SUBSET given.instances
  BY DEF RedundancyTypeOK
<1>4. Suffices(given.o, required, available, 1)
  BY <1>2, <1>3, SufficesByNeed
<1> QED
  BY <1>4, MatchExists

(* Both matchers tell the same of any state with sensible bounds.         *)
LEMMA MatchersAgreeHere ==
  ASSUME RedundancyTypeOK, Boundaries
  PROVE  MatchersAgree
<1> DEFINE counts == Counts(available)
           avail == Accumulated(given.o, counts)
<1>1. /\ DOMAIN counts = Models
      /\ \A a \in Models : counts[a].max = Cardinality(CountOf(a))
  BY CountsUnfolded
<1> SUFFICES ASSUME available # {}, \A a, b \in DOMAIN counts : ~ Below(given.o, a, b)
             PROVE  /\ IsSupportingByCount(given.o, required, counts) <=> Matches(given.o, required, available) # {}
                    /\ \A s \in Solutions(given.o, required, avail) : CanSubtract(counts, s)
  BY DEF MatchersAgree
<1>2. Unrelated
  BY <1>1 DEF Unrelated
<1>3. DOMAIN avail = Models /\ \A a \in Models : avail[a].max = Cardinality(CountOf(a))
  BY <1>2, AccumulatedCounts
<1>4. DOMAIN counts # {}
  BY <1>1 DEF Models
<1>5. IsSupportingByCount(given.o, required, counts) <=> Solutions(given.o, required, avail) # {}
  BY <1>4 DEF IsSupportingByCount
<1> HIDE DEF counts, avail
<1>6. Matches(given.o, required, available) # {} <=> Solutions(given.o, required, avail) # {}
  BY <1>3, MatchGivesSolution, SolutionGivesMatch
<1>7. ASSUME NEW s \in Solutions(given.o, required, avail)
      PROVE  CanSubtract(counts, s)
  <2>1. /\ DOMAIN s = Cells(avail)
        /\ \A a \in Models : SumFunctionOnSet(s, ColumnOf(avail, a)) <= Cardinality(CountOf(a))
    BY <1>3, SolutionFacts
  <2>2. \A a : Assigned(s, a) = SumFunctionOnSet(s, ColumnOf(avail, a))
    BY <2>1, SumOverIsSum DEF Assigned, ColumnOf
  <2> QED
    BY <1>1, <2>1, <2>2 DEF CanSubtract
<1> QED
  BY <1>5, <1>6, <1>7

(* What MatchersAgree says of all requirements whose minimum is not above  *)
(* their maximum, and of every resource.                                   *)
THEOREM MatchersAlwaysAgree ==
  ASSUME \A c \in Cases : \A r \in DOMAIN c.required :
           c.required[r].max \in Nat /\ c.required[r].min <= c.required[r].max
  PROVE  Spec => []MatchersAgree
<1>1. RedundancyTypeOK => MatchersAgree
  <2>1. RedundancyTypeOK => Boundaries
    BY DEF RedundancyTypeOK, Boundaries, required
  <2> QED
    BY <2>1, MatchersAgreeHere
<1> QED
  BY <1>1, TypeCorrect, PTL

-----------------------------------------------------------------------------
(* The positions a loop keeps, in their order.                             *)
Before(positions, i) == {j \in positions : j < i}

(* Fewer positions come before an earlier one.                             *)
LEMMA EarlierAreFewer ==
  ASSUME NEW n \in Nat, NEW P \in SUBSET (1 .. n)
  PROVE  /\ IsFiniteSet(P) /\ Cardinality(P) \in Nat
         /\ \A i \in P : Cardinality(Before(P, i)) \in 0 .. Cardinality(P) - 1
         /\ \A i, j \in P : i < j => Cardinality(Before(P, i)) < Cardinality(Before(P, j))
<1>1. IsFiniteSet(P) /\ Cardinality(P) \in Nat
  <2>1. IsFiniteSet(1 .. n)
    BY FS_Interval
  <2> QED
    BY <2>1, FS_Subset, FS_CardinalityType
<1>2. \A i : IsFiniteSet(Before(P, i)) /\ Cardinality(Before(P, i)) \in Nat
  <2> TAKE i
  <2>1. Before(P, i) \in SUBSET P
    BY DEF Before
  <2> QED
    BY <1>1, <2>1, FS_Subset, FS_CardinalityType
<1>3. ASSUME NEW S \in SUBSET P, NEW i \in P, Before(P, i) \cup {i} \subseteq S
      PROVE  Cardinality(Before(P, i)) < Cardinality(S)
  <2>1. i \notin Before(P, i)
    BY DEF Before
  <2>2. /\ IsFiniteSet(Before(P, i) \cup {i})
        /\ Cardinality(Before(P, i) \cup {i}) = Cardinality(Before(P, i)) + 1
    BY <1>2, <2>1, OneMore
  <2>3. IsFiniteSet(S) /\ Cardinality(S) \in Nat
    BY <1>1, FS_Subset, FS_CardinalityType
  <2>4. Before(P, i) \cup {i} \in SUBSET S
    BY <1>3
  <2>5. Cardinality(Before(P, i) \cup {i}) <= Cardinality(S)
    BY <2>3, <2>4, FS_Subset
  <2> QED
    BY <1>2, <2>2, <2>3, <2>5
<1>4. \A i \in P : Cardinality(Before(P, i)) \in 0 .. Cardinality(P) - 1
  <2> TAKE i \in P
  <2>1. Before(P, i) \cup {i} \subseteq P
    BY DEF Before
  <2>2. Cardinality(Before(P, i)) < Cardinality(P)
    BY <1>3, <2>1
  <2> QED
    BY <1>1, <1>2, <2>2
<1>5. \A i, j \in P : i < j => Cardinality(Before(P, i)) < Cardinality(Before(P, j))
  <2> SUFFICES ASSUME NEW i \in P, NEW j \in P, i < j
               PROVE  Cardinality(Before(P, i)) < Cardinality(Before(P, j))
    OBVIOUS
  <2>1. \A k \in P : k \in Nat
    OBVIOUS
  <2>a. \A k \in P : k < i => k < j
    BY <2>1
  <2>2. Before(P, i) \cup {i} \subseteq Before(P, j) /\ Before(P, j) \in SUBSET P
    BY <2>a DEF Before
  <2> QED
    BY <1>3, <2>2
<1> QED
  BY <1>1, <1>4, <1>5

(* The n-th position is the one with n - 1 positions before it.            *)
LEMMA PositionsAreListed ==
  ASSUME NEW n \in Nat, NEW P \in SUBSET (1 .. n)
  PROVE  /\ IsFiniteSet(P) /\ Cardinality(P) \in Nat
         /\ \A k \in 1 .. Cardinality(P) : Nth(P, k) \in P
         /\ \A i \in P : \E k \in 1 .. Cardinality(P) : Nth(P, k) = i
         /\ \A k, l \in 1 .. Cardinality(P) : k < l <=> Nth(P, k) < Nth(P, l)
<1> DEFINE N == Cardinality(P)
           rank == [i \in P |-> Cardinality(Before(P, i)) + 1]
<1>1. /\ IsFiniteSet(P) /\ N \in Nat
      /\ \A i \in P : Cardinality(Before(P, i)) \in 0 .. N - 1
      /\ \A i, j \in P : i < j => Cardinality(Before(P, i)) < Cardinality(Before(P, j))
  BY EarlierAreFewer
<1>2. \A i \in P : i \in Nat
  OBVIOUS
<1>3. rank \in [P -> 1 .. N] /\ \A i, j \in P : i < j => rank[i] < rank[j]
  BY <1>1
<1>4. IsFiniteSet(1 .. N) /\ Cardinality(1 .. N) = N
  BY <1>1, FS_Interval
<1> HIDE DEF rank
<1>5. \A i, j \in P : rank[i] = rank[j] => i = j
  BY <1>1, <1>2, <1>3
<1>6. rank \in Injection(P, 1 .. N)
  BY <1>3, <1>5 DEF Injection, IsInjective
<1>7. rank \in Surjection(P, 1 .. N)
  BY <1>4, <1>6, FS_Injection
<1>8. \A k \in 1 .. N : \E i \in P : rank[i] = k
  BY <1>7 DEF Surjection
<1>9. \A k \in 1 .. N : Nth(P, k) \in P /\ rank[Nth(P, k)] = k
  <2> TAKE k \in 1 .. N
  <2>1. \A i \in P : rank[i] = k <=> Cardinality({j \in P : j < i}) = k - 1
    <3> SUFFICES ASSUME NEW i \in P PROVE rank[i] = k <=> Cardinality({j \in P : j < i}) = k - 1
      OBVIOUS
    <3>1. Cardinality({j \in P : j < i}) = Cardinality(Before(P, i))
      BY DEF Before
    <3>2. rank[i] = Cardinality(Before(P, i)) + 1 /\ Cardinality(Before(P, i)) \in Nat
      BY <1>1 DEF rank
    <3> QED
      BY <1>1, <3>1, <3>2
  <2>2. PICK i \in P : Cardinality({j \in P : j < i}) = k - 1
    BY <1>8, <2>1
  <2>3. Nth(P, k) \in P /\ Cardinality({j \in P : j < Nth(P, k)}) = k - 1
    BY <2>2 DEF Nth
  <2> QED
    BY <2>1, <2>3
<1>10. \A i \in P : \E k \in 1 .. N : Nth(P, k) = i
  <2> TAKE i \in P
  <2>1. rank[i] \in 1 .. N
    BY <1>3
  <2>2. Nth(P, rank[i]) = i
    BY <1>5, <1>9, <2>1
  <2> QED
    BY <2>1, <2>2
<1>11. \A k, l \in 1 .. N : k < l <=> Nth(P, k) < Nth(P, l)
  <2> TAKE k, l \in 1 .. N
  <2>1. Nth(P, k) \in P /\ Nth(P, l) \in P /\ rank[Nth(P, k)] = k /\ rank[Nth(P, l)] = l
    BY <1>9
  <2>2. Nth(P, k) < Nth(P, l) => k < l
    BY <1>3, <2>1
  <2>3. Nth(P, l) < Nth(P, k) => l < k
    BY <1>3, <2>1
  <2>4. Nth(P, l) = Nth(P, k) => l = k
    BY <2>1
  <2>5. Nth(P, k) \in Nat /\ Nth(P, l) \in Nat
    BY <1>2, <2>1
  <2> QED
    BY <2>2, <2>3, <2>4, <2>5
<1> QED
  BY <1>1, <1>9, <1>10, <1>11
-----------------------------------------------------------------------------
(* The inductive invariant: before the first createIndex there is no index; *)
(* after it, until samples are added again, the pointers to status samples *)
(* are those the vector has now.                                           *)
IsVector(v, S) ==
  /\ v = [elements |-> v.elements, capacity |-> v.capacity]
  /\ v.elements \in Seq(S)

ElementsAreOrdered ==
  \A i, j \in DOMAIN statuses.elements : i < j =>
     LET s == statuses.elements[i]
         t == statuses.elements[j]
     IN  s # t /\ (s.agent \cap t.agent # {} => s.until < t.since)

AnalysisTypeOK ==
  /\ IsVector(statuses, StatusSamples)
  /\ IsVector(requirements, RequirementSamples)
  /\ indexings \in Nat /\ resumed \in BOOLEAN /\ unindexed \in BOOLEAN /\ undefined \in BOOLEAN

NothingIndexed ==
  /\ DOMAIN samplesOf = {} /\ DOMAIN statusesAt = {}
  /\ DOMAIN consumed = {}
  /\ ~resumed

(* The index by atomic agents is not cleared: what it lists first is what   *)
(* there is, and it lists nothing else.                                    *)
AgentsAreIndexed ==
  /\ DOMAIN samplesOf = UNION {s.agent : s \in Range(statuses.elements)}
  /\ \A a \in DOMAIN samplesOf :
        /\ samplesOf[a] \in Seq(Range(Pointers(statuses)))
        /\ DOMAIN PointersFor(a) \subseteq DOMAIN samplesOf[a]
        /\ \A i \in DOMAIN PointersFor(a) : samplesOf[a][i] = PointersFor(a)[i]

ConsumptionIsKnown ==
  \A p \in DOMAIN consumed :
     p \in Range(Pointers(statuses)) /\ consumed[p] = Consumption(At(statuses, p))

AnalysisInvariant ==
  /\ AnalysisTypeOK
  /\ ElementsAreOrdered
  /\ indexings = 0 => NothingIndexed
  /\ indexings > 0 /\ ~resumed =>
       /\ statusesAt = TimeIndex(statuses)
       /\ ~unindexed => requirementsAt = TimeIndex(requirements)
       /\ AgentsAreIndexed
       /\ ConsumptionIsKnown

(* What is kept stands at these positions.                                 *)
LEMMA KeptIsPart ==
  ASSUME NEW S, NEW q \in Seq(S), NEW P \in SUBSET DOMAIN q
  PROVE  /\ Kept(q, P) \in Seq(S)
         /\ DOMAIN Kept(q, P) = 1 .. Cardinality(P)
         /\ \A k \in 1 .. Cardinality(P) : Nth(P, k) \in P /\ Kept(q, P)[k] = q[Nth(P, k)]
<1>1. Len(q) \in Nat /\ P \in SUBSET (1 .. Len(q)) /\ \A i \in 1 .. Len(q) : q[i] \in S
  OBVIOUS
<1>2. Cardinality(P) \in Nat /\ \A k \in 1 .. Cardinality(P) : Nth(P, k) \in P
  BY <1>1, PositionsAreListed
<1>3. /\ DOMAIN Kept(q, P) = 1 .. Cardinality(P)
      /\ Kept(q, P) = [k \in 1 .. Cardinality(P) |-> q[Nth(P, k)]]
  BY DEF Kept
<1>4. \A k \in 1 .. Cardinality(P) : q[Nth(P, k)] \in S
  BY <1>1, <1>2
<1> QED
  BY <1>2, <1>3, <1>4

(* A pointer names its storage and its position.                           *)
LEMMA PointerFields ==
  ASSUME NEW c, NEW i, NEW p, p = [storage |-> c, position |-> i]
  PROVE  p.storage = c /\ p.position = i
OBVIOUS

(* The pointers to the elements of a vector.                               *)
LEMMA PointersPoint ==
  ASSUME NEW S, NEW v, IsVector(v, S)
  PROVE  /\ v.elements \in Seq(S) /\ DOMAIN Pointers(v) = DOMAIN v.elements
         /\ Pointers(v) \in Seq(Range(Pointers(v)))
         /\ \A i \in DOMAIN v.elements :
               /\ Pointers(v)[i] \in Range(Pointers(v))
               /\ At(v, Pointers(v)[i]) = v.elements[i]
               /\ Pointers(v)[i].position = i
         /\ \A p \in Range(Pointers(v)) : ~Dangles(v, p) /\ p.position \in DOMAIN v.elements
<1>1. v.elements \in Seq(S) /\ DOMAIN Pointers(v) = DOMAIN v.elements
  BY DEF IsVector, Pointers
<1>2. \A i \in DOMAIN v.elements : Pointers(v)[i] = [storage |-> v.capacity, position |-> i]
  BY DEF Pointers
<1>a. \A i \in DOMAIN v.elements : Pointers(v)[i].storage = v.capacity /\ Pointers(v)[i].position = i
  <2> SUFFICES ASSUME NEW i \in DOMAIN v.elements
               PROVE  Pointers(v)[i].storage = v.capacity /\ Pointers(v)[i].position = i
    OBVIOUS
  <2>1. Pointers(v)[i] = [storage |-> v.capacity, position |-> i]
    BY <1>2
  <2> QED
    BY <2>1, PointerFields
<1>3. \A i \in DOMAIN v.elements : Pointers(v)[i] \in Range(Pointers(v))
  BY <1>1 DEF Range
<1>4. Pointers(v) = [i \in 1 .. Len(v.elements) |-> Pointers(v)[i]]
  BY <1>1 DEF Pointers
<1>5. Pointers(v) \in Seq(Range(Pointers(v)))
  <2>1. Len(v.elements) \in Nat /\ DOMAIN v.elements = 1 .. Len(v.elements)
    BY <1>1
  <2>2. [i \in 1 .. Len(v.elements) |-> Pointers(v)[i]] \in Seq(Range(Pointers(v)))
    BY <1>3, <2>1
  <2> QED
    BY <1>4, <2>2, Zenon
<1>6. \A p \in Range(Pointers(v)) : ~Dangles(v, p) /\ p.position \in DOMAIN v.elements
  <2> TAKE p \in Range(Pointers(v))
  <2>1. PICK i \in DOMAIN v.elements : p = Pointers(v)[i]
    BY <1>1 DEF Range
  <2>2. p.storage = v.capacity /\ p.position = i
    BY <1>a, <2>1
  <2> QED
    BY <2>1, <2>2 DEF Dangles
<1>7. \A i \in DOMAIN v.elements : At(v, Pointers(v)[i]) = v.elements[i] /\ Pointers(v)[i].position = i
  BY <1>a DEF At
<1> QED
  BY <1>1, <1>3, <1>5, <1>6, <1>7

(* A vector stays one when an element is added.                            *)
LEMMA PushedBack ==
  ASSUME NEW S, NEW v, IsVector(v, S), NEW x \in S
  PROVE  IsVector(PushBack(v, x), S)
BY DEF IsVector, PushBack

(* The pointers by atomic agents are pointers of the vector.               *)
LEMMA PointersOfAgent ==
  ASSUME AnalysisTypeOK, NEW a
  PROVE  /\ PositionsOf(a) \in SUBSET DOMAIN Pointers(statuses)
         /\ PointersFor(a) \in Seq(Range(Pointers(statuses)))
         /\ DOMAIN PointersFor(a) = 1 .. Cardinality(PositionsOf(a))
         /\ \A k \in 1 .. Cardinality(PositionsOf(a)) :
               /\ Nth(PositionsOf(a), k) \in PositionsOf(a)
               /\ PointersFor(a)[k] = Pointers(statuses)[Nth(PositionsOf(a), k)]
<1>1. IsVector(statuses, StatusSamples)
  BY DEF AnalysisTypeOK
<1>2. DOMAIN Pointers(statuses) = DOMAIN statuses.elements /\ Pointers(statuses) \in Seq(Range(Pointers(statuses)))
  BY <1>1, PointersPoint
<1>3. PositionsOf(a) \in SUBSET DOMAIN Pointers(statuses)
  BY <1>2 DEF PositionsOf
<1>4. PointersFor(a) = Kept(Pointers(statuses), PositionsOf(a))
  BY DEF PointersFor
<1> QED
  BY <1>2, <1>3, <1>4, KeptIsPart

-----------------------------------------------------------------------------
(* At the start nothing has been indexed.                                  *)
LEMMA AnalysisStarts == AnalysisInit => AnalysisInvariant
<1> SUFFICES ASSUME AnalysisInit PROVE AnalysisInvariant
  OBVIOUS
<1> USE DEF AnalysisInit
<1>1. AnalysisTypeOK
  <2>1. \A S : IsVector(NoSamples, S)
    <3>1. NoSamples = [elements |-> <<>>, capacity |-> 0]
      BY DEF NoSamples
    <3>2. NoSamples.elements = <<>> /\ NoSamples.capacity = 0
      BY <3>1
    <3> QED
      BY <3>1, <3>2 DEF IsVector
  <2> QED
    BY <2>1 DEF AnalysisTypeOK
<1>2. ElementsAreOrdered
  BY DEF ElementsAreOrdered, NoSamples
<1>3. NothingIndexed
  BY DEF NothingIndexed
<1> QED
  BY <1>1, <1>2, <1>3 DEF AnalysisInvariant

(* What does not depend on the requirements stays while the samples do.    *)
LEMMA AnalysisStutters ==
  ASSUME AnalysisInvariant, UNCHANGED analysis
  PROVE  AnalysisInvariant'
<1>1. UNCHANGED <<statuses, requirements, statusesAt, requirementsAt, samplesOf, consumed, undefined, indexings, resumed, unindexed>>
  BY DEF analysis, samples, index, history
<1>2. AnalysisTypeOK' = AnalysisTypeOK /\ ElementsAreOrdered' = ElementsAreOrdered /\ NothingIndexed' = NothingIndexed
  BY <1>1 DEF AnalysisTypeOK, ElementsAreOrdered, NothingIndexed, IsVector
<1>3. /\ (statusesAt = TimeIndex(statuses))' = (statusesAt = TimeIndex(statuses))
      /\ (requirementsAt = TimeIndex(requirements))' = (requirementsAt = TimeIndex(requirements))
  BY <1>1 DEF TimeIndex, StatusMaxTime, Pointers, Covering
<1>4. AgentsAreIndexed' = AgentsAreIndexed
  BY <1>1 DEF AgentsAreIndexed, PointersFor, PositionsOf, Pointers
<1>5. ConsumptionIsKnown' = ConsumptionIsKnown
  BY <1>1 DEF ConsumptionIsKnown, Pointers, At
<1> QED
  BY <1>1, <1>2, <1>3, <1>4, <1>5 DEF AnalysisInvariant

(* A query for an agent follows its pointers up to the first sample that    *)
(* covers the time.                                                        *)
LEMMA VisitedUpTo ==
  ASSUME NEW a, NEW time, NEW R, samplesOf[a] \in Seq(R)
  PROVE  \E n \in 0 .. Len(samplesOf[a]) :
           /\ DOMAIN Visited(a, time) = 1 .. n
           /\ \A i \in 1 .. n : Visited(a, time)[i] = samplesOf[a][i]
           /\ \A i \in 1 .. n - 1 : ~Covers(At(statuses, samplesOf[a][i]), time)
           /\ \/ /\ n = Len(samplesOf[a])
                 /\ \A i \in 1 .. n : ~Covers(At(statuses, samplesOf[a][i]), time)
              \/ n >= 1 /\ Covers(At(statuses, samplesOf[a][n]), time)
<1> DEFINE q == samplesOf[a]
           hits == {i \in DOMAIN q : Covers(At(statuses, q[i]), time)}
           first == CHOOSE i \in hits : \A j \in hits : i <= j
<1>1. Len(q) \in Nat /\ DOMAIN q = 1 .. Len(q)
  OBVIOUS
<1>2. CASE hits = {}
  <2>1. Visited(a, time) = q
    BY <1>2 DEF Visited
  <2>2. \A i \in 1 .. Len(q) : ~Covers(At(statuses, q[i]), time)
    BY <1>1, <1>2
  <2> QED
    BY <1>1, <2>1, <2>2
<1>3. CASE hits # {}
  <2>1. \A i \in hits : i \in 1 .. Len(q)
    BY <1>1
  <2>2. \E i \in hits : \A j \in hits : i <= j
    <3>1. hits \subseteq Nat
      BY <2>1
    <3> HIDE DEF hits
    <3> QED
      BY <1>3, <3>1, LeastExists
  <2>3. first \in hits /\ \A j \in hits : first <= j
    <3> HIDE DEF hits
    <3> QED
      BY <2>2
  <2>4. Visited(a, time) = SubSeq(q, 1, first)
    BY <1>3 DEF Visited
  <2>5. first \in 1 .. Len(q) /\ Covers(At(statuses, q[first]), time)
    BY <2>1, <2>3
  <2>6. \A i \in 1 .. first - 1 : ~Covers(At(statuses, q[i]), time)
    <3> SUFFICES ASSUME NEW i \in 1 .. first - 1, Covers(At(statuses, q[i]), time) PROVE FALSE
      OBVIOUS
    <3> HIDE DEF first
    <3>1. i \in 1 .. Len(q) /\ i < first
      BY <1>1, <2>5
    <3>2. i \in hits
      BY <1>1, <3>1
    <3> HIDE DEF hits
    <3> QED
      BY <2>3, <2>5, <3>1, <3>2
  <2> HIDE DEF first, hits
  <2>7. /\ DOMAIN SubSeq(q, 1, first) = 1 .. first
        /\ \A i \in 1 .. first : SubSeq(q, 1, first)[i] = q[i]
    BY <1>1, <2>5
  <2> QED
    BY <1>1, <2>4, <2>5, <2>6, <2>7
<1> QED
  BY <1>2, <1>3

-----------------------------------------------------------------------------
(* Samples are added in the order of time, after the first createIndex at the *)
(* cost of what is documented.                                             *)
LEMMA AddStatusKeeps ==
  ASSUME AnalysisInvariant, NEW s \in StatusSamples \ Range(statuses.elements),
         ~resumed, InOrder(s), AddStatus(s)
  PROVE  AnalysisInvariant'
<1> DEFINE E == statuses.elements
<1>1. AnalysisTypeOK /\ ElementsAreOrdered /\ IsVector(statuses, StatusSamples)
  BY DEF AnalysisInvariant, AnalysisTypeOK
<1>2. statuses' = PushBack(statuses, s) /\ resumed' = (indexings > 0)
  BY DEF AddStatus
<1>3. UNCHANGED <<requirements, statusesAt, requirementsAt, samplesOf, consumed, undefined, indexings, unindexed>>
  BY DEF AddStatus, index
<1>4. AnalysisTypeOK'
  <2>1. IsVector(PushBack(statuses, s), StatusSamples)
    BY <1>1, PushedBack
  <2>2. IsVector(statuses, StatusSamples)'
    BY <1>2, <2>1 DEF IsVector
  <2> QED
    BY <1>1, <1>2, <1>3, <2>2 DEF AnalysisTypeOK, IsVector
<1>5. E \in Seq(StatusSamples) /\ statuses'.elements = Append(E, s)
  BY <1>1, <1>2 DEF IsVector, PushBack
<1>6. ElementsAreOrdered'
  <2> DEFINE F == Append(E, s)
  <2> SUFFICES ASSUME NEW i \in DOMAIN F, NEW j \in DOMAIN F, i < j
               PROVE  F[i] # F[j] /\ (F[i].agent \cap F[j].agent # {} => F[i].until < F[j].since)
    BY <1>5 DEF ElementsAreOrdered
  <2>1. Len(E) \in Nat /\ DOMAIN E = 1 .. Len(E) /\ DOMAIN F = 1 .. Len(E) + 1
    BY <1>5
  <2>2. (\A k \in 1 .. Len(E) : F[k] = E[k]) /\ F[Len(E) + 1] = s
    BY <1>5
  <2> HIDE DEF F
  <2>3. i \in 1 .. Len(E)
    BY <2>1
  <2>4. CASE j \in 1 .. Len(E)
    BY <1>1, <2>1, <2>2, <2>3, <2>4 DEF ElementsAreOrdered
  <2>5. CASE j = Len(E) + 1
    <3>1. E[i] \in Range(E)
      BY <2>1, <2>3 DEF Range
    <3>2. s.agent \cap E[i].agent # {} => E[i].until < s.since
      BY <3>1 DEF InOrder
    <3> QED
      BY <2>2, <2>3, <2>5, <3>1, <3>2
  <2> QED
    BY <2>1, <2>4, <2>5
<1>7. indexings' = 0 => NothingIndexed'
  <2> SUFFICES ASSUME indexings = 0 PROVE NothingIndexed'
    BY <1>3
  <2>1. NothingIndexed
    BY DEF AnalysisInvariant
  <2>2. ~(indexings > 0)
    OBVIOUS
  <2>3. ~resumed'
    BY <1>2, <2>2
  <2> QED
    BY <1>3, <2>1, <2>3 DEF NothingIndexed
<1>8. indexings' > 0 => resumed'
  BY <1>2, <1>3
<1> QED
  BY <1>4, <1>6, <1>7, <1>8 DEF AnalysisInvariant

(* A requirement may move the others, which nobody follows until the next  *)
(* createIndex.                                                            *)
LEMMA AddRequirementKeeps ==
  ASSUME AnalysisInvariant, NEW r \in RequirementSamples, AddRequirement(r)
  PROVE  AnalysisInvariant'
<1>1. AnalysisTypeOK /\ IsVector(requirements, RequirementSamples)
  BY DEF AnalysisInvariant, AnalysisTypeOK
<1>2. requirements' = PushBack(requirements, r) /\ unindexed' = TRUE
  BY DEF AddRequirement
<1>3. UNCHANGED <<statuses, statusesAt, requirementsAt, samplesOf, consumed, undefined, indexings, resumed>>
  BY DEF AddRequirement, index
<1>4. AnalysisTypeOK'
  <2>1. IsVector(PushBack(requirements, r), RequirementSamples)
    BY <1>1, PushedBack
  <2>2. IsVector(requirements, RequirementSamples)'
    BY <1>2, <2>1 DEF IsVector
  <2> QED
    BY <1>1, <1>2, <1>3, <2>2 DEF AnalysisTypeOK, IsVector
<1>5. ElementsAreOrdered' = ElementsAreOrdered /\ NothingIndexed' = NothingIndexed
  BY <1>3 DEF ElementsAreOrdered, NothingIndexed
<1>6. (statusesAt = TimeIndex(statuses))' = (statusesAt = TimeIndex(statuses))
  BY <1>3 DEF TimeIndex, StatusMaxTime, Pointers, Covering
<1>7. AgentsAreIndexed' = AgentsAreIndexed /\ ConsumptionIsKnown' = ConsumptionIsKnown
  BY <1>3 DEF AgentsAreIndexed, PointersFor, PositionsOf, Pointers, ConsumptionIsKnown, At
<1> QED
  BY <1>2, <1>3, <1>4, <1>5, <1>6, <1>7 DEF AnalysisInvariant

(* A query keeps what it computes, by the pointer to the sample.           *)
LEMMA AskAgentKeeps ==
  ASSUME AnalysisInvariant, NEW a, NEW time, AskAgent(a, time)
  PROVE  AnalysisInvariant'
<1>1. UNCHANGED <<statuses, requirements, statusesAt, requirementsAt, samplesOf, indexings, resumed, unindexed>>
  BY DEF AskAgent, samples, index, history
<1>2. a \in DOMAIN samplesOf
  BY DEF AskAgent
<1>3. indexings \in Nat /\ indexings # 0
  BY <1>2 DEF AnalysisInvariant, AnalysisTypeOK, NothingIndexed
<1>4. AnalysisTypeOK' /\ (ElementsAreOrdered' = ElementsAreOrdered)
  <2>1. undefined' \in BOOLEAN
    BY DEF AskAgent
  <2> QED
    BY <1>1, <2>1 DEF AnalysisInvariant, AnalysisTypeOK, IsVector, ElementsAreOrdered
<1>5. /\ (statusesAt = TimeIndex(statuses))' = (statusesAt = TimeIndex(statuses))
      /\ (requirementsAt = TimeIndex(requirements))' = (requirementsAt = TimeIndex(requirements))
  BY <1>1 DEF TimeIndex, StatusMaxTime, Pointers, Covering
<1>6. AgentsAreIndexed' = AgentsAreIndexed
  BY <1>1 DEF AgentsAreIndexed, PointersFor, PositionsOf, Pointers
<1>7. ASSUME AgentsAreIndexed, ConsumptionIsKnown PROVE ConsumptionIsKnown'
  <2> DEFINE visited == Range(Visited(a, time))
             R == Range(Pointers(statuses))
  <2>1. consumed' = [p \in DOMAIN consumed \cup visited |-> ConsumedIn(p)]
    BY DEF AskAgent
  <2>2. samplesOf[a] \in Seq(R)
    BY <1>2, <1>7 DEF AgentsAreIndexed
  <2>3. visited \subseteq R
    <3>1. PICK n \in 0 .. Len(samplesOf[a]) :
             DOMAIN Visited(a, time) = 1 .. n /\ \A i \in 1 .. n : Visited(a, time)[i] = samplesOf[a][i]
      BY <2>2, VisitedUpTo
    <3> HIDE DEF R
    <3>2. Len(samplesOf[a]) \in Nat /\ \A i \in 1 .. Len(samplesOf[a]) : samplesOf[a][i] \in R
      BY <2>2
    <3>3. \A i \in 1 .. n : i \in 1 .. Len(samplesOf[a])
      BY <3>2
    <3> QED
      BY <3>1, <3>2, <3>3 DEF Range
  <2> HIDE DEF visited
  <2>4. \A p \in DOMAIN consumed \cup visited : p \in R /\ ConsumedIn(p) = Consumption(At(statuses, p))
    BY <1>7, <2>3 DEF ConsumptionIsKnown, ConsumedIn
  <2>5. Pointers(statuses)' = Pointers(statuses) /\ \A p : At(statuses, p)' = At(statuses, p)
    BY <1>1 DEF Pointers, At
  <2> QED
    BY <1>1, <2>1, <2>4, <2>5 DEF ConsumptionIsKnown, At
<1> QED
  BY <1>1, <1>3, <1>4, <1>5, <1>6, <1>7 DEF AnalysisInvariant

(* Queries for a time keep nothing.                                        *)
LEMMA AskTimeKeeps ==
  ASSUME AnalysisInvariant, NEW time, AskTime(time)
  PROVE  AnalysisInvariant'
<1>1. UNCHANGED <<statuses, requirements, statusesAt, requirementsAt, samplesOf, consumed, indexings, resumed, unindexed>>
  BY DEF AskTime, samples, index, history
<1>2. AnalysisTypeOK'
  <2>1. undefined' \in BOOLEAN
    BY DEF AskTime
  <2> QED
    BY <1>1, <2>1 DEF AnalysisInvariant, AnalysisTypeOK, IsVector
<1>3. ElementsAreOrdered' = ElementsAreOrdered /\ NothingIndexed' = NothingIndexed
  BY <1>1 DEF ElementsAreOrdered, NothingIndexed
<1>4. /\ (statusesAt = TimeIndex(statuses))' = (statusesAt = TimeIndex(statuses))
      /\ (requirementsAt = TimeIndex(requirements))' = (requirementsAt = TimeIndex(requirements))
  BY <1>1 DEF TimeIndex, StatusMaxTime, Pointers, Covering
<1>5. AgentsAreIndexed' = AgentsAreIndexed /\ ConsumptionIsKnown' = ConsumptionIsKnown
  BY <1>1 DEF AgentsAreIndexed, PointersFor, PositionsOf, Pointers, ConsumptionIsKnown, At
<1> QED
  BY <1>1, <1>2, <1>3, <1>4, <1>5 DEF AnalysisInvariant

(* createIndex points to what the vectors hold now, after what the index by *)
(* atomic agents has pointed to before.                                    *)
LEMMA CreateIndexKeeps ==
  ASSUME AnalysisInvariant, CreateIndex
  PROVE  AnalysisInvariant'
<1> DEFINE R == Range(Pointers(statuses))
           all == UNION {s.agent : s \in Range(statuses.elements)}
<1>1. UNCHANGED <<statuses, requirements, consumed, resumed>> /\ indexings' = indexings + 1 /\ unindexed' = FALSE
  BY DEF CreateIndex, samples
<1>2. AnalysisTypeOK /\ indexings \in Nat
  BY DEF AnalysisInvariant, AnalysisTypeOK
<1>3. AnalysisTypeOK' /\ (ElementsAreOrdered' = ElementsAreOrdered)
  <2>1. undefined' \in BOOLEAN
    BY DEF CreateIndex
  <2>2. indexings' \in Nat
    BY <1>1, <1>2
  <2>3. unindexed' \in BOOLEAN
    BY <1>1
  <2> QED
    BY <1>1, <1>2, <2>1, <2>2, <2>3 DEF AnalysisTypeOK, IsVector, ElementsAreOrdered
<1>4. (statusesAt = TimeIndex(statuses))' /\ (requirementsAt = TimeIndex(requirements))'
  <2>1. TimeIndex(statuses)' = TimeIndex(statuses) /\ TimeIndex(requirements)' = TimeIndex(requirements)
    BY <1>1 DEF TimeIndex, StatusMaxTime, Pointers, Covering
  <2> QED
    BY <2>1 DEF CreateIndex
<1>5. indexings = 0 => NothingIndexed
  BY DEF AnalysisInvariant
<1>6. indexings # 0 /\ ~resumed => AgentsAreIndexed /\ ConsumptionIsKnown
  BY <1>2 DEF AnalysisInvariant
<1>7. ~resumed => ConsumptionIsKnown'
  <2>1. ~resumed => ConsumptionIsKnown
    BY <1>5, <1>6 DEF NothingIndexed, ConsumptionIsKnown
  <2> QED
    BY <1>1, <2>1 DEF ConsumptionIsKnown, Pointers, At
<1>8. ASSUME ~resumed PROVE AgentsAreIndexed'
  <2>1. /\ DOMAIN samplesOf' = DOMAIN samplesOf \cup all
        /\ \A a \in DOMAIN samplesOf \cup all : samplesOf'[a] = Known(a) \o PointersFor(a)
    BY DEF CreateIndex
  <2>2. DOMAIN samplesOf' = all
    BY <1>5, <1>6, <1>8, <2>1 DEF NothingIndexed, AgentsAreIndexed
  <2>3. ASSUME NEW a \in all
        PROVE  /\ samplesOf'[a] \in Seq(R)
               /\ DOMAIN PointersFor(a) \subseteq DOMAIN samplesOf'[a]
               /\ \A i \in DOMAIN PointersFor(a) : samplesOf'[a][i] = PointersFor(a)[i]
    <3> HIDE DEF R
    <3> DEFINE k == Known(a)
               p == PointersFor(a)
    <3>1. samplesOf'[a] = k \o p
      BY <2>1, <2>3
    <3>2. p \in Seq(R)
      BY <1>2, PointersOfAgent DEF R
    <3>3. \/ k = <<>>
          \/ k \in Seq(R) /\ DOMAIN p \subseteq DOMAIN k /\ \A i \in DOMAIN p : k[i] = p[i]
      BY <1>5, <1>6, <1>8 DEF Known, NothingIndexed, AgentsAreIndexed, R
    <3> HIDE DEF k, p
    <3>4. CASE k = <<>>
      <4>1. <<>> \o p = p
        BY <3>2, ConcatEmptySeq
      <4>2. samplesOf'[a] = p
        BY <3>1, <3>4, <4>1
      <4> QED
        BY <3>2, <4>2 DEF p
    <3>5. CASE k \in Seq(R) /\ DOMAIN p \subseteq DOMAIN k /\ \A i \in DOMAIN p : k[i] = p[i]
      <4>1. k \o p \in Seq(R) /\ DOMAIN k \subseteq DOMAIN (k \o p) /\ \A i \in DOMAIN k : (k \o p)[i] = k[i]
        BY <3>2, <3>5
      <4> QED
        BY <3>1, <3>5, <4>1 DEF p
    <3> QED
      BY <3>3, <3>4, <3>5 DEF p
  <2>4. (UNION {s.agent : s \in Range(statuses.elements)})' = all
    BY <1>1
  <2>5. R' = R /\ \A a : PointersFor(a)' = PointersFor(a)
    BY <1>1 DEF PointersFor, PositionsOf, Pointers
  <2> HIDE DEF all, R
  <2> QED
    BY <2>2, <2>3, <2>4, <2>5 DEF AgentsAreIndexed, R, PointersFor
<1> QED
  BY <1>1, <1>2, <1>3, <1>4, <1>7, <1>8 DEF AnalysisInvariant

(* The invariant holds, for all samples and in whatever order they are      *)
(* added, indexed and asked for.                                           *)
THEOREM AnalysisInvariantHolds == AnalysisSpec => []AnalysisInvariant
<1>1. AnalysisInit => AnalysisInvariant
  BY AnalysisStarts
<1>2. AnalysisInvariant /\ [AnalysisNext]_analysis => AnalysisInvariant'
  <2> SUFFICES ASSUME AnalysisInvariant, [AnalysisNext]_analysis PROVE AnalysisInvariant'
    OBVIOUS
  <2>1. CASE UNCHANGED analysis
    BY <2>1, AnalysisStutters
  <2>2. CASE AnalysisNext
    <3>1. CASE \E s \in StatusSamples \ Range(statuses.elements) : ~resumed /\ InOrder(s) /\ AddStatus(s)
      BY <3>1, AddStatusKeeps
    <3>2. CASE \E r \in RequirementSamples \ Range(requirements.elements) : AddRequirement(r)
      BY <3>2, AddRequirementKeeps
    <3>3. CASE CreateIndex
      BY <3>3, CreateIndexKeeps
    <3>4. CASE \E a \in Agents, time \in 0 .. Horizon : AskAgent(a, time)
      BY <3>4, AskAgentKeeps
    <3>5. CASE \E time \in 0 .. Horizon : AskTime(time)
      BY <3>5, AskTimeKeeps
    <3> QED
      BY <2>2, <3>1, <3>2, <3>3, <3>4, <3>5 DEF AnalysisNext
  <2> QED
    BY <2>1, <2>2
<1> QED
  BY <1>1, <1>2, PTL DEF AnalysisSpec

(* An index lists, for a time, the samples that cover it.                   *)
LEMMA IndexAtTime ==
  ASSUME NEW S, NEW v, IsVector(v, S), NEW time, NEW q, q = Kept(Pointers(v), Covering(v, time))
  PROVE  /\ Alive(v, q)
         /\ DOMAIN q = 1 .. Cardinality(Covering(v, time))
         /\ DOMAIN Kept(v.elements, Covering(v, time)) = 1 .. Cardinality(Covering(v, time))
         /\ \A k \in DOMAIN q : /\ Nth(Covering(v, time), k) \in Covering(v, time)
                                /\ q[k] = Pointers(v)[Nth(Covering(v, time), k)]
                                /\ At(v, q[k]) = v.elements[Nth(Covering(v, time), k)]
                                /\ At(v, q[k]) = Kept(v.elements, Covering(v, time))[k]
         /\ \A p \in Range(q) : At(v, p) \in Range(v.elements) /\ Covers(At(v, p), time)
         /\ \A r \in Range(v.elements) : Covers(r, time) => \E p \in Range(q) : At(v, p) = r
<1> DEFINE C == Covering(v, time)
           R == Range(Pointers(v))
<1>1. /\ v.elements \in Seq(S) /\ DOMAIN Pointers(v) = DOMAIN v.elements
      /\ Pointers(v) \in Seq(R)
      /\ \A i \in DOMAIN v.elements : Pointers(v)[i] \in R /\ At(v, Pointers(v)[i]) = v.elements[i]
      /\ \A p \in R : ~Dangles(v, p)
  BY PointersPoint
<1>2. C \in SUBSET DOMAIN v.elements /\ \A i \in DOMAIN v.elements : i \in C <=> Covers(v.elements[i], time)
  BY DEF Covering
<1> HIDE DEF C, R
<1>3. /\ DOMAIN q = 1 .. Cardinality(C)
      /\ \A k \in 1 .. Cardinality(C) : Nth(C, k) \in C /\ q[k] = Pointers(v)[Nth(C, k)]
  <2>1. C \in SUBSET DOMAIN Pointers(v)
    BY <1>1, <1>2
  <2> QED
    BY <1>1, <2>1, KeptIsPart DEF C
<1>4. /\ DOMAIN Kept(v.elements, C) = 1 .. Cardinality(C)
      /\ \A k \in 1 .. Cardinality(C) : Kept(v.elements, C)[k] = v.elements[Nth(C, k)]
  BY <1>1, <1>2, KeptIsPart
<1>5. \A k \in 1 .. Cardinality(C) : q[k] \in R /\ At(v, q[k]) = v.elements[Nth(C, k)]
  BY <1>1, <1>2, <1>3
<1>6. \A p \in Range(q) : \E k \in 1 .. Cardinality(C) : p = q[k]
  BY <1>3 DEF Range
<1>7. Alive(v, q)
  BY <1>1, <1>5, <1>6 DEF Alive
<1>8. \A p \in Range(q) : At(v, p) \in Range(v.elements) /\ Covers(At(v, p), time)
  <2> TAKE p \in Range(q)
  <2>1. PICK k \in 1 .. Cardinality(C) : p = q[k]
    BY <1>6
  <2> QED
    BY <1>2, <1>3, <1>5, <2>1 DEF Range
<1>9. \A r \in Range(v.elements) : Covers(r, time) => \E p \in Range(q) : At(v, p) = r
  <2> SUFFICES ASSUME NEW r \in Range(v.elements), Covers(r, time) PROVE \E p \in Range(q) : At(v, p) = r
    OBVIOUS
  <2>1. PICK i \in DOMAIN v.elements : v.elements[i] = r
    BY DEF Range
  <2>2. i \in C
    BY <1>2, <2>1
  <2>3. PICK k \in 1 .. Cardinality(C) : Nth(C, k) = i
    <3>1. Len(v.elements) \in Nat /\ C \in SUBSET (1 .. Len(v.elements))
      BY <1>1, <1>2
    <3> QED
      BY <2>2, <3>1, PositionsAreListed
  <2>4. q[k] \in Range(q)
    BY <1>3 DEF Range
  <2> QED
    BY <1>5, <2>1, <2>3, <2>4
<1> QED
  BY <1>3, <1>4, <1>5, <1>7, <1>8, <1>9 DEF C

(* What the invariant says of the indexes for a time.                       *)
LEMMA IndexedTimes ==
  ASSUME AnalysisInvariant, Documented, NEW time \in DOMAIN statusesAt
  PROVE  /\ IsVector(statuses, StatusSamples) /\ IsVector(requirements, RequirementSamples)
         /\ time \in 0 .. StatusMaxTime
         /\ statusesAt[time] = Kept(Pointers(statuses), Covering(statuses, time))
         /\ ~unindexed => requirementsAt[time] = Kept(Pointers(requirements), Covering(requirements, time))
         /\ AgentsAreIndexed /\ ConsumptionIsKnown /\ ElementsAreOrdered
<1>1. AnalysisTypeOK /\ indexings > 0 /\ ~resumed
  BY DEF AnalysisInvariant, Documented
<1>2. /\ statusesAt = TimeIndex(statuses)
      /\ ~unindexed => requirementsAt = TimeIndex(requirements)
      /\ AgentsAreIndexed /\ ConsumptionIsKnown /\ ElementsAreOrdered
  BY <1>1 DEF AnalysisInvariant
<1>3. \A v : /\ DOMAIN TimeIndex(v) = 0 .. StatusMaxTime
             /\ \A t \in 0 .. StatusMaxTime : TimeIndex(v)[t] = Kept(Pointers(v), Covering(v, t))
  BY DEF TimeIndex
<1> QED
  BY <1>1, <1>2, <1>3 DEF AnalysisTypeOK

(* Each agent is evaluated against all that is required where it is.        *)
LEMMA IndexesReachAgents == AnalysisInvariant => RequirementsReachAgents
<1> SUFFICES ASSUME AnalysisInvariant, Documented, ~unindexed, NEW t \in DOMAIN statusesAt
             PROVE  LET active == Kept(statuses.elements, Covering(statuses, t))
                    IN  /\ Alive(statuses, statusesAt[t]) /\ Alive(requirements, requirementsAt[t])
                        /\ Requirements(t) =
                             [i \in DOMAIN active |->
                                UNION {r.resources : r \in {q \in Range(requirements.elements) :
                                                              Covers(q, t) /\ SameLocation(active[i], q)}}]
  BY DEF RequirementsReachAgents
<1> DEFINE active == Kept(statuses.elements, Covering(statuses, t))
           E == Range(requirements.elements)
           there == statusesAt[t]
           asked == requirementsAt[t]
<1>1. /\ Alive(statuses, there) /\ DOMAIN there = DOMAIN active
      /\ \A k \in DOMAIN there : At(statuses, there[k]) = active[k]
  BY IndexedTimes, IndexAtTime
<1>2. /\ Alive(requirements, asked)
      /\ \A p \in Range(asked) : At(requirements, p) \in E /\ Covers(At(requirements, p), t)
      /\ \A r \in E : Covers(r, t) => \E p \in Range(asked) : At(requirements, p) = r
  BY IndexedTimes, IndexAtTime
<1> HIDE DEF active, E
<1>3. \A i \in DOMAIN there :
        UNION {At(requirements, p).resources :
                 p \in {q \in Range(asked) : SameLocation(At(statuses, there[i]), At(requirements, q))}}
          = UNION {r.resources : r \in {q \in E : Covers(q, t) /\ SameLocation(active[i], q)}}
  <2> SUFFICES ASSUME NEW i \in DOMAIN there
               PROVE  UNION {At(requirements, p).resources :
                               p \in {q \in Range(asked) : SameLocation(active[i], At(requirements, q))}}
                        = UNION {r.resources : r \in {q \in E : Covers(q, t) /\ SameLocation(active[i], q)}}
    BY <1>1
  <2> HIDE DEF asked, there
  <2> QED
    BY <1>2, Zenon
<1> QED
  BY <1>1, <1>2, <1>3 DEF Requirements, active, E

(* For all samples, in whatever order they are added and indexed: after the *)
(* last createIndex every agent of the coalition structure of a time is     *)
(* evaluated against exactly what is required at its location at that time, *)
(* and no pointer is followed to a storage that is gone.                   *)
THEOREM RequirementsReach == AnalysisSpec => []RequirementsReachAgents
BY IndexesReachAgents, AnalysisInvariantHolds, PTL

-----------------------------------------------------------------------------
(* The energy an atomic agent provides in a sample up to a time.            *)
Provided(s, a, time) == PartOf(s, Consumption(s), a, time)

(* It is an integer.                                                       *)
LEMMA ProvidedIsInt ==
  ASSUME NEW s \in StatusSamples, NEW a \in s.agent, NEW time \in Nat
  PROVE  Provided(s, a, time) \in Int
<1> DEFINE e == Consumption(s)
           h == Share(s, a)
           l == (IF Covers(s, time) THEN time ELSE s.until) - s.since
           d == s.until - s.since
<1>1. e \in Int /\ h \in Int /\ l \in Int /\ d \in Nat \ {0}
  BY SamplesAreReal DEF SampleAssumption
<1>2. Provided(s, a, time) = (e * h * l) \div d
  BY DEF Provided, PartOf
<1> HIDE DEF e, h, l, d
<1>3. e * h * l \in Int
  BY <1>1
<1>4. (e * h * l) \div d \in Int
  BY <1>1, <1>3
<1> QED
  BY <1>2, <1>4

(* Whom the samples that cover a time are about.                            *)
Active(time) == UNION {statuses.elements[i].agent : i \in Covering(statuses, time)}

(* Parts: what an agent has provided in a sample that has begun, by the     *)
(* sample's position and the agent.                                        *)
Spendings(time) ==
  {p \in (DOMAIN statuses.elements) \X Active(time) :
     p[2] \in statuses.elements[p[1]].agent /\ statuses.elements[p[1]].since <= time}
Spent(time) == [p \in Spendings(time) |-> Provided(statuses.elements[p[1]], p[2], time)]

(* There are finitely many of them.                                        *)
LEMMA SpendingsAreFinite ==
  ASSUME AnalysisTypeOK, NEW time \in Nat
  PROVE  /\ IsFiniteSet(DOMAIN statuses.elements) /\ IsFiniteSet(Active(time)) /\ IsFiniteSet(Spendings(time))
         /\ \A p \in Spendings(time) : Spent(time)[p] \in Int
<1> DEFINE E == statuses.elements
<1>1. E \in Seq(StatusSamples) /\ Len(E) \in Nat /\ DOMAIN E = 1 .. Len(E)
  BY DEF AnalysisTypeOK, IsVector
<1>2. IsFiniteSet(DOMAIN E)
  BY <1>1, FS_Interval
<1>3. \A i \in DOMAIN E : E[i] \in StatusSamples /\ IsFiniteSet(E[i].agent)
  BY <1>1, SamplesAreReal DEF SampleAssumption
<1>4. IsFiniteSet(Active(time))
  <2> DEFINE C == Covering(statuses, time)
             all == {E[i].agent : i \in C}
             k == [i \in C |-> E[i].agent]
  <2>1. C \in SUBSET DOMAIN E
    BY DEF Covering
  <2>2. IsFiniteSet(C)
    BY <1>2, <2>1, FS_Subset
  <2>3. k \in Surjection(C, all)
    BY DEF Surjection
  <2>4. \A x \in all : IsFiniteSet(x)
    BY <1>3, <2>1
  <2> HIDE DEF k, all, C
  <2>5. IsFiniteSet(all)
    BY <2>2, <2>3, FS_Surjection
  <2>6. IsFiniteSet(UNION all)
    BY <2>4, <2>5, FS_UNION
  <2> QED
    BY <2>6 DEF Active, all, C
<1>5. IsFiniteSet((DOMAIN E) \X Active(time))
  BY <1>2, <1>4, FS_Product
<1>6. IsFiniteSet(Spendings(time))
  <2>1. Spendings(time) \in SUBSET ((DOMAIN E) \X Active(time))
    BY DEF Spendings
  <2> QED
    BY <1>5, <2>1, FS_Subset
<1>7. \A p \in Spendings(time) : Spent(time)[p] \in Int
  BY <1>3, ProvidedIsInt DEF Spendings, Spent
<1> QED
  BY <1>2, <1>4, <1>6, <1>7

(* Samples of an agent follow each other.                                  *)
LEMMA SamplesFollow ==
  ASSUME AnalysisTypeOK, ElementsAreOrdered, NEW time \in Nat,
         NEW i \in DOMAIN statuses.elements, NEW j \in DOMAIN statuses.elements, i < j,
         statuses.elements[i].agent \cap statuses.elements[j].agent # {}
  PROVE  /\ Covers(statuses.elements[j], time) =>
              statuses.elements[i].since <= time /\ ~Covers(statuses.elements[i], time)
         /\ Covers(statuses.elements[i], time) => ~(statuses.elements[j].since <= time)
<1> DEFINE E == statuses.elements
<1>1. E[i] \in StatusSamples /\ E[j] \in StatusSamples
  BY DEF AnalysisTypeOK, IsVector
<1>2. /\ E[i].since \in Nat /\ E[i].until \in Nat /\ E[i].since < E[i].until
      /\ E[j].since \in Nat /\ E[j].until \in Nat
  BY <1>1, SamplesAreReal DEF SampleAssumption
<1>3. E[i].until < E[j].since
  BY DEF ElementsAreOrdered
<1> HIDE DEF E
<1>4. /\ Covers(E[j], time) => E[i].since <= time /\ ~Covers(E[i], time)
      /\ Covers(E[i], time) => ~(E[j].since <= time)
  BY <1>2, <1>3 DEF Covers
<1> QED
  BY <1>4 DEF E

(* Of an agent of a time's coalition structure, the query looks at the      *)
(* samples that have begun, each once.                                     *)
LEMMA QueryLooksAtBegun ==
  ASSUME AnalysisInvariant, Documented, NEW time \in DOMAIN statusesAt, NEW a \in Active(time)
  PROVE  \E n \in Nat :
           LET at(k) == Nth(PositionsOf(a), k)
           IN  /\ DOMAIN Visited(a, time) = 1 .. n
               /\ \A k \in 1 .. n : /\ at(k) \in PositionsOf(a)
                                    /\ Visited(a, time)[k] = Pointers(statuses)[at(k)]
                                    /\ statuses.elements[at(k)].since <= time
               /\ \A k, l \in 1 .. n : at(k) = at(l) => k = l
               /\ \A i \in PositionsOf(a) : statuses.elements[i].since <= time => \E k \in 1 .. n : at(k) = i
<1> DEFINE E == statuses.elements
           P == PositionsOf(a)
           m == Cardinality(P)
           q == samplesOf[a]
           R == Range(Pointers(statuses))
<1>1. /\ IsVector(statuses, StatusSamples) /\ AnalysisTypeOK /\ ElementsAreOrdered /\ AgentsAreIndexed
      /\ time \in Nat
  <2>1. time \in 0 .. StatusMaxTime
    BY IndexedTimes
  <2> QED
    BY <2>1, IndexedTimes DEF AnalysisInvariant
<1>2. E \in Seq(StatusSamples) /\ Len(E) \in Nat /\ DOMAIN E = 1 .. Len(E)
  BY <1>1 DEF IsVector
<1>3. P \in SUBSET (1 .. Len(E)) /\ \A i \in DOMAIN E : i \in P <=> a \in E[i].agent
  BY <1>2 DEF PositionsOf
<1>4. PICK i0 \in Covering(statuses, time) : a \in E[i0].agent
  BY DEF Active
<1>5. i0 \in P /\ Covers(E[i0], time)
  BY <1>3, <1>4 DEF Covering
<1>6. a \in DOMAIN samplesOf
  <2>1. E[i0] \in Range(E)
    BY <1>2, <1>3, <1>5 DEF Range
  <2> QED
    BY <1>1, <1>4, <2>1 DEF AgentsAreIndexed
<1>7. /\ m \in Nat
      /\ \A k \in 1 .. m : Nth(P, k) \in P
      /\ \A i \in P : \E k \in 1 .. m : Nth(P, k) = i
      /\ \A k, l \in 1 .. m : k < l <=> Nth(P, k) < Nth(P, l)
  BY <1>2, <1>3, PositionsAreListed
<1>8. /\ q \in Seq(R) /\ m <= Len(q)
      /\ \A k \in 1 .. m : q[k] = Pointers(statuses)[Nth(P, k)]
  <2>1. q \in Seq(R) /\ DOMAIN PointersFor(a) \subseteq DOMAIN q /\ \A k \in DOMAIN PointersFor(a) : q[k] = PointersFor(a)[k]
    BY <1>1, <1>6 DEF AgentsAreIndexed
  <2>2. DOMAIN PointersFor(a) = 1 .. m /\ \A k \in 1 .. m : PointersFor(a)[k] = Pointers(statuses)[Nth(P, k)]
    BY <1>1, PointersOfAgent
  <2> HIDE DEF q, R, m
  <2>3. Len(q) \in Nat /\ DOMAIN q = 1 .. Len(q)
    BY <2>1
  <2>4. m <= Len(q)
    BY <1>7, <2>1, <2>2, <2>3
  <2> QED
    BY <2>1, <2>2, <2>4
<1>9. \A k \in 1 .. m : At(statuses, q[k]) = E[Nth(P, k)]
  <2>1. \A i \in DOMAIN E : At(statuses, Pointers(statuses)[i]) = E[i]
    BY <1>1, PointersPoint
  <2> HIDE DEF m, P, R, q
  <2> QED
    BY <1>2, <1>3, <1>7, <1>8, <2>1
<1>10. PICK n \in 0 .. Len(q) :
         /\ DOMAIN Visited(a, time) = 1 .. n
         /\ \A i \in 1 .. n : Visited(a, time)[i] = q[i]
         /\ \A i \in 1 .. n - 1 : ~Covers(At(statuses, q[i]), time)
         /\ \/ n = Len(q) /\ \A i \in 1 .. n : ~Covers(At(statuses, q[i]), time)
            \/ n >= 1 /\ Covers(At(statuses, q[n]), time)
  BY <1>8, VisitedUpTo
<1>11. PICK k0 \in 1 .. m : Nth(P, k0) = i0
  BY <1>5, <1>7
<1> HIDE DEF m, P, R, q
<1>12. n \in 1 .. m /\ Covers(E[Nth(P, n)], time)
  <2>1. Len(q) \in Nat /\ n \in Nat
    BY <1>8, <1>10
  <2>2. Covers(At(statuses, q[k0]), time)
    BY <1>5, <1>9, <1>11
  <2>3. ~(k0 \in 1 .. n - 1)
    BY <1>10, <2>2
  <2>4. ~(n = Len(q) /\ \A i \in 1 .. n : ~Covers(At(statuses, q[i]), time))
    BY <1>7, <1>8, <1>11, <2>1, <2>2
  <2>5. n >= 1 /\ Covers(At(statuses, q[n]), time)
    BY <1>10, <2>4
  <2>6. n <= m
    BY <1>7, <1>11, <2>1, <2>3
  <2> QED
    BY <1>7, <1>9, <2>1, <2>5, <2>6
<1>13. \A k \in 1 .. m : Nth(P, k) \in DOMAIN E /\ a \in E[Nth(P, k)].agent
  BY <1>2, <1>3, <1>7
<1>14. ASSUME NEW k \in 1 .. m
       PROVE  E[Nth(P, k)].since <= time <=> k <= n
  <2> DEFINE i == Nth(P, k)
             j == Nth(P, n)
  <2>1. i \in DOMAIN E /\ j \in DOMAIN E /\ E[i].agent \cap E[j].agent # {}
    BY <1>12, <1>13
  <2>2. k < n => E[i].since <= time
    BY <1>1, <1>7, <1>12, <2>1, SamplesFollow
  <2>3. n < k => ~(E[i].since <= time)
    BY <1>1, <1>7, <1>12, <2>1, SamplesFollow
  <2>4. n = k => E[i].since <= time
    BY <1>12 DEF Covers
  <2>5. k \in Nat /\ n \in Nat
    BY <1>7, <1>12
  <2> QED
    BY <2>2, <2>3, <2>4, <2>5
<1>15. \A k \in 1 .. n : k \in 1 .. m
  BY <1>7, <1>12
<1>16. /\ DOMAIN Visited(a, time) = 1 .. n
       /\ \A k \in 1 .. n : /\ Nth(P, k) \in P
                            /\ Visited(a, time)[k] = Pointers(statuses)[Nth(P, k)]
                            /\ E[Nth(P, k)].since <= time
  <2>1. \A k \in 1 .. n : E[Nth(P, k)].since <= time
    BY <1>7, <1>12, <1>14, <1>15
  <2> QED
    BY <1>7, <1>8, <1>10, <1>15, <2>1
<1>17. \A k, l \in 1 .. n : Nth(P, k) = Nth(P, l) => k = l
  <2> SUFFICES ASSUME NEW k \in 1 .. n, NEW l \in 1 .. n, Nth(P, k) = Nth(P, l) PROVE k = l
    OBVIOUS
  <2>1. k \in 1 .. m /\ l \in 1 .. m /\ k \in Nat /\ l \in Nat
    BY <1>7, <1>12, <1>15
  <2>2. Nth(P, k) \in Nat
    BY <1>3, <1>7, <2>1
  <2>3. ~(k < l) /\ ~(l < k)
    BY <1>7, <2>1, <2>2
  <2> QED
    BY <2>1, <2>3
<1>18. \A i \in P : E[i].since <= time => \E k \in 1 .. n : Nth(P, k) = i
  <2> SUFFICES ASSUME NEW i \in P, E[i].since <= time PROVE \E k \in 1 .. n : Nth(P, k) = i
    OBVIOUS
  <2>1. PICK k \in 1 .. m : Nth(P, k) = i
    BY <1>7
  <2>2. k <= n
    BY <1>14, <2>1
  <2>3. k \in 1 .. n
    BY <1>7, <1>12, <2>2
  <2> QED
    BY <2>1, <2>3
<1>19. n \in Nat
  BY <1>7, <1>12
<1> QED
  BY <1>16, <1>17, <1>18, <1>19 DEF P

(* What an agent has used is what it has provided in the samples that have  *)
(* begun.                                                                  *)
LEMMA ReductionIsSpent ==
  ASSUME AnalysisInvariant, Documented, NEW time \in DOMAIN statusesAt, NEW a \in Active(time)
  PROVE  EnergyReductionOf(a, time) = SumFunctionOnSet(Spent(time), {p \in Spendings(time) : p[2] = a})
<1> DEFINE E == statuses.elements
           visited == Visited(a, time)
           parts == [i \in DOMAIN visited |-> PartOf(At(statuses, visited[i]), ConsumedIn(visited[i]), a, time)]
           at == [k \in DOMAIN visited |-> <<Nth(PositionsOf(a), k), a>>]
           mine == {p \in Spendings(time) : p[2] = a}
<1>1. PICK n \in Nat :
        /\ DOMAIN visited = 1 .. n
        /\ \A k \in 1 .. n : /\ Nth(PositionsOf(a), k) \in PositionsOf(a)
                             /\ visited[k] = Pointers(statuses)[Nth(PositionsOf(a), k)]
                             /\ E[Nth(PositionsOf(a), k)].since <= time
        /\ \A k, l \in 1 .. n : Nth(PositionsOf(a), k) = Nth(PositionsOf(a), l) => k = l
        /\ \A i \in PositionsOf(a) : E[i].since <= time => \E k \in 1 .. n : Nth(PositionsOf(a), k) = i
  BY QueryLooksAtBegun
<1>2. /\ IsVector(statuses, StatusSamples) /\ AnalysisTypeOK /\ ConsumptionIsKnown
      /\ time \in Nat
  <2>1. time \in 0 .. StatusMaxTime
    BY IndexedTimes
  <2> QED
    BY <2>1, IndexedTimes DEF AnalysisInvariant
<1>3. \A i : i \in PositionsOf(a) <=> i \in DOMAIN E /\ a \in E[i].agent
  BY DEF PositionsOf
<1>4. \A i \in DOMAIN E : At(statuses, Pointers(statuses)[i]) = E[i]
  BY <1>2, PointersPoint
<1>5. \A p : ConsumedIn(p) = Consumption(At(statuses, p))
  BY <1>2 DEF ConsumedIn, ConsumptionIsKnown
<1>6. EnergyReductionOf(a, time) = SumFunctionOnSet(parts, DOMAIN visited)
  BY DEF EnergyReductionOf
<1> HIDE DEF visited
<1>7. IsFiniteSet(DOMAIN visited)
  <2>1. IsFiniteSet(1 .. n)
    BY FS_Interval
  <2> QED
    BY <1>1, <2>1
<1>8. \A k \in DOMAIN visited : parts[k] = Provided(E[Nth(PositionsOf(a), k)], a, time)
  <2> TAKE k \in DOMAIN visited
  <2>1. At(statuses, visited[k]) = E[Nth(PositionsOf(a), k)]
    BY <1>1, <1>3, <1>4
  <2>2. parts[k] = PartOf(At(statuses, visited[k]), Consumption(At(statuses, visited[k])), a, time)
    BY <1>5
  <2> QED
    BY <2>1, <2>2 DEF Provided
<1>9. ASSUME NEW k \in DOMAIN visited
      PROVE  at[k] \in mine /\ Spent(time)[at[k]] = parts[k] /\ parts[k] \in Int
  <2> DEFINE i == Nth(PositionsOf(a), k)
  <2>1. i \in DOMAIN E /\ a \in E[i].agent /\ E[i].since <= time
    BY <1>1, <1>3
  <2>2. at[k] = <<i, a>>
    OBVIOUS
  <2>3. parts[k] = Provided(E[i], a, time)
    BY <1>8
  <2> HIDE DEF i, at, parts
  <2>4. at[k] \in Spendings(time) /\ at[k][2] = a
    BY <2>1, <2>2 DEF Spendings
  <2>5. Spent(time)[at[k]] = Provided(E[i], a, time)
    BY <2>2, <2>4 DEF Spent
  <2>6. \A p \in Spendings(time) : Spent(time)[p] \in Int
    BY <1>2, SpendingsAreFinite
  <2> QED
    BY <2>3, <2>4, <2>5, <2>6
<1>10. \A k, l \in DOMAIN visited : at[k] = at[l] => k = l
  <2> TAKE k, l \in DOMAIN visited
  <2>1. at[k] = <<Nth(PositionsOf(a), k), a>> /\ at[l] = <<Nth(PositionsOf(a), l), a>>
    OBVIOUS
  <2> HIDE DEF at
  <2> QED
    BY <1>1, <2>1
<1>11. \A p \in mine : \E k \in DOMAIN visited : at[k] = p
  <2> TAKE p \in mine
  <2>1. p = <<p[1], a>> /\ p[1] \in DOMAIN E /\ a \in E[p[1]].agent /\ E[p[1]].since <= time
    BY DEF Spendings
  <2>2. PICK k \in 1 .. n : Nth(PositionsOf(a), k) = p[1]
    BY <1>1, <1>3, <2>1
  <2> QED
    BY <1>1, <2>1, <2>2
<1> HIDE DEF at, mine, parts
<1>12. SumFunctionOnSet(parts, DOMAIN visited) = SumFunctionOnSet(Spent(time), mine)
  BY <1>7, <1>9, <1>10, <1>11, SumReindexed
<1> QED
  BY <1>6, <1>12 DEF mine

(* The coalitions of a time have no agent in common.                        *)
LEMMA CoalitionsDivide ==
  ASSUME AnalysisInvariant, Documented, NEW time \in DOMAIN statusesAt
  PROVE  /\ IsFiniteSet(DOMAIN CoalitionStructure(time))
         /\ Parted(CoalitionStructure(time), DOMAIN CoalitionStructure(time), Active(time))
         /\ UNION Range(CoalitionStructure(time)) = Active(time)
<1> DEFINE E == statuses.elements
           C == Covering(statuses, time)
           there == statusesAt[time]
           cs == CoalitionStructure(time)
<1>1. IsVector(statuses, StatusSamples) /\ AnalysisTypeOK /\ ElementsAreOrdered /\ time \in Nat
  <2>1. time \in 0 .. StatusMaxTime
    BY IndexedTimes
  <2> QED
    BY <2>1, IndexedTimes DEF AnalysisInvariant
<1>2. /\ DOMAIN there = 1 .. Cardinality(C)
      /\ \A k \in DOMAIN there : Nth(C, k) \in C /\ At(statuses, there[k]) = E[Nth(C, k)]
  BY IndexedTimes, IndexAtTime
<1>3. Len(E) \in Nat /\ DOMAIN E = 1 .. Len(E) /\ C \in SUBSET (1 .. Len(E)) /\ \A i \in C : i \in DOMAIN E /\ Covers(E[i], time)
  BY <1>1 DEF IsVector, Covering
<1>4. /\ IsFiniteSet(C) /\ Cardinality(C) \in Nat
      /\ \A i \in C : \E k \in 1 .. Cardinality(C) : Nth(C, k) = i
      /\ \A k, l \in 1 .. Cardinality(C) : k < l <=> Nth(C, k) < Nth(C, l)
  BY <1>3, PositionsAreListed
<1>5. DOMAIN cs = 1 .. Cardinality(C) /\ \A k \in 1 .. Cardinality(C) : cs[k] = E[Nth(C, k)].agent
  BY <1>2 DEF CoalitionStructure
<1> HIDE DEF cs, there
<1>6. \A x : x \in Active(time) <=> \E k \in DOMAIN cs : x \in cs[k]
  <2> TAKE x
  <2>1. ASSUME x \in Active(time) PROVE \E k \in DOMAIN cs : x \in cs[k]
    <3>1. PICK i \in C : x \in E[i].agent
      BY <2>1 DEF Active
    <3>2. PICK k \in 1 .. Cardinality(C) : Nth(C, k) = i
      BY <1>4
    <3> QED
      BY <1>5, <3>1, <3>2
  <2>2. ASSUME NEW k \in DOMAIN cs, x \in cs[k] PROVE x \in Active(time)
    BY <1>2, <1>5, <2>2 DEF Active
  <2> QED
    BY <2>1, <2>2
<1>7. ASSUME NEW k \in DOMAIN cs, NEW l \in DOMAIN cs, k < l PROVE cs[k] \cap cs[l] = {}
  <2> DEFINE i == Nth(C, k)
             j == Nth(C, l)
  <2>1. i \in DOMAIN E /\ j \in DOMAIN E /\ i < j /\ Covers(E[i], time) /\ Covers(E[j], time)
    BY <1>2, <1>3, <1>4, <1>5, <1>7
  <2> HIDE DEF i, j
  <2>2. ~(E[i].agent \cap E[j].agent # {})
    BY <1>1, <2>1, SamplesFollow
  <2> QED
    BY <1>5, <2>2 DEF i, j
<1>8. \A k, l \in DOMAIN cs : k # l => cs[k] \cap cs[l] = {}
  <2> SUFFICES ASSUME NEW k \in DOMAIN cs, NEW l \in DOMAIN cs, k # l PROVE cs[k] \cap cs[l] = {}
    OBVIOUS
  <2>1. k \in Nat /\ l \in Nat
    BY <1>4, <1>5
  <2>2. k < l \/ l < k
    BY <2>1
  <2>3. CASE k < l
    BY <1>7, <2>3
  <2>4. CASE l < k
    <3>1. cs[l] \cap cs[k] = {}
      BY <1>7, <2>4
    <3> QED
      BY <3>1
  <2> QED
    BY <2>2, <2>3, <2>4
<1>9. UNION Range(cs) = Active(time)
  BY <1>6 DEF Range
<1>10. IsFiniteSet(DOMAIN cs)
  <2>1. IsFiniteSet(1 .. Cardinality(C))
    BY <1>4, FS_Interval
  <2> QED
    BY <1>5, <2>1
<1> QED
  BY <1>6, <1>8, <1>9, <1>10 DEF Parted, cs

(* By agents, what is accounted is everything that is spent.               *)
LEMMA AccountedIsSpent ==
  ASSUME AnalysisInvariant, Documented, NEW time \in DOMAIN statusesAt
  PROVE  SumFunctionOnSet(Reductions(time), DOMAIN Reductions(time)) = SumFunctionOnSet(Spent(time), Spendings(time))
<1> DEFINE cs == CoalitionStructure(time)
           A == Active(time)
           used == [a \in A |-> EnergyReductionOf(a, time)]
           of == [a \in A |-> {p \in Spendings(time) : p[2] = a}]
           reductions == Reductions(time)
<1>1. AnalysisTypeOK /\ time \in Nat
  <2>1. time \in 0 .. StatusMaxTime
    BY IndexedTimes
  <2> QED
    BY <2>1 DEF AnalysisInvariant
<1>2. /\ IsFiniteSet(A) /\ IsFiniteSet(Spendings(time))
      /\ \A p \in Spendings(time) : Spent(time)[p] \in Int
  BY <1>1, SpendingsAreFinite
<1>3. IsFiniteSet(DOMAIN cs) /\ Parted(cs, DOMAIN cs, A)
  BY CoalitionsDivide
<1>4. \A a \in A : used[a] = SumFunctionOnSet(Spent(time), of[a])
  BY ReductionIsSpent
<1>5. \A a \in A : of[a] \in SUBSET Spendings(time)
  OBVIOUS
<1>6. Parted(of, A, Spendings(time))
  BY DEF Parted, Spendings
<1>7. \A k \in DOMAIN cs : \A a \in cs[k] : a \in A
  BY <1>3 DEF Parted
<1> HIDE DEF of, A
<1>8. \A a \in A : used[a] \in Int
  <2> TAKE a \in A
  <2>1. IsFiniteSet(of[a]) /\ \A p \in of[a] : Spent(time)[p] \in Int
    BY <1>2, <1>5, FS_Subset
  <2>2. SumFunctionOnSet(Spent(time), of[a]) \in Int
    BY <2>1, SumIsInt
  <2> QED
    BY <1>4, <2>2
<1>9. SumFunctionOnSet(used, A) = SumFunctionOnSet(Spent(time), Spendings(time))
  <2> HIDE DEF used
  <2> QED
    BY <1>2, <1>4, <1>6, SumOfPartialSums
<1>10. DOMAIN reductions = DOMAIN cs
  BY DEF Reductions
<1>11. \A k \in DOMAIN cs : reductions[k] = SumFunctionOnSet(used, cs[k])
  <2> TAKE k \in DOMAIN cs
  <2> DEFINE f == [a \in cs[k] |-> EnergyReductionOf(a, time)]
  <2>1. reductions[k] = SumFunctionOnSet(f, cs[k])
    BY DEF Reductions, EnergyReduction
  <2>2. \A a \in cs[k] : used[a] \in Int /\ used[a] = f[a]
    BY <1>7, <1>8
  <2>3. IsFiniteSet(cs[k])
    <3>1. cs[k] \in SUBSET A
      BY <1>7
    <3> QED
      BY <1>2, <3>1, FS_Subset
  <2> HIDE DEF f, used, cs
  <2>4. SumFunctionOnSet(used, cs[k]) = SumFunctionOnSet(f, cs[k])
    BY <2>2, <2>3, SumIsDetermined
  <2> QED
    BY <2>1, <2>4
<1> HIDE DEF used, cs, reductions
<1>12. SumFunctionOnSet(reductions, DOMAIN cs) = SumFunctionOnSet(used, A)
  BY <1>2, <1>3, <1>8, <1>11, SumOfPartialSums
<1> QED
  BY <1>9, <1>10, <1>12 DEF reductions

(* What the property says has been spent.                                  *)
Begun(time) == {s \in Range(statuses.elements) : s.since <= time}
ActiveIn(time) == UNION Range(CoalitionStructure(time))
SpentIn(time) ==
  [s \in Begun(time) |-> [a \in s.agent \cap ActiveIn(time) |-> PartOf(s, Consumption(s), a, time)]]
SumsIn(time) == [s \in Begun(time) |-> SumFunctionOnSet(SpentIn(time)[s], s.agent \cap ActiveIn(time))]

(* By samples, too.                                                        *)
LEMMA SpentBySamples ==
  ASSUME AnalysisInvariant, NEW time \in Nat, ActiveIn(time) = Active(time)
  PROVE  SumFunctionOnSet(SumsIn(time), Begun(time)) = SumFunctionOnSet(Spent(time), Spendings(time))
<1> DEFINE begun == Begun(time)
           spent == SpentIn(time)
           sums == SumsIn(time)
           E == statuses.elements
           A == Active(time)
           of == [s \in begun |-> {p \in Spendings(time) : E[p[1]] = s}]
<1>a. \A s \in begun : \A a \in s.agent \cap A : spent[s][a] = Provided(s, a, time)
  BY DEF Provided, SpentIn
<1>b. \A s \in begun : sums[s] = SumFunctionOnSet(spent[s], s.agent \cap A)
  BY DEF SumsIn
<1> HIDE DEF spent, sums
<1>1. AnalysisTypeOK /\ ElementsAreOrdered /\ E \in Seq(StatusSamples) /\ Len(E) \in Nat /\ DOMAIN E = 1 .. Len(E)
  BY DEF AnalysisInvariant, AnalysisTypeOK, IsVector
<1>2. /\ IsFiniteSet(DOMAIN E) /\ IsFiniteSet(A) /\ IsFiniteSet(Spendings(time))
      /\ \A p \in Spendings(time) : Spent(time)[p] \in Int
  BY <1>1, SpendingsAreFinite
<1>3. \A s : s \in begun <=> s.since <= time /\ \E i \in DOMAIN E : E[i] = s
  BY DEF Range, Begun
<1>4. \A i, j \in DOMAIN E : E[i] = E[j] => i = j
  <2> SUFFICES ASSUME NEW i \in DOMAIN E, NEW j \in DOMAIN E, E[i] = E[j] PROVE i = j
    OBVIOUS
  <2>1. ~(i < j) /\ ~(j < i)
    BY <1>1 DEF ElementsAreOrdered
  <2> QED
    BY <1>1, <2>1
<1>5. IsFiniteSet(begun)
  <2> DEFINE k == [i \in DOMAIN E |-> E[i]]
  <2>1. k \in Surjection(DOMAIN E, Range(E))
    BY DEF Surjection, Range
  <2> HIDE DEF k
  <2>2. IsFiniteSet(Range(E))
    BY <1>2, <2>1, FS_Surjection
  <2>3. begun \in SUBSET Range(E)
    BY DEF Begun
  <2> QED
    BY <2>2, <2>3, FS_Subset
<1>6. Parted(of, begun, Spendings(time))
  <2>1. \A s, u \in begun : s # u => of[s] \cap of[u] = {}
    OBVIOUS
  <2>2. \A p \in Spendings(time) : E[p[1]] \in begun
    BY <1>3 DEF Spendings
  <2> HIDE DEF E
  <2> QED
    BY <2>1, <2>2 DEF Parted
<1>7. ASSUME NEW s \in begun
      PROVE  sums[s] = SumFunctionOnSet(Spent(time), of[s])
  <2> DEFINE S == s.agent \cap A
  <2>1. PICK i \in DOMAIN E : E[i] = s
    BY <1>3
  <2> DEFINE h == [a \in S |-> <<i, a>>]
  <2>2. s \in StatusSamples
    BY <1>1, <2>1
  <2>3. IsFiniteSet(S)
    BY <1>2, FS_Intersection
  <2>4. ASSUME NEW a \in S
        PROVE  h[a] \in of[s] /\ spent[s][a] \in Int /\ Spent(time)[h[a]] = spent[s][a]
    <3>1. h[a] = <<i, a>>
      OBVIOUS
    <3>2. h[a] \in Spendings(time) /\ E[h[a][1]] = s
      BY <1>3, <2>1, <3>1 DEF Spendings
    <3>3. Spent(time)[h[a]] = Provided(s, a, time)
      BY <2>1, <3>1, <3>2 DEF Spent
    <3>4. Provided(s, a, time) \in Int
      BY <2>2, ProvidedIsInt
    <3> QED
      BY <1>a, <3>2, <3>3, <3>4
  <2>5. \A a, b \in S : h[a] = h[b] => a = b
    OBVIOUS
  <2>6. \A p \in of[s] : \E a \in S : h[a] = p
    <3> TAKE p \in of[s]
    <3>1. p = <<p[1], p[2]>> /\ p[1] \in DOMAIN E /\ p[2] \in A /\ p[2] \in E[p[1]].agent /\ E[p[1]] = s
      BY DEF Spendings
    <3>2. p[1] = i
      BY <1>4, <2>1, <3>1
    <3> QED
      BY <3>1, <3>2
  <2> HIDE DEF h, S, of
  <2>7. SumFunctionOnSet(spent[s], S) = SumFunctionOnSet(Spent(time), of[s])
    BY <2>3, <2>4, <2>5, <2>6, SumReindexed
  <2> QED
    BY <1>b, <2>7 DEF S
<1> HIDE DEF of, begun
<1>8. SumFunctionOnSet(sums, begun) = SumFunctionOnSet(Spent(time), Spendings(time))
  BY <1>2, <1>5, <1>6, <1>7, SumOfPartialSums
<1> QED
  BY <1>8 DEF begun, sums

(* Both ways to count are the same.                                        *)
LEMMA EnergyAddsUp == AnalysisInvariant => EnergyIsAccounted
<1> SUFFICES ASSUME AnalysisInvariant, Documented PROVE EnergyIsAccounted
  BY DEF EnergyIsAccounted
<1>1. ASSUME NEW a \in DOMAIN samplesOf PROVE Alive(statuses, samplesOf[a])
  <2>1. AgentsAreIndexed /\ IsVector(statuses, StatusSamples)
    BY DEF AnalysisInvariant, AnalysisTypeOK, Documented
  <2>2. samplesOf[a] \in Seq(Range(Pointers(statuses)))
    BY <2>1 DEF AgentsAreIndexed
  <2>3. \A p \in Range(Pointers(statuses)) : ~Dangles(statuses, p)
    BY <2>1, PointersPoint
  <2> QED
    BY <2>2, <2>3 DEF Alive, Range
<1>2. ASSUME NEW t \in DOMAIN statusesAt
      PROVE  SumFunctionOnSet(Reductions(t), DOMAIN Reductions(t)) = SumFunctionOnSet(SumsIn(t), Begun(t))
  <2>1. t \in Nat
    <3>1. t \in 0 .. StatusMaxTime
      BY IndexedTimes
    <3> QED
      BY <3>1
  <2>2. ActiveIn(t) = Active(t)
    BY CoalitionsDivide DEF ActiveIn
  <2>5. SumFunctionOnSet(SumsIn(t), Begun(t)) = SumFunctionOnSet(Spent(t), Spendings(t))
    BY <2>1, <2>2, SpentBySamples
  <2> QED
    BY <2>5, AccountedIsSpent
<1> QED
  BY <1>1, <1>2 DEF EnergyIsAccounted, SumsIn, SpentIn, ActiveIn, Begun

(* For all samples and any consumption: what the agents of a time are       *)
(* accounted for is what their samples up to then cost, however often the   *)
(* index has been created and whatever has been asked before.              *)
THEOREM EnergyAccounted == AnalysisSpec => []EnergyIsAccounted
BY EnergyAddsUp, AnalysisInvariantHolds, PTL

(* How organizations are evaluated includes an analyser, beside redundancies*)
(* that it shares no state with.                                           *)
THEOREM EvaluationImplementsAnalysis == EvaluationSpec => AnalysisSpec
<1>1. EvaluationInit => AnalysisInit
  BY DEF EvaluationInit
<1>2. [EvaluationNext]_<<vars, analysis>> => [AnalysisNext]_analysis
  BY DEF EvaluationNext
<1> QED
  BY <1>1, <1>2, PTL DEF EvaluationSpec, AnalysisSpec

(* ... and so has its properties.                                           *)
THEOREM EvaluationIsRight == EvaluationSpec => [](RequirementsReachAgents /\ EnergyIsAccounted)
BY EvaluationImplementsAnalysis, RequirementsReach, EnergyAccounted, PTL
=================================================================================
