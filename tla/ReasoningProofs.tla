---------------------------- MODULE ReasoningProofs ----------------------------
(***************************************************************************)
(* What the queries promise for inputs of any size.  The algebra of model  *)
(* pools: what an operation makes of the entries of two maps is what it    *)
(* should make of their counts, though a model may be in one of them only, *)
(* or be in it with count 0.  The constraint solver, how pools are scaled  *)
(* to meet constraints, and what a reconfiguration costs.                  *)
(***************************************************************************)
EXTENDS Reasoning, AskQueriesProofs

-----------------------------------------------------------------------------
(* Inputs                                                                  *)

Constrained ==
  [kind : {"constraints"}, values : Robots,
   set : {S \in SUBSET (Conditions \cup FurtherConditions) : IsFiniteSet(S) /\ S # {}}]

Paired == [kind : {"pair"}, start : SparsePools, end : SparsePools]

Ranged == [kind : {"range"}, start : SparsePools, end : SparsePools, step : SparsePools]

Divided == [kind : {"division"}, from : Partitions(DividedAgents)]

Reconfigured ==
  [kind : {"reconfiguration"}, from : Partitions(DividedAgents), to : Partitions(DividedAgents)]

(* Inputs that need no ontology are of a kind, and of its type.            *)
InputTypeOK ==
  \/ case.kind \in {"none", "ontology", "crew", "company", "ask", "request", "team"}
  \/ case \in Constrained \/ case \in Paired \/ case \in Ranged
  \/ case \in Divided \/ case \in Reconfigured

(* They remain so.                                                         *)
LEMMA InputsKeepTheirType == Spec => []InputTypeOK
<1>1. Init => InputTypeOK
  BY DEF Init, InputTypeOK
<1>2. InputTypeOK /\ [Next]_case => InputTypeOK'
  <2> SUFFICES ASSUME InputTypeOK, [Next]_case PROVE InputTypeOK'
    OBVIOUS
  <2>1. ASSUME LoadOntology \/ Gather PROVE InputTypeOK'
    BY <2>1 DEF LoadOntology, Gather, InputTypeOK
  <2>2. ASSUME Prepare PROVE InputTypeOK'
    <3>1. case'.kind \in {"company", "ask"}
      BY <2>2 DEF Prepare
    <3> QED
      BY <3>1 DEF InputTypeOK
  <2>3. ASSUME Request \/ Form PROVE InputTypeOK'
    <3>1. case'.kind \in {"request", "team"}
      BY <2>3 DEF Request, Form
    <3> QED
      BY <3>1 DEF InputTypeOK
  <2>4. ASSUME Constrain PROVE InputTypeOK'
    <3>1. PICK c \in Conditions, d \in Conditions, values \in Robots :
            case' = [kind |-> "constraints", values |-> values, set |-> {c, d}]
      BY <2>4 DEF Constrain
    <3>2. IsFiniteSet({c, d})
      <4>1. IsFiniteSet({c} \cup {d}) /\ {c, d} = {c} \cup {d}
        BY FS_Singleton, FS_Union
      <4> QED
        BY <4>1
    <3>3. case' \in Constrained
      BY <3>1, <3>2 DEF Constrained
    <3> QED
      BY <3>3 DEF InputTypeOK
  <2>5. ASSUME ConstrainMore PROVE InputTypeOK'
    <3>1. PICK e \in FurtherConditions : case' = [case EXCEPT !.set = @ \cup {e}]
      BY <2>5 DEF ConstrainMore
    <3>2. case \in Constrained
      BY <2>5 DEF ConstrainMore, InputTypeOK, Constrained, Paired, Ranged, Divided, Reconfigured
    <3>3. IsFiniteSet(case.set \cup {e})
      BY <3>2, FS_AddElement DEF Constrained
    <3>4. case' \in Constrained
      BY <3>1, <3>2, <3>3 DEF Constrained
    <3> QED
      BY <3>4 DEF InputTypeOK
  <2>6. ASSUME Choose PROVE InputTypeOK'
    <3>1. case' \in Paired
      BY <2>6 DEF Choose, Paired
    <3> QED
      BY <3>1 DEF InputTypeOK
  <2>7. ASSUME Walk PROVE InputTypeOK'
    <3>1. case \in Paired
      BY <2>7 DEF Walk, InputTypeOK, Constrained, Paired, Ranged, Divided, Reconfigured
    <3>2. case' \in Ranged
      BY <2>7, <3>1 DEF Walk, Paired, Ranged
    <3> QED
      BY <3>2 DEF InputTypeOK
  <2>8. ASSUME Divide PROVE InputTypeOK'
    <3>1. case' \in Divided
      BY <2>8 DEF Divide, Divided
    <3> QED
      BY <3>1 DEF InputTypeOK
  <2>9. ASSUME Reconfigure PROVE InputTypeOK'
    <3>1. case \in Divided
      BY <2>9 DEF Reconfigure, InputTypeOK, Constrained, Paired, Ranged, Divided, Reconfigured
    <3>2. case' \in Reconfigured
      BY <2>9, <3>1 DEF Reconfigure, Divided, Reconfigured
    <3> QED
      BY <3>2 DEF InputTypeOK
  <2>10. ASSUME case' = case PROVE InputTypeOK'
    BY <2>10 DEF InputTypeOK, Constrained, Paired, Ranged, Divided, Reconfigured
  <2> QED
    BY <2>1, <2>2, <2>3, <2>4, <2>5, <2>6, <2>7, <2>8, <2>9, <2>10 DEF Next
<1> QED
  BY <1>1, <1>2, PTL DEF Spec

(* What CompositionsCover says of any pools.                               *)
THEOREM CompositionsCovered == Spec => []CompositionsCover
<1>1. InputTypeOK => CompositionsCover
  <2> SUFFICES ASSUME InputTypeOK, case.kind = "range" PROVE CompositionsCover
    BY DEF CompositionsCover
  <2>1. case \in Ranged
    BY DEF InputTypeOK, Constrained, Paired, Ranged, Divided, Reconfigured
  <2> DEFINE a == case.start
             b == case.end
             c == case.step
             A == {a, Sum(a, c)}
             B == {b, c}
             all == <<a, b, c>>
             delta == Delta(a, b)
  <2>2. /\ IsPool(a) /\ IsPool(b) /\ IsPool(c)
        /\ \A p \in SparsePools : IsPool(p)
    BY <2>1, InputsAreReal DEF InputAssumption, Ranged
  <2>3. /\ A # {} /\ \A x \in A : IsPool(x)
        /\ B # {} /\ \A x \in B : IsPool(x)
    BY <2>2, SumByCounts
  <2>4. all \in Seq(AllMaps) /\ all # <<>> /\ \A i \in DOMAIN all : IsPool(all[i])
    BY <2>2, PoolsAreMaps
  <2> HIDE DEF a, b, c, A, B, all, delta
  <2>5. ASSUME NEW p \in SparsePools
        PROVE  /\ Meets(p, MaxCompositions(A, B)) <=> Meets(p, A) /\ Meets(p, B)
               /\ Meets(p, ExpandToLowerBound(A, b)) <=> Meets(p, A) /\ IsSubset(b, p)
               /\ Meets(p, ExpandedCombinations({Compact(x) : x \in A}, b))
                    <=> Meets(p, A) /\ IsSubset(b, p)
               /\ SufficientCombinations({Compact(p)}, b) # {} <=> IsSubset(b, p)
               /\ IsSubset(MaxOfList(all), p) <=> \A i \in DOMAIN all : IsSubset(all[i], p)
               /\ (\A i \in DOMAIN all : IsSubset(p, all[i])) => IsSubset(p, MinOfList(all))
               /\ BoundedCombinations({Compact(p)}, [m \in DOMAIN p |-> Count(b, m)]) # {}
                    <=> IsSubset(p, b)
    <3>0. IsPool(p)
      BY <2>2
    <3>1. Meets(p, MaxCompositions(A, B)) <=> Meets(p, A) /\ Meets(p, B)
      BY <2>3, <3>0, CompositionsMeetBoth
    <3>2. Meets(p, ExpandToLowerBound(A, b)) <=> Meets(p, A) /\ IsSubset(b, p)
      BY <2>2, <2>3, <3>0, ExpansionMeetsBound
    <3>3. Meets(p, ExpandedCombinations({Compact(x) : x \in A}, b)) <=> Meets(p, A) /\ IsSubset(b, p)
      BY <2>2, <2>3, <3>0, ExpandedMeets
    <3>4. SufficientCombinations({Compact(p)}, b) # {} <=> IsSubset(b, p)
      BY <2>2, <3>0, SufficientIncludes
    <3>5. IsSubset(MaxOfList(all), p) <=> \A i \in DOMAIN all : IsSubset(all[i], p)
      BY <2>4, <3>0, MaxOfListIsLeast
    <3>6. (\A i \in DOMAIN all : IsSubset(p, all[i])) => IsSubset(p, MinOfList(all))
      BY <2>4, <3>0, MinOfListIncludes
    <3>7. BoundedCombinations({Compact(p)}, [m \in DOMAIN p |-> Count(b, m)]) # {} <=> IsSubset(p, b)
      BY <2>2, <3>0, BoundedIncluded
    <3> QED
      BY <3>1, <3>2, <3>3, <3>4, <3>5, <3>6, <3>7
  <2>6. IsSubset(a, b) => /\ Compact(Sum(a, delta)) = Compact(b)
                          /\ a # delta => Merge(a, delta) = Compact(b)
                          /\ Compact(PoolMax(a, b)) = Compact(b)
    BY <2>2, DeltaCompletes, DeltaMerges, MaxOfPart DEF delta
  <2>7. IsSubset(a, b) <=> IsSubset(Compact(a), Compact(b))
    <3>1. IsPool(Compact(b))
      BY <2>2, CompactByCounts
    <3> QED
      BY <2>2, <3>1, CompactIncludes
  <2> QED
    BY <2>5, <2>6, <2>7 DEF CompositionsCover, Meets, IsSuperset, a, b, c, A, B, all, delta
<1> QED
  BY <1>1, InputsKeepTheirType, PTL

-----------------------------------------------------------------------------
(* Constraints                                                             *)

(* The bounds the solver is after exist.                                    *)
LEMMA MergeSolves ==
  ASSUME NEW C, IsFiniteSet(C), \A c \in C : IsConstraint(c)
  PROVE  \E min, max : Solved(C, min, max)
<1> DEFINE lower == Lower(C) \cup {-Unbounded}
           upper == Upper(C) \cup {Unbounded}
           min == Greatest(lower)
           max == CHOOSE u \in upper : \A k \in upper : u <= k
<1>1. lower \subseteq Int /\ upper \subseteq Int
  <2>1. Unbounded \in Int /\ -Unbounded \in Int
    BY DEF Unbounded
  <2>2. \A c \in C : c.value \in Int
    BY <2>1 DEF IsConstraint
  <2>3. Lower(C) \subseteq Int /\ Upper(C) \subseteq Int
    BY <2>2 DEF Lower, Upper
  <2> QED
    BY <2>1, <2>3
<1>2. IsFiniteSet(lower) /\ IsFiniteSet(upper)
  BY BoundsAreFinite, FS_Singleton, FS_Union
<1>3. min \in lower /\ \A k \in lower : k <= min
  <2>1. \E m \in lower : \A k \in lower : k <= m
    <3> HIDE DEF lower
    <3> QED
      BY <1>1, <1>2, FiniteHasGreatest DEF lower
  <2> HIDE DEF lower
  <2> QED
    BY <2>1 DEF Greatest
<1>4. max \in upper /\ \A k \in upper : max <= k
  <2>1. \E m \in upper : \A k \in upper : m <= k
    <3> HIDE DEF upper
    <3> QED
      BY <1>1, <1>2, FiniteHasLeast DEF upper
  <2> HIDE DEF upper
  <2> QED
    BY <2>1
<1>5. Merged(C) = IF \/ min > max \/ max < 0
                     \/ min = max /\ \E c \in C : c.type \in {LESS_THAN, GREATER_THAN} /\ c.value = min
                  THEN Conflict ELSE <<Larger(0, min), max>>
  <2>1. Merged(C) = IF min > max \/ (min = max /\ \E c \in C : c.type \in {LESS_THAN, GREATER_THAN} /\ c.value = min)
                       \/ max < 0
                    THEN Conflict ELSE <<Larger(0, min), max>>
    BY DEF Merged, Lower, Upper
  <2> HIDE DEF min, max
  <2> QED
    BY <2>1
<1>6. min \in Int /\ max \in Int
  BY <1>1, <1>3, <1>4
<1> HIDE DEF min, max
<1>7. Solved(C, min, max)
  BY <1>3, <1>4, <1>5, <1>6 DEF Solved
<1> QED
  BY <1>7

(* A value that meets the constraints is within the bounds, and one between*)
(* them meets the constraints.                                             *)
THEOREM BoundsAreExact ==
  ASSUME NEW C, IsFiniteSet(C), \A c \in C : IsConstraint(c), NEW v \in 0 .. Unbounded
  PROVE  /\ (\A c \in C : Compare(c.type, v, c.value)) =>
              Merged(C) # Conflict /\ Merged(C)[1] <= v /\ v <= Merged(C)[2]
         /\ Merged(C) # Conflict /\ Merged(C)[1] < v /\ v < Merged(C)[2] =>
              \A c \in C : Compare(c.type, v, c.value)
<1>1. PICK min, max : Solved(C, min, max)
  BY MergeSolves
<1>2. /\ min \in Int /\ max \in Int /\ v \in Nat /\ v <= Unbounded /\ Unbounded \in Nat
      /\ min \in Lower(C) \cup {-Unbounded} /\ max \in Upper(C) \cup {Unbounded}
  BY <1>1 DEF Solved, Unbounded
<1>3. \A c \in C : /\ c.value \in Int
                   /\ c.type \in {EQUAL, GREATER_EQUAL, GREATER_THAN} => c.value <= min
                   /\ c.type \in {EQUAL, LESS_THAN, LESS_EQUAL} => max <= c.value
  BY <1>1 DEF Solved, Lower, Upper, IsConstraint
<1> USE DEF EQUAL, LESS_THAN, LESS_EQUAL, GREATER_EQUAL, GREATER_THAN
<1>4. \A c \in C : Compare(c.type, v, c.value) <=>
                     CASE c.type = 1 -> v = c.value
                       [] c.type = 2 -> v < c.value
                       [] c.type = 3 -> v <= c.value
                       [] c.type = 4 -> v >= c.value
                       [] c.type = 5 -> v > c.value
                       [] OTHER -> TRUE
  BY DEF Compare
<1>5. \A c \in C : c.type \in 1 .. 5
  BY DEF IsConstraint
<1>6. ASSUME \A c \in C : Compare(c.type, v, c.value)
      PROVE  Merged(C) # Conflict /\ Merged(C)[1] <= v /\ v <= Merged(C)[2]
  <2>1. \A c \in C : /\ c.type \in {1, 4, 5} => c.value <= v
                     /\ c.type \in {1, 2, 3} => v <= c.value
                     /\ c.type \in {2, 5} => c.value # v
    BY <1>3, <1>4, <1>5, <1>6
  <2>2. min <= v /\ v <= max
    BY <1>2, <2>1 DEF Lower, Upper
  <2>3. ~ \E c \in C : c.type \in {2, 5} /\ c.value = v
    BY <2>1
  <2>4. Merged(C) = <<Larger(0, min), max>>
    <3>1. ~(min > max) /\ ~(max < 0) /\ (min = max => min = v)
      BY <1>2, <2>2
    <3> QED
      BY <1>1, <2>3, <3>1 DEF Solved
  <2>5. Larger(0, min) <= v
    BY <1>2, <2>2 DEF Larger
  <2> QED
    BY <2>2, <2>4, <2>5 DEF Conflict
<1>7. ASSUME Merged(C) # Conflict, Merged(C)[1] < v, v < Merged(C)[2], NEW c \in C
      PROVE  Compare(c.type, v, c.value)
  <2>1. Merged(C) = <<Larger(0, min), max>>
    BY <1>1, <1>7 DEF Solved
  <2>2. min < v /\ v < max
    BY <1>2, <1>7, <2>1 DEF Larger
  <2> QED
    BY <1>2, <1>3, <1>4, <1>5, <2>2
<1> QED
  BY <1>6, <1>7

(* What MergedIsExact says of all sets of constraints.                     *)
THEOREM MergedExact == Spec => []MergedIsExact
<1>1. InputTypeOK => MergedIsExact
  <2> SUFFICES ASSUME InputTypeOK, case.kind = "constraints" PROVE MergedIsExact
    BY DEF MergedIsExact
  <2>1. case \in Constrained
    BY DEF InputTypeOK, Constrained, Paired, Ranged, Divided, Reconfigured
  <2>2. IsFiniteSet(case.set) /\ \A c \in case.set : IsConstraint(c)
    BY <2>1, InputsAreReal DEF Constrained, InputAssumption, IsConstraint
  <2>3. \A c, d \in case.set : Before(c, d) <=> c # d /\ ~Before(d, c)
    <3> SUFFICES ASSUME NEW c \in case.set, NEW d \in case.set PROVE Before(c, d) <=> c # d /\ ~Before(d, c)
      OBVIOUS
    <3>1. /\ c.type \in Nat /\ c.property \in Nat /\ c.value \in Nat /\ c.reference = 0
          /\ d.type \in Nat /\ d.property \in Nat /\ d.value \in Nat /\ d.reference = 0
      BY <2>2 DEF IsConstraint, Constraint, NoReference, EQUAL, LESS_THAN, LESS_EQUAL, GREATER_EQUAL, GREATER_THAN
    <3>2. c # d <=> c.type # d.type \/ c.property # d.property \/ c.value # d.value
      BY <2>2 DEF IsConstraint
    <3> QED
      BY <3>1, <3>2 DEF Before
  <2>4. ASSUME NEW p \in {c.property : c \in case.set}
        PROVE  LET cluster == Clusters(case.set)[p] IN IsFiniteSet(cluster) /\ \A c \in cluster : IsConstraint(c)
    <3>1. Clusters(case.set)[p] = {c \in case.set : c.property = p}
      BY DEF Clusters
    <3>2. IsFiniteSet({c \in case.set : c.property = p})
      BY <2>2, FS_Subset
    <3> QED
      BY <2>2, <3>1, <3>2
  <2>5. \A v \in Observed : v \in 0 .. Unbounded
    BY InputsAreReal DEF InputAssumption
  <2> QED
    BY <2>3, <2>4, <2>5, BoundsAreExact DEF MergedIsExact
<1> QED
  BY <1>1, InputsKeepTheirType, PTL

-----------------------------------------------------------------------------
(* Scaling a pool until it meets constraints                               *)

(* Merged constraints are bounds, or conflict; a value within them meets   *)
(* all that include their end.                                             *)
LEMMA MergedAreBounds ==
  ASSUME NEW C, IsFiniteSet(C), \A c \in C : IsConstraint(c)
  PROVE  /\ AreBounds(Merged(C))
         /\ \A v \in Nat : Fits(1, v, Merged(C)) /\ (\A c \in C : c.type \notin {LESS_THAN, GREATER_THAN}) =>
              \A c \in C : Compare(c.type, v, c.value)
<1>1. PICK min, max : Solved(C, min, max)
  BY MergeSolves
<1>2. /\ min \in Int /\ max \in Int /\ Unbounded \in Nat
      /\ min \in Lower(C) \cup {-Unbounded} /\ max \in Upper(C) \cup {Unbounded}
      /\ max <= Unbounded
  BY <1>1, InfiniteIsBeyond DEF Solved
<1>3. \A c \in C : /\ c.value \in Int /\ c.value <= Unbounded
                   /\ c.type \in {EQUAL, GREATER_EQUAL, GREATER_THAN} => c.value <= min
                   /\ c.type \in {EQUAL, LESS_THAN, LESS_EQUAL} => max <= c.value
                   /\ c.type \in {EQUAL, LESS_THAN, LESS_EQUAL, GREATER_EQUAL, GREATER_THAN}
  <2>1. \A c \in C : c.value \in 0 .. Unbounded - 1
                     /\ c.type \in {EQUAL, LESS_THAN, LESS_EQUAL, GREATER_EQUAL, GREATER_THAN}
    BY DEF IsConstraint
  <2> QED
    BY <1>1, <1>2, <2>1 DEF Solved, Lower, Upper
<1>4. min <= Unbounded
  <2>1. \A k \in Lower(C) : k <= Unbounded
    BY <1>3 DEF Lower
  <2>2. -Unbounded <= Unbounded
    BY <1>2
  <2> QED
    BY <1>2, <2>1, <2>2
<1>5. Merged(C) # Conflict => /\ Merged(C) = <<Larger(0, min), max>>
                              /\ max >= 0
  BY <1>1, <1>2 DEF Solved
<1>6. Larger(0, min) \in 0 .. Unbounded /\ (max >= 0 => max \in 0 .. Unbounded)
  BY <1>2, <1>4 DEF Larger
<1>7. AreBounds(Merged(C))
  BY <1>5, <1>6 DEF AreBounds
<1>8. ASSUME NEW v \in Nat, Fits(1, v, Merged(C)), \A c \in C : c.type \notin {LESS_THAN, GREATER_THAN}, NEW c \in C
      PROVE  Compare(c.type, v, c.value)
  <2>1. Merged(C) = <<Larger(0, min), max>> /\ 1 * v = v
    BY <1>5, <1>8 DEF Fits, Reaches
  <2>2. Larger(0, min) <= v /\ v <= max
    BY <1>2, <1>6, <1>8, <2>1 DEF Fits, Reaches
  <2>3. min <= v
    BY <1>2, <2>2 DEF Larger
  <2>4. c.type \in {EQUAL, LESS_EQUAL, GREATER_EQUAL}
    BY <1>3, <1>8
  <2>5. /\ c.type = EQUAL => c.value <= min /\ max <= c.value
        /\ c.type = LESS_EQUAL => max <= c.value
        /\ c.type = GREATER_EQUAL => c.value <= min
    BY <1>3
  <2>6. /\ c.type = EQUAL => v = c.value
        /\ c.type = LESS_EQUAL => v <= c.value
        /\ c.type = GREATER_EQUAL => v >= c.value
    BY <1>2, <1>3, <1>8, <2>2, <2>3, <2>5
  <2> QED
    BY <2>4, <2>6 DEF Compare, EQUAL, LESS_THAN, LESS_EQUAL, GREATER_EQUAL, GREATER_THAN
<1> QED
  BY <1>7, <1>8

(* The constraints of a property, for finitely many of them.                *)
LEMMA ClustersAreFinite ==
  ASSUME NEW C, IsFiniteSet(C), \A c \in C : IsConstraint(c)
  PROVE  /\ IsFiniteSet(DOMAIN Clusters(C)) /\ DOMAIN Clusters(C) \subseteq Nat \ {0}
         /\ \A c \in C : c.property \in DOMAIN Clusters(C) /\ c \in Clusters(C)[c.property]
         /\ \A p \in DOMAIN Clusters(C) :
               /\ IsFiniteSet(Clusters(C)[p])
               /\ \A c \in Clusters(C)[p] : c \in C /\ c.property = p /\ IsConstraint(c)
<1> DEFINE P == {c.property : c \in C}
<1>1. DOMAIN Clusters(C) = P /\ \A p \in P : Clusters(C)[p] = {c \in C : c.property = p}
  BY DEF Clusters
<1>2. IsFiniteSet(P)
  <2> DEFINE g == [c \in C |-> c.property]
  <2>1. g \in Surjection(C, P)
    BY DEF Surjection
  <2> HIDE DEF P, g
  <2> QED
    BY <2>1, FS_Surjection
<1>3. P \subseteq Nat \ {0}
  BY DEF IsConstraint
<1>4. \A p \in P : IsFiniteSet({c \in C : c.property = p})
  BY FS_Subset
<1> QED
  BY <1>1, <1>2, <1>3, <1>4

(* What ScalingIsLeast says of all robots and sets of constraints: the     *)
(* factor getScalingFactor returns is the least that gives enough of       *)
(* everything, and none is returned only if none will do.                  *)
THEOREM ScalingLeast == Spec => []ScalingIsLeast
<1>1. InputTypeOK => ScalingIsLeast
  <2> SUFFICES ASSUME InputTypeOK, case.kind = "constraints" PROVE ScalingIsLeast
    BY DEF ScalingIsLeast
  <2> DEFINE C == case.set
             values == case.values
             clusters == Clusters(C)
             bounds == [p \in DOMAIN clusters |-> Merged(clusters[p])]
             factor == ScalingFactor(values, C)
  <2>1. case \in Constrained
    BY DEF InputTypeOK, Constrained, Paired, Ranged, Divided, Reconfigured
  <2>2. IsFiniteSet(C) /\ (\A c \in C : IsConstraint(c)) /\ \A c \in C : values[c.property] \in 0 .. Unbounded
    BY <2>1, InputsAreReal DEF Constrained, InputAssumption, IsConstraint
  <2>3. /\ IsFiniteSet(DOMAIN clusters) /\ DOMAIN clusters \subseteq Nat \ {0}
        /\ \A c \in C : c.property \in DOMAIN clusters /\ c \in clusters[c.property]
        /\ \A p \in DOMAIN clusters :
              /\ IsFiniteSet(clusters[p])
              /\ \A c \in clusters[p] : c \in C /\ c.property = p /\ IsConstraint(c)
    BY <2>2, ClustersAreFinite
  <2>4. \A p \in DOMAIN clusters : values[p] \in 0 .. Unbounded /\ AreBounds(Merged(clusters[p]))
    <3> SUFFICES ASSUME NEW p \in DOMAIN clusters PROVE values[p] \in 0 .. Unbounded /\ AreBounds(Merged(clusters[p]))
      OBVIOUS
    <3>1. \E c \in C : c.property = p
      BY DEF Clusters
    <3>2. values[p] \in 0 .. Unbounded
      BY <2>2, <3>1
    <3> HIDE DEF clusters
    <3> QED
      BY <2>3, <3>2, MergedAreBounds
  <2>5. FactorIsLeast(factor, DOMAIN clusters, values, bounds)
    BY <2>3, <2>4, ScalingIsTheLeast
  <2>6. Fulfills(values, C) <=> \A c \in C : Compare(c.type, values[c.property], c.value)
    <3>1. \A c \in C : c.reference = NoReference
      BY <2>2 DEF IsConstraint, Constraint
    <3> QED
      BY <3>1 DEF Fulfills
  <2> HIDE DEF factor, clusters
  <2>7. ASSUME Fulfills(values, C) PROVE factor = 1
    <3>1. ASSUME NEW p \in DOMAIN clusters PROVE Fits(1, values[p], bounds[p])
      <4>1. \A c \in clusters[p] : Compare(c.type, values[p], c.value)
        BY <2>3, <2>6, <2>7
      <4>2. Merged(clusters[p]) # Conflict /\ Merged(clusters[p])[1] <= values[p] /\ values[p] <= Merged(clusters[p])[2]
        BY <2>3, <2>4, <4>1, BoundsAreExact
      <4>3. 1 * values[p] = values[p]
        BY <2>4, InfiniteIsBeyond
      <4>4. PICK low, high \in 0 .. Unbounded : bounds[p] = <<low, high>>
        BY <2>4, <4>2 DEF AreBounds
      <4> QED
        BY <2>4, <4>2, <4>3, <4>4 DEF Fits, Reaches
    <3> HIDE DEF bounds
    <3> QED
      BY <2>5, <3>1 DEF FactorIsLeast
  <2>8. ASSUME factor = 1, \A c \in C : c.type \notin {LESS_THAN, GREATER_THAN} PROVE Fulfills(values, C)
    <3> SUFFICES ASSUME NEW c \in C PROVE Compare(c.type, values[c.property], c.value)
      BY <2>6
    <3> DEFINE p == c.property
    <3>1. p \in DOMAIN clusters /\ c \in clusters[p]
      BY <2>3
    <3>2. Fits(1, values[p], Merged(clusters[p]))
      BY <2>5, <2>8, <3>1 DEF FactorIsLeast
    <3>3. values[p] \in Nat
      BY <2>4, <3>1, InfiniteIsBeyond
    <3>4. \A d \in clusters[p] : d.type \notin {LESS_THAN, GREATER_THAN}
      BY <2>3, <2>8, <3>1
    <3> QED
      BY <2>3, <3>1, <3>2, <3>3, <3>4, MergedAreBounds
  <2> DEFINE Has(n, p) == bounds[p] # Conflict /\ n * values[p] >= bounds[p][1]
             Suits(n, p) == Has(n, p) /\ n * values[p] <= bounds[p][2]
  <2>9. \A n, p : (Has(n, p) <=> Reaches(n, values[p], bounds[p])) /\ (Suits(n, p) <=> Fits(n, values[p], bounds[p]))
    BY DEF Reaches, Fits
  <2>10. factor = 0 => \A n \in 1 .. 6 : \E p \in DOMAIN clusters : ~Suits(n, p)
    <3>1. \A n \in 1 .. 6 : n \in Nat \ {0}
      OBVIOUS
    <3> HIDE DEF Suits, Has, bounds
    <3> QED
      BY <2>5, <2>9, <3>1 DEF FactorIsLeast
  <2>11. factor \in 1 .. Infinite - 1 =>
           /\ \A p \in DOMAIN clusters : Has(factor, p)
           /\ \A n \in 1 .. factor - 1 : \E p \in DOMAIN clusters : ~Has(n, p)
           /\ Cardinality(DOMAIN clusters) = 1 => \A p \in DOMAIN clusters : Suits(factor, p)
    <3> DEFINE S == DOMAIN clusters
    <3>1. IsFiniteSet(S)
      BY <2>3
    <3> HIDE DEF S
    <3>2. Cardinality(S) = 1 => \E x : S = {x}
      BY <3>1, FS_Singleton
    <3>3. Cardinality(S) = 1 => \A p \in S : S = {p}
      BY <3>2
    <3>4. Cardinality(DOMAIN clusters) = 1 => \A p \in DOMAIN clusters : DOMAIN clusters = {p}
      BY <3>3 DEF S
    <3> HIDE DEF Suits, Has, bounds
    <3> QED
      BY <2>5, <2>9, <3>4 DEF FactorIsLeast
  <2>12. ~(factor = 0) /\ ~(factor \in 1 .. Infinite - 1) =>
           \A n \in 1 .. 6 : \E p \in DOMAIN clusters : ~Has(n, p)
    <3>1. ~(factor = 0) /\ ~(factor \in 1 .. Infinite - 1) => factor = Infinite
      BY <2>5, InfiniteIsBeyond DEF FactorIsLeast
    <3>2. \A n \in 1 .. 6 : n \in Nat
      OBVIOUS
    <3> HIDE DEF Suits, Has, bounds
    <3> QED
      BY <2>5, <2>9, <3>1, <3>2 DEF FactorIsLeast
  <2>13. ~(factor = 0 /\ factor \in 1 .. Infinite - 1)
    OBVIOUS
  <2>14. (CASE factor = 0 -> \A n \in 1 .. 6 : \E p \in DOMAIN clusters : ~Suits(n, p)
           [] factor \in 1 .. Infinite - 1 ->
                /\ \A p \in DOMAIN clusters : Has(factor, p)
                /\ \A n \in 1 .. factor - 1 : \E p \in DOMAIN clusters : ~Has(n, p)
                /\ Cardinality(DOMAIN clusters) = 1 => \A p \in DOMAIN clusters : Suits(factor, p)
           [] OTHER -> \A n \in 1 .. 6 : \E p \in DOMAIN clusters : ~Has(n, p))
    <3> HIDE DEF Suits, Has, bounds
    <3> QED
      BY <2>10, <2>11, <2>12, <2>13
  <2> QED
    BY <2>7, <2>8, <2>14, Zenon DEF ScalingIsLeast, factor, clusters
<1> QED
  BY <1>1, InputsKeepTheirType, PTL

-----------------------------------------------------------------------------
(* Support vectors, and the pools of a mapping                             *)

(* The restrictions of one model are those it has.                         *)
LEMMA BoundsOfOne ==
  ASSUME NEW o, NEW c, IsRestricted(o, c)
  PROVE  /\ DOMAIN SharedBounds(o, {c}) = DOMAIN o.has[c]
         /\ \A q \in DOMAIN o.has[c] : /\ SharedBounds(o, {c})[q]["min"] \in Nat
                                       /\ SharedBounds(o, {c})[q]["max"] \in Nat
<1> DEFINE bounds == SharedBounds(o, {c})
           Having(q) == {m \in {c} : q \in DOMAIN o.has[m]}
<1>1. DOMAIN bounds = DOMAIN o.has[c]
  BY DEF SharedBounds
<1>2. ASSUME NEW q \in DOMAIN o.has[c]
      PROVE  bounds[q]["min"] \in Nat /\ bounds[q]["max"] \in Nat
  <2>1. Having(q) = {c}
    OBVIOUS
  <2>2. bounds[q] = [min |-> Greatest({o.has[m][q].min : m \in Having(q)}),
                     max |-> Greatest({o.has[m][q].max : m \in Having(q)})]
    BY <1>1 DEF SharedBounds
  <2>3. {o.has[m][q].min : m \in Having(q)} = {o.has[c][q].min}
        /\ {o.has[m][q].max : m \in Having(q)} = {o.has[c][q].max}
    BY <2>1
  <2>4. o.has[c][q].min \in Nat /\ o.has[c][q].max \in Nat
    BY DEF IsRestricted
  <2>5. bounds[q] = [min |-> Greatest({o.has[c][q].min}), max |-> Greatest({o.has[c][q].max})]
    BY <2>2, <2>3, Zenon
  <2>6. bounds[q] = [min |-> o.has[c][q].min, max |-> o.has[c][q].max]
    BY <2>4, <2>5, GreatestOfOne
  <2> QED
    BY <2>4, <2>6
<1> QED
  BY <1>1, <1>2

(* What a model has of the classes asked for.                              *)
LEMMA SupportIsVector ==
  ASSUME NEW o, NEW c \in Nat, IsRestricted(o, c), NEW filter, IsFiniteSet(filter), filter \subseteq Nat,
         NEW side \in {"min", "max"}
  PROVE  /\ IsVector(SupportVector(o, {c}, filter, side))
         /\ filter = {} => DOMAIN SupportVector(o, {c}, filter, side) # {}
<1> DEFINE bounds == SharedBounds(o, {c})
           sizes == [q \in DOMAIN bounds |-> bounds[q][side]]
<1>1. DOMAIN sizes = DOMAIN o.has[c] /\ \A q \in DOMAIN sizes : bounds[q][side] \in Nat
  BY BoundsOfOne
<1>2. IsFiniteSet(DOMAIN sizes) /\ DOMAIN sizes \subseteq Nat
  BY <1>1 DEF IsRestricted
<1>3. sizes \in [DOMAIN sizes -> Nat]
  BY <1>1
<1>4. SupportVector(o, {c}, filter, side) = Dimensions(o, {c}, filter, sizes)
  BY DEF SupportVector
<1> HIDE DEF sizes
<1>5. IsVector(sizes)
  BY <1>2, <1>3 DEF IsVector
<1> DEFINE v == Dimensions(o, {c}, filter, sizes)
<1>6. /\ IsVector(v)
      /\ DOMAIN v = IF DOMAIN sizes # {} THEN IF filter = {} THEN DOMAIN sizes ELSE filter
                    ELSE IF filter = {} \/ c \in filter THEN {c} ELSE {}
  BY <1>5, DimensionsAreVectors
<1> HIDE DEF v
<1>7. filter = {} => DOMAIN v # {}
  BY <1>6
<1> QED
  BY <1>4, <1>6, <1>7 DEF v

(* What a functionality needs, and never of nothing.                       *)
LEMMA AskedIsVector ==
  ASSUME NEW o, NEW c \in Nat, IsRestricted(o, c)
  PROVE  LET asked == Asked(SupportVector(o, {c}, {}, "min"), c)
         IN  IsVector(asked) /\ DOMAIN asked # {}
<1> DEFINE required == SupportVector(o, {c}, {}, "min")
           asked == Asked(required, c)
<1>1. IsVector(required) /\ DOMAIN required # {}
  BY SupportIsVector, FS_EmptySet
<1>2. asked = IF NullVector(required) THEN [l \in {c} |-> 1] ELSE required
  BY DEF Asked
<1> HIDE DEF required, asked
<1>3. IsVector(asked) /\ DOMAIN asked # {}
  <2>1. CASE NullVector(required)
    <3>1. asked = [l \in {c} |-> 1]
      BY <1>2, <2>1
    <3>2. IsFiniteSet({c})
      BY FS_Singleton
    <3>3. DOMAIN asked = {c} /\ asked \in [{c} -> Nat]
      BY <3>1
    <3> QED
      BY <3>2, <3>3 DEF IsVector
  <2>2. CASE ~NullVector(required)
    BY <1>1, <1>2, <2>2
  <2> QED
    BY <2>1, <2>2
<1> QED
  BY <1>3 DEF asked, required

(* So is the saturation bound of a model.                                  *)
LEMMA SaturationIsNatural ==
  ASSUME NEW o, NEW c \in Nat, IsRestricted(o, c), NEW m \in Nat, IsRestricted(o, m)
  PROVE  Saturation(o, c, m) \in Nat
<1> DEFINE asked == Asked(SupportVector(o, {c}, {}, "min"), c)
           given == SupportVector(o, {m}, DOMAIN asked, "max")
<1>1. IsVector(asked) /\ DOMAIN asked # {}
  BY AskedIsVector
<1>2. Saturation(o, c, m) = Ratio(Embedded(o, given), Embedded(o, asked))
  BY DEF Saturation, SaturationBy
<1> HIDE DEF asked
<1>3. IsVector(given)
  BY <1>1, SupportIsVector DEF IsVector
<1> HIDE DEF given
<1>4. /\ IsVector(Embedded(o, given))
      /\ IsVector(Embedded(o, asked)) /\ DOMAIN Embedded(o, asked) # {}
  BY <1>1, <1>3, EmbeddedIsVector
<1> QED
  BY <1>2, <1>4, RatioIsGreatest

(* What is known of an ontology (InputAssumption).                         *)
IsOntology(o) ==
  /\ IsFiniteSet(o.functionalities) /\ o.functionalities \subseteq Nat
  /\ \A c \in o.functionalities \cup Model : IsRestricted(o, c)

(* getFunctionalSaturationBound is one of natural numbers.                  *)
LEMMA BoundsAreNatural ==
  ASSUME NEW o, IsOntology(o), NEW agents, IsPool(agents), NEW f \in o.functionalities,
         NEW m \in DOMAIN agents
  PROVE  SaturationBound(o, agents, Plain(f))[m] \in Nat
<1>1. f \in Nat /\ m \in Nat /\ IsRestricted(o, f) /\ IsRestricted(o, m)
  BY ModelAssumption DEF IsOntology, IsPool
<1>2. Saturation(o, f, m) \in Nat
  BY <1>1, SaturationIsNatural
<1>3. Plain(f).constraints = {} /\ Plain(f).model = f
  BY DEF Plain
<1>4. SaturationBound(o, agents, Plain(f))[m] = Saturation(o, f, m)
  BY <1>3 DEF SaturationBound, ScaledBound
<1> QED
  BY <1>2, <1>4

(* The saturation bounds of all functionalities are natural numbers.       *)
LEMMA BoundsOfAllAreNatural ==
  ASSUME NEW o, IsOntology(o), NEW agents, IsPool(agents),
         NEW m \in DOMAIN SaturationBoundOfSet(o, agents, {Plain(f) : f \in o.functionalities})
  PROVE  SaturationBoundOfSet(o, agents, {Plain(f) : f \in o.functionalities})[m] \in Nat
<1> DEFINE F == o.functionalities
           R == {Plain(f) : f \in F}
           bounds == {SaturationBound(o, agents, r)[m] : r \in R}
<1>1. m \in DOMAIN agents /\ R # {} /\ SaturationBoundOfSet(o, agents, R)[m] = Greatest(bounds)
  BY DEF SaturationBoundOfSet
<1>2. \A f \in F : SaturationBound(o, agents, Plain(f))[m] \in Nat
  BY <1>1, BoundsAreNatural
<1>3. bounds = {SaturationBound(o, agents, Plain(f))[m] : f \in F}
  OBVIOUS
<1>4. bounds \subseteq Nat /\ bounds # {}
  BY <1>1, <1>2, <1>3
<1>5. IsFiniteSet(bounds)
  <2> DEFINE g == [f \in F |-> SaturationBound(o, agents, Plain(f))[m]]
  <2>1. g \in Surjection(F, bounds)
    BY <1>3 DEF Surjection
  <2> HIDE DEF g, bounds
  <2> QED
    BY <2>1, FS_Surjection DEF IsOntology
<1> HIDE DEF bounds
<1>6. bounds \subseteq Int
  BY <1>4
<1>7. Greatest(bounds) \in bounds
  BY <1>4, <1>5, <1>6, GreatestIsOne
<1> QED
  BY <1>1, <1>4, <1>7

(* The agents left by both bounds are there, and so is what is mapped.      *)
LEMMA CutBySaturationIsPart ==
  ASSUME NEW o, IsOntology(o), NEW agents, IsPool(agents), IsFiniteSet(DOMAIN agents), NEW f \in o.functionalities
  PROVE  IsPart(CutBySaturation(o, agents, f), agents)
<1> DEFINE all == SaturationBoundOfSet(o, agents, {Plain(g) : g \in o.functionalities})
           own == SaturationBound(o, agents, Plain(f))
           global == Cut(agents, all)
<1>1. CutBySaturation(o, agents, f) = Cut(global, own)
  BY DEF CutBySaturation, Plain
<1>2. \A m \in DOMAIN all : all[m] \in Nat
  BY BoundsOfAllAreNatural
<1>3. DOMAIN own = DOMAIN agents /\ \A m \in DOMAIN agents : own[m] \in Nat
  BY BoundsAreNatural DEF SaturationBound
<1> HIDE DEF all, own
<1>4. IsPart(global, agents)
  BY <1>2, CutIsPart
<1> HIDE DEF global
<1>5. IsPart(Cut(global, own), global)
  BY <1>3, <1>4, CutIsPart DEF IsPart
<1> QED
  BY <1>1, <1>4, <1>5, PartOfPart DEF IsPart

(* With a bound, the pools around a minimal one that the mapping takes in  *)
(* are checked and part of the agents too.                                 *)
LEMMA BoundedAreMappedRightly ==
  ASSUME NEW o, IsOntology(o), NEW agents, IsPool(agents), IsFiniteSet(DOMAIN agents),
         NEW f \in o.functionalities, NEW size, NEW p \in BoundedPools(o, agents, f, size)
  PROVE  IsMappedRightly(o, agents, f, p)
<1> DEFINE bounded == CutBySaturation(o, agents, f)
<1>1. IsMapped(o, f, p, TRUE)
      /\ \E base \in AllCombinations(bounded, 0) : p \in Neighbours(o, agents, bounded, base, size)
  BY DEF BoundedPools, PoolsWithin, Explored
<1>2. IsPart(bounded, agents)
  BY CutBySaturationIsPart
<1> HIDE DEF bounded
<1>3. PICK base \in AllCombinations(bounded, 0) : p \in Neighbours(o, agents, bounded, base, size)
  BY <1>1
<1>4. IsPart(base, bounded)
  BY <1>2, CombinationsAreParts DEF IsPart
<1>5. IsPart(p, agents)
  BY <1>2, <1>3, <1>4, NeighboursAreParts
<1>6. FullSupport(o, {f}, p) /\ IsFeasible(o, p)
  BY <1>1 DEF IsMapped, IsMinimal
<1> QED
  BY <1>5, <1>6 DEF IsMappedRightly

(* prepare(), with the functional saturation bound or without.             *)
THEOREM MappingIsRight ==
  ASSUME NEW o, IsOntology(o), NEW pool, IsPool(pool), IsFiniteSet(DOMAIN pool),
         NEW bounded \in BOOLEAN, NEW size
  PROVE  LET ask == Prepared(o, pool, bounded, size)
         IN  /\ IsPool(ask.pool) /\ IsFiniteSet(DOMAIN ask.pool)
             /\ \A f \in DOMAIN ask.pools : \A p \in ask.pools[f] :
                  FullSupport(o, {f}, p) /\ IsFeasible(o, p) /\ IsPart(p, ask.pool)
<1> DEFINE kept == AllowSubclasses(o, pool, o.actor)
           agents == Compact(kept)
           ask == Prepared(o, pool, bounded, size)
<1>1. IsPool(kept) /\ IsFiniteSet(DOMAIN kept)
  <2> DEFINE D == {n \in DOMAIN pool : Below(o, n, o.actor)}
  <2>1. kept = [m \in D |-> pool[m]]
    BY DEF AllowSubclasses
  <2>2. IsFiniteSet(D) /\ D \subseteq Model /\ \A m \in D : pool[m] \in Nat
    BY FS_Subset DEF IsPool
  <2> HIDE DEF D, kept
  <2>3. DOMAIN kept = D /\ kept \in [D -> Nat]
    BY <2>1, <2>2
  <2> QED
    BY <2>2, <2>3 DEF IsPool
<1> HIDE DEF kept
<1>2. IsPool(agents) /\ IsFiniteSet(DOMAIN agents)
  <2>1. DOMAIN agents \subseteq DOMAIN kept
    BY DEF Compact
  <2>2. IsFiniteSet(DOMAIN agents)
    BY <1>1, <2>1, FS_Subset
  <2> QED
    BY <1>1, <2>2, CompactByCounts
<1>3. ask.pool = agents
      /\ ask.pools = IF agents = EmptyPool THEN EmptyPool
                     ELSE [f \in o.functionalities |->
                             IF bounded THEN BoundedPools(o, agents, f, size)
                             ELSE UnboundedPools(o, agents, f)]
  BY DEF Prepared, AskedAgents, PreparedFor, kept
<1> HIDE DEF agents, ask
<1>4. \A f \in DOMAIN ask.pools : \A p \in ask.pools[f] : IsMappedRightly(o, agents, f, p)
  <2>1. CASE agents = EmptyPool
    BY <1>3, <2>1 DEF EmptyPool
  <2>2. CASE agents # EmptyPool /\ bounded
    <3>1. ask.pools = [f \in o.functionalities |-> BoundedPools(o, agents, f, size)]
      BY <1>3, <2>2
    <3> QED
      BY <1>2, <3>1, BoundedAreMappedRightly
  <2>3. CASE agents # EmptyPool /\ ~bounded
    <3>1. ask.pools = [f \in o.functionalities |-> UnboundedPools(o, agents, f)]
      BY <1>3, <2>3
    <3> QED
      BY <1>2, <3>1, UnboundedAreMappedRightly
  <2> QED
    BY <2>1, <2>2, <2>3
<1>5. \A f \in DOMAIN ask.pools : \A p \in ask.pools[f] :
        FullSupport(o, {f}, p) /\ IsFeasible(o, p) /\ IsPart(p, ask.pool)
  BY <1>3, <1>4 DEF IsMappedRightly
<1>6. IsPool(ask.pool) /\ IsFiniteSet(DOMAIN ask.pool)
  BY <1>2, <1>3
<1> QED
  BY <1>5, <1>6 DEF ask

(* An object that is asked has been prepared for an ontology that was      *)
(* loaded.                                                                 *)
IsLoaded(c) == c.o \in Ontologies \cup TeamOntologies

IsPrepared(c) ==
  IsLoaded(c) /\ \E pool \in AskedPools \cup CrewPools, bounded \in BOOLEAN, size \in 0 .. 2 :
                  c.ask = Prepared(c.o, pool, bounded, size)

AsksTypeOK ==
  /\ case.kind \in {"ontology", "crew"} => IsLoaded(case)
  /\ case.kind \in {"ask", "company", "request", "team"} => IsPrepared(case)

(* Every query runs on a loaded ontology with the mapping that was prepared*)
(* for it.                                                                 *)
LEMMA AsksKeepTheirType == Spec => []AsksTypeOK
<1>1. Init => AsksTypeOK
  BY DEF Init, AsksTypeOK
<1>2. InputTypeOK /\ AsksTypeOK /\ [Next]_case => AsksTypeOK'
  <2> SUFFICES ASSUME InputTypeOK, AsksTypeOK, [Next]_case PROVE AsksTypeOK'
    OBVIOUS
  <2>1. ASSUME LoadOntology \/ Gather PROVE AsksTypeOK'
    BY <2>1 DEF LoadOntology, Gather, AsksTypeOK, IsLoaded
  <2>2. ASSUME Prepare PROVE AsksTypeOK'
    <3>1. PICK s \in Settings :
            case' = [kind |-> IF case.kind = "crew" THEN "company" ELSE "ask", o |-> case.o,
                     bounded |-> s[2], size |-> s[3], ask |-> Prepared(case.o, s[1], s[2], s[3])]
      BY <2>2 DEF Prepare
    <3>2. s[1] \in AskedPools \cup CrewPools /\ s[2] \in BOOLEAN /\ s[3] \in 0 .. 2
      BY <3>1 DEF Settings
    <3>3. case.o \in Ontologies \cup TeamOntologies
      BY <2>2 DEF Prepare, AsksTypeOK, IsLoaded
    <3>4. case'.o = case.o /\ case'.ask = Prepared(case.o, s[1], s[2], s[3]) /\ case'.kind \in {"ask", "company"}
      BY <3>1
    <3>5. IsPrepared(case)'
      BY <3>2, <3>3, <3>4 DEF IsPrepared, IsLoaded
    <3> QED
      BY <3>4, <3>5 DEF AsksTypeOK
  <2>3. ASSUME Request \/ Form PROVE AsksTypeOK'
    <3>1. IsPrepared(case)
      BY <2>3 DEF Request, Form, AsksTypeOK
    <3>2. case'.o = case.o /\ case'.ask = case.ask /\ case'.kind \in {"request", "team"}
      BY <2>3 DEF Request, Form
    <3>3. IsPrepared(case)'
      BY <3>1, <3>2 DEF IsPrepared, IsLoaded
    <3> QED
      BY <3>2, <3>3 DEF AsksTypeOK
  <2>4. ASSUME Constrain \/ Choose \/ Walk \/ Divide \/ Reconfigure PROVE AsksTypeOK'
    <3>1. case'.kind \in {"constraints", "pair", "range", "division", "reconfiguration"}
      BY <2>4 DEF Constrain, Choose, Walk, Divide, Reconfigure
    <3> QED
      BY <3>1 DEF AsksTypeOK
  <2>5. ASSUME ConstrainMore PROVE AsksTypeOK'
    <3>1. PICK e \in FurtherConditions : case' = [case EXCEPT !.set = @ \cup {e}]
      BY <2>5 DEF ConstrainMore
    <3>2. case \in Constrained
      BY <2>5 DEF ConstrainMore, InputTypeOK, Constrained, Paired, Ranged, Divided, Reconfigured
    <3>3. case'.kind = "constraints"
      BY <3>1, <3>2 DEF Constrained
    <3> QED
      BY <3>3 DEF AsksTypeOK
  <2>6. ASSUME UNCHANGED case PROVE AsksTypeOK'
    BY <2>6 DEF AsksTypeOK, IsPrepared, IsLoaded
  <2> QED
    BY <2>1, <2>2, <2>3, <2>4, <2>5, <2>6 DEF Next
<1> QED
  BY <1>1, <1>2, InputsKeepTheirType, PTL DEF Spec

(* The ontologies and pools that are asked about are well formed.          *)
LEMMA AskedOntologies ==
  /\ \A o \in Ontologies \cup TeamOntologies : IsOntology(o)
  /\ \A p \in AskedPools \cup CrewPools \cup Pools : IsPool(p) /\ IsFiniteSet(DOMAIN p)
BY InputsAreReal DEF InputAssumption, IsOntology

(* MappedPoolsSupport: a pool in the mapping of a functionality supports it,*)
(* can be connected and is there, also when agents have been added to it.   *)
THEOREM MappedSupport == Spec => []MappedPoolsSupport
<1>1. AsksTypeOK => MappedPoolsSupport
  <2> SUFFICES ASSUME AsksTypeOK, case.kind = "ask", NEW f \in DOMAIN case.ask.pools, NEW p \in case.ask.pools[f]
               PROVE  FullSupport(case.o, {f}, p) /\ IsFeasible(case.o, p) /\ IsSubset(p, case.ask.pool)
    BY DEF MappedPoolsSupport
  <2>1. PICK pool \in AskedPools \cup CrewPools, bounded \in BOOLEAN, size \in 0 .. 2 :
          case.ask = Prepared(case.o, pool, bounded, size)
    BY DEF AsksTypeOK, IsPrepared
  <2>2. IsOntology(case.o) /\ IsPool(pool) /\ IsFiniteSet(DOMAIN pool)
    BY AskedOntologies DEF AsksTypeOK, IsPrepared, IsLoaded
  <2>3. /\ FullSupport(case.o, {f}, p) /\ IsFeasible(case.o, p)
        /\ IsPart(p, case.ask.pool) /\ IsPool(case.ask.pool)
    BY <2>1, <2>2, MappingIsRight
  <2> QED
    BY <2>3, SubsetByCounts DEF IsPart
<1> QED
  BY <1>1, AsksKeepTheirType, PTL

-----------------------------------------------------------------------------
(* How the support of a pool grows with its agents: the embedding of a     *)
(* support is linear, and so is what is left to be covered.               *)

LEMMA NeedsAndGainsAreVectors ==
  ASSUME NEW o, IsOntology(o), NEW f \in o.functionalities
  PROVE  NeedIsVector(o, f) /\ \A m \in Model : GainIsVector(o, f, m)
<1>1. f \in Nat /\ IsRestricted(o, f)
  BY DEF IsOntology
<1>2. IsVector(Needed(o, f)) /\ DOMAIN Needed(o, f) # {}
  BY <1>1, SupportIsVector, FS_EmptySet DEF Needed
<1>3. NeedIsVector(o, f)
  BY <1>2, EmbeddedIsVector DEF NeedIsVector, Threshold
<1>4. ASSUME NEW m \in Model PROVE GainIsVector(o, f, m)
  <2>1. m \in Nat /\ IsRestricted(o, m)
    BY ModelAssumption DEF IsOntology
  <2>2. IsVector(Given(o, f, m))
    BY <1>2, <2>1, SupportIsVector DEF Given, IsVector
  <2>3. CASE DOMAIN Given(o, f, m) = DOMAIN Needed(o, f)
    <3>1. IsVector(Gain(o, f, m)) /\ DOMAIN Gain(o, f, m) = DOMAIN Needed(o, f)
      BY <2>2, <2>3, EmbeddedIsVector DEF Gain
    <3> QED
      BY <2>2, <3>1 DEF GainIsVector, IsVector
  <2>4. CASE DOMAIN Given(o, f, m) # DOMAIN Needed(o, f)
    BY <2>2, <2>4 DEF GainIsVector, Gain
  <2> QED
    BY <2>3, <2>4
<1> QED
  BY <1>3, <1>4

(* A model that brings nothing along gains nothing.                        *)
LEMMA NothingIsGained ==
  ASSUME NEW o, IsOntology(o), NEW f \in o.functionalities, NEW m \in Model, NullVector(Given(o, f, m))
  PROVE  \A l \in DOMAIN Needed(o, f) : Gain(o, f, m)[l] = 0
<1>1. IsVector(Given(o, f, m))
  BY NeedsAndGainsAreVectors DEF GainIsVector
<1> QED
  BY <1>1, EmbeddedNothing DEF Gain

-----------------------------------------------------------------------------
(* A functionality that the bound agents of a model do not support is      *)
(* supported as well without some of them.                                 *)

(* A model of the pool offers what it has of each class, times its count.  *)
LEMMA OffersAreTimes ==
  ASSUME NEW o, IsOntology(o), NEW f \in o.functionalities, NEW p, IsPool(p), NEW m \in DOMAIN p
  PROVE  /\ OfferedFor(o, f, p)[m] = [l \in DOMAIN Given(o, f, m) |-> Given(o, f, m)[l] * p[m]]
         /\ m \in Adding(o, f, p) <=> p[m] > 0 /\ ~NullVector(Given(o, f, m))
<1> DEFINE given == Given(o, f, m)
           offered == OfferedFor(o, f, p)[m]
<1>1. offered = [l \in DOMAIN given |-> given[l] * p[m]]
  BY DEF OfferedFor, Offered, Times, Given
<1>2. m \in Model /\ p[m] \in Nat
  BY DEF IsPool
<1>3. IsVector(given)
  BY <1>2, NeedsAndGainsAreVectors DEF GainIsVector
<1>4. m \in Adding(o, f, p) <=> ~NullVector(offered)
  BY DEF Adding
<1> HIDE DEF given, offered
<1>5. \A l \in DOMAIN given : given[l] \in Nat
  BY <1>3 DEF IsVector
<1>6. CASE p[m] = 0
  <2>1. \A l \in DOMAIN given : given[l] * p[m] = 0
    BY <1>5, <1>6
  <2>2. NullVector(offered)
    BY <1>1, <2>1 DEF NullVector
  <2> QED
    BY <1>1, <1>4, <1>6, <2>2 DEF given, offered
<1>7. CASE p[m] # 0
  <2>1. p[m] > 0
    BY <1>2, <1>7
  <2>2. \A l \in DOMAIN given : given[l] * p[m] = 0 <=> given[l] = 0
    BY <1>2, <1>5, <2>1
  <2>3. NullVector(offered) <=> NullVector(given)
    BY <1>1, <2>2 DEF NullVector
  <2> QED
    BY <1>1, <1>4, <2>1, <2>3 DEF given, offered
<1> QED
  BY <1>6, <1>7

(* What is offered can be added unless a model of the pool does not fit.   *)
LEMMA FittingIfNoMisfit ==
  ASSUME NEW o, IsOntology(o), NEW f \in o.functionalities, NEW p, IsPool(p),
         NEW M, DOMAIN p \subseteq M
  PROVE  Fitting(o, f, p) <=> \A m \in M : Count(p, m) > 0 => ~Misfit(o, f, m)
<1>1. ASSUME NEW m \in DOMAIN p
      PROVE  /\ DOMAIN OfferedFor(o, f, p)[m] = DOMAIN Given(o, f, m)
             /\ m \in Adding(o, f, p) <=> p[m] > 0 /\ ~NullVector(Given(o, f, m))
  <2>1. /\ OfferedFor(o, f, p)[m] = [l \in DOMAIN Given(o, f, m) |-> Given(o, f, m)[l] * p[m]]
        /\ m \in Adding(o, f, p) <=> p[m] > 0 /\ ~NullVector(Given(o, f, m))
    BY OffersAreTimes
  <2> QED
    BY <2>1
<1>2. Adding(o, f, p) \subseteq DOMAIN p
  BY DEF Adding
<1>3. Fitting(o, f, p) <=> \A m \in DOMAIN p : p[m] > 0 => ~Misfit(o, f, m)
  BY <1>1, <1>2 DEF Fitting, Misfit
<1>4. \A m \in M : Count(p, m) = IF m \in DOMAIN p THEN p[m] ELSE 0
  BY DEF Count
<1> QED
  BY <1>3, <1>4

(* The total, embedded, is what the models of the pool supply.             *)
LEMMA TotalIsSupply ==
  ASSUME NEW o, IsOntology(o), NEW f \in o.functionalities, NEW p, IsPool(p),
         NEW M, IsFiniteSet(M), DOMAIN p \subseteq M, M \subseteq Model, Fitting(o, f, p)
  PROVE  \A l \in DOMAIN Needed(o, f) : Embedded(o, SumOffered(o, f, p))[l] = Supply(o, f, p, M, l)
<1> DEFINE D == DOMAIN Needed(o, f)
           A == Adding(o, f, p)
           k == [m \in A |-> p[m]]
           w == [m \in A |-> Given(o, f, m)]
           v == SumOffered(o, f, p)
<1>1. IsVector(Needed(o, f)) /\ \A m \in Model : GainIsVector(o, f, m)
  BY NeedsAndGainsAreVectors DEF NeedIsVector
<1>2. A \subseteq DOMAIN p /\ A \subseteq M /\ IsFiniteSet(A)
  BY FS_Subset DEF Adding
<1>3. ASSUME NEW m \in A
      PROVE  /\ p[m] \in Nat /\ Count(p, m) = p[m] /\ IsVector(Given(o, f, m)) /\ DOMAIN Given(o, f, m) = D
             /\ OfferedFor(o, f, p)[m] = [l \in DOMAIN Given(o, f, m) |-> Given(o, f, m)[l] * p[m]]
  <2>1. m \in DOMAIN p /\ m \in Model /\ p[m] \in Nat
    BY <1>2 DEF IsPool
  <2>2. OfferedFor(o, f, p)[m] = [l \in DOMAIN Given(o, f, m) |-> Given(o, f, m)[l] * p[m]]
    BY <2>1, OffersAreTimes
  <2>3. DOMAIN OfferedFor(o, f, p)[m] = DOMAIN Given(o, f, m)
    BY <2>2
  <2>4. DOMAIN OfferedFor(o, f, p)[m] = D
    BY DEF Fitting
  <2> QED
    BY <1>1, <2>1, <2>2, <2>3, <2>4 DEF GainIsVector, Count
<1>4. v = [l \in D |-> SumOver([m \in A |-> OfferedFor(o, f, p)[m][l]], A)]
  BY DEF SumOffered
<1> HIDE DEF D, A, v
<1>5. ASSUME NEW l \in D
      PROVE  /\ v[l] = SumFunctionOnSet(Mixed(A, k, w, l), A)
             /\ v[l] \in Nat
  <2>1. \A m \in A : OfferedFor(o, f, p)[m][l] = p[m] * Given(o, f, m)[l]
                     /\ p[m] * Given(o, f, m)[l] \in Nat
    <3> TAKE m \in A
    <3>1. p[m] \in Nat /\ Given(o, f, m)[l] \in Nat
      BY <1>3 DEF IsVector
    <3>2. OfferedFor(o, f, p)[m][l] = Given(o, f, m)[l] * p[m]
      BY <1>3
    <3> QED
      BY <3>1, <3>2
  <2>2. [m \in A |-> OfferedFor(o, f, p)[m][l]] = Mixed(A, k, w, l)
    BY <2>1 DEF Mixed
  <2>3. \A m \in A : Mixed(A, k, w, l)[m] \in Nat
    BY <2>1 DEF Mixed
  <2>4. v[l] = SumOver(Mixed(A, k, w, l), A)
    BY <1>4, <2>2
  <2>5. SumOver(Mixed(A, k, w, l), A) = SumFunctionOnSet(Mixed(A, k, w, l), A)
    BY DEF SumOver, SumFunctionOnSet
  <2> QED
    BY <1>2, <2>3, <2>4, <2>5, SumIsNat
<1>6. IsVector(v) /\ DOMAIN v = D
  <2>1. DOMAIN v = D /\ v \in [D -> Nat]
    BY <1>4, <1>5
  <2> QED
    BY <1>1, <2>1 DEF IsVector, D
<1>7. IsMixture(A, k, w, v, D) /\ AreVectors(A, w, D) /\ k \in [A -> Nat]
  BY <1>3, <1>5 DEF IsMixture, AreVectors
<1>8. \A m \in A : k[m] = p[m] /\ w[m] = Given(o, f, m)
  OBVIOUS
<1> HIDE DEF k, w
<1>9. IsMixture(A, k, EmbeddedEach(o, A, w), Embedded(o, v), D)
  BY <1>2, <1>6, <1>7, EmbeddingIsLinear
<1>10. SUFFICES ASSUME NEW l \in D PROVE Embedded(o, v)[l] = Supply(o, f, p, M, l)
  BY DEF D, v
<1> DEFINE gains == Gains(o, f, p, M, l)
<1>11. \A m \in M : gains[m] = Count(p, m) * Gain(o, f, m)[l]
  BY DEF Gains
<1>12. \A m \in M : Count(p, m) \in Nat /\ Gain(o, f, m)[l] \in Nat
  BY <1>1, CountIsNatural DEF GainIsVector, D
<1>13. \A m \in A : Mixed(A, k, EmbeddedEach(o, A, w), l)[m] = gains[m]
  <2> TAKE m \in A
  <2>1. Mixed(A, k, EmbeddedEach(o, A, w), l)[m] = p[m] * Embedded(o, Given(o, f, m))[l]
    BY <1>8 DEF Mixed, EmbeddedEach
  <2>2. Gain(o, f, m) = Embedded(o, Given(o, f, m))
    BY <1>3 DEF Gain, D
  <2> QED
    BY <1>2, <1>3, <1>11, <2>1, <2>2
<1>14. \A m \in M : gains[m] \in Int
  BY <1>11, <1>12
<1>15. ASSUME NEW m \in M \ A PROVE gains[m] = 0
  <2>1. CASE Count(p, m) = 0
    BY <1>11, <1>12, <2>1
  <2>2. CASE Count(p, m) # 0
    <3>1. m \in DOMAIN p /\ p[m] > 0
      BY <1>12, <2>2 DEF Count
    <3>2. NullVector(Given(o, f, m))
      BY <3>1, OffersAreTimes DEF A
    <3>3. Gain(o, f, m)[l] = 0
      BY <3>2, NothingIsGained DEF D
    <3> QED
      BY <1>11, <1>12, <3>3
  <2> QED
    BY <2>1, <2>2
<1> HIDE DEF gains
<1>6a. SumFunctionOnSet(gains, M) = SumFunctionOnSet(gains, A)
  BY <1>2, <1>14, <1>15, SumWithoutZeros
<1>17. SumFunctionOnSet(Mixed(A, k, EmbeddedEach(o, A, w), l), A) = SumFunctionOnSet(gains, A)
  BY <1>2, <1>13, <1>14, SumIsDetermined
<1>18. Embedded(o, v)[l] = SumFunctionOnSet(Mixed(A, k, EmbeddedEach(o, A, w), l), A)
  BY <1>9 DEF IsMixture
<1> QED
  BY <1>6a, <1>17, <1>18 DEF Supply, gains

(* A pool has full support exactly if its models supply what is needed,    *)
(* and those it has agents of can be added up.                             *)
LEMMA FullIfSupplied ==
  ASSUME NEW o, IsOntology(o), NEW f \in o.functionalities, NEW p, IsPool(p),
         NEW M, IsFiniteSet(M), DOMAIN p \subseteq M, M \subseteq Model
  PROVE  FullSupport(o, {f}, p) <=> Supplies(o, f, p, M)
<1>1. NeedIsVector(o, f)
  BY NeedsAndGainsAreVectors
<1>2. Fitting(o, f, p) <=> \A m \in M : Count(p, m) > 0 => ~Misfit(o, f, m)
  BY FittingIfNoMisfit
<1>3. CASE ~Fitting(o, f, p)
  BY <1>2, <1>3, FullIfAddedUp DEF Supplies
<1>4. CASE Fitting(o, f, p)
  <2>1. \A l \in DOMAIN Needed(o, f) : Embedded(o, SumOffered(o, f, p))[l] = Supply(o, f, p, M, l)
    BY <1>4, TotalIsSupply
  <2>2. \A l \in DOMAIN Needed(o, f) : Threshold(o, f)[l] \in Nat
    BY <1>1 DEF NeedIsVector, IsVector
  <2>3. \A l \in DOMAIN Needed(o, f) : Supply(o, f, p, M, l) \in Nat
    <3> TAKE l \in DOMAIN Needed(o, f)
    <3>1. \A m \in M : Count(p, m) \in Nat /\ Gain(o, f, m)[l] \in Nat
      BY NeedsAndGainsAreVectors, CountIsNatural DEF GainIsVector
    <3>2. \A m \in M : Gains(o, f, p, M, l)[m] \in Nat
      BY <3>1 DEF Gains
    <3> QED
      BY <3>2, SumIsNat DEF Supply
  <2>4. FullSupport(o, {f}, p) <=>
          \A l \in DOMAIN Needed(o, f) : Embedded(o, SumOffered(o, f, p))[l] >= Threshold(o, f)[l]
    BY <1>1, <1>4, FullIfAddedUp DEF NeedIsVector
  <2>5. Supplies(o, f, p, M) <=> \A l \in DOMAIN Needed(o, f) : Threshold(o, f)[l] <= Supply(o, f, p, M, l)
    BY <1>2, <1>4 DEF Supplies
  <2> QED
    BY <2>1, <2>2, <2>3, <2>4, <2>5
<1> QED
  BY <1>3, <1>4

(* Supplies are natural numbers.                                           *)
LEMMA SupplyIsNatural ==
  ASSUME NEW o, IsOntology(o), NEW f \in o.functionalities, NEW p, IsPool(p),
         NEW M, IsFiniteSet(M), M \subseteq Model, NEW l \in DOMAIN Needed(o, f)
  PROVE  /\ Supply(o, f, p, M, l) \in Nat /\ Threshold(o, f)[l] \in Nat
         /\ \A m \in M : /\ Count(p, m) \in Nat /\ Gain(o, f, m)[l] \in Nat
                         /\ Gains(o, f, p, M, l)[m] = Count(p, m) * Gain(o, f, m)[l]
                         /\ Gains(o, f, p, M, l)[m] \in Nat
<1>1. \A m \in M : Count(p, m) \in Nat /\ Gain(o, f, m)[l] \in Nat
  BY NeedsAndGainsAreVectors, CountIsNatural DEF GainIsVector
<1>2. \A m \in M : Gains(o, f, p, M, l)[m] = Count(p, m) * Gain(o, f, m)[l]
                   /\ Gains(o, f, p, M, l)[m] \in Nat
  BY <1>1 DEF Gains
<1>3. Threshold(o, f)[l] \in Nat
  BY NeedsAndGainsAreVectors DEF NeedIsVector, IsVector
<1> QED
  BY <1>1, <1>2, <1>3, SumIsNat DEF Supply

(* With more agents of models that fit there is no less support.           *)
LEMMA MoreSupplies ==
  ASSUME NEW o, IsOntology(o), NEW f \in o.functionalities, NEW p, IsPool(p), NEW q, IsPool(q),
         NEW M, IsFiniteSet(M), M \subseteq Model, \A m \in M : Count(q, m) <= Count(p, m),
         Supplies(o, f, q, M), \A m \in M : Count(p, m) > 0 => ~Misfit(o, f, m)
  PROVE  Supplies(o, f, p, M)
<1> SUFFICES ASSUME NEW l \in DOMAIN Needed(o, f)
             PROVE  Threshold(o, f)[l] <= Supply(o, f, p, M, l)
  BY DEF Supplies
<1> DEFINE more == Gains(o, f, p, M, l)
           less == Gains(o, f, q, M, l)
<1>1. \A m \in M : /\ Count(p, m) \in Nat /\ Count(q, m) \in Nat /\ Gain(o, f, m)[l] \in Nat
                   /\ more[m] = Count(p, m) * Gain(o, f, m)[l] /\ more[m] \in Nat
                   /\ less[m] = Count(q, m) * Gain(o, f, m)[l] /\ less[m] \in Nat
  BY SupplyIsNatural
<1>2. Supply(o, f, p, M, l) \in Nat /\ Supply(o, f, q, M, l) \in Nat /\ Threshold(o, f)[l] \in Nat
  BY SupplyIsNatural
<1> HIDE DEF more, less
<1>3. ASSUME NEW m \in M PROVE less[m] <= more[m]
  <2>1. Count(q, m) * Gain(o, f, m)[l] <= Count(p, m) * Gain(o, f, m)[l]
    BY <1>1, MultiplesGrow
  <2> QED
    BY <1>1, <2>1
<1>4. SumFunctionOnSet(less, M) <= SumFunctionOnSet(more, M)
  BY <1>1, <1>3, SumIsMonotonic
<1>5. Supply(o, f, q, M, l) <= Supply(o, f, p, M, l)
  BY <1>4 DEF Supply, more, less
<1>6. Threshold(o, f)[l] <= Supply(o, f, q, M, l)
  BY DEF Supplies
<1> QED
  BY <1>2, <1>5, <1>6

(* One agent less gains that much less; what all of them gain is not less  *)
(* than those of one model do.                                             *)
LEMMA SupplyWithoutOne ==
  ASSUME NEW o, IsOntology(o), NEW f \in o.functionalities, NEW p, IsPool(p), NEW q, IsPool(q),
         NEW M, IsFiniteSet(M), M \subseteq Model, NEW m \in M,
         Count(q, m) = Count(p, m) - 1, \A n \in M \ {m} : Count(q, n) = Count(p, n),
         NEW l \in DOMAIN Needed(o, f)
  PROVE  /\ Supply(o, f, p, M, l) = Supply(o, f, q, M, l) + Gain(o, f, m)[l]
         /\ Count(q, m) * Gain(o, f, m)[l] <= Supply(o, f, q, M, l)
<1> DEFINE more == Gains(o, f, p, M, l)
           less == Gains(o, f, q, M, l)
           gain == Gain(o, f, m)[l]
           R == M \ {m}
<1>1. \A n \in M : /\ Count(p, n) \in Nat /\ Count(q, n) \in Nat /\ Gain(o, f, n)[l] \in Nat
                   /\ more[n] = Count(p, n) * Gain(o, f, n)[l] /\ more[n] \in Nat
                   /\ less[n] = Count(q, n) * Gain(o, f, n)[l] /\ less[n] \in Nat
  BY SupplyIsNatural
<1>2. IsFiniteSet(R) /\ R \subseteq M
  BY FS_RemoveElement
<1> HIDE DEF more, less
<1>3. \A n \in R : more[n] = less[n]
  BY <1>1
<1> HIDE DEF R
<1>4. SumFunctionOnSet(more, R) = SumFunctionOnSet(less, R) /\ SumFunctionOnSet(less, R) \in Nat
  BY <1>1, <1>2, <1>3, SumIsDetermined, SumIsNat
<1>5. /\ SumFunctionOnSet(more, M) = more[m] + SumFunctionOnSet(more, R)
      /\ SumFunctionOnSet(less, M) = less[m] + SumFunctionOnSet(less, R)
  BY <1>1, SumWithout DEF R
<1>6. more[m] = less[m] + gain /\ gain \in Nat /\ less[m] \in Nat
  <2>1. more[m] = (Count(q, m) + 1) * gain /\ less[m] = Count(q, m) * gain
    BY <1>1
  <2>2. Count(q, m) \in Nat /\ gain \in Nat
    BY <1>1
  <2> HIDE DEF gain
  <2>3. (Count(q, m) + 1) * gain = Count(q, m) * gain + gain
    BY <2>2
  <2> QED
    BY <1>1, <2>1, <2>2, <2>3
<1>7. less[m] = Count(q, m) * gain
  BY <1>1
<1> HIDE DEF gain
<1>8. SumFunctionOnSet(more, M) = SumFunctionOnSet(less, M) + gain
      /\ less[m] <= SumFunctionOnSet(less, M)
  BY <1>4, <1>5, <1>6
<1> QED
  BY <1>7, <1>8 DEF Supply, more, less, gain

(* getFunctionalSaturationBound: so many agents of a model are within the  *)
(* bound if one less are too few, by themselves, of one of the classes.    *)
LEMMA SaturationIsReached ==
  ASSUME NEW o, IsOntology(o), NEW f \in o.functionalities, ~NullVector(Needed(o, f)),
         NEW m \in Model, ~Misfit(o, f, m), NEW n \in Nat, n > 0
  PROVE  n <= Saturation(o, f, m) <=>
           \E l \in DOMAIN Needed(o, f) :
              Gain(o, f, m)[l] > 0 /\ (n - 1) * Gain(o, f, m)[l] < Threshold(o, f)[l]
<1> DEFINE given == Given(o, f, m)
           ratio == Ratio(Embedded(o, given), Threshold(o, f))
<1>1. NeedIsVector(o, f) /\ IsVector(given) /\ Gain(o, f, m) \in [DOMAIN Needed(o, f) -> Nat]
  BY NeedsAndGainsAreVectors DEF GainIsVector
<1>2. Saturation(o, f, m) = ratio
  BY DEF Saturation, SaturationBy, Asked, Needed, Given, Threshold
<1>3. IsVector(Embedded(o, given)) /\ DOMAIN Embedded(o, given) = DOMAIN given
  BY <1>1, EmbeddedIsVector
<1>4. CASE DOMAIN given = DOMAIN Needed(o, f)
  <2>1. Gain(o, f, m) = Embedded(o, given)
    BY <1>4 DEF Gain
  <2>2. n <= ratio <=> \E l \in DOMAIN Gain(o, f, m) :
                         Gain(o, f, m)[l] > 0 /\ (n - 1) * Gain(o, f, m)[l] < Threshold(o, f)[l]
    BY <1>1, <1>3, <1>4, <2>1, RatioIsReached DEF NeedIsVector
  <2> QED
    BY <1>1, <1>2, <2>2
<1>5. CASE DOMAIN given # DOMAIN Needed(o, f)
  <2>1. NullVector(given)
    BY <1>5 DEF Misfit
  <2>2. \A l \in DOMAIN Needed(o, f) : Gain(o, f, m)[l] = 0
    BY <2>1, NothingIsGained
  <2>3. Present(Embedded(o, given)) = {}
    BY <1>1, <1>3, <2>1, EmbeddedNothing DEF Present
  <2>4. Ratios(Embedded(o, given), Threshold(o, f)) = {0}
    BY <2>3 DEF Ratios
  <2>5. ratio = 0
    BY <1>1, <1>3, <2>4, RatioIsGreatest DEF NeedIsVector
  <2> QED
    BY <1>2, <2>2, <2>5
<1> QED
  BY <1>4, <1>5

-----------------------------------------------------------------------------
(* The saturation bound loses no pool: every minimal one is enumerated.    *)

(* Whether a pool has full support depends on its counts.                  *)
LEMMA FullByCounts ==
  ASSUME NEW o, IsOntology(o), NEW f \in o.functionalities,
         NEW p, IsPool(p), IsFiniteSet(DOMAIN p), NEW q, IsPool(q), IsFiniteSet(DOMAIN q),
         \A m : Count(q, m) = Count(p, m)
  PROVE  FullSupport(o, {f}, p) <=> FullSupport(o, {f}, q)
<1> DEFINE M == DOMAIN p \cup DOMAIN q
<1>1. IsFiniteSet(M) /\ M \subseteq Model /\ DOMAIN p \subseteq M /\ DOMAIN q \subseteq M
  BY FS_Union DEF IsPool
<1> HIDE DEF M
<1>2. \A l : Supply(o, f, p, M, l) = Supply(o, f, q, M, l)
  BY DEF Supply, Gains
<1>3. Supplies(o, f, p, M) <=> Supplies(o, f, q, M)
  BY <1>2 DEF Supplies
<1> QED
  BY <1>1, <1>3, FullIfSupplied

(* Every pool with full support has such a part.                           *)
LEMMA LeastIsFound ==
  ASSUME NEW o, IsOntology(o), NEW f \in o.functionalities,
         NEW p, IsPool(p), IsFiniteSet(DOMAIN p), FullSupport(o, {f}, p)
  PROVE  \E q : IsPart(q, p) /\ q = Compact(q) /\ FullSupport(o, {f}, q) /\ IsLeast(o, f, q)
<1> DEFINE Has(n) == \E q : IsPart(q, p) /\ FullSupport(o, {f}, q) /\ NumberOfInstances(q) = n
           sizes == {n \in Nat : Has(n)}
<1>1. IsPart(p, p)
  <2>1. \A m : Count(p, m) \in Nat
    BY CountIsNatural
  <2> QED
    BY <2>1 DEF IsPart
<1>2. NumberOfInstances(p) \in sizes
  BY <1>1, InstancesAreNatural
<1>3. PICK n \in sizes : \A k \in sizes : n <= k
  <2> HIDE DEF Has
  <2> QED
    BY <1>2, LeastExists
<1>4. PICK q : IsPart(q, p) /\ FullSupport(o, {f}, q) /\ NumberOfInstances(q) = n
  OBVIOUS
<1> DEFINE c == Compact(q)
<1>5. IsPool(q) /\ IsFiniteSet(DOMAIN q)
  BY <1>4 DEF IsPart
<1>6. IsPool(c) /\ \A m : Count(c, m) = Count(q, m)
  BY <1>5, CompactByCounts
<1>7. IsFiniteSet(DOMAIN c)
  <2>1. DOMAIN c \subseteq DOMAIN q
    BY DEF Compact
  <2> QED
    BY <1>5, <2>1, FS_Subset
<1> HIDE DEF c
<1>8. IsPart(c, p)
  BY <1>4, <1>6, <1>7 DEF IsPart
<1>9. c = Compact(c)
  BY <1>5, <1>6, SameCounts DEF c
<1>10. FullSupport(o, {f}, c)
  BY <1>4, <1>5, <1>6, <1>7, FullByCounts
<1>11. ASSUME NEW r, IsPart(r, c), FullSupport(o, {f}, r)
       PROVE  \A m : Count(r, m) = Count(c, m)
  <2>1. IsPart(r, q) /\ IsPool(r)
    BY <1>6, <1>11 DEF IsPart
  <2>2. IsPart(r, p)
    BY <1>4, <1>5, <2>1, PartOfPart
  <2>3. /\ NumberOfInstances(r) \in Nat /\ NumberOfInstances(q) \in Nat
        /\ NumberOfInstances(r) <= NumberOfInstances(q)
        /\ NumberOfInstances(r) = NumberOfInstances(q) => \A m : Count(r, m) = Count(q, m)
    BY <1>5, <2>1, PartsHaveLess
  <2>4. NumberOfInstances(r) \in sizes
    BY <1>11, <2>2, <2>3
  <2>5. NumberOfInstances(q) <= NumberOfInstances(r)
    <3> HIDE DEF sizes
    <3> QED
      BY <1>3, <1>4, <2>4
  <2> QED
    BY <1>6, <2>3, <2>5
<1>12. IsLeast(o, f, c)
  BY <1>11 DEF IsLeast
<1> QED
  BY <1>8, <1>9, <1>10, <1>12

(* It is minimal, and within the saturation bound of the functionality.    *)
LEMMA LeastIsMinimal ==
  ASSUME NEW o, IsOntology(o), NEW f \in o.functionalities, ~NullVector(Needed(o, f)),
         NEW q, IsPool(q), IsFiniteSet(DOMAIN q), q = Compact(q), FullSupport(o, {f}, q), IsLeast(o, f, q)
  PROVE  /\ q # EmptyPool /\ IsMinimal(o, {f}, q)
         /\ \A m \in DOMAIN q : q[m] <= Saturation(o, f, m)
<1> DEFINE D == DOMAIN q
<1>1. \A n \in D : q[n] # 0 /\ q[n] \in Nat /\ n \in Model /\ Count(q, n) = q[n]
  <2>1. DOMAIN Compact(q) = {n \in D : q[n] # 0}
    BY DEF Compact
  <2> QED
    BY <2>1 DEF IsPool, Count
<1>2. D \subseteq Model /\ D \subseteq D /\ IsFiniteSet(D)
  BY DEF IsPool
<1>3. Supplies(o, f, q, D)
  BY <1>2, FullIfSupplied
<1>4. \A m \in D : ~Misfit(o, f, m)
  <2>1. \A m \in D : Count(q, m) > 0
    BY <1>1
  <2> QED
    BY <1>3, <2>1 DEF Supplies
<1>5. ASSUME NEW P \in SUBSET D, NEW m \in P PROVE ~FullSupport(o, {f}, Less(q, m, P))
  <2>1. IsPart(Less(q, m, P), q) /\ Count(Less(q, m, P), m) = q[m] - 1
        /\ Count(q, m) = q[m] /\ q[m] \in Nat
    BY <1>1, LessIsPart
  <2>2. Count(Less(q, m, P), m) # Count(q, m)
    BY <2>1
  <2> QED
    BY <2>1, <2>2 DEF IsLeast
<1>6. ASSUME NEW m \in D PROVE q[m] <= Saturation(o, f, m)
  <2> DEFINE r == Less(q, m, D)
  <2>1. /\ IsPart(r, q) /\ DOMAIN r = D
        /\ Count(r, m) = q[m] - 1 /\ Count(q, m) = q[m] /\ q[m] \in Nat \ {0}
        /\ \A n \in D \ {m} : Count(r, n) = Count(q, n)
    BY <1>1, LessIsPart
  <2>2. ~FullSupport(o, {f}, r)
    BY <1>5
  <2> HIDE DEF r
  <2>3. IsPool(r) /\ DOMAIN r \subseteq D
    BY <2>1 DEF IsPart
  <2>4. ~Supplies(o, f, r, D)
    BY <1>2, <2>2, <2>3, FullIfSupplied
  <2>5. PICK l \in DOMAIN Needed(o, f) : ~(Threshold(o, f)[l] <= Supply(o, f, r, D, l))
    BY <1>4, <2>4 DEF Supplies
  <2> DEFINE gain == Gain(o, f, m)[l]
             more == Supply(o, f, q, D, l)
             less == Supply(o, f, r, D, l)
             threshold == Threshold(o, f)[l]
  <2>6. more = less + gain /\ Count(r, m) * gain <= less
    BY <1>2, <2>1, <2>3, SupplyWithoutOne
  <2>7. more \in Nat /\ threshold \in Nat /\ gain \in Nat
    BY <1>2, SupplyIsNatural
  <2>8. less \in Nat
    BY <1>2, <2>3, SupplyIsNatural
  <2>9. threshold <= more /\ ~(threshold <= less)
    BY <1>3, <2>5 DEF Supplies
  <2> HIDE DEF gain, more, less, threshold
  <2>10. gain > 0
    BY <2>6, <2>7, <2>8, <2>9
  <2>11. (q[m] - 1) * gain < threshold
    <3>1. (q[m] - 1) * gain <= less
      BY <2>1, <2>6
    <3>2. (q[m] - 1) * gain \in Nat
      <4>1. q[m] - 1 \in Nat
        BY <2>1
      <4> QED
        BY <2>7, <4>1
    <3> QED
      BY <2>7, <2>8, <2>9, <3>1, <3>2
  <2>12. \E k \in DOMAIN Needed(o, f) :
            Gain(o, f, m)[k] > 0 /\ (q[m] - 1) * Gain(o, f, m)[k] < Threshold(o, f)[k]
    BY <2>10, <2>11 DEF gain, threshold
  <2>13. m \in Model /\ q[m] \in Nat /\ q[m] > 0 /\ ~Misfit(o, f, m)
    BY <1>1, <1>4, <2>1
  <2> QED
    BY <2>12, <2>13, SaturationIsReached
<1>7. q # EmptyPool
  <2>1. ASSUME q = EmptyPool PROVE FALSE
    <3>1. D = {}
      BY <2>1 DEF EmptyPool
    <3>2. NeedIsVector(o, f)
      BY NeedsAndGainsAreVectors
    <3>3. ASSUME NEW l \in DOMAIN Needed(o, f) PROVE Needed(o, f)[l] = 0
      <4>1. Supply(o, f, q, D, l) = 0
        BY <3>1, SumOfNothing DEF Supply
      <4>2. Threshold(o, f)[l] <= 0
        BY <1>3, <4>1 DEF Supplies
      <4>3. Needed(o, f)[l] <= Threshold(o, f)[l]
        BY <3>2, EmbeddingAdds DEF NeedIsVector, Threshold
      <4>4. Needed(o, f)[l] \in Nat /\ Threshold(o, f)[l] \in Nat
        BY <3>2 DEF NeedIsVector, IsVector
      <4> QED
        BY <4>2, <4>3, <4>4
    <3> QED
      BY <3>3 DEF NullVector
  <2> QED
    BY <2>1
<1>8. ASSUME NEW m \in D, FullSupport(o, {f}, PoolOf(m, q[m]))
      PROVE  Cardinality(D) = 1
  <2>1. /\ IsPool(PoolOf(m, q[m])) /\ IsFiniteSet(DOMAIN PoolOf(m, q[m]))
        /\ Count(PoolOf(m, q[m]), m) = q[m] /\ \A k : k # m => Count(PoolOf(m, q[m]), k) = 0
    BY <1>1, PoolOfOne
  <2>2. \A k : Count(q, k) \in Nat
    BY CountIsNatural
  <2>3. \A k : Count(PoolOf(m, q[m]), k) <= Count(q, k)
    BY <1>1, <2>1, <2>2
  <2>4. IsPart(PoolOf(m, q[m]), q)
    BY <2>1, <2>3 DEF IsPart
  <2>5. \A k : Count(PoolOf(m, q[m]), k) = Count(q, k)
    BY <1>8, <2>4 DEF IsLeast
  <2>6. D = {m}
    BY <1>1, <2>1, <2>5
  <2> QED
    BY <2>6, FS_Singleton
<1>9. IsMinimal(o, {f}, q)
  <2>1. Partial(o, f, q) \in SUBSET D
    BY DEF Partial
  <2>2. \A m \in Partial(o, f, q) : ~FullSupport(o, {f}, Less(q, m, Partial(o, f, q)))
    BY <1>5, <2>1
  <2> QED
    BY <1>8, <2>2, MinimalByParts
<1> QED
  BY <1>6, <1>7, <1>9

(* Every pool that supports a functionality has a minimal part that is     *)
(* within the saturation bound.                                            *)
THEOREM MinimalIsFound ==
  ASSUME NEW o, IsOntology(o), NEW f \in o.functionalities, ~NullVector(Needed(o, f)),
         NEW p, IsPool(p), IsFiniteSet(DOMAIN p), FullSupport(o, {f}, p)
  PROVE  \E q : /\ IsPart(q, p) /\ q = Compact(q) /\ q # EmptyPool
                /\ IsMinimal(o, {f}, q) /\ \A m \in DOMAIN q : q[m] <= Saturation(o, f, m)
<1>1. PICK q : IsPart(q, p) /\ q = Compact(q) /\ FullSupport(o, {f}, q) /\ IsLeast(o, f, q)
  BY LeastIsFound
<1>2. IsPool(q) /\ IsFiniteSet(DOMAIN q)
  BY <1>1 DEF IsPart
<1> QED
  BY <1>1, <1>2, LeastIsMinimal

-----------------------------------------------------------------------------
(* The saturation bound is not too large: one agent less is too few.       *)

(* The supply of a single model is what it gains, times its count.         *)
LEMMA SupplyOfOne ==
  ASSUME NEW o, IsOntology(o), NEW f \in o.functionalities, NEW m \in Model, NEW n \in Nat
  PROVE  \A l \in DOMAIN Needed(o, f) : Supply(o, f, PoolOf(m, n), {m}, l) = n * Gain(o, f, m)[l]
<1> TAKE l \in DOMAIN Needed(o, f)
<1> DEFINE gains == Gains(o, f, PoolOf(m, n), {m}, l)
<1>1. IsPool(PoolOf(m, n)) /\ Count(PoolOf(m, n), m) = n
  BY PoolOfOne
<1>0. {m} \subseteq Model /\ IsFiniteSet({m}) /\ m \in {m}
  BY FS_Singleton
<1>2. gains[m] = n * Gain(o, f, m)[l] /\ gains[m] \in Nat
  BY <1>0, <1>1, SupplyIsNatural
<1> HIDE DEF gains
<1>3. SumFunctionOnSet(gains, {m}) = gains[m]
  BY <1>2, SumOfOne, gains[m] \in Int
<1> QED
  BY <1>2, <1>3 DEF Supply, gains

(* A model that gains something that is needed supports it in part.        *)
LEMMA SomeIsPartial ==
  ASSUME NEW o, IsOntology(o), NEW f \in o.functionalities, NEW m \in Model, NEW n \in Nat \ {0},
         ~Misfit(o, f, m), NEW l \in DOMAIN Needed(o, f), Gain(o, f, m)[l] > 0, Threshold(o, f)[l] > 0
  PROVE  SupportType(o, {f}, PoolOf(m, n)) \in {"full", "partial"}
<1> DEFINE p == PoolOf(m, n)
           D == DOMAIN Needed(o, f)
           offered == Embedded(o, SumOffered(o, f, p))
           threshold == Threshold(o, f)
           products == [k \in D |-> threshold[k] * offered[k]]
<1>1. /\ IsPool(p) /\ IsFiniteSet(DOMAIN p) /\ DOMAIN p = {m} /\ Count(p, m) = n
  BY PoolOfOne
<1>2. {m} \subseteq Model /\ IsFiniteSet({m})
  BY FS_Singleton
<1>3. Fitting(o, f, p)
  BY <1>1, <1>2, FittingIfNoMisfit
<1>4. \A k \in D : offered[k] = Supply(o, f, p, {m}, k)
  BY <1>1, <1>2, <1>3, TotalIsSupply
<1>5. \A k \in D : offered[k] = n * Gain(o, f, m)[k]
  BY <1>4, SupplyOfOne
<1>6. IsFiniteSet(D) /\ DOMAIN threshold = D /\ \A k \in D : threshold[k] \in Nat
  BY NeedsAndGainsAreVectors DEF NeedIsVector, IsVector
<1>7. \A k \in D : Gain(o, f, m)[k] \in Nat
  BY NeedsAndGainsAreVectors DEF GainIsVector
<1>8. SupportType(o, {f}, p) = Degree(threshold, offered)
  <2> DEFINE needed == Needed(o, f)
             given == OfferedFor(o, f, p)
  <2>1. SupportType(o, {f}, p) = TypeOfSupport(o, needed, given)
    BY DEF SupportType, Needed, OfferedFor
  <2>2. DOMAIN given = DOMAIN p
    BY DEF OfferedFor, Offered
  <2>3. {k \in DOMAIN given : ~NullVector(given[k])} = Adding(o, f, p)
    BY <2>2 DEF Adding
  <2>4. TypeOfSupport(o, needed, given) =
          IF \A k \in Adding(o, f, p) : DOMAIN given[k] = DOMAIN needed
          THEN SupportFrom(o, needed, [j \in DOMAIN needed |->
                                         SumOver([k \in Adding(o, f, p) |-> given[k][j]], Adding(o, f, p))])
          ELSE "thrown"
    BY <2>3 DEF TypeOfSupport
  <2>5. TypeOfSupport(o, needed, given) = SupportFrom(o, needed, SumOffered(o, f, p))
    BY <1>3, <2>4 DEF Fitting, SumOffered
  <2> QED
    BY <2>1, <2>5 DEF SupportFrom, Threshold
<1> HIDE DEF p, D, offered, threshold
<1>9. \A k \in D : offered[k] \in Nat
  <2> TAKE k \in D
  <2>1. n * Gain(o, f, m)[k] \in Nat
    BY <1>7
  <2> QED
    BY <1>5, <2>1
<1>10. \A k \in D : products[k] = threshold[k] * offered[k] /\ products[k] \in Nat
  BY <1>6, <1>9
<1>11. products[l] > 0
  <2>1. l \in D /\ threshold[l] > 0 /\ threshold[l] \in Nat
    BY <1>6 DEF D, threshold
  <2>2. offered[l] > 0 /\ offered[l] \in Nat
    <3> DEFINE g == Gain(o, f, m)[l]
    <3>1. g \in Nat /\ g > 0 /\ offered[l] = n * g
      BY <1>5, <1>7, <2>1
    <3> HIDE DEF g
    <3>2. n * g > 0
      BY <3>1
    <3> QED
      BY <1>9, <2>1, <3>1, <3>2
  <2> DEFINE a == threshold[l]
             b == offered[l]
  <2>3. products[l] = a * b /\ a \in Nat /\ b \in Nat /\ a > 0 /\ b > 0
    BY <1>10, <2>1, <2>2
  <2> HIDE DEF a, b, products
  <2> QED
    BY <2>3
<1>12. SumOver(products, D) # 0
  <2> HIDE DEF products
  <2> QED
    BY <1>6, <1>10, <1>11, SumIsPositive, l \in D DEF D
<1>13. PartialSupportFrom(threshold, offered)
  BY <1>6, <1>12 DEF PartialSupportFrom
<1> QED
  BY <1>8, <1>13 DEF Degree, p

(* Where nothing is needed, every model that can be added suffices.        *)
LEMMA NothingNeeded ==
  ASSUME NEW o, IsOntology(o), NEW f \in o.functionalities, NullVector(Needed(o, f)),
         NEW m \in Model, NEW n \in Nat, ~Misfit(o, f, m)
  PROVE  FullSupport(o, {f}, PoolOf(m, n))
<1>1. /\ IsPool(PoolOf(m, n)) /\ DOMAIN PoolOf(m, n) = {m}
  BY PoolOfOne
<1>2. {m} \subseteq Model /\ IsFiniteSet({m})
  BY FS_Singleton
<1>3. \A l \in DOMAIN Needed(o, f) : Threshold(o, f)[l] = 0
  BY NeedsAndGainsAreVectors, EmbeddedNothing DEF NeedIsVector, Threshold
<1>4. \A l \in DOMAIN Needed(o, f) : Supply(o, f, PoolOf(m, n), {m}, l) \in Nat
  BY <1>1, <1>2, SupplyIsNatural
<1>5. Supplies(o, f, PoolOf(m, n), {m})
  BY <1>3, <1>4 DEF Supplies
<1> QED
  BY <1>1, <1>2, <1>5, FullIfSupplied

(* ... and the saturation bound is not above one.                          *)
LEMMA SaturationByNothing ==
  ASSUME NEW o, IsOntology(o), NEW f \in o.functionalities, NullVector(Needed(o, f)), NEW m \in Model
  PROVE  Saturation(o, f, m) <= 1
<1> DEFINE asked == [l \in {f} |-> 1]
           given == SupportVector(o, {m}, {f}, "max")
           have == Embedded(o, given)
           want == Embedded(o, asked)
<1>1. f \in Nat /\ m \in Nat /\ IsRestricted(o, m)
  BY ModelAssumption DEF IsOntology
<1>2. IsVector(asked) /\ DOMAIN asked = {f}
  BY <1>1, FS_Singleton DEF IsVector
<1>3. IsVector(given)
  BY <1>1, FS_Singleton, SupportIsVector
<1>4. Saturation(o, f, m) = Ratio(have, want)
  BY DEF Saturation, SaturationBy, Asked, Needed
<1>5. IsVector(want) /\ DOMAIN want = {f} /\ IsVector(have)
  BY <1>2, <1>3, EmbeddedIsVector
<1>6. want[f] = 1
  <2> DEFINE g == EmbeddingOf(o, asked)
  <2>1. IsEmbeddedBySteps(o, asked)
    BY <1>2, EmbeddingIsTraced
  <2>2. PairsOf(DOMAIN asked) = {}
    BY <1>1, <1>2 DEF PairsOf
  <2> HIDE DEF asked, want
  <2>4. {} \in SUBSET PairsOf(DOMAIN asked)
    OBVIOUS
  <2>5. EmbeddingOf(o, asked)[{}] = EmbedStep(o, asked, EmbeddingOf(o, asked), {})
    BY <2>1, <2>4 DEF IsEmbeddedBySteps
  <2>6. want = EmbeddingOf(o, asked)[{}]
    BY <1>2, <2>2, EmbeddingIsTraced DEF want
  <2>3. want = asked
    BY <2>5, <2>6 DEF EmbedStep
  <2> QED
    BY <2>3 DEF asked
<1> HIDE DEF asked, given, have, want
<1>7. Ratio(have, want) \in Ratios(have, want)
  BY <1>5, RatioIsGreatest
<1>8. ASSUME NEW l \in Present(have)
      PROVE  CeilDiv(NeededAt(have, want, l), have[l]) <= 1
  <2>1. have[l] \in Nat /\ have[l] > 0
    BY <1>5 DEF Present, IsVector
  <2>2. NeededAt(have, want, l) = 1
    <3>1. FirstLabel(want) = f
      BY <1>1, <1>5 DEF FirstLabel
    <3> QED
      BY <1>5, <1>6, <3>1 DEF NeededAt, Present
  <2> DEFINE c == CeilDiv(1, have[l])
             g == have[l]
  <2>3. c \in Nat /\ \A k \in Nat : k * g >= 1 <=> k >= c
    BY <2>1, QuotientIsLeast
  <2> HIDE DEF c, g
  <2>4. 1 * g >= 1
    BY <2>1 DEF g
  <2>5. c <= 1
    BY <2>3, <2>4
  <2> QED
    BY <2>2, <2>5 DEF c
<1> QED
  BY <1>4, <1>7, <1>8 DEF Ratios

(* No part of a minimal pool within the saturation bound has full support  *)
(* but all of it.                                                          *)
THEOREM NoneToSpare ==
  ASSUME NEW o, IsOntology(o), NEW f \in o.functionalities,
         NEW q, IsPool(q), IsFiniteSet(DOMAIN q), q = Compact(q), IsMinimal(o, {f}, q),
         \A m \in DOMAIN q : q[m] <= Saturation(o, f, m),
         NEW p, IsPart(p, q), FullSupport(o, {f}, p), p # EmptyPool, p = Compact(p)
  PROVE  \A m : Count(p, m) = Count(q, m)
<1> DEFINE D == DOMAIN q
<1>1. \A n \in D : q[n] \in Nat \ {0} /\ n \in Model /\ Count(q, n) = q[n]
  <2>1. DOMAIN Compact(q) = {n \in D : q[n] # 0}
    BY DEF Compact
  <2> QED
    BY <2>1 DEF IsPool, Count
<1>2. D \subseteq Model /\ D \subseteq D /\ IsFiniteSet(D) /\ FullSupport(o, {f}, q)
  BY DEF IsPool, IsMinimal
<1>3. Supplies(o, f, q, D)
  BY <1>2, FullIfSupplied
<1>4. \A m \in D : ~Misfit(o, f, m)
  <2>1. \A m \in D : Count(q, m) > 0
    BY <1>1
  <2> QED
    BY <1>3, <2>1 DEF Supplies
<1>5. IsPool(p) /\ \A m : Count(p, m) \in Nat /\ Count(q, m) \in Nat /\ Count(p, m) <= Count(q, m)
  BY CountIsNatural DEF IsPart
<1>6. \A m \in DOMAIN p : Count(p, m) > 0
  <2>1. DOMAIN Compact(p) = {n \in DOMAIN p : p[n] # 0}
    BY DEF Compact
  <2> QED
    BY <1>5, <2>1 DEF IsPool, Count
<1>7. DOMAIN p \subseteq D /\ DOMAIN p # {}
  <2>1. \A m : m \notin D => Count(q, m) = 0
    BY DEF Count
  <2>2. DOMAIN p \subseteq D
    <3> SUFFICES ASSUME NEW m \in DOMAIN p, m \notin D PROVE FALSE
      OBVIOUS
    <3>1. Count(p, m) > 0 /\ Count(p, m) <= Count(q, m) /\ Count(q, m) = 0
      BY <1>5, <1>6, <2>1
    <3> QED
      BY <1>5, <3>1
  <2>3. DOMAIN p # {}
    <3>1. ASSUME DOMAIN p = {} PROVE p = EmptyPool
      <4>1. \A m : m \notin DOMAIN p
        BY <3>1
      <4>2. Compact(p) = EmptyPool
        BY <4>1 DEF Compact, EmptyPool
      <4> QED
        BY <4>2
    <3> QED
      BY <3>1
  <2> QED
    BY <2>2, <2>3
<1>8. Supplies(o, f, p, D)
  BY <1>2, <1>5, <1>7, FullIfSupplied
<1> SUFFICES ASSUME NEW m, Count(p, m) # Count(q, m) PROVE FALSE
  OBVIOUS
<1>9. m \in D /\ Count(p, m) < Count(q, m)
  <2>1. m \in D
    <3>1. ASSUME m \notin D PROVE FALSE
      <4>1. Count(q, m) = 0
        BY <3>1 DEF Count
      <4> QED
        BY <1>5, <4>1
    <3> QED
      BY <3>1
  <2> QED
    BY <1>5, <2>1
<1> HIDE DEF D
<1>10. CASE NullVector(Needed(o, f))
  <2>1. \A n \in D : FullSupport(o, {f}, PoolOf(n, q[n]))
    BY <1>1, <1>4, <1>10, NothingNeeded
  <2>2. Cardinality(D) = 1
    BY <1>9, <2>1, MinimalByParts DEF D
  <2>3. q[m] <= 1
    <3>1. q[m] <= Saturation(o, f, m) /\ Saturation(o, f, m) <= 1 /\ q[m] \in Nat
      BY <1>1, <1>9, <1>10, SaturationByNothing DEF D
    <3>2. Saturation(o, f, m) \in Nat
      BY <1>1, <1>9, SaturationIsNatural, ModelAssumption DEF IsOntology
    <3> QED
      BY <3>1, <3>2
  <2>4. PICK n \in DOMAIN p : TRUE
    BY <1>7
  <2>5. n = m
    <3>1. PICK x : D = {x}
      BY <1>2, <2>2, FS_Singleton DEF D
    <3> QED
      BY <1>7, <1>9, <2>4, <3>1 DEF D
  <2>6. Count(p, m) > 0
    BY <1>6, <2>5
  <2>7. Count(q, m) = q[m] /\ q[m] \in Nat
    BY <1>1, <1>9
  <2> QED
    BY <1>5, <1>9, <2>3, <2>6, <2>7
<1>11. CASE ~NullVector(Needed(o, f))
  <2>0. \A n \in D : q[n] \in Nat /\ q[n] > 0 /\ n \in Model /\ ~Misfit(o, f, n) /\ q[n] <= Saturation(o, f, n)
    BY <1>1, <1>4 DEF D
  <2>1. \A n \in D : \E l \in DOMAIN Needed(o, f) :
            Gain(o, f, n)[l] > 0 /\ (q[n] - 1) * Gain(o, f, n)[l] < Threshold(o, f)[l]
    BY <1>11, <2>0, SaturationIsReached
  <2>2. CASE \E n \in D : FullSupport(o, {f}, PoolOf(n, q[n]))
    <3>1. Cardinality(D) = 1
      BY <2>2, MinimalByParts DEF D
    <3>2. D = {m}
      BY <1>2, <1>9, <3>1, FS_Singleton DEF D
    <3>3. PICK l \in DOMAIN Needed(o, f) : (q[m] - 1) * Gain(o, f, m)[l] < Threshold(o, f)[l]
      BY <1>9, <2>1
    <3> DEFINE gains == Gains(o, f, p, {m}, l)
               gain == Gain(o, f, m)[l]
    <3>4. /\ gains[m] = Count(p, m) * gain /\ gains[m] \in Nat /\ gain \in Nat
          /\ Threshold(o, f)[l] \in Nat
      <4>1. {m} \subseteq Model /\ IsFiniteSet({m}) /\ m \in {m}
        BY <1>1, <1>9, FS_Singleton
      <4> QED
        BY <1>5, <4>1, SupplyIsNatural
    <3> HIDE DEF gains, gain
    <3>5. SumFunctionOnSet(gains, {m}) = gains[m]
      BY <3>4, SumOfOne, gains[m] \in Int
    <3>6. Threshold(o, f)[l] <= gains[m]
      BY <1>8, <3>2, <3>5 DEF Supplies, Supply, gains
    <3>7. Count(p, m) <= q[m] - 1 /\ Count(p, m) \in Nat /\ q[m] - 1 \in Nat
      BY <1>1, <1>5, <1>9
    <3> DEFINE a == Count(p, m)
               b == q[m] - 1
    <3>8. a \in Nat /\ b \in Nat /\ a <= b /\ b * gain < Threshold(o, f)[l] /\ Threshold(o, f)[l] <= a * gain
      BY <3>3, <3>4, <3>6, <3>7 DEF gain
    <3> HIDE DEF a, b
    <3>9. a * gain <= b * gain /\ a * gain \in Nat /\ b * gain \in Nat
      BY <3>4, <3>8
    <3> QED
      BY <3>4, <3>8, <3>9
  <2>3. CASE \A n \in D : ~FullSupport(o, {f}, PoolOf(n, q[n]))
    <3>1. ASSUME NEW n \in D PROVE n \in Partial(o, f, q)
      <4>1. PICK l \in DOMAIN Needed(o, f) :
              Gain(o, f, n)[l] > 0 /\ (q[n] - 1) * Gain(o, f, n)[l] < Threshold(o, f)[l]
        BY <2>1
      <4> DEFINE b == q[n] - 1
                 gain == Gain(o, f, n)[l]
      <4>2. b \in Nat /\ gain \in Nat
        <5>1. GainIsVector(o, f, n)
          BY <1>1, NeedsAndGainsAreVectors
        <5> QED
          BY <1>1, <5>1 DEF GainIsVector
      <4>3. Threshold(o, f)[l] \in Nat
        BY NeedsAndGainsAreVectors DEF NeedIsVector, IsVector
      <4>4. b * gain < Threshold(o, f)[l]
        BY <4>1
      <4> HIDE DEF b, gain
      <4>5. b * gain \in Nat
        BY <4>2
      <4>6. Threshold(o, f)[l] > 0
        BY <4>3, <4>4, <4>5
      <4>7. SupportType(o, {f}, PoolOf(n, q[n])) \in {"full", "partial"}
        BY <1>1, <1>4, <4>1, <4>6, SomeIsPartial
      <4> QED
        BY <2>3, <4>7 DEF Partial, FullSupport, D
    <3>2. Partial(o, f, q) = D
      BY <3>1 DEF Partial, D
    <3>3. ~FullSupport(o, {f}, Less(q, m, D))
      BY <1>9, <2>3, <3>2, MinimalByParts DEF D
    <3> DEFINE r == Less(q, m, D)
    <3>4. /\ IsPart(r, q) /\ DOMAIN r = D
          /\ Count(r, m) = q[m] - 1 /\ Count(q, m) = q[m] /\ q[m] \in Nat \ {0}
          /\ \A n \in D \ {m} : Count(r, n) = Count(q, n)
      BY <1>1, <1>9, LessIsPart DEF D
    <3> HIDE DEF r
    <3>5. IsPool(r)
      BY <3>4 DEF IsPart
    <3>6. ASSUME NEW n \in D PROVE Count(p, n) <= Count(r, n)
      <4>1. CASE n = m
        BY <1>5, <1>9, <3>4, <4>1
      <4>2. CASE n # m
        BY <1>5, <3>4, <4>2
      <4> QED
        BY <4>1, <4>2
    <3>7. Supplies(o, f, r, D)
      BY <1>2, <1>4, <1>5, <1>8, <3>5, <3>6, MoreSupplies DEF D
    <3>8. FullSupport(o, {f}, r)
      BY <1>2, <3>4, <3>5, <3>7, FullIfSupplied DEF D
    <3> QED
      BY <3>3, <3>8 DEF r
  <2> QED
    BY <2>2, <2>3
<1> QED
  BY <1>10, <1>11

-----------------------------------------------------------------------------
(* The pools of a bounded ask are minimal and incomparable.                *)

(* What is left by the bounds is within the one of the functionality.      *)
LEMMA CutIsWithinBound ==
  ASSUME NEW o, IsOntology(o), NEW agents, IsPool(agents), IsFiniteSet(DOMAIN agents), NEW f \in o.functionalities
  PROVE  \A m \in DOMAIN agents : Count(CutBySaturation(o, agents, f), m) <= Saturation(o, f, m)
<1> DEFINE all == SaturationBoundOfSet(o, agents, {Plain(g) : g \in o.functionalities})
           own == SaturationBound(o, agents, Plain(f))
           global == Cut(agents, all)
<1> TAKE m \in DOMAIN agents
<1>1. CutBySaturation(o, agents, f) = Cut(global, own)
  BY DEF CutBySaturation, Plain
<1>2. \A k \in DOMAIN all : all[k] \in Nat
  BY BoundsOfAllAreNatural
<1>3. DOMAIN own = DOMAIN agents /\ \A k \in DOMAIN agents : own[k] \in Nat
  BY BoundsAreNatural DEF SaturationBound
<1>4. own[m] = Saturation(o, f, m)
  <2>1. Plain(f).constraints = {} /\ Plain(f).model = f
    BY DEF Plain
  <2> QED
    BY <2>1 DEF SaturationBound, ScaledBound
<1> HIDE DEF all, own
<1>5. IsPart(global, agents)
  BY <1>2, CutIsPart
<1> HIDE DEF global
<1>6. Count(Cut(global, own), m) <= own[m]
  <2>1. IsPool(global)
    BY <1>5 DEF IsPart
  <2>2. \A k \in DOMAIN global : global[k] \in Nat
    BY <2>1 DEF IsPool
  <2> QED
    BY <1>3, <2>2 DEF Cut, Count, Smaller
<1> QED
  BY <1>1, <1>4, <1>6

(* Without a neighbourhood to explore, the mapping has the minimal pools   *)
(* within both bounds.                                                     *)
LEMMA BoundedAreMinimal ==
  ASSUME NEW o, IsOntology(o), NEW agents, IsPool(agents), IsFiniteSet(DOMAIN agents),
         NEW f \in o.functionalities, NEW q \in BoundedPools(o, agents, f, 0)
  PROVE  /\ IsPart(q, agents) /\ q = Compact(q) /\ q # EmptyPool
         /\ IsMinimal(o, {f}, q) /\ \A m \in DOMAIN q : q[m] <= Saturation(o, f, m)
<1> DEFINE bounded == CutBySaturation(o, agents, f)
<1>1. IsPart(bounded, agents) /\ \A m \in DOMAIN agents : Count(bounded, m) <= Saturation(o, f, m)
  BY CutBySaturationIsPart, CutIsWithinBound
<1>2. IsMapped(o, f, q, TRUE) /\ \E base \in AllCombinations(bounded, 0) : q \in Neighbours(o, agents, bounded, base, 0)
  BY DEF BoundedPools, PoolsWithin, Explored
<1> HIDE DEF bounded
<1>3. q \in AllCombinations(bounded, 0) /\ IsMinimal(o, {f}, q)
  BY <1>2 DEF Neighbours, IsMapped
<1>4. IsPool(bounded) /\ IsFiniteSet(DOMAIN bounded)
  BY <1>1 DEF IsPart
<1>5. IsPart(q, bounded) /\ q = Compact(q) /\ q # EmptyPool
  BY <1>3, <1>4, CombinationsAreAllParts
<1>6. IsPart(q, agents)
  BY <1>1, <1>4, <1>5, PartOfPart
<1>7. ASSUME NEW m \in DOMAIN q PROVE q[m] <= Saturation(o, f, m)
  <2>1. q[m] # 0
    <3>1. DOMAIN Compact(q) = {n \in DOMAIN q : q[n] # 0}
      BY DEF Compact
    <3> QED
      BY <1>5, <3>1
  <2>2. IsPool(q) /\ q[m] \in Nat /\ m \in Model /\ Count(q, m) = q[m]
    BY <1>5 DEF IsPart, IsPool, Count
  <2>3. Count(q, m) <= Count(bounded, m) /\ Count(q, m) <= Count(agents, m) /\ Count(bounded, m) \in Nat
    BY <1>4, <1>5, <1>6, CountIsNatural DEF IsPart
  <2>4. m \in DOMAIN agents
    <3>1. ASSUME m \notin DOMAIN agents PROVE FALSE
      <4>1. Count(agents, m) = 0
        BY <3>1 DEF Count
      <4> QED
        BY <2>1, <2>2, <2>3, <4>1
    <3> QED
      BY <3>1
  <2>5. Saturation(o, f, m) \in Nat
    <3>1. f \in Nat /\ m \in Nat /\ IsRestricted(o, f) /\ IsRestricted(o, m)
      BY <2>2, ModelAssumption DEF IsOntology
    <3> QED
      BY <3>1, SaturationIsNatural
  <2> QED
    BY <1>1, <2>2, <2>3, <2>4, <2>5
<1> QED
  BY <1>3, <1>5, <1>6, <1>7

(* With the saturation bound, none of the pools is part of another.        *)
LEMMA BoundedAreIncomparable ==
  ASSUME NEW o, IsOntology(o), NEW agents, IsPool(agents), IsFiniteSet(DOMAIN agents),
         NEW f \in o.functionalities, NEW p \in BoundedPools(o, agents, f, 0),
         NEW q \in BoundedPools(o, agents, f, 0), IsSubset(p, q)
  PROVE  p = q
<1>1. /\ IsPart(q, agents) /\ q = Compact(q) /\ IsMinimal(o, {f}, q)
      /\ \A m \in DOMAIN q : q[m] <= Saturation(o, f, m)
  BY BoundedAreMinimal
<1>2. /\ IsPart(p, agents) /\ p = Compact(p) /\ p # EmptyPool /\ FullSupport(o, {f}, p)
  BY BoundedAreMinimal DEF IsMinimal
<1>3. IsPool(p) /\ IsPool(q) /\ IsFiniteSet(DOMAIN p) /\ IsFiniteSet(DOMAIN q)
  BY <1>1, <1>2 DEF IsPart
<1>4. \A m \in Model : Count(p, m) <= Count(q, m)
  BY <1>3, SubsetByCounts
<1>5. \A m : Count(p, m) <= Count(q, m)
  <2> TAKE m
  <2>1. CASE m \in Model
    BY <1>4, <2>1
  <2>2. CASE m \notin Model
    BY <1>3, <2>2 DEF IsPool, Count
  <2> QED
    BY <2>1, <2>2
<1>6. IsPart(p, q)
  BY <1>3, <1>5 DEF IsPart
<1>7. \A m : Count(p, m) = Count(q, m)
  BY <1>1, <1>2, <1>3, <1>6, NoneToSpare
<1> QED
  BY <1>1, <1>2, <1>3, <1>7, SameCounts

(* An object answers as it was prepared to, for one of the ontologies.     *)
IsAskedAbout(c, bounded, size) ==
  c.o \in Ontologies /\ \E pool \in AskedPools : c.ask = Prepared(c.o, pool, bounded, size)

SettingsKept ==
  /\ case.kind = "ontology" => case.o \in Ontologies
  /\ case.kind = "ask" => case.bounded \in BOOLEAN /\ IsAskedAbout(case, case.bounded, case.size)
  /\ case.kind = "request" => /\ case.resources \in Requests
                              /\ \E bounded \in BOOLEAN : IsAskedAbout(case, bounded, 0)

(* What an object was prepared for stays what it was.                      *)
LEMMA AsksKeepTheirSettings == Spec => []SettingsKept
<1>1. Init => SettingsKept
  BY DEF Init, SettingsKept
<1>2. InputTypeOK /\ SettingsKept /\ [Next]_case => SettingsKept'
  <2> SUFFICES ASSUME InputTypeOK, SettingsKept, [Next]_case PROVE SettingsKept'
    OBVIOUS
  <2>1. CASE LoadOntology
    <3>1. case'.kind = "ontology" /\ case'.o \in Ontologies
      BY <2>1 DEF LoadOntology
    <3> QED
      BY <3>1 DEF SettingsKept
  <2>2. CASE Prepare
    <3>1. PICK s \in Settings :
            case' = [kind |-> IF case.kind = "crew" THEN "company" ELSE "ask", o |-> case.o,
                     bounded |-> s[2], size |-> s[3], ask |-> Prepared(case.o, s[1], s[2], s[3])]
      BY <2>2 DEF Prepare
    <3>2. CASE case.kind = "crew"
      <4>1. case'.kind = "company"
        BY <3>1, <3>2
      <4> QED
        BY <4>1 DEF SettingsKept
    <3>3. CASE case.kind = "ontology"
      <4>1. s[1] \in AskedPools /\ s[2] \in BOOLEAN
        BY <3>1, <3>3 DEF Settings
      <4>2. case'.kind = "ask" /\ case'.o = case.o /\ case'.bounded = s[2] /\ case'.size = s[3]
            /\ case'.ask = Prepared(case'.o, s[1], case'.bounded, case'.size)
        BY <3>1, <3>3
      <4>3. case'.o \in Ontologies
        BY <3>3, <4>2 DEF SettingsKept
      <4>4. case'.bounded \in BOOLEAN /\ IsAskedAbout(case', case'.bounded, case'.size)
        BY <4>1, <4>2, <4>3 DEF IsAskedAbout
      <4> QED
        BY <4>2, <4>4 DEF SettingsKept
    <3> QED
      BY <2>2, <3>2, <3>3 DEF Prepare
  <2>3. CASE Request
    <3>1. PICK R \in Requests :
            case' = [kind |-> "request", o |-> case.o, ask |-> case.ask, resources |-> R]
      BY <2>3 DEF Request
    <3>2. case.bounded \in BOOLEAN /\ IsAskedAbout(case, case.bounded, 0)
      BY <2>3 DEF Request, SettingsKept
    <3>3. case'.kind = "request" /\ case'.o = case.o /\ case'.ask = case.ask /\ case'.resources \in Requests
      BY <3>1
    <3>4. IsAskedAbout(case', case.bounded, 0)
      BY <3>2, <3>3 DEF IsAskedAbout
    <3> QED
      BY <3>2, <3>3, <3>4 DEF SettingsKept
  <2>4. CASE Gather \/ Form \/ Constrain \/ Choose \/ Walk \/ Divide \/ Reconfigure
    <3>1. case'.kind \in {"crew", "team", "constraints", "pair", "range", "division", "reconfiguration"}
      BY <2>4 DEF Gather, Form, Constrain, Choose, Walk, Divide, Reconfigure
    <3> QED
      BY <3>1 DEF SettingsKept
  <2>5. CASE ConstrainMore
    <3>1. PICK e \in FurtherConditions : case' = [case EXCEPT !.set = @ \cup {e}]
      BY <2>5 DEF ConstrainMore
    <3>2. case \in Constrained
      BY <2>5 DEF ConstrainMore, InputTypeOK, Constrained, Paired, Ranged, Divided, Reconfigured
    <3>3. case'.kind = "constraints"
      BY <3>1, <3>2 DEF Constrained
    <3> QED
      BY <3>3 DEF SettingsKept
  <2>6. CASE UNCHANGED case
    BY <2>6 DEF SettingsKept, IsAskedAbout
  <2> QED
    BY <2>1, <2>2, <2>3, <2>4, <2>5, <2>6 DEF Next
<1> QED
  BY <1>1, <1>2, InputsKeepTheirType, PTL DEF Spec

(* BoundedPoolsAreMinimal: with the saturation bound no mapped pool has an *)
(* agent to spare.                                                         *)
THEOREM BoundedMinimal == Spec => []BoundedPoolsAreMinimal
<1>1. SettingsKept => BoundedPoolsAreMinimal
  <2> SUFFICES ASSUME SettingsKept, case.kind = "ask", case.bounded, case.size = 0,
                      NEW f \in DOMAIN case.ask.pools, NEW p \in case.ask.pools[f],
                      NEW q \in case.ask.pools[f], IsSubset(p, q)
               PROVE  p = q
    BY DEF BoundedPoolsAreMinimal
  <2>1. PICK pool \in AskedPools : case.ask = Prepared(case.o, pool, TRUE, 0)
    BY DEF SettingsKept, IsAskedAbout
  <2>2. IsOntology(case.o) /\ IsPool(pool) /\ IsFiniteSet(DOMAIN pool)
    BY AskedOntologies DEF SettingsKept, IsAskedAbout
  <2> DEFINE agents == case.ask.pool
  <2>3. IsPool(agents) /\ IsFiniteSet(DOMAIN agents)
    BY <2>1, <2>2, MappingIsRight
  <2>4. case.ask.pools = IF agents = EmptyPool THEN EmptyPool
                         ELSE [g \in case.o.functionalities |-> BoundedPools(case.o, agents, g, 0)]
    BY <2>1 DEF Prepared, AskedAgents, PreparedFor
  <2>5. agents # EmptyPool
    <3>1. DOMAIN EmptyPool = {}
      BY DEF EmptyPool
    <3> QED
      BY <2>4, <3>1
  <2>6. f \in case.o.functionalities /\ case.ask.pools[f] = BoundedPools(case.o, agents, f, 0)
    BY <2>4, <2>5
  <2> HIDE DEF agents
  <2> QED
    BY <2>2, <2>3, <2>6, BoundedAreIncomparable
<1> QED
  BY <1>1, AsksKeepTheirSettings, PTL

-----------------------------------------------------------------------------
(* A support that is there is found by a bounded ask.                      *)

(* The classes a support vector has sizes of.                              *)
LEMMA DomainOfSupport ==
  ASSUME NEW o, NEW c \in Nat, IsRestricted(o, c), NEW filter, IsFiniteSet(filter), filter \subseteq Nat,
         NEW side \in {"min", "max"}
  PROVE  DOMAIN SupportVector(o, {c}, filter, side) =
           IF DOMAIN o.has[c] # {} THEN IF filter = {} THEN DOMAIN o.has[c] ELSE filter
           ELSE IF filter = {} \/ c \in filter THEN {c} ELSE {}
<1> DEFINE bounds == SharedBounds(o, {c})
           sizes == [q \in DOMAIN bounds |-> bounds[q][side]]
<1>1. DOMAIN sizes = DOMAIN o.has[c]
  BY BoundsOfOne
<1>2. SupportVector(o, {c}, filter, side) = Dimensions(o, {c}, filter, sizes)
  BY DEF SupportVector
<1> HIDE DEF sizes
<1>3. CASE DOMAIN sizes = {}
  <2>1. Dimensions(o, {c}, filter, sizes) = [m \in IF filter = {} \/ {c} \cap filter # {} THEN {c} ELSE {} |-> 1]
    BY <1>3 DEF Dimensions
  <2>2. ({c} \cap filter # {}) <=> c \in filter
    OBVIOUS
  <2> QED
    BY <1>1, <1>2, <1>3, <2>1, <2>2
<1>4. CASE DOMAIN sizes # {}
  <2>1. DOMAIN Dimensions(o, {c}, filter, sizes) = IF filter = {} THEN DOMAIN sizes ELSE filter
    BY <1>4 DEF Dimensions
  <2> QED
    BY <1>1, <1>2, <1>4, <2>1
<1> QED
  BY <1>3, <1>4

(* In a regular ontology every agent can be added to what a functionality  *)
(* needs.                                                                  *)
LEMMA RegularFits ==
  ASSUME NEW o, IsOntology(o), IsRegular(o), NEW f \in o.functionalities
  PROVE  ~NullVector(Needed(o, f)) /\ \A m \in Actors(o) : ~Misfit(o, f, m)
<1>1. ~NullVector(Needed(o, f)) /\ Actors(o) \cap (DOMAIN o.has[f] \cup {f}) = {}
  BY DEF IsRegular, Needed
<1> DEFINE D == DOMAIN Needed(o, f)
<1>2. IsVector(Needed(o, f)) /\ D # {}
  BY NeedsAndGainsAreVectors DEF NeedIsVector
<1>3. D \subseteq DOMAIN o.has[f] \cup {f}
  <2>1. f \in Nat /\ IsRestricted(o, f)
    BY DEF IsOntology
  <2>2. IsFiniteSet({}) /\ {} \subseteq Nat /\ "min" \in {"min", "max"}
    BY FS_EmptySet
  <2>3. DOMAIN SupportVector(o, {f}, {}, "min") = IF DOMAIN o.has[f] # {} THEN DOMAIN o.has[f] ELSE {f}
    BY <2>1, <2>2, DomainOfSupport
  <2> QED
    BY <2>3 DEF Needed
<1>4. ASSUME NEW m \in Actors(o) PROVE ~Misfit(o, f, m)
  <2>1. m \in Nat /\ IsRestricted(o, m)
    BY ModelAssumption DEF IsOntology, Actors
  <2>2. m \notin D /\ IsFiniteSet(D) /\ D \subseteq Nat
    BY <1>1, <1>2, <1>3 DEF IsVector
  <2>3. DOMAIN Given(o, f, m) = IF DOMAIN o.has[m] # {} THEN D ELSE {}
    BY <1>2, <2>1, <2>2, DomainOfSupport DEF Given
  <2> QED
    BY <2>3 DEF Misfit, NullVector
<1> QED
  BY <1>1, <1>4

(* ... so that with more agents there is no less support.                  *)
LEMMA MoreSupport ==
  ASSUME NEW o, IsOntology(o), IsRegular(o), NEW f \in o.functionalities,
         NEW p, IsPool(p), IsFiniteSet(DOMAIN p), DOMAIN p \subseteq Actors(o),
         NEW q, IsPart(q, p), FullSupport(o, {f}, q)
  PROVE  FullSupport(o, {f}, p)
<1> DEFINE M == DOMAIN p \cup DOMAIN q
<1>1. IsPool(q) /\ \A m : Count(q, m) <= Count(p, m)
  BY DEF IsPart
<1>2. IsFiniteSet(M) /\ M \subseteq Model /\ DOMAIN p \subseteq M /\ DOMAIN q \subseteq M
  BY FS_Union DEF IsPart, IsPool
<1> HIDE DEF M
<1>3. Supplies(o, f, q, M)
  BY <1>1, <1>2, FullIfSupplied
<1>4. \A m \in M : Count(p, m) > 0 => ~Misfit(o, f, m)
  <2>1. \A m : Count(p, m) > 0 => m \in DOMAIN p
    BY DEF Count
  <2> QED
    BY <2>1, RegularFits
<1>5. Supplies(o, f, p, M)
  BY <1>1, <1>2, <1>3, <1>4, MoreSupplies
<1> QED
  BY <1>2, <1>5, FullIfSupplied

(* The bound of all functionalities is not below that of one of them.      *)
LEMMA BoundOfAllIsGreater ==
  ASSUME NEW o, IsOntology(o), NEW agents, IsPool(agents), NEW f \in o.functionalities, NEW m \in DOMAIN agents
  PROVE  LET all == SaturationBoundOfSet(o, agents, {Plain(g) : g \in o.functionalities})
         IN  m \in DOMAIN all /\ Saturation(o, f, m) <= all[m]
<1> DEFINE F == o.functionalities
           R == {Plain(g) : g \in F}
           bounds == {SaturationBound(o, agents, r)[m] : r \in R}
           all == SaturationBoundOfSet(o, agents, R)
<1>1. R # {} /\ DOMAIN all = DOMAIN agents
  BY DEF SaturationBoundOfSet
<1>2. all[m] = Greatest(bounds)
  BY <1>1 DEF SaturationBoundOfSet
<1>3. \A g \in F : SaturationBound(o, agents, Plain(g))[m] \in Nat
  BY BoundsAreNatural
<1>4. bounds = {SaturationBound(o, agents, Plain(g))[m] : g \in F}
  OBVIOUS
<1>5. IsFiniteSet(bounds)
  <2> DEFINE h == [g \in F |-> SaturationBound(o, agents, Plain(g))[m]]
  <2>1. h \in Surjection(F, bounds)
    BY <1>4 DEF Surjection
  <2> HIDE DEF h, bounds
  <2> QED
    BY <2>1, FS_Surjection DEF IsOntology
<1>6. SaturationBound(o, agents, Plain(f))[m] \in bounds
  BY <1>4
<1>7. Saturation(o, f, m) = SaturationBound(o, agents, Plain(f))[m]
  BY DEF SaturationBound, ScaledBound, Plain
<1>8. bounds \subseteq Int
  BY <1>3, <1>4
<1> HIDE DEF bounds
<1>9. Saturation(o, f, m) <= Greatest(bounds)
  BY <1>5, <1>6, <1>7, <1>8, GreatestIsOne
<1> QED
  BY <1>1, <1>2, <1>9

(* A part of the agents within the bound of the functionality is left by   *)
(* both bounds.                                                            *)
LEMMA WithinBoundIsLeft ==
  ASSUME NEW o, IsOntology(o), NEW agents, IsPool(agents), IsFiniteSet(DOMAIN agents), NEW f \in o.functionalities,
         NEW q, IsPart(q, agents), \A m \in DOMAIN q : q[m] <= Saturation(o, f, m)
  PROVE  IsPart(q, CutBySaturation(o, agents, f))
<1> DEFINE all == SaturationBoundOfSet(o, agents, {Plain(g) : g \in o.functionalities})
           own == SaturationBound(o, agents, Plain(f))
           global == Cut(agents, all)
           cut == Cut(global, own)
<1>1. CutBySaturation(o, agents, f) = cut
  BY DEF CutBySaturation, Plain
<1>2. \A k \in DOMAIN all : all[k] \in Nat
  BY BoundsOfAllAreNatural
<1>3. DOMAIN own = DOMAIN agents
  BY DEF SaturationBound
<1>4. \A m \in DOMAIN agents : own[m] = Saturation(o, f, m) /\ own[m] \in Nat
  BY BoundsAreNatural DEF SaturationBound, ScaledBound, Plain
<1>5. \A m \in DOMAIN agents : m \in DOMAIN all /\ own[m] <= all[m]
  BY <1>4, BoundOfAllIsGreater
<1> HIDE DEF all, own
<1>6. \A m \in DOMAIN agents : Count(cut, m) = Smaller(Smaller(agents[m], all[m]), own[m])
  BY <1>3, <1>5 DEF Cut, Count
<1>7. \A m : Count(q, m) \in Nat /\ Count(q, m) <= Count(agents, m)
  BY CountIsNatural DEF IsPart
<1> HIDE DEF cut
<1>8. ASSUME NEW m \in DOMAIN agents PROVE Count(q, m) <= Count(cut, m)
  <2>1. Count(q, m) <= agents[m] /\ agents[m] \in Nat
    BY <1>7 DEF Count, IsPool
  <2>2. Count(q, m) <= own[m]
    BY <1>4, <1>7 DEF Count
  <2>3. all[m] \in Nat /\ own[m] \in Nat /\ own[m] <= all[m]
    BY <1>2, <1>4, <1>5
  <2> QED
    BY <1>6, <1>7, <2>1, <2>2, <2>3 DEF Smaller
<1>9. IsPart(cut, agents)
  BY <1>1, CutBySaturationIsPart
<1>10. ASSUME NEW m, m \notin DOMAIN agents PROVE Count(q, m) <= Count(cut, m)
  <2>1. Count(agents, m) = 0 /\ Count(cut, m) \in Nat
    BY <1>9, <1>10, CountIsNatural DEF Count, IsPart
  <2> QED
    BY <1>7, <2>1
<1>11. \A m : Count(q, m) <= Count(cut, m)
  BY <1>8, <1>10
<1> QED
  BY <1>1, <1>11 DEF IsPart

(* Its pools are combinations of the agents, and every combination with    *)
(* full support includes one of them.                                      *)
LEMMA SupportIsMapped ==
  ASSUME NEW o, IsOntology(o), IsRegular(o), NEW agents, IsPool(agents), IsFiniteSet(DOMAIN agents),
         DOMAIN agents \subseteq Actors(o), NEW f \in o.functionalities, NEW bounded \in BOOLEAN, NEW size,
         \A p \in AllCombinations(agents, 0) : IsFeasible(o, p)
  PROVE  /\ MappedPools(o, agents, f, bounded, size) \subseteq AllCombinations(agents, 0)
         /\ \A p \in AllCombinations(agents, 0) :
              FullSupport(o, {f}, p) <=> \E q \in MappedPools(o, agents, f, bounded, size) : IsPart(q, p)
<1> DEFINE mapped == MappedPools(o, agents, f, bounded, size)
           cut == CutBySaturation(o, agents, f)
<1>1. IsPart(cut, agents)
  BY CutBySaturationIsPart
<1>2. IsPool(cut) /\ IsFiniteSet(DOMAIN cut)
  BY <1>1 DEF IsPart
<1> HIDE DEF cut
<1>3. AllCombinations(cut, 0) \subseteq AllCombinations(agents, 0)
  BY <1>1, <1>2, CombinationsAreAllParts, PartOfPart DEF IsPart
<1>4. \A base \in AllCombinations(cut, 0) : Neighbours(o, agents, cut, base, size) = {base}
  BY <1>3 DEF Neighbours
<1>5. BoundedPools(o, agents, f, size) = {p \in AllCombinations(cut, 0) : IsMinimal(o, {f}, p)}
  <2>1. UNION {Neighbours(o, agents, cut, base, size) : base \in AllCombinations(cut, 0)} = AllCombinations(cut, 0)
    BY <1>4
  <2>2. BoundedPools(o, agents, f, size) = PoolsWithin(o, agents, cut, f, size)
    BY DEF BoundedPools, cut
  <2>3. PoolsWithin(o, agents, cut, f, size) = {p \in AllCombinations(cut, 0) : IsMapped(o, f, p, TRUE)}
    BY <2>1 DEF PoolsWithin, Explored
  <2>4. \A p \in AllCombinations(cut, 0) : IsMapped(o, f, p, TRUE) <=> IsMinimal(o, {f}, p)
    BY <1>3 DEF IsMapped
  <2> QED
    BY <2>2, <2>3, <2>4
<1>6. UnboundedPools(o, agents, f) = {p \in AllCombinations(agents, 0) : FullSupport(o, {f}, p)}
  BY DEF UnboundedPools, IsMapped
<1>7. mapped \subseteq AllCombinations(agents, 0)
  BY <1>3, <1>5, <1>6 DEF MappedPools
<1>8. \A q \in mapped : FullSupport(o, {f}, q)
  BY <1>5, <1>6 DEF MappedPools, IsMinimal
<1>9. ASSUME NEW p \in AllCombinations(agents, 0), FullSupport(o, {f}, p)
      PROVE  \E q \in mapped : IsPart(q, p)
  <2>1. IsPart(p, agents) /\ IsPool(p) /\ IsFiniteSet(DOMAIN p)
    BY <1>9, CombinationsAreParts DEF IsPart
  <2>2. CASE ~bounded
    <3>1. p \in mapped
      BY <1>6, <1>9, <2>2 DEF MappedPools
    <3>2. \A m : Count(p, m) \in Nat
      BY <2>1, CountIsNatural
    <3>3. IsPart(p, p)
      BY <2>1, <3>2 DEF IsPart
    <3> QED
      BY <3>1, <3>3
  <2>3. CASE bounded
    <3>1. PICK q : /\ IsPart(q, p) /\ q = Compact(q) /\ q # EmptyPool
                   /\ IsMinimal(o, {f}, q) /\ \A m \in DOMAIN q : q[m] <= Saturation(o, f, m)
      BY <1>9, <2>1, RegularFits, MinimalIsFound
    <3>2. IsPart(q, agents)
      BY <2>1, <3>1, PartOfPart DEF IsPart
    <3>3. IsPart(q, cut)
      BY <3>1, <3>2, WithinBoundIsLeft DEF cut
    <3>4. q \in AllCombinations(cut, 0)
      BY <1>2, <3>1, <3>3, CombinationsAreAllParts
    <3>5. q \in mapped
      BY <1>5, <2>3, <3>1, <3>4 DEF MappedPools
    <3> QED
      BY <3>1, <3>5
  <2> QED
    BY <2>2, <2>3
<1>10. ASSUME NEW p \in AllCombinations(agents, 0), NEW q \in mapped, IsPart(q, p)
       PROVE  FullSupport(o, {f}, p)
  <2>1. IsPart(p, agents) /\ IsPool(p) /\ IsFiniteSet(DOMAIN p) /\ p = Compact(p)
    BY <1>10, CombinationsAreAllParts DEF IsPart
  <2>2. DOMAIN p \subseteq DOMAIN agents
    BY <2>1, EntriesOfPart
  <2> QED
    BY <1>8, <1>10, <2>1, <2>2, MoreSupport
<1> QED
  BY <1>7, <1>9, <1>10

(* What is prepared for a pool.                                            *)
LEMMA AskIsMapped ==
  ASSUME NEW o, IsOntology(o), NEW pool, IsPool(pool), IsFiniteSet(DOMAIN pool),
         NEW bounded \in BOOLEAN, NEW size, NEW ask, ask = Prepared(o, pool, bounded, size)
  PROVE  /\ IsPool(ask.pool) /\ IsFiniteSet(DOMAIN ask.pool) /\ IsPart(ask.pool, pool)
         /\ DOMAIN ask.pool \subseteq Actors(o)
         /\ ask.pools = IF ask.pool = EmptyPool THEN EmptyPool
                        ELSE [f \in o.functionalities |-> MappedPools(o, ask.pool, f, bounded, size)]
<1> DEFINE kept == AllowSubclasses(o, pool, o.actor)
<1>1. IsPool(ask.pool) /\ IsFiniteSet(DOMAIN ask.pool)
  BY MappingIsRight
<1>2. ask.pool = Compact(kept)
      /\ ask.pools = IF ask.pool = EmptyPool THEN EmptyPool
                     ELSE [f \in o.functionalities |-> MappedPools(o, ask.pool, f, bounded, size)]
  BY DEF Prepared, AskedAgents, PreparedFor, MappedPools
<1>3. ASSUME NEW m PROVE Count(ask.pool, m) <= Count(pool, m)
  <2>1. Count(pool, m) \in Nat
    BY CountIsNatural
  <2>2. Count(Compact(kept), m) = Count(pool, m) \/ Count(Compact(kept), m) = 0
    BY DEF Compact, AllowSubclasses, Count
  <2> QED
    BY <1>2, <2>1, <2>2
<1>4. DOMAIN ask.pool \subseteq Actors(o)
  <2>1. \A m \in DOMAIN kept : Below(o, m, o.actor)
    BY DEF AllowSubclasses
  <2>2. DOMAIN ask.pool \subseteq DOMAIN kept /\ DOMAIN ask.pool \subseteq Model
    BY <1>1, <1>2 DEF Compact, IsPool
  <2> QED
    BY <2>1, <2>2 DEF Actors
<1> QED
  BY <1>1, <1>2, <1>3, <1>4 DEF IsPart

(* SupportIsFound: where every pool can be connected, a pool supports what *)
(* the mapping says, and a functionality is said to be supported if some   *)
(* pool supports it.                                                       *)
THEOREM SupportFound == Spec => []SupportIsFound
<1>1. SettingsKept => SupportIsFound
  <2> DEFINE o == case.o
             ask == case.ask
             agents == ask.pool
             all == AllCombinations(agents, 0)
             supporting == [p \in all |-> SupportedFunctionalities(ask, p)]
  <2> SUFFICES ASSUME SettingsKept, case.kind = "ask", o.feasible = AllPools, IsRegular(o)
               PROVE  /\ \A p \in all : supporting[p] = {f \in o.functionalities : FullSupport(o, {f}, p)}
                      /\ DOMAIN KnownSupport(ask) = UNION {supporting[p] : p \in all}
    BY DEF SupportIsFound
  <2>1. PICK pool \in AskedPools : ask = Prepared(o, pool, case.bounded, case.size)
    BY DEF SettingsKept, IsAskedAbout
  <2>2. case.bounded \in BOOLEAN
    BY DEF SettingsKept
  <2>3. IsOntology(o) /\ IsPool(pool) /\ IsFiniteSet(DOMAIN pool)
    BY AskedOntologies DEF SettingsKept, IsAskedAbout
  <2> DEFINE Mapped(f) == MappedPools(o, agents, f, case.bounded, case.size)
  <2>4. /\ IsPool(agents) /\ IsFiniteSet(DOMAIN agents) /\ IsPart(agents, pool)
        /\ DOMAIN agents \subseteq Actors(o)
        /\ ask.pools = IF agents = EmptyPool THEN EmptyPool ELSE [f \in o.functionalities |-> Mapped(f)]
    BY <2>1, <2>2, <2>3, AskIsMapped
  <2>5. \A p \in all : /\ IsPart(p, agents) /\ IsPool(p) /\ p = Compact(p) /\ p # EmptyPool
                       /\ IsPart(p, pool)
    BY <2>3, <2>4, CombinationsAreAllParts, PartOfPart DEF IsPart
  <2>6. \A p \in all : IsFeasible(o, p)
    <3> TAKE p \in all
    <3>1. p \in AllCombinations(pool, 0) /\ p = Compact(p)
      BY <2>3, <2>5, CombinationsAreAllParts
    <3>2. AllCombinations(pool, 0) \subseteq AllPools
      BY InputsAreReal DEF InputAssumption
    <3> QED
      BY <3>1, <3>2 DEF IsFeasible
  <2> HIDE DEF o, ask, agents, all
  <2>7. CASE agents = EmptyPool
    <3>1. ASSUME NEW p \in all PROVE FALSE
      <4>1. \A m : Count(p, m) = 0
        <5> TAKE m
        <5>1. Count(agents, m) = 0
          BY <2>7 DEF EmptyPool, Count
        <5>2. Count(p, m) <= Count(agents, m) /\ Count(p, m) \in Nat
          BY <2>5, CountIsNatural DEF IsPart
        <5> QED
          BY <5>1, <5>2
      <4>2. IsPool(EmptyPool) /\ \A m : Count(EmptyPool, m) = 0 /\ Compact(EmptyPool) = EmptyPool
        BY DEF IsPool, EmptyPool, Count, Compact
      <4>3. Compact(p) = EmptyPool
        BY <2>5, <4>1, <4>2, SameCounts
      <4> QED
        BY <2>5, <4>3
    <3>2. DOMAIN ask.pools = {}
      BY <2>4, <2>7 DEF EmptyPool
    <3>3. DOMAIN KnownSupport(ask) = {}
      BY <3>2 DEF KnownSupport
    <3> QED
      BY <3>1, <3>3
  <2>8. CASE agents # EmptyPool
    <3>1. ask.pools = [f \in o.functionalities |-> Mapped(f)]
      BY <2>4, <2>8
    <3>2. ASSUME NEW f \in o.functionalities
          PROVE  /\ Mapped(f) \subseteq all
                 /\ \A p \in all : FullSupport(o, {f}, p) <=> \E q \in Mapped(f) : IsPart(q, p)
      BY <2>2, <2>3, <2>4, <2>6, SupportIsMapped DEF all
    <3> HIDE DEF Mapped
    <3>3. ASSUME NEW p \in all, NEW f \in o.functionalities
          PROVE  f \in supporting[p] <=> FullSupport(o, {f}, p)
      <4>1. f \in supporting[p] <=> \E q \in Mapped(f) : Mapping!IsSubpool(q, p)
        BY <3>1 DEF SupportedFunctionalities, Mapping!FunctionalitiesOf
      <4>2. \A q \in Mapped(f) : Mapping!IsSubpool(q, p) <=> IsPart(q, p)
        <5> TAKE q \in Mapped(f)
        <5>1. q \in all /\ IsPart(q, agents) /\ IsPool(q) /\ IsPool(p)
          BY <2>5, <3>2
        <5> QED
          BY <5>1, SubpoolByCounts DEF IsPart
      <4> QED
        BY <3>2, <4>1, <4>2
    <3>4. \A p \in all : supporting[p] \subseteq o.functionalities
      BY <3>1 DEF SupportedFunctionalities, Mapping!FunctionalitiesOf
    <3>5. DOMAIN KnownSupport(ask) = {f \in o.functionalities : Mapped(f) # {}}
      BY <3>1 DEF KnownSupport
    <3> HIDE DEF supporting
    <3>6. \A p \in all : supporting[p] = {f \in o.functionalities : FullSupport(o, {f}, p)}
      BY <3>3, <3>4
    <3>7. ASSUME NEW f \in o.functionalities
          PROVE  Mapped(f) # {} <=> \E p \in all : f \in supporting[p]
      <4>1. ASSUME NEW q \in Mapped(f) PROVE \E p \in all : f \in supporting[p]
        <5>1. q \in all /\ IsPool(q) /\ IsPart(q, agents)
          BY <2>5, <3>2
        <5>2. IsPart(q, q)
          <6>1. \A m : Count(q, m) \in Nat
            BY <5>1, CountIsNatural
          <6> QED
            BY <5>1, <6>1 DEF IsPart
        <5> QED
          BY <3>2, <3>3, <5>1, <5>2
      <4> QED
        BY <3>2, <3>3, <4>1
    <3> QED
      BY <3>4, <3>5, <3>6, <3>7
  <2> QED
    BY <2>7, <2>8
<1> QED
  BY <1>1, AsksKeepTheirSettings, PTL

-----------------------------------------------------------------------------
(* The pools granted to resources serve them.                              *)

(* Merged bounds are not below what a constraint asks for at least.        *)
LEMMA LeastIsMerged ==
  ASSUME NEW C, IsFiniteSet(C), \A c \in C : IsConstraint(c), Merged(C) # Conflict,
         NEW c \in C, c.type = GREATER_EQUAL
  PROVE  c.value <= Merged(C)[1] /\ Merged(C)[1] \in Nat
<1>1. PICK min, max : Solved(C, min, max)
  BY MergeSolves
<1>2. min \in Int /\ max \in Int /\ c.value \in Nat /\ c.value <= min
  <2>1. c.value \in Nat
    BY InfiniteIsBeyond DEF IsConstraint
  <2>2. c.value \in Lower(C)
    BY DEF Lower
  <2> QED
    BY <1>1, <2>1, <2>2 DEF Solved
<1>3. Merged(C) = <<Larger(0, min), max>>
  BY <1>1 DEF Solved
<1>4. Larger(0, min) = min
  BY <1>2 DEF Larger
<1> QED
  BY <1>2, <1>3, <1>4

(* The factor getScalingFactor has for some constraints.                   *)
LEMMA FactorOfConstraints ==
  ASSUME NEW C, IsFiniteSet(C), \A c \in C : IsConstraint(c),
         NEW values, \A c \in C : values[c.property] \in 0 .. Unbounded
  PROVE  /\ FactorIsLeast(ScalingFactor(values, C), DOMAIN Clusters(C), values,
                          [p \in DOMAIN Clusters(C) |-> Merged(Clusters(C)[p])])
         /\ \A c \in C : /\ c.property \in DOMAIN Clusters(C) /\ c \in Clusters(C)[c.property]
                         /\ IsFiniteSet(Clusters(C)[c.property])
                         /\ \A d \in Clusters(C)[c.property] : IsConstraint(d)
<1> DEFINE clusters == Clusters(C)
<1>1. /\ IsFiniteSet(DOMAIN clusters) /\ DOMAIN clusters \subseteq Nat \ {0}
      /\ \A c \in C : c.property \in DOMAIN clusters /\ c \in clusters[c.property]
      /\ \A p \in DOMAIN clusters :
            /\ IsFiniteSet(clusters[p])
            /\ \A c \in clusters[p] : c \in C /\ c.property = p /\ IsConstraint(c)
  BY ClustersAreFinite
<1>2. \A p \in DOMAIN clusters : values[p] \in 0 .. Unbounded /\ AreBounds(Merged(clusters[p]))
  <2> SUFFICES ASSUME NEW p \in DOMAIN clusters PROVE values[p] \in 0 .. Unbounded /\ AreBounds(Merged(clusters[p]))
    OBVIOUS
  <2>1. \E c \in C : c.property = p
    BY DEF Clusters
  <2>2. values[p] \in 0 .. Unbounded
    BY <2>1
  <2> HIDE DEF clusters
  <2> QED
    BY <1>1, <2>2, MergedAreBounds
<1>3. FactorIsLeast(ScalingFactor(values, C), DOMAIN clusters, values,
                    [p \in DOMAIN clusters |-> Merged(clusters[p])])
  BY <1>1, <1>2, ScalingIsTheLeast
<1> QED
  BY <1>1, <1>3

(* What is left of scaled pools by the upper bound is among the agents.    *)
LEMMA ScaledIsWithin ==
  ASSUME NEW agents, IsPool(agents), NEW q, IsPart(q, agents), q = Compact(q), NEW k \in Nat,
         WithinUpperBound(Multiply(q, k), agents)
  PROVE  IsWithin(Multiply(q, k), agents)
<1> DEFINE p == Multiply(q, k)
<1>1. IsPool(q) /\ IsFiniteSet(DOMAIN q) /\ DOMAIN q \subseteq DOMAIN agents
  BY EntriesOfPart DEF IsPart
<1>2. IsPool(p) /\ DOMAIN p = DOMAIN q
  BY <1>1, MultiplyByCounts
<1>3. \A m : Count(p, m) \in Nat /\ Count(agents, m) \in Nat
  BY <1>2, CountIsNatural
<1>4. \A m \in DOMAIN p : p[m] <= agents[m]
  BY <1>1, <1>2 DEF WithinUpperBound
<1> HIDE DEF p
<1>5. ASSUME NEW m PROVE Count(p, m) <= Count(agents, m)
  <2>1. CASE m \in DOMAIN p
    BY <1>1, <1>2, <1>4, <2>1 DEF Count
  <2>2. CASE m \notin DOMAIN p
    <3>1. Count(p, m) = 0
      BY <2>2 DEF Count
    <3> QED
      BY <1>3, <3>1
  <2> QED
    BY <2>1, <2>2
<1>6. IsWithin(p, agents)
  BY <1>1, <1>2, <1>5 DEF IsPart, IsWithin
<1> QED
  BY <1>6 DEF p

(* A pool scaled for constraints by a number includes the pool and has     *)
(* enough of everything.                                                   *)
LEMMA ScaledServes ==
  ASSUME NEW q, IsPool(q), IsFiniteSet(DOMAIN q),
         NEW C, IsFiniteSet(C), \A c \in C : IsConstraint(c),
         NEW values, \A c \in C : values[c.property] \in 0 .. Unbounded,
         NEW factor, factor = ScalingFactor(values, C), factor # 0, factor # Infinite
  PROVE  /\ factor \in Nat \ {0}
         /\ IsPart(q, Multiply(q, factor))
         /\ \A c \in C : c.type = GREATER_EQUAL => factor * values[c.property] >= c.value
<1> DEFINE clusters == Clusters(C)
           bounds == [p \in DOMAIN clusters |-> Merged(clusters[p])]
<1>1. /\ FactorIsLeast(factor, DOMAIN clusters, values, bounds)
      /\ \A c \in C : /\ c.property \in DOMAIN clusters /\ c \in clusters[c.property]
                      /\ IsFiniteSet(clusters[c.property])
                      /\ \A d \in clusters[c.property] : IsConstraint(d)
  BY FactorOfConstraints
<1> HIDE DEF clusters
<1>2. factor \in 1 .. Infinite - 1
  BY <1>1, InfiniteIsBeyond DEF FactorIsLeast
<1>3. factor \in Nat \ {0}
  BY <1>2
<1> DEFINE p == Multiply(q, factor)
<1>4. IsPool(p) /\ DOMAIN p = DOMAIN q /\ \A m : Count(p, m) = factor * Count(q, m)
  BY <1>3, MultiplyByCounts
<1>5. \A m : Count(q, m) \in Nat
  BY CountIsNatural
<1> HIDE DEF p
<1>6. IsPart(q, p)
  <2>1. ASSUME NEW m PROVE Count(q, m) <= factor * Count(q, m)
    <3> DEFINE n == Count(q, m)
    <3>1. n \in Nat
      BY <1>5
    <3> HIDE DEF n
    <3>2. n <= factor * n
      BY <1>3, <3>1
    <3> QED
      BY <3>2 DEF n
  <2> QED
    BY <1>4, <2>1 DEF IsPart
<1>7. ASSUME NEW c \in C, c.type = GREATER_EQUAL PROVE factor * values[c.property] >= c.value
  <2> DEFINE k == c.property
  <2>1. k \in DOMAIN clusters /\ c \in clusters[k] /\ IsFiniteSet(clusters[k]) /\ \A d \in clusters[k] : IsConstraint(d)
    BY <1>1
  <2>2. Reaches(factor, values[k], bounds[k])
    BY <1>1, <1>2, <2>1 DEF FactorIsLeast
  <2>3. Merged(clusters[k]) # Conflict /\ factor * values[k] >= Merged(clusters[k])[1]
    BY <2>1, <2>2 DEF Reaches
  <2>4. c.value <= Merged(clusters[k])[1] /\ Merged(clusters[k])[1] \in Nat
    BY <1>7, <2>1, <2>3, LeastIsMerged
  <2>5. c.value \in Nat /\ values[k] \in Nat
    BY <2>1, InfiniteIsBeyond DEF IsConstraint
  <2> DEFINE v == values[k]
             low == Merged(clusters[k])[1]
  <2>6. factor * v \in Nat
    BY <1>3, <2>5
  <2> HIDE DEF k
  <2> QED
    BY <2>3, <2>4, <2>5, <2>6 DEF k
<1> QED
  BY <1>3, <1>6, <1>7 DEF p

(* The mapping has combinations of the agents.                             *)
LEMMA MappedAreCombinations ==
  ASSUME NEW o, IsOntology(o), NEW agents, IsPool(agents), IsFiniteSet(DOMAIN agents),
         NEW f \in o.functionalities, NEW bounded \in BOOLEAN, NEW q \in MappedPools(o, agents, f, bounded, 0)
  PROVE  IsPart(q, agents) /\ q = Compact(q) /\ q # EmptyPool
<1>1. CASE bounded
  BY <1>1, BoundedAreMinimal DEF MappedPools
<1>2. CASE ~bounded
  <2>1. q \in AllCombinations(agents, 0)
    BY <1>2 DEF MappedPools, UnboundedPools
  <2> QED
    BY <2>1, CombinationsAreAllParts
<1> QED
  BY <1>1, <1>2

(* What is asked for a resource, and about it.                             *)
IsRequested(o, r) ==
  /\ IsFiniteSet(r.constraints)
  /\ \A c \in r.constraints : IsConstraint(c) /\ c.property \in DOMAIN o.value

(* The value of a property of a combination is one the solver takes.       *)
LEMMA ValueOfCombination ==
  ASSUME NEW o \in Ontologies, NEW pool \in AskedPools, NEW agents, IsPart(agents, pool),
         DOMAIN agents \subseteq Actors(o),
         NEW q, IsPart(q, agents), q = Compact(q), q # EmptyPool
  PROVE  /\ q \in AllPools
         /\ \A k \in DOMAIN o.value : WeightedSum(q, o.value[k]) \in 0 .. Unbounded
<1>1. IsPool(pool) /\ IsFiniteSet(DOMAIN pool) /\ IsPool(agents) /\ IsPool(q) /\ IsFiniteSet(DOMAIN q)
  BY AskedOntologies DEF IsPart
<1>2. IsPart(q, pool)
  BY <1>1, PartOfPart
<1>3. q \in AllPools
  <2>1. q \in AllCombinations(pool, 0)
    BY <1>1, <1>2, CombinationsAreAllParts
  <2> QED
    BY <2>1, InputsAreReal DEF InputAssumption
<1>4. DOMAIN q \subseteq Actors(o)
  BY <1>1, EntriesOfPart
<1>5. ASSUME NEW k \in DOMAIN o.value PROVE WeightedSum(q, o.value[k]) \in 0 .. Unbounded
  <2>1. /\ \A m \in DOMAIN q : o.value[k][m] \in Nat
        /\ WeightedSum(q, o.value[k]) <= Unbounded
    BY <1>3, <1>4, InputsAreReal DEF InputAssumption
  <2>2. \A m : 1 * Count(q, m) <= Count(q, m)
    <3> TAKE m
    <3>1. Count(q, m) \in Nat
      BY <1>1, CountIsNatural
    <3> QED
      BY <3>1
  <2>3. WeightedSum(q, o.value[k]) \in Nat
    BY <1>1, <2>1, <2>2, MoreHasMore
  <2> QED
    BY <2>1, <2>3, InfiniteIsBeyond
<1> QED
  BY <1>3, <1>5

(* The pools getResourceSupport has for a resource are mapped ones, or what*)
(* their multiples by the converted factor leave within the bound.         *)
LEMMA SupportIsScaled ==
  ASSUME NEW o \in Ontologies, NEW pool \in AskedPools, NEW bounded \in BOOLEAN,
         NEW ask, ask = Prepared(o, pool, bounded, 0),
         NEW r, IsRequested(o, r), NEW q \in ResourceSupportOf(o, ask, r)
  PROVE  /\ ask.pool # EmptyPool /\ r.model \in o.functionalities /\ r.model \in DOMAIN ask.pools
         /\ ask.pools[r.model] = MappedPools(o, ask.pool, r.model, bounded, 0)
         /\ \A base \in ask.pools[r.model] :
               /\ IsPart(base, ask.pool) /\ base = Compact(base) /\ base # EmptyPool
               /\ IsPool(base) /\ IsFiniteSet(DOMAIN base)
               /\ \A c \in r.constraints :
                     /\ IsConstraint(c) /\ c.property \in DOMAIN o.value
                     /\ PropertyValues(o, base)[c.property] = WeightedSum(base, o.value[c.property])
                     /\ PropertyValues(o, base)[c.property] \in 0 .. Unbounded
         /\ r.constraints = {} => q \in ask.pools[r.model]
         /\ r.constraints # {} =>
              \E base \in ask.pools[r.model] :
                 LET factor == ScalingFactor(PropertyValues(o, base), r.constraints)
                 IN  /\ factor # 0 /\ q = Multiply(base, AsUnsigned(factor))
                     /\ WithinUpperBound(q, ask.pool)
<1> DEFINE agents == ask.pool
           f == r.model
<1>1. IsOntology(o) /\ IsPool(pool) /\ IsFiniteSet(DOMAIN pool)
  BY AskedOntologies
<1>2. /\ IsPool(agents) /\ IsFiniteSet(DOMAIN agents) /\ IsPart(agents, pool)
      /\ DOMAIN agents \subseteq Actors(o)
      /\ ask.pools = IF agents = EmptyPool THEN EmptyPool
                     ELSE [g \in o.functionalities |-> MappedPools(o, agents, g, bounded, 0)]
  BY <1>1, AskIsMapped
<1>3. f \in DOMAIN ask.pools
  BY DEF ResourceSupportOf
<1>4. agents # EmptyPool
  <2>1. DOMAIN EmptyPool = {}
    BY DEF EmptyPool
  <2> QED
    BY <1>2, <1>3, <2>1
<1>5. f \in o.functionalities /\ ask.pools[f] = MappedPools(o, agents, f, bounded, 0)
  BY <1>2, <1>3, <1>4
<1>6. \A base \in ask.pools[f] : /\ IsPart(base, agents) /\ base = Compact(base) /\ base # EmptyPool
                                 /\ IsPool(base) /\ IsFiniteSet(DOMAIN base)
  BY <1>1, <1>2, <1>5, MappedAreCombinations DEF IsPart
<1> HIDE DEF agents, f
<1>7. ASSUME NEW base \in ask.pools[f], NEW c \in r.constraints
      PROVE  /\ IsConstraint(c) /\ c.property \in DOMAIN o.value
             /\ PropertyValues(o, base)[c.property] = WeightedSum(base, o.value[c.property])
             /\ PropertyValues(o, base)[c.property] \in 0 .. Unbounded
  <2>1. IsConstraint(c) /\ c.property \in DOMAIN o.value
    BY DEF IsRequested
  <2>2. PropertyValues(o, base)[c.property] = WeightedSum(base, o.value[c.property])
    BY <2>1 DEF PropertyValues
  <2>3. WeightedSum(base, o.value[c.property]) \in 0 .. Unbounded
    BY <1>2, <1>6, <2>1, ValueOfCombination
  <2> QED
    BY <2>1, <2>2, <2>3
<1>8. CASE r.constraints = {}
  <2>1. q \in ask.pools[f]
    BY <1>3, <1>8 DEF ResourceSupportOf, f
  <2> QED
    BY <1>3, <1>4, <1>5, <1>6, <1>7, <1>8, <2>1 DEF agents, f
<1>9. CASE r.constraints # {}
  <2> DEFINE Factor(p) == ScalingFactor(PropertyValues(o, p), r.constraints)
             factor == [p \in ask.pools[f] |-> Factor(p)]
             scaled == {Multiply(p, AsUnsigned(factor[p])) : p \in {s \in DOMAIN factor : factor[s] # 0}}
  <2>1. q \in ApplyUpperBound(scaled, agents)
    BY <1>3, <1>4, <1>9 DEF ResourceSupportOf, f, agents
  <2>2. q \in scaled /\ WithinUpperBound(q, agents)
    BY <2>1 DEF ApplyUpperBound
  <2>3. PICK base \in ask.pools[f] : Factor(base) # 0 /\ q = Multiply(base, AsUnsigned(Factor(base)))
    BY <2>2
  <2> QED
    BY <1>3, <1>4, <1>5, <1>6, <1>7, <1>9, <2>2, <2>3 DEF agents, f
<1> QED
  BY <1>8, <1>9

(* They can be taken from the agents, whatever the conversion makes of a   *)
(* factor that is no number.                                               *)
LEMMA SupportIsWithin ==
  ASSUME NEW o \in Ontologies, NEW pool \in AskedPools, NEW bounded \in BOOLEAN,
         NEW ask, ask = Prepared(o, pool, bounded, 0),
         NEW r, IsRequested(o, r), NEW q \in ResourceSupportOf(o, ask, r)
  PROVE  IsWithin(q, ask.pool)
<1>1. IsPool(ask.pool)
  BY AskedOntologies, AskIsMapped
<1>2. CASE r.constraints = {}
  BY <1>1, <1>2, SupportIsScaled, EntriesOfPart DEF IsWithin
<1>3. CASE r.constraints # {}
  <2> DEFINE Values(p) == PropertyValues(o, p)
             Factor(p) == ScalingFactor(Values(p), r.constraints)
  <2>1. PICK base \in ask.pools[r.model] :
           q = Multiply(base, AsUnsigned(Factor(base))) /\ WithinUpperBound(q, ask.pool)
    BY <1>3, SupportIsScaled
  <2>2. /\ IsPart(base, ask.pool) /\ base = Compact(base)
        /\ \A c \in r.constraints : IsConstraint(c) /\ Values(base)[c.property] \in 0 .. Unbounded
    BY SupportIsScaled
  <2> DEFINE values == Values(base)
             factor == Factor(base)
  <2>3. IsFiniteSet(r.constraints) /\ factor = ScalingFactor(values, r.constraints)
    BY DEF IsRequested
  <2>4. \A c \in r.constraints : IsConstraint(c) /\ values[c.property] \in 0 .. Unbounded
    BY <2>2
  <2>5. q = Multiply(base, AsUnsigned(factor))
    BY <2>1
  <2> HIDE DEF values, factor
  <2>6. factor \in 0 .. Infinite
    BY <2>3, <2>4, FactorOfConstraints DEF FactorIsLeast
  <2>7. AsUnsigned(factor) \in Nat
    BY <2>6, ConversionAssumption, InfiniteIsBeyond DEF AsUnsigned
  <2> QED
    BY <1>1, <2>1, <2>2, <2>5, <2>7, ScaledIsWithin
<1> QED
  BY <1>2, <1>3

(* Where the factors are numbers, they are mapped pools as often as the    *)
(* constraints ask for.                                                    *)
LEMMA SupportScales ==
  ASSUME NEW o \in Ontologies, NEW pool \in AskedPools, NEW bounded \in BOOLEAN,
         NEW ask, ask = Prepared(o, pool, bounded, 0),
         NEW r, IsRequested(o, r), NEW q \in ResourceSupportOf(o, ask, r), ~IsBeyondScaling(o, ask, r)
  PROVE  \E base, k : Scales(o, ask, r, q, base, k)
<1>1. \A base \in ask.pools[r.model] : IsPool(base) /\ IsFiniteSet(DOMAIN base)
  BY SupportIsScaled
<1>2. CASE r.constraints = {}
  <2>1. q \in ask.pools[r.model]
    BY <1>2, SupportIsScaled
  <2>2. \A m : Count(q, m) \in Nat
    BY <1>1, <2>1, CountIsNatural
  <2>3. Scales(o, ask, r, q, q, 1)
    BY <1>1, <1>2, <2>1, <2>2 DEF Scales, IsPart
  <2> QED
    BY <2>3
<1>3. CASE r.constraints # {}
  <2> DEFINE C == r.constraints
             Factor(p) == ScalingFactor(PropertyValues(o, p), C)
  <2>1. PICK base \in ask.pools[r.model] : Factor(base) # 0 /\ q = Multiply(base, AsUnsigned(Factor(base)))
    BY <1>3, SupportIsScaled
  <2> DEFINE k == Factor(base)
             values == PropertyValues(o, base)
  <2>2. k # Infinite
    BY <1>3, <2>1 DEF IsBeyondScaling
  <2>3. \A c \in C : /\ IsConstraint(c) /\ values[c.property] \in 0 .. Unbounded
                     /\ values[c.property] = WeightedSum(base, o.value[c.property])
    BY SupportIsScaled
  <2>4. IsFiniteSet(C) /\ k = ScalingFactor(values, C) /\ k # 0 /\ q = Multiply(base, AsUnsigned(k))
    BY <2>1 DEF IsRequested
  <2> HIDE DEF k, values, C
  <2>5. q = Multiply(base, k)
    BY <2>2, <2>4 DEF AsUnsigned
  <2>6. /\ k \in Nat \ {0} /\ IsPart(base, Multiply(base, k))
        /\ \A c \in C : c.type = GREATER_EQUAL => k * values[c.property] >= c.value
    BY <1>1, <2>2, <2>3, <2>4, ScaledServes
  <2>7. \A m : Count(q, m) = k * Count(base, m)
    BY <1>1, <2>5, <2>6, MultiplyByCounts
  <2>8. \A m : Count(q, m) \in Nat
    <3>1. IsPool(q)
      BY <1>1, <2>5, <2>6, MultiplyByCounts
    <3> QED
      BY <3>1, CountIsNatural
  <2>9. \A m : k * Count(base, m) <= Count(q, m)
    BY <2>7, <2>8
  <2>10. Scales(o, ask, r, q, base, k)
    BY <2>1, <2>3, <2>5, <2>6, <2>9 DEF Scales, C
  <2> QED
    BY <2>10
<1> QED
  BY <1>2, <1>3

(* ... so that a pool that includes one has what the resource needs.       *)
LEMMA SupportServes ==
  ASSUME NEW o \in Ontologies, NEW pool \in AskedPools, NEW bounded \in BOOLEAN,
         NEW ask, ask = Prepared(o, pool, bounded, 0),
         NEW r, IsRequested(o, r), NEW q \in ResourceSupportOf(o, ask, r), ~IsBeyondScaling(o, ask, r),
         NEW p, IsWithin(p, ask.pool), IsPart(q, p)
  PROVE  r.model \in SupportedFunctionalities(ask, p) /\ Enough(o, p, r.constraints)
<1>1. IsOntology(o) /\ IsPool(pool) /\ IsFiniteSet(DOMAIN pool)
  BY AskedOntologies
<1>2. r.model \in DOMAIN ask.pools /\ IsWithin(q, ask.pool)
  BY SupportIsScaled, SupportIsWithin
<1>3. PICK base, k : Scales(o, ask, r, q, base, k)
  BY SupportScales
<1>4. /\ base \in ask.pools[r.model] /\ IsPart(base, q)
      /\ k \in Nat /\ \A m : k * Count(base, m) <= Count(q, m)
      /\ \A c \in r.constraints :
            c.type = GREATER_EQUAL => k * WeightedSum(base, o.value[c.property]) >= c.value
  BY <1>3 DEF Scales
<1>5. /\ IsPool(p) /\ IsFiniteSet(DOMAIN p) /\ IsPool(q) /\ IsPool(base) /\ IsFiniteSet(DOMAIN base)
      /\ DOMAIN p \subseteq DOMAIN ask.pool /\ DOMAIN ask.pool \subseteq Actors(o)
      /\ \A m : Count(q, m) <= Count(p, m)
  BY <1>1, <1>2, <1>4, AskIsMapped DEF IsPart, IsWithin
<1>6. \A m : Count(p, m) \in Nat /\ Count(q, m) \in Nat /\ Count(base, m) \in Nat
  BY <1>5, CountIsNatural
<1>7. \A m : Count(base, m) <= Count(p, m)
  BY <1>4, <1>5, <1>6 DEF IsPart
<1>8. \A m : k * Count(base, m) <= Count(p, m)
  <2> TAKE m
  <2> DEFINE n == Count(base, m)
  <2>1. n \in Nat /\ k * n <= Count(q, m) /\ Count(q, m) <= Count(p, m)
    BY <1>4, <1>5, <1>6
  <2> HIDE DEF n
  <2>2. k * n \in Nat
    BY <1>4, <2>1
  <2>3. k * n <= Count(p, m)
    BY <1>6, <2>1, <2>2
  <2> QED
    BY <2>3 DEF n
<1>9. r.model \in SupportedFunctionalities(ask, p)
  <2>1. Mapping!IsSubpool(base, p)
    BY <1>5, <1>7, SubpoolByCounts
  <2> QED
    BY <1>2, <1>4, <2>1 DEF SupportedFunctionalities, Mapping!FunctionalitiesOf
<1>10. ASSUME NEW c \in r.constraints, c.type = GREATER_EQUAL
       PROVE  PropertyValues(o, p)[c.property] >= c.value
  <2> DEFINE w == o.value[c.property]
  <2>1. c.property \in DOMAIN o.value /\ IsConstraint(c)
    BY DEF IsRequested
  <2>2. PropertyValues(o, p)[c.property] = WeightedSum(p, w)
    BY <2>1 DEF PropertyValues
  <2>3. \A m \in Actors(o) : w[m] \in Nat
    BY <2>1, InputsAreReal DEF InputAssumption
  <2>4. DOMAIN base \subseteq Actors(o)
    <3>1. r.model \in o.functionalities /\ base \in MappedPools(o, ask.pool, r.model, bounded, 0)
      BY <1>4, SupportIsScaled
    <3>2. IsPart(base, ask.pool) /\ base = Compact(base) /\ IsPool(ask.pool)
      BY <1>1, <3>1, AskIsMapped, MappedAreCombinations
    <3>3. DOMAIN base \subseteq DOMAIN ask.pool
      BY <3>2, EntriesOfPart
    <3> QED
      BY <1>5, <3>3
  <2>5. \A m \in DOMAIN p \cup DOMAIN base : w[m] \in Nat
    BY <1>5, <2>3, <2>4
  <2>6. c.value \in Nat /\ k * WeightedSum(base, w) >= c.value
    BY <1>4, <1>10, <2>1, InfiniteIsBeyond DEF IsConstraint
  <2> HIDE DEF w
  <2>7. /\ WeightedSum(p, w) \in Nat /\ WeightedSum(base, w) \in Nat
        /\ k * WeightedSum(base, w) <= WeightedSum(p, w)
    BY <1>4, <1>5, <1>8, <2>5, MoreHasMore
  <2> DEFINE least == k * WeightedSum(base, w)
  <2>8. least \in Nat
    BY <1>4, <2>7
  <2> HIDE DEF least
  <2>9. WeightedSum(p, w) >= c.value
    BY <2>6, <2>7, <2>8 DEF least
  <2> QED
    BY <2>2, <2>9
<1> QED
  BY <1>9, <1>10 DEF Enough

(* Resource::merge leaves finitely many resources, each with the           *)
(* constraints of those that became one.                                   *)
LEMMA MergedAreRequested ==
  ASSUME NEW o, NEW R, IsFiniteSet(R), \A r \in R : IsRequested(o, r)
  PROVE  /\ IsFiniteSet(MergedResources(R)) /\ \A s \in MergedResources(R) : IsRequested(o, s)
         /\ \A r \in R : \E s \in MergedResources(R) : s.model = r.model /\ r.constraints \subseteq s.constraints
<1> DEFINE models == {r.model : r \in R}
           Same(m) == {q \in R : q.model = m}
           sets == [m \in models |-> {r.constraints : r \in Same(m)}]
           merged == [m \in models |-> [model |-> m, constraints |-> UNION sets[m]]]
<1>1. MergedResources(R) = {merged[m] : m \in models}
  BY DEF MergedResources
<1>2. IsFiniteSet(models)
  <2> DEFINE g == [r \in R |-> r.model]
  <2>1. g \in Surjection(R, models)
    BY DEF Surjection
  <2> HIDE DEF g, models
  <2> QED
    BY <2>1, FS_Surjection
<1>3. IsFiniteSet(MergedResources(R))
  <2>1. merged \in Surjection(models, {merged[m] : m \in models})
    BY DEF Surjection
  <2> HIDE DEF merged, models
  <2>2. IsFiniteSet({merged[m] : m \in models})
    BY <1>2, <2>1, FS_Surjection
  <2> QED
    BY <1>1, <2>2
<1>4. ASSUME NEW m \in models PROVE IsRequested(o, merged[m])
  <2>1. merged[m].constraints = UNION sets[m]
    OBVIOUS
  <2>2. IsFiniteSet(sets[m]) /\ \A C \in sets[m] : IsFiniteSet(C)
    <3> DEFINE S == Same(m)
               g == [r \in S |-> r.constraints]
               image == {r.constraints : r \in S}
    <3>1. sets[m] = image
      OBVIOUS
    <3>2. g \in Surjection(S, image)
      BY DEF Surjection
    <3>3. IsFiniteSet(S)
      BY FS_Subset
    <3>4. \A C \in image : IsFiniteSet(C)
      BY DEF IsRequested
    <3> HIDE DEF g, image, S, sets
    <3> QED
      BY <3>1, <3>2, <3>3, <3>4, FS_Surjection
  <2>3. \A c \in UNION sets[m] : IsConstraint(c) /\ c.property \in DOMAIN o.value
    BY DEF IsRequested
  <2> HIDE DEF sets
  <2>4. IsFiniteSet(UNION sets[m])
    BY <2>2, FS_UNION
  <2> QED
    BY <2>1, <2>3, <2>4 DEF IsRequested
<1>5. ASSUME NEW r \in R
      PROVE  \E s \in MergedResources(R) : s.model = r.model /\ r.constraints \subseteq s.constraints
  <2>1. r.model \in models /\ r.constraints \in sets[r.model]
    OBVIOUS
  <2>2. merged[r.model].model = r.model /\ merged[r.model].constraints = UNION sets[r.model]
    BY <2>1
  <2> QED
    BY <1>1, <2>1, <2>2
<1> HIDE DEF merged, models
<1> QED
  BY <1>1, <1>3, <1>4, <1>5

(* A pool for several resources, each of which has support, serves each.   *)
LEMMA GrantedServe ==
  ASSUME NEW o \in Ontologies, NEW pool \in AskedPools, NEW bounded \in BOOLEAN,
         NEW ask, ask = Prepared(o, pool, bounded, 0),
         NEW R, IsFiniteSet(R), \A r \in R : IsRequested(o, r) /\ ResourceSupportOf(o, ask, r) # {},
         NEW p \in ResourceSupport(o, ask, R)
  PROVE  /\ IsSubset(p, ask.pool)
         /\ \A r \in R : \/ IsBeyondScaling(o, ask, r)
                         \/ r.model \in SupportedFunctionalities(ask, p) /\ Enough(o, p, r.constraints)
<1> DEFINE F == [r \in R |-> ResourceSupportOf(o, ask, r)]
<1>1. p \in FoldFunction(MaxCompositions, {}, F)
  BY DEF ResourceSupport
<1>2. IsPool(ask.pool)
  BY AskedOntologies, AskIsMapped
<1>3. \A r \in R : F[r] = ResourceSupportOf(o, ask, r) /\ F[r] # {}
  OBVIOUS
<1>4. DOMAIN F = R
  OBVIOUS
<1> HIDE DEF F
<1>5. \A r \in R : \A q \in F[r] : IsWithin(q, ask.pool)
  BY <1>3, SupportIsWithin
<1>6. IsWithin(p, ask.pool) /\ Serves(R, F, p)
  BY <1>1, <1>2, <1>3, <1>4, <1>5, CompositionsServeAll
<1>7. IsSubset(p, ask.pool)
  BY <1>2, <1>6, SubsetByCounts DEF IsWithin, IsPart
<1>8. ASSUME NEW r \in R, ~IsBeyondScaling(o, ask, r)
      PROVE  r.model \in SupportedFunctionalities(ask, p) /\ Enough(o, p, r.constraints)
  <2>1. PICK q \in ResourceSupportOf(o, ask, r) : IsPart(q, p)
    BY <1>3, <1>6 DEF Serves
  <2> QED
    BY <1>6, <1>8, <2>1, SupportServes
<1> QED
  BY <1>7, <1>8

(* Where every pool can be connected, one for a functionality that needs   *)
(* something is within the functional saturation bound.                    *)
LEMMA BoundLeavesOne ==
  ASSUME NEW o \in Ontologies, NEW pool \in AskedPools, NEW bounded \in BOOLEAN,
         NEW ask, ask = Prepared(o, pool, bounded, 0),
         NEW r, r.constraints = {}, ResourceSupportOf(o, ask, r) # {},
         o.feasible = AllPools, IsRegular(o)
  PROVE  BoundedResourceSupport(o, ask, {r}) # {}
<1> DEFINE f == r.model
           agents == ask.pool
           mapped == MappedPools(o, agents, f, bounded, 0)
<1>1. IsOntology(o) /\ IsPool(pool) /\ IsFiniteSet(DOMAIN pool)
  BY AskedOntologies
<1>2. IsRequested(o, r)
  BY FS_EmptySet DEF IsRequested
<1>3. PICK any : any \in ResourceSupportOf(o, ask, r)
  OBVIOUS
<1>4. agents # EmptyPool /\ f \in o.functionalities /\ f \in DOMAIN ask.pools /\ ask.pools[f] = mapped
  BY <1>2, <1>3, SupportIsScaled
<1>5. ResourceSupportOf(o, ask, r) = mapped /\ any \in mapped
  BY <1>3, <1>4 DEF ResourceSupportOf
<1>6. IsPool(agents) /\ IsFiniteSet(DOMAIN agents) /\ IsPart(agents, pool) /\ DOMAIN agents \subseteq Actors(o)
  BY <1>1, AskIsMapped
<1>7. \A q \in mapped : IsPart(q, agents) /\ q = Compact(q) /\ q # EmptyPool
  BY <1>1, <1>4, <1>6, MappedAreCombinations
<1>8. ResourceSupport(o, ask, {r}) = mapped
  <2> DEFINE F == [s \in {r} |-> ResourceSupportOf(o, ask, s)]
  <2>1. ResourceSupport(o, ask, {r}) = FoldFunction(MaxCompositions, {}, F)
    BY <1>4 DEF ResourceSupport
  <2>2. {r} = DOMAIN F /\ F[r] = mapped /\ IsFiniteSet({r}) /\ r \in {r}
    BY <1>5, FS_Singleton
  <2>3. \A q \in mapped : IsWithin(q, agents)
    BY <1>6, <1>7, EntriesOfPart DEF IsWithin
  <2>4. \A s \in {r} : F[s] # {} /\ \A q \in F[s] : IsWithin(q, agents)
    BY <1>5, <2>2, <2>3
  <2> HIDE DEF F, mapped, agents
  <2>5. FoldFunction(MaxCompositions, {}, F) = F[r]
    BY <1>6, <2>2, <2>4, CompositionsServeAll
  <2> QED
    BY <2>1, <2>2, <2>5
<1>9. ~NullVector(Needed(o, f))
  BY <1>1, <1>4, RegularFits
<1>10. \E q \in mapped : IsMinimal(o, {f}, q) /\ \A m \in DOMAIN q : q[m] <= Saturation(o, f, m)
  <2>1. CASE bounded
    <3>1. any \in BoundedPools(o, agents, f, 0)
      BY <1>5, <2>1 DEF MappedPools
    <3>2. IsMinimal(o, {f}, any) /\ \A m \in DOMAIN any : any[m] <= Saturation(o, f, m)
      BY <1>1, <1>4, <1>6, <3>1, BoundedAreMinimal
    <3> QED
      BY <1>5, <3>2
  <2>2. CASE ~bounded
    <3>1. mapped = UnboundedPools(o, agents, f)
      BY <2>2 DEF MappedPools
    <3>2. FullSupport(o, {f}, any)
      BY <1>5, <3>1 DEF UnboundedPools
    <3>3. IsPart(any, agents) /\ IsPool(any) /\ IsFiniteSet(DOMAIN any)
      BY <1>5, <1>7 DEF IsPart
    <3>4. PICK q : /\ IsPart(q, any) /\ q = Compact(q) /\ q # EmptyPool
                   /\ IsMinimal(o, {f}, q) /\ \A m \in DOMAIN q : q[m] <= Saturation(o, f, m)
      BY <1>1, <1>4, <1>9, <3>2, <3>3, MinimalIsFound
    <3>5. IsPart(q, agents)
      BY <1>6, <3>3, <3>4, PartOfPart DEF IsPart
    <3>6. q \in AllCombinations(agents, 0) /\ q \in AllPools
      BY <1>6, <3>4, <3>5, CombinationsAreAllParts, ValueOfCombination
    <3>7. FullSupport(o, {f}, q) /\ IsMapped(o, f, q, FALSE)
      BY <3>4, <3>6 DEF IsMinimal, IsMapped, IsFeasible
    <3>8. q \in mapped
      BY <3>1, <3>6, <3>7 DEF UnboundedPools
    <3> QED
      BY <3>4, <3>8
  <2> QED
    BY <2>1, <2>2
<1> HIDE DEF mapped
<1>11. PICK q \in mapped : IsMinimal(o, {f}, q) /\ \A m \in DOMAIN q : q[m] <= Saturation(o, f, m)
  BY <1>10
<1>12. ASSUME NEW m \in DOMAIN agents PROVE SaturationBoundOfSet(o, agents, {r})[m] = Saturation(o, f, m)
  <2>1. SaturationBound(o, agents, r)[m] = Saturation(o, f, m)
    BY DEF SaturationBound, ScaledBound
  <2>2. {SaturationBound(o, agents, s)[m] : s \in {r}} = {Saturation(o, f, m)}
    BY <2>1
  <2>3. SaturationBoundOfSet(o, agents, {r})[m] = Greatest({SaturationBound(o, agents, s)[m] : s \in {r}})
    BY DEF SaturationBoundOfSet
  <2>4. m \in Model
    BY <1>6 DEF IsPool
  <2>5. Saturation(o, f, m) \in Nat
    <3>1. f \in Nat /\ m \in Nat /\ IsRestricted(o, f) /\ IsRestricted(o, m)
      BY <1>1, <1>4, <2>4, ModelAssumption DEF IsOntology
    <3> QED
      BY <3>1, SaturationIsNatural
  <2> QED
    BY <2>2, <2>3, <2>5, GreatestOfOne
<1>13. DOMAIN q \subseteq DOMAIN agents
  BY <1>6, <1>7, <1>11, EntriesOfPart
<1>14. WithinUpperBound(q, SaturationBoundOfSet(o, agents, {r}))
  <2>1. \A m \in DOMAIN q : q[m] <= SaturationBoundOfSet(o, agents, {r})[m]
    BY <1>11, <1>12, <1>13
  <2> QED
    BY <2>1 DEF WithinUpperBound
<1>15. q \in BoundedResourceSupport(o, ask, {r})
  <2>1. {s.model : s \in {r}} = {f}
    OBVIOUS
  <2> QED
    BY <1>8, <1>11, <1>14, <2>1 DEF BoundedResourceSupport, ApplyUpperBound
<1> QED
  BY <1>15

(* GrantedPoolsServe: what is granted for some resources, merged or not,   *)
(* serves each of them, and the functional saturation bound leaves a       *)
(* minimal pool of those for a functionality.                              *)
THEOREM GrantedServeAll == Spec => []GrantedPoolsServe
<1>1. SettingsKept => GrantedPoolsServe
  <2> DEFINE o == case.o
             ask == case.ask
             resources == case.resources
             Served(R) == \A r \in R : ResourceSupportOf(o, ask, r) # {}
  <2> SUFFICES ASSUME SettingsKept, case.kind = "request", Served(resources)
               PROVE  /\ \A R \in {S \in {resources, MergedResources(resources)} : Served(S)} :
                         \A p \in ResourceSupport(o, ask, R) :
                            /\ IsSubset(p, ask.pool)
                            /\ \A r \in R : \/ IsBeyondScaling(o, ask, r)
                                            \/ /\ r.model \in SupportedFunctionalities(ask, p)
                                               /\ Enough(o, p, r.constraints)
                      /\ \A r \in resources : r.constraints = {} /\ o.feasible = AllPools /\ IsRegular(o) =>
                            BoundedResourceSupport(o, ask, {r}) # {}
    BY DEF GrantedPoolsServe
  <2>1. PICK bounded \in BOOLEAN : \E pool \in AskedPools : ask = Prepared(o, pool, bounded, 0)
    BY DEF SettingsKept, IsAskedAbout
  <2>2. PICK pool \in AskedPools : ask = Prepared(o, pool, bounded, 0)
    BY <2>1
  <2>3. o \in Ontologies /\ resources \in Requests
    BY DEF SettingsKept, IsAskedAbout
  <2>4. IsFiniteSet(resources) /\ \A r \in resources : IsRequested(o, r)
    BY <2>3, InputsAreReal DEF InputAssumption, IsRequested
  <2> HIDE DEF o, ask, resources
  <2>5. ASSUME NEW R \in {resources, MergedResources(resources)}, Served(R),
               NEW p \in ResourceSupport(o, ask, R)
        PROVE  /\ IsSubset(p, ask.pool)
               /\ \A r \in R : \/ IsBeyondScaling(o, ask, r)
                               \/ r.model \in SupportedFunctionalities(ask, p) /\ Enough(o, p, r.constraints)
    <3>1. IsFiniteSet(R) /\ \A r \in R : IsRequested(o, r)
      BY <2>4, <2>5, MergedAreRequested
    <3> QED
      BY <2>2, <2>3, <2>5, <3>1, GrantedServe
  <2>6. ASSUME NEW r \in resources, r.constraints = {}, o.feasible = AllPools, IsRegular(o)
        PROVE  BoundedResourceSupport(o, ask, {r}) # {}
    <3>1. ResourceSupportOf(o, ask, r) # {}
      OBVIOUS
    <3> QED
      BY <2>2, <2>3, <2>6, <3>1, BoundLeavesOne
  <2> QED
    BY <2>5, <2>6
<1> QED
  BY <1>1, AsksKeepTheirSettings, PTL

-----------------------------------------------------------------------------
(* Reconfigurations                                                        *)

(* Divisions of finitely many atomic agents.                               *)
LEMMA DivisionFacts ==
  ASSUME NEW S, IsFiniteSet(S), NEW P \in Partitions(S)
  PROVE  /\ IsFiniteSet(P) /\ UNION P = S
         /\ \A a \in P : a \subseteq S /\ IsFiniteSet(a) /\ a # {}
         /\ \A a, b \in P : a = b \/ a \cap b = {}
<1>1. P \in SUBSET ((SUBSET S) \ {{}}) /\ UNION P = S /\ \A a, b \in P : a = b \/ a \cap b = {}
  BY DEF Partitions
<1>2. IsFiniteSet(P)
  <2>1. IsFiniteSet(SUBSET S) /\ P \in SUBSET SUBSET S
    BY <1>1, FS_SUBSET
  <2> QED
    BY <2>1, FS_Subset
<1>3. \A a \in P : a \subseteq S /\ IsFiniteSet(a) /\ a # {}
  BY <1>1, FS_Subset
<1> QED
  BY <1>1, <1>2, <1>3

(* The cost of forming an agent, as a sum over all agents there are.       *)
LEMMA FormationIsCharged ==
  ASSUME NEW S, IsFiniteSet(S), NEW P \in Partitions(S), NEW a \in SUBSET S, NEW c \in Int, NEW t \in Int
  PROVE  FormationCost(Origins(a, P), c, t) = SumFunctionOnSet(Charges(a, P, c, t), P)
<1> DEFINE rest == P \ {a}
           f == Charges(a, P, c, t)
           g == [b \in rest |-> c + t * Cardinality(a \cap b)]
<1>1. IsFiniteSet(P) /\ IsFiniteSet(rest) /\ \A b \in P : b \in SUBSET S
  BY DivisionFacts, FS_Subset
<1>2. \A b \in P : f[b] = Charge(a, b, c, t) /\ f[b] \in Int
  BY <1>1, ChargeIsMutual DEF Charges
<1>3. \A b \in rest : g[b] = f[b] /\ g[b] \in Int
  BY <1>2 DEF Charge
<1>4. FormationCost(Origins(a, P), c, t) = SumFunctionOnSet(g, rest)
  <2> DEFINE origins == Origins(a, P)
             h == [b \in DOMAIN origins |-> c + t * Cardinality(origins[b])]
  <2>1. DOMAIN origins = rest /\ \A b \in rest : origins[b] = a \cap b
    BY DEF Origins
  <2> HIDE DEF origins
  <2>2. h = g
    BY <2>1
  <2>3. FormationCost(origins, c, t) = SumFunctionOnSet(h, DOMAIN origins)
    BY DEF FormationCost, SumOver, SumFunctionOnSet
  <2> HIDE DEF h, g, rest
  <2> QED
    BY <2>1, <2>2, <2>3 DEF origins
<1> HIDE DEF f, g
<1>5. SumFunctionOnSet(g, rest) = SumFunctionOnSet(f, rest)
  <2> HIDE DEF rest
  <2> QED
    BY <1>1, <1>3, SumIsDetermined
<1>6. SumFunctionOnSet(f, P) = SumFunctionOnSet(f, rest)
  <2>1. CASE a \in P
    <3>1. f[a] = 0
      BY <1>2, <2>1 DEF Charge
    <3>2. SumFunctionOnSet(f, P) = f[a] + SumFunctionOnSet(f, P \ {a})
      BY <1>1, <1>2, <2>1, SumWithout
    <3>3. SumFunctionOnSet(f, rest) \in Int
      BY <1>1, <1>2, SumIsInt
    <3> QED
      BY <3>1, <3>2, <3>3
  <2>2. CASE a \notin P
    <3>1. rest = P
      BY <2>2
    <3> HIDE DEF rest
    <3> QED
      BY <3>1
  <2> QED
    BY <2>1, <2>2
<1> QED
  BY <1>4, <1>5, <1>6 DEF f

(* The cost of a reconfiguration, as a sum of charges by new agents.       *)
LEMMA CostIsCharged ==
  ASSUME NEW S, IsFiniteSet(S), NEW P \in Partitions(S), NEW Q \in Partitions(S), P # Q,
         NEW c \in Int, NEW t \in Int,
         NEW rows, \A a \in Q : rows[a] = SumFunctionOnSet(Charges(a, P, c, t), P)
  PROVE  ReconfigurationCost(P, Q, c, t) = SumFunctionOnSet(rows, Q)
<1> DEFINE f == [a \in Q |-> FormationCost(Origins(a, P), c, t)]
<1>1. IsFiniteSet(Q) /\ \A a \in Q : a \in SUBSET S
  BY DivisionFacts
<1>2. ReconfigurationCost(P, Q, c, t) = SumFunctionOnSet(f, Q)
  BY DEF ReconfigurationCost, SumOver, SumFunctionOnSet
<1>3. \A a \in Q : f[a] = rows[a] /\ f[a] \in Int
  <2> TAKE a \in Q
  <2>1. \A b \in P : Charges(a, P, c, t)[b] \in Int
    BY <1>1, DivisionFacts, ChargeIsMutual DEF Charges
  <2>2. SumFunctionOnSet(Charges(a, P, c, t), P) \in Int
    BY <2>1, DivisionFacts, SumIsInt
  <2>3. f[a] = SumFunctionOnSet(Charges(a, P, c, t), P)
    BY <1>1, FormationIsCharged
  <2> HIDE DEF f
  <2> QED
    BY <2>2, <2>3
<1> HIDE DEF f
<1> QED
  BY <1>1, <1>2, <1>3, SumIsDetermined

(* To take a reconfiguration back costs as much as the reconfiguration.    *)
THEOREM ReconfigurationIsMutual ==
  ASSUME NEW S, IsFiniteSet(S), NEW P \in Partitions(S), NEW Q \in Partitions(S),
         NEW c \in Int, NEW t \in Int
  PROVE  ReconfigurationCost(P, Q, c, t) = ReconfigurationCost(Q, P, c, t)
<1>1. CASE P = Q
  BY <1>1
<1>2. CASE P # Q
  <2> DEFINE m == [a \in Q |-> Charges(a, P, c, t)]
             rows == [a \in Q |-> SumFunctionOnSet(Charges(a, P, c, t), P)]
             back == [b \in P |-> SumFunctionOnSet(Charges(b, Q, c, t), Q)]
             columns == ColumnSums(m, Q, Q, P)
  <2>0. /\ IsFiniteSet(P) /\ IsFiniteSet(Q)
        /\ (\A a \in Q : a \in SUBSET S) /\ \A b \in P : b \in SUBSET S
    BY DivisionFacts
  <2>1. /\ \A a \in Q : \A b \in P : m[a][b] = Charge(a, b, c, t) /\ m[a][b] \in Int
        /\ \A a \in Q : rows[a] = SumFunctionOnSet(m[a], P)
    BY <2>0, ChargeIsMutual DEF Charges
  <2>2. SumFunctionOnSet(rows, Q) = SumFunctionOnSet(columns, P)
    <3> HIDE DEF m, rows
    <3> QED
      BY <2>0, <2>1, RowsAndColumns
  <2>3. \A b \in P : columns[b] = back[b] /\ columns[b] \in Int
    <3> TAKE b \in P
    <3>1. \A a \in Q : /\ ColumnAt(m, Q, b)[a] \in Int
                       /\ ColumnAt(m, Q, b)[a] = Charges(b, Q, c, t)[a]
      BY <2>0, <2>1, ChargeIsMutual DEF ColumnAt, Charges
    <3>2. SumFunctionOnSet(ColumnAt(m, Q, b), Q) = SumFunctionOnSet(Charges(b, Q, c, t), Q)
      BY <2>0, <3>1, SumIsDetermined
    <3>3. SumFunctionOnSet(ColumnAt(m, Q, b), Q) \in Int
      BY <2>0, <3>1, SumIsInt
    <3>4. columns[b] = SumFunctionOnSet(ColumnAt(m, Q, b), Q)
      BY DEF ColumnSums
    <3>5. back[b] = SumFunctionOnSet(Charges(b, Q, c, t), Q)
      OBVIOUS
    <3> HIDE DEF columns, back
    <3> QED
      BY <3>2, <3>3, <3>4, <3>5
  <2>4. SumFunctionOnSet(columns, P) = SumFunctionOnSet(back, P)
    <3> HIDE DEF columns, back
    <3> QED
      BY <2>0, <2>3, SumIsDetermined
  <2>5. ReconfigurationCost(P, Q, c, t) = SumFunctionOnSet(rows, Q)
    <3>1. \A a \in Q : rows[a] = SumFunctionOnSet(Charges(a, P, c, t), P)
      OBVIOUS
    <3> HIDE DEF rows
    <3> QED
      BY <1>2, <3>1, CostIsCharged
  <2>6. ReconfigurationCost(Q, P, c, t) = SumFunctionOnSet(back, P)
    <3>1. \A b \in P : back[b] = SumFunctionOnSet(Charges(b, Q, c, t), Q)
      OBVIOUS
    <3> HIDE DEF back
    <3> QED
      BY <1>2, <3>1, CostIsCharged
  <2> HIDE DEF rows, columns, back
  <2> QED
    BY <2>2, <2>4, <2>5, <2>6
<1> QED
  BY <1>1, <1>2

(* In a division an atomic agent is part of one agent only.                 *)
LEMMA AgentIsUnique ==
  ASSUME NEW S, IsFiniteSet(S), NEW P \in Partitions(S)
  PROVE  /\ \A x \in S : AgentOfDivision(x, P) \in P /\ x \in AgentOfDivision(x, P)
         /\ \A g \in P : \A x \in g : AgentOfDivision(x, P) = g
<1>1. \A x \in S : AgentOfDivision(x, P) \in P /\ x \in AgentOfDivision(x, P)
  <2> TAKE x \in S
  <2>1. \E g \in P : x \in g
    BY DivisionFacts
  <2> QED
    BY <2>1 DEF AgentOfDivision
<1> QED
  BY <1>1, DivisionFacts

(* Transfers are charged for the atomic agents whose agent changes.        *)
THEOREM TransfersAreMoves ==
  ASSUME NEW S, IsFiniteSet(S), NEW P \in Partitions(S), NEW Q \in Partitions(S)
  PROVE  ReconfigurationCost(P, Q, 0, 1) = Cardinality(Moved(P, Q))
<1>1. CASE P = Q
  <2>1. Moved(P, Q) = {}
    BY <1>1 DEF Moved
  <2>2. ReconfigurationCost(P, Q, 0, 1) = 0
    BY <1>1 DEF ReconfigurationCost
  <2> QED
    BY <2>1, <2>2, FS_EmptySet
<1>2. CASE P # Q
  <2> DEFINE movedOf == [a \in Q |-> {x \in a : AgentOfDivision(x, P) # a}]
             rows == [a \in Q |-> SumFunctionOnSet(Charges(a, P, 0, 1), P)]
  <2>0. /\ IsFiniteSet(P) /\ IsFiniteSet(Q) /\ UNION Q = S
        /\ (\A a \in Q : a \in SUBSET S /\ IsFiniteSet(a)) /\ \A b \in P : b \in SUBSET S
    BY DivisionFacts
  <2>1. IsFiniteSet(Moved(P, Q))
    BY <2>0, FS_Subset DEF Moved
  <2>2. Parted(movedOf, Q, Moved(P, Q))
    <3>1. \A a, b \in Q : a # b => movedOf[a] \cap movedOf[b] = {}
      BY DivisionFacts
    <3>2. \A x : x \in Moved(P, Q) <=> \E a \in Q : x \in movedOf[a]
      <4>1. ASSUME NEW x \in Moved(P, Q) PROVE \E a \in Q : x \in movedOf[a]
        <5>1. AgentOfDivision(x, Q) \in Q /\ x \in AgentOfDivision(x, Q) /\ AgentOfDivision(x, P) # AgentOfDivision(x, Q)
          BY <2>0, AgentIsUnique DEF Moved
        <5> QED
          BY <5>1
      <4>2. ASSUME NEW a \in Q, NEW x \in movedOf[a] PROVE x \in Moved(P, Q)
        <5>1. x \in a /\ AgentOfDivision(x, P) # a /\ AgentOfDivision(x, Q) = a
          BY AgentIsUnique
        <5> QED
          BY <5>1 DEF Moved
      <4> QED
        BY <4>1, <4>2
    <3> QED
      BY <3>1, <3>2 DEF Parted
  <2>3. \A a \in Q : rows[a] = Cardinality(movedOf[a])
    <3> TAKE a \in Q
    <3> DEFINE X == movedOf[a]
               part == [b \in P |-> IF b = a THEN {} ELSE a \cap b]
               f == Charges(a, P, 0, 1)
    <3>1. IsFiniteSet(X)
      BY <2>0, FS_Subset
    <3>2. Parted(part, P, X)
      <4>1. \A b, d \in P : b # d => part[b] \cap part[d] = {}
        BY DivisionFacts
      <4>2. ASSUME NEW x \in X PROVE \E b \in P : x \in part[b]
        <5>1. x \in a /\ x \in S /\ AgentOfDivision(x, P) # a
          BY <2>0
        <5>2. AgentOfDivision(x, P) \in P /\ x \in AgentOfDivision(x, P)
          BY <5>1, AgentIsUnique
        <5> QED
          BY <5>1, <5>2
      <4>3. ASSUME NEW b \in P, NEW x \in part[b] PROVE x \in X
        <5>1. b # a /\ x \in a /\ x \in b
          BY <4>3
        <5>2. AgentOfDivision(x, P) = b
          BY <5>1, AgentIsUnique
        <5> QED
          BY <5>1, <5>2
      <4> HIDE DEF part, X
      <4> QED
        BY <4>1, <4>2, <4>3 DEF Parted
    <3>3. \A b \in P : f[b] = Cardinality(part[b])
      <4> TAKE b \in P
      <4>1. CASE b = a
        BY <4>1, FS_EmptySet DEF Charges, Charge
      <4>2. CASE b # a
        <5>1. Cardinality(a \cap b) \in Nat
          BY <2>0, FS_Subset, FS_CardinalityType
        <5>2. f[b] = 0 + 1 * Cardinality(a \cap b)
          BY <4>2 DEF Charges, Charge
        <5>3. part[b] = a \cap b
          BY <4>2
        <5> QED
          BY <5>1, <5>2, <5>3
      <4> QED
        BY <4>1, <4>2
    <3> HIDE DEF X, part, f
    <3>4. SumFunctionOnSet(f, P) = Cardinality(X)
      BY <2>0, <3>1, <3>2, <3>3, SumOfParts
    <3> QED
      BY <3>4 DEF X, f
  <2>4. ReconfigurationCost(P, Q, 0, 1) = SumFunctionOnSet(rows, Q)
    <3>1. \A a \in Q : rows[a] = SumFunctionOnSet(Charges(a, P, 0, 1), P)
      OBVIOUS
    <3> HIDE DEF rows
    <3> QED
      BY <1>2, <3>1, CostIsCharged
  <2> HIDE DEF rows, movedOf
  <2>5. SumFunctionOnSet(rows, Q) = Cardinality(Moved(P, Q))
    BY <2>0, <2>1, <2>2, <2>3, SumOfParts
  <2> QED
    BY <2>4, <2>5
<1> QED
  BY <1>1, <1>2

(* What ReconfigurationCountsMoves says of any agents and divisions.       *)
THEOREM MovesAreCounted == Spec => []ReconfigurationCountsMoves
<1>1. InputTypeOK => ReconfigurationCountsMoves
  <2> SUFFICES ASSUME InputTypeOK, case.kind = "reconfiguration" PROVE ReconfigurationCountsMoves
    BY DEF ReconfigurationCountsMoves
  <2>1. case.from \in Partitions(DividedAgents) /\ case.to \in Partitions(DividedAgents)
    BY DEF InputTypeOK, Constrained, Paired, Ranged, Divided, Reconfigured
  <2>2. IsFiniteSet(DividedAgents)
    BY InputsAreReal DEF InputAssumption
  <2>3. ReconfigurationCost(case.from, case.to, 0, 1) = Cardinality(Moved(case.from, case.to))
    BY <2>1, <2>2, TransfersAreMoves
  <2>4. ReconfigurationCost(case.from, case.to, 600, 180) = ReconfigurationCost(case.to, case.from, 600, 180)
    BY <2>1, <2>2, ReconfigurationIsMutual
  <2> QED
    BY <2>3, <2>4 DEF ReconfigurationCountsMoves, Moved, AgentOfDivision, AllAtomicAgents
<1> QED
  BY <1>1, InputsKeepTheirType, PTL

-----------------------------------------------------------------------------
(* Agents and the pools they are of: policies select atomic agents of the  *)
(* agent they are applied to, and rules can be about what they leave.      *)

(* An agent of a pool has as many atomic agents of a model as the pool.    *)
LEMMA AtomicAgentsOfModel ==
  ASSUME NEW pool, IsPool(pool), NEW m
  PROVE  /\ IsFiniteSet(Numbered(AgentOf(pool), m))
         /\ Cardinality(Numbered(AgentOf(pool), m)) = Count(pool, m)
<1> DEFINE n == Count(pool, m)
           S == Numbered(AgentOf(pool), m)
           g == [i \in 1 .. n |-> <<m, i - 1>>]
<1>1. n \in Nat
  BY CountIsNatural
<1>2. \A x : x \in S <=> \E i \in 0 .. n - 1 : x = <<m, i>>
  <2>1. \A x : x \in AgentOf(pool) <=> \E k \in DOMAIN pool : \E i \in 0 .. pool[k] - 1 : x = <<k, i>>
    BY DEF AgentOf, AtomicAgents
  <2>2. \A x : x \in S <=> \E k \in DOMAIN pool : k = m /\ \E i \in 0 .. pool[k] - 1 : x = <<k, i>>
    BY <2>1 DEF Numbered
  <2>3. CASE m \in DOMAIN pool
    BY <2>2, <2>3 DEF Count
  <2>4. CASE m \notin DOMAIN pool
    <3>1. 0 .. n - 1 = {}
      BY <2>4 DEF Count
    <3> QED
      BY <2>2, <2>4, <3>1
  <2> QED
    BY <2>3, <2>4
<1> HIDE DEF n, S
<1>3. g \in Bijection(1 .. n, S)
  <2>1. \A i \in 1 .. n : i - 1 \in 0 .. n - 1
    BY <1>1
  <2>2. \A i \in 0 .. n - 1 : i + 1 \in 1 .. n /\ (i + 1) - 1 = i
    BY <1>1
  <2>3. g \in [1 .. n -> S]
    BY <1>2, <2>1
  <2>4. \A i, j \in 1 .. n : g[i] = g[j] => i = j
    <3> SUFFICES ASSUME NEW i \in 1 .. n, NEW j \in 1 .. n, g[i] = g[j] PROVE i = j
      OBVIOUS
    <3>1. i - 1 = j - 1
      OBVIOUS
    <3> QED
      BY <1>1, <3>1
  <2>5. \A x \in S : \E i \in 1 .. n : g[i] = x
    <3> SUFFICES ASSUME NEW x \in S PROVE \E i \in 1 .. n : g[i] = x
      OBVIOUS
    <3>1. PICK i \in 0 .. n - 1 : x = <<m, i>>
      BY <1>2
    <3>2. i + 1 \in 1 .. n /\ g[i + 1] = x
      BY <2>2, <3>1
    <3> QED
      BY <3>2
  <2> QED
    BY <2>3, <2>4, <2>5 DEF Bijection, Injection, Surjection, IsInjective
<1>4. ExistsBijection(1 .. n, S)
  BY <1>3 DEF ExistsBijection
<1>5. Cardinality(S) = n
  BY <1>1, <1>4, FS_CountingElements
<1>6. IsFiniteSet(S)
  <2>1. g \in Surjection(1 .. n, S)
    BY <1>3 DEF Bijection
  <2>2. IsFiniteSet(1 .. n)
    BY <1>1, FS_Interval
  <2> HIDE DEF g
  <2> QED
    BY <2>1, <2>2, FS_Surjection
<1> QED
  BY <1>5, <1>6 DEF n, S

(* getType of some of the atomic agents of a pool counts them.             *)
LEMMA TypeByCounts ==
  ASSUME NEW pool, IsPool(pool), NEW a \in SUBSET AgentOf(pool)
  PROVE  /\ IsPool(TypeOf(a))
         /\ \A m : /\ Count(TypeOf(a), m) = Cardinality(Numbered(a, m))
                   /\ Count(TypeOf(a), m) <= Count(pool, m)
<1> DEFINE type == TypeOf(a)
<1>1. /\ DOMAIN type = {x[1] : x \in a}
      /\ type = [m \in DOMAIN type |-> type[m]]
      /\ \A m \in DOMAIN type : type[m] = Cardinality(Numbered(a, m))
  BY DEF TypeOf, Numbered
<1>2. \A m : /\ IsFiniteSet(Numbered(a, m)) /\ Cardinality(Numbered(a, m)) \in Nat
             /\ Cardinality(Numbered(a, m)) <= Count(pool, m)
  <2> TAKE m
  <2>1. Numbered(a, m) \subseteq Numbered(AgentOf(pool), m)
    BY DEF Numbered
  <2> QED
    BY <2>1, AtomicAgentsOfModel, FS_Subset, FS_CardinalityType
<1> HIDE DEF type
<1>3. DOMAIN type \subseteq Model
  <2>1. \A x \in AgentOf(pool) : x[1] \in DOMAIN pool
    BY DEF AgentOf, AtomicAgents
  <2> QED
    BY <1>1, <2>1 DEF IsPool
<1>4. IsPool(type)
  BY <1>1, <1>2, <1>3 DEF IsPool
<1>5. \A m : Count(type, m) = Cardinality(Numbered(a, m))
  <2> TAKE m
  <2>1. CASE m \in DOMAIN type
    BY <1>1, <2>1 DEF Count
  <2>2. CASE m \notin DOMAIN type
    <3>1. Numbered(a, m) = {}
      BY <1>1, <2>2 DEF Numbered
    <3> QED
      BY <2>2, <3>1, FS_EmptySet DEF Count
  <2> QED
    BY <2>1, <2>2
<1> QED
  BY <1>2, <1>4, <1>5 DEF type

(* What an inverse argument asks for, and what it is about, are the whole. *)
LEMMA RestIsWhatIsLeft ==
  ASSUME NEW pool, IsPool(pool), NEW a \in SUBSET AgentOf(pool)
  PROVE  Compact(Sum(TypeOf(a), TypeOf(Rest(pool, a)))) = Compact(pool)
<1> DEFINE type == TypeOf(a)
           delta == Delta(type, pool)
           rest == TypeOf(AgentOf(delta))
<1>1. IsPool(type) /\ \A m : Count(type, m) <= Count(pool, m)
  BY TypeByCounts
<1> HIDE DEF type
<1>2. IsSubset(type, pool)
  BY <1>1, SubsetByCounts
<1>3. IsPool(delta) /\ Compact(Sum(type, delta)) = Compact(pool)
  BY <1>1, <1>2, DeltaCompletes
<1> HIDE DEF delta
<1>4. IsPool(rest) /\ \A m : Count(rest, m) = Count(delta, m)
  <2>1. AgentOf(delta) \in SUBSET AgentOf(delta)
    OBVIOUS
  <2> QED
    BY <1>3, <2>1, TypeByCounts, AtomicAgentsOfModel
<1> HIDE DEF rest
<1>5. \A m : Count(Sum(type, rest), m) = Count(Sum(type, delta), m)
  BY <1>1, <1>3, <1>4, SumByCounts
<1>6. Compact(Sum(type, rest)) = Compact(Sum(type, delta))
  <2>1. IsPool(Sum(type, rest)) /\ IsPool(Sum(type, delta))
    BY <1>1, <1>3, <1>4, SumByCounts
  <2> QED
    BY <1>5, <2>1, SameCounts
<1> QED
  BY <1>3, <1>6 DEF type, delta, rest, Rest

(* A pool that is part of the type of an agent is of its atomic agents: the*)
(* agents of the pool it is of are numbered from 0, too.                   *)
LEMMA PartsHaveTheirAgents ==
  ASSUME NEW pool, IsPool(pool), NEW q, IsPool(q), \A m \in Model : Count(q, m) <= Count(pool, m)
  PROVE  AgentOf(q) \subseteq AgentOf(pool)
<1> SUFFICES ASSUME NEW x \in AgentOf(q) PROVE x \in AgentOf(pool)
  OBVIOUS
<1>1. PICK m \in DOMAIN q : \E i \in 0 .. q[m] - 1 : x = <<m, i>>
  BY DEF AgentOf, AtomicAgents
<1>2. PICK i \in 0 .. q[m] - 1 : x = <<m, i>>
  BY <1>1
<1>3. m \in Model /\ q[m] \in Nat /\ q[m] = Count(q, m) /\ Count(pool, m) \in Nat
  BY CountIsNatural DEF IsPool, Count
<1>4. i \in 0 .. Count(pool, m) - 1 /\ Count(pool, m) # 0
  BY <1>2, <1>3
<1>5. m \in DOMAIN pool /\ i \in 0 .. pool[m] - 1
  BY <1>4 DEF Count
<1> QED
  BY <1>2, <1>5 DEF AgentOf, AtomicAgents

(* The step of a policy selects agents made of the atomic agents that those*)
(* given are made of, whatever it selects by.                              *)
LEMMA StepSelectsParts ==
  ASSUME NEW o, NEW ask, NEW step, NEW pool, IsPool(pool), NEW agents, IsPool(agents),
         \A f \in DOMAIN ask.pools : \A q \in ask.pools[f] : IsPart(q, agents),
         NEW S \in SUBSET (SUBSET AgentOf(pool))
  PROVE  Selected(o, ask, step, S) \in SUBSET (SUBSET (SUBSET AgentOf(pool)))
<1> DEFINE crew == AgentOf(pool)
<1>1. UNION S \in SUBSET crew
  OBVIOUS
<1>2. SizeBased(step, S) \in SUBSET (SUBSET crew)
  BY DEF SizeBased
<1>3. FunctionalityBased(o, ask, step, S) \in SUBSET (SUBSET crew)
  <2> DEFINE support == ResourceSupport(o, ask, {Plain(step.functionality)})
             within == {q \in support : \E a \in S : IsSubset(q, TypeOf(a))}
  <2>1. FunctionalityBased(o, ask, step, S) = {AgentOf(q) : q \in within}
    BY DEF FunctionalityBased, Plain
  <2>2. ASSUME NEW q \in within PROVE AgentOf(q) \in SUBSET crew
    <3>1. PICK a \in S : IsSubset(q, TypeOf(a))
      OBVIOUS
    <3>2. IsPool(q)
      <4>1. q \in support
        OBVIOUS
      <4> QED
        BY <4>1, SupportOfOneIsMapped
    <3>3. IsPool(TypeOf(a)) /\ \A m : Count(TypeOf(a), m) <= Count(pool, m)
      BY TypeByCounts
    <3>4. \A m \in Model : Count(q, m) <= Count(TypeOf(a), m)
      BY <3>1, <3>2, <3>3, SubsetByCounts
    <3>5. \A m : Count(q, m) \in Nat /\ Count(TypeOf(a), m) \in Nat /\ Count(pool, m) \in Nat
      BY <3>2, <3>3, CountIsNatural
    <3>6. \A m \in Model : Count(q, m) <= Count(pool, m)
      BY <3>3, <3>4, <3>5
    <3> QED
      BY <3>2, <3>6, PartsHaveTheirAgents
  <2> HIDE DEF within, crew
  <2> QED
    BY <2>1, <2>2
<1>4. PropertyBased(o, step, S) \in SUBSET (SUBSET (SUBSET crew))
  <2> DEFINE best == IF step.operation = "max"
                     THEN {a \in S : /\ [b \in S |-> ValueSum(o, b, step.property)][a] > 0
                                     /\ \A b \in S : [c \in S |-> ValueSum(o, c, step.property)][b]
                                                        <= [c \in S |-> ValueSum(o, c, step.property)][a]}
                     ELSE {a \in S : \A b \in S : [c \in S |-> ValueSum(o, c, step.property)][a]
                                                   <= [c \in S |-> ValueSum(o, c, step.property)][b]}
  <2>1. PropertyBased(o, step, S) = IF S = {} THEN {{}} ELSE IF best = {} THEN {{{}}} ELSE {{a} : a \in best}
    BY DEF PropertyBased
  <2>2. best \subseteq S
    OBVIOUS
  <2> HIDE DEF best
  <2>3. {{}} \in SUBSET (SUBSET (SUBSET crew)) /\ {{{}}} \in SUBSET (SUBSET (SUBSET crew))
    OBVIOUS
  <2>4. {{a} : a \in best} \in SUBSET (SUBSET (SUBSET crew))
    BY <2>2
  <2> QED
    BY <2>1, <2>3, <2>4
<1>5. Selected(o, ask, step, S) \in {{{UNION S}}, {SizeBased(step, S)}, {FunctionalityBased(o, ask, step, S)},
                                     PropertyBased(o, step, S), {S}}
  BY DEF Selected, AllAtomicAgents
<1> HIDE DEF crew
<1> QED
  BY <1>1, <1>2, <1>3, <1>4, <1>5 DEF crew

(* The selections a policy may have after some of its steps.               *)
SelectedFrom(o, ask, step, before) == UNION {Selected(o, ask, step, S) : S \in before}

AfterStep(o, ask, steps, after, agents, i) ==
  IF i = 0 THEN {agents} ELSE SelectedFrom(o, ask, steps[i], after[i - 1])

ChainOf(o, ask, steps, agents, after) ==
  after = [i \in 0 .. Len(steps) |-> AfterStep(o, ask, steps, after, agents, i)]

(* What a chain selects is what there is after its last step.              *)
LEMMA SelectionsUnfolded ==
  ASSUME NEW o, NEW ask, NEW steps, NEW agents
  PROVE  Selections(o, ask, steps, agents) = (CHOOSE after : ChainOf(o, ask, steps, agents, after))[Len(steps)]
BY DEF Selections, ChainOf, AfterStep, SelectedFrom

(* A chain has selections after each of its steps.                         *)
LEMMA SelectionsGoOn ==
  ASSUME NEW o, NEW ask, NEW steps, Len(steps) \in Nat, NEW pool, IsPool(pool), NEW agents, IsPool(agents),
         \A f \in DOMAIN ask.pools : \A q \in ask.pools[f] : IsPart(q, agents),
         NEW given \in SUBSET (SUBSET AgentOf(pool))
  PROVE  \E after : ChainOf(o, ask, steps, given, after)
<1> DEFINE N == Len(steps)
           T == SUBSET (SUBSET (SUBSET AgentOf(pool)))
           D == Nat \X T
           step == [x \in D |-> <<x[1] + 1, SelectedFrom(o, ask, steps[x[1] + 1], x[2])>>]
<1>1. \A s : \A B \in T : SelectedFrom(o, ask, s, B) \in T
  <2> SUFFICES ASSUME NEW s, NEW B \in T, NEW S \in B, NEW R \in Selected(o, ask, s, S)
               PROVE  R \in SUBSET (SUBSET AgentOf(pool))
    BY DEF SelectedFrom
  <2>1. S \in SUBSET (SUBSET AgentOf(pool))
    OBVIOUS
  <2>2. Selected(o, ask, s, S) \in SUBSET (SUBSET (SUBSET AgentOf(pool)))
    BY <2>1, StepSelectsParts
  <2> QED
    BY <2>2
<1>2. {given} \in T
  OBVIOUS
<1> HIDE DEF T
<1>3. step \in [D -> D]
  <2>1. \A x \in D : x[1] + 1 \in Nat /\ SelectedFrom(o, ask, steps[x[1] + 1], x[2]) \in T
    BY <1>1
  <2> QED
    BY <2>1
<1>4. <<0, {given}>> \in D
  BY <1>2
<1>5. PICK g : Recursion(g, D, <<0, {given}>>, step, 0, N)
  <2> HIDE DEF D, step
  <2>1. 0 \in Nat /\ N \in Nat
    OBVIOUS
  <2> QED
    BY <1>3, <1>4, <2>1, RecursionExists
<1>6. /\ \A k \in 0 .. N : g[k] \in D
      /\ g[0] = <<0, {given}>>
      /\ \A k \in 1 .. N : g[k] = step[g[k - 1]]
  <2> HIDE DEF D, step
  <2>1. 0 + 1 = 1 /\ 0 + N = N
    OBVIOUS
  <2>2. g \in [0 .. N -> D] /\ g[0] = <<0, {given}>> /\ \A k \in 1 .. N : g[k] = step[g[k - 1]]
    BY <1>5, <2>1 DEF Recursion
  <2> QED
    BY <2>2
<1>7. \A k \in 1 .. N : /\ k - 1 \in 0 .. N /\ k \in 0 .. N
                         /\ g[k] = <<g[k - 1][1] + 1, SelectedFrom(o, ask, steps[g[k - 1][1] + 1], g[k - 1][2])>>
  <2> SUFFICES ASSUME NEW k \in 1 .. N
               PROVE  /\ k - 1 \in 0 .. N /\ k \in 0 .. N
                      /\ g[k] = <<g[k - 1][1] + 1, SelectedFrom(o, ask, steps[g[k - 1][1] + 1], g[k - 1][2])>>
    OBVIOUS
  <2>1. k - 1 \in 0 .. N /\ k \in 0 .. N
    OBVIOUS
  <2>2. g[k - 1] \in D /\ g[k] = step[g[k - 1]]
    BY <1>6, <2>1
  <2> QED
    BY <2>1, <2>2
<1>8. \A k \in 0 .. N : g[k][1] = k
  <2> DEFINE P == {k \in Nat : k \in 0 .. N => g[k][1] = k}
  <2>1. 0 \in P
    BY <1>6
  <2>2. \A k \in Nat : k \in P => k + 1 \in P
    <3> SUFFICES ASSUME NEW k \in Nat, k \in P, k + 1 \in 0 .. N PROVE g[k + 1][1] = k + 1
      OBVIOUS
    <3>1. g[k][1] = k /\ k + 1 \in 1 .. N /\ (k + 1) - 1 = k
      OBVIOUS
    <3> QED
      BY <1>7, <3>1
  <2> HIDE DEF P
  <2>3. Nat \subseteq P
    BY <2>1, <2>2, NatSetInduction
  <2> QED
    BY <2>3 DEF P
<1> DEFINE f == [k \in 0 .. N |-> g[k][2]]
<1>9. \A k \in 0 .. N : f[k] = AfterStep(o, ask, steps, f, given, k)
  <2> SUFFICES ASSUME NEW k \in 0 .. N PROVE f[k] = AfterStep(o, ask, steps, f, given, k)
    OBVIOUS
  <2>1. CASE k = 0
    <3>1. f[k] = {given}
      BY <1>6, <2>1
    <3> QED
      BY <2>1, <3>1 DEF AfterStep
  <2>2. CASE k # 0
    <3>1. k \in 1 .. N /\ k - 1 \in 0 .. N
      BY <2>2
    <3>2. g[k] = <<g[k - 1][1] + 1, SelectedFrom(o, ask, steps[g[k - 1][1] + 1], g[k - 1][2])>>
      BY <1>7, <3>1
    <3>3. g[k - 1][1] = k - 1 /\ (k - 1) + 1 = k
      BY <1>8, <3>1
    <3>4. g[k][2] = SelectedFrom(o, ask, steps[k], g[k - 1][2])
      BY <3>2, <3>3
    <3>5. f[k] = g[k][2] /\ f[k - 1] = g[k - 1][2]
      BY <3>1
    <3> QED
      BY <2>2, <3>4, <3>5 DEF AfterStep
  <2> QED
    BY <2>1, <2>2
<1>10. ChainOf(o, ask, steps, given, f)
  <2>1. f = [k \in 0 .. N |-> f[k]]
    OBVIOUS
  <2> HIDE DEF f
  <2>2. f = [k \in 0 .. N |-> AfterStep(o, ask, steps, f, given, k)]
    BY <1>9, <2>1
  <2> QED
    BY <2>2 DEF ChainOf
<1> QED
  BY <1>10

(* SelectionPolicy::apply: a chain of steps selects parts, too.            *)
THEOREM PoliciesSelectParts ==
  ASSUME NEW o, NEW ask, NEW steps, Len(steps) \in Nat, NEW pool, IsPool(pool), NEW agents, IsPool(agents),
         \A f \in DOMAIN ask.pools : \A q \in ask.pools[f] : IsPart(q, agents),
         NEW given \in SUBSET (SUBSET AgentOf(pool))
  PROVE  Selections(o, ask, steps, given) \in SUBSET (SUBSET (SUBSET AgentOf(pool)))
<1> DEFINE N == Len(steps)
           T == SUBSET (SUBSET (SUBSET AgentOf(pool)))
           chain == CHOOSE after : ChainOf(o, ask, steps, given, after)
<1>1. \A s : \A B \in T : SelectedFrom(o, ask, s, B) \in T
  <2> SUFFICES ASSUME NEW s, NEW B \in T, NEW S \in B, NEW R \in Selected(o, ask, s, S)
               PROVE  R \in SUBSET (SUBSET AgentOf(pool))
    BY DEF SelectedFrom
  <2>1. S \in SUBSET (SUBSET AgentOf(pool))
    OBVIOUS
  <2>2. Selected(o, ask, s, S) \in SUBSET (SUBSET (SUBSET AgentOf(pool)))
    BY <2>1, StepSelectsParts
  <2> QED
    BY <2>2
<1>2. {given} \in T
  OBVIOUS
<1> HIDE DEF T
<1>11. ChainOf(o, ask, steps, given, chain)
  BY SelectionsGoOn
<1>12. \A k \in 0 .. N : chain[k] = AfterStep(o, ask, steps, chain, given, k)
  <2> HIDE DEF chain
  <2> QED
    BY <1>11 DEF ChainOf
<1> HIDE DEF chain
<1> DEFINE Q == {k \in Nat : k \in 0 .. N => chain[k] \in T}
<1>13. 0 \in Q
  BY <1>2, <1>12 DEF AfterStep
<1>14. \A k \in Nat : k \in Q => k + 1 \in Q
  <2> SUFFICES ASSUME NEW k \in Nat, k \in Q, k + 1 \in 0 .. N PROVE chain[k + 1] \in T
    OBVIOUS
  <2>1. chain[k] \in T /\ k + 1 # 0 /\ (k + 1) - 1 = k
    OBVIOUS
  <2>2. chain[k + 1] = SelectedFrom(o, ask, steps[k + 1], chain[k])
    BY <1>12, <2>1 DEF AfterStep
  <2> QED
    BY <1>1, <2>1, <2>2
<1>15. Nat \subseteq Q
  <2> HIDE DEF Q
  <2> QED
    BY <1>13, <1>14, NatSetInduction
<1>6a. chain[N] \in T
  BY <1>15
<1> QED
  BY <1>6a, SelectionsUnfolded DEF chain, T

(* A team is one of the pools of a loaded ontology of robots.              *)
TeamsTypeOK ==
  /\ case.kind \in {"crew", "company", "team"} => case.o \in TeamOntologies
  /\ case.kind = "team" => case.pool \in Pools /\ NumberOfInstances(case.pool) > 0

(* Teams are formed of known pools, with ontologies of robots.             *)
LEMMA TeamsKeepTheirType == Spec => []TeamsTypeOK
<1>1. Init => TeamsTypeOK
  BY DEF Init, TeamsTypeOK
<1>2. InputTypeOK /\ TeamsTypeOK /\ [Next]_case => TeamsTypeOK'
  <2> SUFFICES ASSUME InputTypeOK, TeamsTypeOK, [Next]_case PROVE TeamsTypeOK'
    OBVIOUS
  <2>1. CASE Gather
    <3>1. case'.kind = "crew" /\ case'.o \in TeamOntologies
      BY <2>1 DEF Gather
    <3> QED
      BY <3>1 DEF TeamsTypeOK
  <2>2. CASE Prepare
    <3>1. PICK s \in Settings :
            case' = [kind |-> IF case.kind = "crew" THEN "company" ELSE "ask", o |-> case.o,
                     bounded |-> s[2], size |-> s[3], ask |-> Prepared(case.o, s[1], s[2], s[3])]
      BY <2>2 DEF Prepare
    <3>2. case'.o = case.o /\ case'.kind = IF case.kind = "crew" THEN "company" ELSE "ask"
      BY <3>1
    <3> QED
      BY <3>2 DEF TeamsTypeOK
  <2>3. CASE Form
    <3>1. case.o \in TeamOntologies
      BY <2>3 DEF Form, TeamsTypeOK
    <3>2. /\ case'.kind = "team" /\ case'.o = case.o /\ case'.pool \in Pools
          /\ NumberOfInstances(case'.pool) > 0
      BY <2>3 DEF Form
    <3> QED
      BY <3>1, <3>2 DEF TeamsTypeOK
  <2>4. CASE LoadOntology \/ Request \/ Constrain \/ Choose \/ Walk \/ Divide \/ Reconfigure
    <3>1. case'.kind \in {"ontology", "request", "constraints", "pair", "range", "division", "reconfiguration"}
      BY <2>4 DEF LoadOntology, Request, Constrain, Choose, Walk, Divide, Reconfigure
    <3> QED
      BY <3>1 DEF TeamsTypeOK
  <2>5. CASE ConstrainMore
    <3>1. PICK e \in FurtherConditions : case' = [case EXCEPT !.set = @ \cup {e}]
      BY <2>5 DEF ConstrainMore
    <3>2. case \in Constrained
      BY <2>5 DEF ConstrainMore, InputTypeOK, Constrained, Paired, Ranged, Divided, Reconfigured
    <3>3. case'.kind = "constraints"
      BY <3>1, <3>2 DEF Constrained
    <3> QED
      BY <3>3 DEF TeamsTypeOK
  <2>6. CASE UNCHANGED case
    BY <2>6 DEF TeamsTypeOK
  <2> QED
    BY <2>1, <2>2, <2>3, <2>4, <2>5, <2>6 DEF Next
<1> QED
  BY <1>1, <1>2, InputsKeepTheirType, PTL DEF Spec

(* A policy has finitely many steps.                                       *)
LEMMA PolicyIsChain ==
  ASSUME NEW o \in TeamOntologies
  PROVE  Len(PolicyOf(o, "carrier")) \in Nat
<1> DEFINE elements == o.element["carrier"]
           filled == {n \in 0 .. Len(elements) : \A i \in 1 .. n : elements[i] # {}}
           last == Greatest(filled)
<1>1. Len(elements) \in Nat
  <2>1. IsChain(elements)
    BY InputsAreReal DEF InputAssumption
  <2> HIDE DEF elements
  <2> QED
    BY <2>1 DEF IsChain
<1> HIDE DEF elements
<1>2. last \in Nat
  <2>1. 0 \in filled /\ filled \subseteq Nat /\ filled \subseteq 0 .. Len(elements)
    BY <1>1
  <2> HIDE DEF filled
  <2>2. \E n \in filled : \A k \in filled : k <= n
    BY <1>1, <2>1, GreatestExists
  <2>3. Greatest(filled) \in filled
    BY <2>2 DEF Greatest
  <2> QED
    BY <2>1, <2>3
<1> HIDE DEF filled
<1>3. PolicyOf(o, "carrier") = [i \in 1 .. last |-> CHOOSE e \in elements[i] : TRUE]
  BY DEF PolicyOf, last, filled, elements
<1> HIDE DEF last
<1> DEFINE chain == [i \in 1 .. last |-> CHOOSE e \in elements[i] : TRUE]
<1>4. chain \in Seq({chain[i] : i \in 1 .. last})
  BY <1>2
<1>5. Len(chain) \in Nat
  <2> HIDE DEF chain
  <2> QED
    BY <1>4
<1> QED
  BY <1>3, <1>5

(* SelectionsAreParts: whatever a policy selects, from all combinations of *)
(* a team or from the team as a whole, is part of the team, and an inverse *)
(* argument asks for what is left of it.                                   *)
THEOREM PartsSelected == Spec => []SelectionsAreParts
<1>1. AsksTypeOK /\ TeamsTypeOK => SelectionsAreParts
  <2> DEFINE o == case.o
             ask == case.ask
             pool == case.pool
             all == {AgentOf(p) : p \in AllCombinations(pool, 0)}
             whole == {AgentOf(pool)}
  <2> SUFFICES ASSUME AsksTypeOK, TeamsTypeOK, case.kind = "team", NEW chain \in Chains,
                      NEW S \in Selections(o, ask, chain, all) \cup Selections(o, ask, chain, whole)
                                  \cup SelectionsOfRobot(o, ask, "carrier", pool),
                      NEW a \in S
               PROVE  /\ a \subseteq AgentOf(pool)
                      /\ Compact(Sum(TypeOf(a), TypeOf(Rest(pool, a)))) = Compact(pool)
    BY DEF SelectionsAreParts
  <2>1. PICK p \in AskedPools \cup CrewPools, bounded \in BOOLEAN, size \in 0 .. 2 :
          ask = Prepared(o, p, bounded, size)
    BY DEF AsksTypeOK, IsPrepared
  <2>2. IsOntology(o) /\ IsPool(p) /\ IsFiniteSet(DOMAIN p)
    BY AskedOntologies DEF AsksTypeOK, IsPrepared, IsLoaded
  <2>3. o \in TeamOntologies /\ IsPool(pool) /\ IsFiniteSet(DOMAIN pool)
    BY AskedOntologies DEF TeamsTypeOK
  <2> HIDE DEF o, ask, pool
  <2>4. IsPool(ask.pool) /\ \A f \in DOMAIN ask.pools : \A q \in ask.pools[f] : IsPart(q, ask.pool)
    BY <2>1, <2>2, MappingIsRight
  <2>5. all \in SUBSET (SUBSET AgentOf(pool)) /\ whole \in SUBSET (SUBSET AgentOf(pool))
    <3>1. \A q \in AllCombinations(pool, 0) : AgentOf(q) \subseteq AgentOf(pool)
      <4> TAKE q \in AllCombinations(pool, 0)
      <4>1. IsPart(q, pool)
        BY <2>3, CombinationsAreParts
      <4> QED
        BY <2>3, <4>1, PartsHaveTheirAgents DEF IsPart
    <3> QED
      BY <3>1
  <2> HIDE DEF all, whole
  <2>6. Len(chain) \in Nat
    <3>1. IsChain(chain)
      BY InputsAreReal DEF InputAssumption
    <3> QED
      BY <3>1 DEF IsChain
  <2>7. Selections(o, ask, chain, all) \cup Selections(o, ask, chain, whole)
          \in SUBSET (SUBSET (SUBSET AgentOf(pool)))
    <3>1. Selections(o, ask, chain, all) \in SUBSET (SUBSET (SUBSET AgentOf(pool)))
      BY <2>3, <2>4, <2>5, <2>6, PoliciesSelectParts
    <3>2. Selections(o, ask, chain, whole) \in SUBSET (SUBSET (SUBSET AgentOf(pool)))
      BY <2>3, <2>4, <2>5, <2>6, PoliciesSelectParts
    <3> QED
      BY <3>1, <3>2
  <2>8. SelectionsOfRobot(o, ask, "carrier", pool) \in SUBSET (SUBSET (SUBSET AgentOf(pool)))
    <3>1. Len(PolicyOf(o, "carrier")) \in Nat
      BY <2>3, PolicyIsChain
    <3>2. Selections(o, ask, PolicyOf(o, "carrier"), whole) \in SUBSET (SUBSET (SUBSET AgentOf(pool)))
      BY <2>3, <2>4, <2>5, <3>1, PoliciesSelectParts
    <3> QED
      BY <3>2 DEF SelectionsOfRobot, whole
  <2>9. a \in SUBSET AgentOf(pool)
    BY <2>7, <2>8
  <2> QED
    BY <2>3, <2>9, RestIsWhatIsLeft
<1> QED
  BY <1>1, AsksKeepTheirType, TeamsKeepTheirType, PTL

-----------------------------------------------------------------------------
(* Ranges of pools: the iterator is a counter whose digits are the counts, *)
(* the one of the last model being the most significant.                   *)

Span(r) == {p \in Maps(r) : \A m \in DOMAIN p : p[m] \in Digits(r, m)}

Following(r, c) == {Successor(r, c, m) : m \in Advancing(r, c)}

(* Advancing is one model, the first that is not at its maximum, or none.  *)
LEMMA AdvancingIsFirst ==
  ASSUME NEW r, IsRange(r), NEW c \in Maps(r)
  PROVE  /\ \A m \in Advancing(r, c) :
              /\ m \in DOMAIN r.start /\ c[m] < Count(r.end, m) /\ Following(r, c) = {Successor(r, c, m)}
              /\ \A n \in DOMAIN r.start : c[n] < Count(r.end, n) => m <= n
         /\ Advancing(r, c) = {} => Following(r, c) = {} /\ \A n \in DOMAIN r.start : ~(c[n] < Count(r.end, n))
<1> DEFINE S == {m \in DOMAIN c : c[m] < Count(r.end, m)}
<1>1. DOMAIN c = DOMAIN r.start /\ DOMAIN c \subseteq Nat
  BY RangeFacts DEF Maps
<1>2. Advancing(r, c) = {m \in S : \A n \in S : m <= n}
  BY DEF Advancing, FirstOf
<1>3. S \subseteq Nat
  BY <1>1
<1>4. ASSUME NEW m \in Advancing(r, c)
      PROVE  /\ m \in DOMAIN r.start /\ c[m] < Count(r.end, m)
             /\ \A n \in DOMAIN r.start : c[n] < Count(r.end, n) => m <= n
             /\ Advancing(r, c) = {m}
  <2>1. m \in S /\ \A n \in S : m <= n
    BY <1>2
  <2>2. \A n \in Advancing(r, c) : n \in S /\ n <= m
    BY <1>2, <2>1
  <2>3. \A n \in Advancing(r, c) : n = m
    BY <1>3, <2>1, <2>2
  <2> QED
    BY <1>1, <2>1, <2>3
<1>5. ASSUME Advancing(r, c) = {} PROVE S = {}
  <2> HIDE DEF S
  <2> QED
    BY <1>2, <1>3, <1>5, LeastExists
<1> QED
  BY <1>1, <1>4, <1>5 DEF Following

(* What follows is further on, and not past the end.                       *)
LEMMA SuccessorIsAhead ==
  ASSUME NEW r, IsRange(r), NEW c \in Maps(r), NEW m \in Advancing(r, c)
  PROVE  LET s == Successor(r, c, m)
         IN  /\ s \in Maps(r) /\ Precedes(c, s)
             /\ s[m] = Smaller(Count(r.end, m), c[m] + Width(r, m))
             /\ \A n \in DOMAIN r.start : /\ n < m => s[n] = r.start[n]
                                          /\ m < n => s[n] = c[n]
                                          /\ s[n] <= Larger(c[n], Count(r.end, n))
<1> DEFINE s == Successor(r, c, m)
           i == Incremented(r, c, m)
<1>1. /\ DOMAIN c = DOMAIN r.start /\ DOMAIN c \subseteq Nat
      /\ \A n \in DOMAIN c : c[n] \in Nat /\ r.start[n] \in Nat /\ r.start[n] <= Count(r.end, n)
                             /\ Count(r.end, n) \in Nat
  BY RangeFacts DEF Maps
<1>2. m \in DOMAIN c /\ c[m] < Count(r.end, m)
  BY <1>1, AdvancingIsFirst
<1>3. i = Smaller(Count(r.end, m), c[m] + Width(r, m))
  BY DEF Incremented, Width
<1>4. Width(r, m) \in Nat \ {0}
  BY <1>1, <1>2, RangeFacts
<1>5. i \in Nat /\ c[m] < i /\ i <= Count(r.end, m)
  BY <1>1, <1>2, <1>3, <1>4 DEF Smaller
<1>6. /\ s = [n \in DOMAIN c |-> IF n < m THEN r.start[n] ELSE IF n = m THEN i ELSE c[n]]
      /\ DOMAIN s = DOMAIN c
  BY DEF Successor
<1> HIDE DEF i
<1>7. s \in Maps(r)
  BY <1>1, <1>5, <1>6 DEF Maps
<1>8. s[m] = i
  BY <1>1, <1>2, <1>6
<1>9. ASSUME NEW n \in DOMAIN c
      PROVE  /\ n < m => s[n] = r.start[n]
             /\ m < n => s[n] = c[n]
             /\ s[n] <= Larger(c[n], Count(r.end, n))
  BY <1>1, <1>2, <1>5, <1>6 DEF Larger
<1>10. Precedes(c, s)
  BY <1>1, <1>2, <1>5, <1>8, <1>9 DEF Precedes
<1> QED
  BY <1>1, <1>3, <1>7, <1>8, <1>9, <1>10

(* The counts of a model: the successor of one is the next one.            *)
LEMMA NextDigit ==
  ASSUME NEW r, IsRange(r), NEW m \in DOMAIN r.start, NEW i \in Digits(r, m), i < Count(r.end, m)
  PROVE  LET next == Smaller(Count(r.end, m), i + Width(r, m))
         IN  next \in Digits(r, m) /\ \A j \in Digits(r, m) : i < j => next <= j
<1> DEFINE first == r.start[m]
           last == Count(r.end, m)
           w == Width(r, m)
           next == Smaller(last, i + w)
<1>1. w \in Nat \ {0} /\ first \in Nat /\ last \in Nat /\ first <= last
  BY RangeFacts
<1>2. \A j : j \in Digits(r, m) <=> j \in first .. last /\ (j = last \/ (j - first) % w = 0)
  BY DEF Digits, Width
<1> HIDE DEF first, last, w
<1>3. i \in first .. last /\ i # last /\ (i - first) % w = 0
  BY <1>1, <1>2 DEF last
<1>4. i - first \in Nat
  BY <1>1, <1>3
<1>5. next \in first .. last
  BY <1>1, <1>3 DEF Smaller
<1>6. next = last \/ (next - first) % w = 0
  <2> DEFINE x == i - first
  <2>1. (x + w) % w = 0
    <3>1. x \in Nat /\ x % w = 0
      BY <1>3, <1>4
    <3> HIDE DEF x
    <3> QED
      BY <1>1, <3>1, DigitGoesOn
  <2>2. (i + w) - first = x + w
    BY <1>1, <1>3
  <2>3. CASE last < i + w
    BY <2>3 DEF Smaller
  <2>4. CASE ~(last < i + w)
    <3>1. next = i + w
      BY <2>4 DEF Smaller
    <3> QED
      BY <2>1, <2>2, <3>1
  <2> QED
    BY <2>3, <2>4
<1>7. ASSUME NEW j \in Digits(r, m), i < j PROVE next <= j
  <2>1. j \in first .. last /\ (j = last \/ (j - first) % w = 0)
    BY <1>2
  <2>2. CASE j = last
    BY <1>1, <1>3, <2>2 DEF Smaller
  <2>3. CASE (j - first) % w = 0
    <3> DEFINE x == i - first
               y == j - first
    <3>1. x \in Nat /\ y \in Nat /\ x % w = 0 /\ y % w = 0 /\ x < y
      BY <1>1, <1>3, <1>7, <2>1, <2>3
    <3>2. x + w <= y
      <4> HIDE DEF x, y
      <4> QED
        BY <1>1, <3>1, DigitsFollow
    <3>3. i + w <= j
      BY <1>1, <1>3, <2>1, <3>2
    <3> QED
      BY <1>1, <1>3, <2>1, <3>3 DEF Smaller
  <2> QED
    BY <2>1, <2>2, <2>3
<1> QED
  BY <1>2, <1>5, <1>6, <1>7 DEF last, w

(* The start and the end take such counts, with no other below or above.   *)
LEMMA SpanIsBounded ==
  ASSUME NEW r, IsRange(r)
  PROVE  /\ r.start \in Span(r)
         /\ \A p \in Span(r) : p = r.start \/ Precedes(r.start, p)
         /\ \A p, c \in Span(r) : Advancing(r, c) = {} => ~Precedes(c, p)
<1> DEFINE D == DOMAIN r.start
<1>1. D \in SUBSET Nat /\ IsFiniteSet(D) /\ r.start \in [D -> Nat]
  BY RangeFacts DEF IsRange, Maps
<1>2. \A m \in D : /\ r.start[m] \in Digits(r, m)
                   /\ \A i \in Digits(r, m) : i \in Nat /\ r.start[m] <= i /\ i <= Count(r.end, m)
  <2> TAKE m \in D
  <2> DEFINE first == r.start[m]
             last == Count(r.end, m)
             w == Width(r, m)
  <2>1. w \in Nat \ {0} /\ first \in Nat /\ last \in Nat /\ first <= last
    BY RangeFacts
  <2>2. \A j : j \in Digits(r, m) <=> j \in first .. last /\ (j = last \/ (j - first) % w = 0)
    BY DEF Digits, Width
  <2> HIDE DEF first, last, w
  <2>3. (first - first) % w = 0
    <3>1. 0 * w = 0 /\ first - first = 0
      BY <2>1
    <3>2. (0 * w) % w = 0
      BY <2>1, MultiplesDivide
    <3> QED
      BY <3>1, <3>2
  <2>4. first \in Digits(r, m)
    BY <2>1, <2>2, <2>3
  <2>5. \A i \in Digits(r, m) : i \in Nat /\ first <= i /\ i <= last
    BY <2>1, <2>2
  <2> QED
    BY <2>4, <2>5 DEF first, last
<1>3. \A p : p \in Span(r) <=> p \in [D -> Nat] /\ \A m \in D : p[m] \in Digits(r, m)
  BY DEF Span, Maps
<1>4. r.start \in Span(r)
  BY <1>1, <1>2, <1>3
<1>5. ASSUME NEW p \in Span(r), p # r.start PROVE Precedes(r.start, p)
  <2>1. p \in [D -> Nat]
    BY <1>3
  <2>2. PICK m \in D : r.start[m] # p[m] /\ \A n \in D : m < n => r.start[n] = p[n]
    BY <1>1, <1>5, <2>1, LastDifference
  <2>3. r.start[m] < p[m]
    <3>1. r.start[m] \in Nat /\ p[m] \in Nat /\ r.start[m] <= p[m]
      BY <1>1, <1>2, <1>3
    <3> QED
      BY <2>2, <3>1
  <2> QED
    BY <2>2, <2>3 DEF Precedes
<1>6. ASSUME NEW p \in Span(r), NEW c \in Span(r), Advancing(r, c) = {} PROVE ~Precedes(c, p)
  <2>1. c \in Maps(r) /\ p \in [D -> Nat] /\ c \in [D -> Nat]
    BY <1>3 DEF Maps
  <2>2. \A m \in D : ~(c[m] < Count(r.end, m))
    BY <1>6, <2>1, AdvancingIsFirst
  <2>3. \A m \in D : ~(c[m] < p[m])
    <3> TAKE m \in D
    <3>1. p[m] <= Count(r.end, m) /\ p[m] \in Nat /\ c[m] \in Nat /\ Count(r.end, m) \in Nat
      BY <1>2, <1>3, <2>1, RangeFacts
    <3> QED
      BY <2>2, <3>1
  <2> QED
    BY <2>1, <2>3 DEF Precedes
<1> QED
  BY <1>4, <1>5, <1>6

(* Between a pool of the range and what follows it there is none.          *)
LEMMA SuccessorIsNext ==
  ASSUME NEW r, IsRange(r), NEW c \in Span(r), NEW m \in Advancing(r, c)
  PROVE  LET s == Successor(r, c, m)
         IN  s \in Span(r) /\ \A p \in Span(r) : Precedes(c, p) => p = s \/ Precedes(s, p)
<1> DEFINE D == DOMAIN r.start
           s == Successor(r, c, m)
<1>1. D \in SUBSET Nat /\ IsFiniteSet(D) /\ r.start \in [D -> Nat]
  BY RangeFacts DEF IsRange, Maps
<1>2. \A p : p \in Span(r) <=> p \in [D -> Nat] /\ \A n \in D : p[n] \in Digits(r, n)
  BY DEF Span, Maps
<1>3. c \in [D -> Nat] /\ c \in Maps(r) /\ r.start \in Span(r)
  BY <1>2, SpanIsBounded DEF Maps
<1>4. m \in D /\ c[m] < Count(r.end, m) /\ \A n \in D : c[n] < Count(r.end, n) => m <= n
  BY <1>3, AdvancingIsFirst
<1>5. /\ s \in [D -> Nat] /\ s[m] = Smaller(Count(r.end, m), c[m] + Width(r, m))
      /\ \A n \in D : (n < m => s[n] = r.start[n]) /\ (m < n => s[n] = c[n])
  BY <1>3, SuccessorIsAhead DEF Maps
<1>6. s[m] \in Digits(r, m) /\ \A j \in Digits(r, m) : c[m] < j => s[m] <= j
  <2>1. c[m] \in Digits(r, m)
    BY <1>2, <1>4
  <2> QED
    BY <1>4, <1>5, <2>1, NextDigit
<1> HIDE DEF s
<1>7. s \in Span(r)
  <2>1. ASSUME NEW n \in D PROVE s[n] \in Digits(r, n)
    <3>1. n \in Nat /\ m \in Nat
      BY <1>1, <1>4
    <3>2. n < m \/ n = m \/ m < n
      BY <3>1
    <3> QED
      BY <1>2, <1>3, <1>5, <1>6, <3>2
  <2> QED
    BY <1>2, <1>5, <2>1
<1>8. ASSUME NEW p \in Span(r), Precedes(c, p), p # s PROVE Precedes(s, p)
  <2>1. p \in [D -> Nat] /\ \A n \in D : p[n] \in Digits(r, n)
    BY <1>2
  <2>2. PICK k \in D : c[k] < p[k] /\ \A n \in D : k < n => c[n] = p[n]
    BY <1>3, <1>8 DEF Precedes
  <2>3. m <= k
    <3>1. p[k] <= Count(r.end, k)
      <4>1. p[k] \in r.start[k] .. Count(r.end, k)
        BY <2>1 DEF Digits
      <4>2. r.start[k] \in Nat /\ Count(r.end, k) \in Nat
        BY RangeFacts
      <4> QED
        BY <4>1, <4>2
    <3>2. c[k] \in Nat /\ p[k] \in Nat /\ Count(r.end, k) \in Nat
      BY <1>3, <2>1, RangeFacts
    <3>3. c[k] < Count(r.end, k)
      BY <2>2, <3>1, <3>2
    <3> QED
      BY <1>4, <3>3
  <2>4. m \in Nat /\ k \in Nat /\ \A n \in D : n \in Nat
    BY <1>1, <1>4
  <2>5. CASE m < k
    <3>1. s[k] = c[k] /\ \A n \in D : k < n => s[n] = p[n]
      BY <1>5, <2>2, <2>4, <2>5
    <3> QED
      BY <1>5, <2>2, <3>1 DEF Precedes
  <2>6. CASE m = k
    <3>1. s[m] <= p[m] /\ s[m] \in Nat /\ p[m] \in Nat
      BY <1>4, <1>5, <1>6, <2>1, <2>2, <2>6
    <3>2. \A n \in D : m < n => s[n] = p[n]
      BY <1>5, <2>2, <2>6
    <3>3. PICK n \in D : s[n] # p[n] /\ \A l \in D : n < l => s[l] = p[l]
      BY <1>1, <1>5, <1>8, <2>1, LastDifference
    <3>4. CASE n = m
      <4>1. s[n] < p[n]
        BY <3>1, <3>3, <3>4
      <4> QED
        BY <1>5, <3>3, <4>1 DEF Precedes
    <3>5. CASE n < m
      <4>1. s[n] = r.start[n] /\ s[n] \in Nat /\ p[n] \in Nat
        BY <1>5, <2>1, <3>5
      <4>2. r.start[n] <= p[n]
        <5>1. p[n] \in r.start[n] .. Count(r.end, n)
          BY <2>1 DEF Digits
        <5>2. r.start[n] \in Nat /\ Count(r.end, n) \in Nat
          BY RangeFacts
        <5> QED
          BY <5>1, <5>2
      <4>3. s[n] < p[n]
        BY <3>3, <4>1, <4>2
      <4> QED
        BY <1>5, <3>3, <4>3 DEF Precedes
    <3> QED
      BY <2>4, <3>2, <3>3, <3>4, <3>5
  <2> QED
    BY <2>3, <2>4, <2>5, <2>6
<1> QED
  BY <1>7, <1>8 DEF s

(* With each step fewer are.                                               *)
LEMMA FewerAreAhead ==
  ASSUME NEW r, IsRange(r), NEW c \in Maps(r), NEW m \in Advancing(r, c)
  PROVE  LET s == Successor(r, c, m)
         IN  s \in Maps(r) /\ Cardinality(Ahead(r, s)) < Cardinality(Ahead(r, c))
<1> DEFINE D == DOMAIN r.start
           s == Successor(r, c, m)
<1>1. /\ s \in Maps(r) /\ Precedes(c, s)
      /\ \A n \in D : s[n] <= Larger(c[n], Count(r.end, n))
  BY SuccessorIsAhead
<1> HIDE DEF s
<1>2. D \in SUBSET Nat /\ c \in [D -> Nat] /\ s \in [D -> Nat] /\ \A n \in D : Count(r.end, n) \in Nat
  BY <1>1, RangeFacts DEF Maps
<1>3. s \in Ahead(r, c)
  BY <1>1 DEF Ahead
<1>4. s \notin Ahead(r, s)
  BY <1>2, PrecedesIsOrder DEF Ahead
<1>5. ASSUME NEW p \in Ahead(r, s) PROVE p \in Ahead(r, c)
  <2>1. p \in [D -> Nat] /\ Precedes(s, p) /\ \A n \in D : p[n] <= Larger(s[n], Count(r.end, n))
    BY DEF Ahead, Maps
  <2>2. Precedes(c, p)
    BY <1>1, <1>2, <2>1, PrecedesIsOrder
  <2>3. \A n \in D : p[n] <= Larger(c[n], Count(r.end, n))
    <3> TAKE n \in D
    <3>1. p[n] \in Nat /\ c[n] \in Nat /\ s[n] \in Nat /\ Count(r.end, n) \in Nat
      BY <1>2, <2>1
    <3> QED
      BY <1>1, <2>1, <3>1 DEF Larger
  <2> QED
    BY <2>1, <2>2, <2>3 DEF Ahead, Maps
<1>6. Cardinality(Ahead(r, s)) < Cardinality(Ahead(r, c))
  <2>1. IsFiniteSet(Ahead(r, c)) /\ Cardinality(Ahead(r, c)) \in Nat /\ Cardinality(Ahead(r, s)) \in Nat
    BY <1>1, AheadIsFinite
  <2>2. Ahead(r, s) \in SUBSET Ahead(r, c)
    BY <1>5
  <2>3. Cardinality(Ahead(r, s)) <= Cardinality(Ahead(r, c))
        /\ Cardinality(Ahead(r, s)) # Cardinality(Ahead(r, c))
    BY <1>3, <1>4, <2>1, <2>2, FS_Subset
  <2> QED
    BY <2>1, <2>3
<1> QED
  BY <1>1, <1>6 DEF s

(* The pools next() stops at, unfolded.                                    *)
StopStep(r, from, c) ==
  <<c>> \o (IF Following(r, c) = {} THEN <<>> ELSE from[CHOOSE p \in Following(r, c) : TRUE])

Walks(r, from) == from = [c \in Maps(r) |-> StopStep(r, from, c)]

(* Where the iterator stops is the value of one of these functions.        *)
LEMMA StopsUnfolded ==
  ASSUME NEW r
  PROVE  Stops(r) = IF IsSubset(r.start, r.end) THEN (CHOOSE from : Walks(r, from))[r.start] ELSE <<>>
BY DEF Stops, Walks, StopStep, Following, Maps

(* The walk from any pool ends: there is such a function.                  *)
LEMMA WalkExists ==
  ASSUME NEW r, IsRange(r)
  PROVE  \E from : Walks(r, from)
<1> DEFINE X == Maps(r)
           T == Seq(X)
           Y == {c \in X : Following(r, c) # {}}
           rank == [c \in X |-> Cardinality(Ahead(r, c))]
           next == [c \in Y |-> CHOOSE p \in Following(r, c) : TRUE]
           combine == [q \in X \X T |-> <<q[1]>> \o q[2]]
           base == [c \in X |-> <<c>>]
<1>1. rank \in [X -> Nat]
  BY AheadIsFinite
<1>2. ASSUME NEW c \in Y PROVE next[c] \in X /\ rank[next[c]] < rank[c]
  <2>1. c \in X /\ Following(r, c) # {}
    OBVIOUS
  <2>2. PICK m : m \in Advancing(r, c)
    BY <2>1, AdvancingIsFirst
  <2> DEFINE s == Successor(r, c, m)
  <2>3. Following(r, c) = {s}
    BY <2>1, <2>2, AdvancingIsFirst
  <2>4. s \in X /\ Cardinality(Ahead(r, s)) < Cardinality(Ahead(r, c))
    BY <2>1, <2>2, FewerAreAhead
  <2> HIDE DEF s
  <2>5. next[c] = s
    BY <2>3
  <2> QED
    BY <2>1, <2>4, <2>5
<1>3. combine \in [X \X T -> T] /\ base \in [X -> T]
  <2> HIDE DEF X
  <2>1. \A q \in X \X T : <<q[1]>> \o q[2] \in T
    OBVIOUS
  <2>2. \A c \in X : <<c>> \in T
    OBVIOUS
  <2> HIDE DEF T
  <2> QED
    BY <2>1, <2>2
<1>4. next \in [Y -> X] /\ Y \in SUBSET X /\ \A c \in Y : rank[next[c]] < rank[c]
  <2>1. next = [c \in Y |-> next[c]]
    OBVIOUS
  <2>2. Y \in SUBSET X
    OBVIOUS
  <2> HIDE DEF next, rank, Y, X
  <2> QED
    BY <1>2, <2>1, <2>2
<1>5. PICK f \in [X -> T] : \A c \in X : f[c] = Descent(f, Y, next, combine, base, c)
  <2> HIDE DEF X, Y, T, rank, next, combine, base
  <2>1. Descends(X, T, Y, next, combine, base, rank)
    BY <1>1, <1>3, <1>4 DEF Descends
  <2> QED
    BY <2>1, DescentExists
<1>6. ASSUME NEW c \in X PROVE f[c] = StopStep(r, f, c)
  <2>1. CASE c \in Y
    <3> DEFINE d == CHOOSE p \in Following(r, c) : TRUE
    <3>1. next[c] = d /\ d \in X
      BY <1>4, <2>1
    <3>2. f[c] = combine[<<c, f[d]>>] /\ f[d] \in T
      BY <1>5, <2>1, <3>1 DEF Descent
    <3> HIDE DEF d
    <3>3. f[c] = <<c>> \o f[d]
      <4> HIDE DEF X, T
      <4> QED
        BY <3>2
    <3> QED
      BY <2>1, <3>3 DEF StopStep, d
  <2>2. CASE c \notin Y
    <3>1. f[c] = <<c>> /\ Following(r, c) = {}
      BY <1>5, <2>2 DEF Descent
    <3>2. StopStep(r, f, c) = <<c>> \o <<>>
      BY <3>1 DEF StopStep
    <3> QED
      BY <3>1, <3>2
  <2> QED
    BY <2>1, <2>2
<1>7. f = [c \in X |-> f[c]]
  <2> HIDE DEF X, T
  <2> QED
    BY <1>5
<1>8. f = [c \in X |-> StopStep(r, f, c)]
  <2> HIDE DEF X
  <2> QED
    BY <1>6, <1>7
<1> QED
  BY <1>8 DEF Walks

(* next() stops at each pool of the range once.                            *)
THEOREM StopsAreSpan ==
  ASSUME NEW r, IsRange(r), IsSubset(r.start, r.end)
  PROVE  Lists(Stops(r), Span(r))
<1> DEFINE from == CHOOSE from : Walks(r, from)
           After(c) == {p \in Span(r) : Precedes(c, p)}
<1>1. Walks(r, from)
  BY WalkExists
<1>2. Stops(r) = from[r.start]
  BY StopsUnfolded
<1> HIDE DEF from
<1>3. \A c \in Maps(r) : from[c] = StopStep(r, from, c)
  BY <1>1 DEF Walks
<1>4. /\ Span(r) \subseteq Maps(r) /\ Maps(r) = [DOMAIN r.start -> Nat] /\ DOMAIN r.start \in SUBSET Nat
  BY RangeFacts DEF Span, Maps
<1> DEFINE P == {n \in Nat : \A c \in Span(r) : Cardinality(Ahead(r, c)) < n => Lists(from[c], {c} \cup After(c))}
<1>5. 0 \in P
  <2>1. \A c \in Span(r) : Cardinality(Ahead(r, c)) \in Nat
    BY <1>4, AheadIsFinite
  <2> QED
    BY <2>1
<1>6. \A n \in Nat : n \in P => n + 1 \in P
  <2> SUFFICES ASSUME NEW n \in Nat, n \in P, NEW c \in Span(r), Cardinality(Ahead(r, c)) < n + 1
               PROVE  Lists(from[c], {c} \cup After(c))
    OBVIOUS
  <2>1. c \in Maps(r) /\ from[c] = StopStep(r, from, c)
    BY <1>3, <1>4
  <2>2. CASE Advancing(r, c) = {}
    <3>1. After(c) = {}
      BY <2>2, SpanIsBounded
    <3>2. Following(r, c) = {}
      BY <2>1, <2>2, AdvancingIsFirst
    <3>3. from[c] = <<c>>
      BY <2>1, <3>2 DEF StopStep
    <3>4. Lists(<<c>>, {c})
      <4>1. <<c>> \in Seq({c}) /\ Len(<<c>>) = 1 /\ <<c>>[1] = c
        OBVIOUS
      <4>2. \A i \in 1 .. 1 : i = 1
        OBVIOUS
      <4> QED
        BY <4>1, <4>2 DEF Lists
    <3>5. {c} \cup After(c) = {c}
      BY <3>1
    <3> HIDE DEF After
    <3> QED
      BY <3>3, <3>4, <3>5
  <2>3. CASE Advancing(r, c) # {}
    <3>1. PICK m : m \in Advancing(r, c)
      BY <2>3
    <3> DEFINE s == Successor(r, c, m)
    <3>2. Following(r, c) = {s}
      BY <2>1, <3>1, AdvancingIsFirst
    <3>3. s \in Span(r) /\ \A p \in Span(r) : Precedes(c, p) => p = s \/ Precedes(s, p)
      BY <3>1, SuccessorIsNext
    <3>4. Precedes(c, s)
      BY <2>1, <3>1, SuccessorIsAhead
    <3>5. Cardinality(Ahead(r, s)) < Cardinality(Ahead(r, c))
      BY <2>1, <3>1, FewerAreAhead
    <3> HIDE DEF s
    <3>6. Cardinality(Ahead(r, s)) < n
      <4>1. Cardinality(Ahead(r, s)) \in Nat /\ Cardinality(Ahead(r, c)) \in Nat
        BY <1>4, <2>1, <3>3, AheadIsFinite
      <4> QED
        BY <3>5, <4>1
    <3>7. Lists(from[s], {s} \cup After(s))
      BY <3>3, <3>6
    <3>8. from[c] = <<c>> \o from[s]
      <4>1. (CHOOSE p \in Following(r, c) : TRUE) = s
        BY <3>2
      <4>2. Following(r, c) # {}
        BY <3>2
      <4> QED
        BY <2>1, <4>1, <4>2 DEF StopStep
    <3>9. After(c) = {s} \cup After(s)
      <4>1. \A p \in Span(r) : Precedes(s, p) => Precedes(c, p)
        BY <1>4, <2>1, <3>3, <3>4, PrecedesIsOrder
      <4> QED
        BY <3>3, <3>4, <4>1
    <3>10. c \notin After(c)
      BY <1>4, <2>1, PrecedesIsOrder
    <3> HIDE DEF After
    <3>11. Lists(from[s], After(c))
      BY <3>7, <3>9
    <3> QED
      BY <3>8, <3>10, <3>11, ListsOneMore
  <2> QED
    BY <2>2, <2>3
<1>7. Nat \subseteq P
  <2> HIDE DEF P
  <2> QED
    BY <1>5, <1>6, NatSetInduction
<1>8. r.start \in Span(r) /\ \A p \in Span(r) : p = r.start \/ Precedes(r.start, p)
  BY SpanIsBounded
<1>9. Lists(from[r.start], {r.start} \cup After(r.start))
  <2> DEFINE n == Cardinality(Ahead(r, r.start))
  <2>1. n \in Nat
    BY <1>4, <1>8, AheadIsFinite
  <2>2. n + 1 \in P /\ n < n + 1
    <3> HIDE DEF P, n
    <3> QED
      BY <1>7, <2>1
  <2> HIDE DEF After
  <2> QED
    BY <1>8, <2>2
<1>10. {r.start} \cup After(r.start) = Span(r)
  BY <1>8
<1> QED
  BY <1>2, <1>9, <1>10

(* RangeIsVisited: the iterator stops at each pool between its start and   *)
(* its end that steps lead to, once, and at no other one.                  *)
THEOREM RangeVisited == Spec => []RangeIsVisited
<1>1. InputTypeOK => RangeIsVisited
  <2> DEFINE r == case
             stops == Stops(r)
             D == DOMAIN r.start
             digits == UNION {Digits(r, m) : m \in D}
             span == {p \in [D -> digits] : \A m \in DOMAIN p : p[m] \in Digits(r, m)}
  <2> SUFFICES ASSUME InputTypeOK, case.kind = "range", \A m \in DOMAIN r.step : r.step[m] > 0
               PROVE  /\ \A i, j \in DOMAIN stops : stops[i] = stops[j] => i = j
                      /\ {stops[i] : i \in DOMAIN stops} = IF IsSubset(r.start, r.end) THEN span ELSE {}
    BY DEF RangeIsVisited
  <2>1. case \in Ranged
    BY DEF InputTypeOK, Constrained, Paired, Ranged, Divided, Reconfigured
  <2>2. IsPool(r.start) /\ IsPool(r.end) /\ IsPool(r.step) /\ IsFiniteSet(D)
    BY <2>1, InputsAreReal DEF InputAssumption, Ranged
  <2> HIDE DEF r
  <2>3. CASE IsSubset(r.start, r.end)
    <3>1. IsRange(r)
      <4>1. \A m \in D : r.start[m] <= Count(r.end, m)
        <5>1. \A m \in Model : Count(r.start, m) <= Count(r.end, m)
          BY <2>2, <2>3, SubsetByCounts
        <5> QED
          BY <2>2, <5>1 DEF IsPool, Count
      <4> QED
        BY <2>2, <4>1 DEF IsRange
    <3>2. Lists(stops, Span(r))
      BY <2>3, <3>1, StopsAreSpan
    <3>3. span = Span(r)
      <4>1. \A m \in D : Digits(r, m) \subseteq Nat
        <5> SUFFICES ASSUME NEW m \in D PROVE Digits(r, m) \subseteq Nat
          OBVIOUS
        <5>1. r.start[m] \in Nat /\ Count(r.end, m) \in Nat
          BY <3>1, RangeFacts
        <5> QED
          BY <5>1 DEF Digits
      <4>2. ASSUME NEW p \in span PROVE p \in Span(r)
        <5>1. DOMAIN p = D /\ (\A m \in D : p[m] \in Digits(r, m)) /\ p = [m \in D |-> p[m]]
          OBVIOUS
        <5>2. p \in [D -> Nat]
          BY <4>1, <5>1
        <5> QED
          BY <5>1, <5>2 DEF Span, Maps
      <4>3. ASSUME NEW p \in Span(r) PROVE p \in span
        <5>1. DOMAIN p = D /\ (\A m \in D : p[m] \in Digits(r, m)) /\ p = [m \in D |-> p[m]]
          BY DEF Span, Maps
        <5>2. p \in [D -> digits]
          BY <5>1
        <5> QED
          BY <5>1, <5>2
      <4> QED
        BY <4>2, <4>3
    <3> HIDE DEF stops, span
    <3>4. stops \in Seq(Span(r)) /\ DOMAIN stops = 1 .. Len(stops)
      BY <3>2 DEF Lists
    <3>5. \A i \in DOMAIN stops : stops[i] \in Span(r)
      BY <3>4
    <3>6. {stops[i] : i \in DOMAIN stops} = Span(r)
      BY <3>2, <3>4, <3>5 DEF Lists
    <3> QED
      BY <2>3, <3>2, <3>3, <3>4, <3>6 DEF Lists
  <2>4. CASE ~IsSubset(r.start, r.end)
    <3>1. stops = <<>>
      BY <2>4, StopsUnfolded
    <3>2. DOMAIN stops = {}
      BY <3>1
    <3> HIDE DEF stops
    <3> QED
      BY <2>4, <3>2
  <2> QED
    BY <2>3, <2>4
<1> QED
  BY <1>1, InputsKeepTheirType, PTL

-----------------------------------------------------------------------------
(* Two ways to count resources                                             *)

LEMMA SupportOfOne ==
  ASSUME NEW o, NEW c \in Nat, IsRestricted(o, c), DOMAIN o.has[c] # {}, NEW filter,
         NEW side \in {"min", "max"}
  PROVE  IsSummed(o, c, filter, side, SupportVector(o, {c}, filter, side))
<1> DEFINE D == DOMAIN o.has[c]
           bounds == SharedBounds(o, {c})
           sizes == [q \in DOMAIN bounds |-> bounds[q][side]]
           Having(q) == {m \in {c} : q \in DOMAIN o.has[m]}
<1>1. DOMAIN bounds = D
  BY BoundsOfOne
<1>2. ASSUME NEW q \in D
      PROVE  bounds[q]["min"] = o.has[c][q].min /\ bounds[q]["max"] = o.has[c][q].max
  <2>1. Having(q) = {c}
    OBVIOUS
  <2>2. bounds[q] = [min |-> Greatest({o.has[m][q].min : m \in Having(q)}),
                     max |-> Greatest({o.has[m][q].max : m \in Having(q)})]
    BY <1>1 DEF SharedBounds
  <2>3. {o.has[m][q].min : m \in Having(q)} = {o.has[c][q].min}
        /\ {o.has[m][q].max : m \in Having(q)} = {o.has[c][q].max}
    BY <2>1
  <2>4. o.has[c][q].min \in Nat /\ o.has[c][q].max \in Nat
    BY DEF IsRestricted
  <2>5. bounds[q] = [min |-> Greatest({o.has[c][q].min}), max |-> Greatest({o.has[c][q].max})]
    BY <2>2, <2>3, Zenon
  <2>6. bounds[q] = [min |-> o.has[c][q].min, max |-> o.has[c][q].max]
    BY <2>4, <2>5, GreatestOfOne
  <2> QED
    BY <2>6
<1>3. \A q \in D : SizesOf(o, c, side)[q] \in Nat
  BY DEF SizesOf, IsRestricted
<1> HIDE DEF bounds
<1>4. \A q \in D : bounds[q][side] = SizesOf(o, c, side)[q]
  <2> TAKE q \in D
  <2>1. bounds[q]["min"] = o.has[c][q].min /\ bounds[q]["max"] = o.has[c][q].max
    BY <1>2
  <2>2. SizesOf(o, c, side)[q] = IF side = "min" THEN o.has[c][q].min ELSE o.has[c][q].max
    BY DEF SizesOf
  <2>3. side = "min" \/ side = "max"
    OBVIOUS
  <2>4. CASE side = "min"
    BY <2>1, <2>2, <2>4
  <2>5. CASE side = "max"
    <3>1. side # "min"
      BY <2>5
    <3> QED
      BY <2>1, <2>2, <2>5, <3>1
  <2> QED
    BY <2>3, <2>4, <2>5
<1>5. sizes = SizesOf(o, c, side)
  BY <1>1, <1>4 DEF SizesOf
<1>6. SupportVector(o, {c}, filter, side) = Dimensions(o, {c}, filter, SizesOf(o, c, side))
  BY <1>5 DEF SupportVector, bounds
<1>7. DOMAIN SizesOf(o, c, side) = D
  BY DEF SizesOf
<1> DEFINE L == IF filter = {} THEN D ELSE filter
           v == Dimensions(o, {c}, filter, SizesOf(o, c, side))
<1>8. v = [l \in L |-> SumOver(SizesOf(o, c, side), Derived(o, D, l))]
  BY <1>7 DEF Dimensions, Derived
<1>9. \A l : SumOver(SizesOf(o, c, side), Derived(o, D, l)) = SumFunctionOnSet(SizesOf(o, c, side), Derived(o, D, l))
  BY DEF SumOver, SumFunctionOnSet
<1> HIDE DEF v, L
<1>10. DOMAIN v = L /\ \A l \in L : v[l] = SumFunctionOnSet(SizesOf(o, c, side), Derived(o, D, l))
  BY <1>8, <1>9
<1> QED
  BY <1>3, <1>6, <1>10 DEF v, L, IsSummed

LEMMA RestrictionsOfOne ==
  ASSUME NEW o, NEW p, NEW m, IsRestricted(o, m), DOMAIN o.has[m] # {}, p[m] \in Nat
  PROVE  AreOwn(o, p, m, OwnIn(o, p, m))
<1> DEFINE D == DOMAIN o.has[m]
           r == OwnIn(o, p, m)
           K == D \X {"min", "max"}
<1>1. Own(o, p, m) = o.has[m]
  BY DEF Own
<1>2. r = [k \in K |-> p[m] * o.has[m][k[1]][k[2]]]
  BY <1>1 DEF OwnRestrictions, OwnIn
<1>3. \A q \in D : q \in Nat /\ o.has[m][q].min \in Nat /\ o.has[m][q].max \in Nat
  BY DEF IsRestricted
<1>4. ASSUME NEW q \in D
      PROVE  /\ r[<<q, "min">>] = p[m] * o.has[m][q].min
             /\ r[<<q, "max">>] = p[m] * o.has[m][q].max
  <2>1. <<q, "min">> \in K /\ <<q, "max">> \in K
    OBVIOUS
  <2>2. r[<<q, "min">>] = p[m] * o.has[m][q]["min"]
    BY <1>2, <2>1
  <2>3. r[<<q, "max">>] = p[m] * o.has[m][q]["max"]
    BY <1>2, <2>1
  <2> QED
    BY <2>2, <2>3
<1>5. DOMAIN r = K /\ r = [k \in K |-> r[k]]
  BY <1>2
<1> HIDE DEF r
<1>6. \A k \in K : r[k] \in Nat
  <2> TAKE k \in K
  <2>1. PICK q \in D : k = <<q, "min">> \/ k = <<q, "max">>
    OBVIOUS
  <2>2. p[m] * o.has[m][q].min \in Nat /\ p[m] * o.has[m][q].max \in Nat
    BY <1>3
  <2> QED
    BY <1>4, <2>1, <2>2
<1>7. IsFiniteSet(K) /\ K \in SUBSET (Nat \X {"min", "max"})
  <2>1. IsFiniteSet(D) /\ IsFiniteSet({"min", "max"})
    BY SidesAreFinite DEF IsRestricted
  <2>2. IsFiniteSet(K)
    BY <2>1, FS_Product
  <2> QED
    BY <1>3, <2>2
<1>8. r \in [K -> Nat]
  BY <1>5, <1>6
<1>9. Joined(r)
  BY <1>5, <1>7, <1>8 DEF Joined, AllRestrictions
<1> QED
  BY <1>4, <1>5, <1>9 DEF r, AreOwn

(* getRequiredCardinalities of a functionality: what it is restricted to   *)
(* have at least.                                                          *)
LEMMA RequiredAreNeeds ==
  ASSUME NEW o, NEW f, IsRestricted(o, f), DOMAIN o.has[f] # {},
         Below(o, f, o.functionality), ~Below(o, f, o.agent)
  PROVE  LET asked == RequiredCardinalities(o, PoolOf(f, 1))
             D == DOMAIN o.has[f]
         IN  /\ DOMAIN asked = Keyed(D, "min")
             /\ \A q \in D : asked[<<q, "min">>] = SizesOf(o, f, "min")[q]
<1> DEFINE D == DOMAIN o.has[f]
           own == AllowSubclasses(o, PoolOf(f, 1), o.functionality)
           none == AllowSubclasses(o, PoolOf(f, 1), o.agent)
           F == [m \in DOMAIN own |-> OwnIn(o, own, m)]
           G == [m \in DOMAIN none |-> OwnRestrictions(o, none, m, TRUE)]
           r == OwnIn(o, own, f)
           asked == RequiredCardinalities(o, PoolOf(f, 1))
<1>1. DOMAIN own = {f} /\ own[f] = 1 /\ DOMAIN none = {}
  BY DEF AllowSubclasses, PoolOf
<1>2. Restrictions(o, own, "min", FALSE) = FoldFunction(JoinMin, NoRestrictions, F)
  BY DEF Restrictions, NoRestrictions, OwnIn
<1>3. Restrictions(o, none, "sum", TRUE) = FoldFunction(JoinSum, NoRestrictions, G)
  BY DEF Restrictions, NoRestrictions
<1>4. asked = Except(JoinMin(Restrictions(o, own, "min", FALSE), Restrictions(o, none, "sum", TRUE)), "max")
  BY DEF RequiredCardinalities
<1>5. DOMAIN F = {f} /\ F[f] = r /\ DOMAIN G = {}
  BY <1>1
<1> HIDE DEF own, none, asked
<1>6. /\ DOMAIN r = D \X {"min", "max"} /\ Joined(r)
      /\ \A q \in D : r[<<q, "min">>] = own[f] * o.has[f][q].min
  <2>1. own[f] \in Nat
    BY <1>1
  <2>2. AreOwn(o, own, f, OwnIn(o, own, f))
    BY <2>1, RestrictionsOfOne
  <2> QED
    BY <2>2 DEF AreOwn
<1> HIDE DEF F, G, r
<1>7. r \in [DOMAIN r -> Nat]
  BY <1>6 DEF Joined, AllRestrictions
<1>8. Restrictions(o, own, "min", FALSE) = r
  BY <1>2, <1>5, <1>7, MinOfOne
<1> DEFINE g == FoldFunction(JoinSum, NoRestrictions, G)
<1>9. DOMAIN g = {}
  <2>1. /\ IsFiniteSet({}) /\ \A m \in {} : Joined(G[m])
    BY FS_EmptySet
  <2>2. DOMAIN g = UNION {DOMAIN G[m] : m \in {}}
    BY <1>5, <2>1, JoinIsSum
  <2> QED
    BY <2>2
<1> HIDE DEF g
<1>10. JoinMin(r, g) = r
  <2>1. JoinMin(r, g) = [k \in DOMAIN r |-> r[k]]
    BY <1>9 DEF JoinMin, Combined
  <2> QED
    BY <1>7, <2>1
<1>11. asked = Except(r, "max")
  BY <1>3, <1>4, <1>8, <1>10 DEF g
<1>12. asked = [k \in {j \in DOMAIN r : j[2] # "max"} |-> r[k]]
  BY <1>11 DEF Except
<1>13. {j \in DOMAIN r : j[2] # "max"} = Keyed(D, "min")
  BY <1>6 DEF Keyed
<1>14. DOMAIN asked = Keyed(D, "min") /\ \A k \in Keyed(D, "min") : asked[k] = r[k]
  BY <1>12, <1>13
<1>15. ASSUME NEW q \in D PROVE asked[<<q, "min">>] = SizesOf(o, f, "min")[q]
  <2>1. <<q, "min">> \in Keyed(D, "min")
    BY DEF Keyed
  <2>2. o.has[f][q].min \in Nat
    BY DEF IsRestricted
  <2>3. r[<<q, "min">>] = o.has[f][q].min
    BY <1>1, <1>6, <2>2
  <2> QED
    BY <1>14, <2>1, <2>3 DEF SizesOf
<1> QED
  BY <1>14, <1>15 DEF asked

(* So they add up to the vector of what is needed.                         *)
LEMMA RequiredIsNeeded ==
  ASSUME NEW o, IsOntology(o), NEW f \in o.functionalities, DOMAIN o.has[f] # {},
         Below(o, f, o.functionality), ~Below(o, f, o.agent)
  PROVE  LET asked == RequiredCardinalities(o, PoolOf(f, 1))
         IN  /\ DOMAIN asked = Keyed(DOMAIN Needed(o, f), "min")
             /\ \A l \in DOMAIN Needed(o, f) : InAll(asked, o, l) = Needed(o, f)[l]
             /\ DOMAIN Needed(o, f) = DOMAIN o.has[f]
<1> DEFINE D == DOMAIN o.has[f]
           asked == RequiredCardinalities(o, PoolOf(f, 1))
           sizes == SizesOf(o, f, "min")
<1>1. f \in Nat /\ IsRestricted(o, f) /\ IsFiniteSet(D)
  BY DEF IsOntology, IsRestricted
<1>2. DOMAIN asked = Keyed(D, "min") /\ \A q \in D : asked[<<q, "min">>] = sizes[q]
  BY <1>1, RequiredAreNeeds
<1>3. /\ DOMAIN Needed(o, f) = D
      /\ \A l \in D : Needed(o, f)[l] = SumFunctionOnSet(sizes, Derived(o, D, l))
      /\ \A q \in D : sizes[q] \in Nat
  <2> DEFINE v == SupportVector(o, {f}, {}, "min")
  <2>1. /\ DOMAIN v = IF {} = {} THEN D ELSE {}
        /\ \A l \in DOMAIN v : v[l] = SumFunctionOnSet(sizes, Derived(o, D, l))
        /\ \A q \in D : sizes[q] \in Nat
    <3>1. IsSummed(o, f, {}, "min", v)
      BY <1>1, SupportOfOne
    <3> QED
      BY <3>1 DEF IsSummed
  <2>2. DOMAIN v = D
    BY <2>1
  <2> HIDE DEF v, D, sizes
  <2> QED
    BY <2>1, <2>2 DEF Needed, v
<1> HIDE DEF asked, sizes
<1>4. ASSUME NEW l \in D PROVE InAll(asked, o, l) = Needed(o, f)[l]
  <2> DEFINE J == KeysOfSide(o, D, "min", l)
  <2>1. InAll(asked, o, l) = SumFunctionOnSet(asked, J)
    BY <1>2 DEF InAll, SumOver, SumFunctionOnSet, KeysOfSide
  <2>2. \A q \in D : sizes[q] \in Nat /\ asked[<<q, "min">>] = sizes[q]
    BY <1>2, <1>3
  <2>3. SumFunctionOnSet(asked, J) = SumFunctionOnSet(sizes, Derived(o, D, l))
    <3> HIDE DEF D
    <3> QED
      BY <1>1, <2>2, AllOfSide
  <2> QED
    BY <1>3, <2>1, <2>3
<1> QED
  BY <1>2, <1>3, <1>4 DEF asked

(* One without resources brings nothing along; of others, each class gets  *)
(* the sum of the upper bounds of those that count for it.                 *)
LEMMA GivenByResources ==
  ASSUME NEW o, IsOntology(o), NEW f \in o.functionalities, DOMAIN Needed(o, f) = DOMAIN o.has[f],
         NEW m \in Model, StandsAside(o, f, m)
  PROVE  IF DOMAIN o.has[m] = {} THEN DOMAIN Given(o, f, m) = {}
         ELSE /\ DOMAIN Given(o, f, m) = DOMAIN Needed(o, f)
              /\ \A l \in DOMAIN Needed(o, f) :
                    Given(o, f, m)[l] = SumFunctionOnSet(SizesOf(o, m, "max"), Derived(o, DOMAIN o.has[m], l))
              /\ \A q \in DOMAIN o.has[m] : SizesOf(o, m, "max")[q] \in Nat
<1> DEFINE L == DOMAIN Needed(o, f)
           v == SupportVector(o, {m}, L, "max")
<1>1. m \in Nat /\ IsRestricted(o, m)
  BY ModelAssumption DEF IsOntology
<1>2. L # {}
  BY NeedsAndGainsAreVectors DEF NeedIsVector
<1>3. Given(o, f, m) = v
  BY DEF Given
<1> HIDE DEF L
<1>4. CASE DOMAIN o.has[m] = {}
  <2> DEFINE bounds == SharedBounds(o, {m})
             sizes == [q \in DOMAIN bounds |-> bounds[q]["max"]]
  <2>1. DOMAIN sizes = {}
    BY <1>1, <1>4, BoundsOfOne
  <2>2. v = Dimensions(o, {m}, L, sizes)
    BY DEF SupportVector
  <2> HIDE DEF sizes
  <2>3. {m} \cap L = {}
    BY <1>4 DEF StandsAside, L
  <2>4. v = [n \in {} |-> 1]
    BY <1>2, <2>1, <2>2, <2>3 DEF Dimensions
  <2> HIDE DEF v
  <2>5. DOMAIN v = {}
    BY <2>4
  <2> QED
    BY <1>3, <1>4, <2>5
<1>5. CASE DOMAIN o.has[m] # {}
  <2>1. /\ DOMAIN v = IF L = {} THEN DOMAIN o.has[m] ELSE L
        /\ \A l \in DOMAIN v : v[l] = SumFunctionOnSet(SizesOf(o, m, "max"), Derived(o, DOMAIN o.has[m], l))
        /\ \A q \in DOMAIN o.has[m] : SizesOf(o, m, "max")[q] \in Nat
    <3>1. IsSummed(o, m, L, "max", v)
      BY <1>1, <1>5, SupportOfOne
    <3> QED
      BY <3>1 DEF IsSummed
  <2> HIDE DEF v
  <2> QED
    BY <1>2, <1>3, <1>5, <2>1 DEF L
<1> QED
  BY <1>4, <1>5

(* So all models fit, and what they offer is the sum of these amounts.     *)
LEMMA OffersAreAmounts ==
  ASSUME NEW o, IsOntology(o), NEW f \in o.functionalities, DOMAIN Needed(o, f) = DOMAIN o.has[f],
         NEW p, IsPool(p), IsFiniteSet(DOMAIN p), \A m \in DOMAIN p : StandsAside(o, f, m)
  PROVE  /\ Fitting(o, f, p)
         /\ \A l \in DOMAIN Needed(o, f) :
               /\ \A m \in DOMAIN p : Amounts(o, f, p, l)[m] \in Nat
               /\ SumOffered(o, f, p)[l] = SumFunctionOnSet(Amounts(o, f, p, l), DOMAIN p)
<1> DEFINE M == DOMAIN p
           A == Adding(o, f, p)
           L == DOMAIN Needed(o, f)
<1>1. \A m \in M : m \in Model /\ p[m] \in Nat
  BY DEF IsPool
<1>2. ASSUME NEW m \in M
      PROVE  /\ IF DOMAIN o.has[m] = {} THEN DOMAIN Given(o, f, m) = {}
                ELSE DOMAIN Given(o, f, m) = L /\ \A l \in L : Given(o, f, m)[l] \in Nat
             /\ OfferedFor(o, f, p)[m] = [l \in DOMAIN Given(o, f, m) |-> Given(o, f, m)[l] * p[m]]
             /\ m \in A <=> p[m] > 0 /\ ~NullVector(Given(o, f, m))
  <2>1. IF DOMAIN o.has[m] = {} THEN DOMAIN Given(o, f, m) = {} ELSE DOMAIN Given(o, f, m) = L
    BY <1>1, GivenByResources
  <2>2. IsVector(Given(o, f, m))
    BY <1>1, NeedsAndGainsAreVectors DEF GainIsVector
  <2>3. /\ OfferedFor(o, f, p)[m] = [l \in DOMAIN Given(o, f, m) |-> Given(o, f, m)[l] * p[m]]
        /\ m \in A <=> p[m] > 0 /\ ~NullVector(Given(o, f, m))
    BY OffersAreTimes
  <2> QED
    BY <2>1, <2>2, <2>3 DEF IsVector
<1>3. A \subseteq M /\ IsFiniteSet(A)
  BY FS_Subset DEF Adding
<1> HIDE DEF A
<1>4. \A m \in A : DOMAIN o.has[m] # {}
  BY <1>2, <1>3 DEF NullVector
<1>5. Fitting(o, f, p)
  <2>1. \A m \in A : DOMAIN OfferedFor(o, f, p)[m] = L
    <3> TAKE m \in A
    <3>1. m \in M /\ DOMAIN o.has[m] # {}
      BY <1>3, <1>4
    <3> DEFINE g == Given(o, f, m)
    <3>2. DOMAIN g = L /\ OfferedFor(o, f, p)[m] = [l \in DOMAIN g |-> g[l] * p[m]]
      BY <1>2, <3>1
    <3> HIDE DEF g
    <3> QED
      BY <3>2
  <2> QED
    BY <2>1 DEF Fitting, A
<1>6. ASSUME NEW l \in L
      PROVE  /\ \A m \in M : Amounts(o, f, p, l)[m] \in Nat
             /\ SumOffered(o, f, p)[l] = SumFunctionOnSet(Amounts(o, f, p, l), M)
  <2> DEFINE amounts == Amounts(o, f, p, l)
             offers == [m \in A |-> OfferedFor(o, f, p)[m][l]]
  <2>1. ASSUME NEW m \in M
        PROVE  amounts[m] = Amount(o, f, p, m, l) /\ amounts[m] \in Nat
    <3>1. amounts[m] = IF DOMAIN o.has[m] = {} THEN 0 ELSE p[m] * Given(o, f, m)[l]
      BY DEF Amounts, Amount
    <3>2. CASE DOMAIN o.has[m] = {}
      BY <3>1, <3>2 DEF Amount
    <3>3. CASE DOMAIN o.has[m] # {}
      <4>1. p[m] \in Nat /\ Given(o, f, m)[l] \in Nat
        BY <1>1, <1>2, <3>3
      <4>2. p[m] * Given(o, f, m)[l] \in Nat
        BY <4>1
      <4> QED
        BY <3>1, <3>3, <4>2 DEF Amount
    <3> QED
      BY <3>2, <3>3
  <2>2. \A m \in M \ A : amounts[m] = 0
    <3> TAKE m \in M \ A
    <3>1. CASE DOMAIN o.has[m] = {}
      BY <2>1, <3>1 DEF Amount
    <3>2. CASE DOMAIN o.has[m] # {}
      <4>1. p[m] \in Nat /\ Given(o, f, m)[l] \in Nat /\ l \in DOMAIN Given(o, f, m)
        BY <1>1, <1>2, <3>2
      <4>2. p[m] = 0 \/ Given(o, f, m)[l] = 0
        <5>1. CASE NullVector(Given(o, f, m))
          BY <4>1, <5>1 DEF NullVector
        <5>2. CASE ~NullVector(Given(o, f, m))
          <6>1. ~(p[m] > 0)
            BY <1>2, <5>2
          <6> QED
            BY <4>1, <6>1
        <5> QED
          BY <5>1, <5>2
      <4>3. p[m] * Given(o, f, m)[l] = 0
        BY <4>1, <4>2
      <4> QED
        BY <2>1, <3>2, <4>3 DEF Amount
    <3> QED
      BY <3>1, <3>2
  <2>3. \A m \in A : offers[m] = amounts[m]
    <3> TAKE m \in A
    <3>1. m \in M /\ DOMAIN o.has[m] # {}
      BY <1>3, <1>4
    <3> DEFINE g == Given(o, f, m)
    <3>2. DOMAIN g = L /\ OfferedFor(o, f, p)[m] = [k \in DOMAIN g |-> g[k] * p[m]] /\ g[l] \in Nat
      BY <1>2, <3>1
    <3>3. amounts[m] = p[m] * g[l]
      BY <2>1, <3>1 DEF Amount
    <3> HIDE DEF g, amounts
    <3>4. offers[m] = g[l] * p[m]
      BY <3>2
    <3>5. p[m] \in Nat
      BY <1>1, <3>1
    <3> QED
      BY <3>2, <3>3, <3>4, <3>5
  <2>4. SumOffered(o, f, p)[l] = SumFunctionOnSet(offers, A)
    BY DEF SumOffered, SumOver, SumFunctionOnSet, A
  <2> HIDE DEF offers, amounts
  <2>5. \A m \in A : offers[m] \in Int /\ offers[m] = amounts[m]
    BY <1>3, <2>1, <2>3
  <2>6. SumFunctionOnSet(offers, A) = SumFunctionOnSet(amounts, A)
    BY <1>3, <2>5, SumIsDetermined
  <2>7. \A m \in M : amounts[m] \in Int
    BY <2>1
  <2>8. SumFunctionOnSet(amounts, M) = SumFunctionOnSet(amounts, A)
    <3> HIDE DEF M
    <3> QED
      BY <1>3, <2>2, <2>7, SumWithoutZeros DEF M
  <2> QED
    BY <2>1, <2>4, <2>6, <2>8 DEF amounts
<1> QED
  BY <1>5, <1>6

(* Those of one model add up to what it brings along.                      *)
LEMMA EntriesOfOne ==
  ASSUME NEW o, IsOntology(o), NEW f \in o.functionalities, DOMAIN Needed(o, f) = DOMAIN o.has[f],
         NEW p, IsPool(p), NEW m \in DOMAIN p, StandsAside(o, f, m), NEW l \in DOMAIN Needed(o, f),
         NEW K, IsFiniteSet(K), NEW r, r = OwnIn(o, p, m), DOMAIN r \subseteq K,
         NEW e, AreEntries(e, r, KeysFor(o, K, l))
  PROVE  /\ Joined(r) /\ \A j : At(r, j) \in Nat
         /\ SumFunctionOnSet(e, KeysFor(o, K, l)) = Amount(o, f, p, m, l)
<1> DEFINE J == KeysFor(o, K, l)
           D == DOMAIN o.has[m]
<1>1. m \in Model /\ m \in Nat /\ p[m] \in Nat /\ IsRestricted(o, m)
  BY ModelAssumption DEF IsPool, IsOntology
<1>2. IsFiniteSet(J) /\ J \subseteq K
  BY FS_Subset DEF KeysFor
<1>3. CASE D = {}
  <2>1. DOMAIN r = {m} \X {"min", "max"} /\ Joined(r)
    BY <1>1, <1>3, RestrictionsOfNone
  <2>2. \A j : At(r, j) \in Nat
    BY <2>1, JoinAddsUp
  <2>3. \A j \in J : j \notin DOMAIN r
    <3> TAKE j \in J
    <3>1. j[1] = l \/ Below(o, j[1], l)
      BY DEF KeysFor
    <3>2. m # l /\ ~Below(o, m, l)
      BY <1>3 DEF StandsAside
    <3> QED
      BY <2>1, <3>1, <3>2
  <2> HIDE DEF J
  <2>4. \A j \in J : e[j] = 0
    BY <2>3 DEF At, J, AreEntries
  <2>5. SumFunctionOnSet(e, J) = SumFunctionOnSet(e, {})
    BY <1>2, <2>4, SumWithoutZeros
  <2>6. SumFunctionOnSet(e, J) = 0
    BY <2>5, SumOfNothing
  <2> QED
    BY <1>3, <2>1, <2>2, <2>6 DEF Amount, J
<1>4. CASE D # {}
  <2> DEFINE I == KeysOfSide(o, D, "max", l)
             sizes == SizesOf(o, m, "max")
             times == [q \in D |-> p[m] * sizes[q]]
  <2>1. AreOwn(o, p, m, r)
    BY <1>1, <1>4, RestrictionsOfOne
  <2>2. DOMAIN r = D \X {"min", "max"} /\ Joined(r)
    BY <2>1 DEF AreOwn
  <2>3. \A j : At(r, j) \in Nat
    BY <2>2, JoinAddsUp
  <2>4. /\ Given(o, f, m)[l] = SumFunctionOnSet(sizes, Derived(o, D, l))
        /\ \A q \in D : sizes[q] \in Nat
    BY <1>1, <1>4, GivenByResources
  <2>5. \A q \in D : sizes[q] = o.has[m][q].max
    BY DEF SizesOf
  <2>6. ASSUME NEW q \in D PROVE times[q] \in Nat /\ r[<<q, "max">>] = times[q]
    <3>1. r[<<q, "max">>] = p[m] * o.has[m][q].max
      BY <2>1 DEF AreOwn
    <3>2. p[m] * sizes[q] \in Nat
      BY <1>1, <2>4
    <3> HIDE DEF sizes
    <3> QED
      BY <2>5, <3>1, <3>2
  <2>7. I = J \cap DOMAIN r
    <3>1. \A j \in J : j \in DOMAIN r => j \in I
      BY <2>2 DEF KeysFor, Keyed, KeysOfSide
    <3>2. \A j \in I : j \in DOMAIN r /\ j \in J
      <4> TAKE j \in I
      <4>1. j \in Keyed(D, "max") /\ (j[1] = l \/ Below(o, j[1], l))
        BY DEF KeysOfSide
      <4>2. j \in D \X {"max"}
        BY <4>1 DEF Keyed
      <4>3. j \in DOMAIN r /\ j[2] = "max"
        BY <2>2, <4>2
      <4> QED
        BY <4>1, <4>3 DEF KeysFor
    <3> HIDE DEF I, J
    <3> QED
      BY <3>1, <3>2 DEF I
  <2>8. IsFiniteSet(D)
    BY <1>1 DEF IsRestricted
  <2> HIDE DEF sizes, times, D
  <2>9. SumFunctionOnSet(r, I) = SumFunctionOnSet(times, Derived(o, D, l)) /\ IsFiniteSet(I)
    <3>1. \A q \in D : times[q] \in Nat /\ r[<<q, "max">>] = times[q]
      BY <2>6
    <3> QED
      BY <2>8, <3>1, AllOfSide DEF I
  <2>10. SumFunctionOnSet(times, Derived(o, D, l)) = p[m] * SumFunctionOnSet(sizes, Derived(o, D, l))
    <3>1. IsFiniteSet(Derived(o, D, l)) /\ p[m] \in Int
      BY <1>1, <2>8, FS_Subset DEF Derived
    <3>2. \A q \in Derived(o, D, l) : sizes[q] \in Int /\ times[q] = p[m] * sizes[q]
      BY <2>4 DEF Derived, times
    <3> QED
      BY <3>1, <3>2, SumOfMultiples
  <2> HIDE DEF I, J
  <2>11. \A j \in J : e[j] = At(r, j) /\ e[j] \in Int
    <3>1. \A j \in J : e[j] = At(r, j)
      BY DEF J, AreEntries
    <3> TAKE j \in J
    <3>2. At(r, j) \in Nat
      BY <2>3
    <3> QED
      BY <3>1, <3>2
  <2>12. \A j \in J \ I : e[j] = 0
    BY <2>7, <2>11 DEF At
  <2>13. SumFunctionOnSet(e, J) = SumFunctionOnSet(e, I)
    <3>1. I \in SUBSET J
      BY <2>7
    <3> QED
      BY <1>2, <2>11, <2>12, <3>1, SumWithoutZeros
  <2>14. SumFunctionOnSet(e, I) = SumFunctionOnSet(r, I)
    <3>1. \A j \in I : e[j] \in Int /\ e[j] = r[j]
      BY <2>7, <2>11 DEF At
    <3> QED
      BY <2>9, <3>1, SumIsDetermined
  <2>15. Amount(o, f, p, m, l) = p[m] * Given(o, f, m)[l]
    BY <1>4 DEF Amount, D
  <2> QED
    BY <2>2, <2>3, <2>4, <2>9, <2>10, <2>13, <2>14, <2>15 DEF J
<1> QED
  BY <1>3, <1>4

(* getAvailableCardinalities: of a class and those derived from it there is*)
(* as much as the models of the pool offer.                                *)
LEMMA AvailableIsOffered ==
  ASSUME NEW o, IsOntology(o), NEW f \in o.functionalities, DOMAIN Needed(o, f) = DOMAIN o.has[f],
         NEW p, IsPool(p), IsFiniteSet(DOMAIN p),
         \A m \in DOMAIN p : StandsAside(o, f, m) /\ Below(o, m, o.actor)
  PROVE  \A l \in DOMAIN Needed(o, f) : InAll(AvailableCardinalities(o, p), o, l) = SumOffered(o, f, p)[l]
<1> DEFINE M == DOMAIN p
           F == [m \in M |-> OwnIn(o, p, m)]
           r == FoldFunction(JoinSum, NoRestrictions, F)
           there == AvailableCardinalities(o, p)
           K == DOMAIN r
<1>1. AllowSubclasses(o, p, o.actor) = p
  <2>1. AllowSubclasses(o, p, o.actor) = [m \in M |-> p[m]]
    BY DEF AllowSubclasses
  <2> QED
    BY <2>1 DEF IsPool
<1>2. there = Except(r, "min")
  <2>1. Restrictions(o, p, "sum", FALSE) = r
    BY DEF Restrictions, NoRestrictions, OwnIn
  <2> HIDE DEF r
  <2> QED
    BY <1>1, <2>1 DEF AvailableCardinalities
<1>3. ASSUME NEW m \in M PROVE Joined(F[m])
  <2>1. m \in Model /\ m \in Nat /\ p[m] \in Nat /\ IsRestricted(o, m)
    BY ModelAssumption DEF IsPool, IsOntology
  <2> DEFINE own == OwnIn(o, p, m)
  <2>2. CASE DOMAIN o.has[m] = {}
    BY <2>1, <2>2, RestrictionsOfNone
  <2>3. CASE DOMAIN o.has[m] # {}
    <3>1. AreOwn(o, p, m, own)
      BY <2>1, <2>3, RestrictionsOfOne
    <3> QED
      BY <3>1 DEF AreOwn
  <2> QED
    BY <2>2, <2>3
<1>4. DOMAIN F = M /\ \A m \in M : F[m] = OwnIn(o, p, m)
  OBVIOUS
<1> HIDE DEF F, r, there
<1>5. /\ Joined(r) /\ K = UNION {DOMAIN F[m] : m \in M}
      /\ \A k : At(r, k) = SumFunctionOnSet(Entry(F, k, M), M)
      /\ \A k : \A m \in M : Entry(F, k, M)[m] \in Nat
  BY <1>3, <1>4, JoinIsSum DEF r
<1>6. IsFiniteSet(K) /\ \A m \in M : DOMAIN F[m] \subseteq K
  BY <1>5 DEF Joined
<1>6a. there = [k \in {j \in K : j[2] = "max"} |-> r[k]]
  <2>1. \A j \in K : j[2] \in {"min", "max"}
    BY <1>5 DEF Joined, AllRestrictions
  <2>2. {j \in K : j[2] # "min"} = {j \in K : j[2] = "max"}
    BY <2>1
  <2> QED
    BY <1>2, <2>2 DEF Except, K
<1> HIDE DEF K
<1> SUFFICES ASSUME NEW l \in DOMAIN Needed(o, f) PROVE InAll(there, o, l) = SumOffered(o, f, p)[l]
  BY DEF there
<1> DEFINE J == KeysFor(o, K, l)
           table == [m \in M |-> [j \in J |-> At(F[m], j)]]
           amounts == Amounts(o, f, p, l)
           columns == ColumnSums(table, M, M, J)
<1>7. IsFiniteSet(J) /\ J \subseteq K
  BY <1>6, FS_Subset DEF KeysFor
<1>8. InAll(there, o, l) = SumFunctionOnSet(there, J)
  <2>1. {j \in DOMAIN there : j[1] = l \/ Below(o, j[1], l)} = J
    BY <1>6a DEF KeysFor
  <2> HIDE DEF J
  <2> QED
    BY <2>1 DEF InAll, SumOver, SumFunctionOnSet
<1>9. \A j \in J : there[j] = r[j]
  BY <1>6a DEF KeysFor
<1>10. ASSUME NEW m \in M
       PROVE  /\ SumFunctionOnSet(table[m], J) = amounts[m]
              /\ \A j \in J : table[m][j] = At(F[m], j) /\ table[m][j] \in Int
  <2> DEFINE e == table[m]
  <2>1. \A j \in J : e[j] = At(F[m], j)
    OBVIOUS
  <2> HIDE DEF e
  <2>2. /\ \A j : At(F[m], j) \in Nat
        /\ SumFunctionOnSet(e, KeysFor(o, K, l)) = Amount(o, f, p, m, l)
    <3> DEFINE own == F[m]
    <3>1. own = OwnIn(o, p, m) /\ DOMAIN own \subseteq K /\ AreEntries(e, own, KeysFor(o, K, l))
      BY <1>4, <1>6, <2>1 DEF AreEntries, J
    <3>2. StandsAside(o, f, m)
      OBVIOUS
    <3> HIDE DEF own, M
    <3>3. m \in DOMAIN p
      BY DEF M
    <3>4. /\ \A j : At(own, j) \in Nat
          /\ SumFunctionOnSet(e, KeysFor(o, K, l)) = Amount(o, f, p, m, l)
      BY <1>6, <3>1, <3>2, <3>3, EntriesOfOne
    <3> QED
      BY <3>4 DEF own
  <2>3. amounts[m] = Amount(o, f, p, m, l)
    BY DEF Amounts
  <2> HIDE DEF table
  <2> QED
    BY <2>1, <2>2, <2>3 DEF e
<1> HIDE DEF J, table, amounts, columns
<1>11. SumFunctionOnSet(amounts, M) = SumFunctionOnSet(columns, J)
  <2>1. \A m \in M : \A j \in J : table[m][j] \in Int
    BY <1>10
  <2>2. \A m \in M : amounts[m] = SumFunctionOnSet(table[m], J)
    BY <1>10
  <2> HIDE DEF M
  <2>3. IsFiniteSet(M)
    BY DEF M
  <2> QED
    BY <1>7, <2>1, <2>2, <2>3, RowsAndColumns DEF columns
<1>12. ASSUME NEW j \in J PROVE there[j] \in Int /\ there[j] = columns[j]
  <2>1. columns[j] = SumFunctionOnSet(ColumnAt(table, M, j), M)
    BY DEF columns, ColumnSums
  <2>2. \A m \in M : Entry(F, j, M)[m] \in Int /\ Entry(F, j, M)[m] = ColumnAt(table, M, j)[m]
    BY <1>5, <1>10 DEF Entry, ColumnAt
  <2>3. SumFunctionOnSet(Entry(F, j, M), M) = SumFunctionOnSet(ColumnAt(table, M, j), M)
    BY <2>2, SumIsDetermined
  <2>4. SumFunctionOnSet(Entry(F, j, M), M) \in Int
    BY <2>2, SumIsInt
  <2>5. there[j] = At(r, j)
    BY <1>7, <1>9 DEF At, K
  <2> QED
    BY <1>5, <2>1, <2>3, <2>4, <2>5
<1>13. SumFunctionOnSet(there, J) = SumFunctionOnSet(columns, J)
  BY <1>7, <1>12, SumIsDetermined
<1>14. SumOffered(o, f, p)[l] = SumFunctionOnSet(amounts, M)
  BY OffersAreAmounts DEF amounts
<1> QED
  BY <1>8, <1>11, <1>13, <1>14

(* Two ways to count the resources of a pool: if it has as many of each    *)
(* class as its restrictions ask for, it has full support; the other way   *)
(* round, if none of what is needed is derived from another.               *)
THEOREM CardinalitiesSupport ==
  ASSUME NEW o, IsOntology(o), NEW f \in o.functionalities, DOMAIN o.has[f] # {},
         Below(o, f, o.functionality), ~Below(o, f, o.agent),
         NEW p, IsPool(p), IsFiniteSet(DOMAIN p),
         \A m \in DOMAIN p : StandsAside(o, f, m) /\ Below(o, m, o.actor)
  PROVE  /\ Suffices(o, f, p) => FullSupport(o, {f}, p)
         /\ FullSupport(o, {f}, p) /\ (\A b, c \in DOMAIN o.has[f] : ~Below(o, b, c)) => Suffices(o, f, p)
<1> DEFINE L == DOMAIN Needed(o, f)
           needed == Needed(o, f)
           offered == SumOffered(o, f, p)
           asked == RequiredCardinalities(o, PoolOf(f, 1))
           there == AvailableCardinalities(o, p)
<1>1. /\ DOMAIN asked = Keyed(L, "min") /\ \A l \in L : InAll(asked, o, l) = needed[l]
      /\ L = DOMAIN o.has[f]
  BY RequiredIsNeeded
<1>2. \A l \in L : InAll(there, o, l) = offered[l]
  BY <1>1, AvailableIsOffered
<1>3. Fitting(o, f, p) /\ IsVector(offered) /\ DOMAIN offered = L
  <2>1. Fitting(o, f, p)
    BY <1>1, OffersAreAmounts
  <2>2. \A l \in L : offered[l] \in Nat
    <3> TAKE l \in L
    <3> DEFINE amounts == Amounts(o, f, p, l)
    <3>1. (\A m \in DOMAIN p : amounts[m] \in Nat) /\ offered[l] = SumFunctionOnSet(amounts, DOMAIN p)
      BY <1>1, OffersAreAmounts
    <3> HIDE DEF amounts, offered
    <3> QED
      BY <3>1, SumIsNat
  <2>3. DOMAIN offered = L /\ offered = [l \in L |-> offered[l]]
    BY DEF SumOffered
  <2>4. IsFiniteSet(L) /\ L \subseteq Nat
    BY NeedsAndGainsAreVectors DEF NeedIsVector, IsVector
  <2> HIDE DEF offered, L
  <2>5. offered \in [L -> Nat]
    BY <2>2, <2>3
  <2> QED
    BY <2>1, <2>3, <2>4, <2>5 DEF IsVector
<1>4. IsVector(needed) /\ DOMAIN Threshold(o, f) = L /\ Threshold(o, f) = Embedded(o, needed)
  BY NeedsAndGainsAreVectors DEF NeedIsVector, Threshold
<1>5. Suffices(o, f, p) <=> \A l \in L : needed[l] <= offered[l]
  <2>1. Suffices(o, f, p) <=> \A k \in Keyed(L, "min") : InAll(there, o, k[1]) >= InAll(asked, o, k[1])
    BY <1>1 DEF Suffices
  <2> HIDE DEF there, asked, L, needed, offered
  <2>2. \A k \in Keyed(L, "min") : k[1] \in L
    BY DEF Keyed
  <2>3. \A l \in L : <<l, "min">> \in Keyed(L, "min") /\ <<l, "min">>[1] = l
    BY DEF Keyed
  <2>4. \A l \in L : InAll(there, o, l) >= InAll(asked, o, l) <=> needed[l] <= offered[l]
    <3> TAKE l \in L
    <3>1. needed[l] \in Nat /\ offered[l] \in Nat
      BY <1>3, <1>4 DEF IsVector, L, needed
    <3> QED
      BY <1>1, <1>2, <3>1
  <2> QED
    BY <2>1, <2>2, <2>3, <2>4
<1>6. FullSupport(o, {f}, p) <=> \A l \in L : Embedded(o, offered)[l] >= Embedded(o, needed)[l]
  BY <1>3, <1>4, FullIfAddedUp
<1> HIDE DEF L, needed, offered
<1>7. DOMAIN needed = L
  BY DEF L, needed
<1>8. \A l \in L : Embedded(o, offered)[l] \in Nat /\ Embedded(o, needed)[l] \in Nat
  BY <1>3, <1>4, <1>7, EmbeddedIsVector DEF IsVector
<1>9. ASSUME Suffices(o, f, p) PROVE FullSupport(o, {f}, p)
  <2>1. \A l \in L : needed[l] <= offered[l]
    BY <1>5, <1>9
  <2>2. \A l \in L : Embedded(o, needed)[l] <= Embedded(o, offered)[l]
    BY <1>3, <1>4, <1>7, <2>1, EmbeddingIsMonotonic
  <2> QED
    BY <1>6, <1>8, <2>2
<1>10. ASSUME FullSupport(o, {f}, p), \A b, c \in DOMAIN o.has[f] : ~Below(o, b, c)
       PROVE  Suffices(o, f, p)
  <2>1. \A b, c \in L : ~Below(o, b, c)
    BY <1>1, <1>10 DEF L
  <2>2. Embedded(o, needed) = needed /\ Embedded(o, offered) = offered
    BY <1>3, <1>4, <1>7, <2>1, NothingToEmbed
  <2>3. \A l \in L : needed[l] <= offered[l]
    BY <1>6, <1>8, <1>10, <2>2
  <2> QED
    BY <1>5, <2>3
<1> QED
  BY <1>9, <1>10

(* SupportHasCardinalities: support vectors and cardinality restrictions   *)
(* agree on what a pool of agents supports.                                *)
THEOREM SupportCardinalities == Spec => []SupportHasCardinalities
<1>1. SettingsKept => SupportHasCardinalities
  <2> DEFINE o == case.o
             agents == case.ask.pool
  <2> SUFFICES ASSUME SettingsKept, case.kind = "ask", NEW f \in o.functionalities,
                      NEW p \in AllCombinations(agents, 0), DOMAIN o.has[f] # {},
                      \A m \in DOMAIN p : DOMAIN o.has[m] = {} =>
                         ~(\E c \in DOMAIN o.has[f] : m = c \/ Below(o, m, c))
               PROVE  /\ Suffices(o, f, p) => FullSupport(o, {f}, p)
                      /\ FullSupport(o, {f}, p) /\ (\A b, c \in DOMAIN o.has[f] : ~Below(o, b, c))
                           => Suffices(o, f, p)
    BY DEF SupportHasCardinalities
  <2>1. PICK pool \in AskedPools : case.ask = Prepared(o, pool, case.bounded, case.size)
    BY DEF SettingsKept, IsAskedAbout
  <2>2. o \in Ontologies /\ case.bounded \in BOOLEAN
    BY DEF SettingsKept, IsAskedAbout
  <2>3. IsOntology(o) /\ IsPool(pool) /\ IsFiniteSet(DOMAIN pool)
    BY <2>2, AskedOntologies
  <2>4. Below(o, f, o.functionality) /\ ~Below(o, f, o.agent)
    BY <2>2, InputsAreReal DEF InputAssumption
  <2>5. IsPool(agents) /\ IsFiniteSet(DOMAIN agents) /\ DOMAIN agents \subseteq Actors(o)
    <3> DEFINE ask == case.ask
    <3>1. ask = Prepared(o, pool, case.bounded, case.size)
      BY <2>1
    <3> HIDE DEF ask
    <3>2. /\ IsPool(ask.pool) /\ IsFiniteSet(DOMAIN ask.pool) /\ DOMAIN ask.pool \subseteq Actors(o)
      BY <2>2, <2>3, <3>1, AskIsMapped
    <3> QED
      BY <3>2 DEF ask
  <2> HIDE DEF o, agents
  <2>6. IsPart(p, agents) /\ p = Compact(p)
    BY <2>5, CombinationsAreAllParts
  <2>7. IsPool(p) /\ IsFiniteSet(DOMAIN p) /\ \A m : Count(p, m) <= Count(agents, m)
    BY <2>6 DEF IsPart
  <2>8. ASSUME NEW m \in DOMAIN p PROVE Below(o, m, o.actor)
    <3>1. p[m] # 0 /\ p[m] \in Nat
      <4>1. DOMAIN Compact(p) = {n \in DOMAIN p : p[n] # 0}
        BY DEF Compact
      <4> QED
        BY <2>6, <2>7, <4>1 DEF IsPool
    <3>2. Count(p, m) > 0 /\ Count(p, m) <= Count(agents, m)
      BY <2>7, <3>1 DEF Count
    <3>3. m \in DOMAIN agents
      <4>1. ASSUME m \notin DOMAIN agents PROVE FALSE
        <5>1. Count(agents, m) = 0 /\ Count(p, m) = p[m]
          BY <4>1 DEF Count
        <5> QED
          BY <3>1, <3>2, <5>1
      <4> QED
        BY <4>1
    <3> QED
      BY <2>5, <3>3 DEF Actors
  <2>9. \A m \in DOMAIN p : StandsAside(o, f, m) /\ Below(o, m, o.actor)
    BY <2>8 DEF StandsAside
  <2> QED
    BY <2>3, <2>4, <2>7, <2>9, CardinalitiesSupport
<1> QED
  BY <1>1, AsksKeepTheirSettings, PTL

-----------------------------------------------------------------------------
(* The properties of teams: what their members have, added up, by rule or  *)
(* not.                                                                    *)

(* The product of several values, one after the other.                     *)
ProductStep(f, g, s) == IF s = {} THEN 1 ELSE ProductOf(f[Chosen(s)], g[s \ {Chosen(s)}])

Multiplies(f, g, D) == g = [s \in SUBSET D |-> ProductStep(f, g, s)]

(* FoldFunction multiplies them in this way.                               *)
LEMMA ProductUnfolded ==
  ASSUME NEW f, NEW D, D = DOMAIN f
  PROVE  Product(f) = (CHOOSE g : Multiplies(f, g, D))[D]
BY DEF Product, FoldFunction, FoldFunctionOnSet, MapThenFoldSet, Multiplies, ProductStep, Chosen

(* The product of natural numbers is one.                                  *)
LEMMA ProductIsNat ==
  ASSUME NEW f, IsFiniteSet(DOMAIN f), \A i \in DOMAIN f : f[i] \in Nat
  PROVE  Product(f) \in Nat
<1> DEFINE D == DOMAIN f
           next == [q \in Nat \X Nat |-> ProductOf(q[1], q[2])]
           h == CHOOSE g : Multiplies(f, g, D)
<1>1. \A a, b \in Nat : ProductOf(a, b) \in Nat
  BY DEF ProductOf
<1>2. \A a, b \in Nat : next[<<a, b>>] = ProductOf(a, b)
  OBVIOUS
<1>3. PICK g : Folded(next, 1, f, g, SUBSET D)
  BY FoldExists
<1>4. \A s \in SUBSET D : g[s] = FoldStep(next, 1, f, g, s)
  BY <1>3 DEF Folded
<1> HIDE DEF next
<1> DEFINE P == {s \in SUBSET D : g[s] \in Nat}
<1>5. {} \in P
  <2>1. {} \in SUBSET D /\ g[{}] = FoldStep(next, 1, f, g, {})
    BY <1>4
  <2>2. g[{}] = 1
    BY <2>1 DEF FoldStep
  <2> QED
    BY <2>1, <2>2
<1>6. ASSUME NEW s \in SUBSET D, s # {}, s \ {Chosen(s)} \in P
      PROVE  s \in P /\ g[s] = ProductOf(f[Chosen(s)], g[s \ {Chosen(s)}])
  <2>1. Chosen(s) \in D
    BY <1>6, ChosenIsElement
  <2>2. f[Chosen(s)] \in Nat /\ g[s \ {Chosen(s)}] \in Nat
    BY <1>6, <2>1
  <2>3. g[s] = ProductOf(f[Chosen(s)], g[s \ {Chosen(s)}])
    BY <1>2, <1>4, <1>6, <2>2 DEF FoldStep
  <2> QED
    BY <1>1, <2>2, <2>3
<1>7. SUBSET D \subseteq P
  <2> HIDE DEF P
  <2> QED
    BY <1>5, <1>6, ChosenInduction
<1>8. \A s \in SUBSET D : g[s] = ProductStep(f, g, s)
  <2> SUFFICES ASSUME NEW s \in SUBSET D PROVE g[s] = ProductStep(f, g, s)
    OBVIOUS
  <2>1. CASE s = {}
    BY <1>4, <2>1 DEF FoldStep, ProductStep
  <2>2. CASE s # {}
    <3>1. s \ {Chosen(s)} \in P
      BY <1>7
    <3> QED
      BY <1>6, <2>2, <3>1 DEF ProductStep
  <2> QED
    BY <2>1, <2>2
<1>9. Multiplies(f, g, D)
  <2>1. g = [s \in SUBSET D |-> g[s]]
    BY <1>3 DEF Folded
  <2>2. g = [s \in SUBSET D |-> ProductStep(f, g, s)]
    BY <1>8, <2>1
  <2> QED
    BY <2>2 DEF Multiplies
<1>10. Multiplies(f, h, D)
  BY <1>9
<1> HIDE DEF h
<1>11. \A s \in SUBSET D : h[s] = ProductStep(f, h, s)
  BY <1>10 DEF Multiplies
<1> DEFINE Q == {s \in SUBSET D : h[s] \in Nat}
<1>12. {} \in Q
  BY <1>11 DEF ProductStep
<1>13. ASSUME NEW s \in SUBSET D, s # {}, s \ {Chosen(s)} \in Q PROVE s \in Q
  <2>1. Chosen(s) \in D
    BY <1>13, ChosenIsElement
  <2>2. f[Chosen(s)] \in Nat /\ h[s \ {Chosen(s)}] \in Nat
    BY <1>13, <2>1
  <2>3. h[s] = ProductOf(f[Chosen(s)], h[s \ {Chosen(s)}])
    BY <1>11, <1>13 DEF ProductStep
  <2> QED
    BY <1>1, <2>2, <2>3
<1>14. SUBSET D \subseteq Q
  <2> HIDE DEF Q
  <2> QED
    BY <1>12, <1>13, ChosenInduction
<1>15. h[D] \in Nat
  BY <1>14
<1> QED
  BY <1>15, ProductUnfolded DEF h

(* The rule of a property, and the value that it or the ontology gives a   *)
(* model.                                                                  *)
RuleFor(o, p) == o.atomicRule[CHOOSE q \in RuleSource(o, o.atomicRule, p) : TRUE]

ValueStep(o, m, value, p) ==
  IF RuleSource(o, o.atomicRule, p) = {} THEN o.value[p][m]
  ELSE Product([i \in DOMAIN RuleFor(o, p) |-> value[RuleFor(o, p)[i]]])

Valued(o, m, value) == value = [p \in DOMAIN o.ancestors |-> ValueStep(o, m, value, p)]

(* getDataPropertyValue follows rules from property to property.           *)
LEMMA AtomicValueUnfolded ==
  ASSUME NEW o, NEW property, NEW m
  PROVE  AtomicValue(o, property, m) = (CHOOSE value : Valued(o, m, value))[property]
BY DEF AtomicValue, Valued, ValueStep, RuleFor

(* A rule names smaller properties.                                        *)
LEMMA RuleNamesSmaller ==
  ASSUME NEW o, HasValues(o), NEW p \in DOMAIN o.ancestors, RuleSource(o, o.atomicRule, p) # {}
  PROVE  /\ IsFiniteSet(DOMAIN RuleFor(o, p))
         /\ \A i \in DOMAIN RuleFor(o, p) : RuleFor(o, p)[i] \in DOMAIN o.ancestors /\ RuleFor(o, p)[i] < p
<1> DEFINE q == CHOOSE q \in RuleSource(o, o.atomicRule, p) : TRUE
<1>1. q \in RuleSource(o, o.atomicRule, p)
  OBVIOUS
<1> HIDE DEF q
<1>2. /\ IsFiniteSet(DOMAIN o.atomicRule[q])
      /\ \A i \in DOMAIN o.atomicRule[q] : o.atomicRule[q][i] \in DOMAIN o.ancestors /\ o.atomicRule[q][i] < p
  BY <1>1 DEF HasValues
<1> QED
  BY <1>2 DEF RuleFor, q

(* So the recursion ends.                                                  *)
LEMMA AtomicValuesExist ==
  ASSUME NEW o, HasValues(o), NEW m
  PROVE  \E value : Valued(o, m, value)
<1> DEFINE D == DOMAIN o.ancestors
           Below0(n) == {p \in D : p < n}
           Up(n, v) == v = [p \in Below0(n) |-> ValueStep(o, m, v, p)]
           P == {n \in Nat : \E v : Up(n, v)}
<1>0. IsFiniteSet(D) /\ D \subseteq Nat
  BY DEF HasValues
<1>1. 0 \in P
  <2> DEFINE v == [p \in Below0(0) |-> 0]
  <2>1. Below0(0) = {}
    BY <1>0
  <2>2. Up(0, v)
    BY <2>1
  <2> QED
    BY <2>2
<1>2. \A n \in Nat : n \in P => n + 1 \in P
  <2> SUFFICES ASSUME NEW n \in Nat, n \in P PROVE n + 1 \in P
    OBVIOUS
  <2>1. PICK v : Up(n, v)
    OBVIOUS
  <2> DEFINE w == [p \in Below0(n + 1) |-> ValueStep(o, m, v, p)]
  <2>2. \A p \in Below0(n) : p \in Below0(n + 1) /\ w[p] = v[p]
    <3> TAKE p \in Below0(n)
    <3>1. p \in Below0(n + 1)
      BY <1>0
    <3>2. v[p] = ValueStep(o, m, v, p)
      BY <2>1
    <3> QED
      BY <3>1, <3>2
  <2>3. \A p \in Below0(n + 1) : ValueStep(o, m, v, p) = ValueStep(o, m, w, p)
    <3> SUFFICES ASSUME NEW p \in Below0(n + 1), RuleSource(o, o.atomicRule, p) # {}
                 PROVE  ValueStep(o, m, v, p) = ValueStep(o, m, w, p)
      BY DEF ValueStep
    <3> DEFINE r == RuleFor(o, p)
    <3>1. p \in D /\ p < n + 1
      OBVIOUS
    <3>2. \A i \in DOMAIN r : r[i] \in D /\ r[i] < p
      BY <3>1, RuleNamesSmaller
    <3> HIDE DEF r
    <3>3. \A i \in DOMAIN r : r[i] \in Below0(n)
      BY <1>0, <3>1, <3>2
    <3> HIDE DEF w, Below0
    <3>4. [i \in DOMAIN r |-> v[r[i]]] = [i \in DOMAIN r |-> w[r[i]]]
      BY <2>2, <3>3
    <3>5. Product([i \in DOMAIN r |-> v[r[i]]]) = Product([i \in DOMAIN r |-> w[r[i]]])
      BY <3>4
    <3> QED
      BY <3>5 DEF ValueStep, r
  <2>4. Up(n + 1, w)
    BY <2>3
  <2> HIDE DEF w, Up
  <2>5. \E u : Up(n + 1, u)
    BY <2>4
  <2> QED
    BY <2>5
<1>3. \A n \in Nat : \E v : Up(n, v)
  <2>1. Nat \subseteq P
    <3> HIDE DEF P
    <3> QED
      BY <1>1, <1>2, NatSetInduction
  <2> QED
    BY <2>1
<1>4. PICK n \in Nat : \A p \in D : p < n
  <2>1. CASE D = {}
    BY <2>1
  <2>2. CASE D # {}
    <3> HIDE DEF D
    <3>1. D \subseteq Int
      BY <1>0
    <3>2. PICK k \in D : \A p \in D : p <= k
      BY <1>0, <2>2, <3>1, FiniteHasGreatest
    <3>3. k + 1 \in Nat /\ \A p \in D : p < k + 1
      BY <1>0, <3>2
    <3> QED
      BY <3>3
  <2> QED
    BY <2>1, <2>2
<1>5. PICK v : Up(n, v)
  BY <1>3
<1>6. Below0(n) = D
  BY <1>4
<1>7. Valued(o, m, v)
  BY <1>5, <1>6 DEF Valued
<1> QED
  BY <1>7

(* Of a property with a rule the value is the product of those it names;   *)
(* otherwise it is the ontology's.                                         *)
LEMMA AtomicValueByRule ==
  ASSUME NEW o, HasValues(o), NEW p \in DOMAIN o.ancestors, NEW m
  PROVE  /\ RuleSource(o, o.atomicRule, p) = {} => AtomicValue(o, p, m) = o.value[p][m]
         /\ RuleSource(o, o.atomicRule, p) # {} => AtomicValue(o, p, m) = AtomicRuleValue(o, RuleFor(o, p), m)
<1> DEFINE v == CHOOSE value : Valued(o, m, value)
           r == RuleFor(o, p)
<1>1. Valued(o, m, v)
  BY AtomicValuesExist
<1>2. \A q : AtomicValue(o, q, m) = v[q]
  BY AtomicValueUnfolded
<1> HIDE DEF v
<1>3. v[p] = ValueStep(o, m, v, p)
  BY <1>1 DEF Valued
<1> HIDE DEF r
<1>4. [i \in DOMAIN r |-> AtomicValue(o, r[i], m)] = [i \in DOMAIN r |-> v[r[i]]]
  BY <1>2
<1>5. AtomicRuleValue(o, r, m) = Product([i \in DOMAIN r |-> v[r[i]]])
  BY <1>4 DEF AtomicRuleValue
<1> QED
  BY <1>2, <1>3, <1>5 DEF ValueStep, r

(* All values of members are natural numbers.                              *)
LEMMA AtomicValueIsNat ==
  ASSUME NEW o, HasValues(o), NEW m \in Members
  PROVE  \A p \in DOMAIN o.ancestors : AtomicValue(o, p, m) \in Nat
<1> DEFINE D == DOMAIN o.ancestors
           P == {n \in Nat : \A p \in D : p < n => AtomicValue(o, p, m) \in Nat}
<1>0. D \subseteq Nat
  BY DEF HasValues
<1>1. 0 \in P
  BY <1>0
<1>2. \A n \in Nat : n \in P => n + 1 \in P
  <2> SUFFICES ASSUME NEW n \in Nat, n \in P, NEW p \in D, p < n + 1 PROVE AtomicValue(o, p, m) \in Nat
    OBVIOUS
  <2>1. CASE RuleSource(o, o.atomicRule, p) = {}
    <3>1. p \in DOMAIN o.value
      BY <2>1 DEF HasValues
    <3>2. o.value[p][m] \in Nat
      BY <3>1 DEF HasValues
    <3> QED
      BY <2>1, <3>2, AtomicValueByRule
  <2>2. CASE RuleSource(o, o.atomicRule, p) # {}
    <3> DEFINE r == RuleFor(o, p)
               f == [i \in DOMAIN r |-> AtomicValue(o, r[i], m)]
    <3>1. IsFiniteSet(DOMAIN r) /\ \A i \in DOMAIN r : r[i] \in D /\ r[i] < p
      BY <2>2, RuleNamesSmaller
    <3>2. AtomicValue(o, p, m) = AtomicRuleValue(o, r, m)
      BY <2>2, AtomicValueByRule
    <3> HIDE DEF r
    <3>3. \A i \in DOMAIN r : r[i] \in D /\ r[i] < n
      BY <1>0, <3>1
    <3>4. \A i \in DOMAIN f : f[i] \in Nat
      BY <3>3
    <3>5. IsFiniteSet(DOMAIN f)
      BY <3>1
    <3> HIDE DEF f
    <3>6. Product(f) \in Nat
      BY <3>4, <3>5, ProductIsNat
    <3> QED
      BY <3>2, <3>6 DEF f, AtomicRuleValue
  <2> QED
    BY <2>1, <2>2
<1>3. Nat \subseteq P
  <2> HIDE DEF P
  <2> QED
    BY <1>1, <1>2, NatSetInduction
<1> SUFFICES ASSUME NEW p \in D PROVE AtomicValue(o, p, m) \in Nat
  OBVIOUS
<1>4. p \in Nat /\ p + 1 \in Nat /\ p < p + 1
  BY <1>0
<1>5. p + 1 \in P
  BY <1>3, <1>4
<1> QED
  BY <1>4, <1>5

(* A pool that has no empty entries is the type of its agent.              *)
LEMMA TypeOfTeam ==
  ASSUME NEW pool, IsPool(pool), pool = Compact(pool)
  PROVE  TypeOf(AgentOf(pool)) = pool
<1> DEFINE a == AgentOf(pool)
           type == TypeOf(a)
<1>1. IsPool(type) /\ \A m : Count(type, m) = Count(pool, m)
  <2>1. a \in SUBSET AgentOf(pool)
    OBVIOUS
  <2> QED
    BY <2>1, TypeByCounts, AtomicAgentsOfModel
<1>2. \A m \in DOMAIN type : type[m] # 0
  <2>1. DOMAIN type = {x[1] : x \in a} /\ \A m \in DOMAIN type : type[m] = Cardinality(Numbered(a, m))
    BY DEF TypeOf, Numbered
  <2> SUFFICES ASSUME NEW m \in DOMAIN type PROVE type[m] # 0
    OBVIOUS
  <2>2. PICK x \in a : x[1] = m
    BY <2>1
  <2>3. x \in Numbered(a, m)
    BY <2>2 DEF Numbered
  <2>4. IsFiniteSet(Numbered(a, m))
    BY AtomicAgentsOfModel
  <2> HIDE DEF a, type
  <2>5. Cardinality(Numbered(a, m)) # 0
    BY <2>3, <2>4, FS_EmptySet
  <2> QED
    BY <2>1, <2>5
<1> HIDE DEF type
<1>3. Compact(type) = type
  <2>1. type = [m \in DOMAIN type |-> type[m]]
    BY <1>1 DEF IsPool
  <2>2. {m \in DOMAIN type : type[m] # 0} = DOMAIN type
    BY <1>2
  <2> QED
    BY <2>1, <2>2 DEF Compact
<1>4. Compact(type) = Compact(pool)
  BY <1>1, SameCounts
<1> QED
  BY <1>3, <1>4 DEF type, a

(* What all combinations of a team are made of is the team.                *)
LEMMA TeamIsItsParts ==
  ASSUME NEW pool, IsPool(pool), IsFiniteSet(DOMAIN pool), Compact(pool) # EmptyPool
  PROVE  /\ {AgentOf(p) : p \in AllCombinations(pool, 0)} \in SUBSET (SUBSET AgentOf(pool))
         /\ UNION {AgentOf(p) : p \in AllCombinations(pool, 0)} = AgentOf(pool)
<1>1. \A q \in AllCombinations(pool, 0) : AgentOf(q) \subseteq AgentOf(pool)
  <2> TAKE q \in AllCombinations(pool, 0)
  <2>1. IsPart(q, pool)
    BY CombinationsAreParts
  <2> QED
    BY <2>1, PartsHaveTheirAgents DEF IsPart
<1> DEFINE c == Compact(pool)
<1>2. IsPool(c) /\ \A m : Count(c, m) = Count(pool, m)
  BY CompactByCounts
<1>3. c \in AllCombinations(pool, 0)
  <2>1. Compact(c) = c
    BY <1>2, SameCounts
  <2>2. IsPart(c, pool)
    <3>1. \A m : Count(c, m) \in Nat
      BY <1>2, CountIsNatural
    <3>2. \A m : Count(c, m) <= Count(pool, m)
      BY <1>2, <3>1
    <3>3. IsFiniteSet(DOMAIN c)
      <4>1. DOMAIN c \subseteq DOMAIN pool
        BY DEF Compact
      <4> QED
        BY <4>1, FS_Subset
    <3> HIDE DEF c
    <3> QED
      BY <1>2, <3>2, <3>3 DEF IsPart
  <2> HIDE DEF c
  <2>3. c # EmptyPool
    BY DEF c
  <2> QED
    BY <2>1, <2>2, <2>3, CombinationsAreAllParts
<1>4. AgentOf(pool) \subseteq AgentOf(c)
  <2>1. \A m \in Model : Count(pool, m) <= Count(c, m)
    <3>1. \A m : Count(c, m) \in Nat
      BY <1>2, CountIsNatural
    <3> QED
      BY <1>2, <3>1
  <2> HIDE DEF c
  <2> QED
    BY <1>2, <2>1, PartsHaveTheirAgents
<1> HIDE DEF c
<1> QED
  BY <1>1, <1>3, <1>4

(* The repository's policy "all" has one step.                             *)
LEMMA PolicyOfAll ==
  ASSUME NEW o, HasEnergyRules(o)
  PROVE  Len(PolicyOf(o, "all")) = 1 /\ PolicyOf(o, "all")[1] = [kind |-> "all"]
<1> DEFINE elements == o.element["all"]
           filled == {n \in 0 .. Len(elements) : \A i \in 1 .. n : elements[i] # {}}
<1>1. Len(elements) = 1 /\ elements[1] = {[kind |-> "all"]}
  BY DEF HasEnergyRules
<1>2. filled = {0, 1}
  <2>1. \A n \in 0 .. 1 : n \in {0, 1}
    OBVIOUS
  <2>2. \A i \in 1 .. 1 : i = 1
    OBVIOUS
  <2>3. \A i \in 1 .. 0 : FALSE
    OBVIOUS
  <2>4. 0 \in 0 .. 1 /\ 1 \in 0 .. 1
    OBVIOUS
  <2> HIDE DEF elements
  <2> QED
    BY <1>1, <2>1, <2>2, <2>3, <2>4
<1>3. Greatest(filled) = 1
  <2> HIDE DEF filled
  <2>1. filled \subseteq Int /\ filled # {}
    BY <1>2
  <2>2. IsFiniteSet(filled)
    <3>1. IsFiniteSet({0} \cup {1})
      BY FS_Singleton, FS_Union
    <3>2. filled = {0} \cup {1}
      BY <1>2
    <3> QED
      BY <3>1, <3>2
  <2>3. Greatest(filled) \in filled /\ \A k \in filled : k <= Greatest(filled)
    BY <2>1, <2>2, GreatestIsOne
  <2> QED
    BY <1>2, <2>3
<1>4. PolicyOf(o, "all") = [i \in 1 .. Greatest(filled) |-> CHOOSE e \in elements[i] : TRUE]
  BY DEF PolicyOf
<1> HIDE DEF filled, elements
<1>5. PolicyOf(o, "all") = <<CHOOSE e \in elements[1] : TRUE>>
  BY <1>3, <1>4
<1>6. (CHOOSE e \in elements[1] : TRUE) = [kind |-> "all"]
  BY <1>1
<1> DEFINE e == [kind |-> "all"]
<1>7. PolicyOf(o, "all") = <<e>>
  BY <1>5, <1>6
<1> HIDE DEF e
<1>8. Len(<<e>>) = 1 /\ <<e>>[1] = e
  OBVIOUS
<1> QED
  BY <1>7, <1>8 DEF e

(* It selects the team as a whole.                                         *)
LEMMA AllIsSelected ==
  ASSUME NEW o, HasEnergyRules(o), NEW ask, NEW agents, IsPool(agents),
         \A f \in DOMAIN ask.pools : \A q \in ask.pools[f] : IsPart(q, agents),
         NEW pool, IsPool(pool), IsFiniteSet(DOMAIN pool), Compact(pool) # EmptyPool
  PROVE  Selections(o, ask, PolicyOf(o, "all"), {AgentOf(p) : p \in AllCombinations(pool, 0)})
            = {{AgentOf(pool)}}
<1> DEFINE given == {AgentOf(p) : p \in AllCombinations(pool, 0)}
           steps == PolicyOf(o, "all")
           chain == CHOOSE after : ChainOf(o, ask, steps, given, after)
<1>1. given \in SUBSET (SUBSET AgentOf(pool)) /\ UNION given = AgentOf(pool)
  BY TeamIsItsParts
<1>2. Len(steps) = 1 /\ steps[1] = [kind |-> "all"]
  BY PolicyOfAll
<1>3. Selections(o, ask, steps, given) = chain[Len(steps)]
  BY SelectionsUnfolded
<1> HIDE DEF given, steps
<1>4. ChainOf(o, ask, steps, given, chain)
  <2>1. Len(steps) \in Nat
    BY <1>2
  <2>2. \E after : ChainOf(o, ask, steps, given, after)
    BY <1>1, <2>1, SelectionsGoOn
  <2> QED
    BY <2>2
<1> HIDE DEF chain
<1>5. chain[0] = {given} /\ chain[1] = SelectedFrom(o, ask, steps[1], chain[0])
  <2>1. 0 \in 0 .. Len(steps) /\ 1 \in 0 .. Len(steps) /\ 1 - 1 = 0
    BY <1>2
  <2>2. \A i \in 0 .. Len(steps) : chain[i] = AfterStep(o, ask, steps, chain, given, i)
    BY <1>4 DEF ChainOf
  <2>3. chain[0] = AfterStep(o, ask, steps, chain, given, 0) /\ chain[1] = AfterStep(o, ask, steps, chain, given, 1)
    BY <2>1, <2>2
  <2> QED
    BY <2>1, <2>3 DEF AfterStep
<1>6. Selected(o, ask, steps[1], given) = {{AgentOf(pool)}}
  <2>1. steps[1].kind = "all"
    BY <1>2
  <2>2. Selected(o, ask, steps[1], given) = {{AllAtomicAgents(given)}}
    BY <2>1 DEF Selected
  <2> QED
    BY <1>1, <2>2 DEF AllAtomicAgents
<1>7. SelectedFrom(o, ask, steps[1], {given}) = Selected(o, ask, steps[1], given)
  BY DEF SelectedFrom
<1> QED
  BY <1>2, <1>3, <1>5, <1>6, <1>7 DEF given, steps

(* The values after some of the operations of a rule.                      *)
RuleStep(o, ask, rule, pool, property, upTo, i) ==
  IF i = 0 THEN {0} ELSE {v + w : v \in upTo[i - 1], w \in CallValues(o, ask, rule[i], pool, property)}

RuleSums(o, ask, rule, pool, property, upTo) ==
  upTo = [i \in 0 .. Len(rule) |-> RuleStep(o, ask, rule, pool, property, upTo, i)]

(* CompositeAgentRule::apply adds up its operations.                       *)
LEMMA RuleValuesUnfolded ==
  ASSUME NEW o, NEW ask, NEW rule, NEW pool, NEW property
  PROVE  RuleValues(o, ask, rule, pool, property)
            = (CHOOSE upTo : RuleSums(o, ask, rule, pool, property, upTo))[Len(rule)]
BY DEF RuleValues, RuleSums, RuleStep

(* The values they select add up, one of each operation.                   *)
LEMMA RuleAddsUp ==
  ASSUME NEW o, NEW ask, NEW rule, Len(rule) \in {1, 2}, NEW pool, NEW property
  PROVE  RuleValues(o, ask, rule, pool, property)
            = IF Len(rule) = 1 THEN SumsOfOne(CallValues(o, ask, rule[1], pool, property))
              ELSE SumsOfTwo(CallValues(o, ask, rule[1], pool, property), CallValues(o, ask, rule[2], pool, property))
<1> DEFINE N == Len(rule)
           one == CallValues(o, ask, rule[1], pool, property)
           two == CallValues(o, ask, rule[2], pool, property)
           g == [i \in 0 .. N |-> IF i = 0 THEN {0} ELSE IF i = 1 THEN SumsOfOne(one) ELSE SumsOfTwo(one, two)]
           h == CHOOSE upTo : RuleSums(o, ask, rule, pool, property, upTo)
<1>1. {v + w : v \in {0}, w \in one} = SumsOfOne(one)
  BY DEF SumsOfOne
<1>2. {v + w : v \in SumsOfOne(one), w \in two} = SumsOfTwo(one, two)
  BY DEF SumsOfTwo
<1>0. N = 1 \/ N = 2
  OBVIOUS
<1> HIDE DEF N, one, two
<1>3. \A i \in 0 .. N : i \in {0, 1, 2} /\ (i # 0 => i - 1 \in 0 .. N)
  BY <1>0
<1>4. 0 \in 0 .. N /\ 1 \in 0 .. N /\ 1 - 1 = 0 /\ 2 - 1 = 1
  BY <1>0
<1>5. RuleSums(o, ask, rule, pool, property, g)
  <2>1. \A i \in 0 .. N : g[i] = RuleStep(o, ask, rule, pool, property, g, i)
    <3> SUFFICES ASSUME NEW i \in 0 .. N PROVE g[i] = RuleStep(o, ask, rule, pool, property, g, i)
      OBVIOUS
    <3>1. g[0] = {0} /\ g[1] = SumsOfOne(one)
      BY <1>4
    <3>2. g[i] = IF i = 0 THEN {0} ELSE IF i = 1 THEN SumsOfOne(one) ELSE SumsOfTwo(one, two)
      OBVIOUS
    <3> HIDE DEF g
    <3>3. CASE i = 0
      BY <3>2, <3>3 DEF RuleStep
    <3>4. CASE i = 1
      BY <1>1, <1>4, <3>1, <3>2, <3>4 DEF RuleStep, one, two
    <3>5. CASE i = 2
      BY <1>2, <1>4, <3>1, <3>2, <3>5 DEF RuleStep, one, two
    <3> QED
      BY <1>3, <3>3, <3>4, <3>5
  <2>2. g = [i \in 0 .. N |-> g[i]]
    OBVIOUS
  <2> HIDE DEF g
  <2>3. g = [i \in 0 .. N |-> RuleStep(o, ask, rule, pool, property, g, i)]
    BY <2>1, <2>2
  <2> QED
    BY <2>3 DEF RuleSums, N
<1>6. RuleSums(o, ask, rule, pool, property, h)
  <2> HIDE DEF g
  <2> QED
    BY <1>5
<1>7. RuleValues(o, ask, rule, pool, property) = h[N]
  BY RuleValuesUnfolded DEF N
<1> HIDE DEF h, g
<1>8. \A i \in 0 .. N : h[i] = RuleStep(o, ask, rule, pool, property, h, i)
  BY <1>6 DEF RuleSums, N
<1>9. h[0] = {0}
  <2>1. h[0] = RuleStep(o, ask, rule, pool, property, h, 0)
    BY <1>4, <1>8
  <2> QED
    BY <2>1 DEF RuleStep
<1>10. h[1] = SumsOfOne(one)
  <2>1. h[1] = {v + w : v \in h[0], w \in one}
    <3>1. h[1] = RuleStep(o, ask, rule, pool, property, h, 1)
      BY <1>4, <1>8
    <3> QED
      BY <1>4, <3>1 DEF RuleStep, one
  <2> QED
    BY <1>1, <1>9, <2>1
<1>11. CASE N = 1
  BY <1>7, <1>10, <1>11 DEF N, one
<1>12. CASE N = 2
  <2>1. h[2] = {v + w : v \in h[1], w \in two}
    <3>1. 2 \in 0 .. N
      BY <1>12
    <3>2. h[2] = RuleStep(o, ask, rule, pool, property, h, 2)
      BY <1>8, <3>1
    <3> QED
      BY <1>4, <3>2 DEF RuleStep, two
  <2>2. h[2] = SumsOfTwo(one, two)
    BY <1>2, <1>10, <2>1
  <2> QED
    BY <1>7, <1>12, <2>2 DEF N, one, two
<1> QED
  BY <1>0, <1>11, <1>12

(* Values of a property of a team, weighted by how many there are.         *)
SharesOf(o, property, pool) == [m \in DOMAIN pool |-> AtomicValue(o, property, m)]

(* OPCall::sum of a team is a weighted sum.                                *)
LEMMA TeamsValue ==
  ASSUME NEW o, HasValues(o), NEW property \in DOMAIN o.ancestors,
         NEW pool, IsPool(pool), IsFiniteSet(DOMAIN pool), pool = Compact(pool), DOMAIN pool \subseteq Members
  PROVE  /\ ValueSum(o, AgentOf(pool), property) = WeightedSum(pool, SharesOf(o, property, pool))
         /\ WeightedSum(pool, SharesOf(o, property, pool)) \in Nat
         /\ \A m \in DOMAIN pool : SharesOf(o, property, pool)[m] \in Nat
<1> DEFINE w == SharesOf(o, property, pool)
           f == [m \in DOMAIN pool |-> pool[m] * AtomicValue(o, property, m)]
           g == [m \in DOMAIN pool |-> pool[m] * w[m]]
<1>1. \A m \in DOMAIN pool : w[m] = AtomicValue(o, property, m) /\ w[m] \in Nat /\ pool[m] \in Nat
  BY AtomicValueIsNat DEF SharesOf, IsPool
<1>2. f = g
  BY <1>1
<1>3. TypeOf(AgentOf(pool)) = pool
  BY TypeOfTeam
<1>4. ValueSum(o, AgentOf(pool), property) = SumOver(f, DOMAIN pool)
  BY <1>3 DEF ValueSum
<1>5. WeightedSum(pool, w) = SumOver(g, DOMAIN pool)
  BY DEF WeightedSum
<1>6. \A m \in DOMAIN pool : g[m] \in Nat
  <2> TAKE m \in DOMAIN pool
  <2>1. pool[m] \in Nat /\ w[m] \in Nat
    BY <1>1
  <2>2. pool[m] * w[m] \in Nat
    BY <2>1
  <2> QED
    BY <2>2
<1> HIDE DEF f, g, w
<1>7. SumOver(g, DOMAIN pool) \in Nat
  BY <1>6, SumOverIsNat
<1> QED
  BY <1>1, <1>2, <1>4, <1>5, <1>7 DEF w

(* The energy a rule with policy "all" adds up is that of the whole team.  *)
LEMMA EnergyIsWhole ==
  ASSUME NEW o, HasValues(o), HasEnergyRules(o), NEW ask, NEW agents, IsPool(agents),
         \A f \in DOMAIN ask.pools : \A q \in ask.pools[f] : IsPart(q, agents),
         NEW pool, IsPool(pool), IsFiniteSet(DOMAIN pool), pool = Compact(pool), pool # EmptyPool,
         DOMAIN pool \subseteq Members
  PROVE  RuleValues(o, ask, EnergyProvider.composite, pool, Self)
            = {WeightedSum(pool, SharesOf(o, EnergyStored, pool))}
<1> DEFINE call == SumOf("all", FALSE, EnergyStored, 1)
           rule == EnergyProvider.composite
           sum == WeightedSum(pool, SharesOf(o, EnergyStored, pool))
           given == {AgentOf(p) : p \in AllCombinations(pool, 0)}
<1>1. Len(rule) = 1 /\ rule[1] = call
  BY DEF EnergyProvider
<1>2. /\ call.policy = "all" /\ ~call.inverse /\ call.property = EnergyStored /\ call.sign = 1
  BY DEF SumOf
<1>3. EnergyStored \in DOMAIN o.ancestors
  BY DEF HasEnergyRules
<1>4. ValueSum(o, AgentOf(pool), EnergyStored) = sum /\ sum \in Nat
  BY <1>3, TeamsValue
<1>5. Selections(o, ask, PolicyOf(o, "all"), given) = {{AgentOf(pool)}}
  BY AllIsSelected
<1> DEFINE value(S) == IF S = {} THEN {0}
                       ELSE {call.sign * ValueSum(o, IF call.inverse THEN Rest(pool, a) ELSE a,
                                                  IF call.property = Self THEN Self ELSE call.property) : a \in S}
<1>6. CallValues(o, ask, call, pool, Self)
        = UNION {value(S) : S \in Selections(o, ask, PolicyOf(o, call.policy), given)}
  BY DEF CallValues
<1>7. value({AgentOf(pool)}) = {1 * sum}
  <2>1. (IF call.property = Self THEN Self ELSE call.property) = EnergyStored
    BY <1>2
  <2>2. (IF call.inverse THEN Rest(pool, AgentOf(pool)) ELSE AgentOf(pool)) = AgentOf(pool)
    BY <1>2
  <2> HIDE DEF call, sum
  <2> QED
    BY <1>2, <1>4, <2>1, <2>2
<1> HIDE DEF call, rule, sum, given, value
<1>8. CallValues(o, ask, call, pool, Self) = {1 * sum}
  BY <1>2, <1>5, <1>6, <1>7
<1>9. RuleValues(o, ask, rule, pool, Self) = SumsOfOne(CallValues(o, ask, rule[1], pool, Self))
  BY <1>1, RuleAddsUp
<1>10. SumsOfOne({1 * sum}) = {sum}
  BY <1>4 DEF SumsOfOne
<1> QED
  BY <1>1, <1>8, <1>9, <1>10 DEF rule, sum

(* DistributionPolicy::apply of the energy provider divides by type.       *)
LEMMA SharesAreByType ==
  ASSUME NEW o, HasValues(o), HasEnergyRules(o), NEW ask, NEW agents, IsPool(agents),
         \A f \in DOMAIN ask.pools : \A q \in ask.pools[f] : IsPart(q, agents),
         NEW pool, IsPool(pool), IsFiniteSet(DOMAIN pool), pool = Compact(pool), pool # EmptyPool,
         DOMAIN pool \subseteq Members
  PROVE  Distribution(o, ask, EnergyProvider, pool) = SharesByType(o, EnergyStored, pool)
<1> DEFINE share == [m \in DOMAIN pool |-> AtomicRuleValue(o, EnergyProvider.atomic, m)]
           byType == SharesOf(o, EnergyStored, pool)
<1>1. \A m : AtomicValue(o, EnergyStored, m) = AtomicRuleValue(o, EnergyProvider.atomic, m)
  <2>1. RuleFor(o, EnergyStored) = EnergyProvider.atomic
    BY DEF RuleFor, HasEnergyRules
  <2>2. EnergyStored \in DOMAIN o.ancestors /\ RuleSource(o, o.atomicRule, EnergyStored) # {}
    BY DEF HasEnergyRules
  <2> QED
    BY <2>1, <2>2, AtomicValueByRule
<1>2. share = byType
  BY <1>1 DEF SharesOf
<1>3. (CHOOSE v \in RuleValues(o, ask, EnergyProvider.composite, pool, Self) : TRUE) = WeightedSum(pool, byType)
  BY EnergyIsWhole
<1>4. CASE NumberOfInstances(pool) = 1
  BY <1>4 DEF Distribution, SharesByType
<1>5. CASE NumberOfInstances(pool) # 1
  <2>1. Distribution(o, ask, EnergyProvider, pool) = [whole |-> WeightedSum(pool, byType), share |-> share]
    BY <1>3, <1>5 DEF Distribution
  <2>2. SharesByType(o, EnergyStored, pool) = [whole |-> WeightedSum(pool, byType), share |-> byType]
    BY <1>5 DEF SharesByType, SharesOf
  <2> QED
    BY <1>2, <2>1, <2>2
<1> QED
  BY <1>4, <1>5

(* One summand per atomic agent is as many per model as there are of it.   *)
LEMMA SumByModel ==
  ASSUME NEW pool, IsPool(pool), IsFiniteSet(DOMAIN pool), NEW w, \A m \in DOMAIN pool : w[m] \in Nat
  PROVE  /\ IsFiniteSet(AgentOf(pool)) /\ \A a \in AgentOf(pool) : OfModel(w, AgentOf(pool))[a] = w[a[1]] /\ a[1] \in DOMAIN pool
         /\ SumFunctionOnSet(OfModel(w, AgentOf(pool)), AgentOf(pool)) = WeightedSum(pool, w)
         /\ WeightedSum(pool, w) \in Nat
<1> DEFINE A == AgentOf(pool)
           S == DOMAIN pool
           f == OfModel(w, A)
           part == [m \in S |-> Numbered(A, m)]
           g == [m \in S |-> pool[m] * w[m]]
<1>1. \A a \in A : a[1] \in S
  BY DEF AgentOf, AtomicAgents
<1>2. \A m \in S : pool[m] \in Nat /\ pool[m] = Count(pool, m)
  BY DEF IsPool, Count
<1>3. \A m \in S : part[m] = Numbered(A, m) /\ IsFiniteSet(part[m]) /\ Cardinality(part[m]) = pool[m]
  BY <1>2, AtomicAgentsOfModel
<1>4. Parted(part, S, A)
  <2>1. \A s, t \in S : s # t => part[s] \cap part[t] = {}
    BY <1>3 DEF Numbered
  <2>2. \A x : x \in A <=> \E s \in S : x \in part[s]
    BY <1>1, <1>3 DEF Numbered
  <2> QED
    BY <2>1, <2>2 DEF Parted
<1>5. \A m \in S : \A a \in part[m] : a \in A /\ a[1] = m
  BY <1>3 DEF Numbered
<1> HIDE DEF part, A, S
<1>6. IsFiniteSet(A)
  BY <1>3, <1>4, PartsAreFinite DEF S
<1>7. \A a \in A : f[a] = w[a[1]] /\ f[a] \in Int
  BY <1>1 DEF OfModel, S
<1>8. \A m \in S : g[m] = pool[m] * w[m] /\ pool[m] * w[m] \in Nat
  <2> TAKE m \in S
  <2>1. pool[m] \in Nat /\ w[m] \in Nat
    BY <1>2 DEF S
  <2>2. pool[m] * w[m] \in Nat
    BY <2>1
  <2> QED
    BY <2>2
<1> HIDE DEF f, g
<1>9. \A m \in S : g[m] = SumFunctionOnSet(f, part[m])
  <2> TAKE m \in S
  <2>1. w[m] \in Int /\ \A a \in part[m] : f[a] = w[m]
    BY <1>5, <1>7 DEF S
  <2>2. SumFunctionOnSet(f, part[m]) = w[m] * Cardinality(part[m])
    BY <1>3, <2>1, SumOfConstant
  <2>3. w[m] * pool[m] = pool[m] * w[m]
    BY <1>2, <2>1
  <2> QED
    BY <1>3, <1>8, <2>2, <2>3
<1>10. SumFunctionOnSet(g, S) = SumFunctionOnSet(f, A)
  BY <1>4, <1>6, <1>7, <1>9, SumOfPartialSums DEF S
<1>11. WeightedSum(pool, w) = SumOver(g, S)
  BY DEF WeightedSum, g, S
<1>12. SumOver(g, S) = SumFunctionOnSet(g, S)
  BY DEF SumOver, SumFunctionOnSet
<1>13. SumOver(g, S) \in Nat
  BY <1>8, SumOverIsNat DEF S
<1> QED
  BY <1>1, <1>6, <1>7, <1>10, <1>11, <1>12, <1>13 DEF f, A, S

(* computeSharesByType: also of an agent of its own.                       *)
LEMMA SharesAddUp ==
  ASSUME NEW o, HasValues(o), HasEnergyRules(o),
         NEW pool, IsPool(pool), IsFiniteSet(DOMAIN pool), pool = Compact(pool), DOMAIN pool \subseteq Members
  PROVE  AreShares(SharesByType(o, EnergyStored, pool), pool)
<1>0. EnergyStored \in DOMAIN o.ancestors
  BY DEF HasEnergyRules
<1> DEFINE w == SharesOf(o, EnergyStored, pool)
<1>1. WeightedSum(pool, w) \in Nat /\ \A m \in DOMAIN pool : w[m] \in Nat
  BY <1>0, TeamsValue
<1>2. DOMAIN w = DOMAIN pool
  BY DEF SharesOf
<1>3. CASE NumberOfInstances(pool) # 1
  <2>1. SharesByType(o, EnergyStored, pool) = [whole |-> WeightedSum(pool, w), share |-> w]
    BY <1>3 DEF SharesByType, SharesOf
  <2> HIDE DEF w
  <2> QED
    BY <1>1, <1>2, <2>1 DEF AreShares
<1>4. CASE NumberOfInstances(pool) = 1
  <2>1. \A m \in DOMAIN pool : pool[m] \in Nat /\ pool[m] # 0 /\ m \in Nat
    <3>1. \A m \in DOMAIN Compact(pool) : m \in DOMAIN pool /\ pool[m] # 0
      BY DEF Compact
    <3> QED
      BY <3>1, ModelAssumption DEF IsPool
  <2>2. NumberOfInstances(pool) = SumFunctionOnSet(pool, DOMAIN pool)
    BY DEF NumberOfInstances, FoldFunction, SumFunctionOnSet
  <2>3. PICK m \in DOMAIN pool : TRUE
    <3>1. DOMAIN pool # {}
      BY <1>4, <2>2, SumOfNothing
    <3> QED
      BY <3>1
  <2>4. \A n \in DOMAIN pool : n = m
    <3> SUFFICES ASSUME NEW n \in DOMAIN pool, n # m PROVE FALSE
      OBVIOUS
    <3> DEFINE D == DOMAIN pool
               rest == D \ {m}
    <3>1. SumFunctionOnSet(pool, D) = pool[m] + SumFunctionOnSet(pool, rest)
      BY <2>1, SumWithout
    <3>2. IsFiniteSet(rest) /\ \A k \in rest : pool[k] \in Nat
      BY <2>1, FS_Subset
    <3>3. n \in rest
      OBVIOUS
    <3> HIDE DEF rest
    <3>4. SumFunctionOnSet(pool, rest) = pool[n] + SumFunctionOnSet(pool, rest \ {n})
      BY <3>2, <3>3, SumWithout
    <3>5. SumFunctionOnSet(pool, rest \ {n}) \in Nat
      <4>1. IsFiniteSet(rest \ {n}) /\ \A k \in rest \ {n} : pool[k] \in Nat
        BY <3>2, FS_Subset
      <4> QED
        BY <4>1, SumIsNat
    <3>6. pool[m] \in Nat /\ pool[n] \in Nat /\ pool[m] # 0 /\ pool[n] # 0
      BY <2>1
    <3> QED
      BY <1>4, <2>2, <3>1, <3>4, <3>5, <3>6
  <2>5. DOMAIN pool = {m}
    BY <2>3, <2>4
  <2>6. pool[m] = 1
    BY <1>4, <2>1, <2>2, <2>5, SumOfOne
  <2>7. FirstOf(DOMAIN pool) = {m}
    BY <2>1, <2>5 DEF FirstOf
  <2> DEFINE one == [n \in FirstOf(DOMAIN pool) |-> 1]
             g == [n \in DOMAIN pool |-> pool[n] * one[n]]
  <2>8. SharesByType(o, EnergyStored, pool) = [whole |-> 1, share |-> one]
    BY <1>4 DEF SharesByType, Sole
  <2>9. DOMAIN one = {m} /\ one[m] = 1
    BY <2>7
  <2>10. g[m] = 1
    BY <2>5, <2>6, <2>9
  <2>11. WeightedSum(pool, one) = 1
    <3>1. WeightedSum(pool, one) = SumFunctionOnSet(g, {m})
      BY <2>5 DEF WeightedSum, SumOver, SumFunctionOnSet
    <3> HIDE DEF g, one
    <3> QED
      BY <2>10, <3>1, SumOfOne
  <2> HIDE DEF one
  <2> QED
    BY <2>5, <2>8, <2>9, <2>11 DEF AreShares
<1> QED
  BY <1>3, <1>4

(* getDoubleValueOrDefault of a member.                                    *)
LEMMA ValueOrIsNat ==
  ASSUME NEW o, HasValues(o), NEW m \in Members, NEW property, NEW default \in Nat
  PROVE  ValueOr(o, m, property, default) \in Nat
<1>1. CASE property \in DOMAIN o.value
  BY <1>1 DEF ValueOr, HasValues
<1>2. CASE property \notin DOMAIN o.value
  BY <1>2 DEF ValueOr
<1> QED
  BY <1>1, <1>2

(* Of several members values add up.                                       *)
LEMMA TotalIsNat ==
  ASSUME NEW o, HasValues(o), NEW pool, IsPool(pool), IsFiniteSet(DOMAIN pool), DOMAIN pool \subseteq Members,
         NEW property
  PROVE  /\ Total(o, pool, property) \in Nat
         /\ \A m \in DOMAIN pool : ValueOr(o, m, property, 0) \in Nat /\ pool[m] \in Nat
<1> DEFINE f == [m \in DOMAIN pool |-> pool[m] * ValueOr(o, m, property, 0)]
<1>1. \A m \in DOMAIN pool : ValueOr(o, m, property, 0) \in Nat /\ pool[m] \in Nat
  BY ValueOrIsNat DEF IsPool
<1>2. \A m \in DOMAIN pool : f[m] \in Nat
  <2> TAKE m \in DOMAIN pool
  <2> DEFINE v == ValueOr(o, m, property, 0)
  <2>1. v \in Nat /\ pool[m] \in Nat
    BY <1>1
  <2> HIDE DEF v
  <2>2. pool[m] * v \in Nat
    BY <2>1
  <2> QED
    BY <2>2 DEF v
<1> HIDE DEF f
<1>3. SumOver(f, DOMAIN pool) \in Nat
  BY <1>2, SumOverIsNat
<1> QED
  BY <1>1, <1>3 DEF Total, f

(* The largest of their values.                                            *)
LEMMA HighestIsGreatest ==
  ASSUME NEW o, HasValues(o), NEW pool, IsPool(pool), IsFiniteSet(DOMAIN pool), DOMAIN pool \subseteq Members,
         NEW property
  PROVE  /\ Highest(o, pool, property) \in {0} \cup {ValueOr(o, m, property, 0) : m \in DOMAIN pool}
         /\ Highest(o, pool, property) \in Nat
         /\ \A m \in DOMAIN pool : ValueOr(o, m, property, 0) <= Highest(o, pool, property)
<1> DEFINE V == {ValueOr(o, m, property, 0) : m \in DOMAIN pool}
           S == {0} \cup V
<1>1. V \subseteq Nat
  BY ValueOrIsNat
<1>2. IsFiniteSet(V)
  <2> DEFINE f == [m \in DOMAIN pool |-> ValueOr(o, m, property, 0)]
  <2>1. f \in Surjection(DOMAIN pool, V)
    BY DEF Surjection
  <2> HIDE DEF f, V
  <2> QED
    BY <2>1, FS_Surjection
<1>3. \A m \in DOMAIN pool : ValueOr(o, m, property, 0) \in V
  OBVIOUS
<1>4. Highest(o, pool, property) = Greatest(S)
  BY DEF Highest
<1> HIDE DEF V
<1>5. IsFiniteSet(S)
  BY <1>2, FS_Singleton, FS_Union
<1>6. S \subseteq Int /\ S # {} /\ S \subseteq Nat
  BY <1>1
<1> DEFINE top == Greatest(S)
<1>7. top \in S /\ \A k \in S : k <= top
  BY <1>5, <1>6, GreatestIsOne
<1> QED
  BY <1>3, <1>4, <1>6, <1>7 DEF V

(* The power and the velocity of a team are natural numbers.               *)
LEMMA RobotHasValues ==
  ASSUME NEW o, HasValues(o), NEW pool, IsPool(pool), IsFiniteSet(DOMAIN pool), DOMAIN pool \subseteq Members,
         \E m \in DOMAIN pool : NumberOfInstances(pool) = 1 => pool[m] = 1
  PROVE  RobotOf(o, pool).power \in Nat /\ RobotOf(o, pool).velocity \in Nat
<1>1. CASE NumberOfInstances(pool) = 1
  <2> DEFINE m == CHOOSE m \in DOMAIN pool : pool[m] = 1
  <2>1. m \in DOMAIN pool
    BY <1>1
  <2>2. RobotOf(o, pool) = AtomicRobot(o, m)
    BY <1>1 DEF RobotOf
  <2> HIDE DEF m
  <2>3. AtomicRobot(o, m).power = ValueOr(o, m, Power, 0) /\ AtomicRobot(o, m).velocity = ValueOr(o, m, Velocity, 0)
    BY DEF AtomicRobot
  <2> QED
    BY <2>1, <2>2, <2>3, ValueOrIsNat
<1>2. CASE NumberOfInstances(pool) # 1
  <2>1. RobotOf(o, pool) = CompositeRobot(o, pool)
    BY <1>2 DEF RobotOf
  <2>2. /\ CompositeRobot(o, pool).power = Total(o, pool, Power)
        /\ CompositeRobot(o, pool).velocity = Highest(o, pool, Velocity)
    BY DEF CompositeRobot
  <2>3. Total(o, pool, Power) \in Nat
    BY TotalIsNat
  <2>4. Highest(o, pool, Velocity) \in Nat
    BY HighestIsGreatest
  <2> QED
    BY <2>1, <2>2, <2>3, <2>4
<1> QED
  BY <1>1, <1>2

(* An agent is at its destination in time if it has time to wait there.    *)
THEOREM ArrivesIfItWaits ==
  ASSUME NEW o, NEW agent, RobotOfAgent(o, agent).velocity \in Nat,
         NEW from \in Int, NEW to \in Int, from # to, NEW time \in Nat
  PROVE  PositionLinear(o, agent, from, to, time) = to <=>
            RobotOfAgent(o, agent).velocity > 0 /\ WaitTime(o, agent, from, to, time)[1] >= 0
<1> DEFINE v == RobotOfAgent(o, agent).velocity
           d == Distance(from, to)
           x == v * time
<1>1. d \in Nat /\ d > 0 /\ d = IF from < to THEN to - from ELSE from - to
  BY DEF Distance
<1>2. WaitTime(o, agent, from, to, time)[1] = time * v - d
  BY DEF WaitTime, Waiting, TravelTime
<1>3. PositionLinear(o, agent, from, to, time) = IF from < to THEN from + Smaller(x, d) ELSE from - Smaller(x, d)
  BY DEF PositionLinear
<1> HIDE DEF v, d
<1>4. v \in Nat
  BY DEF v
<1>5. x \in Nat /\ time * v = x /\ (v = 0 => x = 0)
  BY <1>4
<1> HIDE DEF x
<1>6. PositionLinear(o, agent, from, to, time) = to <=> x >= d
  BY <1>1, <1>3, <1>5 DEF Smaller
<1>7. x >= d => v > 0
  BY <1>1, <1>4, <1>5
<1> QED
  BY <1>1, <1>2, <1>5, <1>6, <1>7 DEF v

(* By shares, the contributions add up to all of it.                       *)
LEMMA ContributionsAddUp ==
  ASSUME NEW pool, IsPool(pool), IsFiniteSet(DOMAIN pool), NEW d, AreShares(d, pool),
         NEW c \in Int, NEW k \in Int
  PROVE  SumOver(Contribution(c, d, AgentOf(pool), k), AgentOf(pool)) = (c * k) * d.whole
<1> DEFINE A == AgentOf(pool)
           w == d.share
           f == OfModel(w, A)
           g == Contribution(c, d, A, k)
<1>1. \A m \in DOMAIN pool : w[m] \in Nat
  BY DEF AreShares
<1>2. /\ IsFiniteSet(A) /\ \A a \in A : f[a] = w[a[1]] /\ a[1] \in DOMAIN pool
      /\ SumFunctionOnSet(f, A) = WeightedSum(pool, w)
  BY <1>1, SumByModel
<1>3. WeightedSum(pool, w) = d.whole
  BY DEF AreShares
<1>4. \A a \in A : g[a] = c * w[a[1]] * k
  BY DEF Contribution
<1> HIDE DEF A, f, g, w
<1>5. c * k \in Int /\ \A a \in A : f[a] \in Int /\ g[a] = (c * k) * f[a]
  <2>1. c * k \in Int
    OBVIOUS
  <2>2. ASSUME NEW a \in A PROVE f[a] \in Int /\ g[a] = (c * k) * f[a]
    <3> DEFINE s == w[a[1]]
    <3>1. s \in Int /\ f[a] = s /\ g[a] = c * s * k
      BY <1>1, <1>2, <1>4
    <3> HIDE DEF s
    <3>2. c * s * k = (c * k) * s
      BY <3>1
    <3> QED
      BY <3>1, <3>2
  <2> QED
    BY <2>1, <2>2
<1>6. SumFunctionOnSet(g, A) = (c * k) * SumFunctionOnSet(f, A)
  BY <1>2, <1>5, SumOfMultiples
<1>7. SumOver(g, A) = SumFunctionOnSet(g, A)
  BY DEF SumOver, SumFunctionOnSet
<1> QED
  BY <1>2, <1>3, <1>6, <1>7 DEF g, A

(* A pool for which the energy provider can be asked.                      *)
IsTeam(o, pool) ==
  /\ HasValues(o) /\ HasEnergyRules(o)
  /\ IsPool(pool) /\ IsFiniteSet(DOMAIN pool) /\ pool = Compact(pool) /\ pool # EmptyPool
  /\ DOMAIN pool \subseteq Members

(* The power and the velocity of a team.                                   *)
LEMMA TeamHasValues ==
  ASSUME NEW o, NEW pool, IsTeam(o, pool)
  PROVE  RobotOf(o, pool).power \in Nat /\ RobotOf(o, pool).velocity \in Nat
<1>0. /\ HasValues(o) /\ IsPool(pool) /\ IsFiniteSet(DOMAIN pool)
      /\ pool # EmptyPool /\ DOMAIN pool \subseteq Members
  BY DEF IsTeam
<1>1. \E m \in DOMAIN pool : NumberOfInstances(pool) = 1 => pool[m] = 1
  <2>1. CASE NumberOfInstances(pool) = 1
    BY <1>0, <2>1, OneAgent
  <2>2. CASE NumberOfInstances(pool) # 1
    <3>1. DOMAIN pool # {}
      <4>1. pool = [m \in DOMAIN pool |-> pool[m]]
        BY <1>0 DEF IsPool
      <4> QED
        BY <1>0, <4>1 DEF EmptyPool
    <3> QED
      BY <2>2, <3>1
  <2> QED
    BY <2>1, <2>2
<1> QED
  BY <1>0, <1>1, RobotHasValues

(* What is consumed on the way and while waiting is what the atomic agents *)
(* contribute, in one period and the next.                                 *)
THEOREM ReductionsAddUp ==
  ASSUME NEW o, NEW ask, NEW pool, IsTeam(o, pool), NEW agents, IsPool(agents),
         \A f \in DOMAIN ask.pools : \A q \in ask.pools[f] : IsPart(q, agents)
  PROVE  AddsUp(o, ask, [agent |-> AgentOf(pool), from |-> 1, to |-> 5, time |-> 6])
<1> DEFINE A == AgentOf(pool)
           sample == [agent |-> A, from |-> 1, to |-> 5, time |-> 6]
           robot == RobotOf(o, pool)
           d == Distribution(o, ask, EnergyProvider, pool)
           C == EnergyConsumption(o, sample)
           part(m, since, until) == EnergyReduction(o, ask, EnergyProvider, sample, m, since, until)
<1>0. /\ HasValues(o) /\ HasEnergyRules(o) /\ IsPool(pool) /\ IsFiniteSet(DOMAIN pool)
      /\ pool = Compact(pool) /\ pool # EmptyPool /\ DOMAIN pool \subseteq Members
  BY DEF IsTeam
<1>1. TypeOf(A) = pool
  BY <1>0, TypeOfTeam
<1>2. AreShares(d, pool)
  BY <1>0, SharesAreByType, SharesAddUp
<1>3. robot.power \in Nat /\ robot.velocity \in Nat
  BY TeamHasValues
<1>4. C[1] \in Int /\ C[2] \in Int
  <2>1. sample.agent = A /\ sample.from = 1 /\ sample.to = 5 /\ sample.time = 6
    OBVIOUS
  <2>2. RobotOfAgent(o, A) = robot
    BY <1>1 DEF RobotOfAgent
  <2> HIDE DEF sample, robot, A
  <2> DEFINE travel == TravelTime(o, A, 1, 5)
             wait == WaitTime(o, A, 1, 5, 6)
  <2>3. travel = <<Distance(1, 5), robot.velocity>>
    BY <2>2 DEF TravelTime
  <2>4. wait = <<6 * robot.velocity - Distance(1, 5), robot.velocity>>
    BY <2>2 DEF WaitTime, Waiting, TravelTime
  <2>5. Distance(1, 5) = 4
    BY DEF Distance
  <2>6. C = <<robot.power * (travel[1] + wait[1]), travel[2]>>
    BY <2>1, <2>2 DEF EnergyConsumption, EnergyCost
  <2> DEFINE v == robot.velocity
             p == robot.power
             t == 4 + (6 * v - 4)
  <2>7. C = <<p * t, v>>
    BY <2>3, <2>4, <2>5, <2>6
  <2> HIDE DEF v, p
  <2>8. v \in Int /\ p \in Int
    BY <1>3 DEF v, p
  <2>9. t \in Int
    BY <2>8
  <2> HIDE DEF t, C
  <2>10. p * t \in Int
    BY <2>8, <2>9
  <2> QED
    BY <2>7, <2>8, <2>10
<1>5. \A m, since, until :
         part(m, since, until) = <<C[1] * d.share[m] * (until - since), C[2] * d.whole * 6>>
  <2>1. TypeOf(sample.agent) = pool /\ sample.time = 6
    BY <1>1
  <2> QED
    BY <2>1 DEF EnergyReduction, Reduction
<1> DEFINE all(since, until) == SumOver([a \in A |-> part(a[1], since, until)[1]], A)
           unit == part(CHOOSE m \in {a[1] : a \in A} : TRUE, 0, 6)[2]
<1>6. AddsUp(o, ask, sample) <=>
        (C[2] > 0 /\ unit > 0 => (all(0, 2) + all(2, 6)) * C[2] = C[1] * unit)
  BY DEF AddsUp
<1>7. unit = C[2] * d.whole * 6
  BY <1>5
<1>8. ASSUME NEW since \in Int, NEW until \in Int
      PROVE  all(since, until) = (C[1] * (until - since)) * d.whole
  <2> DEFINE k == until - since
             c == C[1]
             f == [a \in A |-> part(a[1], since, until)[1]]
  <2>1. k \in Int /\ c \in Int
    BY <1>4
  <2>2. \A a \in A : part(a[1], since, until)[1] = c * d.share[a[1]] * k
    BY <1>5
  <2> HIDE DEF part, C, d, k, c
  <2>3. f = Contribution(c, d, A, k)
    BY <2>2 DEF Contribution
  <2>4. SumOver(Contribution(c, d, A, k), A) = (c * k) * d.whole
    BY <1>0, <1>2, <2>1, ContributionsAddUp
  <2> QED
    BY <2>3, <2>4 DEF k, c
<1>9. d.whole \in Nat
  BY <1>2 DEF AreShares
<1>10. all(0, 2) = (C[1] * 2) * d.whole /\ all(2, 6) = (C[1] * 4) * d.whole
  <2> HIDE DEF all, C, d
  <2>1. all(0, 2) = (C[1] * (2 - 0)) * d.whole
    <3>1. 0 \in Int /\ 2 \in Int
      OBVIOUS
    <3> QED
      BY <1>8, <3>1
  <2>2. all(2, 6) = (C[1] * (6 - 2)) * d.whole
    <3>1. 2 \in Int /\ 6 \in Int
      OBVIOUS
    <3> QED
      BY <1>8, <3>1
  <2>3. 2 - 0 = 2 /\ 6 - 2 = 4
    OBVIOUS
  <2> QED
    BY <2>1, <2>2, <2>3
<1>11. (all(0, 2) + all(2, 6)) * C[2] = C[1] * unit
  <2> DEFINE c == C[1]
             e == C[2]
             s == d.whole
  <2>1. c \in Int /\ e \in Int /\ s \in Int
    BY <1>4, <1>9
  <2>2. all(0, 2) = (c * 2) * s /\ all(2, 6) = (c * 4) * s /\ unit = e * s * 6
    BY <1>7, <1>10
  <2> HIDE DEF c, e, s, all, unit
  <2> DEFINE z == c * s
  <2>3. (c * 2) * s = z * 2 /\ (c * 4) * s = z * 4
    BY <2>1
  <2>4. c * (e * s * 6) = (z * 6) * e
    BY <2>1
  <2>5. z \in Int
    BY <2>1
  <2> HIDE DEF z
  <2>6. (z * 2 + z * 4) * e = (z * 6) * e
    BY <2>1, <2>5
  <2>7. (all(0, 2) + all(2, 6)) * e = c * unit
    BY <2>2, <2>3, <2>4, <2>6
  <2> QED
    BY <2>7 DEF c, e
<1> HIDE DEF all, unit, C
<1> QED
  BY <1>6, <1>11 DEF sample

(* EstimatesAgree: for all ontologies of robots that have the repository's *)
(* rules for energy, and all teams.                                        *)
THEOREM EstimatesHold == Spec => []EstimatesAgree
<1>1. AsksTypeOK /\ TeamsTypeOK => EstimatesAgree
  <2> DEFINE o == case.o
             ask == case.ask
             pool == Compact(case.pool)
             A == AgentOf(pool)
             sample == [agent |-> A, from |-> 1, to |-> 5, time |-> 6]
             d == Distribution(o, ask, EnergyProvider, pool)
             byType == SharesByType(o, EnergyStored, pool)
  <2> SUFFICES ASSUME AsksTypeOK, TeamsTypeOK, case.kind = "team"
               PROVE  /\ SharesAgree(d, byType)
                      /\ AddsUp(o, ask, sample)
                      /\ \A time \in 0 .. 6 :
                            PositionLinear(o, A, 1, 5, time) = 5 <=>
                              RobotOfAgent(o, A).velocity > 0 /\ WaitTime(o, A, 1, 5, time)[1] >= 0
    BY DEF EstimatesAgree
  <2>1. PICK p \in AskedPools \cup CrewPools, bounded \in BOOLEAN, size \in 0 .. 2 :
          ask = Prepared(o, p, bounded, size)
    BY DEF AsksTypeOK, IsPrepared
  <2>2. IsOntology(o) /\ IsPool(p) /\ IsFiniteSet(DOMAIN p)
    BY AskedOntologies DEF AsksTypeOK, IsPrepared, IsLoaded
  <2>3. /\ o \in TeamOntologies /\ case.pool \in Pools /\ NumberOfInstances(case.pool) > 0
        /\ IsPool(case.pool) /\ IsFiniteSet(DOMAIN case.pool)
    BY AskedOntologies DEF TeamsTypeOK
  <2>4. HasValues(o) /\ HasEnergyRules(o)
    <3> HIDE DEF o
    <3> QED
      BY <2>3, InputsAreReal DEF InputAssumption
  <2>5. IsTeam(o, pool)
    <3> HIDE DEF o
    <3>1. IsPool(pool) /\ \A m : Count(pool, m) = Count(case.pool, m)
      BY <2>3, CompactByCounts
    <3>2. DOMAIN pool \subseteq DOMAIN case.pool
      BY DEF Compact
    <3>3. Compact(pool) = pool
      BY <2>3, <3>1, SameCounts
    <3>4. pool # EmptyPool
      <4> SUFFICES ASSUME pool = EmptyPool PROVE FALSE
        OBVIOUS
      <4>1. \A m \in DOMAIN case.pool : case.pool[m] = 0
        BY DEF Compact, EmptyPool
      <4>2. SumFunctionOnSet(case.pool, DOMAIN case.pool) = 0 * Cardinality(DOMAIN case.pool)
        BY <2>3, <4>1, SumOfConstant
      <4>3. Cardinality(DOMAIN case.pool) \in Nat
        BY <2>3, FS_CardinalityType
      <4>4. NumberOfInstances(case.pool) = SumFunctionOnSet(case.pool, DOMAIN case.pool)
        BY DEF NumberOfInstances, FoldFunction, SumFunctionOnSet
      <4> QED
        BY <2>3, <4>2, <4>3, <4>4
    <3>5. DOMAIN case.pool \subseteq Members
      BY <2>3 DEF Members
    <3>6. IsFiniteSet(DOMAIN pool)
      BY <2>3, <3>2, FS_Subset
    <3> HIDE DEF pool
    <3> QED
      BY <2>4, <3>1, <3>2, <3>3, <3>4, <3>5, <3>6 DEF IsTeam
  <2> HIDE DEF o, ask, pool
  <2>6. IsPool(ask.pool) /\ \A f \in DOMAIN ask.pools : \A q \in ask.pools[f] : IsPart(q, ask.pool)
    BY <2>1, <2>2, MappingIsRight
  <2>7. d = byType
    BY <2>5, <2>6, SharesAreByType DEF IsTeam
  <2>8. AreShares(byType, pool)
    BY <2>5, SharesAddUp DEF IsTeam
  <2>9. SharesAgree(d, byType)
    <3> HIDE DEF d, byType
    <3> QED
      BY <2>7 DEF SharesAgree
  <2>10. AddsUp(o, ask, sample)
    BY <2>5, <2>6, ReductionsAddUp
  <2>11. RobotOfAgent(o, A).velocity \in Nat
    <3>1. TypeOf(A) = pool
      BY <2>5, TypeOfTeam DEF IsTeam
    <3>2. RobotOf(o, pool).velocity \in Nat
      BY <2>5, TeamHasValues
    <3> QED
      BY <3>1, <3>2 DEF RobotOfAgent
  <2>12. ASSUME NEW time \in 0 .. 6
         PROVE  PositionLinear(o, A, 1, 5, time) = 5 <=>
                  RobotOfAgent(o, A).velocity > 0 /\ WaitTime(o, A, 1, 5, time)[1] >= 0
    <3>1. time \in Nat /\ 1 \in Int /\ 5 \in Int /\ 1 # 5
      OBVIOUS
    <3> HIDE DEF A
    <3> QED
      BY <2>11, <3>1, ArrivesIfItWaits
  <2> QED
    BY <2>9, <2>10, <2>12
<1> QED
  BY <1>1, AsksKeepTheirType, TeamsKeepTheirType, PTL

(* A pool with one agent of a model less.                                  *)
FewerBy(pool, m) == [pool EXCEPT ![m] = pool[m] - 1]

LEMMA OneFewer ==
  ASSUME NEW pool, IsPool(pool), IsFiniteSet(DOMAIN pool), NEW m \in DOMAIN pool, pool[m] > 0
  PROVE  LET q == FewerBy(pool, m)
         IN  /\ IsPool(q) /\ DOMAIN q = DOMAIN pool
             /\ \A n \in DOMAIN pool : q[n] \in Nat /\ pool[n] \in Nat /\ q[n] <= pool[n]
             /\ q[m] = pool[m] - 1
             /\ NumberOfInstances(q) = NumberOfInstances(pool) - 1
             /\ NumberOfInstances(pool) \in Nat
<1> DEFINE q == FewerBy(pool, m)
           D == DOMAIN pool
<1>1. \A n \in D : pool[n] \in Nat
  BY DEF IsPool
<1>2. DOMAIN q = D /\ q[m] = pool[m] - 1 /\ \A n \in D \ {m} : q[n] = pool[n]
  BY DEF FewerBy
<1>3. \A n \in D : q[n] \in Nat /\ q[n] <= pool[n]
  <2> HIDE DEF q
  <2> TAKE n \in D
  <2>1. CASE n = m
    BY <1>1, <1>2, <2>1
  <2>2. CASE n # m
    BY <1>1, <1>2, <2>2
  <2> QED
    BY <2>1, <2>2
<1>4. q \in [D -> Nat]
  <2>1. q = [n \in D |-> q[n]]
    BY DEF FewerBy
  <2> HIDE DEF q
  <2> QED
    BY <1>3, <2>1
<1> HIDE DEF q
<1>5. IsPool(q)
  BY <1>2, <1>4 DEF IsPool
<1>6. /\ NumberOfInstances(pool) = SumFunctionOnSet(pool, D)
      /\ NumberOfInstances(q) = SumFunctionOnSet(q, D)
  BY <1>2 DEF NumberOfInstances, FoldFunction, SumFunctionOnSet
<1> DEFINE R == D \ {m}
<1>7. /\ SumFunctionOnSet(pool, D) = pool[m] + SumFunctionOnSet(pool, R)
      /\ SumFunctionOnSet(q, D) = q[m] + SumFunctionOnSet(q, R)
  <2>1. \A n \in D : pool[n] \in Int /\ q[n] \in Int
    BY <1>1, <1>3
  <2> QED
    BY <2>1, SumWithout
<1>8. SumFunctionOnSet(pool, R) = SumFunctionOnSet(q, R) /\ SumFunctionOnSet(pool, R) \in Nat
  <2>1. IsFiniteSet(R) /\ \A n \in R : pool[n] \in Nat /\ pool[n] \in Int /\ pool[n] = q[n]
    BY <1>1, <1>2, FS_Subset
  <2> QED
    BY <2>1, SumIsDetermined, SumIsNat
<1>9. pool[m] \in Nat
  BY <1>1
<1> HIDE DEF R
<1>10. NumberOfInstances(q) = NumberOfInstances(pool) - 1 /\ NumberOfInstances(pool) \in Nat
  BY <1>2, <1>6, <1>7, <1>8, <1>9
<1> QED
  BY <1>1, <1>2, <1>3, <1>5, <1>10 DEF q

(* Less agents of each model.                                              *)
HasLess(q, pool) ==
  /\ IsPool(q) /\ DOMAIN q = DOMAIN pool
  /\ \A n \in DOMAIN pool : q[n] \in Nat /\ pool[n] \in Nat /\ q[n] <= pool[n]

LEMMA TotalGrows ==
  ASSUME NEW o, HasValues(o), NEW pool, IsPool(pool), IsFiniteSet(DOMAIN pool), DOMAIN pool \subseteq Members,
         NEW q, HasLess(q, pool), NEW property
  PROVE  Total(o, q, property) <= Total(o, pool, property)
<1> DEFINE D == DOMAIN pool
           f == [n \in D |-> q[n] * ValueOr(o, n, property, 0)]
           g == [n \in D |-> pool[n] * ValueOr(o, n, property, 0)]
<1>1. \A n \in D : f[n] \in Int /\ g[n] \in Int /\ f[n] <= g[n]
  <2> TAKE n \in D
  <2> DEFINE v == ValueOr(o, n, property, 0)
  <2>1. v \in Nat
    <3>1. n \in Members /\ 0 \in Nat
      OBVIOUS
    <3> QED
      BY <3>1, ValueOrIsNat
  <2>2. q[n] \in Nat /\ pool[n] \in Nat /\ q[n] <= pool[n]
    BY DEF HasLess
  <2>3. f[n] = q[n] * v /\ g[n] = pool[n] * v
    OBVIOUS
  <2> HIDE DEF v, f, g
  <2>4. q[n] * v \in Int /\ pool[n] * v \in Int /\ q[n] * v <= pool[n] * v
    BY <2>1, <2>2, MultiplesGrow
  <2> QED
    BY <2>3, <2>4
<1>2. Total(o, q, property) = SumFunctionOnSet(f, D) /\ Total(o, pool, property) = SumFunctionOnSet(g, D)
  BY DEF Total, HasLess, SumOver, SumFunctionOnSet
<1> HIDE DEF f, g
<1> QED
  BY <1>1, <1>2, SumIsMonotonic

(* getTransportMass: more agents carry no less.                            *)
LEMMA MassGrows ==
  ASSUME NEW o, HasValues(o), NEW ask, NEW pool, IsPool(pool), IsFiniteSet(DOMAIN pool), DOMAIN pool \subseteq Members,
         NEW q, HasLess(q, pool)
  PROVE  TransportableMass(o, ask, q) <= TransportableMass(o, ask, pool)
<1> DEFINE M == {n \in DOMAIN pool : Moves(o, ask, n)}
           p1 == [m \in M |-> pool[m]]
           q1 == [m \in M |-> q[m]]
<1>1. /\ TransportableMass(o, ask, pool) = Total(o, p1, TransportMass)
      /\ TransportableMass(o, ask, q) = Total(o, q1, TransportMass)
  BY DEF TransportableMass, HasLess
<1>2. M \subseteq DOMAIN pool /\ IsFiniteSet(M)
  <2>1. M \subseteq DOMAIN pool
    OBVIOUS
  <2> HIDE DEF M
  <2> QED
    BY <2>1, FS_Subset
<1> HIDE DEF M
<1>3. \A m \in M : q[m] \in Nat /\ pool[m] \in Nat /\ q[m] <= pool[m] /\ m \in Model
  BY <1>2 DEF HasLess, IsPool
<1>4. DOMAIN p1 = M /\ DOMAIN q1 = M /\ \A m \in M : p1[m] = pool[m] /\ q1[m] = q[m]
  OBVIOUS
<1>5. p1 \in [M -> Nat] /\ q1 \in [M -> Nat]
  BY <1>3
<1> HIDE DEF p1, q1
<1>6. IsPool(p1) /\ IsPool(q1) /\ IsFiniteSet(DOMAIN p1) /\ DOMAIN p1 \subseteq Members
  BY <1>2, <1>3, <1>4, <1>5 DEF IsPool
<1>7. HasLess(q1, p1)
  BY <1>3, <1>4, <1>6 DEF HasLess
<1> QED
  BY <1>1, <1>6, <1>7, TotalGrows

(* Load areas of the agents that carry, times how many there are.          *)
Areas(o, ask, pool) == [m \in {n \in DOMAIN pool : Carries(o, ask, n)} |-> pool[m] * LoadAreaSize(o, m)]
MovingAreas(o, ask, pool) == {m \in DOMAIN Areas(o, ask, pool) : Moves(o, ask, m)}
AreaOptions(o, ask, pool) ==
  {SumOver(Areas(o, ask, pool), MovingAreas(o, ask, pool))}
    \cup {Areas(o, ask, pool)[m] : m \in DOMAIN Areas(o, ask, pool) \ MovingAreas(o, ask, pool)}

(* They are natural numbers, of which there is a greatest.                 *)
AreaIsGreatest(o, ask, pool) ==
  LET areas == Areas(o, ask, pool)
      moving == MovingAreas(o, ask, pool)
      area == Greatest(AreaOptions(o, ask, pool))
  IN  /\ IsFiniteSet(DOMAIN areas) /\ \A m \in DOMAIN areas : areas[m] \in Nat
      /\ area \in AreaOptions(o, ask, pool) /\ area \in Nat
      /\ SumFunctionOnSet(areas, moving) \in Nat /\ SumFunctionOnSet(areas, moving) <= area
      /\ \A m \in DOMAIN areas : areas[m] <= area

LEMMA AreasAreCompared ==
  ASSUME NEW o, HasLoads(o), NEW ask, NEW pool, IsPool(pool), IsFiniteSet(DOMAIN pool), DOMAIN pool \subseteq Members
  PROVE  AreaIsGreatest(o, ask, pool)
<1> DEFINE areas == Areas(o, ask, pool)
           moving == MovingAreas(o, ask, pool)
           A == DOMAIN areas
           sum == SumFunctionOnSet(areas, moving)
           still == {areas[m] : m \in A \ moving}
           S == {sum} \cup still
           area == Greatest(S)
<1>1. A \subseteq DOMAIN pool /\ \A m \in A : areas[m] = pool[m] * LoadAreaSize(o, m)
  BY DEF Areas
<1>2. moving \subseteq A
  BY DEF MovingAreas
<1>3. AreaOptions(o, ask, pool) = S
  BY DEF AreaOptions, SumOver, SumFunctionOnSet
<1>4. IsFiniteSet(A) /\ IsFiniteSet(moving)
  BY <1>1, <1>2, FS_Subset
<1> HIDE DEF areas, moving
<1>5. \A m \in A : areas[m] \in Nat
  <2> TAKE m \in A
  <2> DEFINE size == LoadAreaSize(o, m)
  <2>1. size \in Nat /\ pool[m] \in Nat
    BY <1>1 DEF HasLoads, IsPool
  <2>2. areas[m] = pool[m] * size
    BY <1>1
  <2> HIDE DEF size
  <2>3. pool[m] * size \in Nat
    BY <2>1
  <2> QED
    BY <2>2, <2>3
<1>6. sum \in Nat
  BY <1>2, <1>4, <1>5, SumIsNat
<1>7. IsFiniteSet(still) /\ still \subseteq Nat
  <2> DEFINE f == [m \in A \ moving |-> areas[m]]
  <2>1. f \in Surjection(A \ moving, still)
    BY DEF Surjection
  <2>2. IsFiniteSet(A \ moving)
    BY <1>4, FS_Subset
  <2>3. still \subseteq Nat
    BY <1>5
  <2> HIDE DEF f, still
  <2> QED
    BY <2>1, <2>2, <2>3, FS_Surjection
<1>8. \A m \in A \ moving : areas[m] \in still
  OBVIOUS
<1> HIDE DEF still, sum, A
<1>9. IsFiniteSet(S) /\ S \subseteq Nat /\ S \subseteq Int /\ S # {}
  <2>1. IsFiniteSet({sum})
    BY FS_Singleton
  <2>2. IsFiniteSet({sum} \cup still)
    BY <1>7, <2>1, FS_Union
  <2> QED
    BY <1>6, <1>7, <2>2
<1>10. area \in S /\ \A k \in S : k <= area
  <2> HIDE DEF S
  <2> QED
    BY <1>9, GreatestIsOne
<1>11. area \in Nat /\ sum <= area
  <2>1. sum \in S
    OBVIOUS
  <2> HIDE DEF S
  <2> QED
    BY <1>9, <1>10, <2>1
<1>12. \A m \in A : areas[m] <= area
  <2> TAKE m \in A
  <2>1. CASE m \in moving
    <3>1. areas[m] <= sum
      <4>1. {m} \in SUBSET moving /\ \A n \in moving : areas[n] \in Nat
        BY <1>2, <1>5, <2>1 DEF A
      <4>2. SumFunctionOnSet(areas, {m}) <= SumFunctionOnSet(areas, moving)
        BY <1>4, <4>1, SumOfPart
      <4>3. areas[m] \in Int
        BY <1>5
      <4>4. SumFunctionOnSet(areas, {m}) = areas[m]
        BY <4>3, SumOfOne
      <4> QED
        BY <4>2, <4>4 DEF sum
    <3> QED
      BY <1>5, <1>6, <1>11, <3>1
  <2>2. CASE m \notin moving
    <3>1. areas[m] \in S
      BY <1>8, <2>2
    <3> HIDE DEF S
    <3> QED
      BY <1>10, <3>1
  <2> QED
    BY <2>1, <2>2
<1> QED
  BY <1>3, <1>4, <1>5, <1>6, <1>10, <1>11, <1>12 DEF AreaIsGreatest, areas, moving, sum, A

(* Of several agents.                                                      *)
LEMMA LoadAreaOfSeveral ==
  ASSUME NEW o, NEW ask, NEW pool, NumberOfInstances(pool) # 1
  PROVE  LoadArea(o, ask, pool) = Greatest(AreaOptions(o, ask, pool))
BY DEF LoadArea, AreaOptions, Areas, MovingAreas

(* getLoadArea: more agents have no smaller one, where those that have one *)
(* by themselves are known to carry.                                       *)
LEMMA LoadAreaGrows ==
  ASSUME NEW o, HasLoads(o), NEW ask, NEW pool, IsPool(pool), IsFiniteSet(DOMAIN pool), DOMAIN pool \subseteq Members,
         NEW q, HasLess(q, pool), NumberOfInstances(pool) # 1,
         \A n \in DOMAIN pool : LoadAreaSize(o, n) > 0 => Carries(o, ask, n)
  PROVE  LoadArea(o, ask, q) <= LoadArea(o, ask, pool)
<1> DEFINE more == Areas(o, ask, pool)
           less == Areas(o, ask, q)
           moving == MovingAreas(o, ask, pool)
           area == Greatest(AreaOptions(o, ask, pool))
<1>0. IsPool(q) /\ DOMAIN q = DOMAIN pool
  BY DEF HasLess
<1>1. AreaIsGreatest(o, ask, pool) /\ AreaIsGreatest(o, ask, q)
  BY <1>0, AreasAreCompared
<1>2. LoadArea(o, ask, pool) = area
  BY LoadAreaOfSeveral
<1>3. DOMAIN less = DOMAIN more /\ MovingAreas(o, ask, q) = moving
  BY <1>0 DEF Areas, MovingAreas
<1>4. \A m \in DOMAIN more : /\ m \in DOMAIN pool
                             /\ more[m] = pool[m] * LoadAreaSize(o, m) /\ less[m] = q[m] * LoadAreaSize(o, m)
                             /\ LoadAreaSize(o, m) \in Nat
  BY <1>0 DEF Areas, HasLoads
<1>5. /\ IsFiniteSet(DOMAIN more) /\ area \in Nat
      /\ SumFunctionOnSet(more, moving) \in Nat /\ SumFunctionOnSet(more, moving) <= area
      /\ \A m \in DOMAIN more : more[m] \in Nat /\ more[m] <= area /\ less[m] \in Nat
      /\ Greatest(AreaOptions(o, ask, q)) \in AreaOptions(o, ask, q)
  BY <1>1, <1>3 DEF AreaIsGreatest
<1>6. moving \subseteq DOMAIN more
  BY DEF MovingAreas
<1>7. AreaOptions(o, ask, q) = {SumFunctionOnSet(less, moving)} \cup {less[m] : m \in DOMAIN more \ moving}
  BY <1>3 DEF AreaOptions, SumOver, SumFunctionOnSet
<1> HIDE DEF more, less, moving, area
<1>8. \A m \in DOMAIN more : less[m] <= more[m]
  <2> TAKE m \in DOMAIN more
  <2> DEFINE size == LoadAreaSize(o, m)
  <2>1. size \in Nat /\ more[m] = pool[m] * size /\ less[m] = q[m] * size
    BY <1>4
  <2>2. q[m] \in Nat /\ pool[m] \in Nat /\ q[m] <= pool[m]
    BY <1>4 DEF HasLess
  <2> HIDE DEF size
  <2>3. q[m] * size <= pool[m] * size
    BY <2>1, <2>2, MultiplesGrow
  <2> QED
    BY <2>1, <2>3
<1>9. CASE NumberOfInstances(q) # 1
  <2>1. LoadArea(o, ask, q) \in AreaOptions(o, ask, q)
    BY <1>5, <1>9, LoadAreaOfSeveral
  <2>2. \A k \in AreaOptions(o, ask, q) : k <= area
    <3>1. SumFunctionOnSet(less, moving) <= area
      <4>1. IsFiniteSet(moving)
        BY <1>5, <1>6, FS_Subset
      <4>2. \A m \in moving : less[m] \in Int /\ more[m] \in Int /\ less[m] <= more[m]
        BY <1>5, <1>6, <1>8
      <4>3. SumFunctionOnSet(less, moving) <= SumFunctionOnSet(more, moving)
        BY <4>1, <4>2, SumIsMonotonic
      <4>4. SumFunctionOnSet(less, moving) \in Int
        BY <4>1, <4>2, SumIsInt
      <4> QED
        BY <1>5, <4>3, <4>4
    <3>2. \A m \in DOMAIN more : less[m] <= area
      BY <1>5, <1>8
    <3> QED
      BY <1>7, <3>1, <3>2
  <2> QED
    BY <1>2, <2>1, <2>2
<1>10. CASE NumberOfInstances(q) = 1
  <2> DEFINE c == CHOOSE m \in DOMAIN q : q[m] = 1
             size == LoadAreaSize(o, c)
  <2>1. c \in DOMAIN pool /\ q[c] = 1
    BY <1>0, <1>10, OneAgent
  <2>2. LoadArea(o, ask, q) = size
    BY <1>10 DEF LoadArea
  <2> HIDE DEF c
  <2>3. size \in Nat
    BY <2>1 DEF HasLoads
  <2>4. CASE size = 0
    BY <1>2, <1>5, <2>2, <2>4
  <2>5. CASE size > 0
    <3>1. c \in DOMAIN more
      <4>1. Carries(o, ask, c)
        BY <2>1, <2>5
      <4> QED
        BY <2>1, <4>1 DEF more, Areas
    <3>2. less[c] = size
      <4>1. less[c] = q[c] * size
        BY <1>4, <3>1
      <4> HIDE DEF size
      <4> QED
        BY <2>1, <2>3, <4>1
    <3>3. less[c] <= area
      BY <1>5, <1>8, <3>1
    <3> QED
      BY <1>2, <2>2, <3>2, <3>3
  <2> QED
    BY <2>3, <2>4, <2>5
<1> QED
  BY <1>9, <1>10

(* Heights of the manipulators of some agents, and 0.                      *)
Heights(o, D) == {0} \cup UNION {o.heights[m] : m \in D}

(* updateManipulationProperties finds the lowest.                          *)
LEMMA LowestIsLeast ==
  ASSUME NEW o, HasLoads(o), NEW pool, IsFiniteSet(DOMAIN pool), DOMAIN pool \subseteq Members
  PROVE  /\ LowestPick(o, pool) \in Heights(o, DOMAIN pool) /\ Heights(o, DOMAIN pool) \subseteq Int
         /\ DOMAIN pool # {} => \A h \in Heights(o, DOMAIN pool) : LowestPick(o, pool) <= h
<1> DEFINE D == DOMAIN pool
           U == UNION {o.heights[m] : m \in D}
           H == {0} \cup U
           IsLow(h) == \A m \in D : \A k \in o.heights[m] \cup {0} : h <= k
<1>1. \A m \in D : IsFiniteSet(o.heights[m]) /\ o.heights[m] \subseteq Int
  BY DEF HasLoads
<1>2. U \subseteq Int
  BY <1>1
<1>3. IsFiniteSet(U)
  <2> DEFINE sets == {o.heights[m] : m \in D}
             f == [m \in D |-> o.heights[m]]
  <2>1. f \in Surjection(D, sets)
    BY DEF Surjection
  <2>2. \A S \in sets : IsFiniteSet(S)
    BY <1>1
  <2> HIDE DEF f, sets
  <2>3. IsFiniteSet(sets)
    BY <2>1, FS_Surjection
  <2>4. IsFiniteSet(UNION sets)
    BY <2>2, <2>3, FS_UNION
  <2> QED
    BY <2>4 DEF sets
<1>4. \A m \in D : \A k \in o.heights[m] : k \in U
  OBVIOUS
<1> HIDE DEF U
<1>5. IsFiniteSet(H)
  <2>1. IsFiniteSet({0})
    BY FS_Singleton
  <2> QED
    BY <1>3, <2>1, FS_Union
<1>6. H \subseteq Int /\ H # {} /\ 0 \in H /\ \A k \in U : k \in H
  BY <1>2
<1>7. \A m \in D : \A k \in o.heights[m] \cup {0} : k \in H
  BY <1>4, <1>6
<1>8. LowestPick(o, pool) = CHOOSE h \in H : IsLow(h)
  BY DEF LowestPick, U
<1>9. Heights(o, D) = H
  BY DEF Heights, U
<1> HIDE DEF H
<1>10. PICK least \in H : \A k \in H : least <= k
  BY <1>5, <1>6, FiniteHasLeast
<1>11. IsLow(least)
  BY <1>7, <1>10
<1>12. LowestPick(o, pool) \in H /\ IsLow(LowestPick(o, pool))
  BY <1>8, <1>11
<1>13. ASSUME NEW d \in D PROVE \A h \in H : LowestPick(o, pool) <= h
  <2> TAKE h \in H
  <2>1. h = 0 \/ h \in U
    BY DEF H
  <2>2. h = 0 \/ \E m \in D : h \in o.heights[m]
    BY <2>1 DEF U
  <2> QED
    BY <1>12, <2>2
<1> QED
  BY <1>6, <1>9, <1>12, <1>13

(* Fewer agents reach less far down.                                       *)
LEMMA LowestSinks ==
  ASSUME NEW o, HasLoads(o), NEW pool, IsFiniteSet(DOMAIN pool), DOMAIN pool \subseteq Members, DOMAIN pool # {},
         NEW q, DOMAIN q \subseteq DOMAIN pool
  PROVE  LowestPick(o, q) >= LowestPick(o, pool)
<1>1. IsFiniteSet(DOMAIN q) /\ DOMAIN q \subseteq Members
  BY FS_Subset
<1>2. LowestPick(o, q) \in Heights(o, DOMAIN q)
  BY <1>1, LowestIsLeast
<1>3. Heights(o, DOMAIN q) \subseteq Heights(o, DOMAIN pool)
  BY DEF Heights
<1>4. /\ LowestPick(o, pool) \in Int /\ Heights(o, DOMAIN pool) \subseteq Int
      /\ \A h \in Heights(o, DOMAIN pool) : LowestPick(o, pool) <= h
  BY LowestIsLeast
<1>5. LowestPick(o, q) \in Heights(o, DOMAIN pool)
  BY <1>2, <1>3
<1>6. LowestPick(o, pool) <= LowestPick(o, q) /\ LowestPick(o, q) \in Int
  BY <1>4, <1>5
<1> QED
  BY <1>4, <1>6

(* They are as fast as the fastest of them.                                *)
LEMMA FastestIsFaster ==
  ASSUME NEW o, HasValues(o), NEW pool, IsPool(pool), IsFiniteSet(DOMAIN pool), DOMAIN pool \subseteq Members,
         NumberOfInstances(pool) # 1,
         NEW q, IsPool(q), DOMAIN q \subseteq DOMAIN pool
  PROVE  RobotOf(o, q).velocity <= RobotOf(o, pool).velocity
<1> DEFINE top == Highest(o, pool, Velocity)
<1>0. IsFiniteSet(DOMAIN q) /\ DOMAIN q \subseteq Members
  BY FS_Subset
<1>1. top \in Nat /\ \A m \in DOMAIN pool : ValueOr(o, m, Velocity, 0) <= top
  BY HighestIsGreatest
<1>2. RobotOf(o, pool).velocity = top
  <2>1. RobotOf(o, pool) = CompositeRobot(o, pool)
    BY DEF RobotOf
  <2>2. CompositeRobot(o, pool).velocity = top
    BY DEF CompositeRobot
  <2> QED
    BY <2>1, <2>2
<1> HIDE DEF top
<1>3. CASE NumberOfInstances(q) = 1
  <2> DEFINE m == CHOOSE m \in DOMAIN q : q[m] = 1
  <2>1. m \in DOMAIN pool
    BY <1>0, <1>3, OneAgent
  <2>2. RobotOf(o, q) = AtomicRobot(o, m)
    BY <1>3 DEF RobotOf
  <2> HIDE DEF m
  <2>3. AtomicRobot(o, m).velocity = ValueOr(o, m, Velocity, 0)
    BY DEF AtomicRobot
  <2> QED
    BY <1>1, <1>2, <2>1, <2>2, <2>3
<1>4. CASE NumberOfInstances(q) # 1
  <2>1. RobotOf(o, q) = CompositeRobot(o, q)
    BY <1>4 DEF RobotOf
  <2>2. CompositeRobot(o, q).velocity = Highest(o, q, Velocity)
    BY DEF CompositeRobot
  <2>3. Highest(o, q, Velocity) \in {0} \cup {ValueOr(o, m, Velocity, 0) : m \in DOMAIN q}
    BY <1>0, HighestIsGreatest
  <2>4. Highest(o, q, Velocity) <= top
    BY <1>1, <2>3
  <2> QED
    BY <1>2, <2>1, <2>2, <2>4
<1> QED
  BY <1>3, <1>4

(* A single functionality is in order.                                     *)
LEMMA AscendingOfOne ==
  ASSUME NEW f \in Int
  PROVE  Ascending({f}) = <<f>>
<1> DEFINE F == {s \in [1 .. Cardinality({f}) -> {f}] : \A i, j \in DOMAIN s : s[i] < s[j] <=> i < j}
           one == [i \in 1 .. 1 |-> f]
<1>1. Cardinality({f}) = 1
  BY FS_Singleton
<1>2. one = <<f>>
  OBVIOUS
<1>3. one \in [1 .. 1 -> {f}] /\ \A i, j \in DOMAIN one : one[i] < one[j] <=> i < j
  OBVIOUS
<1>4. \A s \in [1 .. 1 -> {f}] : s = one
  <2> TAKE s \in [1 .. 1 -> {f}]
  <2>1. s = [i \in 1 .. 1 |-> s[i]] /\ \A i \in 1 .. 1 : s[i] = f
    OBVIOUS
  <2> QED
    BY <2>1
<1>5. Ascending({f}) = CHOOSE s \in [1 .. Cardinality({f}) -> {f}] : \A i, j \in DOMAIN s : s[i] < s[j] <=> i < j
  BY DEF Ascending
<1> HIDE DEF one
<1>6. Ascending({f}) \in [1 .. 1 -> {f}]
  BY <1>1, <1>3, <1>5
<1> QED
  BY <1>2, <1>4, <1>6

(* getIntersection of a single functionality: its pools.                   *)
IntersectionStep(ask, models, g, i) ==
  CASE i = 0 -> {}
    [] i = 1 -> ask.pools[models[1]]
    [] OTHER -> g[i - 1] \cup (ask.pools[models[i]] \cap g[i - 1])

Intersects(ask, models, g) == g = [i \in 0 .. Len(models) |-> IntersectionStep(ask, models, g, i)]

LEMMA IntersectionUnfolded ==
  ASSUME NEW ask, NEW resources
  PROVE  LET models == Ascending({r.model : r \in resources})
         IN  Intersection(ask, resources) = (CHOOSE g : Intersects(ask, models, g))[Len(models)]
BY DEF Intersection, Intersects, IntersectionStep

LEMMA IntersectionOfOne ==
  ASSUME NEW f \in Int, NEW ask
  PROVE  Intersection(ask, {Plain(f)}) = ask.pools[f]
<1> DEFINE models == <<f>>
           h == CHOOSE g : Intersects(ask, models, g)
           g0 == [i \in 0 .. 1 |-> IF i = 0 THEN {} ELSE ask.pools[f]]
<1>1. {r.model : r \in {Plain(f)}} = {f}
  BY DEF Plain
<1>2. Intersection(ask, {Plain(f)}) = h[Len(models)]
  BY <1>1, AscendingOfOne, IntersectionUnfolded
<1>3. Len(models) = 1 /\ models[1] = f
  OBVIOUS
<1> HIDE DEF models
<1>4. Intersects(ask, models, g0)
  <2>1. \A i \in 0 .. 1 : i = 0 \/ i = 1
    OBVIOUS
  <2>2. IntersectionStep(ask, models, g0, 0) = {} /\ IntersectionStep(ask, models, g0, 1) = ask.pools[f]
    BY <1>3 DEF IntersectionStep
  <2>3. \A i \in 0 .. 1 : IntersectionStep(ask, models, g0, i) = IF i = 0 THEN {} ELSE ask.pools[f]
    <3> HIDE DEF g0
    <3> QED
      BY <2>1, <2>2
  <2>4. g0 = [i \in 0 .. 1 |-> IntersectionStep(ask, models, g0, i)]
    <3> DEFINE e(i) == IF i = 0 THEN {} ELSE ask.pools[f]
    <3>1. g0 = [i \in 0 .. 1 |-> e(i)]
      OBVIOUS
    <3> HIDE DEF g0
    <3> QED
      BY <2>3, <3>1
  <2> HIDE DEF g0
  <2> QED
    BY <1>3, <2>4 DEF Intersects
<1>5. Intersects(ask, models, h)
  <2> HIDE DEF g0
  <2> QED
    BY <1>4
<1> HIDE DEF h, g0
<1>6. h[1] = IntersectionStep(ask, models, h, 1)
  <2>1. 1 \in 0 .. 1
    OBVIOUS
  <2>2. h = [i \in 0 .. 1 |-> IntersectionStep(ask, models, h, i)]
    BY <1>3, <1>5 DEF Intersects
  <2> QED
    BY <2>1, <2>2
<1>7. h[1] = ask.pools[f]
  BY <1>3, <1>6 DEF IntersectionStep
<1> QED
  BY <1>2, <1>3, <1>7

(* getResourceSupport of a single functionality: its pools, too.           *)
LEMMA SupportOfOneIsAll ==
  ASSUME NEW o, NEW ask, NEW agents, IsPool(agents),
         NEW f \in DOMAIN ask.pools, \A q \in ask.pools[f] : IsPart(q, agents)
  PROVE  ResourceSupport(o, ask, {Plain(f)}) = ask.pools[f]
<1> DEFINE r == Plain(f)
           F == [s \in {r} |-> ResourceSupportOf(o, ask, s)]
<1>1. r.model = f /\ r.constraints = {}
  BY DEF Plain
<1>2. ResourceSupport(o, ask, {r}) = FoldFunction(MaxCompositions, {}, F)
  BY <1>1 DEF ResourceSupport
<1>3. DOMAIN F = {r} /\ F[r] = ask.pools[f] /\ IsFiniteSet({r})
  BY <1>1, FS_Singleton DEF ResourceSupportOf
<1>4. \A p \in ask.pools[f] : IsPool(p)
  BY DEF IsPart
<1> HIDE DEF F, r
<1> DEFINE g == CHOOSE g : Composes(F, g, {r})
<1>5. F[r] \in SUBSET AllMaps
  BY <1>3, <1>4, PoolsAreMaps
<1>6. Composes(F, g, {r})
  BY <1>3, <1>5, CompositionsExist
<1>7. FoldFunction(MaxCompositions, {}, F) = g[{r}]
  BY <1>3, CompositionsUnfolded
<1> HIDE DEF g
<1>8. g[{}] = {} /\ g[{r}] = MaxCompositions(F[Chosen({r})], g[{r} \ {Chosen({r})}])
  <2>1. ComposesOn(F, g, {r})
    BY <1>6, ComposesStepwise
  <2>2. {r} \in SUBSET {r} /\ {r} # {}
    OBVIOUS
  <2> QED
    BY <2>1, <2>2 DEF ComposesOn
<1>9. Chosen({r}) = r
  BY ChosenIsElement
<1>10. g[{r}] = MaxCompositions(F[r], {})
  <2>1. {r} \ {r} = {}
    OBVIOUS
  <2> QED
    BY <1>8, <1>9, <2>1
<1>11. g[{r}] = F[r]
  BY <1>10 DEF MaxCompositions
<1> QED
  BY <1>2, <1>3, <1>7, <1>11 DEF r

(* A number within half a word of 0 survives the word.                     *)
LEMMA SignedUnsigned ==
  ASSUME NEW x \in Int, -(WordSize \div 2) <= x, x < WordSize \div 2
  PROVE  Signed(Unsigned(x)) = x
<1> DEFINE W == WordSize
           half == W \div 2
           r == x % W
           k == x \div W
<1>1. W \in Nat /\ W > 0 /\ W = 2 * half /\ half \in Nat
  BY WordAssumption
<1>2. x = k * W + r /\ r \in 0 .. W - 1 /\ k \in Int
  BY <1>1
<1>3. r = IF x < 0 THEN x + W ELSE x
  <2> HIDE DEF W, half, r, k
  <2> DEFINE kw == k * W
  <2>0. x = kw + r /\ kw \in Int
    BY <1>1, <1>2
  <2>00. -half <= x /\ x < half
    BY DEF half, W
  <2>1. k >= 0 => kw >= 0
    BY <1>1, <1>2
  <2>2. k >= 1 => kw >= W
    <3> SUFFICES ASSUME k >= 1 PROVE kw >= W
      OBVIOUS
    <3>1. (k - 1) * W >= 0 /\ (k - 1) * W = k * W - W
      BY <1>1, <1>2
    <3> QED
      BY <1>1, <1>2, <3>1
  <2>3. k <= -1 => kw <= -W
    <3> SUFFICES ASSUME k <= -1 PROVE kw <= -W
      OBVIOUS
    <3>1. (-1 - k) * W >= 0 /\ (-1 - k) * W = -W - k * W
      BY <1>1, <1>2
    <3> QED
      BY <1>1, <1>2, <3>1
  <2>4. k <= -2 => kw <= -(2 * W)
    <3> SUFFICES ASSUME k <= -2 PROVE kw <= -(2 * W)
      OBVIOUS
    <3>1. (-2 - k) * W >= 0 /\ (-2 - k) * W = -(2 * W) - k * W
      BY <1>1, <1>2
    <3> QED
      BY <1>1, <1>2, <3>1
  <2>5. k = 0 => kw = 0
    BY <1>1
  <2>6. k = -1 => kw = -W
    BY <1>1
  <2> HIDE DEF kw
  <2>7. k = 0 \/ k = -1
    <3>1. k <= -2 \/ k = -1 \/ k = 0 \/ k >= 1
      BY <1>2
    <3> QED
      BY <1>1, <1>2, <2>0, <2>00, <2>2, <2>4, <3>1
  <2> QED
    BY <1>1, <1>2, <2>0, <2>00, <2>5, <2>6, <2>7
<1>4. Signed(Unsigned(x)) = IF r < half THEN r ELSE r - W
  BY DEF Signed, Unsigned
<1>5. -half <= x /\ x < half
  BY DEF half, W
<1> HIDE DEF W, half, r, k
<1> QED
  BY <1>1, <1>3, <1>4, <1>5

(* An agent made of a single atomic agent.                                 *)
LEMMA SoleAgent ==
  ASSUME NEW m \in Model, NEW i
  PROVE  /\ TypeOf({<<m, i>>}) = PoolOf(m, 1)
         /\ AgentOf(PoolOf(m, 1)) = {<<m, 0>>}
<1>1. TypeOf({<<m, i>>}) = PoolOf(m, 1)
  <2> DEFINE a == {<<m, i>>}
  <2>1. {x[1] : x \in a} = {m} /\ {x \in a : x[1] = m} = a
    OBVIOUS
  <2>2. Cardinality(a) = 1
    BY FS_Singleton
  <2>3. TypeOf(a) = [n \in {x[1] : x \in a} |-> Cardinality({x \in a : x[1] = n})]
    BY DEF TypeOf
  <2> DEFINE e(n) == Cardinality({x \in a : x[1] = n})
  <2>4. TypeOf(a) = [n \in {m} |-> e(n)]
    BY <2>1, <2>3
  <2>5. e(m) = 1
    BY <2>1, <2>2
  <2> HIDE DEF e
  <2>6. [n \in {m} |-> e(n)] = [n \in {m} |-> 1]
    BY <2>5
  <2> QED
    BY <2>4, <2>6 DEF PoolOf
<1>2. AgentOf(PoolOf(m, 1)) = {<<m, 0>>}
  <2>1. DOMAIN PoolOf(m, 1) = {m} /\ PoolOf(m, 1)[m] = 1
    BY DEF PoolOf
  <2>2. AgentOf(PoolOf(m, 1)) = {<<m, j>> : j \in 0 .. 1 - 1}
    BY <2>1 DEF AgentOf, AtomicAgents
  <2>3. 0 .. 1 - 1 = {0}
    OBVIOUS
  <2> QED
    BY <2>2, <2>3
<1> QED
  BY <1>1, <1>2

(* What it has of a property.                                              *)
LEMMA ValueOfSole ==
  ASSUME NEW o, NEW m \in Model, NEW i, NEW property, AtomicValue(o, property, m) \in Int
  PROVE  ValueSum(o, {<<m, i>>}, property) = AtomicValue(o, property, m)
<1> DEFINE v == AtomicValue(o, property, m)
           p == PoolOf(m, 1)
           f == [n \in DOMAIN p |-> p[n] * AtomicValue(o, property, n)]
<1>1. TypeOf({<<m, i>>}) = p
  BY SoleAgent
<1>2. ValueSum(o, {<<m, i>>}, property) = SumFunctionOnSet(f, DOMAIN p)
  BY <1>1 DEF ValueSum, SumOver, SumFunctionOnSet
<1>3. DOMAIN p = {m} /\ p[m] = 1
  BY DEF PoolOf
<1>4. f[m] = 1 * v
  BY <1>3
<1> HIDE DEF f, v, p
<1>5. f[m] = v /\ f[m] \in Int
  BY <1>4 DEF v
<1>6. SumFunctionOnSet(f, {m}) = f[m]
  BY <1>5, SumOfOne
<1> QED
  BY <1>2, <1>3, <1>5, <1>6 DEF v

(* A team with one agent to carry it.                                      *)
IsLed(o, ask, pool, c) ==
  /\ c \in DOMAIN pool /\ pool[c] = 1 /\ o.value[Capacity][c] > 0
  /\ \A m \in DOMAIN pool : m # c /\ pool[m] > 0 => o.value[Capacity][m] = 0
  /\ o.transportProvider \in DOMAIN ask.pools /\ PoolOf(c, 1) \in ask.pools[o.transportProvider]

IsTransported(o, ask, agents, pool) ==
  /\ HasValues(o) /\ HasTransportRules(o)
  /\ IsPool(agents) /\ \A f \in DOMAIN ask.pools : \A q \in ask.pools[f] : IsPart(q, agents)
  /\ IsPool(pool) /\ IsFiniteSet(DOMAIN pool) /\ DOMAIN pool \subseteq Members

(* Values that no rule determines.                                         *)
LEMMA TransportValues ==
  ASSUME NEW o, HasValues(o), HasTransportRules(o), NEW p \in {Capacity, Demand}, NEW m \in Members
  PROVE  /\ p \in DOMAIN o.ancestors /\ p \in DOMAIN o.value /\ m \in DOMAIN o.value[p]
         /\ AtomicValue(o, p, m) = o.value[p][m] /\ o.value[p][m] \in Nat
<1>1. p \in DOMAIN o.ancestors /\ RuleSource(o, o.atomicRule, p) = {}
  BY DEF HasTransportRules
<1>2. p \in DOMAIN o.value
  BY <1>1 DEF HasValues
<1>3. m \in DOMAIN o.value[p] /\ o.value[p][m] \in Nat
  BY <1>2 DEF HasValues
<1>4. AtomicValue(o, p, m) = o.value[p][m]
  BY <1>1, AtomicValueByRule
<1> QED
  BY <1>1, <1>2, <1>3, <1>4

(* The agent that leads is among the combinations.                         *)
LEMMA LeaderIsCombination ==
  ASSUME NEW pool, IsPool(pool), IsFiniteSet(DOMAIN pool), NEW c \in DOMAIN pool, pool[c] = 1
  PROVE  PoolOf(c, 1) \in AllCombinations(pool, 0) /\ IsPart(PoolOf(c, 1), pool)
<1> DEFINE p == PoolOf(c, 1)
<1>0. c \in Model /\ 1 \in Nat
  BY DEF IsPool
<1>1. /\ IsPool(p) /\ IsFiniteSet(DOMAIN p) /\ DOMAIN p = {c} /\ p[c] = 1
      /\ Count(p, c) = 1 /\ \A k : k # c => Count(p, k) = 0
  BY <1>0, PoolOfOne
<1>2. IsPart(p, pool)
  <2>1. \A m : Count(pool, m) \in Nat
    BY CountIsNatural
  <2>2. Count(pool, c) = 1
    BY DEF Count
  <2>3. \A m : Count(p, m) <= Count(pool, m)
    BY <1>1, <2>1, <2>2
  <2> HIDE DEF p
  <2> QED
    BY <1>1, <2>3 DEF IsPart
<1>3. Compact(p) = p
  <2>1. {n \in DOMAIN p : p[n] # 0} = DOMAIN p
    BY <1>1
  <2>2. p = [n \in DOMAIN p |-> p[n]]
    BY <1>1 DEF IsPool
  <2> HIDE DEF p
  <2> QED
    BY <2>1, <2>2 DEF Compact
<1>4. p # EmptyPool
  <2>1. DOMAIN EmptyPool = {}
    BY DEF EmptyPool
  <2> QED
    BY <1>1, <2>1
<1> HIDE DEF p
<1>5. p \in AllCombinations(pool, 0)
  BY <1>2, <1>3, <1>4, CombinationsAreAllParts
<1> QED
  BY <1>2, <1>5 DEF p

(* What FunctionalityBasedSelection and AgentSizeBasedSelection leave of   *)
(* the combinations of a team.                                             *)
Able(o, ask, pool) ==
  FunctionalityBased(o, ask, TransportProvider(o.transportProvider)[1], {AgentOf(p) : p \in AllCombinations(pool, 0)})
Singles(o, ask, pool) == SizeBased(TransportProvider(o.transportProvider)[2], Able(o, ask, pool))

(* They leave single agents, the one that leads among them.                *)
AreSingles(S, pool, c) ==
  /\ {<<c, 0>>} \in S
  /\ \A a \in S : \E m \in DOMAIN pool : \E i : a = {<<m, i>>} /\ pool[m] > 0 /\ (m = c => i = 0)

LEMMA SinglesAreSelected ==
  ASSUME NEW o, NEW ask, NEW agents, NEW pool, IsTransported(o, ask, agents, pool), NEW c, IsLed(o, ask, pool, c)
  PROVE  AreSingles(Singles(o, ask, pool), pool, c)
<1> DEFINE f == o.transportProvider
           given == {AgentOf(p) : p \in AllCombinations(pool, 0)}
           first == TransportProvider(f)[1]
           second == TransportProvider(f)[2]
           able == Able(o, ask, pool)
           single == Singles(o, ask, pool)
<1>0. able = FunctionalityBased(o, ask, first, given) /\ single = SizeBased(second, able)
  BY DEF Able, Singles
<1>1. first.functionality = f
  BY DEF TransportProvider
<1>2. second.comparison = EQUAL /\ second.size = 1
  BY DEF TransportProvider
<1>3. /\ IsPool(agents) /\ f \in DOMAIN ask.pools /\ \A q \in ask.pools[f] : IsPart(q, agents)
      /\ \A g \in DOMAIN ask.pools : \A q \in ask.pools[g] : IsPart(q, agents)
      /\ IsPool(pool) /\ IsFiniteSet(DOMAIN pool) /\ c \in DOMAIN pool /\ pool[c] = 1
      /\ PoolOf(c, 1) \in ask.pools[f]
  BY DEF IsTransported, IsLed
<1> HIDE DEF f, first, second, able, single
<1>4. able = {AgentOf(p) : p \in {q \in ask.pools[f] : \E a \in given : IsSubset(q, TypeOf(a))}}
  <2>1. ResourceSupport(o, ask, {Plain(f)}) = ask.pools[f]
    BY <1>3, SupportOfOneIsAll
  <2> HIDE DEF given
  <2> QED
    BY <1>0, <1>1, <2>1 DEF FunctionalityBased, Plain
<1>5. single = {a \in able : Cardinality(a) = 1}
  <2>1. \A i : Compare(second.comparison, i, second.size) <=> i = 1
    BY <1>2 DEF Compare, EQUAL, LESS_THAN, LESS_EQUAL, GREATER_EQUAL, GREATER_THAN
  <2> HIDE DEF able
  <2> QED
    BY <1>0, <2>1 DEF SizeBased
<1>6. c \in Model /\ AgentOf(PoolOf(c, 1)) = {<<c, 0>>} /\ TypeOf({<<c, 0>>}) = PoolOf(c, 1)
  <2>1. c \in Model
    BY <1>3 DEF IsPool
  <2> QED
    BY <2>1, SoleAgent
<1>7. {<<c, 0>>} \in given
  <2>1. PoolOf(c, 1) \in AllCombinations(pool, 0)
    BY <1>3, LeaderIsCombination
  <2> QED
    BY <1>6, <2>1
<1>8. able \in SUBSET (SUBSET AgentOf(pool))
  <2>1. given \in SUBSET (SUBSET AgentOf(pool))
    <3>1. \A q \in AllCombinations(pool, 0) : AgentOf(q) \subseteq AgentOf(pool)
      <4> TAKE q \in AllCombinations(pool, 0)
      <4>1. IsPart(q, pool)
        BY <1>3, CombinationsAreParts
      <4> QED
        BY <1>3, <4>1, PartsHaveTheirAgents DEF IsPart
    <3> QED
      BY <3>1
  <2> HIDE DEF given
  <2>2. Selected(o, ask, first, given) \in SUBSET (SUBSET (SUBSET AgentOf(pool)))
    BY <1>3, <2>1, StepSelectsParts
  <2>3. first.kind = "functionality"
    BY DEF first, TransportProvider
  <2>4. Selected(o, ask, first, given) = {able}
    BY <1>0, <2>3 DEF Selected
  <2> HIDE DEF able
  <2> QED
    BY <2>2, <2>4
<1>9. {<<c, 0>>} \in single
  <2>1. IsSubset(PoolOf(c, 1), TypeOf({<<c, 0>>}))
    <3>1. IsPool(PoolOf(c, 1))
      BY <1>3 DEF IsPart
    <3>2. \A m \in Model : Count(PoolOf(c, 1), m) <= Count(PoolOf(c, 1), m)
      <4>1. \A m : Count(PoolOf(c, 1), m) \in Nat
        BY <3>1, CountIsNatural
      <4> QED
        BY <4>1
    <3>3. IsSubset(PoolOf(c, 1), PoolOf(c, 1))
      BY <3>1, <3>2, SubsetByCounts
    <3> QED
      BY <1>6, <3>3
  <2>2. \E a \in given : IsSubset(PoolOf(c, 1), TypeOf(a))
    <3> HIDE DEF given
    <3> QED
      BY <1>7, <2>1
  <2>3. AgentOf(PoolOf(c, 1)) \in able
    <3> HIDE DEF given, able
    <3> QED
      BY <1>3, <1>4, <2>2
  <2>4. Cardinality({<<c, 0>>}) = 1
    BY FS_Singleton
  <2> HIDE DEF able, single
  <2> QED
    BY <1>5, <1>6, <2>3, <2>4
<1>10. ASSUME NEW a \in single
       PROVE  \E m \in DOMAIN pool : \E i : a = {<<m, i>>} /\ pool[m] > 0 /\ (m = c => i = 0)
  <2>1. a \subseteq AgentOf(pool) /\ Cardinality(a) = 1
    <3> HIDE DEF able, single
    <3> QED
      BY <1>5, <1>8
  <2>2. PICK x : a = {x}
    <3>1. a # {}
      <4>1. Cardinality({}) = 0
        BY FS_EmptySet
      <4> QED
        BY <2>1, <4>1
    <3>2. IsFiniteSet(a)
      <4> HIDE DEF single
      <4>1. \E q \in ask.pools[f] : a = AgentOf(q)
        <5> HIDE DEF able, given
        <5> QED
          BY <1>4, <1>5
      <4>2. PICK q \in ask.pools[f] : a = AgentOf(q)
        BY <4>1
      <4>3. IsPool(q) /\ IsFiniteSet(DOMAIN q)
        BY <1>3 DEF IsPart
      <4>4. IsFiniteSet(AgentOf(q))
        <5> DEFINE w == [m \in DOMAIN q |-> 0]
        <5>1. \A m \in DOMAIN q : w[m] \in Nat
          OBVIOUS
        <5> HIDE DEF w
        <5> QED
          BY <4>3, <5>1, SumByModel
      <4> QED
        BY <4>2, <4>4
    <3>3. PICK x : x \in a
      BY <3>1
    <3>4. Cardinality(a \ {x}) = Cardinality(a) - 1 /\ IsFiniteSet(a \ {x})
      <4>1. a \in SUBSET a
        OBVIOUS
      <4> QED
        BY <3>2, <3>3, <4>1, WithoutOne
    <3>5. a \ {x} = {}
      <4>1. Cardinality(a \ {x}) = 0
        BY <2>1, <3>4
      <4> QED
        BY <3>4, <4>1, FS_EmptySet
    <3>6. a = {x}
      BY <3>3, <3>5
    <3> QED
      BY <3>6
  <2>3. x \in AgentOf(pool)
    BY <2>1, <2>2
  <2>4. PICK m \in DOMAIN pool : \E i \in 0 .. pool[m] - 1 : x = <<m, i>>
    BY <2>3 DEF AgentOf, AtomicAgents
  <2>5. PICK i \in 0 .. pool[m] - 1 : x = <<m, i>>
    BY <2>4
  <2>6. pool[m] \in Nat
    BY <1>3 DEF IsPool
  <2>7. pool[m] > 0 /\ (m = c => i = 0)
    BY <1>3, <2>5, <2>6
  <2> QED
    BY <2>2, <2>5, <2>7
<1> QED
  BY <1>9, <1>10 DEF single, AreSingles

(* PropertyBasedSelection leaves the one that leads.                       *)
LEMMA LeaderIsSelected ==
  ASSUME NEW o, NEW ask, NEW agents, NEW pool, IsTransported(o, ask, agents, pool), NEW c, IsLed(o, ask, pool, c)
  PROVE  PropertyBased(o, TransportProvider(o.transportProvider)[3], Singles(o, ask, pool)) = {{{<<c, 0>>}}}
<1> DEFINE S == Singles(o, ask, pool)
           lead == {<<c, 0>>}
           step == TransportProvider(o.transportProvider)[3]
           value == [a \in S |-> ValueSum(o, a, Capacity)]
           best == {a \in S : value[a] > 0 /\ \A b \in S : value[b] <= value[a]}
<1>1. step.operation = "max" /\ step.property = Capacity
  BY DEF TransportProvider
<1>2. /\ lead \in S
      /\ \A a \in S : \E m \in DOMAIN pool : \E i : a = {<<m, i>>} /\ pool[m] > 0 /\ (m = c => i = 0)
  <2>1. AreSingles(Singles(o, ask, pool), pool, c)
    BY SinglesAreSelected
  <2> QED
    BY <2>1 DEF AreSingles
<1>3. /\ HasValues(o) /\ HasTransportRules(o) /\ DOMAIN pool \subseteq Members /\ DOMAIN pool \subseteq Model
      /\ c \in DOMAIN pool /\ o.value[Capacity][c] > 0
      /\ \A m \in DOMAIN pool : m # c /\ pool[m] > 0 => o.value[Capacity][m] = 0
  BY DEF IsTransported, IsLed, IsPool
<1>4. \A m \in DOMAIN pool : \A i : ValueSum(o, {<<m, i>>}, Capacity) = o.value[Capacity][m] /\ o.value[Capacity][m] \in Nat
  <2> TAKE m \in DOMAIN pool
  <2> TAKE i
  <2>1. AtomicValue(o, Capacity, m) = o.value[Capacity][m] /\ o.value[Capacity][m] \in Nat
    BY <1>3, TransportValues
  <2>2. m \in Model /\ AtomicValue(o, Capacity, m) \in Int
    BY <1>3, <2>1
  <2>3. ValueSum(o, {<<m, i>>}, Capacity) = AtomicValue(o, Capacity, m)
    BY <2>2, ValueOfSole
  <2> QED
    BY <2>1, <2>3
<1> HIDE DEF S, step
<1>5. PropertyBased(o, step, S) = IF S = {} THEN {{}} ELSE IF best = {} THEN {{{}}} ELSE {{a} : a \in best}
  BY <1>1 DEF PropertyBased
<1>6. value[lead] = o.value[Capacity][c]
  BY <1>2, <1>3, <1>4
<1>7. ASSUME NEW a \in S PROVE a = lead \/ value[a] = 0
  <2>1. PICK m \in DOMAIN pool : \E i : a = {<<m, i>>} /\ pool[m] > 0 /\ (m = c => i = 0)
    BY <1>2
  <2>2. PICK i : a = {<<m, i>>} /\ pool[m] > 0 /\ (m = c => i = 0)
    BY <2>1
  <2>3. CASE m = c
    BY <2>2, <2>3
  <2>4. CASE m # c
    <3>1. o.value[Capacity][m] = 0
      BY <1>3, <2>2, <2>4
    <3>2. value[a] = ValueSum(o, {<<m, i>>}, Capacity)
      BY <2>2
    <3> QED
      BY <1>4, <3>1, <3>2
  <2> QED
    BY <2>3, <2>4
<1>8. o.value[Capacity][c] \in Nat
  BY <1>3, <1>4
<1> HIDE DEF value, lead
<1>9. best = {lead}
  <2>1. value[lead] > 0 /\ \A b \in S : value[b] <= value[lead]
    <3>1. value[lead] > 0 /\ value[lead] \in Nat
      BY <1>3, <1>6, <1>8
    <3> QED
      BY <1>7, <3>1
  <2>2. \A a \in S : value[a] > 0 => a = lead
    <3> TAKE a \in S
    <3>1. a = lead \/ value[a] = 0
      BY <1>7
    <3> QED
      BY <3>1
  <2> QED
    BY <1>2, <2>1, <2>2
<1> HIDE DEF best
<1>10. PropertyBased(o, step, S) = {{lead}}
  BY <1>2, <1>5, <1>9
<1> QED
  BY <1>10 DEF S, step, lead

(* So does the policy as a whole.                                          *)
LEMMA CarrierIsSelected ==
  ASSUME NEW o, NEW ask, NEW agents, NEW pool, IsTransported(o, ask, agents, pool), NEW c, IsLed(o, ask, pool, c)
  PROVE  Selections(o, ask, PolicyOf(o, "carrier"), {AgentOf(p) : p \in AllCombinations(pool, 0)}) = {{{<<c, 0>>}}}
<1> DEFINE given == {AgentOf(p) : p \in AllCombinations(pool, 0)}
           steps == PolicyOf(o, "carrier")
           chain == CHOOSE after : ChainOf(o, ask, steps, given, after)
<1>0. /\ IsPool(agents) /\ \A g \in DOMAIN ask.pools : \A q \in ask.pools[g] : IsPart(q, agents)
      /\ IsPool(pool) /\ IsFiniteSet(DOMAIN pool)
  BY DEF IsTransported
<1>1. given \in SUBSET (SUBSET AgentOf(pool))
  <2>1. \A q \in AllCombinations(pool, 0) : AgentOf(q) \subseteq AgentOf(pool)
    <3> TAKE q \in AllCombinations(pool, 0)
    <3>1. IsPart(q, pool)
      BY <1>0, CombinationsAreParts
    <3> QED
      BY <1>0, <3>1, PartsHaveTheirAgents DEF IsPart
  <2> QED
    BY <2>1
<1>2. steps = TransportProvider(o.transportProvider)
  BY DEF IsTransported, HasTransportRules
<1>3. Len(steps) = 3 /\ steps[1].kind = "functionality" /\ steps[2].kind = "size" /\ steps[3].kind = "property"
  <2>1. \A f : /\ Len(TransportProvider(f)) = 3 /\ TransportProvider(f)[1].kind = "functionality"
               /\ TransportProvider(f)[2].kind = "size" /\ TransportProvider(f)[3].kind = "property"
    BY DEF TransportProvider
  <2> HIDE DEF steps
  <2> QED
    BY <1>2, <2>1
<1>4. Selections(o, ask, steps, given) = chain[Len(steps)]
  BY SelectionsUnfolded
<1>5. /\ Able(o, ask, pool) = FunctionalityBased(o, ask, steps[1], given)
      /\ Singles(o, ask, pool) = SizeBased(steps[2], Able(o, ask, pool))
      /\ PropertyBased(o, steps[3], Singles(o, ask, pool)) = {{{<<c, 0>>}}}
  <2>1. PropertyBased(o, TransportProvider(o.transportProvider)[3], Singles(o, ask, pool)) = {{{<<c, 0>>}}}
    BY LeaderIsSelected
  <2> HIDE DEF steps
  <2> QED
    BY <1>2, <2>1 DEF Able, Singles
<1> HIDE DEF given, steps
<1>6. ChainOf(o, ask, steps, given, chain)
  <2>1. Len(steps) \in Nat
    BY <1>3
  <2>2. \E after : ChainOf(o, ask, steps, given, after)
    BY <1>0, <1>1, <2>1, SelectionsGoOn
  <2> QED
    BY <2>2
<1> HIDE DEF chain
<1>7. /\ chain[0] = {given} /\ chain[1] = SelectedFrom(o, ask, steps[1], chain[0])
      /\ chain[2] = SelectedFrom(o, ask, steps[2], chain[1]) /\ chain[3] = SelectedFrom(o, ask, steps[3], chain[2])
  <2>1. /\ 0 \in 0 .. Len(steps) /\ 1 \in 0 .. Len(steps) /\ 2 \in 0 .. Len(steps) /\ 3 \in 0 .. Len(steps)
        /\ 1 - 1 = 0 /\ 2 - 1 = 1 /\ 3 - 1 = 2 /\ 1 # 0 /\ 2 # 0 /\ 3 # 0
    BY <1>3
  <2>2. \A i \in 0 .. Len(steps) : chain[i] = AfterStep(o, ask, steps, chain, given, i)
    BY <1>6 DEF ChainOf
  <2>3. /\ chain[0] = AfterStep(o, ask, steps, chain, given, 0) /\ chain[1] = AfterStep(o, ask, steps, chain, given, 1)
        /\ chain[2] = AfterStep(o, ask, steps, chain, given, 2) /\ chain[3] = AfterStep(o, ask, steps, chain, given, 3)
    BY <2>1, <2>2
  <2>4. chain[0] = {given}
    BY <2>3 DEF AfterStep
  <2>5. chain[1] = SelectedFrom(o, ask, steps[1], chain[0])
    BY <2>1, <2>3 DEF AfterStep
  <2>6. chain[2] = SelectedFrom(o, ask, steps[2], chain[1])
    BY <2>1, <2>3 DEF AfterStep
  <2>7. chain[3] = SelectedFrom(o, ask, steps[3], chain[2])
    BY <2>1, <2>3 DEF AfterStep
  <2> QED
    BY <2>4, <2>5, <2>6, <2>7
<1>8. chain[1] = {Able(o, ask, pool)}
  <2>1. Selected(o, ask, steps[1], given) = {FunctionalityBased(o, ask, steps[1], given)}
    BY <1>3 DEF Selected
  <2>2. SelectedFrom(o, ask, steps[1], {given}) = Selected(o, ask, steps[1], given)
    BY DEF SelectedFrom
  <2> QED
    BY <1>5, <1>7, <2>1, <2>2
<1>9. chain[2] = {Singles(o, ask, pool)}
  <2>1. Selected(o, ask, steps[2], Able(o, ask, pool)) = {SizeBased(steps[2], Able(o, ask, pool))}
    BY <1>3 DEF Selected
  <2>2. SelectedFrom(o, ask, steps[2], {Able(o, ask, pool)}) = Selected(o, ask, steps[2], Able(o, ask, pool))
    BY DEF SelectedFrom
  <2> QED
    BY <1>5, <1>7, <1>8, <2>1, <2>2
<1>10. chain[3] = {{{<<c, 0>>}}}
  <2>1. Selected(o, ask, steps[3], Singles(o, ask, pool)) = PropertyBased(o, steps[3], Singles(o, ask, pool))
    BY <1>3 DEF Selected
  <2>2. SelectedFrom(o, ask, steps[3], {Singles(o, ask, pool)}) = Selected(o, ask, steps[3], Singles(o, ask, pool))
    BY DEF SelectedFrom
  <2> QED
    BY <1>5, <1>7, <1>9, <2>1, <2>2
<1> QED
  BY <1>3, <1>4, <1>10 DEF given, steps

(* The agents of a pool, with and without empty entries, are the same.     *)
LEMMA AgentsOfCompact ==
  ASSUME NEW pool, IsPool(pool)
  PROVE  AgentOf(pool) = AgentOf(Compact(pool))
<1> DEFINE t == Compact(pool)
<1>1. IsPool(t) /\ \A m : Count(t, m) = Count(pool, m)
  BY CompactByCounts
<1>2. \A m : Count(pool, m) \in Nat
  BY CountIsNatural
<1> HIDE DEF t
<1>3. \A m \in Model : Count(t, m) <= Count(pool, m) /\ Count(pool, m) <= Count(t, m)
  BY <1>1, <1>2
<1>4. AgentOf(t) \subseteq AgentOf(pool) /\ AgentOf(pool) \subseteq AgentOf(t)
  BY <1>1, <1>3, PartsHaveTheirAgents
<1> QED
  BY <1>4 DEF t

(* A pool has as many agents as without its empty entries.                 *)
LEMMA InstancesOfCompact ==
  ASSUME NEW pool, IsPool(pool), IsFiniteSet(DOMAIN pool)
  PROVE  LET t == Compact(pool)
         IN  /\ IsPool(t) /\ IsFiniteSet(DOMAIN t) /\ DOMAIN t \subseteq DOMAIN pool /\ Compact(t) = t
             /\ NumberOfInstances(t) = NumberOfInstances(pool)
<1> DEFINE t == Compact(pool)
           M == DOMAIN pool
<1>1. IsPool(t) /\ \A m : Count(t, m) = Count(pool, m)
  BY CompactByCounts
<1>2. DOMAIN t \subseteq DOMAIN pool
  BY DEF Compact
<1>3. Compact(t) = t
  BY <1>1, SameCounts
<1> HIDE DEF t
<1>4. IsFiniteSet(DOMAIN t)
  BY <1>2, FS_Subset
<1>5. NumberOfInstances(t) = SumFunctionOnSet(Counts(t, M), M) /\ NumberOfInstances(pool) = SumFunctionOnSet(Counts(pool, M), M)
  BY <1>1, <1>2, InstancesByCounts
<1>6. Counts(t, M) = Counts(pool, M)
  BY <1>1 DEF Counts
<1> QED
  BY <1>1, <1>2, <1>3, <1>4, <1>5, <1>6 DEF t

(* What is left of a team without the agent that leads, which count for one*)
(* unit each.                                                              *)
LEMMA RestOfLeader ==
  ASSUME NEW o, NEW ask, NEW agents, NEW pool, IsTransported(o, ask, agents, pool),
         NEW c \in DOMAIN pool, pool[c] = 1, \A m \in DOMAIN pool : o.value[Demand][m] = 1
  PROVE  /\ ValueSum(o, Rest(pool, {<<c, 0>>}), Demand) = NumberOfInstances(pool) - 1
         /\ NumberOfInstances(pool) \in Nat
<1> DEFINE lead == PoolOf(c, 1)
           q == FewerBy(pool, c)
           t == Compact(q)
           w == SharesOf(o, Demand, t)
           f == [m \in DOMAIN t |-> t[m] * w[m]]
<1>0. /\ HasValues(o) /\ HasTransportRules(o) /\ IsPool(pool) /\ IsFiniteSet(DOMAIN pool)
      /\ DOMAIN pool \subseteq Members /\ c \in Model
  BY DEF IsTransported, IsPool
<1>1. /\ IsPool(q) /\ DOMAIN q = DOMAIN pool
      /\ NumberOfInstances(q) = NumberOfInstances(pool) - 1 /\ NumberOfInstances(pool) \in Nat
  <2>1. pool[c] > 0
    OBVIOUS
  <2> HIDE DEF q
  <2> QED
    BY <1>0, <2>1, OneFewer DEF q
<1>2. TypeOf({<<c, 0>>}) = lead
  BY <1>0, SoleAgent
<1>3. Delta(lead, pool) = q
  <2>1. /\ DOMAIN lead = {c} /\ Count(lead, c) = 1 /\ \A k : k # c => Count(lead, k) = 0
    <3>1. 1 \in Nat
      OBVIOUS
    <3> QED
      BY <1>0, <3>1, PoolOfOne
  <2>2. \A m \in DOMAIN pool : Count(pool, m) = pool[m] /\ pool[m] \in Nat
    BY <1>0 DEF IsPool, Count
  <2>3. DOMAIN lead \cup DOMAIN pool = DOMAIN pool
    BY <2>1
  <2> HIDE DEF lead
  <2>4. \A m \in DOMAIN pool : Count(pool, m) - Count(lead, m) = IF m = c THEN pool[c] - 1 ELSE pool[m]
    BY <2>1, <2>2
  <2>5. Delta(lead, pool) = [m \in DOMAIN pool |-> IF m = c THEN pool[c] - 1 ELSE pool[m]]
    BY <2>3, <2>4 DEF Delta
  <2>6. q = [m \in DOMAIN pool |-> IF m = c THEN pool[c] - 1 ELSE pool[m]]
    BY DEF FewerBy
  <2> QED
    BY <2>5, <2>6
<1>4. Rest(pool, {<<c, 0>>}) = AgentOf(t)
  <2>1. Rest(pool, {<<c, 0>>}) = AgentOf(q)
    BY <1>2, <1>3 DEF Rest
  <2> QED
    BY <1>1, <2>1, AgentsOfCompact
<1> HIDE DEF q
<1>5. /\ IsPool(t) /\ IsFiniteSet(DOMAIN t) /\ DOMAIN t \subseteq DOMAIN pool /\ Compact(t) = t
      /\ NumberOfInstances(t) = NumberOfInstances(pool) - 1
  BY <1>0, <1>1, InstancesOfCompact
<1> HIDE DEF t
<1>6. Demand \in DOMAIN o.ancestors
  BY <1>0 DEF HasTransportRules
<1>7. ValueSum(o, AgentOf(t), Demand) = WeightedSum(t, w)
  BY <1>0, <1>5, <1>6, TeamsValue
<1>8. \A m \in DOMAIN t : f[m] = t[m] /\ f[m] \in Int
  <2> TAKE m \in DOMAIN t
  <2>1. AtomicValue(o, Demand, m) = 1
    <3>1. m \in DOMAIN pool /\ m \in Members
      BY <1>0, <1>5
    <3>2. AtomicValue(o, Demand, m) = o.value[Demand][m]
      BY <1>0, <3>1, TransportValues
    <3> QED
      BY <3>1, <3>2
  <2>2. w[m] = 1
    BY <2>1 DEF SharesOf
  <2>3. t[m] \in Nat
    BY <1>5 DEF IsPool
  <2>4. f[m] = t[m] * w[m]
    OBVIOUS
  <2> HIDE DEF w, f
  <2> QED
    BY <2>2, <2>3, <2>4
<1>9. WeightedSum(t, w) = SumFunctionOnSet(f, DOMAIN t)
  BY DEF WeightedSum, SumOver, SumFunctionOnSet
<1> HIDE DEF w, f
<1>10. SumFunctionOnSet(f, DOMAIN t) = SumFunctionOnSet(t, DOMAIN t)
  BY <1>5, <1>8, SumIsDetermined
<1>11. NumberOfInstances(t) = SumFunctionOnSet(t, DOMAIN t)
  BY DEF NumberOfInstances, FoldFunction, SumFunctionOnSet
<1> QED
  BY <1>1, <1>4, <1>5, <1>7, <1>9, <1>10, <1>11

(* What a team can carry is what the agent that leads can.                 *)
LEMMA LoadOfLeader ==
  ASSUME NEW o, NEW ask, NEW agents, NEW pool, IsTransported(o, ask, agents, pool), NEW c, IsLed(o, ask, pool, c)
  PROVE  Total(o, pool, Capacity) = o.value[Capacity][c] /\ o.value[Capacity][c] \in Nat
<1> DEFINE D == DOMAIN pool
           f == [m \in D |-> pool[m] * ValueOr(o, m, Capacity, 0)]
<1>0. /\ HasValues(o) /\ HasTransportRules(o) /\ IsPool(pool) /\ IsFiniteSet(D) /\ D \subseteq Members
      /\ c \in D /\ pool[c] = 1 /\ \A m \in D : m # c /\ pool[m] > 0 => o.value[Capacity][m] = 0
  BY DEF IsTransported, IsLed
<1>1. \A m \in D : /\ ValueOr(o, m, Capacity, 0) = o.value[Capacity][m] /\ o.value[Capacity][m] \in Nat
                   /\ pool[m] \in Nat
  <2> TAKE m \in D
  <2>1. Capacity \in DOMAIN o.value /\ m \in DOMAIN o.value[Capacity] /\ o.value[Capacity][m] \in Nat
    BY <1>0, TransportValues
  <2>2. pool[m] \in Nat
    BY <1>0 DEF IsPool
  <2> QED
    BY <2>1, <2>2 DEF ValueOr
<1>2. \A m \in D : f[m] = pool[m] * o.value[Capacity][m]
  <2> TAKE m \in D
  <2>1. f[m] = pool[m] * ValueOr(o, m, Capacity, 0)
    OBVIOUS
  <2>2. ValueOr(o, m, Capacity, 0) = o.value[Capacity][m]
    BY <1>1
  <2> QED
    BY <2>1, <2>2
<1>3. Total(o, pool, Capacity) = SumFunctionOnSet(f, D)
  BY DEF Total, SumOver, SumFunctionOnSet
<1> HIDE DEF f
<1>4. f[c] = o.value[Capacity][c] /\ \A m \in D \ {c} : f[m] = 0
  <2>1. f[c] = o.value[Capacity][c]
    <3> DEFINE v == o.value[Capacity][c]
    <3>1. v \in Nat /\ f[c] = 1 * v
      BY <1>0, <1>1, <1>2
    <3> HIDE DEF v
    <3>2. f[c] = v
      BY <3>1
    <3> QED
      BY <3>2 DEF v
  <2>2. ASSUME NEW m \in D \ {c} PROVE f[m] = 0
    <3> DEFINE v == o.value[Capacity][m]
    <3>1. v \in Nat /\ pool[m] \in Nat /\ f[m] = pool[m] * v /\ (pool[m] > 0 => v = 0)
      BY <1>0, <1>1, <1>2
    <3> HIDE DEF v
    <3>2. CASE pool[m] > 0
      BY <3>1, <3>2
    <3>3. CASE pool[m] = 0
      BY <3>1, <3>3
    <3> QED
      BY <3>1, <3>2, <3>3
  <2> QED
    BY <2>1, <2>2
<1>5. \A m \in D : f[m] \in Int
  <2>1. \A m \in D : m = c \/ m \in D \ {c}
    OBVIOUS
  <2>2. o.value[Capacity][c] \in Int /\ 0 \in Int
    BY <1>0, <1>1
  <2> QED
    BY <1>4, <2>1, <2>2
<1>6. SumFunctionOnSet(f, D) = SumFunctionOnSet(f, {c})
  <2>1. {c} \in SUBSET D
    BY <1>0
  <2> QED
    BY <1>0, <1>4, <1>5, <2>1, SumWithoutZeros
<1>7. SumFunctionOnSet(f, {c}) = f[c]
  BY <1>0, <1>5, SumOfOne
<1> QED
  BY <1>0, <1>1, <1>3, <1>4, <1>6, <1>7

(* OPCall::evalComposite with a policy that leaves no choice.              *)
Taken(call, pool, a) == IF call.inverse THEN Rest(pool, a) ELSE a

LEMMA CallOfOne ==
  ASSUME NEW o, NEW ask, NEW call, NEW pool, NEW property, NEW a,
         Selections(o, ask, PolicyOf(o, call.policy), {AgentOf(p) : p \in AllCombinations(pool, 0)}) = {{a}}
  PROVE  CallValues(o, ask, call, pool, property)
            = {call.sign * ValueSum(o, Taken(call, pool, a), IF call.property = Self THEN property ELSE call.property)}
<1> DEFINE given == {AgentOf(p) : p \in AllCombinations(pool, 0)}
           of == IF call.property = Self THEN property ELSE call.property
           value(S) == IF S = {} THEN {0} ELSE {call.sign * ValueSum(o, Taken(call, pool, b), of) : b \in S}
<1>1. CallValues(o, ask, call, pool, property)
        = UNION {value(S) : S \in Selections(o, ask, PolicyOf(o, call.policy), given)}
  BY DEF CallValues, Taken
<1>2. value({a}) = {call.sign * ValueSum(o, Taken(call, pool, a), of)}
  OBVIOUS
<1>3. UNION {value(S) : S \in {{a}}} = value({a})
  OBVIOUS
<1> HIDE DEF value, given, of
<1> QED
  BY <1>1, <1>2, <1>3 DEF given, of

(* What a team with one agent to carry it can still carry, by the rule.    *)
LEMMA TransportByRule ==
  ASSUME NEW o, NEW ask, NEW agents, NEW pool, IsTransported(o, ask, agents, pool), NEW c, IsLed(o, ask, pool, c),
         \A m \in DOMAIN pool : o.value[Demand][m] = 1, NumberOfInstances(pool) > 1
  PROVE  PropertyValuesOf(o, ask, pool, Capacity) = {o.value[Capacity][c] - (NumberOfInstances(pool) - 1)}
<1> DEFINE n == NumberOfInstances(pool)
           v == o.value[Capacity][c]
           lead == {<<c, 0>>}
           rule == o.compositeRule[Capacity]
           given == {AgentOf(p) : p \in AllCombinations(pool, 0)}
<1>0. /\ HasValues(o) /\ HasTransportRules(o) /\ DOMAIN pool \subseteq Members /\ DOMAIN pool \subseteq Model
      /\ c \in DOMAIN pool /\ pool[c] = 1
  BY DEF IsTransported, IsLed, IsPool
<1>1. n \in Nat /\ ValueSum(o, Rest(pool, lead), Demand) = n - 1
  BY <1>0, RestOfLeader
<1>2. v \in Nat /\ ValueSum(o, lead, Capacity) = v
  <2>1. AtomicValue(o, Capacity, c) = v /\ v \in Nat
    BY <1>0, TransportValues
  <2>2. ValueSum(o, lead, Capacity) = AtomicValue(o, Capacity, c)
    BY <1>0, <2>1, ValueOfSole
  <2> QED
    BY <2>1, <2>2
<1>3. Selections(o, ask, PolicyOf(o, "carrier"), given) = {{lead}}
  BY CarrierIsSelected
<1>4. RuleSource(o, o.compositeRule, Capacity) = {Capacity} /\ rule \in {TransportRule(Self), TransportRule(Capacity)}
  BY <1>0 DEF HasTransportRules
<1>5. Self # Capacity /\ Self # Demand
  BY <1>0 DEF HasTransportRules
<1>6. PropertyValuesOf(o, ask, pool, Capacity) = RuleValues(o, ask, rule, pool, Capacity)
  <2>1. ~(NumberOfInstances(pool) <= 1)
    BY <1>1
  <2>2. (CHOOSE q \in RuleSource(o, o.compositeRule, Capacity) : TRUE) = Capacity
    BY <1>4
  <2>3. RuleSource(o, o.compositeRule, Capacity) # {}
    BY <1>4
  <2> QED
    BY <2>1, <2>2, <2>3 DEF PropertyValuesOf
<1> HIDE DEF rule
<1>7. \E property \in {Self, Capacity} :
         Len(rule) = 2 /\ rule[1] = SumOf("carrier", FALSE, property, 1) /\ rule[2] = SumOf("carrier", TRUE, Demand, -1)
  <2>1. \A property : /\ Len(TransportRule(property)) = 2
                      /\ TransportRule(property)[1] = SumOf("carrier", FALSE, property, 1)
                      /\ TransportRule(property)[2] = SumOf("carrier", TRUE, Demand, -1)
    <3> TAKE property
    <3> DEFINE one == SumOf("carrier", FALSE, property, 1)
               two == SumOf("carrier", TRUE, Demand, -1)
    <3>1. TransportRule(property) = <<one, two>>
      BY DEF TransportRule
    <3> HIDE DEF one, two
    <3>2. Len(<<one, two>>) = 2 /\ <<one, two>>[1] = one /\ <<one, two>>[2] = two
      OBVIOUS
    <3> QED
      BY <3>1, <3>2 DEF one, two
  <2> QED
    BY <1>4, <2>1
<1>8. PICK property \in {Self, Capacity} :
         Len(rule) = 2 /\ rule[1] = SumOf("carrier", FALSE, property, 1) /\ rule[2] = SumOf("carrier", TRUE, Demand, -1)
  BY <1>7
<1>9. /\ rule[1].policy = "carrier" /\ ~rule[1].inverse /\ rule[1].property = property /\ rule[1].sign = 1
      /\ rule[2].policy = "carrier" /\ rule[2].inverse /\ rule[2].property = Demand /\ rule[2].sign = -1
  BY <1>8 DEF SumOf
<1> HIDE DEF n, v, lead, given
<1>10. CallValues(o, ask, rule[1], pool, Capacity) = {v}
  <2>1. (IF rule[1].property = Self THEN Capacity ELSE rule[1].property) = Capacity
    BY <1>8, <1>9
  <2>2. Taken(rule[1], pool, lead) = lead
    BY <1>9 DEF Taken
  <2>3. CallValues(o, ask, rule[1], pool, Capacity) = {rule[1].sign * ValueSum(o, lead, Capacity)}
    <3>1. Selections(o, ask, PolicyOf(o, rule[1].policy), given) = {{lead}}
      BY <1>3, <1>9
    <3> QED
      BY <2>1, <2>2, <3>1, CallOfOne DEF given
  <2>4. 1 * v = v
    BY <1>2
  <2> QED
    BY <1>2, <1>9, <2>3, <2>4
<1>11. CallValues(o, ask, rule[2], pool, Capacity) = {-1 * (n - 1)}
  <2>1. (IF rule[2].property = Self THEN Capacity ELSE rule[2].property) = Demand
    BY <1>5, <1>9
  <2>2. Taken(rule[2], pool, lead) = Rest(pool, lead)
    BY <1>9 DEF Taken
  <2>3. CallValues(o, ask, rule[2], pool, Capacity) = {rule[2].sign * ValueSum(o, Rest(pool, lead), Demand)}
    <3>1. Selections(o, ask, PolicyOf(o, rule[2].policy), given) = {{lead}}
      BY <1>3, <1>9
    <3> QED
      BY <2>1, <2>2, <3>1, CallOfOne DEF given
  <2> QED
    BY <1>1, <1>9, <2>3
<1>12. RuleValues(o, ask, rule, pool, Capacity) = SumsOfTwo({v}, {-1 * (n - 1)})
  <2>1. Len(rule) \in {1, 2} /\ Len(rule) # 1
    BY <1>8
  <2> QED
    BY <1>10, <1>11, <2>1, RuleAddsUp
<1>13. SumsOfTwo({v}, {-1 * (n - 1)}) = {v - (n - 1)}
  <2>1. 0 + v + (-1 * (n - 1)) = v - (n - 1)
    BY <1>1, <1>2
  <2>2. SumsOfOne({v}) = {0 + v}
    BY DEF SumsOfOne
  <2> QED
    BY <2>1, <2>2 DEF SumsOfTwo
<1> QED
  BY <1>6, <1>12, <1>13 DEF v, n

(* As an attribute, in unsigned words.                                     *)
LEMMA TransportByWords ==
  ASSUME NEW o, NEW ask, NEW agents, NEW pool, IsTransported(o, ask, agents, pool), NEW c, IsLed(o, ask, pool, c),
         NumberOfInstances(pool) \in Nat, NumberOfInstances(pool) > 1, NumberOfInstances(pool) <= WordSize \div 2,
         Total(o, pool, Capacity) < WordSize \div 2,
         o.moveTo \in Int, o.moveTo \in DOMAIN ask.pools, PoolOf(c, 1) \in ask.pools[o.moveTo], IsFeasible(o, pool)
  PROVE  SupplyDemand(o, ask, RobotOf(o, pool)) = o.value[Capacity][c] - (NumberOfInstances(pool) - 1)
<1> DEFINE n == NumberOfInstances(pool)
           v == o.value[Capacity][c]
           robot == RobotOf(o, pool)
           half == WordSize \div 2
<1>1. robot = CompositeRobot(o, pool)
  BY DEF RobotOf
<1>2. robot.pool = pool /\ robot.capacity = Unsigned(Total(o, pool, Capacity) - n + 1)
  BY <1>1 DEF CompositeRobot
<1>3. Total(o, pool, Capacity) = v /\ v \in Nat
  BY LoadOfLeader
<1>4. IsSupporting(o, ask, pool, {Plain(o.moveTo)})
  <2>1. Intersection(ask, {Plain(o.moveTo)}) = ask.pools[o.moveTo]
    BY IntersectionOfOne
  <2>2. IsSubset(PoolOf(c, 1), pool)
    <3>1. IsPool(pool) /\ IsFiniteSet(DOMAIN pool) /\ c \in DOMAIN pool /\ pool[c] = 1
      BY DEF IsTransported, IsLed
    <3>2. IsPart(PoolOf(c, 1), pool)
      BY <3>1, LeaderIsCombination
    <3> QED
      BY <3>1, <3>2, SubsetByCounts DEF IsPart
  <2> QED
    BY <2>1, <2>2 DEF IsSupporting
<1>5. SupplyDemand(o, ask, robot) = Signed(robot.capacity)
  <2> HIDE DEF robot
  <2> QED
    BY <1>2, <1>4 DEF SupplyDemand, Plain
<1> DEFINE x == v - n + 1
<1>6. x \in Int /\ -half <= x /\ x < half /\ x = v - (n - 1)
  <2>1. n \in Nat /\ n > 1 /\ n <= half /\ v < half /\ v \in Nat
    BY <1>3
  <2>2. half \in Int
    BY WordAssumption
  <2> HIDE DEF n, v, half
  <2> QED
    BY <2>1, <2>2
<1>7. Signed(Unsigned(x)) = x
  <2> HIDE DEF x
  <2> QED
    BY <1>6, SignedUnsigned
<1>8. Signed(robot.capacity) = Signed(Unsigned(x))
  BY <1>2, <1>3
<1> HIDE DEF x, robot, v, n
<1> QED
  BY <1>5, <1>6, <1>7, <1>8 DEF robot, v, n

(* What a known team is, and is asked with.                                *)
IsCrew(o, ask, pool) ==
  /\ HasValues(o) /\ HasTransportRules(o) /\ HasLoads(o)
  /\ IsPool(pool) /\ IsFiniteSet(DOMAIN pool) /\ DOMAIN pool \subseteq Members
  /\ NumberOfInstances(pool) > 1 /\ pool \in Pools
  /\ IsPool(ask.pool) /\ \A f \in DOMAIN ask.pools : f \in Int /\ \A q \in ask.pools[f] : IsPart(q, ask.pool)

(* A team with one agent more has no less.                                 *)
LEMMA TeamsGrow ==
  ASSUME NEW o, NEW ask, NEW pool, IsCrew(o, ask, pool), NEW m \in DOMAIN pool, pool[m] > 0
  PROVE  LET q == FewerBy(pool, m)
         IN  /\ (\A n \in DOMAIN pool : LoadAreaSize(o, n) > 0 => Carries(o, ask, n)) =>
                   LoadArea(o, ask, q) <= LoadArea(o, ask, pool)
             /\ TransportableMass(o, ask, q) <= TransportableMass(o, ask, pool)
             /\ LowestPick(o, Compact(q)) >= LowestPick(o, pool)
             /\ RobotOf(o, Compact(q)).velocity <= RobotOf(o, pool).velocity
<1> DEFINE q == FewerBy(pool, m)
           t == Compact(q)
<1>0. /\ HasValues(o) /\ HasLoads(o) /\ IsPool(pool) /\ IsFiniteSet(DOMAIN pool) /\ DOMAIN pool \subseteq Members
      /\ NumberOfInstances(pool) > 1
  BY DEF IsCrew
<1>1. /\ IsPool(q) /\ DOMAIN q = DOMAIN pool
      /\ \A n \in DOMAIN pool : q[n] \in Nat /\ pool[n] \in Nat /\ q[n] <= pool[n]
      /\ NumberOfInstances(pool) \in Nat
  BY <1>0, OneFewer
<1> HIDE DEF q
<1>2. HasLess(q, pool)
  BY <1>1 DEF HasLess
<1>3. NumberOfInstances(pool) # 1 /\ DOMAIN pool # {}
  BY <1>0, <1>1
<1>4. IsPool(t) /\ DOMAIN t \subseteq DOMAIN pool
  BY <1>0, <1>1, InstancesOfCompact
<1>5. ASSUME \A n \in DOMAIN pool : LoadAreaSize(o, n) > 0 => Carries(o, ask, n)
      PROVE  LoadArea(o, ask, q) <= LoadArea(o, ask, pool)
  BY <1>0, <1>2, <1>3, <1>5, LoadAreaGrows
<1>6. TransportableMass(o, ask, q) <= TransportableMass(o, ask, pool)
  BY <1>0, <1>2, MassGrows
<1> HIDE DEF t
<1>7. LowestPick(o, t) >= LowestPick(o, pool)
  BY <1>0, <1>3, <1>4, LowestSinks
<1>8. RobotOf(o, t).velocity <= RobotOf(o, pool).velocity
  BY <1>0, <1>3, <1>4, FastestIsFaster
<1> QED
  BY <1>5, <1>6, <1>7, <1>8 DEF q, t

(* What the one carrier of a team can still carry: both ways agree.        *)
LEMMA TeamsCarry ==
  ASSUME NEW o, NEW ask, NEW pool, IsCrew(o, ask, pool), NEW c \in DOMAIN pool, pool[c] = 1,
         {m \in DOMAIN pool : pool[m] > 0 /\ o.value[Capacity][m] > 0} = {c}, IsFeasible(o, pool),
         \A f \in {o.moveTo, o.transportProvider} : f \in DOMAIN ask.pools /\ PoolOf(c, 1) \in ask.pools[f],
         \A m \in DOMAIN pool : o.value[Demand][m] = 1
  PROVE  {SupplyDemand(o, ask, RobotOf(o, pool))} = PropertyValuesOf(o, ask, pool, Capacity)
<1>1. /\ HasValues(o) /\ HasTransportRules(o) /\ IsPool(pool) /\ IsFiniteSet(DOMAIN pool) /\ DOMAIN pool \subseteq Members
      /\ NumberOfInstances(pool) > 1
  BY DEF IsCrew
<1>2. IsTransported(o, ask, ask.pool, pool)
  BY <1>1 DEF IsTransported, IsCrew
<1>3. IsLed(o, ask, pool, c)
  <2>1. \A m \in DOMAIN pool : o.value[Capacity][m] \in Nat
    BY <1>1, TransportValues
  <2>2. ASSUME NEW m \in DOMAIN pool, m # c, pool[m] > 0 PROVE o.value[Capacity][m] = 0
    <3>1. ~(o.value[Capacity][m] > 0)
      BY <2>2
    <3>2. o.value[Capacity][m] \in Nat
      BY <2>1
    <3> DEFINE v == o.value[Capacity][m]
    <3> HIDE DEF v
    <3>3. v \in Nat /\ ~(v > 0) => v = 0
      OBVIOUS
    <3> QED
      BY <3>1, <3>2, <3>3 DEF v
  <2>3. o.value[Capacity][c] > 0
    OBVIOUS
  <2> QED
    BY <2>2, <2>3 DEF IsLed
<1>4. NumberOfInstances(pool) \in Nat
  BY <1>2, RestOfLeader
<1>5. Total(o, pool, Capacity) < WordSize \div 2 /\ NumberOfInstances(pool) <= WordSize \div 2
  BY DEF IsCrew, HasLoads
<1>6. o.moveTo \in DOMAIN ask.pools /\ o.moveTo \in Int /\ PoolOf(c, 1) \in ask.pools[o.moveTo]
  BY DEF IsCrew
<1>7. SupplyDemand(o, ask, RobotOf(o, pool)) = o.value[Capacity][c] - (NumberOfInstances(pool) - 1)
  BY <1>1, <1>2, <1>3, <1>4, <1>5, <1>6, TransportByWords
<1>8. PropertyValuesOf(o, ask, pool, Capacity) = {o.value[Capacity][c] - (NumberOfInstances(pool) - 1)}
  BY <1>1, <1>2, <1>3, TransportByRule
<1> QED
  BY <1>7, <1>8

(* TeamsAddUp: for all ontologies of robots that have the repository's     *)
(* rules for transport, and all teams.                                     *)
THEOREM TeamsHold == Spec => []TeamsAddUp
<1>1. AsksTypeOK /\ TeamsTypeOK => TeamsAddUp
  <2> DEFINE o == case.o
             ask == case.ask
             pool == case.pool
             carriers == {m \in DOMAIN pool : pool[m] > 0 /\ o.value[Capacity][m] > 0}
  <2> SUFFICES ASSUME AsksTypeOK, TeamsTypeOK, case.kind = "team", NumberOfInstances(pool) > 1
               PROVE  TeamsAddUp
    BY DEF TeamsAddUp
  <2>1. PICK p \in AskedPools \cup CrewPools, bounded \in BOOLEAN, size \in 0 .. 2 :
          ask = Prepared(o, p, bounded, size)
    BY DEF AsksTypeOK, IsPrepared
  <2>2. IsOntology(o) /\ IsPool(p) /\ IsFiniteSet(DOMAIN p)
    BY AskedOntologies DEF AsksTypeOK, IsPrepared, IsLoaded
  <2>3. /\ o \in TeamOntologies /\ pool \in Pools
        /\ IsPool(pool) /\ IsFiniteSet(DOMAIN pool)
    BY AskedOntologies DEF TeamsTypeOK
  <2>4. IsCrew(o, ask, pool)
    <3> HIDE DEF o, ask, pool
    <3>1. HasValues(o) /\ HasTransportRules(o) /\ HasLoads(o) /\ o.functionalities \subseteq Nat
      BY <2>3, InputsAreReal DEF InputAssumption
    <3>2. DOMAIN pool \subseteq Members
      BY <2>3 DEF Members
    <3>3. IsPool(ask.pool) /\ \A f \in DOMAIN ask.pools : \A q \in ask.pools[f] : IsPart(q, ask.pool)
      BY <2>1, <2>2, MappingIsRight
    <3>4. DOMAIN ask.pools \subseteq o.functionalities
      <4>1. ask.pools = IF ask.pool = EmptyPool THEN EmptyPool
                        ELSE [f \in o.functionalities |-> MappedPools(o, ask.pool, f, bounded, size)]
        BY <2>1, <2>2, AskIsMapped
      <4>2. DOMAIN EmptyPool = {}
        BY DEF EmptyPool
      <4> QED
        BY <4>1, <4>2
    <3>5. \A f \in DOMAIN ask.pools : f \in Int
      BY <3>1, <3>4
    <3> QED
      BY <2>3, <3>1, <3>2, <3>3, <3>5 DEF IsCrew
  <2>5. ASSUME NEW m \in {n \in DOMAIN pool : pool[n] > 0}
        PROVE  LET q == [pool EXCEPT ![m] = pool[m] - 1]
               IN  /\ (\A n \in DOMAIN pool : LoadAreaSize(o, n) > 0 => Carries(o, ask, n)) =>
                         LoadArea(o, ask, q) <= LoadArea(o, ask, pool)
                   /\ TransportableMass(o, ask, q) <= TransportableMass(o, ask, pool)
                   /\ LowestPick(o, Compact(q)) >= LowestPick(o, pool)
                   /\ RobotOf(o, Compact(q)).velocity <= RobotOf(o, pool).velocity
    <3> HIDE DEF o, ask, pool
    <3> QED
      BY <2>4, <2>5, TeamsGrow DEF FewerBy
  <2>6. ASSUME NEW c \in carriers, carriers = {c}, pool[c] = 1, IsFeasible(o, pool),
               \A f \in {o.moveTo, o.transportProvider} : f \in DOMAIN ask.pools /\ PoolOf(c, 1) \in ask.pools[f],
               \A m \in DOMAIN pool : o.value[Demand][m] = 1
        PROVE  {SupplyDemand(o, ask, RobotOf(o, pool))} = PropertyValuesOf(o, ask, pool, Capacity)
    <3> HIDE DEF o, ask, pool
    <3>1. c \in DOMAIN pool /\ {m \in DOMAIN pool : pool[m] > 0 /\ o.value[Capacity][m] > 0} = {c}
      BY <2>6
    <3> QED
      BY <2>4, <2>6, <3>1, TeamsCarry
  <2> QED
    BY <2>5, <2>6 DEF TeamsAddUp
<1> QED
  BY <1>1, AsksKeepTheirType, TeamsKeepTheirType, PTL
==============================================================================
