--------------------------- MODULE AskQueriesProofs ---------------------------
(***************************************************************************)
(* Model pools and what the queries make of them, for pools, resources and *)
(* constraints of any size.  The algebra: what an operation makes of the   *)
(* entries of two maps is what it should make of their counts, though a    *)
(* model may be in one of them only, or be in it with count 0.  The        *)
(* constraint solver, and how a pool is scaled to meet constraints.  The   *)
(* embedding of support vectors is linear, so that support grows with the  *)
(* pool.  ReasoningProofs has what the queries promise.                    *)
(***************************************************************************)
EXTENDS AskQueries, FiniteSums

(* A pool includes one of some alternatives.                               *)
Meets(pool, alternatives) == \E c \in alternatives : IsSubset(c, pool)

-----------------------------------------------------------------------------

(* A count is a natural number, of a model with or without an entry.       *)
LEMMA CountIsNatural ==
  ASSUME NEW p, IsPool(p), NEW m
  PROVE  Count(p, m) \in Nat
BY DEF IsPool, Count

(* isSubset looks at the models of both pools; of others both have none.   *)
LEMMA SubsetByCounts ==
  ASSUME NEW a, IsPool(a), NEW b, IsPool(b)
  PROVE  IsSubset(a, b) <=> \A m \in Model : Count(a, m) <= Count(b, m)
<1> DEFINE delta == Delta(a, b)
<1>1. DOMAIN delta = DOMAIN a \cup DOMAIN b
      /\ \A m \in DOMAIN delta : delta[m] = Count(b, m) - Count(a, m)
  BY DEF Delta
<1>2. \A m : Count(a, m) \in Nat /\ Count(b, m) \in Nat
  BY CountIsNatural
<1>3. DOMAIN delta \subseteq Model
  BY <1>1 DEF IsPool
<1>4. \A m \in Model \ DOMAIN delta : Count(a, m) = 0 /\ Count(b, m) = 0
  BY <1>1 DEF Count
<1>5. IsSubset(a, b) <=> \A m \in DOMAIN delta : ~(Count(b, m) - Count(a, m) < 0)
  BY <1>1 DEF IsSubset, IsNegative
<1>6. \A m : ~(Count(b, m) - Count(a, m) < 0) <=> Count(a, m) <= Count(b, m)
  BY <1>2
<1>7. \A m \in Model \ DOMAIN delta : Count(a, m) <= Count(b, m)
  BY <1>2, <1>4
<1> QED
  BY <1>3, <1>5, <1>6, <1>7

(* max of two pools has the larger count of each model.                    *)
LEMMA MaxByCounts ==
  ASSUME NEW a, IsPool(a), NEW b, IsPool(b)
  PROVE  /\ IsPool(PoolMax(a, b))
         /\ \A m : Count(PoolMax(a, b), m) = Larger(Count(a, m), Count(b, m))
<1> DEFINE max == PoolMax(a, b)
<1>1. DOMAIN max = DOMAIN a \cup DOMAIN b
  BY DEF PoolMax, Combined
<1>2. \A m \in DOMAIN max :
        max[m] = IF m \in DOMAIN a /\ m \in DOMAIN b THEN Larger(a[m], b[m])
                 ELSE IF m \in DOMAIN a THEN a[m] ELSE b[m]
  BY DEF PoolMax, Combined
<1>3. (\A m \in DOMAIN a : a[m] \in Nat) /\ (\A m \in DOMAIN b : b[m] \in Nat)
  BY DEF IsPool
<1>4. IsPool(max)
  <2>1. DOMAIN max \subseteq Model
    BY <1>1 DEF IsPool
  <2>2. \A m \in DOMAIN max : max[m] \in Nat
    BY <1>1, <1>2, <1>3 DEF Larger
  <2>3. max = [m \in DOMAIN max |-> max[m]]
    BY DEF PoolMax, Combined
  <2> QED
    BY <2>1, <2>2, <2>3 DEF IsPool
<1>5. ASSUME NEW m
      PROVE  Count(max, m) = Larger(Count(a, m), Count(b, m))
  <2>1. CASE m \in DOMAIN a /\ m \in DOMAIN b
    BY <1>1, <1>2, <2>1 DEF Count
  <2>2. CASE m \in DOMAIN a /\ m \notin DOMAIN b
    <3>1. max[m] = a[m] /\ a[m] \in Nat /\ m \in DOMAIN max
      BY <1>1, <1>2, <1>3, <2>2
    <3> QED
      BY <2>2, <3>1 DEF Count, Larger
  <2>3. CASE m \notin DOMAIN a /\ m \in DOMAIN b
    <3>1. max[m] = b[m] /\ b[m] \in Nat /\ m \in DOMAIN max
      BY <1>1, <1>2, <1>3, <2>3
    <3> QED
      BY <2>3, <3>1 DEF Count, Larger
  <2>4. CASE m \notin DOMAIN a /\ m \notin DOMAIN b
    BY <1>1, <2>4 DEF Count, Larger
  <2> QED
    BY <2>1, <2>2, <2>3, <2>4
<1> QED
  BY <1>4, <1>5

(* What includes the max of two pools includes both, and the other way     *)
(* round: no more is asked for by it, and no less.                         *)
THEOREM MaxIsLeast ==
  ASSUME NEW a, IsPool(a), NEW b, IsPool(b), NEW p, IsPool(p)
  PROVE  IsSubset(PoolMax(a, b), p) <=> IsSubset(a, p) /\ IsSubset(b, p)
<1>1. \A m : Count(a, m) \in Nat /\ Count(b, m) \in Nat /\ Count(p, m) \in Nat
  BY CountIsNatural
<1>2. \A m : Count(PoolMax(a, b), m) <= Count(p, m) <=> Count(a, m) <= Count(p, m) /\ Count(b, m) <= Count(p, m)
  BY <1>1, MaxByCounts DEF Larger
<1>3. IsSubset(PoolMax(a, b), p) <=> \A m \in Model : Count(PoolMax(a, b), m) <= Count(p, m)
  BY MaxByCounts, SubsetByCounts
<1> QED
  BY <1>2, <1>3, SubsetByCounts

(* maxCompositions (getResourceSupport composes the pools that support one *)
(* resource with those that support the next): a pool meets both           *)
(* requirements exactly if it includes one of the compositions, as long as *)
(* neither is empty - an empty one stands for no requirement.              *)
THEOREM CompositionsMeetBoth ==
  ASSUME NEW A, A # {}, \A a \in A : IsPool(a),
         NEW B, B # {}, \A b \in B : IsPool(b),
         NEW p, IsPool(p)
  PROVE  Meets(p, MaxCompositions(A, B)) <=> Meets(p, A) /\ Meets(p, B)
<1>1. MaxCompositions(A, B) = {PoolMax(a, b) : a \in A, b \in B}
  BY DEF MaxCompositions
<1>2. \A a \in A, b \in B : IsSubset(PoolMax(a, b), p) <=> IsSubset(a, p) /\ IsSubset(b, p)
  BY MaxIsLeast
<1>3. Meets(p, MaxCompositions(A, B)) <=> \E a \in A, b \in B : IsSubset(PoolMax(a, b), p)
  BY <1>1 DEF Meets
<1> QED
  BY <1>2, <1>3 DEF Meets

(* expandToLowerBound: what includes an expanded pool includes the bound   *)
(* and one of the pools; without pools, the bound alone is asked for.      *)
THEOREM ExpansionMeetsBound ==
  ASSUME NEW A, \A a \in A : IsPool(a), NEW bound, IsPool(bound), NEW p, IsPool(p)
  PROVE  Meets(p, ExpandToLowerBound(A, bound)) <=> IsSubset(bound, p) /\ (A = {} \/ Meets(p, A))
<1>1. CASE A = {}
  BY <1>1 DEF ExpandToLowerBound, Meets
<1>2. CASE A # {}
  <2>1. ExpandToLowerBound(A, bound) = {PoolMax(bound, a) : a \in A}
    BY <1>2 DEF ExpandToLowerBound
  <2>2. \A a \in A : IsSubset(PoolMax(bound, a), p) <=> IsSubset(bound, p) /\ IsSubset(a, p)
    BY MaxIsLeast
  <2> QED
    BY <1>2, <2>1, <2>2 DEF Meets
<1> QED
  BY <1>1, <1>2

(* substract and sum: a pool and what a larger one has more than it sum up *)
(* to that, models with count 0 aside.                                     *)
THEOREM DeltaCompletes ==
  ASSUME NEW a, IsPool(a), NEW b, IsPool(b), IsSubset(a, b)
  PROVE  IsPool(Delta(a, b)) /\ Compact(Sum(a, Delta(a, b))) = Compact(b)
<1> DEFINE delta == Delta(a, b)
           sum == Sum(a, delta)
<1>1. /\ DOMAIN delta = DOMAIN a \cup DOMAIN b
      /\ \A m \in DOMAIN delta : delta[m] = Count(b, m) - Count(a, m)
      /\ delta = [m \in DOMAIN delta |-> delta[m]]
  BY DEF Delta
<1>2. \A m : Count(a, m) \in Nat /\ Count(b, m) \in Nat
  BY CountIsNatural
<1>3. DOMAIN delta \subseteq Model
  BY <1>1 DEF IsPool
<1>4. \A m \in DOMAIN delta : delta[m] \in Nat
  <2>1. \A m \in DOMAIN delta : Count(a, m) <= Count(b, m)
    BY <1>3, SubsetByCounts
  <2> QED
    BY <1>1, <1>2, <2>1
<1>5. IsPool(delta)
  BY <1>1, <1>3, <1>4 DEF IsPool
<1>6. DOMAIN sum = DOMAIN a \cup DOMAIN b
  BY <1>1 DEF Sum, Combined
<1>7. ASSUME NEW m \in DOMAIN sum PROVE sum[m] = Count(b, m)
  <2>1. sum[m] = IF m \in DOMAIN a THEN a[m] + delta[m] ELSE delta[m]
    BY <1>1, <1>6, <1>7 DEF Sum, Combined
  <2>2. m \in DOMAIN a => a[m] = Count(a, m)
    BY DEF Count
  <2>3. m \notin DOMAIN a => Count(a, m) = 0
    BY DEF Count
  <2> QED
    BY <1>1, <1>2, <1>6, <2>1, <2>2, <2>3
<1>8. {n \in DOMAIN sum : sum[n] # 0} = {n \in DOMAIN b : b[n] # 0}
  BY <1>6, <1>7 DEF Count
<1>9. \A n \in DOMAIN b : n \in DOMAIN sum /\ sum[n] = b[n]
  BY <1>6, <1>7 DEF Count
<1>10. Compact(sum) = Compact(b)
  BY <1>8, <1>9 DEF Compact
<1> QED
  BY <1>5, <1>10

(* applyUpperBound on the pools for a resource (getResourceSupport): what  *)
(* is left can be taken from the agents that are there, if these have an   *)
(* entry for each of its models.                                           *)
THEOREM BoundedAreThere ==
  ASSUME NEW A, \A a \in A : IsPool(a), NEW bound, IsPool(bound),
         NEW p \in ApplyUpperBound(A, bound), DOMAIN p \subseteq DOMAIN bound
  PROVE  IsSubset(p, bound)
<1>1. p \in A /\ WithinUpperBound(p, bound)
  BY DEF ApplyUpperBound
<1>2. IsPool(p)
  BY <1>1
<1>3. ASSUME NEW m \in Model PROVE Count(p, m) <= Count(bound, m)
  <2>1. CASE m \in DOMAIN p
    BY <1>1, <2>1 DEF WithinUpperBound, Count
  <2>2. CASE m \notin DOMAIN p
    <3>1. Count(p, m) = 0 /\ Count(bound, m) \in Nat
      BY <2>2, CountIsNatural DEF Count
    <3> QED
      BY <3>1
  <2> QED
    BY <2>1, <2>2
<1> QED
  BY <1>2, <1>3, SubsetByCounts

-----------------------------------------------------------------------------
(* Lists and sets of pools                                                 *)

(* Pools as a set, which inductions over folds need.                       *)
AllMaps == UNION {[D -> Nat] : D \in SUBSET Model}

(* Pools are functions from models to natural numbers.                      *)
LEMMA PoolsAreMaps ==
  ASSUME NEW p
  PROVE  IsPool(p) <=> p \in AllMaps
<1>1. ASSUME IsPool(p) PROVE p \in AllMaps
  BY <1>1 DEF IsPool, AllMaps
<1>2. ASSUME p \in AllMaps PROVE IsPool(p)
  <2>1. PICK D \in SUBSET Model : p \in [D -> Nat]
    BY <1>2 DEF AllMaps
  <2> QED
    BY <2>1 DEF IsPool
<1> QED
  BY <1>1, <1>2

(* compact leaves the counts as they are, and a pool compacted is          *)
(* determined by them.                                                     *)
LEMMA CompactByCounts ==
  ASSUME NEW a, IsPool(a)
  PROVE  IsPool(Compact(a)) /\ \A m : Count(Compact(a), m) = Count(a, m)
<1> DEFINE c == Compact(a)
<1>1. /\ DOMAIN c = {n \in DOMAIN a : a[n] # 0}
      /\ \A m \in DOMAIN c : c[m] = a[m]
      /\ c = [m \in DOMAIN c |-> c[m]]
  BY DEF Compact
<1>2. DOMAIN a \subseteq Model /\ \A m \in DOMAIN a : a[m] \in Nat
  BY DEF IsPool
<1> HIDE DEF c
<1>3. IsPool(c)
  BY <1>1, <1>2 DEF IsPool
<1>4. \A m : Count(c, m) = Count(a, m)
  BY <1>1 DEF Count
<1> QED
  BY <1>3, <1>4 DEF c

(* Pools that count alike are one once compact() has removed empty entries. *)
LEMMA SameCounts ==
  ASSUME NEW a, IsPool(a), NEW b, IsPool(b), \A m : Count(a, m) = Count(b, m)
  PROVE  Compact(a) = Compact(b)
<1>1. {n \in DOMAIN a : a[n] # 0} = {n \in DOMAIN b : b[n] # 0}
  <2>1. \A n : n \in DOMAIN a /\ a[n] # 0 <=> Count(a, n) # 0
    BY DEF Count
  <2>2. \A n : n \in DOMAIN b /\ b[n] # 0 <=> Count(b, n) # 0
    BY DEF Count
  <2> QED
    BY <2>1, <2>2
<1>2. \A n \in {k \in DOMAIN a : a[k] # 0} : a[n] = b[n]
  BY <1>1 DEF Count
<1> QED
  BY <1>1, <1>2 DEF Compact

(* What a pool includes and what includes it does not depend on entries    *)
(* with count 0.                                                           *)
LEMMA CompactIncludes ==
  ASSUME NEW a, IsPool(a), NEW p, IsPool(p)
  PROVE  /\ IsSubset(Compact(a), p) <=> IsSubset(a, p)
         /\ IsSubset(p, Compact(a)) <=> IsSubset(p, a)
<1>1. IsPool(Compact(a)) /\ \A m : Count(Compact(a), m) = Count(a, m)
  BY CompactByCounts
<1>2. IsSubset(Compact(a), p) <=> \A m \in Model : Count(a, m) <= Count(p, m)
  BY <1>1, SubsetByCounts
<1>3. IsSubset(p, Compact(a)) <=> \A m \in Model : Count(p, m) <= Count(a, m)
  BY <1>1, SubsetByCounts
<1> QED
  BY <1>2, <1>3, SubsetByCounts

(* sum and min of two pools.                                               *)
LEMMA SumByCounts ==
  ASSUME NEW a, IsPool(a), NEW b, IsPool(b)
  PROVE  /\ IsPool(Sum(a, b))
         /\ \A m : Count(Sum(a, b), m) = Count(a, m) + Count(b, m)
<1> DEFINE sum == Sum(a, b)
<1>1. /\ DOMAIN sum = DOMAIN a \cup DOMAIN b
      /\ sum = [m \in DOMAIN sum |-> sum[m]]
      /\ \A m \in DOMAIN sum :
           sum[m] = IF m \in DOMAIN a /\ m \in DOMAIN b THEN a[m] + b[m]
                    ELSE IF m \in DOMAIN a THEN a[m] ELSE b[m]
  BY DEF Sum, Combined
<1>2. /\ DOMAIN a \subseteq Model /\ DOMAIN b \subseteq Model
      /\ (\A m \in DOMAIN a : a[m] \in Nat) /\ (\A m \in DOMAIN b : b[m] \in Nat)
  BY DEF IsPool
<1> HIDE DEF sum
<1>3. \A m \in DOMAIN sum : sum[m] \in Nat
  BY <1>1, <1>2
<1>4. IsPool(sum)
  BY <1>1, <1>2, <1>3 DEF IsPool
<1>5. \A m : Count(sum, m) = Count(a, m) + Count(b, m)
  BY <1>1, <1>2 DEF Count
<1> QED
  BY <1>4, <1>5 DEF sum

(* A model counts in the min of two pools as often as in the smaller.       *)
LEMMA MinByCounts ==
  ASSUME NEW a, IsPool(a), NEW b, IsPool(b)
  PROVE  /\ IsPool(PoolMin(a, b))
         /\ \A m : Smaller(Count(a, m), Count(b, m)) <= Count(PoolMin(a, b), m)
<1> DEFINE min == PoolMin(a, b)
<1>1. /\ DOMAIN min = DOMAIN a \cup DOMAIN b
      /\ min = [m \in DOMAIN min |-> min[m]]
      /\ \A m \in DOMAIN min :
           min[m] = IF m \in DOMAIN a /\ m \in DOMAIN b THEN Smaller(a[m], b[m])
                    ELSE IF m \in DOMAIN a THEN a[m] ELSE b[m]
  BY DEF PoolMin, Combined
<1>2. /\ DOMAIN a \subseteq Model /\ DOMAIN b \subseteq Model
      /\ (\A m \in DOMAIN a : a[m] \in Nat) /\ (\A m \in DOMAIN b : b[m] \in Nat)
  BY DEF IsPool
<1> HIDE DEF min
<1>3. \A m \in DOMAIN min : min[m] \in Nat
  BY <1>1, <1>2 DEF Smaller
<1>4. IsPool(min)
  BY <1>1, <1>2, <1>3 DEF IsPool
<1>5. \A m : Smaller(Count(a, m), Count(b, m)) <= Count(min, m)
  BY <1>1, <1>2 DEF Count, Smaller
<1> QED
  BY <1>4, <1>5 DEF min

(* What two pools include their minimum includes.                          *)
LEMMA MinIncludes ==
  ASSUME NEW a, IsPool(a), NEW b, IsPool(b), NEW p, IsPool(p), IsSubset(p, a), IsSubset(p, b)
  PROVE  IsSubset(p, PoolMin(a, b))
<1>1. \A m \in Model : Count(p, m) <= Count(a, m) /\ Count(p, m) <= Count(b, m)
  BY SubsetByCounts
<1>2. \A m : Count(a, m) \in Nat /\ Count(b, m) \in Nat /\ Count(p, m) \in Nat
  BY CountIsNatural
<1>3. IsPool(PoolMin(a, b)) /\ \A m : Count(PoolMin(a, b), m) \in Nat
  BY MinByCounts, CountIsNatural
<1>4. \A m \in Model : Count(p, m) <= Count(PoolMin(a, b), m)
  BY <1>1, <1>2, <1>3, MinByCounts DEF Smaller
<1> QED
  BY <1>3, <1>4, SubsetByCounts

(* The fold of max over a list, unfolded.                                  *)
MaxStep(base, f, g, s) == IF s = {} THEN base ELSE PoolMax(f[Chosen(s)], g[s \ {Chosen(s)}])

MaxFolds(base, f, g, S) == g = [s \in SUBSET S |-> MaxStep(base, f, g, s)]

(* A fold by max over a set of positions is its last value.                 *)
LEMMA MaxUnfolded ==
  ASSUME NEW base, NEW f, NEW S
  PROVE  FoldFunctionOnSet(PoolMax, base, f, S) = (CHOOSE g : MaxFolds(base, f, g, S))[S]
BY DEF FoldFunctionOnSet, MapThenFoldSet, MaxFolds, MaxStep, Chosen

(* Where a fold starts, and how it goes on.                                *)
MaxGoesOn(base, f, g, S) ==
  /\ g[{}] = base
  /\ \A s \in SUBSET S : s # {} => g[s] = PoolMax(f[Chosen(s)], g[s \ {Chosen(s)}])

(* Each value of the fold by max is the max of an earlier one and a pool.   *)
LEMMA MaxFoldStep ==
  ASSUME NEW base, NEW f, NEW S, NEW g, MaxFolds(base, f, g, S)
  PROVE  MaxGoesOn(base, f, g, S)
<1>1. \A s \in SUBSET S : g[s] = MaxStep(base, f, g, s)
  BY DEF MaxFolds
<1>2. {} \in SUBSET S
  OBVIOUS
<1> QED
  BY <1>1, <1>2 DEF MaxStep, MaxGoesOn

(* The fold by max has a value after every part of the list.                *)
LEMMA MaxFoldExists ==
  ASSUME NEW base, IsPool(base), NEW S, IsFiniteSet(S), NEW f, \A i \in S : IsPool(f[i])
  PROVE  \E g : MaxFolds(base, f, g, S)
<1> DEFINE next == [q \in AllMaps \X AllMaps |-> PoolMax(q[1], q[2])]
<1>1. \A a, b \in AllMaps : next[<<a, b>>] = PoolMax(a, b)
  OBVIOUS
<1>2. PICK g : Folded(next, base, f, g, SUBSET S)
  BY FoldExists
<1>3. \A s \in SUBSET S : g[s] = FoldStep(next, base, f, g, s)
  BY <1>2 DEF Folded
<1> HIDE DEF next
<1> DEFINE P == {s \in SUBSET S : IsPool(g[s])}
<1>4. {} \in P
  BY <1>3 DEF FoldStep
<1>5. ASSUME NEW s \in SUBSET S, s # {}, s \ {Chosen(s)} \in P
      PROVE  s \in P /\ g[s] = PoolMax(f[Chosen(s)], g[s \ {Chosen(s)}])
  <2>1. Chosen(s) \in S
    BY <1>5, ChosenIsElement
  <2>2. IsPool(f[Chosen(s)]) /\ IsPool(g[s \ {Chosen(s)}])
    BY <1>5, <2>1
  <2>3. f[Chosen(s)] \in AllMaps /\ g[s \ {Chosen(s)}] \in AllMaps
    BY <2>2, PoolsAreMaps
  <2>4. g[s] = PoolMax(f[Chosen(s)], g[s \ {Chosen(s)}])
    BY <1>1, <1>3, <1>5, <2>3 DEF FoldStep
  <2> QED
    BY <2>2, <2>4, MaxByCounts
<1>6. SUBSET S \subseteq P
  <2> HIDE DEF P
  <2> QED
    BY <1>4, <1>5, ChosenInduction
<1>7. \A s \in SUBSET S : g[s] = MaxStep(base, f, g, s)
  <2> SUFFICES ASSUME NEW s \in SUBSET S PROVE g[s] = MaxStep(base, f, g, s)
    OBVIOUS
  <2>1. CASE s = {}
    BY <1>3, <2>1 DEF FoldStep, MaxStep
  <2>2. CASE s # {}
    <3>1. s \ {Chosen(s)} \in P
      BY <1>6
    <3> QED
      BY <1>5, <2>2, <3>1 DEF MaxStep
  <2> QED
    BY <2>1, <2>2
<1>8. g = [s \in SUBSET S |-> g[s]]
  BY <1>2 DEF Folded
<1>9. g = [s \in SUBSET S |-> MaxStep(base, f, g, s)]
  BY <1>7, <1>8
<1> QED
  BY <1>9 DEF MaxFolds

(* What includes the maximum of a list includes each pool of it, and the   *)
(* other way round.                                                        *)
THEOREM MaxOfListIsLeast ==
  ASSUME NEW pools \in Seq(AllMaps), NEW p, IsPool(p)
  PROVE  IsSubset(MaxOfList(pools), p) <=> \A i \in DOMAIN pools : IsSubset(pools[i], p)
<1>1. CASE pools = <<>>
  <2>1. MaxOfList(pools) = EmptyPool /\ DOMAIN pools = {}
    BY <1>1 DEF MaxOfList
  <2>2. IsPool(EmptyPool) /\ \A m : Count(EmptyPool, m) = 0
    BY DEF IsPool, EmptyPool, Count
  <2>3. IsSubset(EmptyPool, p)
    BY <2>2, SubsetByCounts, CountIsNatural
  <2> QED
    BY <2>1, <2>3
<1>2. CASE pools # <<>>
  <2> DEFINE S == DOMAIN pools
             base == pools[1]
             g == CHOOSE g : MaxFolds(base, pools, g, S)
  <2>1. IsFiniteSet(S) /\ 1 \in S /\ \A i \in S : IsPool(pools[i])
    <3>1. Len(pools) \in Nat /\ S = 1 .. Len(pools) /\ Len(pools) # 0
      BY <1>2
    <3>2. \A i \in S : pools[i] \in AllMaps
      BY <3>1
    <3> QED
      BY <3>1, <3>2, FS_Interval, PoolsAreMaps
  <2>2. MaxFolds(base, pools, g, S)
    BY <2>1, MaxFoldExists
  <2>3. MaxOfList(pools) = g[S]
    BY <1>2, MaxUnfolded DEF MaxOfList
  <2> HIDE DEF g, base, S
  <2>4. /\ g[{}] = base
        /\ \A s \in SUBSET S : s # {} => g[s] = PoolMax(pools[Chosen(s)], g[s \ {Chosen(s)}])
    <3>1. MaxGoesOn(base, pools, g, S)
      BY <2>2, MaxFoldStep
    <3> QED
      BY <3>1 DEF MaxGoesOn
  <2> DEFINE P == {s \in SUBSET S :
                     /\ IsPool(g[s])
                     /\ IsSubset(g[s], p) <=> IsSubset(base, p) /\ \A i \in s : IsSubset(pools[i], p)}
  <2>5. {} \in P
    BY <2>1, <2>4 DEF base
  <2>6. ASSUME NEW s \in SUBSET S, s # {}, s \ {Chosen(s)} \in P PROVE s \in P
    <3> DEFINE c == Chosen(s)
               rest == s \ {c}
    <3>1. c \in s /\ s = rest \cup {c}
      BY <2>6, ChosenIsElement
    <3>2. IsPool(pools[c]) /\ IsPool(g[rest]) /\ g[s] = PoolMax(pools[c], g[rest])
      BY <2>1, <2>4, <2>6, <3>1
    <3>3. IsSubset(g[rest], p) <=> IsSubset(base, p) /\ \A i \in rest : IsSubset(pools[i], p)
      BY <2>6
    <3> HIDE DEF c, rest
    <3>4. IsPool(g[s]) /\ (IsSubset(g[s], p) <=> IsSubset(pools[c], p) /\ IsSubset(g[rest], p))
      BY <3>2, MaxByCounts, MaxIsLeast
    <3> QED
      BY <3>1, <3>3, <3>4
  <2>7. S \in P
    <3> HIDE DEF P
    <3> QED
      BY <2>1, <2>5, <2>6, ChosenInduction
  <2>8. IsSubset(g[S], p) <=> IsSubset(base, p) /\ \A i \in S : IsSubset(pools[i], p)
    BY <2>7
  <2> QED
    BY <2>1, <2>3, <2>8 DEF base, S
<1> QED
  BY <1>1, <1>2

(* The fold of min over a list, unfolded.                                  *)
MinStep(base, f, g, s) == IF s = {} THEN base ELSE PoolMin(f[Chosen(s)], g[s \ {Chosen(s)}])

MinFolds(base, f, g, S) == g = [s \in SUBSET S |-> MinStep(base, f, g, s)]

(* A fold by min over a set of positions is its last value.                 *)
LEMMA MinUnfolded ==
  ASSUME NEW base, NEW f, NEW S
  PROVE  FoldFunctionOnSet(PoolMin, base, f, S) = (CHOOSE g : MinFolds(base, f, g, S))[S]
BY DEF FoldFunctionOnSet, MapThenFoldSet, MinFolds, MinStep, Chosen

(* Where a fold starts, and how it goes on.                                *)
MinGoesOn(base, f, g, S) ==
  /\ g[{}] = base
  /\ \A s \in SUBSET S : s # {} => g[s] = PoolMin(f[Chosen(s)], g[s \ {Chosen(s)}])

(* Each value of the fold by min is the min of an earlier one and a pool.   *)
LEMMA MinFoldStep ==
  ASSUME NEW base, NEW f, NEW S, NEW g, MinFolds(base, f, g, S)
  PROVE  MinGoesOn(base, f, g, S)
<1>1. \A s \in SUBSET S : g[s] = MinStep(base, f, g, s)
  BY DEF MinFolds
<1>2. {} \in SUBSET S
  OBVIOUS
<1> QED
  BY <1>1, <1>2 DEF MinStep, MinGoesOn

(* The fold by min has a value after every part of the list.                *)
LEMMA MinFoldExists ==
  ASSUME NEW base, IsPool(base), NEW S, IsFiniteSet(S), NEW f, \A i \in S : IsPool(f[i])
  PROVE  \E g : MinFolds(base, f, g, S)
<1> DEFINE next == [q \in AllMaps \X AllMaps |-> PoolMin(q[1], q[2])]
<1>1. \A a, b \in AllMaps : next[<<a, b>>] = PoolMin(a, b)
  OBVIOUS
<1>2. PICK g : Folded(next, base, f, g, SUBSET S)
  BY FoldExists
<1>3. \A s \in SUBSET S : g[s] = FoldStep(next, base, f, g, s)
  BY <1>2 DEF Folded
<1> HIDE DEF next
<1> DEFINE P == {s \in SUBSET S : IsPool(g[s])}
<1>4. {} \in P
  BY <1>3 DEF FoldStep
<1>5. ASSUME NEW s \in SUBSET S, s # {}, s \ {Chosen(s)} \in P
      PROVE  s \in P /\ g[s] = PoolMin(f[Chosen(s)], g[s \ {Chosen(s)}])
  <2>1. Chosen(s) \in S
    BY <1>5, ChosenIsElement
  <2>2. IsPool(f[Chosen(s)]) /\ IsPool(g[s \ {Chosen(s)}])
    BY <1>5, <2>1
  <2>3. f[Chosen(s)] \in AllMaps /\ g[s \ {Chosen(s)}] \in AllMaps
    BY <2>2, PoolsAreMaps
  <2>4. g[s] = PoolMin(f[Chosen(s)], g[s \ {Chosen(s)}])
    BY <1>1, <1>3, <1>5, <2>3 DEF FoldStep
  <2> QED
    BY <2>2, <2>4, MinByCounts
<1>6. SUBSET S \subseteq P
  <2> HIDE DEF P
  <2> QED
    BY <1>4, <1>5, ChosenInduction
<1>7. \A s \in SUBSET S : g[s] = MinStep(base, f, g, s)
  <2> SUFFICES ASSUME NEW s \in SUBSET S PROVE g[s] = MinStep(base, f, g, s)
    OBVIOUS
  <2>1. CASE s = {}
    BY <1>3, <2>1 DEF FoldStep, MinStep
  <2>2. CASE s # {}
    <3>1. s \ {Chosen(s)} \in P
      BY <1>6
    <3> QED
      BY <1>5, <2>2, <3>1 DEF MinStep
  <2> QED
    BY <2>1, <2>2
<1>8. g = [s \in SUBSET S |-> g[s]]
  BY <1>2 DEF Folded
<1>9. g = [s \in SUBSET S |-> MinStep(base, f, g, s)]
  BY <1>7, <1>8
<1> QED
  BY <1>9 DEF MinFolds

(* What all pools of a list include their minimum includes.                *)
THEOREM MinOfListIncludes ==
  ASSUME NEW pools \in Seq(AllMaps), pools # <<>>, NEW p, IsPool(p),
         \A i \in DOMAIN pools : IsSubset(p, pools[i])
  PROVE  IsSubset(p, MinOfList(pools))
<1> DEFINE S == DOMAIN pools
           base == pools[1]
           g == CHOOSE g : MinFolds(base, pools, g, S)
<1>1. IsFiniteSet(S) /\ 1 \in S /\ \A i \in S : IsPool(pools[i])
  <2>1. Len(pools) \in Nat /\ S = 1 .. Len(pools) /\ Len(pools) # 0
    OBVIOUS
  <2>2. \A i \in S : pools[i] \in AllMaps
    BY <2>1
  <2> QED
    BY <2>1, <2>2, FS_Interval, PoolsAreMaps
<1>2. MinFolds(base, pools, g, S)
  BY <1>1, MinFoldExists
<1>3. MinOfList(pools) = g[S]
  BY MinUnfolded DEF MinOfList
<1> HIDE DEF g, base, S
<1>4. /\ g[{}] = base
      /\ \A s \in SUBSET S : s # {} => g[s] = PoolMin(pools[Chosen(s)], g[s \ {Chosen(s)}])
  <2>1. MinGoesOn(base, pools, g, S)
    BY <1>2, MinFoldStep
  <2> QED
    BY <2>1 DEF MinGoesOn
<1> DEFINE P == {s \in SUBSET S : IsPool(g[s]) /\ IsSubset(p, g[s])}
<1>5. {} \in P
  BY <1>1, <1>4 DEF base
<1>6. ASSUME NEW s \in SUBSET S, s # {}, s \ {Chosen(s)} \in P PROVE s \in P
  <2> DEFINE c == Chosen(s)
             rest == s \ {c}
  <2>1. c \in s /\ s = rest \cup {c}
    BY <1>6, ChosenIsElement
  <2>2. IsPool(pools[c]) /\ IsPool(g[rest]) /\ g[s] = PoolMin(pools[c], g[rest])
    BY <1>1, <1>4, <1>6, <2>1
  <2>3. IsSubset(p, g[rest]) /\ IsSubset(p, pools[c])
    BY <1>1, <1>6, <2>1 DEF S
  <2> HIDE DEF c, rest
  <2>4. IsPool(g[s]) /\ IsSubset(p, g[s])
    BY <2>2, <2>3, MinByCounts, MinIncludes
  <2> QED
    BY <2>4
<1>7. S \in P
  <2> HIDE DEF P
  <2> QED
    BY <1>1, <1>5, <1>6, ChosenInduction
<1> QED
  BY <1>3, <1>7

(* merge of two different pools is their sum, compacted: it keeps equal    *)
(* ones once, as the code merges a set.                                    *)
THEOREM MergeIsSum ==
  ASSUME NEW a, IsPool(a), NEW b, IsPool(b), a # b
  PROVE  Merge(a, b) = Compact(Sum(a, b))
<1> DEFINE both == {a, b}
           counts(m) == [p \in both |-> Count(p, m)]
           merged == [m \in UNION {DOMAIN p : p \in both} |-> FoldFunction(+, 0, counts(m))]
<1>1. Merge(a, b) = Compact(merged)
  BY DEF Merge, MergeSet
<1>2. ASSUME NEW m PROVE FoldFunction(+, 0, counts(m)) = Count(a, m) + Count(b, m)
  <2> DEFINE f == counts(m)
             one == {a}
  <2>1. DOMAIN f = both /\ f[a] = Count(a, m) /\ f[b] = Count(b, m)
    OBVIOUS
  <2>2. f[a] \in Int /\ f[b] \in Int
    BY <2>1, CountIsNatural
  <2>3. FoldFunction(+, 0, f) = SumFunctionOnSet(f, both)
    BY <2>1 DEF FoldFunction, SumFunctionOnSet
  <2>4. both = one \cup {b} /\ b \notin one /\ IsFiniteSet(one)
    BY FS_Singleton
  <2>5. \A x \in one \cup {b} : f[x] \in Int
    BY <2>2
  <2> HIDE DEF f, both
  <2>6. SumFunctionOnSet(f, one \cup {b}) = f[b] + SumFunctionOnSet(f, one)
    <3> HIDE DEF one
    <3> QED
      BY <2>4, <2>5, SumWith
  <2>7. SumFunctionOnSet(f, one) = f[a]
    BY <2>2, SumOfOne
  <2>8. SumFunctionOnSet(f, both) = Count(a, m) + Count(b, m)
    <3> HIDE DEF one
    <3>1. SumFunctionOnSet(f, both) = SumFunctionOnSet(f, one \cup {b})
      BY <2>4, Zenon
    <3>2. SumFunctionOnSet(f, both) = f[b] + f[a]
      BY <2>6, <2>7, <3>1, Zenon
    <3> QED
      BY <2>1, <2>2, <3>2
  <2>9. FoldFunction(+, 0, f) = Count(a, m) + Count(b, m)
    BY <2>3, <2>8
  <2> QED
    BY <2>9 DEF f
<1>3. UNION {DOMAIN p : p \in both} = DOMAIN a \cup DOMAIN b
  OBVIOUS
<1>4. DOMAIN merged = DOMAIN a \cup DOMAIN b /\ merged = [m \in DOMAIN merged |-> merged[m]]
  BY <1>3
<1>5. \A m \in DOMAIN merged : merged[m] = Count(a, m) + Count(b, m)
  BY <1>2
<1> HIDE DEF merged
<1>6. \A m : Count(a, m) \in Nat /\ Count(b, m) \in Nat
  BY CountIsNatural
<1>7. IsPool(merged)
  BY <1>4, <1>5, <1>6 DEF IsPool
<1>8. \A m : Count(merged, m) = Count(a, m) + Count(b, m)
  <2> TAKE m
  <2>1. CASE m \in DOMAIN merged
    BY <1>5, <2>1 DEF Count
  <2>2. CASE m \notin DOMAIN merged
    BY <1>4, <2>2 DEF Count
  <2> QED
    BY <2>1, <2>2
<1>9. Compact(merged) = Compact(Sum(a, b))
  BY <1>7, <1>8, SumByCounts, SameCounts
<1> QED
  BY <1>1, <1>9

-----------------------------------------------------------------------------

(* The clauses of CompositionsCover, each for all pools.                   *)
LEMMA ExpandedMeets ==
  ASSUME NEW A, A # {}, \A a \in A : IsPool(a), NEW bound, IsPool(bound), NEW p, IsPool(p)
  PROVE  Meets(p, ExpandedCombinations({Compact(a) : a \in A}, bound))
           <=> Meets(p, A) /\ IsSubset(bound, p)
<1> DEFINE C == {Compact(a) : a \in A}
           expanded == ExpandToLowerBound(C, bound)
<1>1. C # {} /\ \A c \in C : IsPool(c)
  BY CompactByCounts
<1>2. Meets(p, C) <=> Meets(p, A)
  BY CompactIncludes DEF Meets
<1> HIDE DEF C
<1>3. \A q \in expanded : IsPool(q)
  <2>1. expanded = {PoolMax(bound, c) : c \in C}
    BY <1>1 DEF ExpandToLowerBound
  <2> QED
    BY <1>1, <2>1, MaxByCounts
<1>4. Meets(p, expanded) <=> IsSubset(bound, p) /\ Meets(p, C)
  BY <1>1, ExpansionMeetsBound
<1> HIDE DEF expanded
<1>5. Meets(p, {Compact(q) : q \in expanded}) <=> Meets(p, expanded)
  BY <1>3, CompactIncludes DEF Meets
<1>6. ExpandedCombinations(C, bound) = {Compact(q) : q \in expanded}
  BY DEF ExpandedCombinations, expanded
<1> QED
  BY <1>2, <1>4, <1>5, <1>6 DEF C

(* A combination is sufficient for a bound it includes.                     *)
LEMMA SufficientIncludes ==
  ASSUME NEW p, IsPool(p), NEW bound, IsPool(bound)
  PROVE  SufficientCombinations({Compact(p)}, bound) # {} <=> IsSubset(bound, p)
<1>1. SufficientCombinations({Compact(p)}, bound) # {} <=> IsSubset(bound, Compact(p))
  BY DEF SufficientCombinations, ApplyLowerBound, IsSubset
<1> QED
  BY <1>1, CompactIncludes

(* A combination is within a bound that has an entry for all its models.    *)
LEMMA BoundedIncluded ==
  ASSUME NEW p, IsPool(p), NEW b, IsPool(b)
  PROVE  BoundedCombinations({Compact(p)}, [m \in DOMAIN p |-> Count(b, m)]) # {} <=> IsSubset(p, b)
<1> DEFINE bound == [m \in DOMAIN p |-> Count(b, m)]
           c == Compact(p)
<1>1. BoundedCombinations({c}, bound) # {} <=> WithinUpperBound(c, bound)
  BY DEF BoundedCombinations, ApplyUpperBound
<1>2. DOMAIN c = {m \in DOMAIN p : p[m] # 0} /\ \A m \in DOMAIN c : c[m] = p[m]
  BY DEF Compact
<1> HIDE DEF c
<1>3. WithinUpperBound(c, bound) <=> \A m \in DOMAIN c : p[m] <= Count(b, m)
  BY <1>2 DEF WithinUpperBound
<1>4. DOMAIN p \subseteq Model /\ \A m \in DOMAIN p : p[m] \in Nat
  BY DEF IsPool
<1>5. \A m : Count(b, m) \in Nat
  BY CountIsNatural
<1>6. (\A m \in DOMAIN c : p[m] <= Count(b, m)) <=> \A m \in Model : Count(p, m) <= Count(b, m)
  BY <1>2, <1>4, <1>5 DEF Count
<1> QED
  BY <1>1, <1>3, <1>6, SubsetByCounts DEF c

(* A pool and its delta to a larger one merge to that, unless they are     *)
(* equal: then one of them is left out.                                    *)
THEOREM DeltaMerges ==
  ASSUME NEW a, IsPool(a), NEW b, IsPool(b), IsSubset(a, b), a # Delta(a, b)
  PROVE  Merge(a, Delta(a, b)) = Compact(b)
<1>1. IsPool(Delta(a, b)) /\ Compact(Sum(a, Delta(a, b))) = Compact(b)
  BY DeltaCompletes
<1>2. Merge(a, Delta(a, b)) = Compact(Sum(a, Delta(a, b)))
  BY <1>1, MergeIsSum
<1> QED
  BY <1>1, <1>2

(* The max of a pool and a part of it is that pool.                         *)
LEMMA MaxOfPart ==
  ASSUME NEW a, IsPool(a), NEW b, IsPool(b), IsSubset(a, b)
  PROVE  Compact(PoolMax(a, b)) = Compact(b)
<1>1. IsPool(PoolMax(a, b)) /\ \A m : Count(PoolMax(a, b), m) = Larger(Count(a, m), Count(b, m))
  BY MaxByCounts
<1>2. \A m : Count(a, m) \in Nat /\ Count(b, m) \in Nat
  BY CountIsNatural
<1>3. \A m \in Model : Count(a, m) <= Count(b, m)
  BY SubsetByCounts
<1>4. \A m : m \notin Model => Count(a, m) = 0 /\ Count(b, m) = 0
  BY DEF IsPool, Count
<1>5. \A m : Larger(Count(a, m), Count(b, m)) = Count(b, m)
  BY <1>2, <1>3, <1>4 DEF Larger
<1> QED
  BY <1>1, <1>5, SameCounts

-----------------------------------------------------------------------------
(* Constraints                                                             *)

Lower(cluster) == {c.value : c \in {d \in cluster : d.type \in {EQUAL, GREATER_EQUAL, GREATER_THAN}}}

Upper(cluster) == {c.value : c \in {d \in cluster : d.type \in {EQUAL, LESS_THAN, LESS_EQUAL}}}

(* Of a finite set of numbers one is the least.                            *)
LEMMA FiniteHasLeast ==
  ASSUME NEW S, S \subseteq Int, IsFiniteSet(S), S # {}
  PROVE  \E m \in S : \A k \in S : m <= k
<1> DEFINE R == {p \in S \X S : p[1] >= p[2]}
<1>1. \A x, y \in S : <<x, y>> \in R <=> x >= y
  OBVIOUS
<1> HIDE DEF R
<1>2. TotallyOrders(R, S)
  BY <1>1 DEF TotallyOrders
<1>3. PICK g : LastOf(g, R, S)
  BY <1>2, LastExists
<1>4. g \in S /\ \A x \in S : x = g \/ x >= g
  BY <1>1, <1>3 DEF LastOf
<1>5. \A x \in S : g <= x
  BY <1>4
<1> QED
  BY <1>4, <1>5

(* Values a set of constraints names are finitely many.                    *)
LEMMA BoundsAreFinite ==
  ASSUME NEW C, IsFiniteSet(C)
  PROVE  IsFiniteSet(Lower(C)) /\ IsFiniteSet(Upper(C))
<1>1. ASSUME NEW D, D \in SUBSET C PROVE IsFiniteSet({c.value : c \in D})
  <2> DEFINE V == {c.value : c \in D}
             f == [c \in D |-> c.value]
  <2>1. f \in Surjection(D, V)
    BY DEF Surjection
  <2>2. IsFiniteSet(D)
    BY <1>1, FS_Subset
  <2> QED
    BY <2>1, <2>2, FS_Surjection
<1>2. /\ {d \in C : d.type \in {EQUAL, GREATER_EQUAL, GREATER_THAN}} \in SUBSET C
      /\ {d \in C : d.type \in {EQUAL, LESS_THAN, LESS_EQUAL}} \in SUBSET C
  OBVIOUS
<1> QED
  BY <1>1, <1>2 DEF Lower, Upper

(* What the solver makes of a set of constraints: the largest lower bound  *)
(* and the smallest upper bound, unless they leave nothing.                *)
Solved(C, min, max) ==
  /\ min \in Lower(C) \cup {-Unbounded} /\ \A k \in Lower(C) \cup {-Unbounded} : k <= min
  /\ max \in Upper(C) \cup {Unbounded} /\ \A k \in Upper(C) \cup {Unbounded} : max <= k
  /\ min \in Int /\ max \in Int
  /\ Merged(C) = IF \/ min > max \/ max < 0
                    \/ min = max /\ \E c \in C : c.type \in {LESS_THAN, GREATER_THAN} /\ c.value = min
                 THEN Conflict ELSE <<Larger(0, min), max>>

-----------------------------------------------------------------------------
(* Scaling a pool until it meets constraints                               *)

(* A multiple of a value reaches bounds, and is within them.               *)
Reaches(n, v, b) == b # Conflict /\ n * v >= b[1]

Fits(n, v, b) == Reaches(n, v, b) /\ n * v <= b[2]

AreBounds(b) == b = Conflict \/ \E low, high \in 0 .. Unbounded : b = <<low, high>>

(* What getScalingFactor has made of the factor after some properties.     *)
FactorIsLeast(factor, D, values, bounds) ==
  /\ factor \in 0 .. Infinite
  /\ factor = 0 => \A n \in Nat \ {0} : \E p \in D : ~Fits(n, values[p], bounds[p])
  /\ factor \in 1 .. Infinite - 1 =>
        /\ \A p \in D : Reaches(factor, values[p], bounds[p])
        /\ \A n \in 1 .. factor - 1 : \E p \in D : ~Reaches(n, values[p], bounds[p])
        /\ \A p \in D : D = {p} => Fits(factor, values[p], bounds[p])
  /\ factor = Infinite => \A n \in Nat : \E p \in D : ~Reaches(n, values[p], bounds[p])
  /\ factor = 1 => \A p \in D : Fits(1, values[p], bounds[p])
  /\ (\A p \in D : Fits(1, values[p], bounds[p])) => factor = 1

(* More of a value is more, and at least as much.                          *)
LEMMA MultiplesGrow ==
  ASSUME NEW v \in Nat, NEW i \in Nat, NEW j \in Nat, i <= j
  PROVE  i * v \in Nat /\ j * v \in Nat /\ i * v <= j * v /\ (v > 0 => j <= j * v)
<1>1. PICK d \in Nat : j = i + d
  <2>1. j - i \in Nat /\ j = i + (j - i)
    OBVIOUS
  <2> QED
    BY <2>1
<1>2. i * v \in Nat /\ d * v \in Nat /\ j * v \in Nat
  OBVIOUS
<1>3. j * v = i * v + d * v
  BY <1>1
<1>4. ASSUME v > 0 PROVE j <= j * v
  <2>1. PICK w \in Nat : v = 1 + w
    <3>1. v - 1 \in Nat /\ v = 1 + (v - 1)
      BY <1>4
    <3> QED
      BY <3>1
  <2>2. j * v = j + j * w /\ j * w \in Nat
    BY <2>1
  <2> QED
    BY <2>2
<1> QED
  BY <1>2, <1>3, <1>4

(* The quotient rounded up is the least factor.                            *)
LEMMA QuotientIsLeast ==
  ASSUME NEW v \in Nat, v > 0, NEW b \in Nat
  PROVE  /\ CeilDiv(b, v) \in Nat /\ CeilDiv(b, v) <= b
         /\ \A n \in Nat : n * v >= b <=> n >= CeilDiv(b, v)
<1> DEFINE x == b + v - 1
           q == x \div v
           r == x % v
<1>1. x \in Nat /\ x >= v - 1
  OBVIOUS
<1>2. q \in Nat /\ r \in 0 .. v - 1 /\ x = v * q + r
  BY <1>1
<1> HIDE DEF q, r
<1>3. q * v = v * q /\ q * v \in Nat
  BY <1>2
<1>4. q * v >= b /\ q * v < b + v
  BY <1>2, <1>3
<1>5. ASSUME NEW n \in Nat PROVE n * v >= b <=> n >= q
  <2>1. CASE n >= q
    BY <1>2, <1>4, <2>1, MultiplesGrow
  <2>2. CASE n < q
    <3>1. (n + 1) * v <= q * v /\ (n + 1) * v = n * v + v /\ n * v \in Nat
      BY <1>2, <2>2, MultiplesGrow
    <3> QED
      BY <1>3, <1>4, <2>2, <3>1, <1>2
  <2> QED
    BY <1>2, <2>1, <2>2
<1>6. q <= b
  <2>1. b * v >= b
    BY MultiplesGrow
  <2> QED
    BY <1>5, <2>1
<1>7. CeilDiv(b, v) = q
  BY DEF CeilDiv, q
<1> QED
  BY <1>2, <1>5, <1>6, <1>7

(* Every bound is a factor that is not infinite.                           *)
LEMMA InfiniteIsBeyond ==
  Unbounded \in Nat /\ Infinite \in Nat /\ 1 < Unbounded /\ Unbounded < Infinite
BY SMT DEF Infinite, Unbounded

(* A factor that is raised for a property reaches its bounds, but one less *)
(* does not.                                                               *)
Raised(factor, v, b) == IF factor * v < b[1] THEN Larger(QuotientUp(b[1], v), factor) ELSE factor

(* getScalingFactor raises its factor for a property exactly as far as the *)
(* lower bound asks, and to Infinite only where none reaches it.           *)
LEMMA RaisedIsLeast ==
  ASSUME NEW factor \in 1 .. Infinite, NEW v \in 0 .. Unbounded,
         NEW low \in 0 .. Unbounded, NEW high \in 0 .. Unbounded
  PROVE  LET raised == Raised(factor, v, <<low, high>>)
         IN  /\ raised \in factor .. Infinite
             /\ raised < Infinite => raised * v >= low
             /\ raised = Infinite => factor = Infinite \/ \A n \in Nat : n * v < low
             /\ \A n \in factor .. raised - 1 : n * v < low
<1> DEFINE raised == Raised(factor, v, <<low, high>>)
<1>0. /\ factor \in Nat /\ v \in Nat /\ low \in Nat /\ low < Infinite /\ factor <= Infinite /\ factor >= 1
      /\ Infinite \in Nat
  BY InfiniteIsBeyond
<1>1. factor * v \in Nat
  BY <1>0, MultiplesGrow
<1>2. CASE factor * v >= low
  <2>1. raised = factor
    BY <1>0, <1>1, <1>2 DEF Raised
  <2> QED
    BY <1>0, <1>2, <2>1
<1>3. CASE factor * v < low /\ v = 0
  <2>1. raised = Infinite
    BY <1>0, <1>3 DEF Raised, QuotientUp, Larger
  <2>2. \A n \in Nat : n * v = 0
    BY <1>3
  <2>3. low > 0
    BY <1>0, <1>1, <1>3
  <2>4. \A n \in factor .. raised - 1 : n \in Nat
    BY <1>0, <2>1
  <2> QED
    BY <1>0, <2>1, <2>2, <2>3, <2>4
<1>4. CASE factor * v < low /\ v > 0
  <2> DEFINE q == CeilDiv(low, v)
  <2>1. q \in Nat /\ q <= low /\ \A n \in Nat : n * v >= low <=> n >= q
    BY <1>0, <1>4, QuotientIsLeast
  <2> HIDE DEF q
  <2>2. factor < q
    BY <1>0, <1>1, <1>4, <2>1
  <2>3. raised = q
    BY <1>0, <1>4, <2>1, <2>2 DEF Raised, QuotientUp, Larger, q
  <2>4. \A n \in factor .. raised - 1 : n \in Nat /\ n * v \in Nat /\ ~(n >= q)
    BY <1>0, <2>1, <2>3
  <2>5. \A n \in factor .. raised - 1 : n * v < low
    BY <1>0, <2>1, <2>4
  <2> QED
    BY <1>0, <2>1, <2>2, <2>3, <2>5
<1> QED
  BY <1>0, <1>1, <1>2, <1>3, <1>4

(* The three things getScalingFactor may say of some properties.           *)
LEMMA FactorRefused ==
  ASSUME NEW D, NEW values, NEW bounds,
         \A n \in Nat \ {0} : \E p \in D : ~Fits(n, values[p], bounds[p])
  PROVE  FactorIsLeast(0, D, values, bounds)
<1>1. Infinite \in Nat /\ 1 < Infinite /\ 0 \in 0 .. Infinite /\ ~(0 \in 1 .. Infinite - 1) /\ 1 \in Nat \ {0}
  BY InfiniteIsBeyond
<1>2. ~ \A p \in D : Fits(1, values[p], bounds[p])
  BY <1>1
<1>3. 0 # Infinite /\ 0 # 1
  BY <1>1
<1> QED
  BY <1>1, <1>2, <1>3, Zenon DEF FactorIsLeast

(* Where no number of copies reaches every bound, the infinite factor is   *)
(* the right answer.                                                       *)
LEMMA FactorUnbounded ==
  ASSUME NEW D, NEW values, NEW bounds,
         \A n \in Nat : \E p \in D : ~Reaches(n, values[p], bounds[p])
  PROVE  FactorIsLeast(Infinite, D, values, bounds)
<1>1. Infinite \in Nat /\ 1 < Infinite /\ Infinite \in 0 .. Infinite /\ ~(Infinite \in 1 .. Infinite - 1) /\ 1 \in Nat
  BY InfiniteIsBeyond
<1>2. ~ \A p \in D : Fits(1, values[p], bounds[p])
  BY <1>1 DEF Fits
<1>3. Infinite # 0 /\ Infinite # 1
  BY <1>1
<1> QED
  BY <1>1, <1>2, <1>3, Zenon DEF FactorIsLeast

(* A factor that reaches every bound, and below which none does, is the    *)
(* least.                                                                  *)
LEMMA FactorFound ==
  ASSUME NEW D, NEW values, NEW bounds, NEW factor \in 1 .. Infinite - 1,
         \A p \in D : Reaches(factor, values[p], bounds[p]),
         \A n \in 1 .. factor - 1 : \E p \in D : ~Reaches(n, values[p], bounds[p]),
         \A p \in D : D = {p} => Fits(factor, values[p], bounds[p]),
         factor = 1 <=> \A p \in D : Fits(1, values[p], bounds[p])
  PROVE  FactorIsLeast(factor, D, values, bounds)
<1>1. factor \in 0 .. Infinite /\ factor # 0 /\ factor # Infinite
  BY InfiniteIsBeyond
<1> QED
  BY <1>1, Zenon DEF FactorIsLeast

(* One more property keeps the factor the least one.                       *)
LEMMA ScaledIsLeast ==
  ASSUME NEW D, NEW p, p \notin D, NEW values, \A q \in D \cup {p} : values[q] \in 0 .. Unbounded,
         NEW bounds, \A q \in D \cup {p} : AreBounds(bounds[q]),
         NEW factor, FactorIsLeast(factor, D, values, bounds)
  PROVE  FactorIsLeast(Scaled(factor, values[p], bounds[p]), D \cup {p}, values, bounds)
<1> DEFINE v == values[p]
           b == bounds[p]
           E == D \cup {p}
           raised == Raised(factor, v, b)
           R(n, q) == Reaches(n, values[q], bounds[q])
           F(n, q) == Fits(n, values[q], bounds[q])
           scaled == Scaled(factor, v, b)
<1>0. /\ Infinite \in Nat /\ Infinite > 1 /\ factor \in 0 .. Infinite /\ v \in Nat /\ AreBounds(b)
      /\ \A q \in E : values[q] \in Nat
  BY InfiniteIsBeyond DEF FactorIsLeast
<1>1. \A n, q : F(n, q) => R(n, q)
  BY DEF Fits
<1>2. \A q \in E : \A i, j \in Nat : i <= j /\ R(i, q) => R(j, q)
  <2> SUFFICES ASSUME NEW q \in E, NEW i \in Nat, NEW j \in Nat, i <= j, R(i, q) PROVE R(j, q)
    OBVIOUS
  <2>1. i * values[q] <= j * values[q] /\ i * values[q] \in Nat /\ j * values[q] \in Nat
    BY <1>0, MultiplesGrow
  <2>2. PICK low, high \in 0 .. Unbounded : bounds[q] = <<low, high>>
    BY DEF Reaches, AreBounds
  <2> QED
    BY <2>1, <2>2 DEF Reaches
<1>3. CASE factor = 0 \/ b = Conflict
  <2>1. scaled = 0
    BY <1>3 DEF Scaled
  <2>2. ASSUME NEW n \in Nat \ {0} PROVE \E q \in E : ~F(n, q)
    <3>1. CASE factor = 0
      BY <3>1 DEF FactorIsLeast
    <3>2. CASE b = Conflict
      BY <3>2 DEF Fits, Reaches
    <3> QED
      BY <1>3, <3>1, <3>2
  <2>3. FactorIsLeast(0, E, values, bounds)
    BY <2>2, FactorRefused
  <2> QED
    BY <2>1, <2>3
<1>4. CASE factor # 0 /\ factor # Infinite /\ b # Conflict
  <2>1. PICK low, high \in 0 .. Unbounded : b = <<low, high>>
    BY <1>0, <1>4 DEF AreBounds
  <2>2. /\ factor \in 1 .. Infinite /\ v \in 0 .. Unbounded
    BY <1>0, <1>4
  <2>3. /\ raised \in factor .. Infinite
        /\ raised < Infinite => raised * v >= low
        /\ raised = Infinite => factor = Infinite \/ \A n \in Nat : n * v < low
        /\ \A n \in factor .. raised - 1 : n * v < low
    BY <2>1, <2>2, RaisedIsLeast
  <2>4. scaled = IF v > 0 /\ raised * v > high THEN 0 ELSE raised
    <3> HIDE DEF v, b
    <3>1. scaled = LET up == IF factor * v < b[1] THEN Larger(QuotientUp(b[1], v), factor) ELSE factor
                   IN  IF v > 0 /\ up * v > b[2] THEN 0 ELSE up
      BY <1>4, Zenon DEF Scaled
    <3> QED
      BY <2>1, <3>1 DEF Raised
  <2>5. b # Conflict /\ b[1] = low /\ b[2] = high /\ low \in Nat /\ high \in Nat
    BY <1>4, <2>1, InfiniteIsBeyond
  <2>6. /\ \A n : R(n, p) <=> n * v >= low
        /\ \A n : F(n, p) <=> n * v >= low /\ n * v <= high
    BY <2>5 DEF Reaches, Fits
  <2>7. /\ raised \in Nat /\ raised >= 1 /\ raised <= Infinite /\ factor <= raised /\ factor \in Nat /\ factor >= 1
        /\ \A n \in Nat : n * v \in Nat
    BY <1>0, <2>2, <2>3
  <2>8. \A n \in factor .. raised - 1 : ~R(n, p)
    BY <2>3, <2>5, <2>6, <2>7
  <2>9. \A n \in 1 .. raised - 1 : \E q \in E : ~R(n, q)
    <3> SUFFICES ASSUME NEW n \in 1 .. raised - 1 PROVE \E q \in E : ~R(n, q)
      OBVIOUS
    <3>1. CASE n >= factor
      BY <2>7, <2>8, <3>1
    <3>2. CASE n < factor /\ factor < Infinite
      <4>1. factor \in 1 .. Infinite - 1 /\ n \in 1 .. factor - 1
        BY <1>0, <2>7, <3>2
      <4> QED
        BY <4>1 DEF FactorIsLeast
    <3>3. CASE factor = Infinite
      BY <3>3 DEF FactorIsLeast
    <3>4. n >= factor \/ (n < factor /\ factor < Infinite) \/ factor = Infinite
      <4>1. raised \in Nat /\ factor \in Nat
        BY <2>7, Zenon
      <4>2. Infinite \in Nat /\ factor <= Infinite
        BY <1>0
      <4> HIDE DEF raised
      <4> QED
        BY <4>1, <4>2
    <3> QED
      BY <3>1, <3>2, <3>3, <3>4
  <2>10. ASSUME raised = Infinite, NEW n \in Nat PROVE \E q \in E : ~R(n, q)
    <3>1. CASE factor = Infinite
      BY <3>1 DEF FactorIsLeast
    <3>2. CASE \A m \in Nat : m * v < low
      BY <2>5, <2>6, <2>7, <3>2
    <3> QED
      BY <2>3, <2>10, <3>1, <3>2
  <2>11. ASSUME raised < Infinite, NEW q \in E PROVE R(raised, q)
    <3>1. CASE q = p
      BY <2>3, <2>6, <2>11, <3>1
    <3>2. CASE q \in D
      <4>1. factor \in 1 .. Infinite - 1
        BY <1>0, <2>7, <2>11
      <4>2. R(factor, q)
        BY <3>2, <4>1 DEF FactorIsLeast
      <4> QED
        BY <1>2, <2>7, <4>2
    <3> QED
      BY <3>1, <3>2
  <2>12. ASSUME raised < Infinite, raised * v <= high PROVE F(raised, p)
    BY <2>3, <2>6, <2>12
  <2>13. ASSUME \A q \in E : F(1, q) PROVE raised = 1 /\ raised * v <= high
    <3>1. factor = 1
      BY <2>13 DEF FactorIsLeast
    <3>2. 1 * v >= low /\ 1 * v <= high
      BY <2>6, <2>13
    <3>3. ~(factor * v < b[1])
      BY <1>0, <2>5, <3>1, <3>2
    <3>4. raised = factor
      BY <3>3 DEF Raised
    <3> QED
      BY <3>1, <3>2, <3>4
  <2>14. ASSUME raised = 1, raised * v <= high, NEW q \in E PROVE F(1, q)
    <3>1. factor = 1
      BY <2>7, <2>14
    <3>2. CASE q = p
      BY <1>0, <2>12, <2>14, <3>2
    <3>3. CASE q \in D
      BY <3>1, <3>3 DEF FactorIsLeast
    <3> QED
      BY <3>2, <3>3
  <2>15. raised * v \in Nat
    BY <2>7
  <2>16. CASE v > 0 /\ raised * v > high
    <3>1. scaled = 0
      BY <2>4, <2>16
    <3>2. ASSUME NEW n \in Nat \ {0} PROVE \E q \in E : ~F(n, q)
      <4>1. CASE n < raised
        <5>1. n \in 1 .. raised - 1
          BY <2>7, <4>1
        <5> QED
          BY <1>1, <2>9, <5>1
      <4>2. CASE n >= raised
        <5>1. n * v >= raised * v /\ n * v \in Nat
          BY <1>0, <2>7, <4>2, MultiplesGrow
        <5>2. ~(n * v <= high)
          BY <2>5, <2>15, <2>16, <5>1
        <5> QED
          BY <2>6, <5>2
      <4> QED
        BY <2>7, <4>1, <4>2
    <3>3. FactorIsLeast(0, E, values, bounds)
      BY <3>2, FactorRefused
    <3> QED
      BY <3>1, <3>3
  <2>17. CASE raised < Infinite /\ raised * v <= high
    <3>1. scaled = raised
      BY <2>4, <2>5, <2>15, <2>17
    <3>2. ASSUME NEW q \in E, E = {q} PROVE F(raised, q)
      BY <2>12, <2>17, <3>2
    <3>3. raised \in 1 .. Infinite - 1
      BY <1>0, <2>7, <2>17
    <3>4. raised = 1 <=> \A q \in E : F(1, q)
      BY <2>13, <2>14, <2>17
    <3>5. FactorIsLeast(raised, E, values, bounds)
      <4>1. \A q \in E : R(raised, q)
        BY <2>11, <2>17
      <4> HIDE DEF raised, E
      <4> QED
        BY <2>9, <3>2, <3>3, <3>4, <4>1, FactorFound
    <3> QED
      BY <3>1, <3>5
  <2>18. CASE raised = Infinite /\ ~(v > 0 /\ raised * v > high)
    <3>1. scaled = Infinite
      BY <2>4, <2>18
    <3>2. FactorIsLeast(Infinite, E, values, bounds)
      BY <2>10, <2>18, FactorUnbounded
    <3> QED
      BY <3>1, <3>2
  <2>19. \/ v > 0 /\ raised * v > high
         \/ raised < Infinite /\ raised * v <= high
         \/ raised = Infinite /\ ~(v > 0 /\ raised * v > high)
    <3>1. CASE v = 0
      <4>1. raised * v = 0
        BY <2>7, <3>1
      <4> HIDE DEF raised
      <4> QED
        BY <1>0, <2>5, <2>7, <3>1, <4>1
    <3>2. CASE v > 0
      <4> HIDE DEF raised
      <4> QED
        BY <1>0, <2>5, <2>7, <2>15, <3>2
    <3> QED
      BY <1>0, <3>1, <3>2
  <2> QED
    BY <2>16, <2>17, <2>18, <2>19
<1>5. CASE factor = Infinite /\ b # Conflict
  <2>1. \A n \in Nat : \E q \in E : ~R(n, q)
    BY <1>5 DEF FactorIsLeast
  <2>2. factor # 0
    BY <1>0, <1>5
  <2>3. scaled = IF v = 0 THEN Infinite ELSE 0
    BY <1>5, <2>2, Zenon DEF Scaled
  <2>4. FactorIsLeast(Infinite, E, values, bounds)
    BY <2>1, FactorUnbounded
  <2>5. FactorIsLeast(0, E, values, bounds)
    BY <1>1, <2>1, FactorRefused
  <2> QED
    BY <2>3, <2>4, <2>5
<1> QED
  BY <1>3, <1>4, <1>5

(* A factor stays one.                                                     *)
LEMMA ScaledIsFactor ==
  ASSUME NEW factor \in 0 .. Infinite, NEW v \in 0 .. Unbounded, NEW b, AreBounds(b)
  PROVE  Scaled(factor, v, b) \in 0 .. Infinite
<1>0. Infinite \in Nat /\ 0 \in 0 .. Infinite
  BY InfiniteIsBeyond
<1>1. CASE factor = 0 \/ b = Conflict
  BY <1>0, <1>1 DEF Scaled
<1>2. CASE factor # 0 /\ b # Conflict
  <2>1. PICK low, high \in 0 .. Unbounded : b = <<low, high>>
    BY <1>2 DEF AreBounds
  <2>2. factor \in 1 .. Infinite
    BY <1>0, <1>2
  <2>3. Raised(factor, v, b) \in factor .. Infinite
    BY <2>1, <2>2, RaisedIsLeast
  <2>4. Raised(factor, v, b) \in 0 .. Infinite
    <3> HIDE DEF Raised
    <3> QED
      BY <1>0, <2>3
  <2> QED
    BY <1>0, <1>2, <2>4, Zenon DEF Scaled, Raised
<1> QED
  BY <1>1, <1>2

(* The factor after each property, in their order.                         *)
LastProperty(clusters) == Greatest({0} \cup DOMAIN clusters)

NextFactor(factor, p, values, clusters) ==
  IF p \in DOMAIN clusters THEN Scaled(factor, values[p], Merged(clusters[p])) ELSE factor

Factors(f, N, values, clusters) ==
  f = [p \in 0 .. N |-> IF p = 0 THEN 1 ELSE NextFactor(f[p - 1], p, values, clusters)]

(* getScalingFactor is the last of the factors computed property by        *)
(* property.                                                               *)
LEMMA ScalingUnfolded ==
  ASSUME NEW values, NEW C
  PROVE  LET N == LastProperty(Clusters(C))
         IN  ScalingFactor(values, C) = (CHOOSE f : Factors(f, N, values, Clusters(C)))[N]
BY Zenon DEF ScalingFactor, LastProperty, Factors, NextFactor

(* The recursion of getScalingFactor has a solution.                       *)
LEMMA FactorsExist ==
  ASSUME NEW clusters, NEW values, NEW N \in Nat,
         \A p \in DOMAIN clusters : values[p] \in 0 .. Unbounded /\ AreBounds(Merged(clusters[p]))
  PROVE  \E f : Factors(f, N, values, clusters)
<1> DEFINE D == Nat \X (0 .. Infinite)
           step == [x \in D |-> <<x[1] + 1, NextFactor(x[2], x[1] + 1, values, clusters)>>]
<1>1. \A i \in 0 .. Infinite : \A p : NextFactor(i, p, values, clusters) \in 0 .. Infinite
  BY ScaledIsFactor DEF NextFactor
<1>2. step \in [D -> D]
  <2>1. \A x \in D : x[1] + 1 \in Nat /\ NextFactor(x[2], x[1] + 1, values, clusters) \in 0 .. Infinite
    BY <1>1
  <2> QED
    BY <2>1
<1>3. <<0, 1>> \in D
  BY InfiniteIsBeyond
<1>4. PICK g : Recursion(g, D, <<0, 1>>, step, 0, N)
  <2> HIDE DEF D, step
  <2>1. 0 \in Nat
    OBVIOUS
  <2> QED
    BY <1>2, <1>3, <2>1, RecursionExists
<1> DEFINE f == [p \in 0 .. N |-> g[p][2]]
<1>5. /\ \A k \in 0 .. N : g[k] \in D
      /\ g[0] = <<0, 1>>
      /\ \A k \in 1 .. N : g[k] = step[g[k - 1]]
  <2> HIDE DEF D, step
  <2>1. 0 + 1 = 1 /\ 0 + N = N
    OBVIOUS
  <2>2. g \in [0 .. N -> D] /\ g[0] = <<0, 1>> /\ \A k \in 1 .. N : g[k] = step[g[k - 1]]
    BY <1>4, <2>1 DEF Recursion
  <2> QED
    BY <2>2
<1>6. \A k \in 1 .. N : /\ k - 1 \in 0 .. N /\ k \in 0 .. N
                         /\ g[k] = <<g[k - 1][1] + 1, NextFactor(g[k - 1][2], g[k - 1][1] + 1, values, clusters)>>
  <2> SUFFICES ASSUME NEW k \in 1 .. N
               PROVE  /\ k - 1 \in 0 .. N /\ k \in 0 .. N
                      /\ g[k] = <<g[k - 1][1] + 1, NextFactor(g[k - 1][2], g[k - 1][1] + 1, values, clusters)>>
    OBVIOUS
  <2>1. k - 1 \in 0 .. N /\ k \in 0 .. N
    OBVIOUS
  <2>2. g[k - 1] \in D /\ g[k] = step[g[k - 1]]
    BY <1>5, <2>1
  <2> QED
    BY <2>1, <2>2
<1>7. \A k \in 0 .. N : g[k][1] = k
  <2> DEFINE P == {k \in Nat : k \in 0 .. N => g[k][1] = k}
  <2>1. 0 \in P
    BY <1>5
  <2>2. \A k \in Nat : k \in P => k + 1 \in P
    <3> SUFFICES ASSUME NEW k \in Nat, k \in P, k + 1 \in 0 .. N PROVE g[k + 1][1] = k + 1
      OBVIOUS
    <3>1. g[k][1] = k /\ k + 1 \in 1 .. N /\ (k + 1) - 1 = k
      OBVIOUS
    <3> QED
      BY <1>6, <3>1
  <2> HIDE DEF P
  <2>3. Nat \subseteq P
    BY <2>1, <2>2, NatSetInduction
  <2> QED
    BY <2>3 DEF P
<1>8. \A k \in 0 .. N : f[k] = IF k = 0 THEN 1 ELSE NextFactor(f[k - 1], k, values, clusters)
  <2> SUFFICES ASSUME NEW k \in 0 .. N
               PROVE f[k] = IF k = 0 THEN 1 ELSE NextFactor(f[k - 1], k, values, clusters)
    OBVIOUS
  <2>1. CASE k = 0
    BY <1>5, <2>1
  <2>2. CASE k # 0
    <3>1. k \in 1 .. N /\ k - 1 \in 0 .. N
      BY <2>2
    <3>2. g[k] = <<g[k - 1][1] + 1, NextFactor(g[k - 1][2], g[k - 1][1] + 1, values, clusters)>>
      BY <1>6, <3>1
    <3>3. g[k - 1][1] = k - 1 /\ (k - 1) + 1 = k
      BY <1>7, <3>1
    <3>4. g[k][2] = NextFactor(g[k - 1][2], k, values, clusters)
      BY <3>2, <3>3
    <3> QED
      BY <2>2, <3>1, <3>4
  <2> QED
    BY <2>1, <2>2
<1>9. f = [p \in 0 .. N |-> f[p]]
  OBVIOUS
<1> HIDE DEF f
<1> QED
  BY <1>8, <1>9 DEF Factors

(* The properties up to one.                                               *)
UpTo(clusters, k) == {p \in DOMAIN clusters : p \in 1 .. k}

(* The factor getScalingFactor returns is the least one.                   *)
THEOREM ScalingIsTheLeast ==
  ASSUME NEW C, NEW values, IsFiniteSet(DOMAIN Clusters(C)), DOMAIN Clusters(C) \subseteq Nat \ {0},
         \A p \in DOMAIN Clusters(C) : values[p] \in 0 .. Unbounded /\ AreBounds(Merged(Clusters(C)[p]))
  PROVE  FactorIsLeast(ScalingFactor(values, C), DOMAIN Clusters(C), values,
                       [p \in DOMAIN Clusters(C) |-> Merged(Clusters(C)[p])])
<1> DEFINE clusters == Clusters(C)
           bounds == [p \in DOMAIN clusters |-> Merged(clusters[p])]
           N == LastProperty(clusters)
           f == CHOOSE f : Factors(f, N, values, clusters)
<1>1. N \in Nat /\ \A p \in DOMAIN clusters : p <= N
  <2> DEFINE S == {0} \cup DOMAIN clusters
  <2>1. IsFiniteSet(S)
    BY FS_Singleton, FS_Union
  <2>2. S \subseteq Int /\ S \subseteq Nat /\ S # {}
    OBVIOUS
  <2>3. \E m \in S : \A k \in S : k <= m
    <3> HIDE DEF S
    <3> QED
      BY <2>1, <2>2, FiniteHasGreatest
  <2>4. Greatest(S) \in S /\ \A k \in S : k <= Greatest(S)
    <3> HIDE DEF S
    <3> QED
      BY <2>3 DEF Greatest
  <2>5. N = Greatest(S)
    BY DEF LastProperty
  <2> HIDE DEF N
  <2> QED
    BY <2>2, <2>4, <2>5
<1>2. ScalingFactor(values, C) = f[N]
  BY ScalingUnfolded
<1>a. \E g : Factors(g, N, values, clusters)
  <2> HIDE DEF N
  <2> QED
    BY <1>1, FactorsExist
<1>3. Factors(f, N, values, clusters)
  BY <1>a
<1> HIDE DEF f, N
<1>4. f[0] = 1 /\ \A k \in 1 .. N : f[k] = NextFactor(f[k - 1], k, values, clusters)
  <2>1. \A k \in 0 .. N : f[k] = IF k = 0 THEN 1 ELSE NextFactor(f[k - 1], k, values, clusters)
    BY <1>3, Zenon DEF Factors
  <2>2. 0 \in 0 .. N /\ \A k \in 1 .. N : k \in 0 .. N /\ k # 0
    BY <1>1
  <2> QED
    BY <2>1, <2>2
<1> DEFINE P == {k \in Nat : k <= N => FactorIsLeast(f[k], UpTo(clusters, k), values, bounds)}
<1>5. 0 \in P
  <2>1. UpTo(clusters, 0) = {}
    BY DEF UpTo
  <2>2. FactorIsLeast(1, {}, values, bounds)
    <3>1. 1 \in 1 .. Infinite - 1 /\ ~ \E n \in 1 .. 1 - 1 : TRUE
      BY InfiniteIsBeyond
    <3> QED
      BY <3>1, FactorFound
  <2> QED
    BY <1>4, <2>1, <2>2
<1>6. \A k \in Nat : k \in P => k + 1 \in P
  <2> SUFFICES ASSUME NEW k \in Nat, k \in P, k + 1 <= N
               PROVE FactorIsLeast(f[k + 1], UpTo(clusters, k + 1), values, bounds)
    OBVIOUS
  <2>1. FactorIsLeast(f[k], UpTo(clusters, k), values, bounds)
    BY <1>1
  <2>2. k + 1 \in 1 .. N /\ (k + 1) - 1 = k
    BY <1>1
  <2>3. f[k + 1] = NextFactor(f[k], k + 1, values, clusters)
    BY <1>4, <2>2
  <2>4. CASE k + 1 \in DOMAIN clusters
    <3>1. UpTo(clusters, k + 1) = UpTo(clusters, k) \cup {k + 1} /\ k + 1 \notin UpTo(clusters, k)
      BY <2>4 DEF UpTo
    <3>2. f[k + 1] = Scaled(f[k], values[k + 1], bounds[k + 1])
      BY <2>3, <2>4 DEF NextFactor
    <3>3. \A q \in UpTo(clusters, k) \cup {k + 1} : values[q] \in 0 .. Unbounded /\ AreBounds(bounds[q])
      BY <2>4 DEF UpTo
    <3> HIDE DEF bounds
    <3>4. FactorIsLeast(Scaled(f[k], values[k + 1], bounds[k + 1]), UpTo(clusters, k) \cup {k + 1}, values, bounds)
      BY <2>1, <3>1, <3>3, ScaledIsLeast
    <3> QED
      BY <3>1, <3>2, <3>4
  <2>5. CASE k + 1 \notin DOMAIN clusters
    <3>1. UpTo(clusters, k + 1) = UpTo(clusters, k)
      BY <2>5 DEF UpTo
    <3>2. f[k + 1] = f[k]
      BY <2>3, <2>5 DEF NextFactor
    <3> QED
      BY <2>1, <3>1, <3>2
  <2> QED
    BY <2>4, <2>5
<1> HIDE DEF P
<1>7. N \in P
  BY <1>1, <1>5, <1>6, NatSetInduction
<1>8. UpTo(clusters, N) = DOMAIN clusters
  BY <1>1 DEF UpTo
<1> QED
  BY <1>1, <1>2, <1>7, <1>8 DEF P

-----------------------------------------------------------------------------
(* Support vectors, and the pools of a mapping                             *)

(* A vector has finitely many dimensions and natural sizes.                *)
IsVector(v) == IsFiniteSet(DOMAIN v) /\ DOMAIN v \subseteq Nat /\ v \in [DOMAIN v -> Nat]

(* A sum of natural numbers is one.                                        *)
LEMMA SumOverIsNat ==
  ASSUME NEW f, NEW S, IsFiniteSet(S), \A x \in S : f[x] \in Nat
  PROVE  SumOver(f, S) \in Nat
<1>1. SumOver(f, S) = SumFunctionOnSet(f, S)
  BY DEF SumOver, SumFunctionOnSet
<1>2. SumFunctionOnSet(f, S) \in Nat
  BY SumIsNat
<1> QED
  BY <1>1, <1>2

(* The greatest of a finite set of numbers.                                *)
LEMMA GreatestIsOne ==
  ASSUME NEW S, IsFiniteSet(S), S \subseteq Int, S # {}
  PROVE  Greatest(S) \in S /\ \A k \in S : k <= Greatest(S)
<1>1. \E n \in S : \A k \in S : k <= n
  BY FiniteHasGreatest
<1> QED
  BY <1>1 DEF Greatest

(* The greatest of a single number is that number.                         *)
LEMMA GreatestOfOne ==
  ASSUME NEW n \in Nat
  PROVE  Greatest({n}) = n
BY DEF Greatest

(* Dimensions selected from sizes are a vector again.                      *)
LEMMA DimensionsAreVectors ==
  ASSUME NEW o, NEW c \in Nat, NEW filter, IsFiniteSet(filter), filter \subseteq Nat,
         NEW sizes, IsVector(sizes)
  PROVE  /\ IsVector(Dimensions(o, {c}, filter, sizes))
         /\ DOMAIN Dimensions(o, {c}, filter, sizes) =
              IF DOMAIN sizes # {} THEN IF filter = {} THEN DOMAIN sizes ELSE filter
              ELSE IF filter = {} \/ c \in filter THEN {c} ELSE {}
<1> DEFINE v == Dimensions(o, {c}, filter, sizes)
<1>1. CASE DOMAIN sizes = {}
  <2> DEFINE M == IF filter = {} \/ {c} \cap filter # {} THEN {c} ELSE {}
  <2>1. v = [m \in M |-> 1]
    BY <1>1 DEF Dimensions
  <2>2. IsFiniteSet(M) /\ M \subseteq Nat
    BY FS_EmptySet, FS_Singleton
  <2>3. M = IF filter = {} \/ c \in filter THEN {c} ELSE {}
    OBVIOUS
  <2> HIDE DEF M
  <2>4. DOMAIN v = M /\ v \in [M -> Nat]
    BY <2>1
  <2> QED
    BY <1>1, <2>2, <2>3, <2>4 DEF IsVector
<1>2. CASE DOMAIN sizes # {}
  <2> DEFINE L == IF filter = {} THEN DOMAIN sizes ELSE filter
             Of(l) == {q \in DOMAIN sizes : q = l \/ Below(o, q, l)}
  <2>1. v = [l \in L |-> SumOver(sizes, Of(l))]
    BY <1>2 DEF Dimensions
  <2>2. ASSUME NEW l \in L PROVE SumOver(sizes, Of(l)) \in Nat
    <3>1. IsFiniteSet(Of(l)) /\ \A q \in Of(l) : sizes[q] \in Nat
      BY FS_Subset DEF IsVector
    <3> QED
      BY <3>1, SumOverIsNat
  <2>3. IsFiniteSet(L) /\ L \subseteq Nat
    BY DEF IsVector
  <2> HIDE DEF Of
  <2>4. DOMAIN v = L /\ v \in [L -> Nat]
    BY <2>1, <2>2
  <2>5. IsVector(v)
    BY <2>3, <2>4 DEF IsVector
  <2> QED
    BY <1>2, <2>4, <2>5
<1> QED
  BY <1>1, <1>2

(* Embedding one pair of classes adds one size to another.                 *)
LEMMA EmbedKeeps ==
  ASSUME NEW o, NEW D, NEW v \in [D -> Nat], NEW p \in D \X D
  PROVE  Embed(o, v, p) \in [D -> Nat]
<1>1. p[1] \in D /\ p[2] \in D /\ v[p[1]] \in Nat /\ v[p[2]] \in Nat
  OBVIOUS
<1>2. CASE Below(o, p[1], p[2])
  <2>1. Embed(o, v, p) = [v EXCEPT ![p[2]] = v[p[2]] + v[p[1]]]
    BY <1>2 DEF Embed
  <2>2. v[p[2]] + v[p[1]] \in Nat
    BY <1>1
  <2> QED
    BY <1>1, <2>1, <2>2
<1>3. CASE ~Below(o, p[1], p[2]) /\ Below(o, p[2], p[1])
  <2>1. Embed(o, v, p) = [v EXCEPT ![p[1]] = v[p[1]] + v[p[2]]]
    BY <1>3 DEF Embed
  <2>2. v[p[1]] + v[p[2]] \in Nat
    BY <1>1
  <2> QED
    BY <1>1, <2>1, <2>2
<1>4. CASE ~Below(o, p[1], p[2]) /\ ~Below(o, p[2], p[1])
  BY <1>4 DEF Embed
<1> QED
  BY <1>2, <1>3, <1>4

(* A pair of labels is made of its two labels.                             *)
LEMMA PairIsItsParts ==
  ASSUME NEW D, NEW x \in D \X D
  PROVE  x[1] \in D /\ x[2] \in D /\ x = <<x[1], x[2]>>
OBVIOUS

(* The pairs of labels of a vector, each once.                             *)
PairsOf(D) == {p \in D \X D : p[1] < p[2]}

(* A vector has finitely many pairs of labels.                             *)
LEMMA PairsAreFinite ==
  ASSUME NEW D, IsFiniteSet(D)
  PROVE  IsFiniteSet(PairsOf(D))
<1>1. IsFiniteSet(D \X D)
  BY FS_Product
<1>2. PairsOf(D) \subseteq D \X D
  BY DEF PairsOf
<1> QED
  BY <1>1, <1>2, FS_Subset

(* There is a last one among some of them.                                 *)
LEMMA LastPairIsOne ==
  ASSUME NEW D, IsFiniteSet(D), D \subseteq Nat, NEW s \in SUBSET PairsOf(D), s # {}
  PROVE  LastPair(s) \in s
<1> DEFINE S == PairsOf(D)
           R == {q \in S \X S : q[1][1] < q[2][1] \/ (q[1][1] = q[2][1] /\ q[1][2] <= q[2][2])}
<1>1. \A x \in S : x[1] \in Nat /\ x[2] \in Nat /\ x = <<x[1], x[2]>>
  <2>1. \A x \in D \X D : x[1] \in Nat /\ x[2] \in Nat /\ x = <<x[1], x[2]>>
    BY PairIsItsParts
  <2> QED
    BY <2>1 DEF PairsOf
<1>2. \A x, y \in S : <<x, y>> \in R <=> x[1] < y[1] \/ (x[1] = y[1] /\ x[2] <= y[2])
  OBVIOUS
<1>3. IsFiniteSet(S)
  BY PairsAreFinite
<1> HIDE DEF S, R
<1>4. TotallyOrders(R, S)
  <2>1. ASSUME NEW x \in S, NEW y \in S
        PROVE  x = y \/ <<x, y>> \in R \/ <<y, x>> \in R
    BY <1>1, <1>2
  <2>2. ASSUME NEW x \in S, NEW y \in S, NEW z \in S, <<x, y>> \in R, <<y, z>> \in R
        PROVE  <<x, z>> \in R
    BY <1>1, <1>2, <2>2
  <2> QED
    BY <2>1, <2>2 DEF TotallyOrders
<1>5. s \in SUBSET S
  BY DEF S
<1>6. PICK g : LastOf(g, R, s)
  BY <1>3, <1>4, <1>5, LastExists
<1>7. g \in s /\ \A q \in s : q[1] < g[1] \/ (q[1] = g[1] /\ q[2] <= g[2])
  <2>1. g \in s /\ \A q \in s : q = g \/ <<q, g>> \in R
    BY <1>6 DEF LastOf
  <2>2. ASSUME NEW q \in s PROVE q[1] < g[1] \/ (q[1] = g[1] /\ q[2] <= g[2])
    <3>1. q \in S /\ g \in S
      BY <1>5, <2>1
    <3>2. CASE q = g
      BY <1>1, <3>1, <3>2
    <3>3. CASE <<q, g>> \in R
      BY <1>2, <3>1, <3>3
    <3> QED
      BY <2>1, <3>2, <3>3
  <2> QED
    BY <2>1, <2>2
<1> QED
  BY <1>7 DEF LastPair

(* embedClassRelationship keeps a vector one, of the same dimensions.       *)
EmbedStep(o, v, g, s) == IF s = {} THEN v ELSE Embed(o, g[s \ {LastPair(s)}], LastPair(s))

Embeds(o, v, g, S) == g = [s \in SUBSET S |-> EmbedStep(o, v, g, s)]

(* The embedding of a vector is the last value of the loop over its pairs. *)
LEMMA EmbeddingUnfolded ==
  ASSUME NEW o, NEW v
  PROVE  Embedded(o, v) = (CHOOSE g : Embeds(o, v, g, PairsOf(DOMAIN v)))[PairsOf(DOMAIN v)]
BY DEF Embedded, Embeds, EmbedStep, PairsOf

(* What the loop has made of a vector when it has been through some pairs. *)
EmbeddingOf(o, v) == CHOOSE g : Embeds(o, v, g, PairsOf(DOMAIN v))

IsEmbeddedBySteps(o, v) ==
  \A s \in SUBSET PairsOf(DOMAIN v) :
     /\ EmbeddingOf(o, v)[s] \in [DOMAIN v -> Nat]
     /\ EmbeddingOf(o, v)[s] = EmbedStep(o, v, EmbeddingOf(o, v), s)

(* embedClassRelationship deals with one pair after the other, and keeps   *)
(* sizes natural numbers.                                                  *)
LEMMA EmbeddingIsTraced ==
  ASSUME NEW o, NEW v, IsVector(v)
  PROVE  IsEmbeddedBySteps(o, v) /\ Embedded(o, v) = EmbeddingOf(o, v)[PairsOf(DOMAIN v)]
<1> DEFINE D == DOMAIN v
           S == PairsOf(D)
           V == [D -> Nat]
           pick == [s \in SUBSET S |-> LastPair(s)]
           same == [p \in S |-> p]
           next == [q \in S \X V |-> Embed(o, q[2], q[1])]
<1>1. IsFiniteSet(D) /\ D \subseteq Nat /\ v \in V
  BY DEF IsVector
<1>2. IsFiniteSet(S) /\ S \subseteq D \X D
  BY <1>1, PairsAreFinite DEF PairsOf
<1>3. \A s \in SUBSET S : s # {} => LastPair(s) \in s
  BY <1>1, LastPairIsOne
<1>4. Picks(pick, S) /\ \A s \in SUBSET S : pick[s] = LastPair(s)
  BY <1>3 DEF Picks
<1>5. \A p \in S : \A w \in V : same[p] = p /\ next[<<p, w>>] = Embed(o, w, p)
  OBVIOUS
<1>6. \A p \in S : \A w \in V : Embed(o, w, p) \in V
  <2> TAKE p \in S
  <2> TAKE w \in V
  <2> HIDE DEF S
  <2>1. p \in D \X D
    BY <1>2
  <2> QED
    BY <2>1, EmbedKeeps
<1> HIDE DEF S, V, pick, same, next
<1>7. PICK g : PickFolded(next, v, same, pick, g, SUBSET S)
  BY <1>2, <1>4, PickFoldExists
<1>8. \A s \in SUBSET S : g[s] = PickStep(next, v, same, pick, g, s)
  BY <1>7 DEF PickFolded
<1> DEFINE P == {s \in SUBSET S : g[s] \in V}
<1>9. ASSUME NEW s \in SUBSET S, s # {}, s \ {pick[s]} \in P
      PROVE  s \in P /\ g[s] = Embed(o, g[s \ {LastPair(s)}], LastPair(s))
  <2> DEFINE w == g[s \ {pick[s]}]
  <2>1. pick[s] = LastPair(s) /\ pick[s] \in S /\ w \in V
    BY <1>3, <1>4, <1>9
  <2>2. g[s] = next[<<same[pick[s]], w>>]
    BY <1>8, <1>9 DEF PickStep
  <2>3. g[s] = Embed(o, w, pick[s])
    BY <1>5, <2>1, <2>2
  <2>4. g[s] \in V
    BY <1>6, <2>1, <2>3
  <2> QED
    BY <2>1, <2>3, <2>4
<1>10. {} \in P
  BY <1>1, <1>8 DEF PickStep
<1>11. SUBSET S \subseteq P
  <2> HIDE DEF P
  <2>1. Inherits(pick, S, P)
    BY <1>9 DEF Inherits
  <2> QED
    BY <1>2, <1>4, <1>10, <2>1, PickInduction
<1>12. \A s \in SUBSET S : g[s] = EmbedStep(o, v, g, s)
  <2> SUFFICES ASSUME NEW s \in SUBSET S PROVE g[s] = EmbedStep(o, v, g, s)
    OBVIOUS
  <2>1. CASE s = {}
    BY <1>8, <2>1 DEF PickStep, EmbedStep
  <2>2. CASE s # {}
    <3>1. s \ {pick[s]} \in P
      BY <1>11
    <3> QED
      BY <1>9, <2>2, <3>1 DEF EmbedStep
  <2> QED
    BY <2>1, <2>2
<1>13. g = [s \in SUBSET S |-> g[s]]
  BY <1>7 DEF PickFolded
<1>14. g = [s \in SUBSET S |-> EmbedStep(o, v, g, s)]
  BY <1>12, <1>13
<1>15. Embeds(o, v, g, S)
  BY <1>14 DEF Embeds
<1> DEFINE h == EmbeddingOf(o, v)
<1>16. Embeds(o, v, h, S) /\ Embedded(o, v) = h[S]
  BY <1>15, EmbeddingUnfolded DEF S, EmbeddingOf
<1> DEFINE Q == {s \in SUBSET S : h[s] \in V}
<1>17. \A s \in SUBSET S : h[s] = EmbedStep(o, v, h, s)
  <2> HIDE DEF h
  <2> QED
    BY <1>16 DEF Embeds
<1> HIDE DEF h
<1>18. {} \in Q
  BY <1>1, <1>17 DEF EmbedStep
<1>19. ASSUME NEW s \in SUBSET S, s # {}, s \ {pick[s]} \in Q PROVE s \in Q
  <2>1. pick[s] = LastPair(s) /\ pick[s] \in S /\ h[s \ {pick[s]}] \in V
    BY <1>3, <1>4, <1>19
  <2>2. h[s] = Embed(o, h[s \ {pick[s]}], pick[s])
    BY <1>17, <1>19, <2>1 DEF EmbedStep
  <2> QED
    BY <1>6, <2>1, <2>2
<1>20. SUBSET S \subseteq Q
  <2> HIDE DEF Q
  <2>1. Inherits(pick, S, Q)
    BY <1>19 DEF Inherits
  <2> QED
    BY <1>2, <1>4, <1>18, <2>1, PickInduction
<1>21. \A s \in SUBSET S : h[s] \in V
  BY <1>20
<1> QED
  BY <1>16, <1>17, <1>21 DEF IsEmbeddedBySteps, S, V, h

(* embedClassRelationship keeps a vector one, with the labels it had.      *)
LEMMA EmbeddedIsVector ==
  ASSUME NEW o, NEW v, IsVector(v)
  PROVE  IsVector(Embedded(o, v)) /\ DOMAIN Embedded(o, v) = DOMAIN v
<1>1. Embedded(o, v) \in [DOMAIN v -> Nat]
  BY EmbeddingIsTraced DEF IsEmbeddedBySteps
<1> QED
  BY <1>1 DEF IsVector

(* The ratios of what is needed and what there is, by position.            *)
FirstLabel(v) == CHOOSE k \in DOMAIN v : \A n \in DOMAIN v : k <= n

NeededAt(given, needed, l) ==
  IF DOMAIN given = DOMAIN needed THEN needed[l] ELSE needed[FirstLabel(needed)]

Present(given) == {k \in DOMAIN given : given[k] # 0}

Ratios(given, needed) ==
  {0} \cup {CeilDiv(NeededAt(given, needed, l), given[l]) : l \in Present(given)}

(* How many contribute: the greatest of the ratios, a natural number.      *)
LEMMA RatioIsGreatest ==
  ASSUME NEW given, IsVector(given), NEW needed, IsVector(needed), DOMAIN needed # {}
  PROVE  /\ Ratio(given, needed) \in Ratios(given, needed) /\ Ratio(given, needed) \in Nat
         /\ \A k \in Ratios(given, needed) : k \in Nat /\ k <= Ratio(given, needed)
<1> DEFINE least == FirstLabel(needed)
           L == Present(given)
           ratios == {CeilDiv(NeededAt(given, needed, l), given[l]) : l \in L}
           all == {0} \cup ratios
<1>1. least \in DOMAIN needed
  <2>1. \E k \in DOMAIN needed : \A n \in DOMAIN needed : k <= n
    BY LeastExists DEF IsVector
  <2> QED
    BY <2>1 DEF FirstLabel
<1> HIDE DEF least
<1>2. ASSUME NEW l \in L PROVE CeilDiv(NeededAt(given, needed, l), given[l]) \in Nat
  <2>1. l \in DOMAIN given /\ given[l] # 0
    BY DEF Present
  <2>2. given[l] \in Nat /\ given[l] > 0
    BY <2>1 DEF IsVector
  <2>3. NeededAt(given, needed, l) \in Nat
    BY <1>1, <2>1 DEF IsVector, NeededAt, least
  <2> QED
    BY <2>2, <2>3, QuotientIsLeast
<1>3. IsFiniteSet(L)
  BY FS_Subset DEF IsVector, Present
<1> HIDE DEF L
<1>4. IsFiniteSet(ratios)
  <2> DEFINE f == [l \in L |-> CeilDiv(NeededAt(given, needed, l), given[l])]
  <2>1. f \in Surjection(L, ratios)
    BY DEF Surjection
  <2> HIDE DEF f, ratios
  <2> QED
    BY <1>3, <2>1, FS_Surjection
<1>5. ratios \subseteq Nat
  BY <1>2
<1> HIDE DEF ratios
<1>6. IsFiniteSet(all)
  BY <1>4, FS_Singleton, FS_Union
<1>7. all \subseteq Nat /\ all # {} /\ all \subseteq Int
  BY <1>5
<1>8. Ratio(given, needed) = Greatest(all) /\ all = Ratios(given, needed)
  BY DEF Ratio, NeededAt, L, ratios, FirstLabel, Present, Ratios
<1> HIDE DEF all
<1> QED
  BY <1>6, <1>7, <1>8, GreatestIsOne

(* A pool that can be taken out of another.                                *)
IsPart(q, p) == IsPool(q) /\ IsFiniteSet(DOMAIN q) /\ \A m : Count(q, m) <= Count(p, m)

(* A part of a part is a part.                                             *)
LEMMA PartOfPart ==
  ASSUME NEW p, IsPool(p), NEW q, IsPool(q), NEW r, IsPart(r, q), IsPart(q, p)
  PROVE  IsPart(r, p)
<1>1. \A m : Count(p, m) \in Nat /\ Count(q, m) \in Nat /\ Count(r, m) \in Nat
  BY CountIsNatural DEF IsPart
<1> QED
  BY <1>1 DEF IsPart

(* applyUpperBound with bounds that are natural numbers.                   *)
LEMMA CutIsPart ==
  ASSUME NEW p, IsPool(p), IsFiniteSet(DOMAIN p), NEW bound, \A m \in DOMAIN p \cap DOMAIN bound : bound[m] \in Nat
  PROVE  IsPart(Cut(p, bound), p)
<1> DEFINE D == DOMAIN p \cap DOMAIN bound
           cut == Cut(p, bound)
<1>1. cut = [m \in D |-> Smaller(p[m], bound[m])]
  BY DEF Cut
<1>2. \A m \in D : p[m] \in Nat /\ Smaller(p[m], bound[m]) \in Nat /\ Smaller(p[m], bound[m]) <= p[m]
  BY DEF IsPool, Smaller
<1>3. IsFiniteSet(D) /\ D \subseteq Model
  BY FS_Subset DEF IsPool
<1> HIDE DEF cut
<1>4. DOMAIN cut = D /\ cut \in [D -> Nat] /\ \A m \in D : cut[m] <= p[m]
  BY <1>1, <1>2
<1>5. \A m : Count(p, m) \in Nat
  BY CountIsNatural
<1>6. \A m : Count(cut, m) <= Count(p, m)
  BY <1>4, <1>5 DEF Count
<1>7. IsPool(cut) /\ IsFiniteSet(DOMAIN cut)
  BY <1>3, <1>4 DEF IsPool
<1> QED
  BY <1>6, <1>7 DEF IsPart, cut

(* The number of agents of a pool.                                         *)
LEMMA InstancesAreNatural ==
  ASSUME NEW p, IsPool(p), IsFiniteSet(DOMAIN p)
  PROVE  NumberOfInstances(p) \in Nat
<1>1. NumberOfInstances(p) = SumFunctionOnSet(p, DOMAIN p)
  BY DEF NumberOfInstances, FoldFunction, SumFunctionOnSet
<1>2. \A m \in DOMAIN p : p[m] \in Nat
  BY DEF IsPool
<1> QED
  BY <1>1, <1>2, SumIsNat

(* allCombinations takes agents out of a pool.                             *)
LEMMA CombinationsAreParts ==
  ASSUME NEW p, IsPool(p), IsFiniteSet(DOMAIN p), NEW k, NEW q \in AllCombinations(p, k)
  PROVE  IsPart(q, p)
<1> DEFINE size == NumberOfInstances(p)
<1>1. size \in Nat
  BY InstancesAreNatural
<1>2. PICK r \in [DOMAIN p -> 0 .. size] : q = Compact(r) /\ \A m \in DOMAIN r : r[m] <= p[m]
  BY DEF AllCombinations
<1> HIDE DEF size
<1>3. DOMAIN r = DOMAIN p /\ r \in [DOMAIN p -> Nat]
  BY <1>1, <1>2
<1>4. IsPool(r)
  BY <1>3 DEF IsPool
<1>5. IsPool(q) /\ \A m : Count(q, m) = Count(r, m)
  BY <1>2, <1>4, CompactByCounts
<1>6. \A m : Count(r, m) <= Count(p, m)
  BY <1>2, <1>3 DEF Count
<1>7. IsFiniteSet(DOMAIN q)
  <2>1. DOMAIN q \subseteq DOMAIN p
    BY <1>2, <1>3 DEF Compact
  <2> QED
    BY <2>1, FS_Subset
<1> QED
  BY <1>5, <1>6, <1>7 DEF IsPart

(* exploreNeighbourhood takes what it adds out of what is left.            *)
LEMMA NeighboursAreParts ==
  ASSUME NEW o, NEW agents, IsPool(agents), IsFiniteSet(DOMAIN agents),
         NEW bounded, IsPart(bounded, agents), NEW base, IsPart(base, bounded), NEW size,
         NEW q \in Neighbours(o, agents, bounded, base, size)
  PROVE  IsPart(q, agents)
<1> DEFINE spare == [m \in DOMAIN agents |-> agents[m] - Count(bounded, m)]
<1>0. IsPool(bounded) /\ IsPool(base)
  BY DEF IsPart
<1>1. \A m : Count(agents, m) \in Nat /\ Count(bounded, m) \in Nat /\ Count(base, m) \in Nat
  BY <1>0, CountIsNatural
<1>2. \A m : Count(base, m) <= Count(bounded, m) /\ Count(bounded, m) <= Count(agents, m)
  BY DEF IsPart
<1>3. \A m \in DOMAIN agents : spare[m] \in Nat /\ agents[m] = Count(agents, m)
  BY <1>1, <1>2 DEF Count
<1>4. DOMAIN spare = DOMAIN agents /\ spare \in [DOMAIN agents -> Nat]
  BY <1>3
<1>5. \A m : Count(spare, m) + Count(bounded, m) = Count(agents, m)
  <2> TAKE m
  <2>1. CASE m \in DOMAIN agents
    <3>1. Count(spare, m) = Count(agents, m) - Count(bounded, m)
      BY <1>3, <2>1 DEF Count
    <3> HIDE DEF spare
    <3> QED
      BY <1>1, <3>1
  <2>2. CASE m \notin DOMAIN agents
    <3>1. Count(spare, m) = 0 /\ Count(agents, m) = 0
      BY <2>2 DEF Count
    <3> HIDE DEF spare
    <3> QED
      BY <1>1, <1>2, <3>1
  <2> QED
    BY <2>1, <2>2
<1>6. q = base \/ \E p \in AllCombinations(spare, size) : q = Sum(base, p)
  BY DEF Neighbours
<1> HIDE DEF spare
<1>7. IsPool(spare) /\ IsFiniteSet(DOMAIN spare)
  BY <1>4 DEF IsPool
<1>8. CASE q = base
  BY <1>0, <1>8, PartOfPart
<1>9. CASE \E p \in AllCombinations(spare, size) : q = Sum(base, p)
  <2>1. PICK p \in AllCombinations(spare, size) : q = Sum(base, p)
    BY <1>9
  <2>2. IsPart(p, spare)
    BY <1>7, CombinationsAreParts
  <2>3. IsPool(q) /\ \A m : Count(q, m) = Count(base, m) + Count(p, m)
    BY <1>0, <2>1, <2>2, SumByCounts DEF IsPart
  <2>4. \A m : Count(spare, m) \in Nat /\ Count(p, m) \in Nat /\ Count(p, m) <= Count(spare, m)
    BY <1>7, <2>2, CountIsNatural DEF IsPart
  <2>5. \A m : Count(q, m) <= Count(agents, m)
    BY <1>1, <1>2, <1>5, <2>3, <2>4
  <2>6. IsFiniteSet(DOMAIN q)
    <3>1. DOMAIN q = DOMAIN base \cup DOMAIN p
      BY <2>1 DEF Sum, Combined
    <3>2. IsFiniteSet(DOMAIN base \cup DOMAIN p)
      BY <2>2, FS_Union DEF IsPart
    <3> QED
      BY <3>1, <3>2
  <2> QED
    BY <2>3, <2>5, <2>6 DEF IsPart
<1> QED
  BY <1>6, <1>8, <1>9

Plain(f) == [model |-> f, constraints |-> {}]

(* computeFunctionalityMapping maps a functionality to pools that support  *)
(* it, can be connected and taken from the agents.                         *)
IsMappedRightly(o, agents, f, p) ==
  FullSupport(o, {f}, p) /\ IsFeasible(o, p) /\ IsPart(p, agents)

(* Without a bound, the mapping holds only combinations that were checked. *)
LEMMA UnboundedAreMappedRightly ==
  ASSUME NEW o, NEW agents, IsPool(agents), IsFiniteSet(DOMAIN agents), NEW f, NEW p \in UnboundedPools(o, agents, f)
  PROVE  IsMappedRightly(o, agents, f, p)
<1>1. p \in AllCombinations(agents, 0) /\ FullSupport(o, {f}, p) /\ IsFeasible(o, p)
  BY DEF UnboundedPools, IsMapped
<1> QED
  BY <1>1, CombinationsAreParts DEF IsMappedRightly

-----------------------------------------------------------------------------
(* How the support of a pool grows with its agents: the embedding of a     *)
(* support is linear, and so is what is left to be covered.               *)

(* What holds of no pair and goes over from all but the last to all of     *)
(* some pairs holds of all.                                                *)
LEMMA PairInduction ==
  ASSUME NEW D, IsFiniteSet(D), D \subseteq Nat, NEW P, {} \in P,
         \A s \in SUBSET PairsOf(D) : s # {} /\ s \ {LastPair(s)} \in P => s \in P
  PROVE  PairsOf(D) \in P
<1> DEFINE S == PairsOf(D)
           pick == [s \in SUBSET S |-> LastPair(s)]
<1>1. IsFiniteSet(S)
  BY PairsAreFinite
<1>2. \A s \in SUBSET S : s # {} => LastPair(s) \in s
  BY LastPairIsOne
<1>3. \A s \in SUBSET S : s # {} /\ s \ {LastPair(s)} \in P => s \in P
  OBVIOUS
<1> HIDE DEF S
<1>4. Picks(pick, S) /\ Inherits(pick, S, P)
  BY <1>2, <1>3 DEF Picks, Inherits
<1> HIDE DEF pick
<1>5. SUBSET S \subseteq P
  BY <1>1, <1>4, PickInduction
<1> QED
  BY <1>5 DEF S

(* Embedding only adds to the sizes.                                       *)
LEMMA EmbeddingAdds ==
  ASSUME NEW o, NEW v, IsVector(v)
  PROVE  \A l \in DOMAIN v : v[l] <= Embedded(o, v)[l]
<1> DEFINE D == DOMAIN v
           S == PairsOf(D)
           h == EmbeddingOf(o, v)
           P == {s \in SUBSET S : \A l \in D : v[l] <= h[s][l]}
<1>1. IsFiniteSet(D) /\ D \subseteq Nat /\ v \in [D -> Nat]
  BY DEF IsVector
<1>2. \A s \in SUBSET S : h[s] \in [D -> Nat] /\ h[s] = EmbedStep(o, v, h, s)
  BY EmbeddingIsTraced DEF IsEmbeddedBySteps
<1>3. Embedded(o, v) = h[S]
  BY EmbeddingIsTraced
<1>4. \A s \in SUBSET S : s # {} => LastPair(s) \in s
  BY <1>1, LastPairIsOne
<1>5. S \subseteq D \X D
  BY DEF PairsOf
<1> HIDE DEF D, S, h
<1>6. {} \in P
  <2>1. h[{}] = v /\ \A l \in D : v[l] \in Nat
    BY <1>1, <1>2 DEF EmbedStep
  <2>2. \A l \in D : v[l] <= h[{}][l]
    BY <2>1
  <2> QED
    BY <2>2
<1>7. ASSUME NEW s \in SUBSET S, s # {}, s \ {LastPair(s)} \in P
      PROVE  s \in P
  <2> DEFINE p == LastPair(s)
             w == h[s \ {p}]
  <2>1. p \in D \X D
    BY <1>4, <1>5, <1>7
  <2>2. h[s] = Embed(o, w, p) /\ w \in [D -> Nat] /\ h[s] \in [D -> Nat]
    BY <1>2, <1>7 DEF EmbedStep
  <2>3. \A l \in D : v[l] \in Nat /\ v[l] <= w[l] /\ w[l] \in Nat
    BY <1>1, <1>7, <2>2
  <2>4. p[1] \in D /\ p[2] \in D
    BY <2>1
  <2> HIDE DEF p, w
  <2>5. \A l \in D : w[l] <= h[s][l]
    <3>1. CASE Below(o, p[1], p[2])
      <4>1. h[s] = [w EXCEPT ![p[2]] = w[p[2]] + w[p[1]]]
        BY <2>2, <3>1 DEF Embed
      <4> QED
        BY <2>2, <2>3, <2>4, <4>1
    <3>2. CASE ~Below(o, p[1], p[2]) /\ Below(o, p[2], p[1])
      <4>1. h[s] = [w EXCEPT ![p[1]] = w[p[1]] + w[p[2]]]
        BY <2>2, <3>2 DEF Embed
      <4> QED
        BY <2>2, <2>3, <2>4, <4>1
    <3>3. CASE ~Below(o, p[1], p[2]) /\ ~Below(o, p[2], p[1])
      <4>1. h[s] = w
        BY <2>2, <3>3 DEF Embed
      <4> QED
        BY <2>3, <4>1
    <3> QED
      BY <3>1, <3>2, <3>3
  <2>6. \A l \in D : v[l] <= h[s][l]
    BY <2>2, <2>3, <2>5
  <2> QED
    BY <2>6
<1>8. S \in P
  <2> HIDE DEF P
  <2> QED
    BY <1>1, <1>6, <1>7, PairInduction DEF S
<1> QED
  BY <1>3, <1>8 DEF D

(* The sizes of a class in some vectors, each as often as given.           *)
Mixed(M, k, w, l) == [m \in M |-> k[m] * w[m][l]]

IsMixture(M, k, w, v, D) == \A l \in D : v[l] = SumFunctionOnSet(Mixed(M, k, w, l), M)

EmbeddedAll(o, M, w, p) == [m \in M |-> Embed(o, w[m], p)]

(* Embedding one pair into a mixture of vectors is the mixture of what it  *)
(* makes of each.                                                          *)
LEMMA EmbedIsLinear ==
  ASSUME NEW o, NEW D, NEW M, IsFiniteSet(M), NEW k \in [M -> Nat], NEW w \in [M -> [D -> Nat]],
         NEW v \in [D -> Nat], IsMixture(M, k, w, v, D), NEW p \in D \X D
  PROVE  IsMixture(M, k, EmbeddedAll(o, M, w, p), Embed(o, v, p), D)
<1> DEFINE u == EmbeddedAll(o, M, w, p)
<1>1. p[1] \in D /\ p[2] \in D
  OBVIOUS
<1>2. \A l \in D : v[l] = SumFunctionOnSet(Mixed(M, k, w, l), M) /\ v[l] \in Nat
  BY DEF IsMixture
<1>3. \A m \in M : \A l \in D : k[m] \in Nat /\ w[m][l] \in Nat /\ w[m] \in [D -> Nat]
  OBVIOUS
<1>4. \A m \in M : \A l \in D : Mixed(M, k, w, l)[m] \in Int
  <2> SUFFICES ASSUME NEW m \in M, NEW l \in D PROVE k[m] * w[m][l] \in Int
    BY DEF Mixed
  <2>1. k[m] \in Int /\ w[m][l] \in Int
    BY <1>3
  <2> QED
    BY <2>1
<1>5. ASSUME NEW b \in D, NEW c \in D,
             Embed(o, v, p) = [v EXCEPT ![c] = v[c] + v[b]],
             \A m \in M : u[m] = [w[m] EXCEPT ![c] = w[m][c] + w[m][b]]
      PROVE  IsMixture(M, k, u, Embed(o, v, p), D)
  <2> SUFFICES ASSUME NEW l \in D
               PROVE  Embed(o, v, p)[l] = SumFunctionOnSet(Mixed(M, k, u, l), M)
    BY DEF IsMixture
  <2>1. CASE l = c
    <3>1. ASSUME NEW m \in M
          PROVE  Mixed(M, k, u, l)[m] = Mixed(M, k, w, c)[m] + Mixed(M, k, w, b)[m]
      <4>1. u[m][l] = w[m][c] + w[m][b]
        <5>1. u[m] = [w[m] EXCEPT ![c] = w[m][c] + w[m][b]] /\ DOMAIN w[m] = D
          BY <1>3, <1>5
        <5> HIDE DEF u
        <5> QED
          BY <2>1, <5>1
      <4>2. k[m] * (w[m][c] + w[m][b]) = k[m] * w[m][c] + k[m] * w[m][b]
        BY <1>3
      <4> QED
        BY <4>1, <4>2 DEF Mixed
    <3>2. SumFunctionOnSet(Mixed(M, k, u, l), M)
            = SumFunctionOnSet(Mixed(M, k, w, c), M) + SumFunctionOnSet(Mixed(M, k, w, b), M)
      BY <1>4, <3>1, SumOfSums
    <3>3. Embed(o, v, p)[l] = v[c] + v[b]
      BY <1>5, <2>1
    <3> QED
      BY <1>2, <3>2, <3>3
  <2>2. CASE l # c
    <3>1. ASSUME NEW m \in M PROVE u[m][l] = w[m][l]
      <4>1. u[m] = [w[m] EXCEPT ![c] = w[m][c] + w[m][b]] /\ DOMAIN w[m] = D
        BY <1>3, <1>5
      <4> HIDE DEF u
      <4> QED
        BY <2>2, <4>1
    <3>2. Mixed(M, k, u, l) = Mixed(M, k, w, l)
      BY <3>1 DEF Mixed
    <3>3. Embed(o, v, p)[l] = v[l]
      BY <1>5, <2>2
    <3> QED
      BY <1>2, <3>2, <3>3
  <2> QED
    BY <2>1, <2>2
<1>6. \A m \in M : u[m] = Embed(o, w[m], p)
  BY DEF EmbeddedAll
<1> HIDE DEF u
<1>7. CASE Below(o, p[1], p[2])
  <2>1. Embed(o, v, p) = [v EXCEPT ![p[2]] = v[p[2]] + v[p[1]]]
    BY <1>7 DEF Embed
  <2>2. \A m \in M : u[m] = [w[m] EXCEPT ![p[2]] = w[m][p[2]] + w[m][p[1]]]
    BY <1>6, <1>7 DEF Embed
  <2> QED
    BY <1>1, <1>5, <2>1, <2>2 DEF u
<1>8. CASE ~Below(o, p[1], p[2]) /\ Below(o, p[2], p[1])
  <2>1. Embed(o, v, p) = [v EXCEPT ![p[1]] = v[p[1]] + v[p[2]]]
    BY <1>8 DEF Embed
  <2>2. \A m \in M : u[m] = [w[m] EXCEPT ![p[1]] = w[m][p[1]] + w[m][p[2]]]
    BY <1>6, <1>8 DEF Embed
  <2> QED
    BY <1>1, <1>5, <2>1, <2>2 DEF u
<1>9. CASE ~Below(o, p[1], p[2]) /\ ~Below(o, p[2], p[1])
  <2>1. Embed(o, v, p) = v
    BY <1>9 DEF Embed
  <2>2. \A m \in M : u[m] = w[m]
    BY <1>6, <1>9 DEF Embed
  <2>3. \A l \in D : Mixed(M, k, u, l) = Mixed(M, k, w, l)
    BY <2>2 DEF Mixed
  <2> QED
    BY <1>2, <2>1, <2>3 DEF u, IsMixture
<1> QED
  BY <1>7, <1>8, <1>9

(* Vectors with the same labels.                                           *)
AreVectors(M, w, D) == \A m \in M : IsVector(w[m]) /\ DOMAIN w[m] = D

EmbeddedEach(o, M, w) == [m \in M |-> Embedded(o, w[m])]

(* So is embedding all of its classes.                                     *)
LEMMA EmbeddingIsLinear ==
  ASSUME NEW o, NEW v, IsVector(v), NEW M, IsFiniteSet(M), NEW k \in [M -> Nat],
         NEW w, AreVectors(M, w, DOMAIN v), IsMixture(M, k, w, v, DOMAIN v)
  PROVE  IsMixture(M, k, EmbeddedEach(o, M, w), Embedded(o, v), DOMAIN v)
<1> DEFINE D == DOMAIN v
           S == PairsOf(D)
           h == EmbeddingOf(o, v)
           After(s) == [m \in M |-> EmbeddingOf(o, w[m])[s]]
           P == {s \in SUBSET S : IsMixture(M, k, After(s), h[s], D)}
<1>1. IsFiniteSet(D) /\ D \subseteq Nat
  BY DEF IsVector
<1>2. \A s \in SUBSET S : h[s] \in [D -> Nat] /\ h[s] = EmbedStep(o, v, h, s)
  BY EmbeddingIsTraced DEF IsEmbeddedBySteps
<1>3. Embedded(o, v) = h[S]
  BY EmbeddingIsTraced
<1>4. \A s \in SUBSET S : s # {} => LastPair(s) \in s
  BY <1>1, LastPairIsOne
<1>5. S \subseteq D \X D
  BY DEF PairsOf
<1>6. ASSUME NEW m \in M
      PROVE  /\ Embedded(o, w[m]) = EmbeddingOf(o, w[m])[S]
             /\ \A s \in SUBSET S : /\ EmbeddingOf(o, w[m])[s] \in [D -> Nat]
                                    /\ EmbeddingOf(o, w[m])[s] = EmbedStep(o, w[m], EmbeddingOf(o, w[m]), s)
  <2>1. IsVector(w[m]) /\ DOMAIN w[m] = D
    BY DEF AreVectors
  <2>2. IsEmbeddedBySteps(o, w[m]) /\ Embedded(o, w[m]) = EmbeddingOf(o, w[m])[PairsOf(DOMAIN w[m])]
    BY <2>1, EmbeddingIsTraced
  <2> QED
    BY <2>1, <2>2 DEF IsEmbeddedBySteps
<1>7. IsMixture(M, k, w, v, D)
  OBVIOUS
<1> HIDE DEF D, S, h
<1>8. {} \in P
  <2>1. h[{}] = v /\ \A m \in M : After({})[m] = w[m]
    BY <1>2, <1>6 DEF EmbedStep
  <2> HIDE DEF After
  <2>2. \A l : Mixed(M, k, After({}), l) = Mixed(M, k, w, l)
    BY <2>1 DEF Mixed
  <2>3. IsMixture(M, k, After({}), h[{}], D)
    BY <1>7, <2>1, <2>2 DEF IsMixture
  <2> QED
    BY <2>3
<1>9. ASSUME NEW s \in SUBSET S, s # {}, s \ {LastPair(s)} \in P
      PROVE  s \in P
  <2> DEFINE p == LastPair(s)
             r == s \ {p}
             before == After(r)
  <2>1. p \in D \X D /\ r \in SUBSET S
    BY <1>4, <1>5, <1>9
  <2>2. h[s] = Embed(o, h[r], p) /\ h[r] \in [D -> Nat]
    BY <1>2, <1>9, <2>1 DEF EmbedStep
  <2>3. before \in [M -> [D -> Nat]]
    BY <1>6, <2>1
  <2>4. \A m \in M : EmbeddingOf(o, w[m])[s] = Embed(o, EmbeddingOf(o, w[m])[r], p)
    BY <1>6, <1>9 DEF EmbedStep
  <2>5. After(s) = EmbeddedAll(o, M, before, p)
    BY <2>4 DEF EmbeddedAll
  <2>6. IsMixture(M, k, before, h[r], D)
    BY <1>9
  <2> HIDE DEF p, r, before, After
  <2>7. IsMixture(M, k, EmbeddedAll(o, M, before, p), Embed(o, h[r], p), D)
    BY <2>1, <2>2, <2>3, <2>6, EmbedIsLinear
  <2>8. IsMixture(M, k, After(s), h[s], D)
    BY <2>2, <2>5, <2>7
  <2> QED
    BY <2>8
<1>10. S \in P
  <2> HIDE DEF P
  <2> QED
    BY <1>1, <1>8, <1>9, PairInduction DEF S
<1>11. EmbeddedEach(o, M, w) = After(S)
  BY <1>6 DEF EmbeddedEach
<1>12. IsMixture(M, k, After(S), h[S], D)
  BY <1>10
<1> HIDE DEF After
<1> QED
  BY <1>3, <1>11, <1>12 DEF D

(* Terms that are 0 do not count.                                          *)
LEMMA SumWithoutZeros ==
  ASSUME NEW f, NEW S, IsFiniteSet(S), NEW T \in SUBSET S, \A x \in S : f[x] \in Int,
         \A x \in S \ T : f[x] = 0
  PROVE  SumFunctionOnSet(f, S) = SumFunctionOnSet(f, T)
<1> DEFINE U == S \ T
<1>1. IsFiniteSet(T) /\ IsFiniteSet(U) /\ T \cap U = {} /\ T \cup U = S
  BY FS_Subset
<1>2. \A x \in U : f[x] = 0
  OBVIOUS
<1> HIDE DEF U
<1>3. SumFunctionOnSet(f, U) = 0 * Cardinality(U)
  BY <1>1, <1>2, SumOfConstant
<1>4. Cardinality(U) \in Nat
  BY <1>1, FS_CardinalityType
<1>5. \A x \in T \cup U : f[x] \in Int
  BY <1>1
<1>6. SumFunctionOnSet(f, T \cup U) = SumFunctionOnSet(f, T) + SumFunctionOnSet(f, U)
  BY <1>1, <1>5, SumOfDisjointUnion
<1>7. SumFunctionOnSet(f, T) \in Int
  BY <1>1, <1>5, SumIsInt
<1>8. SumFunctionOnSet(f, U) = 0
  BY <1>3, <1>4
<1>9. SumFunctionOnSet(f, S) = SumFunctionOnSet(f, T) + SumFunctionOnSet(f, U)
  BY <1>1, <1>6
<1> QED
  BY <1>7, <1>8, <1>9

(* What a functionality needs of each class, what a model brings along of  *)
(* these, and both with class relations embedded.                          *)
Needed(o, f) == SupportVector(o, {f}, {}, "min")

Given(o, f, m) == SupportVector(o, {m}, DOMAIN Needed(o, f), "max")

Threshold(o, f) == Embedded(o, Needed(o, f))

Gain(o, f, m) ==
  IF DOMAIN Given(o, f, m) = DOMAIN Needed(o, f) THEN Embedded(o, Given(o, f, m))
  ELSE [l \in DOMAIN Needed(o, f) |-> 0]

(* A model whose vector cannot be added.                                   *)
Misfit(o, f, m) == DOMAIN Given(o, f, m) # DOMAIN Needed(o, f) /\ ~NullVector(Given(o, f, m))

(* What the models in M of a pool bring along of a class.                  *)
Gains(o, f, p, M, l) == [m \in M |-> Count(p, m) * Gain(o, f, m)[l]]

Supply(o, f, p, M, l) == SumFunctionOnSet(Gains(o, f, p, M, l), M)

Supplies(o, f, p, M) ==
  /\ \A m \in M : Count(p, m) > 0 => ~Misfit(o, f, m)
  /\ \A l \in DOMAIN Needed(o, f) : Threshold(o, f)[l] <= Supply(o, f, p, M, l)

(* All of these are vectors, with the labels of what is needed.            *)
NeedIsVector(o, f) ==
  /\ IsVector(Needed(o, f)) /\ DOMAIN Needed(o, f) # {}
  /\ IsVector(Threshold(o, f)) /\ DOMAIN Threshold(o, f) = DOMAIN Needed(o, f)

GainIsVector(o, f, m) ==
  /\ IsVector(Given(o, f, m))
  /\ Gain(o, f, m) \in [DOMAIN Needed(o, f) -> Nat]

(* Embedding nothing gives nothing.                                        *)
LEMMA EmbeddedNothing ==
  ASSUME NEW o, NEW v, IsVector(v), NullVector(v)
  PROVE  \A l \in DOMAIN v : Embedded(o, v)[l] = 0
<1> DEFINE k == [m \in {} |-> 0]
           w == [m \in {} |-> v]
<1>1. IsFiniteSet({}) /\ k \in [{} -> Nat] /\ AreVectors({}, w, DOMAIN v)
  BY FS_EmptySet DEF AreVectors
<1>2. IsMixture({}, k, w, v, DOMAIN v)
  BY SumOfNothing DEF IsMixture, NullVector
<1> HIDE DEF k, w
<1>3. IsMixture({}, k, EmbeddedEach(o, {}, w), Embedded(o, v), DOMAIN v)
  BY <1>1, <1>2, EmbeddingIsLinear
<1> QED
  BY <1>3, SumOfNothing DEF IsMixture

-----------------------------------------------------------------------------
(* A functionality that the bound agents of a model do not support is      *)
(* supported as well without some of them.                                 *)

(* What the models of a pool offer, and those who offer something.         *)
OfferedFor(o, f, p) == Offered(o, p, DOMAIN Needed(o, f))

Adding(o, f, p) == {m \in DOMAIN p : ~NullVector(OfferedFor(o, f, p)[m])}

SumOffered(o, f, p) ==
  [l \in DOMAIN Needed(o, f) |->
     SumOver([m \in Adding(o, f, p) |-> OfferedFor(o, f, p)[m][l]], Adding(o, f, p))]

Fitting(o, f, p) == \A m \in Adding(o, f, p) : DOMAIN OfferedFor(o, f, p)[m] = DOMAIN Needed(o, f)

(* getSupportType adds up what is offered, if that can be added.           *)
LEMMA FullIfAddedUp ==
  ASSUME NEW o, NEW f, NEW p
  PROVE  FullSupport(o, {f}, p) <=>
           Fitting(o, f, p) /\ \A l \in DOMAIN Threshold(o, f) :
                                 Embedded(o, SumOffered(o, f, p))[l] >= Threshold(o, f)[l]
<1> DEFINE needed == Needed(o, f)
           given == OfferedFor(o, f, p)
           embedded == Embedded(o, SumOffered(o, f, p))
<1>1. SupportType(o, {f}, p) = TypeOfSupport(o, needed, given)
  BY DEF SupportType, Needed, OfferedFor
<1>0. DOMAIN given = DOMAIN p
  BY DEF OfferedFor, Offered
<1>2. TypeOfSupport(o, needed, given) =
        IF Fitting(o, f, p) THEN SupportFrom(o, needed, SumOffered(o, f, p)) ELSE "thrown"
  <2>1. {m \in DOMAIN given : ~NullVector(given[m])} = Adding(o, f, p)
    BY <1>0 DEF Adding
  <2>2. TypeOfSupport(o, needed, given) =
          IF \A m \in Adding(o, f, p) : DOMAIN given[m] = DOMAIN needed
          THEN SupportFrom(o, needed, [l \in DOMAIN needed |->
                                         SumOver([m \in Adding(o, f, p) |-> given[m][l]], Adding(o, f, p))])
          ELSE "thrown"
    BY <2>1 DEF TypeOfSupport
  <2> QED
    BY <2>2 DEF Fitting, SumOffered
<1>3. SupportFrom(o, needed, SumOffered(o, f, p)) = Degree(Threshold(o, f), embedded)
  BY DEF SupportFrom, Threshold
<1>4. Degree(Threshold(o, f), embedded) = "full" <=> FullSupportFrom(Threshold(o, f), embedded)
  BY DEF Degree
<1>5. FullSupportFrom(Threshold(o, f), embedded) <=>
        \A l \in DOMAIN Threshold(o, f) : embedded[l] >= Threshold(o, f)[l]
  BY DEF FullSupportFrom, Contains
<1> HIDE DEF needed, given, embedded
<1>6. FullSupport(o, {f}, p) <=> TypeOfSupport(o, needed, given) = "full"
  BY <1>1 DEF FullSupport
<1> QED
  BY <1>2, <1>3, <1>4, <1>5, <1>6 DEF embedded

(* The greatest ratio is reached by as many as are needed for one of the   *)
(* classes: one less is too little for it.                                 *)
LEMMA RatioIsReached ==
  ASSUME NEW given, IsVector(given), NEW needed, IsVector(needed), DOMAIN needed # {},
         DOMAIN given = DOMAIN needed, NEW n \in Nat, n > 0
  PROVE  n <= Ratio(given, needed) <=>
           \E l \in DOMAIN given : given[l] > 0 /\ (n - 1) * given[l] < needed[l]
<1> DEFINE ratio == Ratio(given, needed)
<1>1. /\ ratio \in Ratios(given, needed) /\ ratio \in Nat
      /\ \A k \in Ratios(given, needed) : k \in Nat /\ k <= ratio
  BY RatioIsGreatest
<1>2. \A l \in DOMAIN given : given[l] \in Nat /\ needed[l] \in Nat
  BY DEF IsVector
<1>3. Ratios(given, needed) = {0} \cup {CeilDiv(needed[l], given[l]) : l \in Present(given)}
  BY DEF Ratios, NeededAt
<1>4. \A l : l \in Present(given) <=> l \in DOMAIN given /\ given[l] > 0
  BY <1>2 DEF Present
<1> HIDE DEF ratio
<1>5. ASSUME NEW l \in Present(given)
      PROVE  n <= CeilDiv(needed[l], given[l]) <=> (n - 1) * given[l] < needed[l]
  <2>1. given[l] \in Nat /\ given[l] > 0 /\ needed[l] \in Nat /\ n - 1 \in Nat
    BY <1>2, <1>4
  <2>2. /\ CeilDiv(needed[l], given[l]) \in Nat
        /\ \A k \in Nat : k * given[l] >= needed[l] <=> k >= CeilDiv(needed[l], given[l])
    BY <2>1, QuotientIsLeast
  <2>3. (n - 1) * given[l] >= needed[l] <=> n - 1 >= CeilDiv(needed[l], given[l])
    BY <2>1, <2>2
  <2>4. (n - 1) * given[l] \in Nat
    BY <2>1
  <2> QED
    BY <2>1, <2>2, <2>3, <2>4
<1>6. ASSUME n <= ratio
      PROVE  \E l \in DOMAIN given : given[l] > 0 /\ (n - 1) * given[l] < needed[l]
  <2>1. ratio # 0
    BY <1>1, <1>6
  <2>2. PICK l \in Present(given) : ratio = CeilDiv(needed[l], given[l])
    BY <1>1, <1>3, <2>1
  <2> QED
    BY <1>4, <1>5, <1>6, <2>2
<1>7. ASSUME NEW l \in DOMAIN given, given[l] > 0, (n - 1) * given[l] < needed[l]
      PROVE  n <= ratio
  <2>1. l \in Present(given)
    BY <1>4, <1>7
  <2>2. n <= CeilDiv(needed[l], given[l])
    BY <1>5, <1>7, <2>1
  <2>3. CeilDiv(needed[l], given[l]) \in Nat /\ CeilDiv(needed[l], given[l]) <= ratio
    BY <1>1, <1>3, <2>1
  <2> QED
    BY <1>1, <2>2, <2>3
<1> QED
  BY <1>6, <1>7 DEF ratio

-----------------------------------------------------------------------------
(* The saturation bound loses no pool: every minimal one is enumerated.    *)

(* The counts of some models, which a pool need not have entries for.      *)
Counts(p, M) == [m \in M |-> Count(p, m)]

(* The number of agents of a pool, with models it has no entry for.        *)
LEMMA InstancesByCounts ==
  ASSUME NEW p, IsPool(p), NEW M, IsFiniteSet(M), DOMAIN p \subseteq M
  PROVE  NumberOfInstances(p) = SumFunctionOnSet(Counts(p, M), M)
<1> DEFINE counts == Counts(p, M)
<1>1. \A m \in M : counts[m] = Count(p, m) /\ counts[m] \in Int
  BY CountIsNatural DEF Counts
<1>2. \A m \in DOMAIN p : counts[m] = p[m] /\ p[m] \in Int
  BY <1>1 DEF Count, IsPool
<1>3. \A m \in M \ DOMAIN p : counts[m] = 0
  BY <1>1 DEF Count
<1>4. IsFiniteSet(DOMAIN p)
  BY FS_Subset
<1> HIDE DEF counts
<1>5. SumFunctionOnSet(counts, M) = SumFunctionOnSet(counts, DOMAIN p)
  BY <1>1, <1>3, SumWithoutZeros
<1>6. SumFunctionOnSet(counts, DOMAIN p) = SumFunctionOnSet(p, DOMAIN p)
  BY <1>1, <1>2, <1>4, SumIsDetermined
<1>7. NumberOfInstances(p) = SumFunctionOnSet(p, DOMAIN p)
  BY DEF NumberOfInstances, FoldFunction, SumFunctionOnSet
<1> QED
  BY <1>5, <1>6, <1>7 DEF counts

(* A part of a pool has no more agents, and less unless it has all of them.*)
LEMMA PartsHaveLess ==
  ASSUME NEW p, IsPool(p), IsFiniteSet(DOMAIN p), NEW q, IsPart(q, p)
  PROVE  /\ NumberOfInstances(q) \in Nat /\ NumberOfInstances(p) \in Nat
         /\ NumberOfInstances(q) <= NumberOfInstances(p)
         /\ NumberOfInstances(q) = NumberOfInstances(p) => \A m : Count(q, m) = Count(p, m)
<1> DEFINE M == DOMAIN p \cup DOMAIN q
           more == Counts(p, M)
           less == Counts(q, M)
<1>1. IsPool(q) /\ IsFiniteSet(DOMAIN q) /\ IsFiniteSet(M) /\ DOMAIN p \subseteq M /\ DOMAIN q \subseteq M
  BY FS_Union DEF IsPart
<1>2. \A m : Count(p, m) \in Nat /\ Count(q, m) \in Nat /\ Count(q, m) <= Count(p, m)
  BY <1>1, CountIsNatural DEF IsPart
<1>3. \A m \in M : more[m] = Count(p, m) /\ less[m] = Count(q, m)
  BY DEF Counts
<1>4. \A m : m \notin M => Count(p, m) = 0 /\ Count(q, m) = 0
  BY DEF Count
<1>5. NumberOfInstances(p) \in Nat /\ NumberOfInstances(q) \in Nat
  BY <1>1, InstancesAreNatural
<1>6. NumberOfInstances(p) = SumFunctionOnSet(more, M) /\ NumberOfInstances(q) = SumFunctionOnSet(less, M)
  BY <1>1, InstancesByCounts
<1> HIDE DEF M, more, less
<1>7. \A m \in M : more[m] \in Nat /\ less[m] \in Nat /\ less[m] <= more[m]
  BY <1>2, <1>3
<1>8. SumFunctionOnSet(less, M) <= SumFunctionOnSet(more, M)
  BY <1>1, <1>7, SumIsMonotonic
<1>9. ASSUME SumFunctionOnSet(less, M) = SumFunctionOnSet(more, M), NEW m \in M
      PROVE  less[m] = more[m]
  <2> DEFINE R == M \ {m}
  <2>1. IsFiniteSet(R) /\ R \subseteq M
    BY <1>1, FS_RemoveElement
  <2>2. /\ SumFunctionOnSet(more, M) = more[m] + SumFunctionOnSet(more, R)
        /\ SumFunctionOnSet(less, M) = less[m] + SumFunctionOnSet(less, R)
    BY <1>1, <1>7, SumWithout
  <2> HIDE DEF R
  <2>3. SumFunctionOnSet(less, R) <= SumFunctionOnSet(more, R)
    BY <1>7, <2>1, SumIsMonotonic
  <2>4. SumFunctionOnSet(less, R) \in Nat /\ SumFunctionOnSet(more, R) \in Nat
    BY <1>7, <2>1, SumIsNat
  <2>5. less[m] \in Nat /\ more[m] \in Nat /\ less[m] <= more[m]
    BY <1>7
  <2> QED
    BY <1>9, <2>2, <2>3, <2>4, <2>5
<1>10. NumberOfInstances(q) = NumberOfInstances(p) => \A m : Count(q, m) = Count(p, m)
  BY <1>3, <1>4, <1>6, <1>9
<1> QED
  BY <1>5, <1>6, <1>8, <1>10

(* allCombinations leaves no part out; what it takes has agents and no     *)
(* entries without.                                                        *)
LEMMA CombinationsAreAllParts ==
  ASSUME NEW p, IsPool(p), IsFiniteSet(DOMAIN p), NEW q
  PROVE  q \in AllCombinations(p, 0) <=> IsPart(q, p) /\ q = Compact(q) /\ q # EmptyPool
<1> DEFINE size == NumberOfInstances(p)
           sub == {r \in [DOMAIN p -> 0 .. size] : \A m \in DOMAIN p : r[m] <= p[m]}
<1>1. size \in Nat
  BY InstancesAreNatural
<1>2. q \in AllCombinations(p, 0) <=> \E r \in sub : NumberOfInstances(r) \in 1 .. size /\ q = Compact(r)
  BY DEF AllCombinations
<1> HIDE DEF size
<1>3. ASSUME NEW r \in sub
      PROVE  /\ IsPool(r) /\ IsFiniteSet(DOMAIN r) /\ IsPart(r, p) /\ NumberOfInstances(r) \in Nat
             /\ Compact(r) = EmptyPool => NumberOfInstances(r) = 0
  <2>1. DOMAIN r = DOMAIN p /\ r \in [DOMAIN p -> Nat] /\ \A m \in DOMAIN p : r[m] <= p[m]
    BY <1>1
  <2>2. IsPool(r) /\ IsFiniteSet(DOMAIN r)
    BY <2>1 DEF IsPool
  <2>3. IsPart(r, p)
    BY <2>1, <2>2 DEF IsPart, Count
  <2>4. ASSUME Compact(r) = EmptyPool PROVE NumberOfInstances(r) = 0
    <3>1. DOMAIN Compact(r) = {}
      BY <2>4 DEF EmptyPool
    <3>2. \A m \in DOMAIN r : r[m] = 0
      BY <3>1 DEF Compact
    <3>3. SumFunctionOnSet(r, DOMAIN r) = 0 * Cardinality(DOMAIN r)
      BY <2>2, <3>2, SumOfConstant
    <3>4. Cardinality(DOMAIN r) \in Nat
      BY <2>2, FS_CardinalityType
    <3>5. NumberOfInstances(r) = SumFunctionOnSet(r, DOMAIN r)
      BY DEF NumberOfInstances, FoldFunction, SumFunctionOnSet
    <3> QED
      BY <3>3, <3>4, <3>5
  <2> QED
    BY <2>2, <2>3, <2>4, InstancesAreNatural
<1>4. ASSUME NEW r \in sub, NumberOfInstances(r) \in 1 .. size, q = Compact(r)
      PROVE  IsPart(q, p) /\ q = Compact(q) /\ q # EmptyPool
  <2>1. q \in AllCombinations(p, 0)
    BY <1>2, <1>4
  <2>2. IsPart(q, p)
    BY <2>1, CombinationsAreParts
  <2>3. IsPool(r) /\ IsPool(q) /\ \A m : Count(q, m) = Count(r, m)
    BY <1>3, <1>4, CompactByCounts
  <2>4. Compact(q) = Compact(r)
    BY <2>3, SameCounts
  <2>5. q # EmptyPool
    BY <1>1, <1>3, <1>4
  <2> QED
    BY <1>4, <2>2, <2>4, <2>5
<1>5. ASSUME IsPart(q, p), q = Compact(q), q # EmptyPool
      PROVE  q \in AllCombinations(p, 0)
  <2> DEFINE r == Counts(q, DOMAIN p)
  <2>1. IsPool(q) /\ IsFiniteSet(DOMAIN q) /\ \A m : Count(q, m) <= Count(p, m)
    BY <1>5 DEF IsPart
  <2>2. \A m : Count(q, m) \in Nat /\ Count(p, m) \in Nat
    BY <2>1, CountIsNatural
  <2>3. DOMAIN r = DOMAIN p /\ \A m \in DOMAIN p : r[m] = Count(q, m) /\ p[m] = Count(p, m)
    BY DEF Counts, Count
  <2> HIDE DEF r
  <2>4. r = [m \in DOMAIN p |-> r[m]]
    BY DEF r, Counts
  <2>5. IsPool(r)
    <3>1. r \in [DOMAIN p -> Nat]
      BY <2>2, <2>3, <2>4
    <3> QED
      BY <2>3, <3>1 DEF IsPool
  <2>6. \A m : Count(r, m) = Count(q, m)
    <3> TAKE m
    <3>1. CASE m \in DOMAIN p
      BY <2>3, <3>1 DEF Count
    <3>2. CASE m \notin DOMAIN p
      <4>1. Count(p, m) = 0 /\ Count(r, m) = 0
        BY <2>3, <3>2 DEF Count
      <4> QED
        BY <2>1, <2>2, <4>1
    <3> QED
      BY <3>1, <3>2
  <2>7. IsPart(r, p)
    BY <2>1, <2>3, <2>5, <2>6 DEF IsPart
  <2>8. NumberOfInstances(r) \in Nat /\ NumberOfInstances(r) <= size
    BY <2>7, PartsHaveLess DEF size
  <2>9. \A m \in DOMAIN p : r[m] <= NumberOfInstances(r)
    <3> TAKE m \in DOMAIN p
    <3>1. \A n \in DOMAIN r : r[n] \in Nat
      BY <2>2, <2>3
    <3>2. {m} \in SUBSET DOMAIN r /\ IsFiniteSet(DOMAIN r)
      BY <2>3
    <3>3. SumFunctionOnSet(r, {m}) <= SumFunctionOnSet(r, DOMAIN r)
      BY <3>1, <3>2, SumOfPart
    <3>4. SumFunctionOnSet(r, {m}) = r[m]
      <4>1. r[m] \in Int
        BY <2>3, <3>1
      <4> QED
        BY <4>1, SumOfOne
    <3>5. NumberOfInstances(r) = SumFunctionOnSet(r, DOMAIN r)
      BY DEF NumberOfInstances, FoldFunction, SumFunctionOnSet
    <3> QED
      BY <3>3, <3>4, <3>5
  <2>10. r \in sub
    <3>1. \A m \in DOMAIN p : r[m] \in 0 .. size /\ r[m] <= p[m]
      BY <1>1, <2>1, <2>2, <2>3, <2>8, <2>9
    <3>2. r \in [DOMAIN p -> 0 .. size]
      BY <2>3, <2>4, <3>1
    <3> QED
      BY <3>1, <3>2
  <2>11. Compact(r) = q
    BY <1>5, <2>1, <2>5, <2>6, SameCounts
  <2>12. NumberOfInstances(r) # 0
    <3>1. ASSUME NumberOfInstances(r) = 0 PROVE FALSE
      <4>1. \A m : Count(r, m) = 0
        <5> TAKE m
        <5>1. CASE m \in DOMAIN p
          BY <2>2, <2>3, <2>9, <3>1, <5>1 DEF Count
        <5>2. CASE m \notin DOMAIN p
          BY <2>3, <5>2 DEF Count
        <5> QED
          BY <5>1, <5>2
      <4>2. \A m \in DOMAIN q : q[m] = 0
        BY <2>6, <4>1 DEF Count
      <4>3. DOMAIN Compact(q) = {}
        BY <4>2 DEF Compact
      <4>4. Compact(q) = EmptyPool
        BY <4>2 DEF Compact, EmptyPool
      <4> QED
        BY <1>5, <4>4
    <3> QED
      BY <3>1
  <2> QED
    BY <1>1, <1>2, <2>8, <2>10, <2>11, <2>12
<1> QED
  BY <1>2, <1>4, <1>5

(* A pool none of whose parts has full support unless it is all of it.     *)
IsLeast(o, f, q) ==
  \A r : IsPart(r, q) /\ FullSupport(o, {f}, r) => \A m : Count(r, m) = Count(q, m)

(* The pool of some agents of one model.                                   *)
LEMMA PoolOfOne ==
  ASSUME NEW m \in Model, NEW n \in Nat
  PROVE  /\ IsPool(PoolOf(m, n)) /\ IsFiniteSet(DOMAIN PoolOf(m, n)) /\ DOMAIN PoolOf(m, n) = {m}
         /\ Count(PoolOf(m, n), m) = n /\ \A k : k # m => Count(PoolOf(m, n), k) = 0
         /\ PoolOf(m, n)[m] = n
BY FS_Singleton DEF PoolOf, IsPool, Count

(* isMinimal, for one functionality.                                       *)
Partial(o, f, q) == {m \in DOMAIN q : SupportType(o, {f}, PoolOf(m, q[m])) = "partial"}

Less(q, m, P) == [n \in P |-> IF n = m THEN q[n] - 1 ELSE q[n]]

(* isMinimal for one functionality, in terms of the parts of a pool.       *)
LEMMA MinimalByParts ==
  ASSUME NEW o, NEW f, NEW q
  PROVE  IsMinimal(o, {f}, q) <=>
           /\ FullSupport(o, {f}, q)
           /\ IF \E m \in DOMAIN q : FullSupport(o, {f}, PoolOf(m, q[m]))
              THEN Cardinality(DOMAIN q) = 1
              ELSE \A m \in Partial(o, f, q) : ~FullSupport(o, {f}, Less(q, m, Partial(o, f, q)))
<1> DEFINE alone == [m \in DOMAIN q |-> SupportType(o, {f}, PoolOf(m, q[m]))]
           partial == {m \in DOMAIN q : alone[m] = "partial"}
<1>1. \A m \in DOMAIN q : alone[m] = SupportType(o, {f}, PoolOf(m, q[m]))
  OBVIOUS
<1>2. IsMinimal(o, {f}, q) <=> FullSupport(o, {f}, q) /\ NothingToSpare(o, {f}, q, alone)
  BY DEF IsMinimal
<1> HIDE DEF alone
<1>3. partial = Partial(o, f, q)
  BY <1>1 DEF Partial
<1>4. NothingToSpare(o, {f}, q, alone) <=>
        IF \E m \in DOMAIN q : alone[m] = "full" THEN Cardinality(DOMAIN q) = 1
        ELSE \A m \in partial : ~FullSupport(o, {f}, Less(q, m, partial))
  BY DEF NothingToSpare, Less
<1>5. (\E m \in DOMAIN q : alone[m] = "full") <=> \E m \in DOMAIN q : FullSupport(o, {f}, PoolOf(m, q[m]))
  BY <1>1 DEF FullSupport
<1> QED
  BY <1>2, <1>3, <1>4, <1>5

(* A pool with one agent less, of some of its models.                      *)
LEMMA LessIsPart ==
  ASSUME NEW q, IsPool(q), IsFiniteSet(DOMAIN q), \A n \in DOMAIN q : q[n] # 0,
         NEW P \in SUBSET DOMAIN q, NEW m \in P
  PROVE  /\ IsPart(Less(q, m, P), q)
         /\ DOMAIN Less(q, m, P) = P
         /\ Count(Less(q, m, P), m) = q[m] - 1 /\ Count(q, m) = q[m] /\ q[m] \in Nat \ {0}
         /\ \A n \in P \ {m} : Count(Less(q, m, P), n) = Count(q, n)
<1> DEFINE r == Less(q, m, P)
<1>1. \A n \in DOMAIN q : q[n] \in Nat \ {0} /\ n \in Model
  BY DEF IsPool
<1>2. \A n \in P : (IF n = m THEN q[n] - 1 ELSE q[n]) \in Nat
  BY <1>1
<1>3. r = [n \in P |-> IF n = m THEN q[n] - 1 ELSE q[n]]
  BY DEF Less
<1> HIDE DEF r
<1>4. DOMAIN r = P /\ r \in [P -> Nat] /\ r[m] = q[m] - 1 /\ \A n \in P \ {m} : r[n] = q[n]
  BY <1>2, <1>3
<1>5. IsPool(r) /\ IsFiniteSet(DOMAIN r)
  BY <1>1, <1>4, FS_Subset DEF IsPool
<1>6. ASSUME NEW n PROVE Count(r, n) <= Count(q, n)
  <2>1. CASE n \in P
    BY <1>1, <1>4, <2>1 DEF Count
  <2>2. CASE n \notin P
    <3>1. Count(r, n) = 0 /\ Count(q, n) \in Nat
      BY <1>4, <2>2, CountIsNatural DEF Count
    <3> QED
      BY <3>1
  <2> QED
    BY <2>1, <2>2
<1>7. IsPart(r, q)
  BY <1>5, <1>6 DEF IsPart
<1>8. Count(r, m) = q[m] - 1 /\ Count(q, m) = q[m] /\ q[m] \in Nat \ {0}
  BY <1>1, <1>4 DEF Count
<1>9. \A n \in P \ {m} : Count(r, n) = Count(q, n)
  BY <1>4 DEF Count
<1> QED
  BY <1>4, <1>7, <1>8, <1>9 DEF r

-----------------------------------------------------------------------------
(* The saturation bound is not too large: one agent less is too few.       *)

(* A sum of natural numbers, one of which is not 0.                        *)
LEMMA SumIsPositive ==
  ASSUME NEW f, NEW S, IsFiniteSet(S), \A x \in S : f[x] \in Nat, NEW x \in S, f[x] > 0
  PROVE  SumOver(f, S) # 0
<1>1. SumOver(f, S) = SumFunctionOnSet(f, S)
  BY DEF SumOver, SumFunctionOnSet
<1>2. SumFunctionOnSet(f, {x}) <= SumFunctionOnSet(f, S)
  BY SumOfPart, {x} \in SUBSET S
<1>3. SumFunctionOnSet(f, {x}) = f[x]
  BY SumOfOne, f[x] \in Int
<1>4. SumFunctionOnSet(f, S) \in Nat /\ f[x] \in Nat
  BY SumIsNat
<1> QED
  BY <1>1, <1>2, <1>3, <1>4

-----------------------------------------------------------------------------
(* A support that is there is found by a bounded ask.                      *)

(* isSubset, of maps.                                                      *)
LEMMA SubpoolByCounts ==
  ASSUME NEW q, IsPool(q), NEW p, IsPool(p)
  PROVE  Mapping!IsSubpool(q, p) <=> \A m : Count(q, m) <= Count(p, m)
<1>1. \A m : Count(q, m) \in Nat /\ Count(p, m) \in Nat
  BY CountIsNatural
<1>2. Mapping!IsSubpool(q, p) <=> \A m \in DOMAIN q : q[m] <= Count(p, m)
  BY DEF Mapping!IsSubpool, Count
<1>3. \A m \in DOMAIN q : Count(q, m) = q[m]
  BY DEF Count
<1>4. \A m : m \notin DOMAIN q => Count(q, m) <= Count(p, m)
  <2> SUFFICES ASSUME NEW m, m \notin DOMAIN q PROVE Count(q, m) <= Count(p, m)
    OBVIOUS
  <2>1. Count(q, m) = 0
    BY DEF Count
  <2> QED
    BY <1>1, <2>1
<1> QED
  BY <1>2, <1>3, <1>4

(* A part without empty entries has entries for models of the pool only.   *)
LEMMA EntriesOfPart ==
  ASSUME NEW p, IsPool(p), NEW q, IsPart(q, p), q = Compact(q)
  PROVE  DOMAIN q \subseteq DOMAIN p /\ \A m \in DOMAIN q : q[m] \in Nat \ {0} /\ q[m] <= p[m]
<1>1. DOMAIN Compact(q) = {n \in DOMAIN q : q[n] # 0}
  BY DEF Compact
<1>2. IsPool(q) /\ \A m : Count(q, m) <= Count(p, m)
  BY DEF IsPart
<1>3. \A m \in DOMAIN q : q[m] \in Nat \ {0} /\ q[m] <= Count(p, m)
  BY <1>1, <1>2 DEF IsPool, Count
<1>4. ASSUME NEW m \in DOMAIN q, m \notin DOMAIN p PROVE FALSE
  <2>1. Count(p, m) = 0
    BY <1>4 DEF Count
  <2> QED
    BY <1>3, <2>1
<1> QED
  BY <1>3, <1>4 DEF Count

(* The mapping of a functionality when every combination can be connected. *)
MappedPools(o, agents, f, bounded, size) ==
  IF bounded THEN BoundedPools(o, agents, f, size) ELSE UnboundedPools(o, agents, f)

-----------------------------------------------------------------------------
(* The pools granted to resources serve them.                              *)

(* A weighted sum is one over any finite set of models that has all of     *)
(* those the pool has agents of.                                           *)
Weighted(p, M, w) == [m \in M |-> Count(p, m) * w[m]]

LEMMA WeightedByCounts ==
  ASSUME NEW p, IsPool(p), NEW w, NEW M, IsFiniteSet(M), DOMAIN p \subseteq M, \A m \in M : w[m] \in Nat
  PROVE  /\ WeightedSum(p, w) = SumFunctionOnSet(Weighted(p, M, w), M)
         /\ \A m \in M : Weighted(p, M, w)[m] = Count(p, m) * w[m] /\ Weighted(p, M, w)[m] \in Nat
<1> DEFINE g == [m \in DOMAIN p |-> p[m] * w[m]]
           all == Weighted(p, M, w)
<1>1. ASSUME NEW m \in M PROVE all[m] = Count(p, m) * w[m] /\ all[m] \in Nat
  <2>1. Count(p, m) \in Nat /\ w[m] \in Nat
    BY CountIsNatural
  <2>2. Count(p, m) * w[m] \in Nat
    BY <2>1
  <2> QED
    BY <2>2 DEF Weighted
<1>2. IsFiniteSet(DOMAIN p) /\ DOMAIN p \in SUBSET M
  BY FS_Subset
<1>3. \A m \in DOMAIN p : g[m] = all[m]
  BY DEF Weighted, Count
<1>4. \A m \in M \ DOMAIN p : all[m] = 0
  <2> TAKE m \in M \ DOMAIN p
  <2>1. Count(p, m) = 0 /\ w[m] \in Nat
    BY DEF Count
  <2> QED
    BY <1>1, <2>1
<1>5. WeightedSum(p, w) = SumFunctionOnSet(g, DOMAIN p)
  BY DEF WeightedSum, SumOver, SumFunctionOnSet
<1> HIDE DEF all, g
<1>6. SumFunctionOnSet(g, DOMAIN p) = SumFunctionOnSet(all, DOMAIN p)
  BY <1>1, <1>2, <1>3, SumIsDetermined
<1>7. SumFunctionOnSet(all, M) = SumFunctionOnSet(all, DOMAIN p)
  BY <1>1, <1>2, <1>4, SumWithoutZeros
<1> QED
  BY <1>1, <1>5, <1>6, <1>7 DEF all

(* A pool has at least what a part of it has, times a factor if it has so  *)
(* many times the agents.                                                  *)
LEMMA MoreHasMore ==
  ASSUME NEW p, IsPool(p), IsFiniteSet(DOMAIN p), NEW q, IsPool(q), IsFiniteSet(DOMAIN q), NEW k \in Nat,
         \A m : k * Count(q, m) <= Count(p, m),
         NEW w, \A m \in DOMAIN p \cup DOMAIN q : w[m] \in Nat
  PROVE  /\ WeightedSum(p, w) \in Nat /\ WeightedSum(q, w) \in Nat
         /\ k * WeightedSum(q, w) <= WeightedSum(p, w)
<1> DEFINE M == DOMAIN p \cup DOMAIN q
           more == Weighted(p, M, w)
           less == Weighted(q, M, w)
           times == [m \in M |-> k * less[m]]
<1>1. IsFiniteSet(M) /\ DOMAIN p \subseteq M /\ DOMAIN q \subseteq M /\ \A m \in M : w[m] \in Nat
  BY FS_Union
<1> HIDE DEF M
<1>2. /\ WeightedSum(p, w) = SumFunctionOnSet(more, M) /\ WeightedSum(q, w) = SumFunctionOnSet(less, M)
      /\ \A m \in M : /\ more[m] = Count(p, m) * w[m] /\ more[m] \in Nat
                      /\ less[m] = Count(q, m) * w[m] /\ less[m] \in Nat
  BY <1>1, WeightedByCounts
<1> HIDE DEF more, less
<1>3. ASSUME NEW m \in M PROVE times[m] = k * less[m] /\ times[m] \in Nat /\ times[m] <= more[m]
  <2>1. k * less[m] \in Nat
    BY <1>2
  <2> DEFINE a == Count(p, m)
             b == Count(q, m)
             v == w[m]
  <2>2. a \in Nat /\ b \in Nat /\ v \in Nat /\ k * b <= a
    BY <1>1, CountIsNatural
  <2>3. less[m] = b * v /\ more[m] = a * v
    BY <1>2
  <2> HIDE DEF a, b, v
  <2>4. k * b \in Nat
    BY <2>2
  <2>5. (k * b) * v <= a * v
    BY <2>2, <2>4
  <2>6. k * (b * v) = (k * b) * v
    BY <2>2
  <2> QED
    BY <2>1, <2>3, <2>5, <2>6
<1>4. \A m \in M : less[m] \in Int
  BY <1>2
<1>5. SumFunctionOnSet(times, M) = k * SumFunctionOnSet(less, M)
  BY <1>1, <1>3, <1>4, SumOfMultiples
<1> HIDE DEF times
<1>6. SumFunctionOnSet(times, M) <= SumFunctionOnSet(more, M)
  BY <1>1, <1>2, <1>3, SumIsMonotonic
<1>7. SumFunctionOnSet(more, M) \in Nat /\ SumFunctionOnSet(less, M) \in Nat
  BY <1>1, <1>2, SumIsNat
<1> QED
  BY <1>2, <1>5, <1>6, <1>7

(* The fold of maxCompositions over the resources, unfolded.               *)
ComposeStep(F, g, s) == IF s = {} THEN {} ELSE MaxCompositions(F[Chosen(s)], g[s \ {Chosen(s)}])

Composes(F, g, R) == g = [s \in SUBSET R |-> ComposeStep(F, g, s)]

(* The fold of maxCompositions is one of these functions' value.           *)
LEMMA CompositionsUnfolded ==
  ASSUME NEW R, NEW F, R = DOMAIN F
  PROVE  FoldFunction(MaxCompositions, {}, F) = (CHOOSE g : Composes(F, g, R))[R]
BY DEF FoldFunction, FoldFunctionOnSet, MapThenFoldSet, Composes, ComposeStep, Chosen

ComposesOn(F, g, R) ==
  /\ g[{}] = {}
  /\ \A s \in SUBSET R : s # {} => g[s] = MaxCompositions(F[Chosen(s)], g[s \ {Chosen(s)}])

(* Such a function composes one resource after the other.                  *)
LEMMA ComposesStepwise ==
  ASSUME NEW F, NEW R, NEW g, Composes(F, g, R)
  PROVE  ComposesOn(F, g, R)
<1>1. \A s \in SUBSET R : g[s] = ComposeStep(F, g, s)
  BY DEF Composes
<1>2. {} \in SUBSET R
  OBVIOUS
<1> QED
  BY <1>1, <1>2 DEF ComposeStep, ComposesOn

(* Compositions of pools are pools.                                        *)
LEMMA CompositionsArePools ==
  ASSUME NEW A \in SUBSET AllMaps, NEW B \in SUBSET AllMaps
  PROVE  MaxCompositions(A, B) \in SUBSET AllMaps
<1>1. \A a \in A, b \in B : PoolMax(a, b) \in AllMaps
  <2> TAKE a \in A, b \in B
  <2>1. IsPool(a) /\ IsPool(b)
    BY PoolsAreMaps
  <2> QED
    BY <2>1, MaxByCounts, PoolsAreMaps
<1> QED
  BY <1>1 DEF MaxCompositions

(* There is such a function for finitely many resources.                   *)
LEMMA CompositionsExist ==
  ASSUME NEW R, IsFiniteSet(R), NEW F, \A r \in R : F[r] \in SUBSET AllMaps
  PROVE  \E g : Composes(F, g, R)
<1> DEFINE T == SUBSET AllMaps
           next == [q \in T \X T |-> MaxCompositions(q[1], q[2])]
<1>1. \A a, b \in T : next[<<a, b>>] = MaxCompositions(a, b)
  OBVIOUS
<1>2. PICK g : Folded(next, {}, F, g, SUBSET R)
  BY FoldExists
<1>3. \A s \in SUBSET R : g[s] = FoldStep(next, {}, F, g, s)
  BY <1>2 DEF Folded
<1> HIDE DEF next
<1> DEFINE P == {s \in SUBSET R : g[s] \in T}
<1>4. {} \in P
  BY <1>3 DEF FoldStep
<1>5. ASSUME NEW s \in SUBSET R, s # {}, s \ {Chosen(s)} \in P
      PROVE  s \in P /\ g[s] = MaxCompositions(F[Chosen(s)], g[s \ {Chosen(s)}])
  <2>1. Chosen(s) \in R
    BY <1>5, ChosenIsElement
  <2>2. F[Chosen(s)] \in T /\ g[s \ {Chosen(s)}] \in T
    BY <1>5, <2>1
  <2>3. g[s] = MaxCompositions(F[Chosen(s)], g[s \ {Chosen(s)}])
    BY <1>1, <1>3, <1>5, <2>2 DEF FoldStep
  <2> QED
    BY <2>2, <2>3, CompositionsArePools
<1>6. SUBSET R \subseteq P
  <2> HIDE DEF P
  <2> QED
    BY <1>4, <1>5, ChosenInduction
<1>7. \A s \in SUBSET R : g[s] = ComposeStep(F, g, s)
  <2> SUFFICES ASSUME NEW s \in SUBSET R PROVE g[s] = ComposeStep(F, g, s)
    OBVIOUS
  <2>1. CASE s = {}
    BY <1>3, <2>1 DEF FoldStep, ComposeStep
  <2>2. CASE s # {}
    <3>1. s \ {Chosen(s)} \in P
      BY <1>6
    <3> QED
      BY <1>5, <2>2, <3>1 DEF ComposeStep
  <2> QED
    BY <2>1, <2>2
<1>8. g = [s \in SUBSET R |-> g[s]]
  BY <1>2 DEF Folded
<1>9. g = [s \in SUBSET R |-> ComposeStep(F, g, s)]
  BY <1>7, <1>8
<1> QED
  BY <1>9 DEF Composes

(* What is part of one is part of what includes it, and of the max.        *)
LEMMA PartsOfMax ==
  ASSUME NEW a, IsPool(a), IsFiniteSet(DOMAIN a), NEW b, IsPool(b), IsFiniteSet(DOMAIN b)
  PROVE  /\ IsPart(a, PoolMax(a, b)) /\ IsPart(b, PoolMax(a, b))
         /\ \A p : IsPart(a, p) /\ IsPart(b, p) => IsPart(PoolMax(a, b), p)
<1>1. IsPool(PoolMax(a, b)) /\ \A m : Count(PoolMax(a, b), m) = Larger(Count(a, m), Count(b, m))
  BY MaxByCounts
<1>2. \A m : Count(a, m) \in Nat /\ Count(b, m) \in Nat
  BY CountIsNatural
<1>3. IsFiniteSet(DOMAIN PoolMax(a, b))
  <2>1. DOMAIN PoolMax(a, b) = DOMAIN a \cup DOMAIN b
    BY DEF PoolMax, Combined
  <2> QED
    BY <2>1, FS_Union
<1> QED
  BY <1>1, <1>2, <1>3 DEF IsPart, Larger

(* getResourceSupport of several resources, each of which has support: a   *)
(* pool for all of them includes one for each, and no more than there is.  *)
IsWithin(q, agents) == IsPart(q, agents) /\ DOMAIN q \subseteq DOMAIN agents

Serves(R, F, p) == \A r \in R : \E q \in F[r] : IsPart(q, p)

THEOREM CompositionsServeAll ==
  ASSUME NEW R, IsFiniteSet(R), NEW F, R = DOMAIN F, NEW agents, IsPool(agents),
         \A r \in R : F[r] # {} /\ \A q \in F[r] : IsWithin(q, agents)
  PROVE  /\ \A p \in FoldFunction(MaxCompositions, {}, F) : IsWithin(p, agents) /\ Serves(R, F, p)
         /\ \A r : R = {r} => FoldFunction(MaxCompositions, {}, F) = F[r]
<1> DEFINE g == CHOOSE g : Composes(F, g, R)
<1>1. \A r \in R : F[r] \in SUBSET AllMaps
  <2>1. \A r \in R : \A q \in F[r] : IsPool(q)
    BY DEF IsPart, IsWithin
  <2> QED
    BY <2>1, PoolsAreMaps
<1>2. Composes(F, g, R)
  BY <1>1, CompositionsExist
<1>3. FoldFunction(MaxCompositions, {}, F) = g[R]
  BY CompositionsUnfolded
<1> HIDE DEF g
<1>4. /\ g[{}] = {}
      /\ \A s \in SUBSET R : s # {} => g[s] = MaxCompositions(F[Chosen(s)], g[s \ {Chosen(s)}])
  <2>1. ComposesOn(F, g, R)
    BY <1>2, ComposesStepwise
  <2> QED
    BY <2>1 DEF ComposesOn
<1> DEFINE Right(s) == /\ g[s] = {} <=> s = {}
                       /\ \A p \in g[s] : IsWithin(p, agents) /\ Serves(s, F, p)
                       /\ \A r : s = {r} => g[s] = F[r]
           P == {s \in SUBSET R : Right(s)}
<1>5. {} \in P
  BY <1>4
<1>6. ASSUME NEW s \in SUBSET R, s # {}, s \ {Chosen(s)} \in P PROVE s \in P
  <2> DEFINE c == Chosen(s)
             rest == s \ {c}
  <2>1. c \in s /\ c \in R /\ s = rest \cup {c}
    BY <1>6, ChosenIsElement
  <2>2. g[s] = MaxCompositions(F[c], g[rest])
    BY <1>4, <1>6
  <2>3. Right(rest)
    BY <1>6
  <2>4. F[c] # {} /\ \A q \in F[c] : IsWithin(q, agents) /\ IsPool(q) /\ IsFiniteSet(DOMAIN q)
    BY <2>1 DEF IsPart, IsWithin
  <2> HIDE DEF c, rest
  <2>5. CASE rest = {}
    <3>1. g[s] = F[c] /\ s = {c}
      BY <2>1, <2>2, <2>3, <2>4, <2>5 DEF MaxCompositions
    <3>2. \A p \in F[c] : IsPart(p, p)
      <4> TAKE p \in F[c]
      <4>1. \A m : Count(p, m) \in Nat
        BY <2>4, CountIsNatural
      <4> QED
        BY <2>4, <4>1 DEF IsPart
    <3>3. \A p \in F[c] : Serves({c}, F, p)
      BY <3>2 DEF Serves
    <3>4. Right(s)
      BY <2>4, <3>1, <3>3
    <3> QED
      BY <3>4
  <2>6. CASE rest # {}
    <3>1. g[rest] # {} /\ \A p \in g[rest] : IsWithin(p, agents) /\ Serves(rest, F, p) /\ IsPool(p) /\ IsFiniteSet(DOMAIN p)
      BY <2>3, <2>6 DEF IsPart, IsWithin
    <3>2. g[s] = {PoolMax(a, b) : a \in F[c], b \in g[rest]}
      BY <2>2, <2>4, <3>1 DEF MaxCompositions
    <3>3. ASSUME NEW a \in F[c], NEW b \in g[rest]
          PROVE  IsWithin(PoolMax(a, b), agents) /\ Serves(s, F, PoolMax(a, b))
      <4>1. /\ IsPart(a, PoolMax(a, b)) /\ IsPart(b, PoolMax(a, b))
            /\ IsPart(PoolMax(a, b), agents)
        BY <2>4, <3>1, PartsOfMax DEF IsWithin
      <4>0. DOMAIN PoolMax(a, b) \subseteq DOMAIN agents
        <5>1. DOMAIN PoolMax(a, b) = DOMAIN a \cup DOMAIN b
          BY DEF PoolMax, Combined
        <5> QED
          BY <2>4, <3>1, <5>1 DEF IsWithin
      <4>2. \A r \in rest : \E q \in F[r] : IsPart(q, PoolMax(a, b))
        <5> TAKE r \in rest
        <5>1. PICK q \in F[r] : IsPart(q, b)
          BY <3>1 DEF Serves
        <5>2. IsPart(q, PoolMax(a, b))
          BY <4>1, <5>1, PartOfPart DEF IsPart
        <5> QED
          BY <5>2
      <4>3. Serves(s, F, PoolMax(a, b))
        BY <2>1, <4>1, <4>2 DEF Serves
      <4> QED
        BY <4>0, <4>1, <4>3 DEF IsWithin
    <3>4. g[s] # {}
      <4>1. PICK a \in F[c], b \in g[rest] : TRUE
        BY <2>4, <3>1
      <4>2. PoolMax(a, b) \in g[s]
        BY <3>2
      <4> QED
        BY <4>2
    <3>5. \A r : s # {r}
      BY <2>1, <2>6 DEF rest
    <3>6. \A p \in g[s] : IsWithin(p, agents) /\ Serves(s, F, p)
      BY <3>2, <3>3
    <3>7. Right(s)
      BY <1>6, <3>4, <3>5, <3>6
    <3> QED
      BY <3>7
  <2> QED
    BY <2>5, <2>6
<1> HIDE DEF P
<1>7. R \in P
  BY <1>5, <1>6, ChosenInduction
<1> QED
  BY <1>3, <1>7 DEF P

(* A pool multiplied.                                                      *)
LEMMA MultiplyByCounts ==
  ASSUME NEW q, IsPool(q), NEW k \in Nat
  PROVE  /\ IsPool(Multiply(q, k)) /\ DOMAIN Multiply(q, k) = DOMAIN q
         /\ \A m : Count(Multiply(q, k), m) = k * Count(q, m)
<1> DEFINE p == Multiply(q, k)
<1>1. p = [m \in DOMAIN q |-> q[m] * k]
  BY DEF Multiply
<1>2. DOMAIN q \subseteq Model /\ \A m \in DOMAIN q : q[m] \in Nat /\ q[m] * k \in Nat /\ q[m] * k = k * q[m]
  <2>1. \A m \in DOMAIN q : q[m] \in Nat
    BY DEF IsPool
  <2>2. \A n \in Nat : n * k \in Nat /\ n * k = k * n
    OBVIOUS
  <2> QED
    BY <2>1, <2>2 DEF IsPool
<1> HIDE DEF p
<1>3. DOMAIN p = DOMAIN q /\ p \in [DOMAIN p -> Nat] /\ \A m \in DOMAIN q : p[m] = k * q[m]
  BY <1>1, <1>2
<1>4. IsPool(p)
  BY <1>2, <1>3 DEF IsPool
<1>5. \A m : Count(p, m) = k * Count(q, m)
  <2> TAKE m
  <2>1. CASE m \in DOMAIN q
    BY <1>3, <2>1 DEF Count
  <2>2. CASE m \notin DOMAIN q
    <3>1. Count(p, m) = 0 /\ Count(q, m) = 0 /\ k * 0 = 0
      BY <1>3, <2>2 DEF Count
    <3> QED
      BY <3>1
  <2> QED
    BY <2>1, <2>2
<1> QED
  BY <1>3, <1>4, <1>5 DEF p

(* A mapped pool and how many of it there are in one for a resource.       *)
Scales(o, ask, r, q, base, k) ==
  /\ base \in ask.pools[r.model] /\ IsPart(base, q)
  /\ k \in Nat /\ \A m : k * Count(base, m) <= Count(q, m)
  /\ \A c \in r.constraints :
        c.type = GREATER_EQUAL => k * WeightedSum(base, o.value[c.property]) >= c.value

-----------------------------------------------------------------------------
(* Reconfigurations                                                        *)

(* What an agent to be formed is charged for an agent there is.            *)
Charge(a, f, cooperation, transfer) ==
  IF a = f THEN 0 ELSE cooperation + transfer * Cardinality(a \cap f)

Charges(a, from, cooperation, transfer) == [f \in from |-> Charge(a, f, cooperation, transfer)]

(* A charge is a number, and that of the agents the other way round.       *)
LEMMA ChargeIsMutual ==
  ASSUME NEW S, IsFiniteSet(S), NEW a \in SUBSET S, NEW f \in SUBSET S, NEW c \in Int, NEW t \in Int
  PROVE  Charge(a, f, c, t) \in Int /\ Charge(a, f, c, t) = Charge(f, a, c, t)
<1>1. a \cap f = f \cap a /\ a \cap f \in SUBSET S
  OBVIOUS
<1>2. Cardinality(a \cap f) \in Nat /\ Cardinality(a \cap f) = Cardinality(f \cap a)
  BY <1>1, FS_Subset, FS_CardinalityType
<1> QED
  BY <1>2 DEF Charge

(* The agent of a division that an atomic agent is part of.                *)
AgentOfDivision(x, P) == CHOOSE g \in P : x \in g

Moved(P, Q) == {x \in UNION Q : AgentOfDivision(x, Q) # AgentOfDivision(x, P)}

-----------------------------------------------------------------------------
(* Agents and the pools they are of: policies select atomic agents of the  *)
(* agent they are applied to, and rules can be about what they leave.      *)

Numbered(a, m) == {x \in a : x[1] = m}

(* getResourceSupport of one functionality has the pools of its mapping.   *)
LEMMA SupportOfOneIsMapped ==
  ASSUME NEW o, NEW ask, NEW f, NEW agents, IsPool(agents),
         f \in DOMAIN ask.pools => \A q \in ask.pools[f] : IsPart(q, agents),
         NEW q \in ResourceSupport(o, ask, {Plain(f)})
  PROVE  IsPool(q)
<1> DEFINE r == Plain(f)
           F == [s \in {r} |-> ResourceSupportOf(o, ask, s)]
<1>1. r.model = f /\ r.constraints = {}
  BY DEF Plain
<1>2. f \in DOMAIN ask.pools /\ q \in FoldFunction(MaxCompositions, {}, F)
  BY <1>1 DEF ResourceSupport
<1>3. DOMAIN F = {r} /\ F[r] = ask.pools[f] /\ IsFiniteSet({r})
  BY <1>1, <1>2, FS_Singleton DEF ResourceSupportOf
<1>4. \A p \in ask.pools[f] : IsPool(p)
  BY <1>2 DEF IsPart
<1> HIDE DEF F, r
<1> DEFINE g == CHOOSE g : Composes(F, g, {r})
<1>5. F[r] \in SUBSET AllMaps
  BY <1>3, <1>4, PoolsAreMaps
<1>6. Composes(F, g, {r})
  BY <1>3, <1>5, CompositionsExist
<1>7. FoldFunction(MaxCompositions, {}, F) = g[{r}]
  BY <1>3, CompositionsUnfolded
<1> HIDE DEF g
<1>8. g[{}] = {} /\ g[{r}] = MaxCompositions(F[Chosen({r})], g[{r} \ {Chosen({r})}])
  <2>1. ComposesOn(F, g, {r})
    BY <1>6, ComposesStepwise
  <2>2. {r} \in SUBSET {r} /\ {r} # {}
    OBVIOUS
  <2> QED
    BY <2>1, <2>2 DEF ComposesOn
<1>9. Chosen({r}) = r
  BY ChosenIsElement
<1>10. g[{r}] = MaxCompositions(F[r], {})
  <2>1. {r} \ {r} = {}
    OBVIOUS
  <2> QED
    BY <1>8, <1>9, <2>1
<1>11. g[{r}] = F[r]
  BY <1>10 DEF MaxCompositions
<1> QED
  BY <1>2, <1>3, <1>4, <1>7, <1>11

-----------------------------------------------------------------------------
(* Ranges of pools: the iterator is a counter whose digits are the counts, *)
(* the one of the last model being the most significant.                   *)

(* Pools with the entries of the start, in the order of the counter.       *)
Maps(r) == [DOMAIN r.start -> Nat]

Precedes(a, b) == \E m \in DOMAIN a : a[m] < b[m] /\ \A n \in DOMAIN a : m < n => a[n] = b[n]

(* From what is part of the end, in steps ahead.                           *)
IsRange(r) ==
  /\ IsPool(r.start) /\ IsFiniteSet(DOMAIN r.start) /\ IsPool(r.end) /\ IsPool(r.step)
  /\ \A m \in DOMAIN r.step : r.step[m] > 0
  /\ \A m \in DOMAIN r.start : r.start[m] <= Count(r.end, m)

Width(r, m) == IF m \in DOMAIN r.step THEN r.step[m] ELSE 1

(* Starts and ends of ranges count, and steps are not 0.                   *)
LEMMA RangeFacts ==
  ASSUME NEW r, IsRange(r)
  PROVE  /\ DOMAIN r.start \subseteq Nat /\ r.start \in Maps(r)
         /\ \A m : Count(r.end, m) \in Nat
         /\ \A m \in DOMAIN r.start : /\ Width(r, m) \in Nat \ {0}
                                      /\ r.start[m] \in Nat /\ r.start[m] <= Count(r.end, m)
<1>1. DOMAIN r.start \subseteq Nat /\ r.start \in Maps(r)
  BY ModelAssumption DEF IsRange, IsPool, Maps
<1>2. \A m : Count(r.end, m) \in Nat
  BY CountIsNatural DEF IsRange
<1>3. \A m \in DOMAIN r.start : Width(r, m) \in Nat \ {0}
  <2> TAKE m \in DOMAIN r.start
  <2>1. CASE m \in DOMAIN r.step
    <3>1. r.step[m] \in Nat /\ r.step[m] > 0
      BY <2>1 DEF IsRange, IsPool
    <3> QED
      BY <2>1, <3>1 DEF Width
  <2>2. CASE m \notin DOMAIN r.step
    BY <2>2 DEF Width
  <2> QED
    BY <2>1, <2>2
<1> QED
  BY <1>1, <1>2, <1>3 DEF IsRange, Maps

(* No two of a range precede each other, and what precedes goes on.        *)
LEMMA PrecedesIsOrder ==
  ASSUME NEW D \in SUBSET Nat, NEW a \in [D -> Nat], NEW b \in [D -> Nat], NEW c \in [D -> Nat]
  PROVE  /\ ~Precedes(a, a)
         /\ Precedes(a, b) /\ Precedes(b, c) => Precedes(a, c)
<1>1. ~Precedes(a, a)
  BY DEF Precedes
<1>2. ASSUME Precedes(a, b), Precedes(b, c) PROVE Precedes(a, c)
  <2>1. PICK m \in D : a[m] < b[m] /\ \A n \in D : m < n => a[n] = b[n]
    BY <1>2 DEF Precedes
  <2>2. PICK k \in D : b[k] < c[k] /\ \A n \in D : k < n => b[n] = c[n]
    BY <1>2 DEF Precedes
  <2>3. m \in Nat /\ k \in Nat /\ \A n \in D : n \in Nat /\ a[n] \in Nat /\ b[n] \in Nat /\ c[n] \in Nat
    OBVIOUS
  <2>4. CASE m <= k
    <3>1. a[k] < c[k]
      BY <2>1, <2>2, <2>3, <2>4
    <3>2. \A n \in D : k < n => a[n] = c[n]
      BY <2>1, <2>2, <2>3, <2>4
    <3> QED
      BY <3>1, <3>2 DEF Precedes
  <2>5. CASE k < m
    <3>1. a[m] < c[m]
      BY <2>1, <2>2, <2>3, <2>5
    <3>2. \A n \in D : m < n => a[n] = c[n]
      BY <2>1, <2>2, <2>3, <2>5
    <3> QED
      BY <3>1, <3>2 DEF Precedes
  <2> QED
    BY <2>3, <2>4, <2>5
<1> QED
  BY <1>1, <1>2

(* What differs and is not smaller anywhere above what is not equal.       *)
LEMMA LastDifference ==
  ASSUME NEW D \in SUBSET Nat, IsFiniteSet(D), NEW a \in [D -> Nat], NEW b \in [D -> Nat], a # b
  PROVE  \E m \in D : a[m] # b[m] /\ \A n \in D : m < n => a[n] = b[n]
<1> DEFINE S == {m \in D : a[m] # b[m]}
<1>1. S # {}
  OBVIOUS
<1>2. IsFiniteSet(S) /\ S \subseteq Int
  <2>1. S \in SUBSET D
    OBVIOUS
  <2>2. D \subseteq Int
    OBVIOUS
  <2> HIDE DEF S
  <2> QED
    BY <2>1, <2>2, FS_Subset
<1>3. PICK m \in S : \A n \in S : n <= m
  BY <1>1, <1>2, FiniteHasGreatest
<1>4. \A n \in D : m < n => a[n] = b[n]
  BY <1>3
<1> QED
  BY <1>4

(* Digits: the start and the end are, and the next one is the next.        *)
LEMMA DigitsFollow ==
  ASSUME NEW w \in Nat \ {0}, NEW x \in Nat, NEW y \in Nat, x % w = 0, y % w = 0, x < y
  PROVE  x + w <= y
<1>1. PICK k \in Nat : x = k * w
  <2>1. x = ((x \div w) * w) + (x % w) /\ x \div w \in Nat
    OBVIOUS
  <2> QED
    BY <2>1
<1>2. PICK j \in Nat : y = j * w
  <2>1. y = ((y \div w) * w) + (y % w) /\ y \div w \in Nat
    OBVIOUS
  <2> QED
    BY <2>1
<1>3. k < j
  <2> SUFFICES ASSUME j <= k PROVE FALSE
    BY <1>1, <1>2
  <2>1. (k - j) * w >= 0
    OBVIOUS
  <2>2. (k - j) * w = k * w - j * w
    OBVIOUS
  <2> QED
    BY <1>1, <1>2, <2>1, <2>2
<1>4. (j - k - 1) * w >= 0
  BY <1>3
<1>5. (j - k - 1) * w = j * w - k * w - w
  OBVIOUS
<1>6. k * w = x /\ j * w = y
  BY <1>1, <1>2
<1> DEFINE d == (j - k - 1) * w
<1>7. d >= 0 /\ d = y - x - w
  BY <1>4, <1>5, <1>6
<1> HIDE DEF d
<1> QED
  BY <1>7

(* A multiple leaves no remainder,                                         *)
LEMMA MultiplesDivide ==
  ASSUME NEW w \in Nat \ {0}, NEW k \in Nat
  PROVE  (k * w) % w = 0
OBVIOUS

(* nor does the next one: a digit is followed by a digit.                  *)
LEMMA DigitGoesOn ==
  ASSUME NEW w \in Nat \ {0}, NEW x \in Nat, x % w = 0
  PROVE  (x + w) % w = 0
<1>1. PICK k \in Nat : x = k * w
  <2>1. x = ((x \div w) * w) + (x % w) /\ x \div w \in Nat
    OBVIOUS
  <2> QED
    BY <2>1
<1> DEFINE n == k + 1
<1>2. x + w = n * w /\ n \in Nat
  BY <1>1
<1> HIDE DEF n
<1>3. (n * w) % w = 0
  BY <1>2, MultiplesDivide
<1> QED
  BY <1>2, <1>3

(* The pools that are further on, as far as the iterator can reach.        *)
Ahead(r, c) ==
  {p \in Maps(r) : Precedes(c, p) /\ \A n \in DOMAIN r.start : p[n] <= Larger(c[n], Count(r.end, n))}

Graph(p) == {<<n, p[n]>> : n \in DOMAIN p}

(* Finitely many pools are ahead of one: how many is a natural number.     *)
LEMMA AheadIsFinite ==
  ASSUME NEW r, IsRange(r), NEW c \in Maps(r)
  PROVE  IsFiniteSet(Ahead(r, c)) /\ Cardinality(Ahead(r, c)) \in Nat
<1> DEFINE D == DOMAIN r.start
           top == [n \in D |-> Larger(c[n], Count(r.end, n))]
           tops == {0} \cup {top[n] : n \in D}
<1>1. IsFiniteSet(D) /\ c \in [D -> Nat] /\ \A n \in D : top[n] \in Nat
  <2>1. \A n \in D : c[n] \in Nat /\ Count(r.end, n) \in Nat
    BY RangeFacts DEF Maps
  <2> QED
    BY <2>1 DEF IsRange, Maps, Larger
<1>2. IsFiniteSet(tops) /\ tops \subseteq Nat /\ 0 \in tops
  <2> DEFINE values == {top[n] : n \in D}
  <2>1. top \in Surjection(D, values)
    BY DEF Surjection
  <2> HIDE DEF values, top
  <2>2. IsFiniteSet(values)
    BY <1>1, <2>1, FS_Surjection
  <2>3. IsFiniteSet({0} \cup values)
    BY <2>2, FS_Singleton, FS_Union
  <2> QED
    BY <1>1, <2>3 DEF values
<1>3. PICK N \in tops : \A k \in tops : k <= N
  <2> HIDE DEF tops
  <2>1. tops \subseteq Int /\ tops # {}
    BY <1>2
  <2> QED
    BY <1>2, <2>1, FiniteHasGreatest
<1>4. N \in Nat /\ \A n \in D : top[n] <= N
  BY <1>2, <1>3
<1> DEFINE S == Ahead(r, c)
           B == SUBSET (D \X (0 .. N))
           g == [p \in S |-> Graph(p)]
<1>5. \A p \in S : p \in [D -> Nat] /\ \A n \in D : p[n] \in 0 .. N
  <2> SUFFICES ASSUME NEW p \in S PROVE p \in [D -> Nat] /\ \A n \in D : p[n] \in 0 .. N
    OBVIOUS
  <2>1. p \in [D -> Nat] /\ \A n \in D : p[n] <= top[n]
    BY DEF Ahead, Maps
  <2> HIDE DEF top, S, D
  <2>2. \A n \in D : p[n] \in Nat /\ p[n] <= top[n] /\ top[n] \in Nat /\ top[n] <= N
    BY <1>1, <1>4, <2>1
  <2> QED
    BY <1>4, <2>1, <2>2
<1> HIDE DEF top, tops, S, D
<1>6. g \in Injection(S, B)
  <2>1. \A p \in S : Graph(p) \in B
    <3> SUFFICES ASSUME NEW p \in S PROVE Graph(p) \in B
      OBVIOUS
    <3>1. DOMAIN p = D /\ \A n \in D : p[n] \in 0 .. N
      BY <1>5
    <3> QED
      BY <3>1 DEF Graph
  <2>2. ASSUME NEW p \in S, NEW q \in S, Graph(p) = Graph(q) PROVE p = q
    <3>1. p \in [D -> Nat] /\ q \in [D -> Nat]
      BY <1>5
    <3>2. \A n \in D : p[n] = q[n]
      <4> TAKE n \in D
      <4>1. <<n, p[n]>> \in Graph(q)
        BY <2>2, <3>1 DEF Graph
      <4> QED
        BY <3>1, <4>1 DEF Graph
    <3> QED
      BY <3>1, <3>2
  <2> HIDE DEF B
  <2>3. g \in [S -> B]
    BY <2>1
  <2>4. \A p, q \in S : g[p] = g[q] => p = q
    BY <2>2
  <2> QED
    BY <2>3, <2>4 DEF Injection, IsInjective
<1>7. IsFiniteSet(B)
  <2>1. IsFiniteSet(0 .. N)
    BY <1>4, FS_Interval
  <2>2. IsFiniteSet(D \X (0 .. N))
    BY <1>1, <2>1, FS_Product
  <2> QED
    BY <2>2, FS_SUBSET
<1> HIDE DEF B, g
<1>8. IsFiniteSet(S)
  BY <1>6, <1>7, FS_Injection
<1> QED
  BY <1>8, FS_CardinalityType DEF S

(* Recursion along steps that lower a rank.                                *)
Descent(h, Y, next, combine, base, c) == IF c \in Y THEN combine[<<c, h[next[c]]>>] ELSE base[c]

DescendsTo(h, n, X, Y, next, combine, base, rank) ==
  \A c \in X : rank[c] < n => h[c] = Descent(h, Y, next, combine, base, c)

(* Two functions defined by descent agree where both are defined.          *)
LEMMA DescentIsUnique ==
  ASSUME NEW X, NEW Y \in SUBSET X, NEW rank \in [X -> Nat], NEW next \in [Y -> X],
         \A c \in Y : rank[next[c]] < rank[c], NEW combine, NEW base,
         NEW g, NEW h, NEW i \in Nat, NEW j \in Nat,
         DescendsTo(g, i, X, Y, next, combine, base, rank), DescendsTo(h, j, X, Y, next, combine, base, rank)
  PROVE  \A c \in X : rank[c] < i /\ rank[c] < j => g[c] = h[c]
<1> DEFINE P == {n \in Nat : \A c \in X : rank[c] < n /\ rank[c] < i /\ rank[c] < j => g[c] = h[c]}
<1>1. 0 \in P
  OBVIOUS
<1>2. \A n \in Nat : n \in P => n + 1 \in P
  <2> SUFFICES ASSUME NEW n \in Nat, n \in P, NEW c \in X, rank[c] < n + 1, rank[c] < i, rank[c] < j
               PROVE  g[c] = h[c]
    OBVIOUS
  <2>1. g[c] = Descent(g, Y, next, combine, base, c) /\ h[c] = Descent(h, Y, next, combine, base, c)
    BY DEF DescendsTo
  <2>2. CASE c \in Y
    <3>1. next[c] \in X /\ rank[next[c]] < rank[c] /\ rank[next[c]] \in Nat /\ rank[c] \in Nat
      BY <2>2
    <3>2. rank[next[c]] < n /\ rank[next[c]] < i /\ rank[next[c]] < j
      BY <3>1
    <3>3. g[next[c]] = h[next[c]]
      BY <3>1, <3>2
    <3> QED
      BY <2>1, <3>3 DEF Descent
  <2>3. CASE c \notin Y
    BY <2>1, <2>3 DEF Descent
  <2> QED
    BY <2>2, <2>3
<1> HIDE DEF P
<1>3. Nat \subseteq P
  BY <1>1, <1>2, NatSetInduction
<1> SUFFICES ASSUME NEW c \in X, rank[c] < i, rank[c] < j PROVE g[c] = h[c]
  OBVIOUS
<1>4. rank[c] \in Nat /\ rank[c] + 1 \in P /\ rank[c] < rank[c] + 1
  BY <1>3
<1> QED
  BY <1>4 DEF P

Descends(X, T, Y, next, combine, base, rank) ==
  /\ Y \in SUBSET X /\ rank \in [X -> Nat] /\ next \in [Y -> X]
  /\ \A c \in Y : rank[next[c]] < rank[c]
  /\ combine \in [X \X T -> T] /\ base \in [X -> T]

(* A function may call itself on what has a lower rank.                    *)
LEMMA DescentExists ==
  ASSUME NEW X, NEW T, NEW Y, NEW next, NEW combine, NEW base, NEW rank,
         Descends(X, T, Y, next, combine, base, rank)
  PROVE  \E f \in [X -> T] : \A c \in X : f[c] = Descent(f, Y, next, combine, base, c)
<1> USE DEF Descends
<1> DEFINE Is(h, n) == DescendsTo(h, n, X, Y, next, combine, base, rank)
           P == {n \in Nat : \E h \in [X -> T] : Is(h, n)}
<1>0. \A h \in [X -> T] : \A c \in X : Descent(h, Y, next, combine, base, c) \in T
  BY DEF Descent
<1>1. 0 \in P
  BY DEF DescendsTo
<1>2. \A n \in Nat : n \in P => n + 1 \in P
  <2> SUFFICES ASSUME NEW n \in Nat, n \in P PROVE \E h \in [X -> T] : Is(h, n + 1)
    OBVIOUS
  <2>1. PICK h \in [X -> T] : Is(h, n)
    OBVIOUS
  <2> DEFINE k == [c \in X |-> Descent(h, Y, next, combine, base, c)]
  <2>2. k \in [X -> T]
    BY <1>0
  <2>3. \A c \in X : k[c] = Descent(h, Y, next, combine, base, c)
    OBVIOUS
  <2> HIDE DEF k
  <2>4. ASSUME NEW c \in X, rank[c] < n + 1 PROVE k[c] = Descent(k, Y, next, combine, base, c)
    <3>1. CASE c \in Y
      <4>1. next[c] \in X /\ rank[next[c]] < rank[c] /\ rank[next[c]] \in Nat /\ rank[c] \in Nat
        BY <3>1
      <4>2. rank[next[c]] < n
        BY <2>4, <4>1
      <4>3. k[next[c]] = h[next[c]]
        BY <2>1, <2>3, <4>1, <4>2 DEF DescendsTo
      <4> QED
        BY <2>3, <3>1, <4>3 DEF Descent
    <3>2. CASE c \notin Y
      BY <2>3, <3>2 DEF Descent
    <3> QED
      BY <3>1, <3>2
  <2>5. Is(k, n + 1)
    BY <2>4 DEF DescendsTo
  <2> QED
    BY <2>2, <2>5
<1>3. Nat \subseteq P
  <2> HIDE DEF P
  <2> QED
    BY <1>1, <1>2, NatSetInduction
<1> DEFINE H(n) == CHOOSE h \in [X -> T] : Is(h, n)
<1>4. \A n \in Nat : H(n) \in [X -> T] /\ Is(H(n), n)
  BY <1>3
<1> HIDE DEF P, H, Is
<1> DEFINE f == [c \in X |-> H(rank[c] + 1)[c]]
<1>5. \A c \in X : rank[c] \in Nat /\ rank[c] + 1 \in Nat /\ rank[c] < rank[c] + 1
  OBVIOUS
<1>6. f \in [X -> T]
  BY <1>4, <1>5
<1>7. \A c \in X : f[c] = H(rank[c] + 1)[c]
  OBVIOUS
<1> HIDE DEF f
<1>8. ASSUME NEW c \in X PROVE f[c] = Descent(f, Y, next, combine, base, c)
  <2> DEFINE n == rank[c] + 1
  <2>1. n \in Nat /\ rank[c] < n
    BY <1>5
  <2>2. f[c] = Descent(H(n), Y, next, combine, base, c)
    BY <1>4, <1>7, <2>1 DEF Is, DescendsTo
  <2>3. CASE c \in Y
    <3> DEFINE d == next[c]
               k == rank[d] + 1
    <3>1. d \in X /\ rank[d] < rank[c]
      BY <2>3
    <3>2. k \in Nat /\ rank[d] < k /\ rank[d] < n
      BY <1>5, <3>1
    <3>3. Is(H(n), n) /\ Is(H(k), k)
      BY <1>4, <2>1, <3>2
    <3>4. H(n)[d] = H(k)[d]
      <4> HIDE DEF n, d, k
      <4>1. DescendsTo(H(n), n, X, Y, next, combine, base, rank)
            /\ DescendsTo(H(k), k, X, Y, next, combine, base, rank)
        BY <3>3 DEF Is
      <4>2. \A x \in X : rank[x] < n /\ rank[x] < k => H(n)[x] = H(k)[x]
        BY <2>1, <3>2, <4>1, DescentIsUnique
      <4> QED
        BY <3>1, <3>2, <4>2
    <3>5. f[d] = H(n)[d]
      BY <1>7, <3>1, <3>4
    <3> QED
      BY <2>2, <2>3, <3>5 DEF Descent
  <2>4. CASE c \notin Y
    BY <2>2, <2>4 DEF Descent
  <2> QED
    BY <2>3, <2>4
<1> QED
  BY <1>6, <1>8

(* A sequence that has each element of a set once.                         *)
Lists(t, S) ==
  /\ t \in Seq(S)
  /\ \A x \in S : \E i \in 1 .. Len(t) : t[i] = x
  /\ \A i, j \in 1 .. Len(t) : t[i] = t[j] => i = j

(* A list without repetition, with one more element in front.              *)
LEMMA ListsOneMore ==
  ASSUME NEW S, NEW c, c \notin S, NEW t, Lists(t, S)
  PROVE  Lists(<<c>> \o t, {c} \cup S)
<1> DEFINE u == <<c>> \o t
           U == {c} \cup S
<1>1. t \in Seq(S) /\ t \in Seq(U) /\ <<c>> \in Seq(U) /\ Len(t) \in Nat
  BY DEF Lists
<1>2. /\ u \in Seq(U) /\ Len(u) = Len(t) + 1 /\ u[1] = c
      /\ \A i \in 1 .. Len(t) : u[i + 1] = t[i]
  BY <1>1
<1>3. \A i \in 1 .. Len(t) : t[i] \in S
  BY <1>1
<1> HIDE DEF u
<1>4. \A i \in 1 .. Len(u) : i = 1 \/ (i - 1 \in 1 .. Len(t) /\ u[i] = t[i - 1])
  <2> SUFFICES ASSUME NEW i \in 1 .. Len(u), i # 1 PROVE i - 1 \in 1 .. Len(t) /\ u[i] = t[i - 1]
    OBVIOUS
  <2>1. i - 1 \in 1 .. Len(t) /\ (i - 1) + 1 = i
    BY <1>1, <1>2
  <2> QED
    BY <1>2, <2>1
<1>5. ASSUME NEW x \in U PROVE \E i \in 1 .. Len(u) : u[i] = x
  <2>1. CASE x = c
    BY <1>1, <1>2, <2>1
  <2>2. CASE x \in S
    <3>1. PICK i \in 1 .. Len(t) : t[i] = x
      BY <2>2 DEF Lists
    <3>2. i + 1 \in 1 .. Len(u) /\ u[i + 1] = x
      BY <1>1, <1>2, <3>1
    <3> QED
      BY <3>2
  <2> QED
    BY <2>1, <2>2
<1>6. ASSUME NEW i \in 1 .. Len(u), NEW j \in 1 .. Len(u), u[i] = u[j] PROVE i = j
  <2>1. CASE i = 1 /\ j # 1
    <3>1. u[j] \in S /\ u[i] = c
      BY <1>2, <1>3, <1>4, <2>1
    <3> QED
      BY <1>6, <3>1
  <2>2. CASE i # 1 /\ j = 1
    <3>1. u[i] \in S /\ u[j] = c
      BY <1>2, <1>3, <1>4, <2>2
    <3> QED
      BY <1>6, <3>1
  <2>3. CASE i # 1 /\ j # 1
    <3>1. i - 1 \in 1 .. Len(t) /\ j - 1 \in 1 .. Len(t) /\ t[i - 1] = t[j - 1]
      BY <1>4, <1>6, <2>3
    <3>2. i - 1 = j - 1
      BY <3>1 DEF Lists
    <3> QED
      BY <1>1, <1>2, <3>2
  <2> QED
    BY <2>1, <2>2, <2>3
<1> QED
  BY <1>2, <1>5, <1>6 DEF Lists, u

-----------------------------------------------------------------------------
(* Two ways to count resources                                             *)

(* What restrictions ask for under a key, and all they can be.             *)
At(r, k) == IF k \in DOMAIN r THEN r[k] ELSE 0

NoRestrictions == [k \in {} |-> 0]

AllRestrictions == UNION {[K -> Nat] : K \in SUBSET (Nat \X {"min", "max"})}

Joined(r) == r \in AllRestrictions /\ IsFiniteSet(DOMAIN r)

(* Restrictions that are joined with SUM_OP add up.                        *)
LEMMA JoinAddsUp ==
  ASSUME NEW a, Joined(a), NEW b, Joined(b)
  PROVE  /\ Joined(JoinSum(a, b)) /\ DOMAIN JoinSum(a, b) = DOMAIN a \cup DOMAIN b
         /\ \A k : At(a, k) \in Nat /\ At(b, k) \in Nat /\ At(JoinSum(a, b), k) = At(a, k) + At(b, k)
<1> DEFINE c == JoinSum(a, b)
           K == DOMAIN a \cup DOMAIN b
<1>1. \A r : Joined(r) <=> /\ DOMAIN r \in SUBSET (Nat \X {"min", "max"}) /\ IsFiniteSet(DOMAIN r)
                           /\ r \in [DOMAIN r -> Nat]
  BY DEF Joined, AllRestrictions
<1>2. \A k : At(a, k) \in Nat /\ At(b, k) \in Nat
  BY <1>1 DEF At
<1>3. c = [k \in K |-> IF k \in DOMAIN a /\ k \in DOMAIN b THEN a[k] + b[k]
                       ELSE IF k \in DOMAIN a THEN a[k] ELSE b[k]]
  BY DEF JoinSum, Combined
<1>4. IsFiniteSet(K) /\ K \in SUBSET (Nat \X {"min", "max"})
  BY <1>1, FS_Union
<1>5. \A k \in K : c[k] = At(a, k) + At(b, k)
  <2> TAKE k \in K
  <2>1. k \in DOMAIN a => a[k] \in Nat
    BY <1>1
  <2>2. k \in DOMAIN b => b[k] \in Nat
    BY <1>1
  <2> QED
    BY <1>3, <2>1, <2>2 DEF At
<1>6. DOMAIN c = K /\ c = [k \in K |-> c[k]]
  BY <1>3
<1> HIDE DEF c, K
<1>7. c \in [K -> Nat]
  BY <1>2, <1>5, <1>6
<1>8. Joined(c)
  BY <1>1, <1>4, <1>6, <1>7
<1>9. ASSUME NEW k PROVE At(c, k) = At(a, k) + At(b, k)
  <2>1. CASE k \in K
    BY <1>5, <1>6, <2>1 DEF At
  <2>2. CASE k \notin K
    BY <1>6, <2>2 DEF At, K
  <2> QED
    BY <2>1, <2>2
<1> QED
  BY <1>2, <1>6, <1>8, <1>9 DEF c, K

(* The join of several, one model after the other.                         *)
JoinStep(F, g, s) == IF s = {} THEN NoRestrictions ELSE JoinSum(F[Chosen(s)], g[s \ {Chosen(s)}])

Joins(F, g, M) == g = [s \in SUBSET M |-> JoinStep(F, g, s)]

(* FoldFunction joins them in this way.                                    *)
LEMMA JoinUnfolded ==
  ASSUME NEW F, NEW M, M = DOMAIN F
  PROVE  FoldFunction(JoinSum, NoRestrictions, F) = (CHOOSE g : Joins(F, g, M))[M]
BY DEF FoldFunction, FoldFunctionOnSet, MapThenFoldSet, Joins, JoinStep, Chosen

(* Finitely many restrictions can be joined.                               *)
LEMMA JoinExists ==
  ASSUME NEW M, IsFiniteSet(M), NEW F, \A m \in M : Joined(F[m])
  PROVE  \E g : Joins(F, g, M)
<1> DEFINE T == {r \in AllRestrictions : Joined(r)}
           next == [q \in T \X T |-> JoinSum(q[1], q[2])]
<1>0. \A r : r \in T <=> Joined(r)
  BY DEF Joined
<1>1. \A a, b \in T : next[<<a, b>>] = JoinSum(a, b)
  OBVIOUS
<1>2. PICK g : Folded(next, NoRestrictions, F, g, SUBSET M)
  BY FoldExists
<1>3. \A s \in SUBSET M : g[s] = FoldStep(next, NoRestrictions, F, g, s)
  BY <1>2 DEF Folded
<1> HIDE DEF next, T
<1> DEFINE P == {s \in SUBSET M : g[s] \in T}
<1>4. {} \in P
  <2>1. DOMAIN NoRestrictions = {} /\ NoRestrictions \in [{} -> Nat]
    BY DEF NoRestrictions
  <2>2. Joined(NoRestrictions)
    BY <2>1, FS_EmptySet DEF Joined, AllRestrictions
  <2> QED
    BY <1>0, <1>3, <2>2 DEF FoldStep
<1>5. ASSUME NEW s \in SUBSET M, s # {}, s \ {Chosen(s)} \in P
      PROVE  s \in P /\ g[s] = JoinSum(F[Chosen(s)], g[s \ {Chosen(s)}])
  <2>1. Chosen(s) \in M
    BY <1>5, ChosenIsElement
  <2>2. F[Chosen(s)] \in T /\ g[s \ {Chosen(s)}] \in T
    BY <1>0, <1>5, <2>1
  <2>3. g[s] = JoinSum(F[Chosen(s)], g[s \ {Chosen(s)}])
    BY <1>1, <1>3, <1>5, <2>2 DEF FoldStep
  <2> QED
    BY <1>0, <2>2, <2>3, JoinAddsUp
<1>6. SUBSET M \subseteq P
  <2> HIDE DEF P
  <2> QED
    BY <1>4, <1>5, ChosenInduction
<1>7. \A s \in SUBSET M : g[s] = JoinStep(F, g, s)
  <2> SUFFICES ASSUME NEW s \in SUBSET M PROVE g[s] = JoinStep(F, g, s)
    OBVIOUS
  <2>1. CASE s = {}
    BY <1>3, <2>1 DEF FoldStep, JoinStep
  <2>2. CASE s # {}
    <3>1. s \ {Chosen(s)} \in P
      BY <1>6
    <3> QED
      BY <1>5, <2>2, <3>1 DEF JoinStep
  <2> QED
    BY <2>1, <2>2
<1>8. g = [s \in SUBSET M |-> g[s]]
  BY <1>2 DEF Folded
<1>9. g = [s \in SUBSET M |-> JoinStep(F, g, s)]
  BY <1>7, <1>8
<1> QED
  BY <1>9 DEF Joins

(* Joined with SUM_OP, restrictions of several models ask for the sum of   *)
(* what each asks for.                                                     *)
Entry(F, k, M) == [m \in M |-> At(F[m], k)]

LEMMA JoinIsSum ==
  ASSUME NEW M, IsFiniteSet(M), NEW F, DOMAIN F = M, \A m \in M : Joined(F[m]),
         NEW r, r = FoldFunction(JoinSum, NoRestrictions, F)
  PROVE  /\ Joined(r) /\ DOMAIN r = UNION {DOMAIN F[m] : m \in M}
         /\ \A k : At(r, k) = SumFunctionOnSet(Entry(F, k, M), M)
         /\ \A k : \A m \in M : Entry(F, k, M)[m] \in Nat
<1> DEFINE g == CHOOSE h : Joins(F, h, M)
<1>1. r = g[M]
  BY JoinUnfolded
<1>2. Joins(F, g, M)
  BY JoinExists
<1> HIDE DEF g
<1>3. \A s \in SUBSET M : g[s] = JoinStep(F, g, s)
  BY <1>2 DEF Joins
<1>4. \A k : \A m \in M : Entry(F, k, M)[m] = At(F[m], k) /\ At(F[m], k) \in Nat
  <2> TAKE k
  <2> TAKE m \in M
  <2>1. At(F[m], k) \in Nat
    BY JoinAddsUp
  <2> QED
    BY <2>1 DEF Entry
<1> DEFINE Is(s) == /\ Joined(g[s]) /\ DOMAIN g[s] = UNION {DOMAIN F[m] : m \in s}
                    /\ \A k : At(g[s], k) = SumFunctionOnSet(Entry(F, k, M), s)
           P == {s \in SUBSET M : Is(s)}
<1>5. {} \in P
  <2>1. g[{}] = NoRestrictions
    BY <1>3 DEF JoinStep
  <2>2. DOMAIN NoRestrictions = {} /\ NoRestrictions \in [{} -> Nat]
    BY DEF NoRestrictions
  <2>3. Joined(NoRestrictions)
    BY <2>2, FS_EmptySet DEF Joined, AllRestrictions
  <2>4. \A k : At(NoRestrictions, k) = 0
    BY <2>2 DEF At
  <2>5. \A k : SumFunctionOnSet(Entry(F, k, M), {}) = 0
    BY SumOfNothing
  <2> QED
    BY <2>1, <2>2, <2>3, <2>4, <2>5
<1>6. ASSUME NEW s \in SUBSET M, s # {}, s \ {Chosen(s)} \in P
      PROVE  s \in P
  <2> DEFINE c == Chosen(s)
             t == s \ {c}
  <2>1. c \in s /\ c \in M
    BY <1>6, ChosenIsElement
  <2>2. Is(t)
    BY <1>6
  <2>3. g[s] = JoinSum(F[c], g[t])
    BY <1>3, <1>6 DEF JoinStep
  <2>4. Joined(F[c]) /\ Joined(g[t])
    BY <2>1, <2>2
  <2>5. /\ Joined(g[s]) /\ DOMAIN g[s] = DOMAIN F[c] \cup DOMAIN g[t]
        /\ \A k : At(g[s], k) = At(F[c], k) + At(g[t], k)
    <3> DEFINE a == F[c]
               b == g[t]
    <3>1. Joined(a) /\ Joined(b) /\ g[s] = JoinSum(a, b)
      BY <2>3, <2>4
    <3> HIDE DEF a, b
    <3>2. /\ Joined(JoinSum(a, b)) /\ DOMAIN JoinSum(a, b) = DOMAIN a \cup DOMAIN b
          /\ \A k : At(JoinSum(a, b), k) = At(a, k) + At(b, k)
      BY <3>1, JoinAddsUp
    <3>3. /\ Joined(g[s]) /\ DOMAIN g[s] = DOMAIN a \cup DOMAIN b
          /\ \A k : At(g[s], k) = At(a, k) + At(b, k)
      BY <3>1, <3>2
    <3> QED
      BY <3>3 DEF a, b
  <2>6. DOMAIN g[s] = UNION {DOMAIN F[m] : m \in s}
    BY <2>1, <2>2, <2>5
  <2>7. ASSUME NEW k PROVE At(g[s], k) = SumFunctionOnSet(Entry(F, k, M), s)
    <3>1. IsFiniteSet(s) /\ \A m \in s : Entry(F, k, M)[m] \in Int
      BY <1>4, FS_Subset
    <3>2. SumFunctionOnSet(Entry(F, k, M), s) = Entry(F, k, M)[c] + SumFunctionOnSet(Entry(F, k, M), t)
      BY <2>1, <3>1, SumWithout
    <3>3. Entry(F, k, M)[c] = At(F[c], k)
      BY <1>4, <2>1
    <3>4. SumFunctionOnSet(Entry(F, k, M), t) = At(g[t], k)
      BY <2>2
    <3> QED
      BY <2>5, <3>2, <3>3, <3>4
  <2> QED
    BY <2>5, <2>6, <2>7
<1>7. SUBSET M \subseteq P
  <2> HIDE DEF P
  <2> QED
    BY <1>5, <1>6, ChosenInduction
<1>8. M \in P
  BY <1>7
<1> QED
  BY <1>1, <1>4, <1>8

(* Of a class, the sizes on one side, and the classes that count for l.    *)
SizesOf(o, c, side) ==
  [q \in DOMAIN o.has[c] |-> IF side = "min" THEN o.has[c][q].min ELSE o.has[c][q].max]

Derived(o, D, l) == {q \in D : q = l \/ Below(o, q, l)}

(* getSupportVector of one class: the sum of what it has.                  *)
IsSummed(o, c, filter, side, v) ==
  LET D == DOMAIN o.has[c]
  IN  /\ DOMAIN v = IF filter = {} THEN D ELSE filter
      /\ \A l \in DOMAIN v : v[l] = SumFunctionOnSet(SizesOf(o, c, side), Derived(o, D, l))
      /\ \A q \in D : SizesOf(o, c, side)[q] \in Nat

(* Restrictions of one side of each class, as one number per class.        *)
Side(D, side) == [q \in D |-> <<q, side>>]

Keyed(D, side) == D \X {side}

KeysOfSide(o, D, side, l) == {j \in Keyed(D, side) : j[1] = l \/ Below(o, j[1], l)}

(* What is asked for of a class and of those derived from it.              *)
LEMMA AllOfSide ==
  ASSUME NEW o, NEW D, IsFiniteSet(D), NEW side, NEW r, NEW sizes, NEW l,
         \A q \in D : sizes[q] \in Nat /\ r[<<q, side>>] = sizes[q]
  PROVE  /\ SumFunctionOnSet(r, KeysOfSide(o, D, side, l)) = SumFunctionOnSet(sizes, Derived(o, D, l))
         /\ IsFiniteSet(KeysOfSide(o, D, side, l))
<1> DEFINE J == {j \in Keyed(D, side) : j[1] = l \/ Below(o, j[1], l)}
           S == Derived(o, D, l)
           h == Side(D, side)
<1>1. IsFiniteSet(S) /\ S \subseteq D
  BY FS_Subset DEF Derived
<1>2. \A q \in D : h[q] = <<q, side>> /\ h[q] \in Keyed(D, side) /\ h[q][1] = q
  BY DEF Side, Keyed
<1>3. \A q \in S : h[q] \in J
  BY <1>1, <1>2 DEF Derived
<1>4. \A j \in J : \E q \in S : h[q] = j
  <2> TAKE j \in J
  <2>1. j[1] \in D /\ j = <<j[1], side>>
    BY DEF Keyed
  <2>2. j[1] \in S /\ h[j[1]] = j
    BY <1>2, <2>1 DEF Derived
  <2> QED
    BY <2>2
<1>5. \A p, q \in S : h[p] = h[q] => p = q
  <2> TAKE p, q \in S
  <2>1. p \in D /\ q \in D
    BY <1>1
  <2> QED
    BY <1>2, <2>1
<1>6. \A q \in S : sizes[q] \in Int /\ r[h[q]] = sizes[q]
  BY <1>1, <1>2
<1> HIDE DEF J, S, h
<1>7. IsFiniteSet(J) /\ SumFunctionOnSet(sizes, S) = SumFunctionOnSet(r, J)
  BY <1>1, <1>3, <1>4, <1>5, <1>6, SumReindexed
<1> QED
  BY <1>7 DEF J, S, KeysOfSide

(* There are two sides.                                                    *)
LEMMA SidesAreFinite == IsFiniteSet({"min", "max"})
<1>1. IsFiniteSet({"min"} \cup {"max"})
  BY FS_Singleton, FS_Union
<1>2. {"min"} \cup {"max"} = {"min", "max"}
  OBVIOUS
<1> QED
  BY <1>1, <1>2

(* What a model of a pool is entered with, on both sides.                  *)
OwnIn(o, p, m) == OwnRestrictions(o, p, m, FALSE)

(* The restrictions of a model in a pool: its own, times its count.        *)
AreOwn(o, p, m, r) ==
  /\ DOMAIN r = (DOMAIN o.has[m]) \X {"min", "max"} /\ Joined(r)
  /\ \A q \in DOMAIN o.has[m] : /\ r[<<q, "min">>] = p[m] * o.has[m][q].min
                                /\ r[<<q, "max">>] = p[m] * o.has[m][q].max

(* A model without restrictions stands for itself.                         *)
LEMMA RestrictionsOfNone ==
  ASSUME NEW o, NEW p, NEW m \in Nat, DOMAIN o.has[m] = {}, p[m] \in Nat
  PROVE  LET r == OwnIn(o, p, m)
         IN  DOMAIN r = {m} \X {"min", "max"} /\ Joined(r)
<1> DEFINE r == OwnIn(o, p, m)
           K == {m} \X {"min", "max"}
           own == [c \in {m} |-> [min |-> p[m], max |-> p[m]]]
<1>1. Own(o, p, m) = own
  BY DEF Own
<1>2. DOMAIN own = {m} /\ own[m]["min"] = p[m] /\ own[m]["max"] = p[m]
  OBVIOUS
<1> HIDE DEF own
<1>3. r = [k \in K |-> p[m] * own[k[1]][k[2]]]
  BY <1>1, <1>2 DEF OwnRestrictions, OwnIn
<1>4. \A k \in K : p[m] * own[k[1]][k[2]] \in Nat
  <2> TAKE k \in K
  <2>1. k = <<m, "min">> \/ k = <<m, "max">>
    OBVIOUS
  <2>2. own[k[1]][k[2]] = p[m]
    BY <1>2, <2>1
  <2> QED
    BY <2>2
<1>5. r \in [K -> Nat] /\ DOMAIN r = K
  BY <1>3, <1>4
<1>6. IsFiniteSet(K) /\ K \in SUBSET (Nat \X {"min", "max"})
  <2>1. IsFiniteSet({m}) /\ IsFiniteSet({"min", "max"})
    BY FS_Singleton, SidesAreFinite
  <2>2. IsFiniteSet(K)
    BY <2>1, FS_Product
  <2> QED
    BY <2>2
<1> HIDE DEF r
<1>7. Joined(r)
  BY <1>5, <1>6 DEF Joined, AllRestrictions
<1> QED
  BY <1>5, <1>7 DEF r

(* The least of the restrictions of one model are its own.                 *)
LEMMA MinOfOne ==
  ASSUME NEW f, NEW F, DOMAIN F = {f}, NEW K, F[f] \in [K -> Nat]
  PROVE  FoldFunction(JoinMin, NoRestrictions, F) = F[f]
<1> DEFINE LeastStep(g, s) == IF s = {} THEN NoRestrictions ELSE JoinMin(F[Chosen(s)], g[s \ {Chosen(s)}])
           Folds(g) == g = [s \in SUBSET {f} |-> LeastStep(g, s)]
           own == F[f]
           h == [s \in SUBSET {f} |-> IF s = {} THEN NoRestrictions ELSE own]
           k == CHOOSE g : Folds(g)
<1>1. FoldFunction(JoinMin, NoRestrictions, F) = k[{f}]
  BY DEF FoldFunction, FoldFunctionOnSet, MapThenFoldSet, Chosen
<1>2. JoinMin(own, NoRestrictions) = own
  <2>1. DOMAIN NoRestrictions = {}
    BY DEF NoRestrictions
  <2>2. JoinMin(own, NoRestrictions) = [j \in DOMAIN own |-> own[j]]
    BY <2>1 DEF JoinMin, Combined
  <2> QED
    BY <2>2
<1>3. \A s \in SUBSET {f} : s = {} \/ (s = {f} /\ Chosen(s) = f /\ s \ {f} = {} /\ {f} # {})
  <2> TAKE s \in SUBSET {f}
  <2>1. CASE s # {}
    <3>1. Chosen(s) \in s
      BY <2>1, ChosenIsElement
    <3> QED
      BY <2>1, <3>1
  <2> QED
    BY <2>1
<1>4. h[{}] = NoRestrictions /\ \A s \in SUBSET {f} : s # {} => h[s] = own
  OBVIOUS
<1> HIDE DEF own
<1>5. \A s \in SUBSET {f} : LeastStep(h, s) = IF s = {} THEN NoRestrictions ELSE own
  <2> TAKE s \in SUBSET {f}
  <2>1. CASE s = {}
    BY <2>1
  <2>2. CASE s # {}
    <3>1. Chosen(s) = f /\ s \ {Chosen(s)} = {}
      BY <1>3, <2>2
    <3> HIDE DEF h
    <3>2. LeastStep(h, s) = JoinMin(own, NoRestrictions)
      BY <1>4, <2>2, <3>1 DEF own
    <3> QED
      BY <1>2, <2>2, <3>2
  <2> QED
    BY <2>1, <2>2
<1>6. Folds(h)
  <2> HIDE DEF LeastStep
  <2> QED
    BY <1>5
<1> HIDE DEF h
<1>7. Folds(k)
  <2> HIDE DEF Folds
  <2> QED
    BY <1>6
<1> HIDE DEF k
<1>8. k[{}] = NoRestrictions /\ k[{f}] = JoinMin(own, NoRestrictions)
  <2>1. k[{}] = LeastStep(k, {}) /\ k[{f}] = LeastStep(k, {f})
    <3> HIDE DEF LeastStep
    <3> QED
      BY <1>7
  <2>2. k[{}] = NoRestrictions
    BY <2>1
  <2>3. Chosen({f}) = f /\ {f} \ {f} = {} /\ {f} # {}
    BY <1>3
  <2>4. LeastStep(k, {f}) = JoinMin(own, k[{}])
    BY <2>3 DEF own
  <2> QED
    BY <2>1, <2>2, <2>4
<1> QED
  BY <1>1, <1>2, <1>8 DEF own

(* What a model brings along of a class that is needed, if it has resources*)
(* of its own; one that has none must not be asked for.                    *)
StandsAside(o, f, m) == DOMAIN o.has[m] = {} => \A c \in DOMAIN o.has[f] : m # c /\ ~Below(o, m, c)

Amount(o, f, p, m, l) == IF DOMAIN o.has[m] = {} THEN 0 ELSE p[m] * Given(o, f, m)[l]

Amounts(o, f, p, l) == [m \in DOMAIN p |-> Amount(o, f, p, m, l)]

(* The keys on the upper side that count for a class.                      *)
KeysFor(o, K, l) == {j \in K : j[2] = "max" /\ (j[1] = l \/ Below(o, j[1], l))}

AreEntries(e, r, J) == \A j \in J : e[j] = At(r, j)

(* Of more of each class more is embedded.                                 *)
LEMMA EmbeddingIsMonotonic ==
  ASSUME NEW o, NEW v, IsVector(v), NEW w, IsVector(w), DOMAIN w = DOMAIN v, \A l \in DOMAIN v : v[l] <= w[l]
  PROVE  \A l \in DOMAIN v : Embedded(o, v)[l] <= Embedded(o, w)[l]
<1> DEFINE D == DOMAIN v
           M == {1, 2}
           rest == [l \in D |-> w[l] - v[l]]
           k == [m \in M |-> 1]
           parts == [m \in M |-> IF m = 1 THEN v ELSE rest]
<1>1. \A l \in D : v[l] \in Nat /\ w[l] \in Nat /\ rest[l] \in Nat /\ w[l] = v[l] + rest[l]
  <2> TAKE l \in D
  <2>1. v[l] \in Nat /\ w[l] \in Nat /\ v[l] <= w[l]
    BY DEF IsVector
  <2> QED
    BY <2>1
<1>2. IsVector(rest) /\ DOMAIN rest = D
  <2>1. rest \in [D -> Nat] /\ DOMAIN rest = D
    BY <1>1
  <2> HIDE DEF rest
  <2> QED
    BY <2>1 DEF IsVector
<1>3. parts[1] = v /\ parts[2] = rest /\ k[1] = 1 /\ k[2] = 1 /\ k \in [M -> Nat]
  OBVIOUS
<1>4. IsFiniteSet(M)
  <2>1. IsFiniteSet({1} \cup {2}) /\ {1} \cup {2} = M
    BY FS_Singleton, FS_Union
  <2> QED
    BY <2>1
<1> HIDE DEF rest, k, parts
<1>5. ASSUME NEW g, g[1] \in Int, g[2] \in Int
      PROVE  SumFunctionOnSet(g, M) = g[1] + g[2]
  <2>1. SumFunctionOnSet(g, {2}) = g[2] /\ IsFiniteSet({2}) /\ 1 \notin {2}
    <3>1. SumFunctionOnSet(g, {2}) = g[2]
      BY <1>5, SumOfOne
    <3> QED
      BY <3>1, FS_Singleton
  <2>2. SumFunctionOnSet(g, {2} \cup {1}) = g[1] + SumFunctionOnSet(g, {2})
    BY <1>5, <2>1, SumWith
  <2>3. {2} \cup {1} = M
    OBVIOUS
  <2> QED
    BY <2>1, <2>2, <2>3
<1>6. AreVectors(M, parts, D)
  BY <1>2, <1>3 DEF AreVectors
<1>7. IsMixture(M, k, parts, w, D)
  <2> SUFFICES ASSUME NEW l \in D PROVE w[l] = SumFunctionOnSet(Mixed(M, k, parts, l), M)
    BY DEF IsMixture
  <2> DEFINE g == Mixed(M, k, parts, l)
  <2>1. g[1] = 1 * v[l] /\ g[2] = 1 * rest[l]
    BY <1>3 DEF Mixed
  <2> HIDE DEF g
  <2>2. g[1] = v[l] /\ g[2] = rest[l] /\ g[1] \in Int /\ g[2] \in Int
    BY <1>1, <2>1
  <2>3. SumFunctionOnSet(g, M) = g[1] + g[2]
    BY <1>5, <2>2
  <2> QED
    BY <1>1, <2>2, <2>3 DEF g
<1> DEFINE a == Embedded(o, v)
           b == Embedded(o, rest)
           c == Embedded(o, w)
<1>8. IsMixture(M, k, EmbeddedEach(o, M, parts), c, D)
  <2> HIDE DEF M
  <2> QED
    BY <1>3, <1>4, <1>6, <1>7, EmbeddingIsLinear
<1>9. \A l \in D : a[l] \in Nat /\ b[l] \in Nat
  <2>1. IsVector(a) /\ DOMAIN a = D /\ IsVector(b) /\ DOMAIN b = D
    BY <1>2, EmbeddedIsVector
  <2> HIDE DEF a, b
  <2> QED
    BY <2>1 DEF IsVector
<1> SUFFICES ASSUME NEW l \in D PROVE a[l] <= c[l]
  OBVIOUS
<1> DEFINE g == Mixed(M, k, EmbeddedEach(o, M, parts), l)
<1>10. g[1] = 1 * a[l] /\ g[2] = 1 * b[l]
  <2>1. EmbeddedEach(o, M, parts)[1] = a /\ EmbeddedEach(o, M, parts)[2] = b
    BY <1>3 DEF EmbeddedEach
  <2> HIDE DEF a, b
  <2> QED
    BY <1>3, <2>1 DEF Mixed
<1> HIDE DEF a, b, g
<1>11. g[1] = a[l] /\ g[2] = b[l] /\ g[1] \in Int /\ g[2] \in Int
  BY <1>9, <1>10
<1>12. SumFunctionOnSet(g, M) = g[1] + g[2]
  BY <1>5, <1>11
<1>13. c[l] = SumFunctionOnSet(g, M)
  BY <1>8 DEF IsMixture, g
<1> QED
  BY <1>9, <1>11, <1>12, <1>13

(* Nothing is embedded among classes none of which is derived from another.*)
LEMMA NothingToEmbed ==
  ASSUME NEW o, NEW v, IsVector(v), \A b, c \in DOMAIN v : ~Below(o, b, c)
  PROVE  Embedded(o, v) = v
<1> DEFINE D == DOMAIN v
           S == PairsOf(D)
           h == EmbeddingOf(o, v)
           P == {s \in SUBSET S : h[s] = v}
<1>1. IsFiniteSet(D) /\ D \subseteq Nat
  BY DEF IsVector
<1>2. \A s \in SUBSET S : h[s] = EmbedStep(o, v, h, s)
  BY EmbeddingIsTraced DEF IsEmbeddedBySteps
<1>3. Embedded(o, v) = h[S]
  BY EmbeddingIsTraced
<1>4. \A s \in SUBSET S : s # {} => LastPair(s) \in s
  BY <1>1, LastPairIsOne
<1>5. S \subseteq D \X D
  BY DEF PairsOf
<1> HIDE DEF S, h
<1>6. {} \in P
  BY <1>2 DEF EmbedStep
<1>7. ASSUME NEW s \in SUBSET S, s # {}, s \ {LastPair(s)} \in P
      PROVE  s \in P
  <2>1. LastPair(s) \in D \X D
    BY <1>4, <1>5, <1>7
  <2>2. h[s] = Embed(o, v, LastPair(s))
    BY <1>2, <1>7 DEF EmbedStep
  <2>3. ~Below(o, LastPair(s)[1], LastPair(s)[2]) /\ ~Below(o, LastPair(s)[2], LastPair(s)[1])
    BY <2>1
  <2>4. Embed(o, v, LastPair(s)) = v
    BY <2>3 DEF Embed
  <2> QED
    BY <2>2, <2>4
<1>8. S \in P
  <2> HIDE DEF P
  <2> QED
    BY <1>1, <1>6, <1>7, PairInduction DEF S
<1> QED
  BY <1>3, <1>8

-----------------------------------------------------------------------------
(* The properties of teams: what their members have, added up, by rule or  *)
(* not.                                                                    *)

(* The rules of the repository have one or two operations.                 *)
SumsOfOne(first) == {0 + w : w \in first}

SumsOfTwo(first, second) == {v + w : v \in SumsOfOne(first), w \in second}

(* A sum over the atomic agents of a team, of what the model of each has,  *)
(* is a weighted sum.                                                      *)
OfModel(w, A) == [a \in A |-> w[a[1]]]

(* Shares of a whole: that of each model, as often as it is there.         *)
AreShares(d, pool) ==
  /\ DOMAIN d.share = DOMAIN pool /\ \A m \in DOMAIN pool : d.share[m] \in Nat
  /\ d.whole = WeightedSum(pool, d.share) /\ d.whole \in Nat

(* A pool of one agent is of one model.                                    *)
LEMMA OneAgent ==
  ASSUME NEW pool, IsPool(pool), IsFiniteSet(DOMAIN pool), NumberOfInstances(pool) = 1
  PROVE  \E m \in DOMAIN pool : pool[m] = 1 /\ \A n \in DOMAIN pool : n # m => pool[n] = 0
<1> DEFINE D == DOMAIN pool
<1>1. \A m \in D : pool[m] \in Nat
  BY DEF IsPool
<1>2. SumFunctionOnSet(pool, D) = 1
  BY DEF NumberOfInstances, FoldFunction, SumFunctionOnSet
<1>3. PICK m \in D : pool[m] # 0
  <2> SUFFICES ASSUME \A m \in D : pool[m] = 0 PROVE FALSE
    OBVIOUS
  <2>1. SumFunctionOnSet(pool, D) = 0 * Cardinality(D)
    BY SumOfConstant
  <2>2. Cardinality(D) \in Nat
    BY FS_CardinalityType
  <2> QED
    BY <1>2, <2>1, <2>2
<1> DEFINE rest == D \ {m}
<1>4. SumFunctionOnSet(pool, D) = pool[m] + SumFunctionOnSet(pool, rest)
  BY <1>1, SumWithout
<1>5. IsFiniteSet(rest) /\ \A k \in rest : pool[k] \in Nat
  BY <1>1, FS_Subset
<1>6. SumFunctionOnSet(pool, rest) \in Nat
  BY <1>5, SumIsNat
<1>7. pool[m] \in Nat
  BY <1>1
<1>8. pool[m] = 1 /\ SumFunctionOnSet(pool, rest) = 0
  BY <1>2, <1>3, <1>4, <1>6, <1>7
<1>9. ASSUME NEW n \in rest PROVE pool[n] = 0
  <2>1. SumFunctionOnSet(pool, rest) = pool[n] + SumFunctionOnSet(pool, rest \ {n})
    BY <1>5, SumWithout
  <2>2. IsFiniteSet(rest \ {n}) /\ \A k \in rest \ {n} : pool[k] \in Nat
    BY <1>5, FS_Subset
  <2>3. SumFunctionOnSet(pool, rest \ {n}) \in Nat
    BY <2>2, SumIsNat
  <2>4. pool[n] \in Nat
    BY <1>5
  <2> QED
    BY <1>8, <2>1, <2>3, <2>4
<1> QED
  BY <1>8, <1>9

(* What the atomic agents of a team contribute of something, by their      *)
(* shares, is all of it.                                                   *)
Contribution(c, d, A, k) == [a \in A |-> c * d.share[a[1]] * k]
==============================================================================
