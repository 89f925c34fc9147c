------------------------------- MODULE AskQueries ------------------------------
(***************************************************************************)
(* The queries of OrganizationModelAsk (src/src/OrganizationModelAsk.cpp): *)
(* which pools support which functionality.                                *)
(*                                                                         *)
(* An ontology o has, besides what ResourceSupport looks at,               *)
(*   o.actor            the class of all agent models,                     *)
(*   o.agent            the class of agents and o.functionality, that of   *)
(*                      functionalities,                                   *)
(*   o.functionalities  the classes below the latter,                      *)
(*   o.feasible         the pools whose agents can be connected (see       *)
(*                      Connectivity), compact,                            *)
(*   o.value            for every property the value of each model.        *)
(* An ask object is the record of its pool (mModelPool) and its mapping.   *)
(* Its mapping may come from a file: MappingFile; its answers from caches: *)
(* AskCaches.                                                              *)
(***************************************************************************)
EXTENDS Resources, Sequences

CONSTANT
  InfiniteAsUnsigned  \* what the conversion of infinity to an unsigned integer
                      \* yields: undefined, 0 where it is truncated

ASSUME ConversionAssumption == InfiniteAsUnsigned \in Nat

LOCAL INSTANCE TLC
Ascending(S) == CHOOSE s \in [1 .. Cardinality(S) -> S] : \A i, j \in DOMAIN s : s[i] < s[j] <=> i < j
Mapping == INSTANCE FunctionalityMapping WITH Garbage <- 0, Sorted <- Ascending

(* allowSubclasses                                                         *)
AllowSubclasses(o, pool, parent) ==
  [m \in {n \in DOMAIN pool : Below(o, n, parent)} |-> pool[m]]

(* isFeasible, for a check that ends in time.                              *)
IsFeasible(o, pool) == Compact(pool) \in o.feasible

(* getPropertyValue for properties that add up: Robot                      *)
PropertyValues(o, pool) ==
  [p \in DOMAIN o.value |-> WeightedSum(pool, o.value[p])]

-----------------------------------------------------------------------------
(* A scaling factor is a double where a number of agents is needed.        *)
AsUnsigned(factor) == IF factor = Infinite THEN InfiniteAsUnsigned ELSE factor

(* getFunctionalSaturationBound of a resource and of a set of them         *)

ScaledBound(o, m, bound, constraints) ==
  IF constraints = {} THEN bound
  ELSE AsUnsigned(ScalingFactor(PropertyValues(o, PoolOf(m, bound)), constraints))

SaturationBound(o, agents, resource) ==
  [m \in DOMAIN agents |->
     ScaledBound(o, m, Saturation(o, resource.model, m), resource.constraints)]

SaturationBoundOfSet(o, agents, resources) ==
  [m \in IF resources = {} THEN {} ELSE DOMAIN agents |->
     Greatest({SaturationBound(o, agents, r)[m] : r \in resources})]

-----------------------------------------------------------------------------
(* isMinimal: a pool that supports the functionalities and has no agent to *)
(* spare - but several models are one too many when one of them suffices.  *)
FullSupport(o, functionalities, pool) == SupportType(o, functionalities, pool) = "full"

\* Mutant: does not try to do without an agent.
IsMinimalUnreduced(o, functionalities, pool) ==
  /\ FullSupport(o, functionalities, pool)
  /\ (\E m \in DOMAIN pool : FullSupport(o, functionalities, PoolOf(m, pool[m]))) =>
        Cardinality(DOMAIN pool) = 1

NothingToSpare(o, functionalities, pool, alone) ==
  LET partial == {m \in DOMAIN pool : alone[m] = "partial"}
      without(m) == [n \in partial |-> IF n = m THEN pool[n] - 1 ELSE pool[n]]
  IN  IF \E m \in DOMAIN pool : alone[m] = "full"
      THEN Cardinality(DOMAIN pool) = 1
      ELSE \A m \in partial : ~FullSupport(o, functionalities, without(m))

IsMinimal(o, functionalities, pool) ==
  /\ FullSupport(o, functionalities, pool)
  /\ NothingToSpare(o, functionalities, pool,
                    [m \in DOMAIN pool |-> SupportType(o, functionalities, PoolOf(m, pool[m]))])

-----------------------------------------------------------------------------
(* Computing the mapping                                                   *)

(* addFunctionalityMapping                                                 *)
IsMapped(o, functionality, pool, minimalOnly) ==
  /\ minimalOnly => IsMinimal(o, {functionality}, pool)
  /\ IsFeasible(o, pool)

(* Without the saturation bound: every combination with full support.      *)
UnboundedPools(o, agents, functionality) ==
  {p \in AllCombinations(agents, 0) :
     FullSupport(o, {functionality}, p) /\ IsMapped(o, functionality, p, FALSE)}

(* exploreNeighbourhood: pools that cannot be connected are tried with some*)
(* more of the agents that are left.                                       *)
\* Mutant: adds from all the agents, also those in the pool already.
GreedyNeighbours(o, agents, bounded, base, size) ==
  IF size > 0 /\ ~IsFeasible(o, base)
  THEN {Sum(base, p) : p \in AllCombinations(agents, size)}
  ELSE {base}

Neighbours(o, agents, bounded, base, size) ==
  LET spare == [m \in DOMAIN agents |-> agents[m] - Count(bounded, m)]
  IN  IF size > 0 /\ ~IsFeasible(o, base) /\ ~IsNull(spare)
      THEN {Sum(base, p) : p \in AllCombinations(spare, size)}
      ELSE {base}

(* With the saturation bound: of all functionalities, then of each.        *)
CutBySaturation(o, agents, functionality) ==
  LET Plain(f) == [model |-> f, constraints |-> {}]
      global == Cut(agents, SaturationBoundOfSet(o, agents, {Plain(f) : f \in o.functionalities}))
  IN  Cut(global, SaturationBound(o, agents, Plain(functionality)))

Explored(o, agents, bounded, size) ==
  UNION {Neighbours(o, agents, bounded, base, size) : base \in AllCombinations(bounded, 0)}

PoolsWithin(o, agents, bounded, functionality, size) ==
  {p \in Explored(o, agents, bounded, size) : IsMapped(o, functionality, p, TRUE)}

BoundedPools(o, agents, functionality, size) ==
  PoolsWithin(o, agents, CutBySaturation(o, agents, functionality), functionality, size)

(* prepare, computeFunctionalityMapping: whatever is no agent is left out. *)
PreparedFor(o, agents, bounded, size) ==
  [pool |-> agents,
   pools |-> IF agents = EmptyPool THEN EmptyPool
             ELSE [f \in o.functionalities |->
                     IF bounded THEN BoundedPools(o, agents, f, size)
                     ELSE UnboundedPools(o, agents, f)]]

AskedAgents(o, pool) == Compact(AllowSubclasses(o, pool, o.actor))

Prepared(o, pool, bounded, size) == PreparedFor(o, AskedAgents(o, pool), bounded, size)

(* prepare() ends with the exception of a pool whose resources cannot be   *)
(* added up, if it comes to one.                                           *)
IsPreparable(o, pool, bounded, size) ==
  LET agents == AskedAgents(o, pool)
  IN  agents # EmptyPool =>
        \A f \in o.functionalities :
          \A p \in IF bounded THEN Explored(o, agents, CutBySaturation(o, agents, f), size)
                   ELSE AllCombinations(agents, 0) :
            SupportType(o, {f}, p) # "thrown"

-----------------------------------------------------------------------------
(* Queries to an ask object                                                *)

(* getSupportedFunctionalities, of a pool and at all                       *)
SupportedFunctionalities(ask, pool) == Mapping!FunctionalitiesOf(ask, pool)
KnownSupport(ask) == [f \in {g \in DOMAIN ask.pools : ask.pools[g] # {}} |-> 1]

(* getResourceSupport of a resource: the pools that support it, as many of *)
(* each as its constraints ask for, as far as there are agents.  Of a pool *)
(* that has nothing of what is asked for there are infinitely many.        *)
\* Mutant: does not scale.
UnscaledSupport(o, ask, resource) ==
  IF resource.model \notin DOMAIN ask.pools THEN {}
  ELSE IF resource.constraints = {} THEN ask.pools[resource.model]
  ELSE {p \in ask.pools[resource.model] :
          ScalingFactor(PropertyValues(o, p), resource.constraints) # 0}

ResourceSupportOf(o, ask, resource) ==
  IF resource.model \notin DOMAIN ask.pools THEN {}
  ELSE IF resource.constraints = {} THEN ask.pools[resource.model]
  ELSE LET factor == [p \in ask.pools[resource.model] |->
                        ScalingFactor(PropertyValues(o, p), resource.constraints)]
           scaled == {Multiply(p, AsUnsigned(factor[p])) : p \in {q \in DOMAIN factor : factor[q] # 0}}
       IN  IF ask.pool = EmptyPool THEN scaled ELSE ApplyUpperBound(scaled, ask.pool)

(* getResourceSupport of several: an unknown functionality ends the query, *)
(* but one that is constrained, or known and not supported, contributes the*)
(* empty set, which maxCompositions takes for no requirement.              *)
ResourceSupport(o, ask, resources) ==
  IF \E r \in resources : r.model \notin DOMAIN ask.pools /\ r.constraints = {} THEN {}
  ELSE FoldFunction(MaxCompositions, {}, [r \in resources |-> ResourceSupportOf(o, ask, r)])

BoundedResourceSupport(o, ask, resources) ==
  LET models == {r.model : r \in resources}
  IN  ApplyUpperBound({p \in ResourceSupport(o, ask, resources) : IsMinimal(o, models, p)},
                      SaturationBoundOfSet(o, ask.pool, resources))

(* getIntersection: starts from the pools of the first functionality and   *)
(* inserts those it has in common with each of the others.                 *)
Intersection(ask, resources) ==
  LET models == Ascending({r.model : r \in resources})
      upTo[i \in 0 .. Len(models)] ==
        CASE i = 0 -> {}
          [] i = 1 -> ask.pools[models[1]]
          [] OTHER -> upTo[i - 1] \cup (ask.pools[models[i]] \cap upTo[i - 1])
  IN  upTo[Len(models)]

(* isSupporting; it throws for a functionality that is not in the mapping. *)
IsSupporting(o, ask, pool, resources) ==
  /\ \E part \in Intersection(ask, resources) : IsSubset(part, pool)
  /\ IsFeasible(o, pool)

-----------------------------------------------------------------------------
(* Cardinalities of an object property, for functions from the class and   *)
(* the side of a restriction to its number.                                *)

(* The ontology library's join of two sets of restrictions, which are taken*)
(* for different when their sides are.                                     *)
JoinSum(a, b) == Combined(LAMBDA i, j : i + j, a, b)
JoinMin(a, b) == Combined(Smaller, a, b)

(* getCardinalityRestrictions: of each model its restrictions, times its   *)
(* count; a model without restrictions stands for itself, its count is     *)
(* entered as a restriction and multiplied with itself.                    *)
Own(o, pool, m) ==
  IF DOMAIN o.has[m] = {} THEN [c \in {m} |-> [min |-> pool[m], max |-> pool[m]]] ELSE o.has[m]

(* On request a maximum is entered as a minimum, "raised", beside the      *)
(* minimum there is.                                                       *)
OwnRestrictions(o, pool, m, max2Min) ==
  IF max2Min
  THEN [k \in (DOMAIN Own(o, pool, m)) \X {"min", "raised"} |->
          pool[m] * Own(o, pool, m)[k[1]][IF k[2] = "raised" THEN "max" ELSE "min"]]
  ELSE [k \in (DOMAIN Own(o, pool, m)) \X {"min", "max"} |-> pool[m] * Own(o, pool, m)[k[1]][k[2]]]

Restrictions(o, pool, operation, max2Min) ==
  LET each == [m \in DOMAIN pool |-> OwnRestrictions(o, pool, m, max2Min)]
  IN  IF operation = "sum" THEN FoldFunction(JoinSum, [k \in {} |-> 0], each)
      ELSE FoldFunction(JoinMin, [k \in {} |-> 0], each)

Except(restrictions, side) ==
  [k \in {j \in DOMAIN restrictions : j[2] # side} |-> restrictions[k]]

AvailableCardinalities(o, pool) ==
  Except(Restrictions(o, AllowSubclasses(o, pool, o.actor), "sum", FALSE), "min")

RequiredCardinalities(o, pool) ==
  Except(JoinMin(Restrictions(o, AllowSubclasses(o, pool, o.functionality), "min", FALSE),
                 Restrictions(o, AllowSubclasses(o, pool, o.agent), "sum", TRUE)), "max")
=============================================================================
