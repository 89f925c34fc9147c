------------------------------- MODULE Reasoning -------------------------------
(***************************************************************************)
(* The library's queries over ontologies, pools, constraints and teams of  *)
(* agents.  A state is one input, with what has been computed from it; the *)
(* invariants say what the answers have to agree on.                       *)
(***************************************************************************)
EXTENDS Heuristics, PoolIteration, TLC

CONSTANTS
  Ontologies,        \* ontologies that are queried,
  Pools,             \* with the pools all combinations of which are known,
  AskedPools,        \* the pools they are prepared for,
  Requests,          \* and sets of resources that are asked for
  TeamOntologies,    \* ontologies of robots, with the pools
  CrewPools,         \* they are prepared for
  Chains,            \* policies
  Conditions,        \* constraints of a set, and those a set of two
  FurtherConditions, \* may get in addition
  Robots,            \* values of a robot's properties
  Observed,          \* values that are compared with bounds
  SparsePools,       \* pools with entries for some models only
  DividedAgents      \* atomic agents that are divided among agents

VARIABLE case

AllPools == {Compact(p) : p \in Pools}

Constraint(type, property, value) ==
  [type |-> type, property |-> property, reference |-> NoReference, value |-> value]

(* A class has finitely many restrictions, with natural bounds.            *)
IsRestricted(o, c) ==
  /\ IsFiniteSet(DOMAIN o.has[c])
  /\ \A q \in DOMAIN o.has[c] : q \in Nat /\ o.has[c][q].min \in Nat /\ o.has[c][q].max \in Nat

(* A functionality needs something, and no agent is one of its resources:  *)
(* what is needed and what agents have can be compared and added.          *)
Actors(o) == {m \in Model : Below(o, m, o.actor)}
IsRegular(o) ==
  \A f \in o.functionalities :
     /\ ~NullVector(SupportVector(o, {f}, {}, "min"))
     /\ Actors(o) \cap (DOMAIN o.has[f] \cup {f}) = {}

(* The solver takes values, from 0 on, and no references, of properties    *)
(* numbered from 1.                                                        *)
IsConstraint(c) ==
  /\ c = Constraint(c.type, c.property, c.value)
  /\ c.type \in {EQUAL, LESS_THAN, LESS_EQUAL, GREATER_EQUAL, GREATER_THAN}
  /\ c.property \in Nat \ {0} /\ c.value \in 0 .. Unbounded - 1

(* Beside the constants of RobotFacade: the energy capacity, with the rules *)
(* of the repository's ontology.                                           *)
EnergyStored == 9
SumOf(policy, inverse, property, sign) ==
  [policy |-> policy, inverse |-> inverse, property |-> property, sign |-> sign]
EnergyProvider ==
  [atomic |-> <<Source, Voltage>>, composite |-> <<SumOf("all", FALSE, EnergyStored, 1)>>]

(* Robots have natural values.  A property has values or a rule, and none   *)
(* that leads back to it: properties are numbered.                         *)
Members == UNION {DOMAIN p : p \in Pools}
HasValues(o) ==
  /\ IsFiniteSet(DOMAIN o.ancestors) /\ DOMAIN o.ancestors \subseteq Nat
  /\ \A q \in DOMAIN o.value :
        Members \subseteq DOMAIN o.value[q] /\ \A m \in Members : o.value[q][m] \in Nat
  /\ \A p \in DOMAIN o.ancestors :
        /\ RuleSource(o, o.atomicRule, p) = {} => p \in DOMAIN o.value
        /\ \A q \in RuleSource(o, o.atomicRule, p) :
              /\ IsFiniteSet(DOMAIN o.atomicRule[q])
              /\ \A i \in DOMAIN o.atomicRule[q] :
                    o.atomicRule[q][i] \in DOMAIN o.ancestors /\ o.atomicRule[q][i] < p

(* The rules for energy are those the policy of the energy provider has.   *)
HasEnergyRules(o) ==
  /\ EnergyStored \in DOMAIN o.ancestors
  /\ RuleSource(o, o.atomicRule, EnergyStored) = {EnergyStored}
  /\ o.atomicRule[EnergyStored] = EnergyProvider.atomic
  /\ o.element["all"] = <<{[kind |-> "all"]}>>

(* What transports a robot is the atomic agent with the largest capacity   *)
(* of those that provide transport; it carries all others.                 *)
TransportProvider(functionality) ==
  <<[kind |-> "functionality", functionality |-> functionality],
    [kind |-> "size", comparison |-> EQUAL, size |-> 1],
    [kind |-> "property", property |-> Capacity, operation |-> "max"]>>
TransportRule(property) ==
  <<SumOf("carrier", FALSE, property, 1), SumOf("carrier", TRUE, Demand, -1)>>
HasTransportRules(o) ==
  /\ {Capacity, Demand} \subseteq DOMAIN o.ancestors /\ Self \notin DOMAIN o.ancestors
  /\ \A p \in {Capacity, Demand} : RuleSource(o, o.atomicRule, p) = {}
  /\ RuleSource(o, o.compositeRule, Capacity) = {Capacity}
  /\ o.compositeRule[Capacity] \in {TransportRule(Self), TransportRule(Capacity)}
  /\ PolicyOf(o, "carrier") = TransportProvider(o.transportProvider)

(* What robots carry is counted from 0 on, and manipulators are finitely   *)
(* many; half a word is enough for what a known team can carry and for its *)
(* atomic agents.                                                          *)
HasLoads(o) ==
  /\ \A m \in Members : LoadAreaSize(o, m) \in Nat /\ IsFiniteSet(o.heights[m]) /\ o.heights[m] \subseteq Int
  /\ \A p \in Pools : Total(o, p, Capacity) < WordSize \div 2 /\ NumberOfInstances(p) <= WordSize \div 2

(* The steps of a policy, or the elements it has for each index.           *)
IsChain(steps) == steps \in Seq(Range(steps))

(* What robots have of a property, and what any pool of them has together, *)
(* is within the solver's limits.  Pools are maps with finitely many       *)
(* entries; all parts of a pool that is prepared for are among those known,*)
(* and agents are finite sets.  Of an ontology, the models and the         *)
(* functionalities it has are known, and of its models the properties that *)
(* are asked for.                                                          *)
(* Functionalities are the classes below that of functionalities, and no   *)
(* agents.                                                                 *)
InputAssumption ==
  /\ \A c \in Conditions \cup FurtherConditions :
        IsConstraint(c) /\ \A r \in Robots : r[c.property] \in 0 .. Unbounded
  /\ Observed \subseteq 0 .. Unbounded
  /\ \A p \in SparsePools \cup Pools \cup AskedPools \cup CrewPools :
        IsPool(p) /\ IsFiniteSet(DOMAIN p)
  /\ \A p \in AskedPools \cup CrewPools : AllCombinations(p, 0) \subseteq AllPools
  /\ \A o \in Ontologies \cup TeamOntologies :
        /\ IsFiniteSet(o.functionalities) /\ o.functionalities \subseteq Nat
        /\ \A c \in o.functionalities \cup Model : IsRestricted(o, c)
        /\ \A f \in o.functionalities : Below(o, f, o.functionality) /\ ~Below(o, f, o.agent)
  /\ \A o \in TeamOntologies : HasValues(o) /\ HasEnergyRules(o) /\ HasTransportRules(o) /\ HasLoads(o)
  /\ \A o \in Ontologies : \A q \in DOMAIN o.value :
        /\ \A m \in Actors(o) : o.value[q][m] \in Nat
        /\ \A p \in AllPools : DOMAIN p \subseteq Actors(o) => WeightedSum(p, o.value[q]) <= Unbounded
  /\ \A R \in Requests : IsFiniteSet(R) /\ \A r \in R :
        /\ IsFiniteSet(r.constraints)
        /\ \A c \in r.constraints : IsConstraint(c) /\ \A o \in Ontologies : c.property \in DOMAIN o.value
  /\ IsFiniteSet(DividedAgents)
  /\ \A chain \in Chains \cup {o.element["carrier"] : o \in TeamOntologies} : IsChain(chain)
ASSUME InputsAreReal == InputAssumption

Partitions(S) ==
  {P \in SUBSET ((SUBSET S) \ {{}}) : UNION P = S /\ \A a, b \in P : a = b \/ a \cap b = {}}

-----------------------------------------------------------------------------
Init == case = [kind |-> "none"]

LoadOntology ==
  /\ case.kind = "none"
  /\ \E o \in Ontologies : case' = [kind |-> "ontology", o |-> o]

Gather ==
  /\ case.kind = "none"
  /\ \E o \in TeamOntologies : case' = [kind |-> "crew", o |-> o]

(* prepare(): there is no object to ask if it throws.                      *)
Settings ==
  IF case.kind = "crew" THEN CrewPools \X BOOLEAN \X {0}
  ELSE {s \in AskedPools \X BOOLEAN \X (0 .. 2) : s[3] > 0 => s[2]}

Prepare ==
  /\ case.kind \in {"ontology", "crew"}
  /\ \E s \in Settings :
        /\ IsPreparable(case.o, s[1], s[2], s[3])
        /\ case' = [kind |-> IF case.kind = "crew" THEN "company" ELSE "ask", o |-> case.o,
                     bounded |-> s[2], size |-> s[3], ask |-> Prepared(case.o, s[1], s[2], s[3])]

Request ==
  /\ case.kind = "ask" /\ case.size = 0
  /\ \E R \in Requests : case' = [kind |-> "request", o |-> case.o, ask |-> case.ask, resources |-> R]

Constrain ==
  /\ case.kind = "none"
  /\ \E c, d \in Conditions, values \in Robots :
        case' = [kind |-> "constraints", values |-> values, set |-> {c, d}]

ConstrainMore ==
  /\ case.kind = "constraints" /\ Cardinality(case.set) = 2
  /\ \E e \in FurtherConditions : case' = [case EXCEPT !.set = @ \cup {e}]

Form ==
  /\ case.kind = "company"
  /\ \E pool \in {p \in Pools : NumberOfInstances(p) > 0} :
        case' = [kind |-> "team", o |-> case.o, ask |-> case.ask, pool |-> pool]

(* Three pools, with entries for some models only.                         *)
Choose ==
  /\ case.kind = "none"
  /\ \E a, b \in SparsePools : case' = [kind |-> "pair", start |-> a, end |-> b]

Walk ==
  /\ case.kind = "pair"
  /\ \E c \in SparsePools :
        case' = [kind |-> "range", start |-> case.start, end |-> case.end, step |-> c]

Divide ==
  /\ case.kind = "none"
  /\ \E from \in Partitions(DividedAgents) : case' = [kind |-> "division", from |-> from]

Reconfigure ==
  /\ case.kind = "division"
  /\ \E to \in Partitions(DividedAgents) :
        case' = [kind |-> "reconfiguration", from |-> case.from, to |-> to]

Next ==
  \/ LoadOntology \/ Prepare \/ Request \/ Constrain \/ ConstrainMore
  \/ Gather \/ Form \/ Choose \/ Walk \/ Divide \/ Reconfigure
Spec == Init /\ [][Next]_case

-----------------------------------------------------------------------------
(* A pool in the mapping of a functionality supports it, can be connected  *)
(* and is there, also when agents have been added to it.                   *)
MappedPoolsSupport ==
  case.kind = "ask" =>
    \A f \in DOMAIN case.ask.pools : \A p \in case.ask.pools[f] :
       FullSupport(case.o, {f}, p) /\ IsFeasible(case.o, p) /\ IsSubset(p, case.ask.pool)

(* Where every pool can be connected, the mapping answers for all pools,   *)
(* bounded by the functional saturation or not; and a functionality is said*)
(* to be supported at all if some pool supports it.  The bound of one that *)
(* needs nothing is 0, and with agents that cannot be added a pool supports*)
(* less than a part of it does.                                            *)
SupportIsFound ==
  case.kind = "ask" /\ case.o.feasible = AllPools /\ IsRegular(case.o) =>
    LET supporting == [p \in AllCombinations(case.ask.pool, 0) |-> SupportedFunctionalities(case.ask, p)]
    IN  /\ \A p \in DOMAIN supporting :
              supporting[p] = {f \in case.o.functionalities : FullSupport(case.o, {f}, p)}
        /\ DOMAIN KnownSupport(case.ask) = UNION {supporting[p] : p \in DOMAIN supporting}

(* With the saturation bound no mapped pool has an agent to spare: none is *)
(* part of another, which a bound that is too high would let in.           *)
BoundedPoolsAreMinimal ==
  case.kind = "ask" /\ case.bounded /\ case.size = 0 =>
    \A f \in DOMAIN case.ask.pools :
       \A p, q \in case.ask.pools[f] : IsSubset(p, q) => p = q

(* Pools for the sum of a property, the values LESS constraints allow aside*)
Enough(o, pool, constraints) ==
  LET values == PropertyValues(o, pool)
  IN  \A c \in constraints : c.type = GREATER_EQUAL => values[c.property] >= c.value

(* Whether a pool that is known to support a functionality has nothing of  *)
(* what is asked for: no factor scales it, and the one that is computed is *)
(* converted to a number all the same.                                     *)
IsBeyondScaling(o, ask, resource) ==
  resource.constraints # {} /\
    \E p \in ask.pools[resource.model] :
      ScalingFactor(PropertyValues(o, p), resource.constraints) = Infinite

(* getResourceSupport: a pool that is granted for several resources can be *)
(* taken from the agents that are there, supports the functionality of each*)
(* and has what its constraints ask for at least - unless a resource has no*)
(* support, and is taken for no requirement, or some pool for it cannot be *)
(* scaled, and what it comes to is undefined.  Resources of one class may  *)
(* be merged before.  The functional saturation bound leaves a minimal pool*)
(* of those that support a functionality, where every pool can be connected*)
(* and the functionality needs something.                                  *)
GrantedPoolsServe ==
  case.kind = "request" /\ (\A r \in case.resources : ResourceSupportOf(case.o, case.ask, r) # {}) =>
    /\ \A R \in {S \in {case.resources, MergedResources(case.resources)} :
                   \A r \in S : ResourceSupportOf(case.o, case.ask, r) # {}} :
       \A p \in ResourceSupport(case.o, case.ask, R) :
          /\ IsSubset(p, case.ask.pool)
          /\ \A r \in R : \/ IsBeyondScaling(case.o, case.ask, r)
                          \/ /\ r.model \in SupportedFunctionalities(case.ask, p)
                             /\ Enough(case.o, p, r.constraints)
    /\ \A r \in case.resources : r.constraints = {} /\ case.o.feasible = AllPools /\ IsRegular(case.o) =>
          BoundedResourceSupport(case.o, case.ask, {r}) # {}

(* isSupporting of several resources, as its documentation says: the pool  *)
(* supports all of them.                                                   *)
SupportingServesAll ==
  case.kind = "request" /\ (\A r \in case.resources : r.model \in DOMAIN case.ask.pools) =>
    \A p \in AllCombinations(case.ask.pool, 0) :
       IsSupporting(case.o, case.ask, p, case.resources) =>
         \A r \in case.resources : r.model \in SupportedFunctionalities(case.ask, p)

(* A pool supports a functionality exactly if it has as many resources of  *)
(* each class as are required of the class and of those derived from it:   *)
(* two independent queries agree.  Where a functionality needs a class and *)
(* one derived from it, less may do: what there is of the latter is counted*)
(* for the former by getSupportVector, and once more when class relations  *)
(* are embedded.  An agent without resources stands for itself, times its  *)
(* count squared, in one of the queries, and in the other only where it is *)
(* asked for: none may be what is needed, or derived from it.              *)
InAll(restrictions, o, c) ==
  SumOver(restrictions, {j \in DOMAIN restrictions : j[1] = c \/ Below(o, j[1], c)})

Suffices(o, f, p) ==
  LET there == AvailableCardinalities(o, p)
      asked == RequiredCardinalities(o, PoolOf(f, 1))
  IN  \A k \in DOMAIN asked : InAll(there, o, k[1]) >= InAll(asked, o, k[1])

SupportHasCardinalities ==
  case.kind = "ask" =>
    \A f \in case.o.functionalities : \A p \in AllCombinations(case.ask.pool, 0) :
      LET needed == DOMAIN case.o.has[f]
          isNeeded(m) == \E c \in needed : m = c \/ Below(case.o, m, c)
          unrelated == \A b, c \in needed : ~Below(case.o, b, c)
      IN  needed # {} /\ (\A m \in DOMAIN p : DOMAIN case.o.has[m] = {} => ~isNeeded(m)) =>
            /\ Suffices(case.o, f, p) => FullSupport(case.o, {f}, p)
            /\ FullSupport(case.o, {f}, p) /\ unrelated => Suffices(case.o, f, p)

(* PropertyConstraintSolver::merge: a value within the bounds meets the    *)
(* constraints, and no other one does; bounds conflict if none does.  The  *)
(* set it takes them from keeps each once, in an order.                    *)
MergedIsExact ==
  case.kind = "constraints" =>
    /\ \A c, d \in case.set : Before(c, d) <=> c # d /\ ~Before(d, c)
    /\ \A cluster \in {Clusters(case.set)[p] : p \in {c.property : c \in case.set}} :
       \A v \in Observed :
         LET meets == \A c \in cluster : Compare(c.type, v, c.value)
             bounds == Merged(cluster)
         IN  /\ meets => bounds # Conflict /\ bounds[1] <= v /\ v <= bounds[2]
             /\ bounds # Conflict /\ bounds[1] < v /\ v < bounds[2] => meets

(* getScalingFactor: the pool multiplied by it has enough of everything, by*)
(* no smaller factor it would, and by none at all if it is refused.  It    *)
(* agrees with what a robot fulfills by itself: that is not scaled.        *)
ScalingIsLeast ==
  case.kind = "constraints" =>
    LET clusters == Clusters(case.set)
        factor == ScalingFactor(case.values, case.set)
        bounds == [p \in DOMAIN clusters |-> Merged(clusters[p])]
        Has(n, p) == bounds[p] # Conflict /\ n * case.values[p] >= bounds[p][1]
        Fits(n, p) == Has(n, p) /\ n * case.values[p] <= bounds[p][2]
    IN  /\ Fulfills(case.values, case.set) => factor = 1
        /\ factor = 1 /\ (\A c \in case.set : c.type \notin {LESS_THAN, GREATER_THAN}) =>
             Fulfills(case.values, case.set)
        /\ CASE factor = 0 -> \A n \in 1 .. 6 : \E p \in DOMAIN clusters : ~Fits(n, p)
             [] factor \in 1 .. Infinite - 1 ->
                  /\ \A p \in DOMAIN clusters : Has(factor, p)
                  /\ \A n \in 1 .. factor - 1 : \E p \in DOMAIN clusters : ~Has(n, p)
                  /\ Cardinality(DOMAIN clusters) = 1 => \A p \in DOMAIN clusters : Fits(factor, p)
             [] OTHER -> \A n \in 1 .. 6 : \E p \in DOMAIN clusters : ~Has(n, p)

(* A policy selects from a robot, and from what a rule considers of it,    *)
(* only agents made of its atomic agents, by whatever functionality; what  *)
(* an inverse argument asks for is what they leave.                        *)
SelectionsAreParts ==
  case.kind = "team" =>
    \A chain \in Chains :
      \A S \in Selections(case.o, case.ask, chain, {AgentOf(p) : p \in AllCombinations(case.pool, 0)})
               \cup Selections(case.o, case.ask, chain, {AgentOf(case.pool)})
               \cup SelectionsOfRobot(case.o, case.ask, "carrier", case.pool) :
        \A a \in S : /\ a \subseteq AgentOf(case.pool)
                     /\ Compact(Sum(TypeOf(a), TypeOf(Rest(case.pool, a)))) = Compact(case.pool)

(* Estimates for an agent agree: the shares of the energy provider add up  *)
(* and are those by type of the property its policy comes down to,         *)
(* what its atomic agents contribute over time is what it consumes, though *)
(* some may have no power source; and it is at its destination in time if  *)
(* it has time to wait.                                                    *)
SharesAgree(byPolicy, byType) ==
  \A m \in DOMAIN byType.share : byPolicy.share[m] * byType.whole = byType.share[m] * byPolicy.whole

AddsUp(o, ask, sample) ==
  LET consumption == EnergyConsumption(o, sample)
      part(m, since, until) == EnergyReduction(o, ask, EnergyProvider, sample, m, since, until)
      all(since, until) == SumOver([a \in sample.agent |-> part(a[1], since, until)[1]], sample.agent)
      unit == part(CHOOSE m \in {a[1] : a \in sample.agent} : TRUE, 0, 6)[2]
  IN  consumption[2] > 0 /\ unit > 0 => (all(0, 2) + all(2, 6)) * consumption[2] = consumption[1] * unit

EstimatesAgree ==
  case.kind = "team" =>
    LET pool == Compact(case.pool)
        sample == [agent |-> AgentOf(pool), from |-> 1, to |-> 5, time |-> 6]
    IN  /\ SharesAgree(Distribution(case.o, case.ask, EnergyProvider, pool),
                       SharesByType(case.o, EnergyStored, pool))
        /\ AddsUp(case.o, case.ask, sample)
        /\ \A time \in 0 .. 6 :
             PositionLinear(case.o, sample.agent, 1, 5, time) = 5 <=>
               /\ RobotOfAgent(case.o, sample.agent).velocity > 0
               /\ WaitTime(case.o, sample.agent, 1, 5, time)[1] >= 0

(* What agents amount to: with one more of them there is no smaller load   *)
(* area, mass to carry, or velocity, nor do they reach less far down.  (A  *)
(* load area of a robot by itself counts even where its agents are not     *)
(* known to carry.)  And how much a robot that can be connected can still  *)
(* carry is computed in two ways, as an attribute in unsigned words and by *)
(* the rule of the ontology, which agree, below 0 as well, if there is one *)
(* carrier and the others count for one unit.                              *)
TeamsAddUp ==
  case.kind = "team" /\ NumberOfInstances(case.pool) > 1 =>
    LET o == case.o
        ask == case.ask
        pool == case.pool
        carriers == {m \in DOMAIN pool : pool[m] > 0 /\ o.value[Capacity][m] > 0}
        robot == RobotOf(o, pool)
        without(m) == [pool EXCEPT ![m] = pool[m] - 1]
    IN  /\ \A m \in {n \in DOMAIN pool : pool[n] > 0} :
              /\ (\A n \in DOMAIN pool : LoadAreaSize(o, n) > 0 => Carries(o, ask, n)) =>
                    LoadArea(o, ask, without(m)) <= LoadArea(o, ask, pool)
              /\ TransportableMass(o, ask, without(m)) <= TransportableMass(o, ask, pool)
              /\ LowestPick(o, Compact(without(m))) >= LowestPick(o, pool)
              /\ RobotOf(o, Compact(without(m))).velocity <= robot.velocity
        /\ \A c \in carriers :
              /\ carriers = {c} /\ pool[c] = 1 /\ IsFeasible(o, pool)
              /\ \A f \in {o.moveTo, o.transportProvider} : f \in DOMAIN ask.pools /\ PoolOf(c, 1) \in ask.pools[f]
              /\ \A m \in DOMAIN pool : o.value[Demand][m] = 1
              => {SupplyDemand(o, ask, robot)} = PropertyValuesOf(o, ask, pool, Capacity)

(* What the benchmark measures is the whole range: the iterator stops at   *)
(* pools between its start and its end only, at each combination of counts *)
(* that steps lead to, once.  Models the end has and the start lacks are   *)
(* left out of it.                                                         *)
RangeIsVisited ==
  case.kind = "range" /\ (\A m \in DOMAIN case.step : case.step[m] > 0) =>
    LET stops == Stops(case)
        digits == UNION {Digits(case, m) : m \in DOMAIN case.start}
        span == {p \in [DOMAIN case.start -> digits] : \A m \in DOMAIN p : p[m] \in Digits(case, m)}
    IN  /\ \A i, j \in DOMAIN stops : stops[i] = stops[j] => i = j
        /\ {stops[i] : i \in DOMAIN stops} = IF IsSubset(case.start, case.end) THEN span ELSE {}

(* A pool meets two sets of alternative requirements exactly if it includes*)
(* one of their maxCompositions: composing the pools that support each of  *)
(* several resources (getResourceSupport) neither loses nor adds a         *)
(* possibility.  A lower bound is such a requirement, the maximum of a list*)
(* is what all of it require, and their minimum includes what all include. *)
(* What is added to reach a bound (increaseSupport) completes the pool: a  *)
(* pool and its delta to a larger one sum up to that, and merge unless they*)
(* are equal.  A model with count 0 makes no difference to any of it.      *)
CompositionsCover ==
  case.kind = "range" =>
    LET a == case.start
        b == case.end
        A == {a, Sum(a, case.step)}
        B == {b, case.step}
        all == <<a, b, case.step>>
        delta == Delta(a, b)
        Meets(pool, C) == \E c \in C : IsSuperset(pool, c)
    IN  /\ \A p \in SparsePools :
              /\ Meets(p, MaxCompositions(A, B)) <=> Meets(p, A) /\ Meets(p, B)
              /\ Meets(p, ExpandToLowerBound(A, b)) <=> Meets(p, A) /\ IsSubset(b, p)
              /\ Meets(p, ExpandedCombinations({Compact(c) : c \in A}, b)) <=> Meets(p, A) /\ IsSubset(b, p)
              /\ SufficientCombinations({Compact(p)}, b) # {} <=> IsSubset(b, p)
              /\ IsSubset(MaxOfList(all), p) <=> \A i \in DOMAIN all : IsSubset(all[i], p)
              /\ (\A i \in DOMAIN all : IsSubset(p, all[i])) => IsSubset(p, MinOfList(all))
              /\ BoundedCombinations({Compact(p)}, [m \in DOMAIN p |-> Count(b, m)]) # {} <=> IsSubset(p, b)
        /\ IsSubset(a, b) => /\ Compact(Sum(a, delta)) = Compact(b)
                             /\ a # delta => Merge(a, delta) = Compact(b)
                             /\ Compact(PoolMax(a, b)) = Compact(b)
        /\ IsSubset(a, b) <=> IsSubset(Compact(a), Compact(b))

(* The transfers that a reconfiguration is charged for are those of the    *)
(* atomic agents whose agent changes; taking it back costs the same.       *)
ReconfigurationCountsMoves ==
  case.kind = "reconfiguration" =>
    LET AgentWith(a, P) == CHOOSE g \in P : a \in g
        moved == {a \in AllAtomicAgents(case.to) : AgentWith(a, case.to) # AgentWith(a, case.from)}
    IN  /\ ReconfigurationCost(case.from, case.to, 0, 1) = Cardinality(moved)
        /\ ReconfigurationCost(case.from, case.to, 600, 180) = ReconfigurationCost(case.to, case.from, 600, 180)
================================================================================
