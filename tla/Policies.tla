------------------------------- MODULE Policies -------------------------------
(***************************************************************************)
(* Rules for the value of a property, policies that select agents or divide*)
(* a share among them (src/src/InferenceRule.cpp, inference_rules/,        *)
(* Policy.cpp, policies/, Robot::getDataPropertyValue).                    *)
(*                                                                         *)
(* An agent is a set of atomic agents, a model and a number each.  An      *)
(* ontology o has, besides what RobotFacade looks at,                      *)
(*   o.ancestors     for each property those above it, the nearest first,  *)
(*   o.atomicRule    for some properties the properties to multiply,       *)
(*   o.compositeRule for some properties the operations to add up,         *)
(*   o.element       for each policy and index the elements it is given,   *)
(*   o.transportProvider   the functionality that "carrier" names.        *)
(* The texts of the rules are not modelled, only what they come down to:   *)
(* the forms the repository's ontologies use.  Properties are numbered so  *)
(* that an atomic rule refers to smaller ones (otherwise the code recurses *)
(* without end), and every property a rule refers to has a value or a rule.*)
(***************************************************************************)
EXTENDS RobotFacade

CONSTANT Self  \* placeholder for the property a rule is applied to

(* Agent(modelPool), getType, allAtomicAgents                              *)
AgentOf(pool) == AtomicAgents(pool)
TypeOf(agent) == [m \in {a[1] : a \in agent} |-> Cardinality({a \in agent : a[1] = m})]
AllAtomicAgents(agents) == UNION agents

-----------------------------------------------------------------------------
(* InferenceRule::load: the rule of the property or the first one above it *)
RuleSource(o, rules, property) ==
  LET line == <<property>> \o o.ancestors[property]
      annotated == {i \in DOMAIN line : line[i] \in DOMAIN rules}
  IN  {line[i] : i \in {j \in annotated : \A k \in annotated : j <= k}}

(* AtomicAgentRule: the values of the properties it names are multiplied.  *)
ProductOf(i, j) == i * j
Product(values) == FoldFunction(ProductOf, 1, values)

(* getDataPropertyValue of an atomic agent: its rule, or its value.        *)
AtomicValue(o, property, m) ==
  LET value[p \in DOMAIN o.ancestors] ==
        IF RuleSource(o, o.atomicRule, p) = {} THEN o.value[p][m]
        ELSE LET rule == o.atomicRule[CHOOSE q \in RuleSource(o, o.atomicRule, p) : TRUE]
             IN  Product([i \in DOMAIN rule |-> value[rule[i]]])
  IN  value[property]

(* AtomicAgentRule::apply, OPCall::evalAtomic                              *)
AtomicRuleValue(o, rule, m) ==
  Product([i \in DOMAIN rule |-> AtomicValue(o, rule[i], m)])

(* OPCall::sum                                                             *)
ValueSum(o, agent, property) ==
  LET pool == TypeOf(agent)
  IN  SumOver([m \in DOMAIN pool |-> pool[m] * AtomicValue(o, property, m)], DOMAIN pool)

-----------------------------------------------------------------------------
(* Selections                                                              *)

(* AgentSizeBasedSelection                                                 *)
SizeBased(step, agents) ==
  {a \in agents : Compare(step.comparison, Cardinality(a), step.size)}

(* FunctionalityBasedSelection: what supports the functionality is built   *)
(* anew, with the agents numbered from 0.                                  *)
\* Mutant: takes the delta the other way round.
SwappedFunctionalityBased(o, ask, step, agents) ==
  {AgentOf(p) : p \in {q \in ResourceSupport(o, ask, {[model |-> step.functionality, constraints |-> {}]}) :
                         \E a \in agents : IsSubset(TypeOf(a), q)}}

FunctionalityBased(o, ask, step, agents) ==
  {AgentOf(p) : p \in {q \in ResourceSupport(o, ask, {[model |-> step.functionality, constraints |-> {}]}) :
                         \E a \in agents : IsSubset(q, TypeOf(a))}}

(* PropertyBasedSelection: of several agents with the extreme value the    *)
(* first in a map's order (modelled by a choice); the search for a maximum *)
(* starts from 0, and gives an agent without atomic agents if no value is  *)
(* larger.                                                                 *)
PropertyBased(o, step, agents) ==
  LET value == [a \in agents |-> ValueSum(o, a, step.property)]
      best == IF step.operation = "max"
              THEN {a \in agents : value[a] > 0 /\ \A b \in agents : value[b] <= value[a]}
              ELSE {a \in agents : \A b \in agents : value[a] <= value[b]}
  IN  IF agents = {} THEN {{}} ELSE IF best = {} THEN {{{}}} ELSE {{a} : a \in best}

(* One step of a policy: the selections it may have as result.  One of an  *)
(* unknown kind is left out silently when the policy is built.             *)
Selected(o, ask, step, agents) ==
  CASE step.kind = "all" -> {{AllAtomicAgents(agents)}}
    [] step.kind = "size" -> {SizeBased(step, agents)}
    [] step.kind = "functionality" -> {FunctionalityBased(o, ask, step, agents)}
    [] step.kind = "property" -> PropertyBased(o, step, agents)
    [] OTHER -> {agents}

(* SelectionPolicy::apply: the steps in a chain                            *)
Selections(o, ask, steps, agents) ==
  LET after[i \in 0 .. Len(steps)] ==
        IF i = 0 THEN {agents}
        ELSE LET before == after[i - 1] IN UNION {Selected(o, ask, steps[i], S) : S \in before}
  IN  after[Len(steps)]

(* Policy::getInstance: the elements up to the first index without one; two*)
(* of one index throw.                                                     *)
PolicyOf(o, name) ==
  LET elements == o.element[name]
      filled == {n \in 0 .. Len(elements) : \A i \in 1 .. n : elements[i] # {}}
  IN  [i \in 1 .. Greatest(filled) |-> CHOOSE e \in elements[i] : TRUE]

(* Robot::getSelection                                                     *)
SelectionsOfRobot(o, ask, name, pool) == Selections(o, ask, PolicyOf(o, name), {AgentOf(pool)})

-----------------------------------------------------------------------------
(* OPCall::evalComposite: one of the agents that a policy selects from all *)
(* combinations is drawn at random, for each operation anew; an operation  *)
(* may ask for the rest of the agent instead.  The default value is 0.     *)
Rest(pool, agent) == AgentOf(Delta(TypeOf(agent), pool))

CallValues(o, ask, call, pool, property) ==
  LET of == IF call.property = Self THEN property ELSE call.property
      candidates == {AgentOf(p) : p \in AllCombinations(pool, 0)}
      part(a) == IF call.inverse THEN Rest(pool, a) ELSE a
  IN  UNION {IF S = {} THEN {0} ELSE {call.sign * ValueSum(o, part(a), of) : a \in S}
               : S \in Selections(o, ask, PolicyOf(o, call.policy), candidates)}

(* CompositeAgentRule::apply                                               *)
RuleValues(o, ask, rule, pool, property) ==
  LET upTo[i \in 0 .. Len(rule)] ==
        IF i = 0 THEN {0}
        ELSE LET before == upTo[i - 1]
             IN  {v + w : v \in before, w \in CallValues(o, ask, rule[i], pool, property)}
  IN  upTo[Len(rule)]

(* getDataPropertyValue: by rule, or as weighted sum                       *)
PropertyValuesOf(o, ask, pool, property) ==
  IF NumberOfInstances(pool) <= 1 THEN {AtomicValue(o, property, CHOOSE m \in DOMAIN pool : pool[m] = 1)}
  ELSE IF RuleSource(o, o.compositeRule, property) # {}
  THEN RuleValues(o, ask, o.compositeRule[CHOOSE q \in RuleSource(o, o.compositeRule, property) : TRUE], pool, property)
  ELSE {WeightedSum(pool, [m \in DOMAIN pool |-> AtomicValue(o, property, m)])}

-----------------------------------------------------------------------------
(* Distribution: shares are fractions of the value of the whole           *)
Sole(pool) == [whole |-> 1, share |-> [m \in FirstOf(DOMAIN pool) |-> 1]]

(* DistributionPolicy::apply: an agent of its own has the share 1.         *)
\* Mutant: the whole counts each model once.
UncountedDistribution(o, ask, policy, pool) ==
  LET share == [m \in DOMAIN pool |-> AtomicRuleValue(o, policy.atomic, m)]
  IN  IF NumberOfInstances(pool) = 1 THEN Sole(pool)
      ELSE [whole |-> SumOver(share, DOMAIN pool), share |-> share]

Distribution(o, ask, policy, pool) ==
  IF NumberOfInstances(pool) = 1 THEN Sole(pool)
  ELSE [whole |-> CHOOSE v \in RuleValues(o, ask, policy.composite, pool, Self) : TRUE,
        share |-> [m \in DOMAIN pool |-> AtomicRuleValue(o, policy.atomic, m)]]

(* Policy::computeSharesByType                                             *)
SharesByType(o, property, pool) ==
  LET share == [m \in DOMAIN pool |-> AtomicValue(o, property, m)]
  IN  IF NumberOfInstances(pool) = 1 THEN Sole(pool)
      ELSE [whole |-> WeightedSum(pool, share), share |-> share]
===============================================================================
