------------------------------ MODULE MCReasoning ------------------------------
(* Reasoning over small ontologies, pools, constraints and teams.           *)
EXTENDS Reasoning

(* Actor, Agent, Functionality; two functionalities; resources, one derived*)
(* from another; agent models.                                             *)
ClassesOfAnOntology == {1, 2, 3, 11, 12, 21, 22, 23, 31, 32, 33}
Exactly(n) == [min |-> n, max |-> n]

Needs == {[f \in {11, 12} |-> IF f = 11 THEN a ELSE b] :
            a \in {21 :> Exactly(2), 21 :> Exactly(1) @@ 23 :> Exactly(1), 22 :> [min |-> 1, max |-> 2], 21 :> Exactly(3) @@ 22 :> Exactly(1)},
            b \in {23 :> Exactly(1), 21 :> Exactly(3), << >>}}
Provides == {31 :> a @@ 32 :> b @@ 33 :> c :
               a \in {21 :> Exactly(1), 22 :> Exactly(2)},
               b \in {23 :> Exactly(1), 22 :> Exactly(1) @@ 23 :> Exactly(1)},
               c \in {<< >>, 21 :> [min |-> 0, max |-> 1]}}

MCPools == {p \in [{31, 32, 33} -> 0 .. 2] : p[33] < 2}

Feasibility ==
  {AllPools,
   {p \in AllPools : NumberOfInstances(p) <= 1 \/ Count(p, 33) > 0},
   {p \in AllPools : NumberOfInstances(p) # 2}}

MCOntologies ==
  {[below |-> {<<11, 3>>, <<12, 3>>, <<22, 21>>, <<1, 2>>}
                \cup {<<m, c>> : m \in {31, 32, 33}, c \in {1, 2}},
    has |-> needs @@ provides @@ [c \in ClassesOfAnOntology |-> << >>],
    actor |-> 1, agent |-> 2, functionality |-> 3, functionalities |-> {11, 12},
    feasible |-> feasible, value |-> [p \in {1, 2} |-> [m \in {31, 32, 33} |-> (m + p) % 3]]]
     : needs \in Needs, provides \in Provides, feasible \in Feasibility}

Plain(f) == [model |-> f, constraints |-> {}]
Asking(f, constraints) == [model |-> f, constraints |-> constraints]
Resources ==
  {Plain(11), Plain(12),
   Asking(11, {Constraint(GREATER_EQUAL, 1, 3)}),
   Asking(12, {Constraint(GREATER_EQUAL, 1, 2), Constraint(GREATER_EQUAL, 2, 3)}),
   Asking(12, {Constraint(GREATER_EQUAL, 2, 2), Constraint(LESS_EQUAL, 2, 3)})}

MCRequests == {R \in SUBSET Resources : R # {} /\ Cardinality(R) <= 2}

MCConditions ==
  {Constraint(type, property, value) :
     type \in {EQUAL, LESS_THAN, LESS_EQUAL, GREATER_EQUAL, GREATER_THAN},
     property \in {1, 2}, value \in {2, 3, 5}}

(* Teams: 31 moves and may carry others, 32 has a load area, 33 may have   *)
(* both.  Properties 1 to 8 are constants of RobotFacade, 9 is the energy  *)
(* capacity, with rules as in the repository's ontology, like Capacity.    *)
MCChains ==
  LET steps == {[kind |-> "all"], [kind |-> "unknown"], [kind |-> "size", comparison |-> EQUAL, size |-> 1],
                [kind |-> "size", comparison |-> GREATER_EQUAL, size |-> 2],
                [kind |-> "functionality", functionality |-> 11],
                [kind |-> "property", property |-> Mass, operation |-> "min"]}
  IN  {<<a, b>> : a, b \in steps}
Of(a, b, c) == 31 :> a @@ 32 :> b @@ 33 :> c
MCTeamOntologies ==
  {[below |-> {<<11, 3>>, <<12, 3>>, <<1, 2>>} \cup {<<m, c>> : m \in {31, 32, 33}, c \in {1, 2}},
    has |-> 11 :> (21 :> Exactly(1)) @@ 12 :> (22 :> Exactly(1)) @@ 31 :> (21 :> Exactly(1))
              @@ 32 :> (22 :> Exactly(1)) @@ 33 :> third @@ [c \in ClassesOfAnOntology |-> << >>],
    actor |-> 1, agent |-> 2, functionality |-> 3, functionalities |-> {11, 12}, feasible |-> AllPools,
    moveTo |-> 11, trail |-> 12, loadArea |-> 12, transportProvider |-> 11,
    loadAreas |-> Of(<<>>, <<2, 3>>, IF 22 \in DOMAIN third THEN <<1>> ELSE <<>>),
    heights |-> Of({2}, {}, {-1}),
    value |-> Power :> Of(3, 0, 1) @@ Mass :> Of(2, 1, 1) @@ Velocity :> Of(2, 0, 1)
                @@ Voltage :> Of(2, 1, 3) @@ Source :> source @@ Demand :> demand
                @@ Capacity :> capacity @@ TransportMass :> Of(2, 1, 0),
    ancestors |-> [p \in 1 .. EnergyStored |-> <<>>],
    atomicRule |-> EnergyStored :> <<Source, Voltage>>,
    compositeRule |-> EnergyStored :> EnergyProvider.composite
      @@ Capacity :> TransportRule(Self),
    element |-> "all" :> <<{[kind |-> "all"]}>>
      @@ "carrier" :> [i \in 1 .. 3 |-> {TransportProvider(11)[i]}] \o <<{}, {[kind |-> "all"]}>>]
     : third \in {21 :> Exactly(1), 22 :> Exactly(1)}, source \in {Of(2, 1, 0), Of(1, 2, 3)},
       demand \in {Of(1, 1, 1), Of(1, 2, 1)}, capacity \in {Of(2, 0, 0), Of(3, 0, 1), Of(0, 0, 4)}}

MCSparsePools == UNION {[M -> 0 .. 2] : M \in SUBSET {31, 32}}

MCAskedPools == {p \in Pools : p[31] # 1}
MCCrewPools == {Of(2, 2, 1)}
MCFurtherConditions == {c \in Conditions : c.property = 1}
MCRobots == [{1, 2} -> 0 .. 3]
MCObserved == 0 .. 6
MCDividedAgents == {31, 32} \X {0, 1}
================================================================================
