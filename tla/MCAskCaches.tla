------------------------------ MODULE MCAskCaches ------------------------------
(***************************************************************************)
(* AskCaches, answering with the queries of AskQueries about two           *)
(* organization models: in the second one a model has other resources.     *)
(***************************************************************************)
EXTENDS AskCaches
LOCAL INSTANCE TLC

ClassesOfAnOntology == {1, 2, 3, 11, 21, 22, 31, 32, 33}
Q == INSTANCE AskQueries WITH Model <- ClassesOfAnOntology, InfiniteAsUnsigned <- 0

Exactly(n) == [min |-> n, max |-> n]

Ontology(om) ==
  [below |-> {<<11, 3>>, <<1, 2>>} \cup {<<m, c>> : m \in {31, 32}, c \in {1, 2}},
   has |-> 11 :> (21 :> Exactly(2)) @@ 31 :> (21 :> Exactly(om)) @@ 32 :> (21 :> Exactly(1))
             @@ [c \in ClassesOfAnOntology |-> << >>],
   actor |-> 1, agent |-> 2, functionality |-> 3, functionalities |-> {11},
   feasible |-> {}, value |-> << >>]

Pair == 31 :> 1 @@ 32 :> 1
Four == 31 :> 2 @@ 32 :> 2
Equipment == 31 :> 1 @@ 32 :> 1 @@ 33 :> 1  \* with one that is no agent

MCRequest ==
  {[om |-> 1, pool |-> Four, bounded |-> TRUE, timeout |-> 0, interface |-> 1, size |-> 0],
   [om |-> 1, pool |-> Four, bounded |-> TRUE, timeout |-> 5, interface |-> 1, size |-> 0],
   [om |-> 1, pool |-> Equipment, bounded |-> TRUE, timeout |-> 5, interface |-> 1, size |-> 0],
   [om |-> 2, pool |-> Pair, bounded |-> FALSE, timeout |-> 5, interface |-> 1, size |-> 0]}

RequestOf(om, pool, timeout) ==
  CHOOSE r \in MCRequest : r.om = om /\ r.pool = pool /\ r.timeout = timeout

MCStructureCall ==
  {[request |-> RequestOf(1, Four, 5), pool |-> Four, resources |-> {11}, timeout |-> 5]}

MCRestrictionCall ==
  {[request |-> RequestOf(2, Pair, 5), rest |-> Pair]}

MCRelatedCall ==
  {[request |-> RequestOf(2, Pair, 5), agent |-> 31, rest |-> 21]}

MCRobotCall ==
  {[request |-> RequestOf(1, Four, 5), pool |-> Pair], [request |-> RequestOf(1, Four, 0), pool |-> Pair]}

(* Which pairs can be connected.                                           *)
Pairs == {p \in Q!AllCombinations(Four, 0) : Q!NumberOfInstances(p) = 2}
MCConnectable(om, interface) == IF om = 1 THEN {31 :> 2, Pair} ELSE {Pair, 32 :> 2}

MCFiltered(om, pool) == [m \in DOMAIN pool \ {33} |-> pool[m]]
MCChecks(c) == {p \in Pairs : Q!IsSubset(p, c.pool)}

Feasible(om, found) ==
  [Ontology(om) EXCEPT !.feasible = found \cup {p \in Q!AllCombinations(Four, 0) : Q!NumberOfInstances(p) = 1}]

(* As a table, computed once.                                              *)
Mappings ==
  UNION {{[request |-> r, found |-> found,
           pools |-> Q!Prepared(Feasible(r.om, found), r.pool, r.bounded, r.size).pools]
            : found \in SUBSET MCChecks(r)} : r \in MCRequest}
MCMappingOf(r, found) == (CHOOSE t \in Mappings : t.request = r /\ t.found = found).pools

(* A division into pairs that support the resources.                       *)
MCStructureOf(c, mapping, found) ==
  {p \in found : \A f \in c.resources : \E q \in mapping[f] : Q!IsSubset(q, p)}

MCRestrictionsOf(om, rest) == Q!AvailableCardinalities(Ontology(om), rest)
MCRelatedTo(om, agent, rest) == Ontology(om).has[agent]
(* The agents that support the functionality alone, as isMobile asks.      *)
MCRobotIn(om, mapping, pool) == {m \in DOMAIN pool : (m :> 1) \in mapping[11]}
MCIri(om) == om

ASSUME DisciplinedCalls == Disciplined
===============================================================================
