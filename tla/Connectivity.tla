------------------------------ MODULE Connectivity ------------------------------
(***************************************************************************)
(* Whether the agents of a pool can be connected to a single unit          *)
(* (src/src/algebra/Connectivity.cpp): a constraint problem over the links *)
(* between their interfaces, a search for solutions until enough of them   *)
(* connect all agents, and a static cache of the answers.                  *)
(*                                                                         *)
(* The search engine is Gecode's, a depth-first search that is restarted.  *)
(* With the configuration's defaults a link is set before it is left out;  *)
(* which link is next, a merit with a random bias decides.  The symmetries *)
(* posted with the branching prune: all rows of the symmetric matrix of    *)
(* links, and all its columns, are declared interchangeable.               *)
(***************************************************************************)
EXTENDS ModelPools, Sequences, FiniteSets

CONSTANTS
  Ontologies, \* records: the interfaces of each model, and which classes of
              \* them are compatibleWith which
  Sessions    \* sets of queries, made by one process: records of a pool, a
              \* timeout (0: none) and minFeasible

(* A pool has finitely many models (a std::map), a model a list of         *)
(* interfaces, and minFeasible is unsigned.                                *)
QueryAssumption ==
  /\ \A o \in Ontologies, m \in Model : IsFiniteSet(DOMAIN o.interfaces[m])
  /\ \A session \in Sessions : \A q \in session :
       IsPool(q.pool) /\ IsFiniteSet(DOMAIN q.pool) /\ q.minFeasible \in Nat
ASSUME QueriesAreReal == QueryAssumption

VARIABLES
  ontology,   \* mAsk
  queries,    \* the session
  cache,      \* msQueryCache
  query,      \* the arguments of isFeasible
  open,       \* the engine's stack: the nodes still to be explored
  feasible,   \* feasibleSolutions
  complete,   \* isComplete
  pc,
  answers,    \* what has been answered, by query
  late,       \* the queries that ran out of time since the cache was reset
  cut         \* those from whose search a symmetry has cut something off

search == <<open, feasible, complete>>
vars == <<ontology, queries, cache, query, search, pc, answers, late, cut>>

-----------------------------------------------------------------------------
(* The constraint problem.  An agent is a model with a number, an interface*)
(* an agent with a number.                                                 *)

(* mModelCombination                                                       *)
Agents(pool) == UNION {{<<m, i>> : i \in 1 .. pool[m]} : m \in DOMAIN pool}

Precedes(a, b) == a[1] < b[1] \/ (a[1] = b[1] /\ a[2] < b[2])

(* identifyInterfaces                                                      *)
InterfacesOf(agent) == {<<agent, k>> : k \in DOMAIN ontology.interfaces[agent[1]]}
Class(interface) == ontology.interfaces[interface[1][1]][interface[2]]

(* applyCompatibilityConstraints: which links can be set at all.           *)
Compatible(pool) ==
  LET ports == UNION {InterfacesOf(a) : a \in Agents(pool)}
  IN  {link \in ports \X ports :
         /\ Precedes(link[1][1], link[2][1])
         /\ <<Class(link[1]), Class(link[2])>> \in ontology.compatible}

Ends(link) == {link[1], link[2]}
Between(link) == {link[1][1], link[2][1]}

(* enforceSymmetricMatrix: as many links as a tree has, or one more; at    *)
(* most one of an interface (maxOneLink) and between two agents.           *)
Exclude(k, l) == Ends(k) \cap Ends(l) # {} \/ Between(k) = Between(l)

Solutions(pool) ==
  {links \in SUBSET Compatible(pool) :
     /\ Cardinality(links) - Cardinality(Agents(pool)) \in {-1, 0}
     /\ \A k, l \in links : k # l => ~Exclude(k, l)}

(* isComplete: the agents and links make a connected graph.                *)
IsComplete(pool, links) ==
  LET agents == Agents(pool)
      reached[n \in 0 .. Cardinality(agents)] ==
        IF n = 0 THEN {CHOOSE a \in agents : TRUE}
        ELSE LET prev == reached[n - 1]
             IN  prev \cup UNION {Between(l) : l \in {k \in links : Between(k) \cap prev # {}}}
  IN  reached[Cardinality(agents)] = agents

-----------------------------------------------------------------------------
(* A node of the search: the links set to 1, those set to 0 because they   *)
(* look like one that has been tried, and the no-goods: sets of links all  *)
(* of whose solutions lie in nodes explored before.                        *)
Node(links, without, done) == [links |-> links, without |-> without, done |-> done]

Admits(node, links) ==
  /\ node.links \subseteq links /\ node.without \cap links = {}
  /\ \A d \in node.done : ~(d \subseteq links)

(* What propagation leaves undecided.                                      *)
Free(pool, node) ==
  {l \in Compatible(pool) \ (node.links \cup node.without) :
     /\ \A k \in node.links : ~Exclude(k, l)
     /\ \A d \in node.done : ~(d \subseteq node.links \cup {l})}

Possible(pool, node) == node.links \cup Free(pool, node)

(* The number of links decides the rest: it is reached, or can only just   *)
(* be reached, or not at all.                                              *)
Decided(pool, node) ==
  LET n == Cardinality(Agents(pool))
  IN  Cardinality(node.links) = n \/ Cardinality(Possible(pool, node)) < n
Outcome(pool, node) ==
  IF Cardinality(node.links) = Cardinality(Agents(pool)) THEN node.links ELSE Possible(pool, node)
IsSolved(pool, node) ==
  /\ Decided(pool, node)
  /\ Outcome(pool, node) \in Solutions(pool) /\ Admits(node, Outcome(pool, node))

(* identifySymmetries: interfaces whose rows are equal can be exchanged, as*)
(* far as the engine knows, and so can interfaces whose columns are; a link*)
(* looks like those such exchanges make of it.                             *)
Alike(pool, node, l) ==
  LET free == Free(pool, node)
      Partners(i) == UNION {Ends(k) \ {i} : k \in {k \in free : i \in Ends(k)}}
      Same(i, j) == Partners(i) = Partners(j)
  IN  {k \in free : \/ Same(k[1], l[1]) /\ Same(k[2], l[2])
                    \/ Same(k[1], l[2]) /\ Same(k[2], l[1])}

-----------------------------------------------------------------------------
Init ==
  /\ ontology \in Ontologies
  /\ cache = [q \in {} |-> FALSE]
  /\ queries \in Sessions /\ query \in queries
  /\ open = <<>> /\ feasible = 0 /\ complete = FALSE
  /\ pc = "idle"
  /\ answers = {} /\ late = {} /\ cut = {}

Answer(q, result) ==
  /\ answers' = answers \cup {<<q, result>>}
  /\ pc' = "idle"

AnswerFromCache ==
  /\ pc = "called" /\ query \in DOMAIN cache
  /\ Answer(query, cache[query])
  /\ UNCHANGED <<ontology, queries, cache, query, search, late, cut>>

NoInterfaces(pool) == \E m \in DOMAIN Compact(pool) : ontology.interfaces[m] = <<>>

(* A single agent is feasible; one without interfaces cannot be connected, *)
(* the constructor throws.  Neither is cached.  The empty pool throws.     *)
AnswerAtOnce ==
  /\ pc = "called" /\ query \notin DOMAIN cache
  /\ NumberOfInstances(query.pool) <= 1 \/ NoInterfaces(query.pool)
  /\ IF NumberOfInstances(query.pool) = 0
     THEN pc' = "idle" /\ UNCHANGED answers
     ELSE Answer(query, NumberOfInstances(query.pool) = 1)
  /\ UNCHANGED <<ontology, queries, cache, query, search, late, cut>>

StartSearch ==
  /\ pc = "called" /\ query \notin DOMAIN cache
  /\ NumberOfInstances(query.pool) > 1 /\ ~NoInterfaces(query.pool)
  /\ open' = <<Node({}, {}, {})>> /\ feasible' = 0 /\ complete' = FALSE
  /\ pc' = "search"
  /\ UNCHANGED <<ontology, queries, cache, query, answers, late, cut>>

EndSearch(result) ==
  /\ cache' = [q \in DOMAIN cache \cup {query} |-> IF q = query THEN result ELSE cache[q]]
  /\ Answer(query, result)
  /\ open' = <<>>

(* A link is tried; when that has been explored it is left out, and with it*)
(* those that look like it.                                                *)
Branch ==
  /\ pc = "search" /\ open # <<>> /\ ~Decided(query.pool, Head(open))
  /\ \E l \in Free(query.pool, Head(open)) :
       LET node == Head(open)
           links == node.links \cup {l}
           alike == Alike(query.pool, node, l) \ {l}
       IN  /\ open' = <<Node(links, node.without, node.done),
                        Node(node.links, node.without \cup alike, node.done \cup {links})>>
                      \o Tail(open)
           /\ cut' = IF alike = {} THEN cut ELSE cut \cup {query}
  /\ UNCHANGED <<ontology, queries, cache, query, feasible, complete, pc, answers, late>>

Fail ==
  /\ pc = "search" /\ open # <<>>
  /\ Decided(query.pool, Head(open)) /\ ~IsSolved(query.pool, Head(open))
  /\ open' = Tail(open)
  /\ UNCHANGED <<ontology, queries, cache, query, feasible, complete, pc, answers, late, cut>>

(* The engine starts over, with the no-goods of its stack or, where a      *)
(* branching has none, without.                                            *)
StartOver(nogoods) == \E known \in {{}, nogoods} : open' = <<Node({}, {}, known)>>

(* After some failures it does so by itself.                               *)
Restart ==
  /\ pc = "search" /\ open # <<>>
  /\ StartOver(Head(open).done)
  /\ UNCHANGED <<ontology, queries, cache, query, feasible, complete, pc, answers, late, cut>>

(* The engine returns a solution, and is asked for another, for which it   *)
(* starts over, if that does not complete the minimum.                     *)
Evaluate ==
  /\ pc = "search" /\ open # <<>> /\ IsSolved(query.pool, Head(open))
  /\ complete' = IsComplete(query.pool, Outcome(query.pool, Head(open)))
  /\ feasible' = IF complete' THEN feasible + 1 ELSE feasible
  /\ IF complete' /\ feasible' >= query.minFeasible
     THEN EndSearch(TRUE)
     ELSE /\ StartOver(IF Tail(open) = <<>> THEN Head(open).done ELSE Head(Tail(open)).done)
          /\ UNCHANGED <<pc, cache, answers>>
  /\ UNCHANGED <<ontology, queries, query, late, cut>>

\* Mutant: an engine that has been stopped is taken for one at its end.
HastyExhaust ==
  /\ pc = "search"
  /\ EndSearch(complete)
  /\ UNCHANGED <<ontology, queries, query, feasible, complete, late, cut>>

Exhaust ==
  /\ pc = "search" /\ open = <<>>
  /\ EndSearch(complete)
  /\ UNCHANGED <<ontology, queries, query, feasible, complete, late, cut>>

(* The engine is stopped: the last solution evaluated decides.             *)
TimeOut ==
  /\ pc = "search" /\ query.timeout > 0
  /\ EndSearch(complete)
  /\ late' = late \cup {query}
  /\ UNCHANGED <<ontology, queries, query, feasible, complete, cut>>

Call ==
  /\ pc = "idle"
  /\ query' \in queries
  /\ pc' = "called"
  /\ UNCHANGED <<ontology, queries, cache, search, answers, late, cut>>

ResetQueryCache ==
  /\ pc = "idle"
  /\ cache' = [q \in {} |-> FALSE]
  /\ late' = {} /\ cut' = {} /\ answers' = {}
  /\ UNCHANGED <<ontology, queries, query, search, pc>>

Next ==
  \/ Call \/ ResetQueryCache
  \/ AnswerFromCache \/ AnswerAtOnce \/ StartSearch
  \/ Branch \/ Fail \/ Restart
  \/ Evaluate \/ Exhaust \/ TimeOut

Spec == Init /\ [][Next]_vars

-----------------------------------------------------------------------------
(* Whether agents can be put together one after the other, each with a free*)
(* interface to a free one of those already there.                         *)
CanBeAssembled(pool) ==
  LET agents == Agents(pool)
      links == Compatible(pool)
      Start == {[in |-> {a}, used |-> {}] : a \in agents}
      Joined(s) ==
        {[in |-> s.in \cup Between(l), used |-> s.used \cup Ends(l)] :
           l \in {k \in links : Cardinality(Between(k) \cap s.in) = 1 /\ Ends(k) \cap s.used = {}}}
      stage[n \in 1 .. Cardinality(agents)] ==
        IF n = 1 THEN Start ELSE LET prev == stage[n - 1] IN UNION {Joined(s) : s \in prev}
  IN  stage[Cardinality(agents)] # {}

(* What isFeasible tells a caller: the agents can be put together; or they *)
(* cannot, unless, since the cache was reset, the check ran out of time, or*)
(* a symmetry has cut something off its search.  Neither happens to the    *)
(* first link of two agents.  Who asks for several solutions, as no query  *)
(* of OrganizationModelAsk does, may be told FALSE though there is one: the*)
(* last solution decides.                                                  *)
AnswerIsRight ==
  \A a \in answers :
    IF a[2] THEN CanBeAssembled(a[1].pool)
    ELSE \/ a[1].minFeasible > 1
         \/ a[1] \in late
         \/ a[1] \in cut /\ Cardinality(Agents(a[1].pool)) > 2
         \/ ~CanBeAssembled(a[1].pool)

(* What the interface documents: the answer to a check without a timeout is*)
(* TRUE if the agents can be connected, FALSE otherwise.  The code: the    *)
(* symmetries cut off assemblies that are not like any other.              *)
UntimedAnswerIsExact ==
  \A a \in answers :
    a[1].timeout = 0 /\ a[1].minFeasible = 1 => a[2] = CanBeAssembled(a[1].pool)

===============================================================================
