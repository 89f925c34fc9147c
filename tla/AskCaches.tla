------------------------------- MODULE AskCaches -------------------------------
(***************************************************************************)
(* What one process remembers of the queries it has been asked:            *)
(*   - the registry of OrganizationModelAsk::getInstance, objects that     *)
(*     have computed their mapping (OrganizationModelAsk.cpp),             *)
(*   - the answers of Connectivity::isFeasible (algebra/Connectivity.cpp), *)
(*   - the QueryCache of an organization model: coalition structures and   *)
(*     cardinality restrictions (QueryCache.cpp),                          *)
(*   - the related resources of a model, in each object (getRelated), and  *)
(*   - the robots of Robot::getInstance (facades/Robot.cpp).               *)
(* What the queries compute is left to constants (MCAskCaches takes them   *)
(* from AskQueries); here it matters which part of a question a remembered *)
(* answer is looked up by.                                                 *)
(***************************************************************************)
EXTENDS Naturals, Sequences, FiniteSets

CONSTANTS
  Request,         \* arguments of getInstance: records of om, pool, bounded,
                   \* timeout (0: none), interface and size (neighbourhood)
  StructureCall,   \* findFeasibleCoalitionStructure: a request, the pool to
                   \* divide, resources, timeout
  RestrictionCall, \* getCardinalityRestrictions: a request and the rest
  RelatedCall,     \* getRelated: a request, the agent model, and the rest
  RobotCall,       \* Robot::getInstance: a request and a pool
  MaxObjects       \* a bound on the registry

CONSTANTS
  Iri(_),                    \* the IRI of the ontology of an organization model
  Filtered(_, _),            \* prepare(): the agents in a pool
  Connectable(_, _),         \* the pools that can be connected, by om and interface
  Checks(_),                 \* the pools whose feasibility a computation asks for
  MappingOf(_, _),           \* the mapping of a request, by the pools found feasible
  StructureOf(_, _, _),      \* the structure, by mapping and pools found feasible
  RestrictionsOf(_, _),      \* the restrictions, by om and the rest
  RelatedTo(_, _, _),        \* the related resources, by om, agent and the rest
  RobotIn(_, _, _)           \* a robot's attributes, by om, mapping and pool

(* What prepare() leaves of a pool consists of agents and has no zeros: to *)
(* filter it once more changes nothing.                                    *)
ASSUME CallAssumption ==
  /\ Request \cap (StructureCall \cup RestrictionCall \cup RelatedCall \cup RobotCall) = {}
  /\ StructureCall \cap (RestrictionCall \cup RelatedCall \cup RobotCall) = {}
  /\ RestrictionCall \cap (RelatedCall \cup RobotCall) = {}
  /\ RelatedCall \cap RobotCall = {}
  /\ \A c \in StructureCall \cup RestrictionCall \cup RelatedCall \cup RobotCall : c.request \in Request
  /\ \A c \in Request \cup StructureCall : c.timeout \in Nat
  /\ \A r \in Request : Filtered(r.om, Filtered(r.om, r.pool)) = Filtered(r.om, r.pool)

VARIABLES
  objects,       \* msOrganizationModelAsk
  feasibility,   \* Connectivity::msQueryCache
  structures,    \* mCSQueryResults
  restrictions,  \* mQueryResults
  related,       \* mRelatedResourceCache, of each object
  robots,        \* Robot::msRobots
  told           \* the calls and their answers, since a cache was reset

caches == <<objects, feasibility, structures, restrictions, related, robots>>
vars == <<caches, told>>

Extended(cache, entries) ==
  [k \in DOMAIN cache \cup DOMAIN entries |-> IF k \in DOMAIN cache THEN cache[k] ELSE entries[k]]
Single(key, value) == [k \in {key} |-> value]
NoEntries == [k \in {} |-> 0]

-----------------------------------------------------------------------------
(* The checks of a computation, for an organization model, an interface    *)
(* class and a timeout: what is known from earlier ones, the truth, or     *)
(* FALSE if the time is over.                                              *)
\* Mutant: leaves the timeout out.
TimelessKey(om, interface, timeout, pool) == <<pool, Iri(om), interface>>

FeasibilityKey(om, interface, timeout, pool) == <<pool, Iri(om), interface, timeout>>

Found(pools, om, interface, timeout, late) ==
  {p \in pools :
     LET key == FeasibilityKey(om, interface, timeout, p)
     IN  IF key \in DOMAIN feasibility THEN feasibility[key]
         ELSE p \in Connectable(om, interface) /\ p \notin late}

Remember(pools, om, interface, timeout, late) ==
  LET found == Found(pools, om, interface, timeout, late)
      key(p) == FeasibilityKey(om, interface, timeout, p)
  IN  feasibility' = [k \in DOMAIN feasibility \cup {key(p) : p \in pools} |->
                        IF k \in DOMAIN feasibility THEN feasibility[k]
                        ELSE \E p \in found : k = key(p)]

Late(pools, timeout) == IF timeout > 0 THEN SUBSET pools ELSE {{}}

Respond(c, result) == told' = told \cup {<<c, result>>}

-----------------------------------------------------------------------------
(* getInstance: an object whose pool is the one that is asked for, and that*)
(* has been made for the same model, bound, timeout and interface.  The    *)
(* pool of an object is what prepare() has left of the one it was made for.*)
Answering(request) ==
  {i \in DOMAIN objects :
     /\ objects[i].request.om = request.om
     /\ objects[i].request.bounded = request.bounded
     /\ objects[i].request.timeout = request.timeout
     /\ objects[i].request.interface = request.interface
     /\ objects[i].pool = request.pool}

(* find_if                                                                 *)
FirstAnswering(request) ==
  CHOOSE i \in Answering(request) : \A j \in Answering(request) : i <= j

FindInstance(request) ==
  /\ Answering(request) # {}
  /\ Respond(request, objects[FirstAnswering(request)].mapping)
  /\ UNCHANGED caches

CreateInstance(request) ==
  /\ Answering(request) = {} /\ Len(objects) < MaxObjects
  /\ \E late \in Late(Checks(request), request.timeout) :
        LET found == Found(Checks(request), request.om, request.interface, request.timeout, late)
            mapping == MappingOf(request, found)
        IN  /\ Remember(Checks(request), request.om, request.interface, request.timeout, late)
            /\ objects' = Append(objects, [request |-> request, mapping |-> mapping,
                                           pool |-> Filtered(request.om, request.pool)])
            /\ related' = Append(related, NoEntries)
            /\ Respond(request, mapping)
  /\ UNCHANGED <<structures, restrictions, robots>>

(* findFeasibleCoalitionStructure: the cache belongs to the organization   *)
(* model, which the objects that have been made for it share.              *)
StructureKey(c) == <<c.request.om, c.pool, c.resources>>

KnownStructure(c) ==
  /\ Answering(c.request) # {} /\ StructureKey(c) \in DOMAIN structures
  /\ Respond(c, structures[StructureKey(c)])
  /\ UNCHANGED caches

ComputeStructure(c) ==
  /\ Answering(c.request) # {} /\ StructureKey(c) \notin DOMAIN structures
  /\ \E late \in Late(Checks(c), c.timeout) :
        LET object == objects[FirstAnswering(c.request)]
            found == Found(Checks(c), c.request.om, c.request.interface, c.timeout, late)
            result == StructureOf(c, object.mapping, found)
        IN  /\ Remember(Checks(c), c.request.om, c.request.interface, c.timeout, late)
            /\ structures' = Extended(structures, Single(StructureKey(c), result))
            /\ Respond(c, result)
  /\ UNCHANGED <<objects, restrictions, related, robots>>

(* getCardinalityRestrictions: looked up by all it depends on.             *)
QueryRestrictions(c) ==
  LET key == <<c.request.om, c.rest>>
      entries == Extended(restrictions, Single(key, RestrictionsOf(c.request.om, c.rest)))
  IN  /\ Answering(c.request) # {}
      /\ restrictions' = entries
      /\ Respond(c, entries[key])
      /\ UNCHANGED <<objects, feasibility, structures, related, robots>>

(* getRelated: looked up by the agent model only.                          *)
QueryRelated(c) ==
  LET i == FirstAnswering(c.request)
      entries == Extended(related[i], Single(c.agent, RelatedTo(c.request.om, c.agent, c.rest)))
  IN  /\ Answering(c.request) # {}
      /\ related' = [related EXCEPT ![i] = entries]
      /\ Respond(c, entries[c.agent])
      /\ UNCHANGED <<objects, feasibility, structures, restrictions, robots>>

(* Robot::getInstance: looked up by the pool only, for good; a robot keeps *)
(* what the object that asked first made of it.                            *)
QueryRobot(c) ==
  LET object == objects[FirstAnswering(c.request)]
      entries == Extended(robots, Single(c.pool, RobotIn(c.request.om, object.mapping, c.pool)))
  IN  /\ Answering(c.request) # {}
      /\ robots' = entries
      /\ Respond(c, entries[c.pool])
      /\ UNCHANGED <<objects, feasibility, structures, restrictions, related>>

(* Connectivity::resetQueryCache, OrganizationModel::resetQueryCache       *)
ResetFeasibility ==
  /\ feasibility' = NoEntries /\ told' = {}
  /\ UNCHANGED <<objects, structures, restrictions, related, robots>>

ResetQueryCache(om) ==
  /\ structures' = [k \in {j \in DOMAIN structures : j[1] # om} |-> structures[k]]
  /\ restrictions' = [k \in {j \in DOMAIN restrictions : j[1] # om} |-> restrictions[k]]
  /\ told' = {}
  /\ UNCHANGED <<objects, feasibility, related, robots>>

-----------------------------------------------------------------------------
Init ==
  /\ objects = <<>> /\ feasibility = NoEntries
  /\ structures = NoEntries /\ restrictions = NoEntries /\ related = <<>>
  /\ robots = NoEntries
  /\ told = {}

Next ==
  \/ \E r \in Request : FindInstance(r)
  \/ \E r \in Request : CreateInstance(r)
  \/ \E c \in StructureCall : KnownStructure(c)
  \/ \E c \in StructureCall : ComputeStructure(c)
  \/ \E c \in RestrictionCall : QueryRestrictions(c)
  \/ \E c \in RelatedCall : QueryRelated(c)
  \/ \E c \in RobotCall : QueryRobot(c)
  \/ ResetFeasibility
  \/ \E om \in {r.om : r \in Request} : ResetQueryCache(om)

Spec == Init /\ [][Next]_vars

-----------------------------------------------------------------------------
(* The answers of a process that has not been asked before.                *)
FreshChecks(pools, om, interface, timeout) ==
  {(pools \cap Connectable(om, interface)) \ late : late \in Late(pools, timeout)}

FreshMappings(r) ==
  {MappingOf(r, found) : found \in FreshChecks(Checks(r), r.om, r.interface, r.timeout)}

FreshStructures(c) ==
  {StructureOf(c, mapping, found) :
     mapping \in FreshMappings(c.request),
     found \in FreshChecks(Checks(c), c.request.om, c.request.interface, c.timeout)}

FreshRobots(c) ==
  {RobotIn(c.request.om, mapping, c.pool) : mapping \in FreshMappings(c.request)}

Calls == Request \cup StructureCall \cup RestrictionCall \cup RelatedCall \cup RobotCall

Fresh(c) ==
  CASE c \in Request -> FreshMappings(c)
    [] c \in StructureCall -> FreshStructures(c)
    [] c \in RestrictionCall -> {RestrictionsOf(c.request.om, c.rest)}
    [] c \in RelatedCall -> {RelatedTo(c.request.om, c.agent, c.rest)}
    [] c \in RobotCall -> FreshRobots(c)

Promise == INSTANCE FreshAnswers WITH Call <- Calls

(* How a program has to ask, since part of what an answer depends on is not*)
(* part of what it is looked up by: organization models whose ontologies   *)
(* have the same IRI are the same; requests differ in more than the        *)
(* neighbourhood; a coalition structure is asked for with one timeout, of  *)
(* one object; the related resources of an agent for one property and      *)
(* qualification, of one object; and the robot of a pool of one model.     *)
Disciplined ==
  /\ \A r, s \in Request :
       /\ Iri(r.om) = Iri(s.om) => r.om = s.om
       /\ r.om = s.om /\ r.bounded = s.bounded /\ r.timeout = s.timeout /\ r.interface = s.interface
            /\ Filtered(s.om, s.pool) = r.pool
            => FreshMappings(r) = FreshMappings(s)
  /\ \A c, d \in StructureCall : StructureKey(c) = StructureKey(d) => FreshStructures(c) = FreshStructures(d)
  /\ \A c, d \in RelatedCall : c.request.om = d.request.om /\ c.agent = d.agent => c.rest = d.rest
  /\ \A c, d \in RobotCall : c.pool = d.pool => FreshRobots(c) = FreshRobots(d)

(* Whatever has been asked before, and however checks have run out of time,*)
(* an answer is one that a fresh process might give, and the one that has  *)
(* been given before.                                                      *)
AnswersAreFresh == Promise!Spec
===============================================================================
