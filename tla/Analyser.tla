-------------------------------- MODULE Analyser -------------------------------
(***************************************************************************)
(* The analyser (src/src/Analyser.cpp): samples of what agents do and of   *)
(* what is required, collected in two vectors, indexed by raw pointers to  *)
(* their elements, and queries that follow the pointers.  Heuristics keeps *)
(* the energy consumed in a sample under the pointer to it.                *)
(*                                                                         *)
(* A vector moves its elements to a larger storage when it is full: a      *)
(* pointer names the storage, by its capacity, and the position in it.     *)
(* What the program does after it has followed a pointer to a storage that *)
(* is gone, or has left the bounds of an index, is undefined: nothing is   *)
(* modelled after that.                                                    *)
(*                                                                         *)
(* Locations lie on a line.  The resources of a sample are those functions *)
(* a metric is asked for.                                                  *)
(***************************************************************************)
EXTENDS Integers, Sequences, FiniteSets, Functions

CONSTANTS
  StatusSamples,       \* records: agent (its atomic agents), from, to, since < until
  RequirementSamples,  \* records: resources, from, to, since, until
  Consumption(_),      \* Heuristics: the energy an agent consumes in a status sample
  Share(_, _),         \* ... and the share of it that an atomic agent provides
  MaxIndexings         \* bound: calls of createIndex

(* Times are durations since the first sample, what an agent is made of is *)
(* finite, and energies are integers, in a unit fine enough for shares.    *)
SampleAssumption ==
  /\ \A s \in StatusSamples :
        /\ s.since \in Nat /\ s.until \in Nat /\ s.since < s.until
        /\ IsFiniteSet(s.agent)
        /\ Consumption(s) \in Int /\ \A a \in s.agent : Share(s, a) \in Int
  /\ \A r \in RequirementSamples : r.since \in Nat /\ r.until \in Nat
  /\ MaxIndexings \in Nat
ASSUME SamplesAreReal == SampleAssumption

VARIABLES
  statuses,        \* mStatusSamples
  requirements,    \* mRequirementSamples
  statusesAt,      \* mTimeIndexedStatusSamples
  requirementsAt,  \* mTimeIndexedRequirementSamples
  samplesOf,       \* mAtomicAgentIndexedSamples
  consumed,        \* Heuristics::mEnergyConsumption
  undefined,       \* the behaviour of the program is undefined
  indexings,       \* history: calls of createIndex
  resumed,         \* history: a status sample has been added after one
  unindexed        \* history: a requirement has been added since the last one

samples == <<statuses, requirements>>
index == <<statusesAt, requirementsAt, samplesOf>>
history == <<indexings, resumed, unindexed>>
analysis == <<samples, index, consumed, undefined, history>>

NoSamples == [elements |-> <<>>, capacity |-> 0]

AnalysisInit ==
  /\ statuses = NoSamples /\ requirements = NoSamples
  /\ statusesAt = <<>> /\ requirementsAt = <<>> /\ samplesOf = <<>>
  /\ consumed = <<>>
  /\ undefined = FALSE
  /\ indexings = 0 /\ resumed = FALSE /\ unindexed = FALSE

(* std::vector::push_back                                                  *)
PushBack(v, x) ==
  [elements |-> Append(v.elements, x),
   capacity |-> IF Len(v.elements) < v.capacity THEN v.capacity
                ELSE IF v.capacity = 0 THEN 1 ELSE 2 * v.capacity]

Pointers(v) == [i \in DOMAIN v.elements |-> [storage |-> v.capacity, position |-> i]]
At(v, pointer) == v.elements[pointer.position]
Dangles(v, pointer) == pointer.storage # v.capacity

Covers(sample, time) == sample.since <= time /\ time <= sample.until
Covering(v, time) == {i \in DOMAIN v.elements : Covers(v.elements[i], time)}
SameLocation(s, r) == s.from = r.from /\ s.to = r.to

(* What a loop over a vector keeps: what is at some positions, in order.   *)
Nth(positions, k) == CHOOSE i \in positions : Cardinality({j \in positions : j < i}) = k - 1
Kept(q, positions) == [k \in 1 .. Cardinality(positions) |-> q[Nth(positions, k)]]

Latest(times) == CHOOSE time \in times : \A t \in times : t <= time

(* mStatusMaxTime                                                          *)
StatusMaxTime == Latest({0} \cup {s.until : s \in Range(statuses.elements)})

-----------------------------------------------------------------------------
AddStatus(s) ==
  /\ statuses' = PushBack(statuses, s)
  /\ resumed' = (indexings > 0)
  /\ UNCHANGED <<requirements, index, consumed, undefined, indexings, unindexed>>

AddRequirement(r) ==
  /\ requirements' = PushBack(requirements, r)
  /\ unindexed' = TRUE
  /\ UNCHANGED <<statuses, index, consumed, undefined, indexings, resumed>>

(* The pointers to the samples that cover a time, in the order of adding   *)
(* them; both indexes end with the last status sample.                     *)
TimeIndex(v) == [time \in 0 .. StatusMaxTime |-> Kept(Pointers(v), Covering(v, time))]

PositionsOf(a) == {i \in DOMAIN statuses.elements : a \in statuses.elements[i].agent}
PointersFor(a) == Kept(Pointers(statuses), PositionsOf(a))
Known(a) == IF a \in DOMAIN samplesOf THEN samplesOf[a] ELSE <<>>

(* The requirements index is not as long as what it is filled from may     *)
(* require; the index by atomic agents is not cleared.                     *)
CreateIndex ==
  /\ indexings < MaxIndexings
  /\ statusesAt' = TimeIndex(statuses)
  /\ requirementsAt' = TimeIndex(requirements)
  /\ samplesOf' = [a \in DOMAIN samplesOf \cup UNION {s.agent : s \in Range(statuses.elements)} |->
                     Known(a) \o PointersFor(a)]
  /\ undefined' = (\E r \in Range(requirements.elements) : r.until > StatusMaxTime)
  /\ indexings' = indexings + 1 /\ unindexed' = FALSE
  /\ UNCHANGED <<samples, consumed, resumed>>

-----------------------------------------------------------------------------
(* Queries for an atomic agent: its samples up to the first one that covers*)
(* the time.  Of an agent without samples they throw.                      *)
\* Mutant: looks at all samples.
AllVisited(a, time) == samplesOf[a]

Visited(a, time) ==
  LET hits == {i \in DOMAIN samplesOf[a] : Covers(At(statuses, samplesOf[a][i]), time)}
  IN  IF hits = {} THEN samplesOf[a]
      ELSE SubSeq(samplesOf[a], 1, CHOOSE i \in hits : \A j \in hits : i <= j)

ConsumedIn(pointer) ==
  IF pointer \in DOMAIN consumed THEN consumed[pointer] ELSE Consumption(At(statuses, pointer))

(* getEnergyReductionAbsolute: the last sample counts as far as time goes  *)
PartOf(sample, energy, a, time) ==
  (energy * Share(sample, a) * ((IF Covers(sample, time) THEN time ELSE sample.until) - sample.since))
     \div (sample.until - sample.since)

EnergyReductionOf(a, time) ==
  LET visited == Visited(a, time)
      parts == [i \in DOMAIN visited |-> PartOf(At(statuses, visited[i]), ConsumedIn(visited[i]), a, time)]
  IN  SumFunctionOnSet(parts, DOMAIN visited)

EnergyReduction(agent, time) == SumFunctionOnSet([a \in agent |-> EnergyReductionOf(a, time)], agent)

AskAgent(a, time) ==
  /\ a \in DOMAIN samplesOf
  /\ LET visited == Range(Visited(a, time))
     IN  /\ undefined' = (\E p \in visited : Dangles(statuses, p))
         /\ consumed' = [p \in DOMAIN consumed \cup visited |-> ConsumedIn(p)]
  /\ UNCHANGED <<samples, index, history>>

(* Queries for a time: the coalition structure, and what is required of    *)
(* each of its agents, by location (getRequirements, getMetric).           *)
CoalitionStructure(time) ==
  [i \in DOMAIN statusesAt[time] |-> At(statuses, statusesAt[time][i]).agent]

\* Mutant: what is required anywhere is required of every agent.
RequiredAnywhere(time) ==
  [i \in DOMAIN statusesAt[time] |->
     UNION {At(requirements, p).resources : p \in Range(requirementsAt[time])}]

Requirements(time) ==
  [i \in DOMAIN statusesAt[time] |->
     UNION {At(requirements, p).resources :
              p \in {q \in Range(requirementsAt[time]) :
                       SameLocation(At(statuses, statusesAt[time][i]), At(requirements, q))}}]

AskTime(time) ==
  /\ undefined' = \/ time \notin DOMAIN statusesAt
                  \/ \E p \in Range(statusesAt[time]) : Dangles(statuses, p)
                  \/ \E p \in Range(requirementsAt[time]) : Dangles(requirements, p)
  /\ UNCHANGED <<samples, index, consumed, history>>

(* getCoalitionStructureValue                                              *)
Reductions(time) ==
  [i \in DOMAIN CoalitionStructure(time) |-> EnergyReduction(CoalitionStructure(time)[i], time)]

-----------------------------------------------------------------------------
Horizon == Latest({s.until : s \in StatusSamples \cup RequirementSamples})
Agents == UNION {s.agent : s \in StatusSamples}

(* An atomic agent does one thing at a time, and what it does is added in   *)
(* the order of time, agent by agent or all together.                      *)
InOrder(s) == \A t \in Range(statuses.elements) : s.agent \cap t.agent # {} => t.until < s.since

(* Bounds: each sample is added once, and one status sample at most after a *)
(* call of createIndex.                                                    *)
AnalysisNext ==
  /\ ~undefined
  /\ \/ \E s \in StatusSamples \ Range(statuses.elements) : ~resumed /\ InOrder(s) /\ AddStatus(s)
     \/ \E r \in RequirementSamples \ Range(requirements.elements) : AddRequirement(r)
     \/ CreateIndex
     \/ \E a \in Agents, time \in 0 .. Horizon : AskAgent(a, time)
     \/ \E time \in 0 .. Horizon : AskTime(time)

AnalysisSpec == AnalysisInit /\ [][AnalysisNext]_analysis

-----------------------------------------------------------------------------
(* The order the header documents: createIndex after the last status       *)
(* sample.  Requirements may follow, and further calls of createIndex.     *)
Documented == ~undefined /\ indexings > 0 /\ ~resumed

(* A query would not follow a pointer to a storage that is gone.           *)
Alive(v, pointers) == \A p \in Range(pointers) : ~Dangles(v, p)

(* The energy the coalition structure has used up to a time, by the indexes*)
(* and what Heuristics remembers, is that of the samples up to then, also  *)
(* if createIndex was called more than once and the index that is never    *)
(* cleared lists them twice.                                               *)
EnergyIsAccounted ==
  Documented =>
    /\ \A a \in DOMAIN samplesOf : Alive(statuses, samplesOf[a])
    /\ \A t \in DOMAIN statusesAt :
         LET active == UNION Range(CoalitionStructure(t))
             begun == {s \in Range(statuses.elements) : s.since <= t}
             spent == [s \in begun |-> [a \in s.agent \cap active |-> PartOf(s, Consumption(s), a, t)]]
             sums == [s \in begun |-> SumFunctionOnSet(spent[s], s.agent \cap active)]
         IN  SumFunctionOnSet(Reductions(t), DOMAIN Reductions(t)) = SumFunctionOnSet(sums, begun)

(* Each agent is evaluated against all that is required where it is, and   *)
(* nothing else: the two indexes agree about time, and though adding a     *)
(* requirement may move all of them none is looked for where it was, once  *)
(* createIndex has been called again.                                      *)
RequirementsReachAgents ==
  Documented /\ ~unindexed =>
    \A t \in DOMAIN statusesAt :
      LET active == Kept(statuses.elements, Covering(statuses, t))
      IN  /\ Alive(statuses, statusesAt[t]) /\ Alive(requirements, requirementsAt[t])
          /\ Requirements(t) =
               [i \in DOMAIN active |->
                  UNION {r.resources : r \in {q \in Range(requirements.elements) :
                                                Covers(q, t) /\ SameLocation(active[i], q)}}]
================================================================================
