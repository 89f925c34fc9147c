-------------------------- MODULE OrganizationSearch --------------------------
(***************************************************************************)
(* The search for the best way to divide a pool of agents into coalitions  *)
(* (src/src/utils/OrganizationStructureGeneration.cpp), which              *)
(* findFeasibleCoalitionStructure runs on its own thread.  Its control flow*)
(* is that of CoalitionSearch; it differs in the data.  Agents of the same *)
(* model are interchangeable, so a coalition is the pool of its models; a  *)
(* structure is worth as much as its worst coalition; partitions are pruned*)
(* against minima.                                                         *)
(*                                                                         *)
(* A pool is a function from models to counts.  Models are numbers in the  *)
(* order of their IRIs, the order AtomicAgent::toList() puts agents in.    *)
(***************************************************************************)
EXTENDS Integers, Sequences, FiniteSets, SequencesExt

CONSTANTS
  Models,    \* models of agents, numbered
  Problems,  \* what is searched: records of the agents and of their values
  Tiny,      \* numeric_limits<double>::min(): positive, above no value but 0
  Ceiling,   \* 1.0: no coalition is worth more, a potential starts from it
  Unbounded  \* numeric_limits<double>::max()

Size(pool) == SumFunctionOnSet(pool, Models)

SubPools(pool) ==
  {c \in [Models -> 0 .. Size(pool)] :
      Size(c) > 0 /\ \A m \in Models : c[m] <= pool[m]}

(* What the two value functions findFeasibleCoalitionStructure passes owe  *)
(* the search.                                                             *)
OrganizationAssumption ==
  /\ Models \subseteq Nat /\ IsFiniteSet(Models)
  /\ Tiny \in Nat \ {0} /\ Ceiling \in Nat /\ Unbounded \in Nat
  /\ Tiny <= Ceiling /\ Ceiling <= Unbounded
  /\ \A given \in Problems :
        /\ given.agents \in [Models -> Nat]
        /\ given.value \in [SubPools(given.agents) -> {0} \cup Tiny .. Ceiling]
ASSUME ProblemAssumption == OrganizationAssumption

VARIABLES
  agents,     \* mAgents
  value,      \* mCoalitionValueFunction
  bounds,     \* mIntegerPartitionBoundsMap
  best,       \* mCurrentBestCoalitionStructure
  bestValue,  \* mCurrentBestCoalitionStructureValue
  upperBound, \* mGlobalUpperBound
  boundMap,   \* findBest: bounds of the partitions that are left
  partition,  \* findBest: the partition that is searched
  path,       \* searchSubspace: the coalitions chosen, one per call
  todo,       \* searchSubspace: the combinations each call has left
  improved,   \* improvedResult
  pc

problem == <<agents, value, bounds>>
result == <<best, bestValue>>
calls == <<partition, path, todo, improved>>
vars == <<problem, result, upperBound, boundMap, calls, pc>>

(* prepare(): the bounds of the coalitions of a size.                      *)
SizeMaximum(n) ==
  Max({Tiny} \cup {value[c] : c \in {d \in DOMAIN value : Size(d) = n}})

SizeMinimum(n) ==
  Min({Unbounded} \cup {value[c] : c \in {d \in DOMAIN value : Size(d) = n}})

IntegerPartitions(n) ==
  {p \in UNION {[1 .. k -> 1 .. n] : k \in 1 .. n} :
      /\ SumFunctionOnSet(p, DOMAIN p) = n
      /\ \A i, j \in DOMAIN p : i <= j => p[i] >= p[j]}

\* Mutant: takes the largest minimum of the sizes.
EagerPartitionBounds(p) ==
  [maximum |-> Max({SizeMaximum(p[i]) : i \in DOMAIN p}),
   minimum |-> Max({SizeMinimum(p[i]) : i \in DOMAIN p})]

PartitionBounds(p) ==
  [maximum |-> Max({SizeMaximum(p[i]) : i \in DOMAIN p}),
   minimum |-> Min({SizeMinimum(p[i]) : i \in DOMAIN p})]

-----------------------------------------------------------------------------
(* findBest's boundMap                                                     *)

BestLowerBound(map, reached) ==
  Max({Tiny, reached} \cup {map[p].minimum : p \in DOMAIN map})

BestUpperBound(map, reached) ==
  Max({Tiny, reached} \cup {map[p].maximum : p \in DOMAIN map})

Pruned(map) ==
  [p \in {q \in DOMAIN map : map[q].maximum >= BestLowerBound(map, bestValue)} |->
     map[p]]

Erased(map, p) == [q \in DOMAIN map \ {p} |-> map[q]]

(* currentBestSolutionQuality() <= 1, for the quality that is asked for.   *)
Sufficient == bestValue > 0 /\ upperBound <= bestValue

-----------------------------------------------------------------------------
(* The tree searchSubspace walks                                           *)

(* How many agents of a model some coalitions have.                        *)
Members(cs, m) == SumFunctionOnSet([i \in DOMAIN cs |-> cs[i][m]], DOMAIN cs)

Remaining(cs) == [m \in Models |-> agents[m] - Members(cs, m)]

FirstModel(c) == Min({m \in Models : c[m] > 0})

(* m_k[0]: where the first agent of a combination stands in the list of    *)
(* the remaining ones, which is sorted by model.                           *)
FirstIndex(cs, c) ==
  SumFunctionOnSet(Remaining(cs), {m \in Models : m < FirstModel(c)})

Alpha(cs) ==
  LET k == Len(cs) + 1
  IN  CASE k = 1 -> 0
        [] k > 1 /\ partition[k] # partition[k - 1] -> 1
        [] OTHER -> FirstIndex(Front(cs), Last(cs))

(* As in CoalitionStructures the upper limit on m_k[0] excludes nothing.   *)
Combinations(p, cs, alpha) ==
  {c \in SubPools(Remaining(cs)) :
      Size(c) = p[Len(cs) + 1] /\ alpha <= FirstIndex(cs, c) + 1}

(* subspacePotentialValue                                                  *)
Potential(cs) ==
  Min({Ceiling} \cup {value[cs[i]] : i \in DOMAIN cs}
        \cup {SizeMaximum(partition[i]) : i \in Len(cs) + 1 .. Len(partition)})

(* The value findFeasibleCoalitionStructure gives a structure: as good as  *)
(* its worst coalition.                                                    *)
StructureValue(cs) == Min({value[cs[i]] : i \in DOMAIN cs})

-----------------------------------------------------------------------------
Init ==
  /\ \E given \in Problems : agents = given.agents /\ value = given.value
  /\ bounds = [p \in IntegerPartitions(Size(agents)) |-> PartitionBounds(p)]
  /\ best = <<>> /\ bestValue = 0 /\ upperBound = Unbounded
  /\ boundMap = [p \in {} |-> 0]
  /\ partition = <<>> /\ path = <<>> /\ todo = <<>> /\ improved = FALSE
  /\ pc = "start"

FindBest ==
  /\ pc = "start"
  /\ boundMap' = Pruned(bounds)
  /\ upperBound' = BestUpperBound(boundMap', bestValue)
  /\ pc' = "select"
  /\ UNCHANGED <<problem, result, calls>>

(* selectIntegerPartition: the highest maximum; averages, which only break *)
(* ties, are left open.  It never throws, since maxima start at Tiny.      *)
SelectPartition ==
  /\ pc = "select"
  /\ \E p \in DOMAIN boundMap :
        /\ \A q \in DOMAIN boundMap : boundMap[q].maximum <= boundMap[p].maximum
        /\ partition' = p
        /\ todo' = <<Combinations(p, <<>>, 0)>>
  /\ path' = <<>> /\ improved' = FALSE
  /\ pc' = "explore"
  /\ UNCHANGED <<problem, result, upperBound, boundMap>>

(* A call of searchSubspace returns: the outermost one to findBest.        *)
Return ==
  /\ todo' = Front(todo)
  /\ path' = IF path = <<>> THEN path ELSE Front(path)
  /\ pc' = IF Len(todo) = 1 THEN "round" ELSE "check"
  /\ UNCHANGED <<problem, result, upperBound, boundMap, partition, improved>>

Taken(c) == [todo EXCEPT ![Len(todo)] = @ \ {c}]

(* The combination completes a structure, which becomes the best one if it *)
(* is worth more.                                                          *)
CompleteStructure(c) ==
  LET cs == Append(path, c)
  IN  /\ Len(cs) = Len(partition)
      /\ IF StructureValue(cs) > bestValue
         THEN best' = cs /\ bestValue' = StructureValue(cs) /\ improved' = TRUE
         ELSE UNCHANGED <<result, improved>>
      /\ todo' = Taken(c)
      /\ pc' = "check"
      /\ UNCHANGED <<problem, upperBound, boundMap, partition, path>>

EnterSubspace(c) ==
  LET cs == Append(path, c)
  IN  /\ Len(cs) < Len(partition) /\ bestValue < Potential(cs)
      /\ path' = cs
      /\ todo' = Append(Taken(c), Combinations(partition, cs, Alpha(cs)))
      /\ UNCHANGED <<problem, result, upperBound, boundMap, partition, improved, pc>>

SkipSubspace(c) ==
  LET cs == Append(path, c)
  IN  /\ Len(cs) < Len(partition) /\ bestValue >= Potential(cs)
      /\ todo' = Taken(c)
      /\ pc' = "check"
      /\ UNCHANGED <<problem, result, upperBound, boundMap, partition, path, improved>>

Explore ==
  /\ pc = "explore"
  /\ \/ \E c \in Last(todo) : CompleteStructure(c)
     \/ \E c \in Last(todo) : EnterSubspace(c)
     \/ \E c \in Last(todo) : SkipSubspace(c)
     \/ Last(todo) = {} /\ Return

(* After each combination: is the best good enough, or as good as the      *)
(* partition allows?                                                       *)
Check ==
  /\ pc = "check"
  /\ \/ /\ Sufficient \/ bestValue = bounds[partition].maximum
        /\ Return
     \/ /\ ~Sufficient /\ bestValue # bounds[partition].maximum
        /\ pc' = "explore"
        /\ UNCHANGED <<problem, result, upperBound, boundMap, calls>>

\* Mutant: leaves a partition that has not improved the result in the map.
StickyFinishRound ==
  /\ pc = "round"
  /\ boundMap' = IF improved THEN Erased(boundMap, partition) ELSE boundMap
  /\ upperBound' = BestUpperBound(boundMap', bestValue)
  /\ pc' = IF DOMAIN boundMap' = {} THEN "done" ELSE "select"
  /\ UNCHANGED <<problem, result, calls>>

(* findBest, after a partition has been searched.  An improved partition   *)
(* counts with the value found while the others are pruned.                *)
FinishRound ==
  /\ pc = "round"
  /\ \/ /\ improved /\ Sufficient
        /\ pc' = "done"
        /\ UNCHANGED <<upperBound, boundMap>>
     \/ /\ ~improved
        /\ boundMap' = Erased(boundMap, partition)
        /\ upperBound' = BestUpperBound(boundMap', bestValue)
        /\ pc' = IF DOMAIN boundMap' = {} THEN "done" ELSE "select"
     \/ /\ improved /\ ~Sufficient
        /\ LET exact == [maximum |-> bestValue, minimum |-> bestValue]
               left == Pruned([boundMap EXCEPT ![partition] = exact])
           IN  /\ boundMap' = Erased(left, partition)
               /\ upperBound' = BestUpperBound(left, bestValue)
        /\ pc' = IF DOMAIN boundMap' = {} THEN "done" ELSE "select"
  /\ UNCHANGED <<problem, result, calls>>

Next == FindBest \/ SelectPartition \/ Explore \/ Check \/ FinishRound

Spec == Init /\ [][Next]_vars /\ WF_vars(Next)

-----------------------------------------------------------------------------
(* All divisions of some agents into coalitions, coalition by coalition:   *)
(* the reference the search is compared with.                              *)
Divisions ==
  [pool \in {given.agents : given \in Problems} |->
     {cs \in UNION {[1 .. k -> SubPools(pool)] : k \in 1 .. Size(pool)} :
         \A m \in Models : Members(cs, m) = pool[m]}]

(* findBest(1.0) returns a structure exactly if some division of the agents*)
(* into supporting coalitions exists, and then one of the best, although   *)
(* partitions are pruned, subspaces skipped and equal coalitions tried in  *)
(* one order only; and what it returns divides all the agents.             *)
FoundIsBest ==
  pc = "done" =>
    /\ \A cs \in Divisions[agents] : StructureValue(cs) <= bestValue
    /\ IF bestValue = 0 THEN best = <<>>
       ELSE best \in Divisions[agents] /\ StructureValue(best) = bestValue

(* findBest returns.                                                       *)
SearchEnds == <>(pc = "done")
==============================================================================
