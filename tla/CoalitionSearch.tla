--------------------------- MODULE CoalitionSearch ---------------------------
(***************************************************************************)
(* The anytime coalition structure search of                               *)
(* src/src/utils/CoalitionStructureGeneration.cpp: one object, shared by   *)
(* the thread that owns it and by the search threads anytimeSearch starts. *)
(*                                                                         *)
(* A step of a search makes at most one access to what the threads share:  *)
(* the current best solution (behind mSolutionMutex), mGlobalUpperBound    *)
(* and mCompletionTime (both without a lock).  What a search keeps on its  *)
(* stack (the bounds map, the recursion of searchSubspace) is local to it. *)
(* The statistics vectors are only appended to; an append is part of the   *)
(* step that decides it.                                                   *)
(*                                                                         *)
(* The search space is a parameter.  CoalitionStructures defines it for a  *)
(* set of agents; the assumptions below say what the search relies on.     *)
(***************************************************************************)
EXTENDS Integers, Sequences, FiniteSets

CONSTANTS
  Worker,             \* threads anytimeSearch can start
  Owner,              \* the thread that calls the object's methods
  Partition,          \* integer partitions
  NoPartition,        \* no partition selected yet
  Coalitions,         \* coalitions
  Length,             \* number of coalitions in a partition
  MaxBound,           \* mIntegerPartitionBoundsMap: maximum ...
  AvgBound,           \* ... and average
  Choice,             \* coalitions that may extend a partial structure
  Upcoming(_),        \* those of a set numeric::Combination may yield next
  Potential,          \* upper estimate for the extensions of a partial structure
  StructureValue,     \* mCoalitionStructureValueFunction
  Tiny,               \* numeric_limits<double>::min()
  Unbounded,          \* numeric_limits<double>::max()
  QualityNum,         \* requested quality betaStar = QualityNum / QualityDen
  QualityDen

Searcher == Worker \cup {Owner}

(* The complete structures of a partition: each coalition is one of those  *)
(* that may follow the ones before it.                                     *)
Prefix(cs, k) == [i \in 1 .. k |-> cs[i]]

IsPartial(p, cs) == \A i \in DOMAIN cs : cs[i] \in Choice[p][Prefix(cs, i - 1)]

Structures ==
  [p \in Partition |-> {cs \in [1 .. Length[p] -> Coalitions] : IsPartial(p, cs)}]

Structure == UNION {Structures[p] : p \in Partition}

ASSUME ThreadAssumption == Owner \notin Worker

ASSUME SpaceAssumption ==
  /\ NoPartition \notin Partition
  /\ Length \in [Partition -> Nat \ {0}]
  /\ \A p \in Partition : \A k \in 0 .. Length[p] - 1 :
        \A cs \in [1 .. k -> Coalitions] :
           IsPartial(p, cs) => /\ Choice[p][cs] \subseteq Coalitions
                               /\ k > 0 => Potential[p][cs] \in Int
  /\ \A cs \in Structure : StructureValue[cs] \in Int
  /\ \A S \in SUBSET Coalitions : Upcoming(S) \subseteq S

ASSUME BoundAssumption ==
  /\ Tiny \in Nat \ {0}
  /\ Unbounded \in Nat
  /\ AvgBound \in [Partition -> Nat]
  /\ MaxBound \in [Partition -> Tiny .. Unbounded]

(* What the two value functions owe the search: a structure is worth at    *)
(* most the maximum of its partition and the potential of each of its      *)
(* prefixes, and some structure reaches the average of its partition.      *)
ASSUME ValueContract ==
  /\ \A p \in Partition : \A cs \in Structures[p] :
        /\ StructureValue[cs] <= MaxBound[p]
        /\ \A k \in 1 .. Length[p] - 1 :
              StructureValue[cs] <= Potential[p][Prefix(cs, k)]
  /\ \A p \in Partition : \E cs \in Structures[p] :
        AvgBound[p] <= StructureValue[cs]

(* The sizes of its coalitions tell the partition a structure belongs to.  *)
ASSUME DistinctPartitions ==
  \A p \in Partition : \A q \in Partition \ {p} : Structures[p] \cap Structures[q] = {}

(* There are structures, finitely many of them: one is the best.           *)
Optima ==
  {cs \in Structure :
      \A other \in Structure : StructureValue[other] <= StructureValue[cs]}

OptimalPartitions == {p \in Partition : Structures[p] \cap Optima # {}}

ASSUME BestExists == Optima # {}

(* betaStar = 1 asks for the optimum, 1.05 for 95 percent of it.           *)
ASSUME QualityAssumption ==
  QualityNum \in Nat /\ QualityDen \in Nat \ {0} /\ QualityDen <= QualityNum

-----------------------------------------------------------------------------
VARIABLES
  bestStructure,    \* mCurrentBestCoalitionStructure, <<>> when there is none
  bestValue,        \* mCurrentBestCoalitionStructureValue
  globalUpperBound, \* mGlobalUpperBound
  completed,        \* mCompletionTime differs from the zero time
  statistics,       \* mStatistics: partitions pruned, partitions searched
  handle,           \* the thread mThread refers to, or Owner for none
  interrupted,      \* threads boost has been asked to interrupt
  pc,               \* what each thread does next
  open,             \* findBest's boundMap: its keys
  exact,            \* findBest's boundMap[partition] once it is an exact value
  partition,        \* the partition findBest selected last
  path,             \* searchSubspace: currentStructure of the deepest call
  todo,             \* searchSubspace: combinations left, one set per call
  improved,         \* improvedResult
  loaded            \* a shared value read earlier and not used yet

shared == <<bestStructure, bestValue, globalUpperBound, completed, statistics>>
threads == <<handle, interrupted>>
local == <<open, exact, partition, path, todo, improved, loaded>>
vars == <<shared, threads, pc, local>>

NoStatistics == [pruned |-> {}, searched |-> {}]

(* A thread's boundMap: the precomputed bounds, but for the partition      *)
(* searched last, whose entry is overwritten with the value found.         *)
AverageOf(t, p) == IF p = partition[t] THEN exact[t] ELSE AvgBound[p]
UpperOf(t, p) == IF p = partition[t] THEN exact[t] ELSE MaxBound[p]

(* prune() drops a partition whose maximum is below bestLowerBound(): the  *)
(* largest average of the map, the current best value, the tiny bound.     *)
\* Mutant: prunes against the largest maximum.
EagerDominated(t) == {p \in open[t] : \E q \in open[t] : UpperOf(t, p) < UpperOf(t, q)}

Dominated(t) ==
  {p \in open[t] : \/ UpperOf(t, p) < Tiny
                   \/ UpperOf(t, p) < bestValue
                   \/ \E q \in open[t] : UpperOf(t, p) < AverageOf(t, q)}

(* The values whose largest is bestUpperBound().                           *)
\* Mutant: takes the averages for the maxima.
LowUpperCandidates(t) == {Tiny, bestValue} \cup {AverageOf(t, p) : p \in open[t]}

UpperCandidates(t) == {Tiny, bestValue} \cup {UpperOf(t, p) : p \in open[t]}

(* currentBestSolutionQuality() <= betaStar for the two numbers it         *)
(* divides; the quotient is infinite while no solution has been found.     *)
WithinQuality(bound, value) ==
  value > 0 /\ bound * QualityDen <= value * QualityNum

(* The statistics prepare() leaves behind, its own call of prune included. *)
\* Mutant: prunes against the largest maximum.
EagerPreparedStatistics ==
  [pruned   |-> {p \in Partition : \E q \in Partition : MaxBound[p] < MaxBound[q]},
   searched |-> {}]

PreparedStatistics ==
  [pruned   |-> {p \in Partition : \/ MaxBound[p] < bestValue
                                   \/ \E q \in Partition : MaxBound[p] < AvgBound[q]},
   searched |-> {}]

Searching(t) == pc[t] \notin {"idle", "resetValue", "resetBound"}
NoSearch == \A t \in Searcher : ~Searching(t)

Goto(t, label) == pc' = [pc EXCEPT ![t] = label]

(* The constructor resets the object; no time of completion is set.        *)
Init ==
  /\ bestStructure = <<>>
  /\ bestValue = 0
  /\ globalUpperBound = Unbounded
  /\ completed = FALSE
  /\ statistics = PreparedStatistics
  /\ handle = Owner
  /\ interrupted = {}
  /\ pc = [t \in Searcher |-> "idle"]
  /\ open = [t \in Searcher |-> {}]
  /\ exact = [t \in Searcher |-> 0]
  /\ partition = [t \in Searcher |-> NoPartition]
  /\ path = [t \in Searcher |-> <<>>]
  /\ todo = [t \in Searcher |-> <<>>]
  /\ improved = [t \in Searcher |-> FALSE]
  /\ loaded = [t \in Searcher |-> 0]

-----------------------------------------------------------------------------
(* What the owner calls                                                    *)

(* findBest begins with a copy of the whole bounds map.                    *)
BeginSearch(t) ==
  /\ Goto(t, "prune")
  /\ open' = [open EXCEPT ![t] = Partition]
  /\ partition' = [partition EXCEPT ![t] = NoPartition]
  /\ UNCHANGED <<exact, path, todo, improved, loaded>>

(* anytimeSearch: mThread is assigned a new thread.  A thread it referred  *)
(* to before keeps running, detached.                                      *)
AnytimeSearch(w) ==
  /\ pc[Owner] = "idle" /\ pc[w] = "idle"
  /\ completed' = FALSE
  /\ handle' = w
  /\ interrupted' = interrupted \ {w}
  /\ BeginSearch(w)
  /\ UNCHANGED <<bestStructure, bestValue, globalUpperBound, statistics>>

(* findBest, called directly, runs on the owner's thread.                  *)
FindBest ==
  /\ pc[Owner] = "idle"
  /\ BeginSearch(Owner)
  /\ UNCHANGED <<shared, threads>>

(* stopSearch: a request boost delivers at the interruption points of the  *)
(* thread.  findBest and what it calls contain none.                       *)
StopSearch ==
  /\ pc[Owner] = "idle" /\ handle # Owner /\ Searching(handle)
  /\ interrupted' = interrupted \cup {handle}
  /\ UNCHANGED <<shared, handle, pc, local>>

(* reset(): three assignments, none of them under the lock, then prepare().*)
(* The completion time is not among them.                                  *)
ResetSolution ==
  /\ pc[Owner] = "idle"
  /\ bestStructure' = <<>>
  /\ statistics' = NoStatistics
  /\ Goto(Owner, "resetValue")
  /\ UNCHANGED <<bestValue, globalUpperBound, completed, threads, local>>

ResetValue ==
  /\ pc[Owner] = "resetValue"
  /\ bestValue' = 0
  /\ Goto(Owner, "resetBound")
  /\ UNCHANGED <<bestStructure, globalUpperBound, completed, statistics, threads, local>>

ResetBound ==
  /\ pc[Owner] = "resetBound"
  /\ globalUpperBound' = Unbounded
  /\ statistics' = PreparedStatistics
  /\ Goto(Owner, "idle")
  /\ UNCHANGED <<bestStructure, bestValue, completed, threads, local>>

-----------------------------------------------------------------------------
(* findBest                                                                *)

Prune(t) ==
  /\ pc[t] = "prune"
  /\ open' = [open EXCEPT ![t] = @ \ Dominated(t)]
  /\ statistics' = [statistics EXCEPT !.pruned = @ \cup Dominated(t)]
  /\ Goto(t, "bound")
  /\ UNCHANGED <<bestStructure, bestValue, globalUpperBound, completed, threads,
                 exact, partition, path, todo, improved, loaded>>

(* bestUpperBound reads the current best value under the lock ...          *)
ComputeBound(t) ==
  /\ pc[t] = "bound"
  /\ \E bound \in UpperCandidates(t) :
        /\ \A other \in UpperCandidates(t) : other <= bound
        /\ loaded' = [loaded EXCEPT ![t] = bound]
  /\ Goto(t, "publish")
  /\ UNCHANGED <<shared, threads, open, exact, partition, path, todo, improved>>

(* ... and findBest stores the result without one.  The partition searched *)
(* is erased from the map; with an empty map the search is over.           *)
\* Mutant: stops with one partition left.
HastyPublishBound(t) ==
  /\ pc[t] = "publish"
  /\ globalUpperBound' = loaded[t]
  /\ open' = [open EXCEPT ![t] = @ \ {partition[t]}]
  /\ Goto(t, IF Cardinality(open'[t]) <= 1 THEN "complete" ELSE "select")
  /\ partition' = [partition EXCEPT ![t] = NoPartition]
  /\ exact' = [exact EXCEPT ![t] = 0]
  /\ loaded' = [loaded EXCEPT ![t] = 0]
  /\ UNCHANGED <<bestStructure, bestValue, completed, statistics, threads,
                 path, todo, improved>>

PublishBound(t) ==
  /\ pc[t] = "publish"
  /\ globalUpperBound' = loaded[t]
  /\ open' = [open EXCEPT ![t] = @ \ {partition[t]}]
  /\ Goto(t, IF open'[t] = {} THEN "complete" ELSE "select")
  /\ partition' = [partition EXCEPT ![t] = NoPartition]
  /\ exact' = [exact EXCEPT ![t] = 0]
  /\ loaded' = [loaded EXCEPT ![t] = 0]
  /\ UNCHANGED <<bestStructure, bestValue, completed, statistics, threads,
                 path, todo, improved>>

(* selectIntegerPartition: the highest maximum, whichever of equals.  It   *)
(* throws when every maximum is zero, which Tiny <= MaxBound excludes.     *)
\* Mutant: records every partition it compares.
OvercountedSelectPartition(t) ==
  /\ pc[t] = "select"
  /\ \E p \in open[t] :
        /\ \A q \in open[t] : MaxBound[q] <= MaxBound[p]
        /\ partition' = [partition EXCEPT ![t] = p]
        /\ todo' = [todo EXCEPT ![t] = <<Choice[p][<<>>]>>]
        /\ statistics' = [statistics EXCEPT !.searched = @ \cup open[t]]
  /\ path' = [path EXCEPT ![t] = <<>>]
  /\ improved' = [improved EXCEPT ![t] = FALSE]
  /\ Goto(t, "explore")
  /\ UNCHANGED <<bestStructure, bestValue, globalUpperBound, completed, threads,
                 open, exact, loaded>>

SelectPartition(t) ==
  /\ pc[t] = "select"
  /\ \E p \in open[t] :
        /\ \A q \in open[t] : MaxBound[q] <= MaxBound[p]
        /\ partition' = [partition EXCEPT ![t] = p]
        /\ todo' = [todo EXCEPT ![t] = <<Choice[p][<<>>]>>]
        /\ statistics' = [statistics EXCEPT !.searched = @ \cup {p}]
  /\ path' = [path EXCEPT ![t] = <<>>]
  /\ improved' = [improved EXCEPT ![t] = FALSE]
  /\ Goto(t, "explore")
  /\ UNCHANGED <<bestStructure, bestValue, globalUpperBound, completed, threads,
                 open, exact, loaded>>

(* The partition improved the solution: its entry becomes the value found. *)
\* Mutant: enters the bound for the value found.
UpperRebound(t) ==
  /\ pc[t] = "rebound"
  /\ exact' = [exact EXCEPT ![t] = globalUpperBound]
  /\ Goto(t, "prune")
  /\ UNCHANGED <<shared, threads, open, partition, path, todo, improved, loaded>>

Rebound(t) ==
  /\ pc[t] = "rebound"
  /\ exact' = [exact EXCEPT ![t] = bestValue]
  /\ Goto(t, "prune")
  /\ UNCHANGED <<shared, threads, open, partition, path, todo, improved, loaded>>

(* The end of findBest, with which the thread's local state goes.          *)
\* Mutant: returns without a time of completion.
SilentComplete(t) ==
  /\ pc[t] = "complete"
  /\ Goto(t, "idle")
  /\ open' = [open EXCEPT ![t] = {}]
  /\ partition' = [partition EXCEPT ![t] = NoPartition]
  /\ improved' = [improved EXCEPT ![t] = FALSE]
  /\ UNCHANGED <<shared, threads, exact, path, todo, loaded>>

Complete(t) ==
  /\ pc[t] = "complete"
  /\ completed' = TRUE
  /\ Goto(t, "idle")
  /\ open' = [open EXCEPT ![t] = {}]
  /\ partition' = [partition EXCEPT ![t] = NoPartition]
  /\ improved' = [improved EXCEPT ![t] = FALSE]
  /\ UNCHANGED <<bestStructure, bestValue, globalUpperBound, statistics, threads,
                 exact, path, todo, loaded>>

-----------------------------------------------------------------------------
(* searchSubspace                                                          *)

Deepest(t) == Len(todo[t])

(* The deepest call returns.  The outermost one returns to findBest, which *)
(* asks for the quality of an improved solution and otherwise erases the   *)
(* partition; any other returns to its caller's loop.                      *)
Return(t) ==
  IF Deepest(t) > 1
  THEN /\ path' = [path EXCEPT ![t] = SubSeq(@, 1, Len(@) - 1)]
       /\ todo' = [todo EXCEPT ![t] = SubSeq(@, 1, Len(@) - 1)]
       /\ Goto(t, "quality")
       /\ UNCHANGED open
  ELSE /\ todo' = [todo EXCEPT ![t] = <<>>]
       /\ UNCHANGED path
       /\ IF improved[t]
          THEN Goto(t, "quality") /\ UNCHANGED open
          ELSE Goto(t, "bound") /\ open' = [open EXCEPT ![t] = @ \ {partition[t]}]

(* next_combination: the sets of combinations left once c has been taken.  *)
\* Mutant: does not advance the combination.
StuckWithout(t, c) == todo[t]
Without(t, c) == [todo[t] EXCEPT ![Deepest(t)] = @ \ {c}]

(* The next combination, which extends the partial structure: a complete   *)
(* structure is compared with the best, a partial one entered when its     *)
(* potential exceeds the best.                                             *)
Explore(t) ==
  /\ pc[t] = "explore"
  /\ \E c \in Upcoming(todo[t][Deepest(t)]) :
        LET p == partition[t]
            extended == Append(path[t], c)
            rest == Without(t, c)
        IN \/ /\ Len(extended) = Length[p]
              /\ todo' = [todo EXCEPT ![t] = rest]
              /\ IF StructureValue[extended] > bestValue
                 THEN path' = [path EXCEPT ![t] = extended] /\ Goto(t, "update")
                 ELSE Goto(t, "quality") /\ UNCHANGED path
           \/ /\ Len(extended) < Length[p]
              /\ bestValue < Potential[p][extended]
              /\ path' = [path EXCEPT ![t] = extended]
              /\ todo' = [todo EXCEPT ![t] = Append(rest, Choice[p][extended])]
              /\ UNCHANGED pc
           \/ /\ Len(extended) < Length[p]
              /\ bestValue >= Potential[p][extended]
              /\ todo' = [todo EXCEPT ![t] = rest]
              /\ Goto(t, "quality")
              /\ UNCHANGED path
  /\ UNCHANGED <<shared, threads, open, exact, partition, improved, loaded>>

(* updateCurrentBestCoalitionStructure compares again, under the lock.     *)
Stored(t) ==
  /\ improved' = [improved EXCEPT ![t] = TRUE]
  /\ path' = [path EXCEPT ![t] = SubSeq(@, 1, Len(@) - 1)]
  /\ Goto(t, "quality")
  /\ UNCHANGED <<globalUpperBound, completed, statistics, threads,
                 open, exact, partition, todo, loaded>>

\* Mutant: does not compare again under the lock.
UncheckedUpdate(t) ==
  /\ pc[t] = "update"
  /\ bestValue' = StructureValue[path[t]] /\ bestStructure' = path[t]
  /\ Stored(t)

\* Mutant: stores the structure after the last coalition was taken off.
PoppedUpdate(t) ==
  /\ pc[t] = "update"
  /\ bestValue' = StructureValue[path[t]]
  /\ bestStructure' = SubSeq(path[t], 1, Len(path[t]) - 1)
  /\ Stored(t)

\* Mutant: stores the structure outside the comparison.
HalfUpdate(t) ==
  /\ pc[t] = "update"
  /\ bestValue' = IF StructureValue[path[t]] > bestValue THEN StructureValue[path[t]]
                  ELSE bestValue
  /\ bestStructure' = path[t]
  /\ Stored(t)

Update(t) ==
  /\ pc[t] = "update"
  /\ IF StructureValue[path[t]] > bestValue
     THEN /\ bestValue' = StructureValue[path[t]]
          /\ bestStructure' = path[t]
          /\ improved' = [improved EXCEPT ![t] = TRUE]
     ELSE UNCHANGED <<bestValue, bestStructure, improved>>
  /\ path' = [path EXCEPT ![t] = SubSeq(@, 1, Len(@) - 1)]
  /\ Goto(t, "quality")
  /\ UNCHANGED <<globalUpperBound, completed, statistics, threads,
                 open, exact, partition, todo, loaded>>

(* currentBestSolutionQuality reads the bound and the value, one after the *)
(* other; C++ leaves it open which one first.                              *)
LoadForQuality(t) ==
  /\ pc[t] = "quality"
  /\ \/ loaded' = [loaded EXCEPT ![t] = bestValue] /\ Goto(t, "loadedValue")
     \/ loaded' = [loaded EXCEPT ![t] = globalUpperBound] /\ Goto(t, "loadedBound")
  /\ UNCHANGED <<shared, threads, open, exact, partition, path, todo, improved>>

JudgeQuality(t) ==
  /\ pc[t] \in {"loadedValue", "loadedBound"}
  /\ LET sufficient == IF pc[t] = "loadedValue"
                       THEN WithinQuality(globalUpperBound, loaded[t])
                       ELSE WithinQuality(loaded[t], bestValue)
         inFindBest == todo[t] = <<>>
     IN \/ /\ sufficient /\ ~inFindBest
           /\ Return(t)
        \/ /\ sufficient /\ inFindBest
           /\ Goto(t, "complete")
           /\ UNCHANGED <<open, path, todo>>
        \/ /\ ~sufficient
           /\ Goto(t, IF inFindBest THEN "rebound" ELSE "saturation")
           /\ UNCHANGED <<open, path, todo>>
  /\ loaded' = [loaded EXCEPT ![t] = 0]
  /\ UNCHANGED <<shared, threads, exact, partition, improved>>

(* No better structure is left when the best has reached the maximum of    *)
(* the partition.                                                          *)
CheckSaturation(t) ==
  /\ pc[t] = "saturation"
  /\ IF bestValue = MaxBound[partition[t]]
     THEN Return(t)
     ELSE Goto(t, "explore") /\ UNCHANGED <<open, path, todo>>
  /\ UNCHANGED <<shared, threads, exact, partition, improved, loaded>>

(* The combinations of the deepest call are exhausted.                     *)
Exhaust(t) ==
  /\ pc[t] = "explore" /\ todo[t][Deepest(t)] = {}
  /\ Return(t)
  /\ UNCHANGED <<shared, threads, exact, partition, improved, loaded>>

-----------------------------------------------------------------------------
SearchStep(t) ==
  \/ Prune(t) \/ ComputeBound(t) \/ PublishBound(t) \/ SelectPartition(t)
  \/ Rebound(t) \/ Complete(t)
  \/ Explore(t) \/ Update(t) \/ LoadForQuality(t) \/ JudgeQuality(t)
  \/ CheckSaturation(t) \/ Exhaust(t)

OwnerCall ==
  \/ \E w \in Worker : AnytimeSearch(w)
  \/ FindBest \/ StopSearch \/ ResetValue \/ ResetBound

(* The protocol of the repository's test: reset() only between searches.   *)
Next ==
  \/ \E t \in Searcher : SearchStep(t)
  \/ OwnerCall
  \/ NoSearch /\ ResetSolution

(* A client that resets whenever it likes.                                 *)
NextUnguarded ==
  \/ \E t \in Searcher : SearchStep(t)
  \/ OwnerCall
  \/ ResetSolution

(* The scheduler eventually runs a thread that can run.                    *)
Fairness ==
  /\ \A t \in Searcher : WF_vars(SearchStep(t))
  /\ WF_vars(ResetValue \/ ResetBound)

Spec == Init /\ [][Next]_vars /\ Fairness
SpecUnguarded == Init /\ [][NextUnguarded]_vars /\ Fairness

-----------------------------------------------------------------------------
(* Properties                                                              *)

Labels == {"idle", "resetValue", "resetBound", "prune", "bound", "publish",
           "select", "explore", "update", "quality", "loadedValue",
           "loadedBound", "saturation", "rebound", "complete"}

(* What kind of value each variable holds, and the shape of the recursion: *)
(* one set of combinations per call of searchSubspace, and one coalition   *)
(* per call that has a call below it (or a structure it is about to store).*)
TypeOK ==
  /\ bestStructure \in Structure \cup {<<>>}
  /\ bestValue \in Nat
  /\ globalUpperBound \in Nat
  /\ completed \in BOOLEAN
  /\ statistics \in [pruned : SUBSET Partition, searched : SUBSET Partition]
  /\ handle \in Searcher /\ interrupted \in SUBSET Worker
  /\ pc \in [Searcher -> Labels]
  /\ open \in [Searcher -> SUBSET Partition]
  /\ exact \in [Searcher -> Nat]
  /\ partition \in [Searcher -> Partition \cup {NoPartition}]
  /\ path \in [Searcher -> Seq(Coalitions)]
  /\ todo \in [Searcher -> Seq(SUBSET Coalitions)]
  /\ improved \in [Searcher -> BOOLEAN]
  /\ loaded \in [Searcher -> Nat]

(* No structure is worth more than betaStar times the current best value:  *)
(* what a completed search with that quality owes its caller.              *)
Sufficient(value) ==
  \A cs \in Structure : StructureValue[cs] * QualityDen <= value * QualityNum

GoodEnough == Sufficient(bestValue)

(* A search that is about to set the completion time has found a structure *)
(* of the quality it was asked for - with any number of searches running on*)
(* the object, each pruning with bounds and values the others write.       *)
CompletedIsGoodEnough == \A t \in Searcher : pc[t] = "complete" => GoodEnough

(* The quality a caller polls while a search runs never promises more than *)
(* is true: mGlobalUpperBound is an upper bound of all structures, or the  *)
(* best found is of the requested quality anyway.                          *)
IsUpperBound(bound) == \A cs \in Structure : StructureValue[cs] <= bound

BoundIsHonest ==
  \/ IsUpperBound(globalUpperBound)
  \/ GoodEnough
  \/ pc[Owner] = "resetBound"

(* The solution and its value belong together at every moment, whoever     *)
(* stores them; value 0 goes with no solution.  While reset() runs they do *)
(* not.  A caller who fetches both takes the lock twice, and may fetch one *)
(* of each of two moments.                                                 *)
SolutionHasItsValue ==
  pc[Owner] # "resetValue" =>
     bestValue = IF bestStructure = <<>> THEN 0 ELSE StructureValue[bestStructure]

(* A partition pruned for good held no optimal structure the search misses.*)
PrunedHoldNoOptimum ==
  statistics.pruned \cap OptimalPartitions # {} => GoodEnough

(* The progress a caller derives from statistics all searches append to. A *)
(* partition that still counts as remaining is open in every search.  One  *)
(* is counted as searched when its search starts, by whichever thread: if  *)
(* it holds an optimal structure, and nothing good enough has been found,  *)
(* some thread is within its search.                                       *)
Remaining == Partition \ (statistics.pruned \cup statistics.searched)

WithinSearchOf(t, p) == partition[t] = p /\ todo[t] # <<>>

ProgressIsAccounted ==
  /\ \A t \in Searcher : Searching(t) => Remaining \subseteq open[t]
  /\ \/ GoodEnough
     \/ \A p \in statistics.searched \cap OptimalPartitions : \E t \in Searcher : WithinSearchOf(t, p)

(* Between resets the best value only grows, and the solution changes only *)
(* together with it: a caller that polls never sees a result get worse.    *)
BestOnlyImproves ==
  [][\/ bestStructure' = <<>>
     \/ bestValue' >= bestValue /\ (bestStructure' # bestStructure => bestValue' > bestValue)
    ]_<<bestStructure, bestValue>>

(* The object implements the optimizer its interface describes: searches   *)
(* that only improve the value, and complete only when it is good enough.  *)
Optimizer == INSTANCE AnytimeOptimizer WITH
  Searchers <- Searcher,
  Values <- {StructureValue[cs] : cs \in Structure},
  value <- bestValue,
  running <- {t \in Searcher : Searching(t)},
  announced <- completed

ImplementsOptimizer == Optimizer!Spec

(* Every search comes to an end, whatever the other threads do.            *)
EverySearchEnds == \A t \in Searcher : Searching(t) ~> ~Searching(t)

(* A caller that polls anytimeSearchCompleted() is answered.               *)
SearchIsReported == \A w \in Worker : (Searching(w) /\ handle = w) ~> completed

-----------------------------------------------------------------------------
(* The inductive invariant behind them                                     *)

(* reset() has the object to itself, and no solution is left in it.        *)
ResetAlone == pc[Owner] \in {"resetValue", "resetBound"} => NoSearch /\ bestStructure = <<>>

(* The calls of searchSubspace on a thread's stack: call i chose path[i]   *)
(* and has the combinations todo[i] left, all of them choices there.       *)
CallStack(t) ==
  IF todo[t] = <<>>
  THEN path[t] = <<>> /\ pc[t] \notin {"explore", "update", "saturation"}
  ELSE LET p == partition[t]
           depth == Len(todo[t])
       IN /\ p \in Partition
          /\ pc[t] \in {"explore", "update", "saturation",
                        "quality", "loadedValue", "loadedBound"}
          /\ depth <= Length[p]
          /\ IF pc[t] = "update"
             THEN Len(path[t]) = depth /\ depth = Length[p]
             ELSE Len(path[t]) + 1 = depth
          /\ IsPartial(p, path[t])
          /\ \A i \in 1 .. depth : todo[t][i] \subseteq Choice[p][Prefix(path[t], i - 1)]

(* The entry of the partition searched last is no more than the best value.*)
MapEntry(t) ==
  /\ exact[t] <= IF pc[t] \in {"prune", "bound", "publish"} THEN bestValue ELSE 0
  /\ pc[t] = "select" => partition[t] = NoPartition

(* What a thread loaded from the shared state and has not used yet.        *)
LoadedValue(t) ==
  /\ pc[t] = "loadedValue" => loaded[t] <= bestValue
  /\ pc[t] \in {"loadedBound", "publish"} => GoodEnough \/ IsUpperBound(loaded[t])

(* A thread can still come across a structure: its partition has yet to be *)
(* searched, or it lies below a combination left in one of the calls, or it*)
(* is about to be stored.                                                  *)
CanReach(t, cs) ==
  \/ \E p \in open[t] \ {partition[t]} : cs \in Structures[p]
  \/ /\ partition[t] \in Partition
     /\ cs \in Structures[partition[t]]
     /\ \/ \E i \in 1 .. Len(todo[t]) :
              /\ \A j \in 1 .. i - 1 : cs[j] = path[t][j]
              /\ cs[i] \in todo[t][i]
        \/ pc[t] = "update" /\ cs = path[t]

(* No search loses sight of an optimal structure before one of the         *)
(* requested quality has been found.                                       *)
OptimumInReach(t) ==
  Searching(t) => GoodEnough \/ \A cs \in Optima : CanReach(t, cs)

ThreadInvariant(t) ==
  CallStack(t) /\ MapEntry(t) /\ LoadedValue(t) /\ OptimumInReach(t)

(* The inductive invariant: types, the safety properties about values and  *)
(* bounds, and what each thread's stack and map say.                       *)
SearchInvariant ==
  /\ TypeOK
  /\ BoundIsHonest
  /\ SolutionHasItsValue
  /\ CompletedIsGoodEnough
  /\ ResetAlone
  /\ \A t \in Searcher : ThreadInvariant(t)

(* What a search has closed is accounted for: neither pruned nor searched  *)
(* is open, and the partition it works on counts as searched.              *)
Accounted(t) ==
  Searching(t) =>
     /\ Remaining \subseteq open[t]
     /\ partition[t] \in Partition => partition[t] \in statistics.searched

(* A reset begins with clearing the statistics, and nobody adds to them    *)
(* before it is over.                                                      *)
StatisticsCleared ==
  pc[Owner] \in {"resetValue", "resetBound"} => statistics = NoStatistics

(* Unless something good enough has been found, a search that began on a   *)
(* partition is still running, and is on it or has closed it.              *)
Visited(t, p) == Searching(t) /\ (partition[t] = p \/ p \notin open[t])

SearchedAreVisited ==
  \A p \in statistics.searched : GoodEnough \/ \E t \in Searcher : Visited(t, p)

(* What it takes for the statistics a progress report is made of.          *)
StatisticsInvariant ==
  /\ PrunedHoldNoOptimum
  /\ StatisticsCleared
  /\ SearchedAreVisited
  /\ \A t \in Searcher : Accounted(t)
==============================================================================
