# MoreOrg: a formal model

MoreOrg is a C++ library that reasons about organizations of reconfigurable
robots: a *model pool* says how many agents of which type there are, an
ontology says which resources and functionalities each type has, and the
library answers which combinations of agents support which functionality, how
well, and how a pool is best divided into coalitions. This directory holds TLA+
modules of it, the TLC configurations that check them, and proofs for TLAPS.
Paths below are relative to the directory that holds `src/` and `tla/`; the
library's own sources are therefore under `src/src/`.

## 1. The system

| Component (source under `src/src/`) | State | Operations | Correct when |
|---|---|---|---|
| **Coalition structure generation** `utils/CoalitionStructureGeneration.*` | best structure and its value (one mutex), global upper bound and completion time (no lock), statistics (second mutex), a thread handle; per search a map of bounds and a recursion | `findBest`, `anytimeSearch`, `stopSearch`, `reset`, polls for solution, quality, completion | a search completes only with a structure of the requested quality, whatever else runs on the object; what is stored is consistent, honest and never gets worse; every search ends |
| **Organization structure generation** `utils/OrganizationStructureGeneration.*` | the same over pools of models instead of agents | `findBest` | it returns a division of the pool exactly if there is one whose parts all serve, and a best one |
| **Organization model queries** `OrganizationModelAsk.*` | static registry of instances; pool, functionality mapping, cache of related resources, timeout, neighbourhood of each | `getInstance`, `prepare`, `computeFunctionalityMapping` and its file cache, saturation bounds, support, minimality, feasibility, scaling, cardinalities, `findFeasibleCoalitionStructure` | an answer is the one for the arguments given; cached answers equal computed ones; the bounded mapping loses no pool that is needed |
| **Functionality mapping, query cache** `FunctionalityMapping.*`, `QueryCache.*` | pools by functionality, pool and bound they were computed for; cached restrictions and structures of an organization model | add, look up, save, load, reset | what is loaded is what was saved; a hit is what would be computed |
| **Model pools and algebra** `ModelPool.*`, `Algebra.*`, `ModelPoolIterator.*`, `algebra/ResourceSupportVector.*` | values | sums, differences, bounds, compositions, enumeration, support vectors | the order and lattice laws the queries rely on |
| **Connectivity** `algebra/Connectivity.*` | static cache of feasibility results | `isFeasible` (a Gecode search with timeout), reset | an answer is right, or a check ran out of time or was cut short by a symmetry; it stays the same |
| **Agents, organization model** `Agent.*`, `AtomicAgent.*`, `OrganizationModel.*`, `organization_model/*` | values | conversions | conversions lose nothing |
| **Robot facades** `facades/*` | static cache by pool | derived attributes, estimates | attributes add up; estimates agree with each other |
| **Resource reasoning** `reasoning/*` | values, Gecode models | assignment by number and by instance | both tell the same; nothing is assigned twice |
| **Policies** `Policy.*`, `policies/*` | static registry | selection, distribution | selections are made of the agents given; shares add up to the whole |
| **Inference rules** `InferenceRule.*`, `inference_rules/*` | values, a random number generator | look-up, evaluation | a rule and the attribute it stands for agree |
| **Resources, constraints** `Resource.*`, `PropertyConstraint*` | values | order, merge, fulfilment | merging is exact |
| **Metrics** `Metric.*`, `metrics/*` | what is available, assignments | redundancy | no resource is counted twice; the loops end |
| **Heuristics** `Heuristics.*` | none | times, energy, reconfiguration cost | only moves are charged |
| **Analyser** `Analyser.*`, `Sample.hpp` | samples in two vectors, three indexes of pointers into them, energies by pointer | add, index, queries by time and agent | sums over the indexes are those of the samples |
| **Composite framework** `ccf/*` | values | combinatorics | - |
| **Exporters, readers, benchmark** `exporter/*`, `io/*`, `Benchmark.cpp`, `utils/*Reader.cpp` | none | input and output | - |

**How they interact.** `OrganizationModelAsk` is the hub. `getInstance` builds
an object for a pool, `prepare` fills its functionality mapping - from a file
under `/tmp` when there is one, else by walking the combinations of the pool
(`ModelPool`, `Algebra`) and asking for support (`ResourceSupportVector`) and
feasibility (`Connectivity`). `findFeasibleCoalitionStructure` builds an
organization structure search, passes it callbacks that ask the same object for
support, and caches the answer in the `QueryCache` of the organization model.
Facades ask `OrganizationModelAsk` and, for values given by rules, the policies,
which ask both again; heuristics and metrics build on facades and on the
resource matchers. Ontology (owlapi), combinatorics (numeric) and constraint
solver (Gecode) are other libraries.

**What is hard.** Concurrency is in the two structure generators: a search runs
on a thread of its own, shares four fields with its owner under three
different disciplines, and a second search may be started on the same object.
Their algorithm is itself delicate: four bounds, one of them overwritten as the
search goes on, decide what is never looked at. Processes meet in the mapping
file, written in place without a lock. Within a process the hazards are caches
with incomplete keys, checks that run out of time, and a saturation bound and
constraints that scale pools up: integers compared, rounded and subtracted in
places far from each other. `PROJECT.json` lists each hazard at its line.

## 2. Modules

Each module EXTENDS the one it is indented under, or uses it as described.

```
AnytimeOptimizer                what a search promises
CoalitionStructures             sizes, partitions, bounds            section 3
CoalitionSearch                 threads and search
OrganizationSearch              the search over models               section 4
FunctionalityMapping            the mapping, its lines, its parser   section 5
  MappingFile                   processes and their cache file
ModelPools                      pools, algebra, combinations         section 6
  PoolIteration                 ranges of pools
  Connectivity                  feasibility of a pool and its cache
  ResourceSupport               support vectors
    Resources                   constraints, scaling
      AskQueries                mapping and queries of one object
        RobotFacade             attributes of composite robots       section 7
          Policies              selections, distribution, rules
            Heuristics          times, energy, cost
              Reasoning         inputs, and what answers agree on    section 6
    ResourceMatching            assigning resources to requirements
      Redundancy                the redundancy metric
Analyser                        samples, indexes, queries
FreshAnswers                    what the queries promise
AskCaches                       everything a process remembers       section 8
```

`Reasoning` puts questions to the pure part (`ModelPools` to `Heuristics`): its
states are inputs, its properties what the answers have to agree on, and
`MCReasoning` names the inputs that are checked; `MCAskCaches` composes the caches with the queries;
`MCEvaluation` runs the redundancy metric and an analyser side by side.

Proofs are in modules that extend the ones they are about: `CoalitionSearchProofs`
(with `CoalitionStructures`), `OrganizationSearchProofs`, `RememberedProofs`
(the mapping file and the caches), `ConnectivityProofs`, `AskQueriesProofs` (the
algebra and the queries), `ReasoningProofs`, `EvaluationProofs`. `FiniteSums` has what
several of them need: sums and counts over finite sets, sorted listings,
recursion and induction. The library's induction theorems take an operator, which
the installed provers cannot instantiate; the ones of `FiniteSums` take the *set*
of the elements, numbers or subsets for which the claim holds, which they can.

Still worth doing: `getRelated` with its filters; the composite framework on
scenarios that fit a model checker.

## 3. Coalition structure generation

### The modules

`CoalitionStructures` is the data: agents, coalitions, integer partitions,
the bounds `prepare` computes for sizes and partitions, and the tree
`searchSubspace` walks - which combinations follow a partial structure (with the
`alpha` rule that avoids the same structure in another order) and what the
subspace below it is worth at most. `CoalitionSearch` is the algorithm with its
threads, over a search space it takes as CONSTANTS. The two meet in
`MCCoalitionSearch`, which computes the space from concrete agents. So the
proofs hold for every space that meets the named assumptions, and
`MCCoalitionStructures` checks that the computed ones do.

| TLA+ (`CoalitionSearch`) | C++ |
|---|---|
| `bestStructure`, `bestValue` | `mCurrentBestCoalitionStructure`, `...Value`, `mSolutionMutex` |
| `globalUpperBound`, `completed` | `mGlobalUpperBound`, `mCompletionTime != base::Time()`, without a lock |
| `statistics` | `mStatistics.pruned/searchedIntegerPartitions` |
| `handle`, `interrupted` | `mThread`, what `interrupt()` was called for |
| `open`, `exact`, `partition` | `boundMap` of `findBest`: its keys; the one entry it overwrites; the last selection |
| `path`, `todo` | the recursion of `searchSubspace`: the coalitions chosen, one per call, and the combinations each call has left |
| `improved` | `improvedResult`, which each call passes up |
| `loaded` | a shared value that has been read and not used yet |

`Prune`, `ComputeBound`, `PublishBound`, `SelectPartition`, `Rebound` and
`Complete` are the stages of `findBest`; `Explore`, `Update`, `CheckSaturation`
and `Exhaust` those of `searchSubspace`; `LoadForQuality` and `JudgeQuality` are
`currentBestSolutionQuality`, called by both. The owner's calls are `FindBest`,
`AnytimeSearch`, `StopSearch` and `ResetSolution; ResetValue; ResetBound`.

*Grain of atomicity.* A step touches the state shared by threads at most once,
so every interleaving of reads and writes of the C++ code is one of the model.
Where the code reads two shared values in one expression (the quality), the
model has two steps in either order. A data race on `mGlobalUpperBound` or
`mCompletionTime` yields the old or the new value, as on every platform the
library builds for.

*Abstractions.* Coalition values are integers in a unit that makes all averages
exact (assumption `AveragesExact`): rounding is left out. `double`'s smallest
positive value and largest value are the constants `Tiny` and `Unbounded`. Which combination
`numeric::Combination` yields next is that library's business: `Upcoming` lets
any of them be next, or a fixed one. Equal maxima are tried in any order.
`Structure` is in fact a set of sequences: the code's structures are vectors in
the order of the partition. Elapsed times, logging and
printing, the overloads for bounds by size that nothing calls, and the
destructor are left out. The thread that owns the object calls `reset` only
when no search runs in `Spec`, as the repository's test does; `SpecUnguarded`
lifts that.

`AnytimeOptimizer` is the interface as its comments describe it: a value that
only improves while someone searches, an announcement only of a sufficient
value, a restart only when nobody searches. `CoalitionSearch` implements it
(`ImplementsOptimizer`), hiding partitions, bounds and recursion.

### The assumptions

| Assumption | Why the code justifies it |
|---|---|
| `ThreadAssumption` | the owner is no thread the object started |
| `SpaceAssumption` | shape of partitions, choices, potentials; combinations come from the remaining ones |
| `BoundAssumption` | `Bounds` starts at the smallest positive double, so no maximum is zero |
| `ValueContract` | the values are additive over coalitions, as those of the repository's test: then maxima bound, and averages are reached. Checked by `organization_search` for every assignment of three levels to seven coalitions |
| `BestExists` | there are finitely many structures, at least one |
| `DistinctPartitions` | the sizes of its coalitions tell which partition a structure belongs to |
| `QualityAssumption` | the quality is a factor of at least 1 |

The value contract is a real restriction: a caller whose structure value is not
the sum of the coalition values gets no guarantee from this search.

### What the runs check

| Run | Instance | Shows |
|---|---|---|
| `search_threads` | the three agents and values of the first repository test; one background thread and the owner; optimum requested; one order of combinations | types; a search completes only with the optimum although the other one updates best value, bound and map inputs under it; the bound a caller polls is honest; solution and value agree; no pruned partition holds an optimum; a partition reported as remaining is open, and an optimum reported no longer is found or within a running search; the best never gets worse; refinement of `AnytimeOptimizer`; every search ends, and a caller that polls `anytimeSearchCompleted()` is answered |
| `search_invariant` | one thread, the four agents of the second repository test, combinations in every order, quality 5/4 | the inductive invariant of the proofs, early termination included; pruning of partitions and subspaces at several depths (five partitions, fifteen structures) never loses the optimum |
| `organization_search`, which shares its instances with section 4 | three agents, every function from coalitions to three levels; six agents, all 203 divisions | partition maxima and subspace potentials bound what lies in them; averages are reached; the `alpha` rule leaves at least one order of each division |

*Bounds.* Three agents give three partitions, one pruned at once, one with a
repeated size (so `alpha` matters) and one of depth three; with two searches
every pair of stages overlaps. Four agents are the least with two equally large
coalitions of more than one agent ([2,2]) and with a partition whose parts
repeat below a different one ([2,1,1]). Six agents are the least with three
pairs. Number of restarts, resets and interruptions is not bounded: the state
space is finite without.

Deadlock is checked everywhere: the owner can always call.

*Fairness.* `WF_vars(SearchStep(t))` for each thread and weak fairness for
finishing a `reset` that was begun: the operating system runs a runnable thread,
and the critical sections are short and never nested, so no lock starves. No
call of the owner is assumed to happen.

### Where code and comments differ

The run `search_reset` is expected to find a violation: `reset` is commented
"Reset in order to restart a new search", but during a search it makes that
search complete with a lesser solution or none.

Three more divergences the model shows, none of which harms a caller within the
repository:

- `stopSearch`: "Stop the search before completion". `interrupt()` acts at
  interruption points, of which the search has none: it completes (in the model
  `StopSearch` changes nothing a search looks at).
- `anytimeSearchCompleted`: false "if search has not been started at all". After
  a search and a `reset` it stays true with no solution.
- "Quality of the solution, i.e. 1.05 means 95% percent of the optimal
  solution". A search repeated on the object erases a partition it returned from
  early, and the bound then lies below the optimum, so the quality reported is
  too good. That does not contradict `BoundIsHonest`: whenever the bound is too
  low the solution already has the quality requested, so the search may stop.

### What is proved

`CoalitionSearchProofs` proves, for any number of threads, any search space and
any quality within the assumptions:

| Theorem | Statement |
|---|---|
| `SearchInvariantHolds` | `Spec => []SearchInvariant` |
| `TypeCorrect` | `Spec => []TypeOK` |
| `CompletionIsCorrect` | `Spec => []CompletedIsGoodEnough` |
| `BoundIsCorrect` | `Spec => []BoundIsHonest` |
| `SolutionIsConsistent` | `Spec => []SolutionHasItsValue` |
| `BestImproves` | `Spec => BestOnlyImproves` |
| `SearchImplementsOptimizer` | `Spec => ImplementsOptimizer` |
| `StatisticsInvariantHolds` | `Spec => []StatisticsInvariant` |
| `PruningIsSafe` | `Spec => []PrunedHoldNoOptimum` |
| `ProgressIsHonest` | `Spec => []ProgressIsAccounted` |

*The argument.* "A search completes only when good enough" says nothing about
the steps before, so it is not inductive. What carries it is `OptimumInReach`:
as long as no sufficient structure has been found, every optimal structure is
still in reach of every running search (`CanReach`) - its partition is open, or
it lies below a combination some call on the stack still has, or it is about to
be stored. A search completes with an empty map and an empty stack, so nothing
is in reach, so the value must be sufficient. To show that each step keeps the
optima in reach the invariant needs three more parts:

- `CallStack`: what the stack holds is a partial structure with choices that
  extend it. Otherwise "lies below" says nothing about the next `Explore`, and
  `Exhaust` of an inner call could drop combinations of an outer one.
- `MapEntry`: the overwritten entry of a search's map never exceeds the best
  value. Another thread may have improved the best value in the meantime, but
  nobody lowers it; so when `Prune` drops a partition because of that entry, the
  best value is at least as large and the partition holds no better structure.
- `LoadedValue`: a value read earlier is no larger than the best value now, a
  bound read or computed earlier is a bound still, or the solution is good enough. That is
  why the unlocked quality computation is sound: both reads err to the safe side.

`ResetAlone` says that a reset has the object to itself; without it (the run
`search_reset`) the argument fails at `MapEntry` and `LoadedValue`. The proof
that the invariant is inductive has one lemma per action; the refinement
follows from the invariant: `Complete` maps to `Finish` because of
`CompletedIsGoodEnough`, `Update` to `Improve`, all other search steps to
stuttering.

The statistics are shared by all searches since a reset, so what they say must
be carried from each search to the next. `Accounted`: what a search has closed
is among the pruned or the searched, and the partition it works on is counted as
searched already - so that erasing it from the map, or taking it back after an
improvement, disturbs nothing. `StatisticsCleared`: nothing is pruned while
`reset()` takes the best value away, when an optimum that was rightly pruned
would be missed. That a search prunes no optimal partition while something is
left to find (`PrunedOptimum`) has two cases. The maximum of a partition that is
not the one searched last is the initial one, and no average or best value is
above it (`ValueContract`). The maximum of the one searched last has been
overwritten; but its search is over, so by `OptimumInReach` the optimum lies in
another partition that is still open - which `DistinctPartitions` excludes.

A partition counts as searched as soon as its search starts (`:371`), so a progress
report leaves out partitions somebody still works on. What it may not do is leave
out an optimum nobody works on: `SearchedAreVisited` says that each partition
counted as searched is one some running search is in, or has closed, unless
something sufficient has been found. If it holds an
optimum and nothing sufficient has been found, a search that has closed it would
have lost the optimum, which `OptimumInReach` excludes; so it is within it
(`WithinSearchOf`).

`CoalitionSearchProofs` also proves, for any number of agents and any natural
values of coalitions, what the assumptions above ask of the space `prepare` and
`searchSubspace` make of them:

| Theorem | Statement | Discharges |
|---|---|---|
| `BoundsAdmissible` | `StructuresSpec => []BoundsAreAdmissible` | maxima and potentials bound (`ValueContract`) |
| `AverageReached` | `StructuresSpec => []AverageIsReached` | averages are reached (`ValueContract`) |
| `StructuresEnumerated` | `StructuresSpec => []EveryStructureIsEnumerated` | nothing is lost to the `alpha` rule (`BestExists`) |

`StructuresSpec` is that of `MCCoalitionStructures`, whose states are instances;
`InstanceAssumption` says that numbers of agents are positive and values natural.
A partition's maximum is the sum of the largest values of its sizes, and a
structure has one coalition per size: the bound follows term by term, and for a
partial structure from its own value and the sizes that are left.

The `alpha` rule asks that coalitions of equal size come in the order of their
smallest agents. Any division can be listed that way: the sort goes by size,
then by smallest agent (`TotallyOrders`, `OrderedListing`), and each coalition
of the listing then is among the combinations its predecessors leave.

That an average is reached is no statement about one structure. `prune` takes the
average of the values of all coalitions of a size, for each size of the
partition, and adds them up. The proof fixes one division of that shape and lets
all permutations of the agents act on it. A coalition is taken to each one of its
size equally often (`RenamedEvenly`: a permutation that exchanges two targets
maps the renamings to one onto those to the other), so the values of all images
sum up to the number of permutations times the average (`AverageOverPermutations`,
exchanging the order of summation by `RowsAndColumns`), and one image is at
least as good (`SomeReachTheAverage`).

*Only model-checked:* `EverySearchEnds` and `SearchIsReported` (liveness under
fairness is beyond the prover).

## 4. Organization structure generation

`OrganizationSearch` is `findBest` of the second generator with all it calls:
`prepare` (representative coalitions, bounds by size and partition), `prune`,
`selectIntegerPartition`, `searchSubspace`. Where `CoalitionSearch` has agents,
this one has pools: a combination of agents counts as the pool of its models,
and of equal combinations one is tried. A structure is worth as much as its
worst coalition - that is what the callback of `findFeasibleCoalitionStructure`
computes, the only caller.

| TLA+ | C++ |
|---|---|
| `bounds`, `boundMap` | `mIntegerPartitionBoundsMap`, the `boundMap` of `findBest` |
| `best`, `bestValue`, `upperBound` | `mCurrentBestCoalitionStructure`, `...Value`, `mGlobalUpperBound` |
| `partition`, `path`, `todo`, `improved` | as in `CoalitionSearch` |

The run `organization_search` (which has the data of section 3 beside it: the two
share no state, and one starts only where the other is trivial) compares what is found with `Divisions`, all the
divisions of the pool by definition (`FoundIsBest`), for every assignment of
three levels to the coalitions of three agents of two models, and every 0/1
assignment for four agents; and checks that the search returns (`WF_vars(Next)`:
one thread, nothing to wait for). Two agents of each model are the least for two
coalitions of one size that contain equal agents, where the `alpha` rule may
lose a structure. Its anytime search shares the threads of section 3 and is not
modelled again.

`OrganizationSearchProofs` proves it for any models, any pool of agents and any
values of its coalitions:

| Theorem | Statement |
|---|---|
| `OrganizationInvariantHolds` | `Spec => []OrganizationInvariant` |
| `FoundBest` | `Spec => []FoundIsBest` |

`OrganizationAssumption` is what they take for granted: finitely many models,
numbered in the order of their IRIs; a value for each coalition of the agents, 0
or between `Tiny` (the least positive double) and `Ceiling` (1.0, where the
potential starts). The callbacks of `findFeasibleCoalitionStructure` return 0 or
1, and a structure's value is then its worst coalition's. `Tiny` has to be among
the assumptions: maxima and bounds start from it, so a better division that is
worth less could be pruned.

`FoundIsBest` speaks of the last state only. Inductive is that *every optimal
division stays ahead of the search until its value is reached* (`Kept`,
`Reachable`): it is not worth more than the upper bound; unless something as good
has been found its partition is left in the map; and if that partition is
searched now, some call of `searchSubspace` has chosen the division's first
coalitions and not yet tried its next one (`Ahead`). Calls below that one may be
anywhere. With it goes what the steps rely on: the sizes and the remaining agents
of what is chosen and of what is still to be tried (`Stacked`), the bounds in the
map (`Mapped`), the value recorded with the best structure (`Recorded`).
TLC checked this invariant on a part of the instances of the run, and the proof
then has one lemma per action. What they rest on:

- *Order.* `searchSubspace` tries combinations by size, and of one size by the
  place of their first agent among the remaining ones, counted with the agents
  gone. Every division can be put into the order of sizes and first models
  (`OrderExists`), and then each coalition's place is not before the one its
  predecessor had (`LaterIndex`, `AlphaAllows`), though fewer agents are left.
  So it is among the combinations that are tried (`NextCoalitionIsTried`).
- *Bounds.* A structure is worth its worst coalition. A partition's maximum is the
  *largest* of the maxima of its sizes, so it bounds by far (`WorthIsBounded`); a
  minimum counts towards the lower bound, which is safe since some division of the
  agents has these sizes (`PartitionsAreTaken`) and the best is at least as good
  (`PromiseIsKept`).
- *Skipping.* A subspace is left out if the best value reaches its potential, which
  is at least the value of each division in it (`PotentialIsReached`).

*Only model-checked:* that the search ends (`SearchEnds`).

## 5. The functionality mapping and its cache file

### The modules

`OrganizationModelAsk::computeFunctionalityMapping` looks for a file under
`/tmp` named after the pool. When it can be opened the mapping is loaded from it,
otherwise it is computed and saved there. Any number of processes share these
files, and the files outlive them.

`FunctionalityMapping` holds the mapping (`Add`, `FunctionalitiesOf`), the lines
`save` writes (`SaveLines`) and `fromFile` as a machine that is fed one line at a
time (`ParseLine`): the header ends at a rule, the first blank line ends the
pool, later ones the bound; in the body a name starts a functionality and a
blank line ends a pool. A line is reduced to its columns; a comment to their
number, which decides how it is read when its `#` is not the first byte.

| TLA+ (`MappingFile`) | C++ |
|---|---|
| `exists`, `written`, `saved` | the file: whether it is there, which of its lines, and of which mapping |
| `computed` | what `computeBounded/UnboundedFunctionalityMapping` yields |
| `pc`, `mapping` | where each process is in `computeFunctionalityMapping`, and its result |
| `position` | lines written by `save`, or read by `fromFile` |
| `parser`, `behind` | locals of `fromFile`; the line read next begins with NUL bytes |

*The file.* `std::ofstream` truncates and does not lock, `std::endl` flushes
each line, and the lines depend on the mapping only. So two processes that save
at the same time write the same bytes to the same places; but a process that is
truncated under goes on at its old offset, and up to there the file has a hole
that reads as NUL bytes. Hence the set `written` of line numbers, and
`BehindHole`, the first line after a hole as `fromFile` takes it: no comment and
no blank line any more. A `#` comment of two columns then has a count that is
no number and the load throws (`failed`).

*The environment.* `Restart`: a process dies anywhere, or has ended, and starts
anew. `Revise`: while none runs, the organization model is exchanged for
another one with the same pool. `CannotOpenFile`: `/tmp` cannot be written.
Models that change while processes overlap, a line that is written in part, and
two pools whose hashes collide are left out. The order in which `std::map` and
`std::set` iterate is the constant operator `Sorted`.

### What the runs check

| Run | Instance | Shows |
|---|---|---|
| `mapping_file_load` | one process, 16 mappings of two models and two functionalities | a mapping loaded from a file cut off anywhere claims nothing that was not saved; one loaded from a file that was not cut off is the saved one, in its pool, bound, order and supports |
| `mapping_file_writers` | three processes, the shortest mapping (20 lines); nobody loads before the others are done | truncating each other, they leave a complete file unless one dies; what a death leaves behind, holes included, is loaded or refused |

The code trusts any file it can open, whose name says nothing of the
organization model. So after a crash the mapping may be a part of the one that
was saved, and after `Revise` the one of another model; the properties say how
far an answer may be off.

*Bounds.* The sixteen mappings hold the empty one, a functionality without
support, two pools in one functionality and a pool that is part of another.
`OthersAreDone` is a state constraint: when a process loads a file that others
still write, the others are cut short; the properties of that run are about the
writers. Three writers are the least for a carrier to be replaced twice.
Restarts and revisions are not bounded.
All properties are safety: a process may die for ever, so nothing is promised.

### What is proved

`RememberedProofs`, for any mapping that `MappingAssumption` describes:

| Theorem | Statement |
|---|---|
| `FileCarried` | `FileSpec => [](CarriedInvariant /\ FileIsCarried)`, for any number of processes |
| `FileComplete` | `FileSpec => []UndisturbedFileIsComplete`, for any number of processes |
| `LoadingInvertsSaving` | reading what `save` writes yields the mapping, by states that are sound all the way |
| `LoadIsPartial` | `FileSpec => [](LoadInvariant(p) /\ CarriedInvariant)` for `Process = {p}` |
| `LoadSound` | `FileSpec => []LoadedIsSound` for `Process = {p}` |
| `LoadExact` | `FileSpec => []UndisturbedLoadIsExact` for `Process = {p}` |

*The file is complete.* That nobody is saving says nothing of the step before.
What each step keeps is that somebody who is saving has left out no line up to
its own position: after a truncation that is the one that truncated, as it
starts at the beginning; when it closes the file its position is the last line.
A death while saving takes the carrier away, and with it the claim. The proof
needs of the types only that positions are natural numbers.

*Loading inverts saving.* `Reads(m, st, s, st2)` says that the lines `s` take
`fromFile` from state `st` to `st2`, and that no state on the way claims a
support that `m` does not have. Such readings are joined (`ReadOn`), also along
sequences of sequences (`PartsAreRead`), so that each section of the file has a
lemma of its own: the lines of a pool collect that pool, names enter
functionalities, the first blank line ends the pool and later ones the bound,
and in the body a blank line adds the pool that was collected. That `Add` keeps
supported functionalities and active pools in step with the entries is where
`IsMapping` comes in.

*A file that is cut off.* One process after another (`Process = {p}`, restarted
any number of times) leaves a file that is a beginning of what was saved, and a
loading process is where the lines it has read lead to (`LoadInvariant`). What
it has when the file ends is therefore sound, and by `FileIsCarried` it has read
all of it unless a process died while saving.

`MappingAssumption` says what `computeBounded/UnboundedFunctionalityMapping`
yields for a pool that is not empty (it returns early for an empty one, and
throws when there are no functionalities): entries for the functionalities the
mapping was constructed with, no empty pool in them, because `add` skips it,
supported functionalities and active pools in step; names are IRIs, no `#` and
no `---`; `Sorted` lists a set.

*Not claimed:* soundness of a file with a hole, hence the single process. When
two processes overlap and the one that truncated dies, the hole may hide the
name of a functionality, and the pools behind it are then attributed to the one
named before it.

## 6. Pools, support and queries

### The modules

`ModelPools` has pools as functions from the models they have an entry for, as
the `std::map` does: a model with count 0 differs from an absent one until
`compact()`. `ResourceSupport` computes the support vectors of functionalities
and pools from an ontology, given as a record of what the library asks it for;
`Resources` merges constraints and scales pools to meet them. `AskQueries` puts
them together: `Prepared` is what `prepare()` and
`computeFunctionalityMapping` make of a pool, with the saturation bound and the
neighbourhood or without; `ResourceSupport`, `IsSupporting`, `SupportType`,
`IsMinimal` and the cardinalities are queries of the resulting object.
`PoolIteration` is the iterator the benchmark walks ranges of pools with.

`Connectivity` is a state machine: one process asks for the feasibility of
pools, with a timeout and a required number of solutions; a depth-first search
tries links in any order and evaluates the solutions it comes to, until it has
enough, its stack is empty, or the time is over; answers go to the cache.

| TLA+ (`Connectivity`) | C++ |
|---|---|
| `open` | the stack of Gecode's engine: of each node the links set, those set to 0, and the no-goods |
| `Alike`, `Branch` | `identifySymmetries` and `branch`: when a link has been tried, it is left out together with those that look like it |
| `Restart`, `StartOver` | `RBS` with its no-goods: after some failures, and for each further solution |
| `Evaluate`, `Exhaust`, `TimeOut` | the loop of `isFeasible` and its end |
| `cache` | `msQueryCache` |
| `late`, `cut` | history, for the properties: whose check ran out of time; from whose search a symmetry cut something off |

*Taken as given.* owlapi's `isSubClassOf` (a constant relation, irreflexive and
transitive) and its joins of cardinality restrictions (a maximum that is raised to
a minimum stays beside the minimum there is, as restrictions are joined by what
they restrict); of Gecode that a node with links left is branched, that what the
number of links decides is propagated, that a restart keeps the no-goods of its
stack or none, and that it stops at any time once a timeout is set; and the exact
minimum in the first solution of an interval, which the
constraint solver returns. Support vectors and property values are integers; the
code's are doubles that hold integral values for cardinalities.

*Undefined.* The factor for a pool that has nothing of what is asked for is
infinite (`:1532`), and `getResourceSupport` passes it on as `uint32_t` (`:892`).
What that yields is undefined, in practice 0: a pool with no agents, which passes
`applyUpperBound` (`:909`) and is granted. `InfiniteAsUnsigned` is the outcome, a
constant that the runs set to 0 and the proofs leave open (`ConversionAssumption`: it
is a natural number). `GrantedPoolsServe` says nothing about a resource for which
a pool is beyond scaling (`IsBeyondScaling`): there the code does grant pools
that serve nobody. An exception ends `prepare()` when it comes to a pool whose
support vectors cannot be added (`src/src/algebra/ResourceSupportVector.cpp:100`);
objects exist only for pools for which it does not (`IsPreparable`).

### What the run `reasoning` checks

288 ontologies with three agent models, two functionalities and three resources,
one derived from another; pools of up to five agents; with and without the
saturation bound and neighbourhood; sets of one or two constrained resources.

| Property | Says |
|---|---|
| `MappedPoolsSupport` | a pool in the mapping supports the functionality, can be connected, and is there, also when agents have been added to it |
| `SupportIsFound` | where every pool can be connected and the ontology is regular the mapping answers right for all pools, bounded or not: the saturation bound loses nothing |
| `BoundedPoolsAreMinimal` | with the saturation bound no mapped pool is part of another |
| `GrantedPoolsServe` | what `getResourceSupport` grants for several resources supports each, has what its constraints ask for at least and can be taken from the agents, unless a pool cannot be scaled; resources may be merged first; the saturation bound leaves a pool for a functionality, under the conditions of `SupportIsFound` |
| `SupportHasCardinalities` | support vectors and cardinality restrictions, two ways to count resources, agree where no agent without resources is itself what is needed |
| `MergedIsExact`, `ScalingIsLeast` | merged constraints allow what each allows; a scaled pool meets them by the least factor; a robot that fulfills them is not scaled |
| `CompositionsCover` | composing, expanding, bounding and completing pools neither loses nor adds a possibility |
| `RangeIsVisited` | the iterator stops at each pool of a range once |

Three limits the properties name are the code's: a resource without support is
taken for no requirement (`GrantedPoolsServe`); a functionality that needs a
class and one derived from it is supported by less, since the derived one is
counted twice (`SupportHasCardinalities`); and the agents without resources of
one model count for themselves in both queries, but times their number squared
in `getCardinalityRestrictions` (src/src/OrganizationModelAsk.cpp:657), which
the same property leaves out where they are what is needed. The proof of this
property found the third limit: in the run such agents are never needed.

An ontology is regular (`IsRegular`) if every functionality needs something and
no agent model is one of the resources a functionality needs. Otherwise the bound
finds less, or support is not monotonic: the bound of a functionality that needs
nothing is 0, so no pool is left; and an agent without resources stands for
itself where it is asked for, with a vector of one dimension that
`getSupportVector` cannot add to those of others. All ontologies of the run are
regular.

The run `supporting_first` is expected to find a violation: `getIntersection`
inserts the pools two functionalities have in common into the set it should
replace, so `isSupporting` of several resources is true of a pool that supports
the first one only; its comment says "True if the model pool supports the set of
services, false otherwise". `canBeDistinct` returns the opposite of what its
comment says as well; nothing calls it, so it is not modelled.
`operator<` of constraints is no order between one with a value and one with a
reference; `MergedIsExact` says that it is one among constraints with values.

### What is proved

`AskQueriesProofs` (algebra, scaling, support vectors) and `ReasoningProofs`
(what the queries promise), for inputs of any size:

| Theorem | Statement |
|---|---|
| `MaxIsLeast` | the max of two pools is the least that includes both |
| `CompositionsMeetBoth` | `maxCompositions` asks for both sets of alternatives, if neither is empty |
| `ExpansionMeetsBound` | `expandToLowerBound` asks for the bound and one of the pools |
| `DeltaCompletes` | a pool and its delta to a larger one sum up to that |
| `BoundedAreThere` | what `applyUpperBound` leaves is part of the bound |
| `MaxOfListIsLeast` | the max of a list of pools is the least that includes them all |
| `MinOfListIncludes` | what is part of every pool of a list is part of their min |
| `MergeIsSum` | merging two different pools sums up their entries |
| `DeltaMerges` | merging a pool with its delta to a larger one yields that |
| `CompositionsCovered` | `Spec => []CompositionsCover` |
| `BoundsAreExact`, `MergedExact` | constraints that are merged (`Spec => []MergedIsExact`) |
| `ScalingIsTheLeast`, `ScalingLeast` | the factor of a scaled pool is the least that reaches every lower bound (`Spec => []ScalingIsLeast`) |
| `MappingIsRight`, `MappedSupport` | pools in a mapping support the functionality, can be connected and are there (`Spec => []MappedPoolsSupport`) |
| `MinimalIsFound` | every pool that supports a functionality has a minimal part within the saturation bound |
| `NoneToSpare`, `BoundedMinimal` | a minimal pool within the bound has no smaller part that supports the functionality (`Spec => []BoundedPoolsAreMinimal`) |
| `SupportFound` | `Spec => []SupportIsFound` |
| `CompositionsServeAll`, `GrantedServeAll` | a pool composed for several requirements includes one for each (`Spec => []GrantedPoolsServe`) |
| `CardinalitiesSupport`, `SupportCardinalities` | full support and cardinality restrictions say the same of a pool (`Spec => []SupportHasCardinalities`) |
| `StopsAreSpan`, `RangeVisited` | the iterator ends and stops at every pool of a range once (`Spec => []RangeIsVisited`) |
| `PoliciesSelectParts`, `PartsSelected` | what policies select are parts of the robot (`Spec => []SelectionsAreParts`, section 7) |
| `ReductionsAddUp`, `ArrivesIfItWaits`, `EstimatesHold` | estimates of energy and time agree (`Spec => []EstimatesAgree`, section 7) |
| `TeamsHold` | what teams amount to, with one agent more, and what they can still carry (`Spec => []TeamsAddUp`, section 7) |
| `ReconfigurationIsMutual`, `TransfersAreMoves`, `MovesAreCounted` | what a reconfiguration is charged for (`Spec => []ReconfigurationCountsMoves`) |

The theorems about pools reduce operations on the entries of maps to counts
(`SubsetByCounts`, `MaxByCounts`, `CompactByCounts`), the step where a model
that is in one map only could go wrong. Max and min of a list are folds from its
first pool: `FoldExists` says that such a fold has a value after every part of
the list, `ChosenInduction` that a property each step keeps holds of the last.
Sums over a set of pools count equal pools once, hence "different".
`CompositionsCovered` puts these together for the pools of a run's inputs.

`BoundsAreExact` rests on `MergeSolves`: the solver's bounds are the largest
lower and the smallest upper bound of the set, which exist as the set is finite.
`ScaledIsLeast` keeps, from one property to the next, that the factor so far is
the least that reaches the lower bounds on the properties seen
(`FactorIsLeast`): a value rounded up by its quotient reaches its bound first
with that factor (`QuotientIsLeast`), and raising the factor for one property
leaves those before it reached as values are not negative. The upper bound of an
earlier property may be passed by then; for one property alone it is kept.

`MappingIsRight` follows what `prepare` takes from the agents: the bounds cut
them, a combination is part of the cut, and a neighbourhood adds only what the
cut left (`CutIsPart`, `CombinationsAreParts`, `NeighboursAreParts`). A cut is a
pool only if the saturation bounds are natural numbers, which is most of the
proof: support vectors keep finitely many dimensions and natural sizes
(`IsVector`), also when classes are embedded pair by pair (`EmbeddedIsVector`,
an induction along the order of the pairs), so that ratios exist and never
divide by zero (`RatioIsGreatest`). `AsksTypeOK` is the invariant behind it.

*The saturation bound.* `getFunctionalSaturationBound` looks at one model at a
time, `getSupportType` at the sum over a pool with class relations embedded;
that the one bounds the other is not obvious. Embedding is linear
(`EmbeddingIsTraced` turns it into sums), so the support of a pool is full
exactly if, for each resource needed, its *supply* - counts times what each model
gains after embedding - reaches the threshold of what is needed
(`FullIfSupplied`). The bound of a model is the largest quotient of threshold and
gain, rounded up: that many of it cover all they contribute to
(`SaturationIsReached`), so of a pool with more of it one can be left out. A
least pool with full support therefore is within the bound and minimal
(`MinimalIsFound`). In the other direction, a pool within the bound that
`isMinimal` accepts has no model that suffices alone but as its only one, every
model of it is of some use (`SomeIsPartial`), and taking one agent away leaves
too little; with monotonic supplies no smaller part will do (`NoneToSpare`).
`SupportFound` adds that the two cuts and `allCombinations` leave out nothing
within the bounds (`CombinationsAreAllParts`, `WithinBoundIsLeft`).

*Granted pools.* `getResourceSupport` folds `maxCompositions` over the resources.
`CompositionsServeAll` keeps along the fold that what there is so far includes a
pool for each resource seen; that none of them is empty is needed, since an empty
set stands for no requirement. A scaled pool is a mapped one times the factor
`ScalingIsTheLeast` speaks of (`ScaledServes`), whatever an infinite one is
converted to: resources with an infinite factor are the ones left out. More agents have
more of a property (`MoreHasMore`), so the composition has enough for each.
`SettingsKept` is the invariant that says for which pool and how an object was
prepared.

*Two ways to count.* `getSupportVector` adds up, for each class needed, what the
models of a pool have of it and of the classes derived from it;
`getCardinalityRestrictions` makes one list of restrictions of the whole pool.
Restrictions joined with `SUM_OP` add up key by key (`JoinIsSum`, an induction
over the models that joins them in any order), so what the list has below a class
is a sum over keys of sums over models; `AvailableIsOffered` exchanges the two
sums. The requirements are those of one functionality, with nothing to add
(`RequiredAreNeeds`). What is left is the embedding of class relations, which the
lists know nothing of: it never makes support smaller where it was enough, since
it gives more to whoever has more (`EmbeddingIsMonotonic`), and does nothing among
classes none of which is below another (`NothingToEmbed`).

*Ranges of pools.* `ModelPoolIterator` raises the count of the first model that
can be raised and puts those before it back to the start, as a counter does that
writes its least digit first. `Precedes` is the order of such numbers: of two pools the
greater one has more of the last model in which they differ. `SuccessorIsNext`
says that the next stop precedes all other stops to come, so none is left out, and
`NextDigit` that its counts are again reached by steps. That the walk ends is no
matter of fairness here but of the definition: `FewerAreAhead` counts the pools
ahead of a stop, finitely many (`AheadIsFinite`) and fewer after each step, and
`DescentExists` makes of that the existence of the list. `StopsAreSpan` then is an
induction over that number.

*Selections.* An agent selected by a step is one of those considered, one the
mapping has for a functionality, or made of the parts of a pool that support it.
`StepSelectsParts` takes one kind of selection after the other and
`PoliciesSelectParts` the chain. That an agent and its rest sum up to the robot
(`RestIsWhatIsLeft`) needs that an atomic agent is a model and a number up to the
model's count (`AtomicAgentsOfModel`): counting by type loses none.

*Estimates.* `getDataPropertyValue` of an atomic agent recurses from a property
to those its rule names; as these are smaller it has a value
(`AtomicValuesExist`, which makes the recursive function real before anything is
said of it), a natural number. The policy "all" merges all combinations
of a team, which is the team (`AllIsSelected`), so what the rule of the energy
provider adds up is the weighted sum that `computeSharesByType` divides by
(`EnergyIsWhole`, `SharesAreByType`). A sum over atomic agents of something their
model has is one over models weighted by counts (`SumByModel`), so shares sum up
to the whole (`SharesAddUp`), and reductions to the consumption, whether the
period is one or cut in two (`ReductionsAddUp`). Both hold of an agent without
values as well: its whole is 0, and nothing is claimed of fractions of it.

For reconfigurations the code adds up, for each new agent, what each old one
must give; exchanging the sums (`RowsAndColumns`) shows that the other direction
adds up the same numbers, and that an atomic agent is charged for once if its
team changes and not at all otherwise.

That a team with one agent more has no less (`TeamsGrow`) holds of its sums entry
by entry (`TotalGrows`, `MassGrows`) and of its maxima over fewer or as many
models (`LoadAreaGrows`, `LowestSinks`, `FastestIsFaster`). Two premises are the
code's: `getLoadArea` of a single agent does not ask whether it is known to
carry, that of several does, so load areas grow only where each agent that has one
is known to carry; and a robot of one agent takes its attributes from the
ontology, so the team has two at least. For the capacity to carry (`TeamsCarry`) the
policy of the rule is followed step by step: of the combinations that provide
transport those of one agent remain, and of these the one with the greatest
capacity (`SinglesAreSelected`, `LeaderIsSelected`). With one carrier that leaves no choice to the
random draw, and what it leaves of the robot is all others (`RestOfLeader`). The
attribute is the same number modulo the word size, and read as signed again when
it is asked for (`SignedUnsigned`).

`InputAssumption` is what the proofs take of the inputs: constraints of a kind
and with a value the solver accepts (from 0 up to below its `Unbounded`;
`PropertyConstraintSolver` starts from 0), robots whose values are in the
solver's range, properties numbered from 1, pools with finitely many entries,
finitely many agents, ontologies that know the models and their functionalities,
each with finitely many restrictions of natural cardinalities, and in which the
functionalities are below the class of functionalities and are no agents. All that a pool
has of a property together is at most `Unbounded`, the largest float; policies are
finite sequences of steps (`IsChain`). Robots have natural values, properties are
numbered, each has values or a rule that names smaller ones (otherwise the code
recurses without end), and for the energy capacity the ontologies of robots have
the repository's rules and its policy "all" (`HasValues`, `HasEnergyRules`), and
for the transport capacity its rules and its policy `TransportProvider`
(`HasTransportRules`). Manipulators are finitely many, load areas are natural
numbers, and what a team can carry, and its atomic agents, are at most half of
what a word counts (`HasLoads`): beyond it the attribute, which wraps, and the rule,
which does not, differ. `Pools`
knows every part of a pool that is asked about, or `feasible = AllPools` would
not say that all can be connected; requests are finite sets of resources whose
properties the models have. That inputs keep their type (`InputTypeOK`) is the
invariant behind all of them.

### What the runs `connectivity` and `connectivity_exact` check

Pools of one to four agents with none to two interfaces, up to two of a kind, in
three tables of interfaces and three ways to relate them; timeouts; one or two
required solutions. `AnswerIsRight`: TRUE only if the agents can be assembled one
after the other (an independent reference, `CanBeAssembled`), FALSE only if they
cannot, or since the last reset of the cache a check with the same arguments ran
out of time or had something cut off by a symmetry - which does not happen to two
agents -, or more than one solution was required, where the last one evaluated
decides. That the same question gets one answer until the cache is reset is part
of `AnswersAreFresh` (section 8). Nothing is promised about when the search ends:
Gecode decides, and a restart without no-goods may repeat itself.

`connectivity_exact` is expected to find a violation. `identifySymmetries`
(src/src/algebra/Connectivity.cpp:801) declares all rows of the symmetric matrix of
links interchangeable, and all columns, and `branch` posts both: after a link has
failed the engine leaves out every link between interfaces that look the same at
that node. They are not the same when their agents have other interfaces. Of
A(plug), B(plug, hook), C(socket), D(socket, eye) only A-D, B-C with B.hook-D.eye
make a unit; the merit has a random bias (`:843`), so A.plug-C.socket may be tried
first. It fails, B.plug-C.socket is left out with it, and FALSE is answered and
cached although there was no timeout. The header says "True if a connection is
feasible, false otherwise".

`ConnectivityProofs` proves `AnswersRight == Spec => []AnswerIsRight` for all
pools, interfaces, timeouts and required numbers of solutions, from
`QueryAssumption` (a pool has finitely many models, `minFeasible` is unsigned).
The inductive invariant `ConnectivityInv` adds to types and `AnswerIsRight`
`CacheIsRight` (an entry of the cache is a right answer to the question that is
its key) and `SearchIsOpen`: where one solution is enough, and unless a symmetry
has cut something off, each assembly lies in a node of the stack (`Covered`), and
one that contains a no-good lies in a node above it (`Justified`), so that a
restart with these no-goods excludes none that is still wanted. An empty stack
then means that there is no assembly (`EndOfStack`). One lemma per step of the
engine keeps this (`SoundBranch`, `SoundDrop`, `SoundStart`); that a node fails
only if no solution is left in it is `DecidedHasOne`. Two agents have one link,
and a link that is tried completes them (`PairFacts`). The step that takes graph theory is from solutions
to agents. `isComplete` grows a set of agents from the first one; it reaches all
exactly if no proper part of them is closed under links (`CompleteIsConnected`).
Then a link leads out of what has been assembled, to one more agent
(`ConnectedCanBeStaged`, `CrossingAddsOne`). The other way round, the links of an
assembly are one less than the agents, share no interface and connect all
(`StagedHasTree`), so they are a solution of the constraints
(`CompleteSolution`).

## 7. Robots, policies, heuristics and metrics

`RobotFacade` has the attributes of atomic and composite robots; sums that the
code keeps in `uint32_t` are taken modulo `WordSize` (16 in the run instead of
2^32, so that wrapping below 0 happens). `Policies` has the selections, the
distribution of shares, and rules: the look-up along the hierarchy of
properties, and an evaluation that draws one of the selected agents at random
for every operation anew. The texts of rules and policies are not parsed; they
appear as the sequences of operations the repository's ontologies use.
`Heuristics` has travel and wait times as fractions, consumption, and the cost of
a reconfiguration.

The run `reasoning` forms every team of up to five agents in 24 ontologies:

| Property | Says |
|---|---|
| `SelectionsAreParts` | policies select only agents made of the atomic agents given; an inverse argument asks for exactly the rest |
| `EstimatesAgree` | shares by rule and by type are the same and add up; contributions over time add up to the consumption; arriving in time and having time to wait are one |
| `TeamsAddUp` | with one more agent there is no smaller load area, mass to carry or velocity; the transport capacity of a team with one carrier, as attribute, in unsigned words, and by the rule of the ontology agree |
| `ReconfigurationCountsMoves` | a reconfiguration is charged for the agents that change their team, in both directions alike |

`ResourceMatching` has both matchers by the assignments their constraints admit
(with what the first solution of the search has in common: no more than the
minimum), `Redundancy` the loops around them as a state machine. The run
`evaluation` takes up to six resources of kinds derived from others, names that
several instances share, requirements that overlap or have no minimum:

| Property | Says |
|---|---|
| `NothingIsUsedTwice` | matching goes by instances, removal by names; still nothing is counted twice |
| `RedundancyIsReal` | there is no more redundancy than every group of requirements can get (Hall's condition), and some if there can be |
| `MatchersAgree` | counting models and matching instances tell the same when the models available are unrelated |
| `ComputationEnds` | `while(true)` and the loop after it end, however resources are chosen (`WF_vars(Next)`: one thread, nothing blocks) |

`EvaluationProofs` proves about the metric, from `CaseAssumption`:

| Theorem | Statement |
|---|---|
| `TypeCorrect` | redundancies and counts are natural; sorting the requirements loses none |
| `NothingUsedTwice` | `Spec => []NothingIsUsedTwice` |
| `RedundancyReal` | `Spec => []RedundancyIsReal` |
| `MatchersAlwaysAgree` | what `MatchersAgree` says, if no minimum exceeds its maximum |

`CaseAssumption` says that requirements and instances are finitely many, that a
required model is a class - the matcher's marker for "not assigned" is none -,
that a minimum above 0 comes with a maximum above 0 - `getBounds` takes both from
one restriction - and that a name tells its model. What carries `RedundancyReal`
is `NeedsAreCovered`: between two passes, for each group of requirements, its
needs times the redundancy so far and the suppliers it has left are together no
more than the suppliers it had; and while the redundancy is 0 nothing has been
taken away. That there is some redundancy if every group could be served once is
Hall's theorem for requirements with capacities, proved as `Marriage`: among the
sets of pairs of a requirement and an instance that satisfy Hall's condition take
a minimal one. In it no instance serves two requirements (`NeededEdge`,
`MinimalIsMatching`), so it is an assignment. `MatchersAlwaysAgree` reduces both matchers to counts: unrelated models never
compete for a resource, so each requirement is decided by itself.

`Analyser` collects status samples (what an agent does, from where to where, from
when to when) and requirement samples in two vectors.

| TLA+ (`Analyser`) | C++ |
|---|---|
| `statuses`, `requirements` | `mStatusSamples`, `mRequirementSamples` with their capacity |
| `statusesAt`, `requirementsAt`, `samplesOf` | the two time indexes and `mAtomicAgentIndexedSamples`: lists of pointers |
| `consumed` | `mEnergyConsumption` of its `Heuristics`, by pointer |
| `AddStatus`, `AddRequirement`, `CreateIndex` | `add`, `createIndex` |
| `AskAgent`, `AskTime` | queries for an atomic agent up to a time, and for all agents at a time |

A pointer is the storage it points into and a position; a vector that is full
moves to another storage. Following a pointer to one that is gone, or leaving an
index, is `undefined`, and nothing is modelled after it. The header asks for
`createIndex` "after adding the final status sample": that is `Documented`, and
it leaves open when requirements are added and how often the index is created.

| Property | Says |
|---|---|
| `EnergyIsAccounted` | no pointer to a status sample is followed to where it was before a move, though the index by agents is never cleared; what agents of a coalition structure have consumed up to a time is what their samples up to then consume, each counted once |
| `RequirementsReachAgents` | the agents are evaluated against all that is required where they are, and nothing else, though requirements may move in between |

Four agents meet and part in five status samples, up to four at a
time; two requirements at one place, of which one may end after the last status
sample; queries for every agent and time in between. Two calls of
`createIndex` (`MaxIndexings`) are the least for an index that is not cleared;
vectors of five and two elements move three times and once. The samples of an
agent are added in the order of time, as in the repository's test, and one
status sample at most after an index was created. Energies have the length of
their sample as a factor, which keeps the parts integral. The analyser
shares a run with the redundancy metric: it moves in one of its initial states,
one for which the metric throws.

`EvaluationProofs` proves about the analyser, from `SampleAssumption` (a status
sample ends after it begins, an agent is finitely many atomic agents, energies
are integers), for any samples and any number of calls of `createIndex`:

| Theorem | Statement |
|---|---|
| `AnalysisInvariantHolds` | `AnalysisSpec => []AnalysisInvariant` |
| `RequirementsReach` | `AnalysisSpec => []RequirementsReachAgents` |
| `EnergyAccounted` | `AnalysisSpec => []EnergyIsAccounted` |
| `EvaluationImplementsAnalysis` | `EvaluationSpec => AnalysisSpec`: the run's composition with the metric adds no behaviour |

`AnalysisInvariant` says that the status samples an agent takes part in are in the
order of time (`ElementsAreOrdered`); while no status sample has followed the last
`createIndex`, the time indexes are those of the samples, the list of an agent is
its samples, once or again and again (`AgentsAreIndexed`), and a remembered energy
is that of the sample under its pointer (`ConsumptionIsKnown`). Neither property
is inductive without it. `EnergyAccounted` then rests on two facts: a walk along
an agent's list that stops at the sample covering the time meets the samples
begun by then, each once, since it stops within the first listing; and the
agents of a coalition structure are disjoint (`CoalitionsDivide`), so the sum by
agents is the sum by samples, with rows and columns exchanged (`SpentBySamples`).

What `EnergyIsAccounted` leaves room for, the code does: created twice, the index
doubles the energy at times no sample covers. Read, but not modelled: the total
distance doubles likewise; the median of three values is the largest, and with
one or two values the code reads behind them; the distance within a sample is
multiplied by the time that has passed, that to the next point of interest by an
integer quotient of the absolute time; the default columns of atomic agents
include two that throw "Not implemented".

Seen while modelling, without a property: the comment "system parts with lowest
level of survivability gets resource first" - parts are sorted once per pass, so
within a pass one part may get several resources; a requirement without minimum
divides by zero (`crashed`); `getTransportSupplyDemand` of `Robot.hpp` promises
a negative demand and returns a positive one; the power source of each model
counts once in the energy capacity, however many there are; the lowest picking
height is never above 0, as the entry it is compared with is created with 0.

## 8. What a process remembers

`AskCaches` has all that a process remembers of the queries it was asked: the
registry of `getInstance`, the feasibility cache, the two maps of an
organization model's query cache, the related resources in each object, and the
robots. What the queries compute is left to constant operators. What is
modelled is by which part of a question its answer is looked up:

| Cache | looked up by | but depends as well on |
|---|---|---|
| registry (`OrganizationModelAsk.cpp:72`) | model, bound, timeout, interface, and the pool *after* filtering | the neighbourhood; the pool asked for |
| feasibility (`Connectivity.cpp:624`) | pool, IRI of the ontology, interface, timeout, minimum | the model behind the IRI |
| structures (`:1684`) | model, pool, resources | timeout, mapping of the object |
| restrictions (`:657`) | all it depends on | - |
| related (`:806`) | agent model | property, qualification |
| robots (`Robot.cpp:36`) | pool | model, object |

`FreshAnswers` is the promise: every call is answered as by a process that was
never asked before - one of several answers where checks may run out of time -
and, until it is told to forget, in the same way. `AnswersAreFresh` is the
refinement. It cannot hold of every caller, and `Disciplined` says how one must
ask: ontologies with one IRI are one; requests differ in more than the
neighbourhood; the structure of a pool is asked for with one timeout, the related
resources of an agent for one property, the robot of a pool of one model. Each
line is a column of the table above.

The run `caches` uses the queries of `AskQueries` for two organization models
with different resources, a pool with equipment that `prepare` filters out (so
that the registry answers a request with an object made for another one, and
keeps several objects for the same), timeouts, resets of either cache. It
refines; leaving the timeout out of the feasibility key makes it fail.
`MaxObjects` bounds the registry.

### What is proved

`RememberedProofs`: `CachesKeepThePromise == Disciplined => (Spec =>
AnswersAreFresh)`, for all models, pools, calls and computations, from
`CallAssumption` (shape of the calls; filtering twice is filtering once - which
the code's filter, a subset of the entries, satisfies). Freshness of an answer
is not inductive: a remembered FALSE may be the outcome of a check that ran out
of time. The invariant therefore says of each cache what its entries are worth:

- `FeasibilityOK`: TRUE is true; FALSE without a timeout is true. With a timeout
  FALSE is an answer a fresh process might give as well.
- `ObjectsOK`, `StructuresOK`, `RobotsOK`: what is kept is fresh for *every* call
  that would find it. This is where `Disciplined` is used.
- `ToldOK`: what has been told is still what would be told: for a request by an
  object in the registry or - the pool asked for is not the one stored, so that
  none answers - by a new one whose checks are all remembered.

One lemma per action shows that it keeps the invariant and maps to `Answer` or
`Forget` of `FreshAnswers`.

*Only model-checked*, in all sections: liveness and termination (`EverySearchEnds`,
`SearchIsReported`, `ComputationEnds`, `SearchEnds`):
fairness and ENABLED are beyond the prover.

## 9. Not modelled

- The composite component framework: numbers of links and actors. No state, and
  counts beyond TLC.
- The analyser's tables, relative energies, distances, medians and positions:
  formulas over what is modelled.
- Readers, exporters, benchmark, text output, logging.
- Parsing of rule texts; probability densities; the branching of Gecode.
- `getRelated`'s filters and look-ups in the ontology that keep nothing.
- Accelerations and further maxima of `Robot`, which repeat velocity.
- A range with a step of 0, for which `ModelPoolIterator` never ends.
- Lifetimes: references into the registry, destruction during a search.

## 10. Files

| File | Purpose |
|---|---|
| `CoalitionStructures.tla`, `CoalitionSearch.tla`, `AnytimeOptimizer.tla` | the coalition search and what it promises |
| `MCCoalitionSearch.tla`, `MCSearch*.cfg`, `MCCoalitionStructures.tla` | instances |
| `CoalitionSearchProofs.tla` | theorems and proofs |
| `OrganizationSearch.tla`, `MCOrganizationSearch.tla`, `MCOrganization.cfg`, `OrganizationSearchProofs.tla` | the organization search and its proof |
| `FunctionalityMapping.tla`, `MappingFile.tla`, `MCMappingFile.tla`, `MCMapping*.cfg` | the mapping and its file |
| `ModelPools.tla`, `PoolIteration.tla`, `ResourceSupport.tla`, `Resources.tla`, `AskQueries.tla` | pools and queries |
| `RobotFacade.tla`, `Policies.tla`, `Heuristics.tla` | robots |
| `Reasoning.tla`, `MCReasoning.tla`, `MCReasoning.cfg`, `MCSupporting.cfg` | questions to these, and their instances |
| `AskQueriesProofs.tla`, `ReasoningProofs.tla` | theorems on pools, constraints, support, policies and reconfigurations |
| `Connectivity.tla`, `MCConnectivity.tla`, `MCConnectivity*.cfg`, `ConnectivityProofs.tla` | feasibility |
| `ResourceMatching.tla`, `Redundancy.tla`, `MCRedundancy.tla` | the redundancy metric and its instance |
| `FiniteSums.tla` | sums, listings and induction for the proofs |
| `Analyser.tla`, `MCEvaluation.*`, `EvaluationProofs.tla` | the analyser; the run of both, and the proofs |
| `AskCaches.tla`, `FreshAnswers.tla`, `MCAskCaches.*` | caches and their promise |
| `RememberedProofs.tla` | theorems on the mapping file and on the caches |
| `PROJECT.json` | components, runs, mutants, source map, findings, hazards, theorems |

Run one with `tlc -config MCSearchThreads.cfg MCCoalitionSearch.tla`, the proofs
with `tlapm RememberedProofs.tla`. A definition commented `Mutant` is a plausible
mistake in the definition after it; putting it in that definition's place makes
the property named in `PROJECT.json` fail. Deadlock is checked in the search and
file runs and in `connectivity`; the others have states where everything is done.
