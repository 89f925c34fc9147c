------------------------- MODULE CoalitionStructures -------------------------
(***************************************************************************)
(* The data coalition structure generation works on                        *)
(* (src/src/utils/CoalitionStructureGeneration.cpp, after Rahwan et al.,   *)
(* 2009): the coalitions of a set of agents, the integer partitions that   *)
(* divide the search space, the bounds prepare() derives for them, and the *)
(* combinations searchSubspace() enumerates below a partial structure.     *)
(*                                                                         *)
(* An agent is its index in mAgents, counted from 1.  A coalition structure*)
(* is a sequence of coalitions, as std::vector<Coalition> is: searchSubspace*)
(* builds it coalition by coalition in the order of the integer partition. *)
(* Coalition values are integers in a unit fine enough for every average   *)
(* to be exact (AveragesExact): floating point rounding is left out.       *)
(***************************************************************************)
EXTENDS Integers, Sequences, FiniteSets, SequencesExt

CONSTANTS
  AgentCount,     \* mAgents.size()
  CoalitionValue, \* mCoalitionValueFunction, supplied by the caller
  TinyBound       \* std::numeric_limits<double>::min(): positive, below any value

Agents == 1 .. AgentCount

(* What mAgentCoalitionMap lists: the combinations of 1 .. n agents.       *)
Coalition == (SUBSET Agents) \ {{}}

AgentCoalitions(size) == kSubset(size, Agents)

ASSUME CoalitionDataAssumption ==
  /\ AgentCount \in Nat \ {0}
  /\ TinyBound \in Nat \ {0}
  /\ CoalitionValue \in [Coalition -> Nat]

SumOver(f, S) == SumFunctionOnSet(f, S)

-----------------------------------------------------------------------------
(* Bounds                                                                  *)

(* Bounds::maximum of a coalition size; a default Bounds starts at the     *)
(* smallest positive double, so that no maximum is ever zero.              *)
SizeMaximum ==
  [size \in Agents |->
    Max({TinyBound} \cup {CoalitionValue[c] : c \in AgentCoalitions(size)})]

SizeSum(size) == SumOver(CoalitionValue, AgentCoalitions(size))

(* Bounds::average of a coalition size.                                    *)
SizeAverage ==
  [size \in Agents |->
    SizeSum(size) \div Cardinality(AgentCoalitions(size))]

ASSUME AveragesExact ==
  \A size \in Agents : SizeSum(size) % Cardinality(AgentCoalitions(size)) = 0

(* IntegerPartitioning: the ways to write n as a sum of sizes, largest     *)
(* size first.                                                             *)
IntegerPartitions ==
  {p \in UNION {[1 .. k -> Agents] : k \in Agents} :
      /\ SumOver(p, DOMAIN p) = AgentCount
      /\ \A i, j \in DOMAIN p : i <= j => p[i] >= p[j]}

(* computeIntegerPartitionBounds: the bounds of the sizes, added up.       *)
PartitionMaximum ==
  [p \in IntegerPartitions |->
    SumOver([i \in DOMAIN p |-> SizeMaximum[p[i]]], DOMAIN p)]

\* Mutant: adds up the maxima.
OptimisticPartitionAverage ==
  [p \in IntegerPartitions |->
    SumOver([i \in DOMAIN p |-> SizeMaximum[p[i]]], DOMAIN p)]

PartitionAverage ==
  [p \in IntegerPartitions |->
    SumOver([i \in DOMAIN p |-> SizeAverage[p[i]]], DOMAIN p)]

-----------------------------------------------------------------------------
(* The tree searchSubspace walks                                           *)

(* remainingAgents: the agents no coalition of the prefix took.            *)
RemainingAgents(prefix) == Agents \ UNION {prefix[i] : i \in DOMAIN prefix}

(* m_k[0]: index of a coalition's first agent among the remaining ones.    *)
FirstIndex(prefix, c) ==
  Cardinality({a \in RemainingAgents(prefix) : a < Min(c)})

(* alpha: the first index of the previous coalition of the same size, so   *)
(* that equally large coalitions are not enumerated in every order.        *)
\* Mutant: skips one index too many.
StrictAlpha(p, prefix) ==
  LET k == Len(prefix) + 1
  IN  CASE k = 1 -> 0
        [] k > 1 /\ p[k] # p[k - 1] -> 1
        [] OTHER -> FirstIndex(Front(prefix), Last(prefix)) + 2

Alpha(p, prefix) ==
  LET k == Len(prefix) + 1
  IN  CASE k = 1 -> 0
        [] k > 1 /\ p[k] # p[k - 1] -> 1
        [] OTHER -> FirstIndex(Front(prefix), Last(prefix))

(* The combinations the loop does not skip, in any order: which one        *)
(* numeric::Combination yields next belongs to that library.  The second   *)
(* condition of the loop, m_k[0] + 1 <= upperBoundM_k, never excludes one: *)
(* upperBoundM_k starts at mAgents.size() + 1.                             *)
Combinations(p, prefix) ==
  {c \in kSubset(p[Len(prefix) + 1], RemainingAgents(prefix)) :
      Alpha(p, prefix) <= FirstIndex(prefix, c) + 1}

(* subspacePotentialValue: the coalitions chosen count with their value,   *)
(* the sizes still to fill with the maximum of that size.                  *)
\* Mutant: fills up with the averages.
ModestSubspacePotential(p, prefix) ==
  SumOver([i \in DOMAIN p |-> IF i <= Len(prefix) THEN CoalitionValue[prefix[i]]
                                ELSE SizeAverage[p[i]]], DOMAIN p)

SubspacePotential(p, prefix) ==
  SumOver([i \in DOMAIN p |-> IF i <= Len(prefix) THEN CoalitionValue[prefix[i]]
                                ELSE SizeMaximum[p[i]]], DOMAIN p)

(* The structure value function the repository's test passes.              *)
AdditiveValue(cs) == SumOver([i \in DOMAIN cs |-> CoalitionValue[cs[i]]], DOMAIN cs)

-----------------------------------------------------------------------------
(* Bounds and tree as tables, the form the search takes them in.  TLC keeps*)
(* a function as the expression it is written with; merged with the empty  *)
(* function it is evaluated to a table.                                    *)
Tabulated(f) == f @@ <<>>

LengthTable == Tabulated([p \in IntegerPartitions |-> Len(p)])
MaximumTable == Tabulated(PartitionMaximum)
AverageTable == Tabulated(PartitionAverage)

Disjoint(first, last) ==
  {cs \in UNION {[1 .. k -> Coalition] : k \in first .. last} :
      \A i, j \in DOMAIN cs : i # j => cs[i] \cap cs[j] = {}}

CombinationTable ==
  Tabulated([p \in IntegerPartitions |->
    Tabulated([cs \in Disjoint(0, Len(p) - 1) |-> Combinations(p, cs)])])

PotentialTable ==
  Tabulated([p \in IntegerPartitions |->
    Tabulated([cs \in Disjoint(1, Len(p) - 1) |-> SubspacePotential(p, cs)])])

ValueTable ==
  Tabulated([cs \in Disjoint(1, AgentCount) |-> AdditiveValue(cs)])
==============================================================================
