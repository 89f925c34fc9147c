------------------------ MODULE MCCoalitionStructures ------------------------
(***************************************************************************)
(* CoalitionStructures against what the search expects of it, for every    *)
(* assignment of the values in Levels to the coalitions and every way to   *)
(* divide the agents: `blocks' is a coalition structure given as the set of*)
(* its coalitions, the definition searchSubspace's enumeration is compared *)
(* with.  A few agents get every assignment of values, more agents one     *)
(* value for all coalitions.                                               *)
(***************************************************************************)
EXTENDS Integers, Sequences, FiniteSets, SequencesExt

CONSTANTS
  FewAgents, ManyAgents,  \* numbers of agents
  Levels,                 \* values of coalitions
  TinyBound

InstanceAssumption ==
  /\ FewAgents \in Nat \ {0} /\ ManyAgents \in Nat \ {0}
  /\ Levels \subseteq Nat
  /\ TinyBound \in Nat
ASSUME InstancesAreReal == InstanceAssumption

VARIABLES agentCount, values, blocks

Space == INSTANCE CoalitionStructures WITH
           AgentCount <- agentCount, CoalitionValue <- values

AllAgents == 1 .. agentCount

(* Set partitions: agent i joins the block of the smallest agent of it.    *)
SetPartitions ==
  {{{a \in AllAgents : leader[a] = l} : l \in {leader[a] : a \in AllAgents}} :
      leader \in {f \in [AllAgents -> AllAgents] :
                    \A a \in AllAgents : f[a] <= a /\ f[f[a]] = f[a]}}

StructuresInit ==
  /\ \/ /\ agentCount = FewAgents
        /\ values \in [(SUBSET AllAgents) \ {{}} -> Levels]
     \/ /\ agentCount = ManyAgents
        /\ values = [c \in (SUBSET AllAgents) \ {{}} |-> 60]
  /\ blocks \in SetPartitions

StructuresNext == UNCHANGED <<agentCount, values, blocks>>

StructuresSpec == StructuresInit /\ [][StructuresNext]_<<agentCount, values, blocks>>

Shape(cs) == [i \in DOMAIN cs |-> Cardinality(cs[i])]

(* The sequences searchSubspace reaches that hold exactly these blocks.    *)
Enumerated ==
  {cs \in SetToSeqs(blocks) :
      /\ Shape(cs) \in Space!IntegerPartitions
      /\ \A i \in DOMAIN cs : cs[i] \in Space!Combinations(Shape(cs), SubSeq(cs, 1, i - 1))}

(* The alpha rule of searchSubspace drops repetitions only: whatever way   *)
(* the agents are divided, some order of the coalitions is enumerated.     *)
EveryStructureIsEnumerated == Enumerated # {}

(* The bounds never cut off a structure worth more than they say: the      *)
(* maximum of its partition and the potential of each of its prefixes.     *)
BoundsAreAdmissible ==
  agentCount = FewAgents => \A cs \in Enumerated :
    /\ Space!AdditiveValue(cs) <= Space!PartitionMaximum[Shape(cs)]
    /\ \A k \in 1 .. Len(cs) - 1 :
          Space!AdditiveValue(cs) <= Space!SubspacePotential(Shape(cs), SubSeq(cs, 1, k))

(* The average of a partition, which prune() takes for a value the search  *)
(* is sure to reach, is reached by a structure of the same shape.          *)
AverageIsReached ==
  agentCount = FewAgents => \A cs \in Enumerated :
    \E other \in SetPartitions : \E ds \in SetToSeqs(other) :
       /\ Shape(ds) = Shape(cs)
       /\ Space!PartitionAverage[Shape(cs)] <= Space!AdditiveValue(ds)
==============================================================================
