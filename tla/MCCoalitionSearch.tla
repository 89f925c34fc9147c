-------------------------- MODULE MCCoalitionSearch --------------------------
(***************************************************************************)
(* Instances of CoalitionSearch whose search space is computed by          *)
(* CoalitionStructures from concrete agents and coalition values.          *)
(***************************************************************************)
EXTENDS CoalitionStructures, CoalitionSearch

(* The three agents a, b, c of the repository's first test, their values   *)
(* times 3 so that averages are integers.                                  *)
TestValues ==
  [c \in SUBSET (1 .. 3) \ {{}} |->
    CASE c = {1} -> 375 [] c = {2} -> 150 [] c = {3} -> 225
      [] c = {1, 2} -> 528 [] c = {1, 3} -> 450 [] c = {2, 3} -> 450
      [] OTHER -> 600]

(* Its four agents a, b, c, d, times 12.                                   *)
FourAgentValues ==
  [c \in SUBSET (1 .. 4) \ {{}} |->
    12 * CASE c = {1} -> 125 [] c = {2} -> 50 [] c = {3} -> 75 [] c = {4} -> 150
      [] c = {1, 2} -> 176 [] c = {1, 3} -> 150 [] c = {1, 4} -> 100
      [] c = {2, 3} -> 150 [] c = {2, 4} -> 200 [] c = {3, 4} -> 125
      [] c = {1, 2, 3} -> 200 [] c = {1, 2, 4} -> 150 [] c = {1, 3, 4} -> 220
      [] c = {2, 3, 4} -> 150 [] OTHER -> 325]

(* TLC evaluates a table once when a definition of its own names it.       *)
MCPartition == IntegerPartitions
MCCoalitions == Coalition
MCLength == LengthTable
MCMaxBound == MaximumTable
MCAvgBound == AverageTable
MCChoice == CombinationTable
MCPotential == PotentialTable
MCStructureValue == ValueTable

(* Combinations in any order, or in one fixed order.                       *)
AnyOrder(S) == S
FixedOrder(S) == IF S = {} THEN {} ELSE {CHOOSE c \in S : TRUE}
==============================================================================
