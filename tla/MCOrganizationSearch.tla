------------------------- MODULE MCOrganizationSearch -------------------------
(***************************************************************************)
(* The search for the best division of a pool, and the structures of       *)
(* MCCoalitionStructures.  The two share no state, so that one instance of *)
(* either is enough next to those of the other: a single agent next to     *)
(* every structure, and a single coalition next to every problem.  The     *)
(* problems are every assignment of values to the coalitions of a small    *)
(* pool, and every 0/1 assignment for a larger one.                        *)
(***************************************************************************)
EXTENDS MCCoalitionStructures, OrganizationSearch

Coalitions(pool) ==
  {c \in [Models -> 0 .. 2] : (\E m \in Models : c[m] > 0) /\ \A m \in Models : c[m] <= pool[m]}

Graded == <<2, 1>>
Feasibility == <<2, 2>>
Alone == <<1, 0>>

MCProblems ==
  [agents : {Graded}, value : [Coalitions(Graded) -> {0, 2, 3}]]
    \cup [agents : {Feasibility}, value : [Coalitions(Feasibility) -> {0, 3}]]
    \cup [agents : {Alone}, value : [Coalitions(Alone) -> {3}]]

SomeStructure ==
  /\ agentCount = FewAgents
  /\ values = [c \in (SUBSET AllAgents) \ {{}} |-> 0]
  /\ blocks = {AllAgents}

DivisionInit ==
  \/ Init /\ agents = Alone /\ StructuresInit
  \/ Init /\ agents # Alone /\ SomeStructure

DivisionNext ==
  \/ Next /\ UNCHANGED <<agentCount, values, blocks>>
  \/ StructuresNext /\ UNCHANGED vars

DivisionSpec ==
  DivisionInit /\ [][DivisionNext]_<<vars, agentCount, values, blocks>> /\ WF_vars(Next)
==============================================================================
