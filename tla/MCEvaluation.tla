------------------------------ MODULE MCEvaluation ------------------------------
(***************************************************************************)
(* How an organization is evaluated: the redundancy of MCRedundancy, and   *)
(* an analyser.  The two share no state.  The analyser is used next to one *)
(* requirement without a minimum, for which the metric has no value.       *)
(***************************************************************************)
EXTENDS MCRedundancy, Analyser
LOCAL INSTANCE TLC

(* Four atomic agents: 1 and 2 travel together and part, 3 and 4 stay.      *)
Status(agent, from, to, since, until) ==
  [agent |-> agent, from |-> from, to |-> to, since |-> since, until |-> until]
Requirement(resources, from, to, since, until) ==
  [resources |-> resources, from |-> from, to |-> to, since |-> since, until |-> until]

MCStatusSamples ==
  {Status({1, 2}, 0, 4, 0, 2), Status({1}, 4, 4, 3, 4), Status({2}, 4, 1, 3, 5), Status({3}, 1, 1, 0, 5),
   Status({4}, 4, 4, 2, 3)}

(* What agent 2 is required to do from time 3 on.  The second one may end   *)
(* after all status samples there are yet.                                 *)
MCRequirementSamples ==
  {Requirement({"move"}, 4, 1, 2, 4), Requirement({"carry"}, 4, 1, 3, 5)}

MCConsumption(s) == (s.until - s.since) * (3 + Cardinality(s.agent))
MCShare(s, a) == IF a = 1 THEN 2 ELSE 1

WithoutMinimum ==
  given \in {[o |-> Classes, required |-> 24 :> AtLeast(0), failure |-> 24 :> Coin,
              instances |-> Resources({<<"camera", 21>>, <<"arm", 24>>}, 1)]}

EvaluationInit == Init /\ AnalysisInit

EvaluationNext ==
  \/ Next /\ UNCHANGED analysis
  \/ WithoutMinimum /\ AnalysisNext /\ UNCHANGED vars

EvaluationSpec ==
  EvaluationInit /\ [][EvaluationNext]_<<vars, analysis>> /\ WF_vars(Next)
=================================================================================
