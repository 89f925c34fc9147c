------------------------------- MODULE Heuristics ------------------------------
(***************************************************************************)
(* Estimates of times, energy and cost (src/src/Heuristics.cpp).  Agents   *)
(* move on a line; a duration is a fraction <<distance, velocity>>, whose  *)
(* denominator 0 the code divides by, too.                                 *)
(***************************************************************************)
EXTENDS Policies

Distance(from, to) == IF from < to THEN to - from ELSE from - to
RobotOfAgent(o, agent) == RobotOf(o, TypeOf(agent))

(* travelTime, waitTime; positionLinear: undefined if from and to are one  *)
TravelTime(o, agent, from, to) == <<Distance(from, to), RobotOfAgent(o, agent).velocity>>
Waiting(travel, available) == <<available * travel[2] - travel[1], travel[2]>>
WaitTime(o, agent, from, to, available) == Waiting(TravelTime(o, agent, from, to), available)

PositionLinear(o, agent, from, to, time) ==
  LET travelled == Smaller(RobotOfAgent(o, agent).velocity * time, Distance(from, to))
  IN  IF from < to THEN from + travelled ELSE from - travelled

(* getEnergyConsumption: the time to travel and the time to wait           *)
EnergyConsumption(o, sample) ==
  LET travel == TravelTime(o, sample.agent, sample.from, sample.to)
      wait == WaitTime(o, sample.agent, sample.from, sample.to, sample.time)
  IN  <<EnergyCost(RobotOfAgent(o, sample.agent), travel[1] + wait[1]), travel[2]>>

(* getEnergyReductionAbsolute: what an atomic agent contributes            *)
Reduction(consumption, distribution, sample, model, since, until) ==
  <<consumption[1] * distribution.share[model] * (until - since),
    consumption[2] * distribution.whole * sample.time>>

EnergyReduction(o, ask, policy, sample, model, since, until) ==
  Reduction(EnergyConsumption(o, sample), Distribution(o, ask, policy, TypeOf(sample.agent)),
            sample, model, since, until)

-----------------------------------------------------------------------------
(* getReconfigurationCost: each agent to be formed is charged for all the  *)
(* agents there are, those included that contribute nothing, but itself.   *)
\* Mutant: an agent that stays as it is takes itself apart.
RestlessOrigins(to, from) == [f \in from |-> to \cap f]

Origins(to, from) == [f \in from \ {to} |-> to \cap f]

FormationCost(origins, cooperation, transfer) ==
  SumOver([f \in DOMAIN origins |-> cooperation + transfer * Cardinality(origins[f])], DOMAIN origins)

(* The agents must consist of the same atomic agents: otherwise it throws. *)
ReconfigurationCost(from, to, cooperation, transfer) ==
  IF from = to THEN 0
  ELSE SumOver([a \in to |-> FormationCost(Origins(a, from), cooperation, transfer)], to)
================================================================================
