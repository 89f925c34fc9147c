----------------------------- MODULE RobotFacade ------------------------------
(***************************************************************************)
(* What agents of several models amount to as one system                   *)
(* (src/src/facades/Robot.cpp, facades/Facade.cpp).                        *)
(*                                                                         *)
(* An ontology o has, besides what AskQueries looks at,                    *)
(*   o.loadAreas   for each model the sizes of its load areas, in order,   *)
(*   o.heights     for each model the picking heights of its manipulators, *)
(*   o.moveTo, o.trail, o.loadArea   three of the functionalities.         *)
(* Values are integers; a word of the processor has WordSize values.  The  *)
(* velocity stands for the other attributes that are maxima, too.          *)
(***************************************************************************)
EXTENDS AskQueries

CONSTANTS WordSize,  \* 2^32, of uint32_t
          Power, Mass, Voltage, Source, Velocity, Demand, Capacity, TransportMass  \* properties

ASSUME WordAssumption == WordSize \in Nat /\ WordSize > 0 /\ WordSize % 2 = 0

(* getDoubleValueOrDefault                                                 *)
ValueOr(o, m, property, default) ==
  IF property \in DOMAIN o.value /\ m \in DOMAIN o.value[property] THEN o.value[property][m] ELSE default

Unsigned(n) == n % WordSize
Signed(n) == IF n < WordSize \div 2 THEN n ELSE n - WordSize

Total(o, pool, property) == SumOver([m \in DOMAIN pool |-> pool[m] * ValueOr(o, m, property, 0)], DOMAIN pool)
Highest(o, pool, property) == Greatest({0} \cup {ValueOr(o, m, property, 0) : m \in DOMAIN pool})

(* isMobile, canTrail and hasLoadArea of an agent of a model               *)
Moves(o, ask, m) ==
  \E f \in {o.moveTo, o.trail} : IsSupporting(o, ask, [n \in {m} |-> 1], {[model |-> f, constraints |-> {}]})
Carries(o, ask, m) == IsSupporting(o, ask, [n \in {m} |-> 1], {[model |-> o.loadArea, constraints |-> {}]})

(* getLoadAreaSize: the last one counts.                                   *)
LoadAreaSize(o, m) == IF o.loadAreas[m] = <<>> THEN 0 ELSE o.loadAreas[m][Len(o.loadAreas[m])]

(* getLoadArea: those of agents that move along add up, of the others the  *)
(* largest counts.                                                         *)
LoadArea(o, ask, pool) ==
  LET areas == [m \in {n \in DOMAIN pool : Carries(o, ask, n)} |-> pool[m] * LoadAreaSize(o, m)]
      moving == {m \in DOMAIN areas : Moves(o, ask, m)}
  IN  IF NumberOfInstances(pool) = 1 THEN LoadAreaSize(o, CHOOSE m \in DOMAIN pool : pool[m] = 1)
      ELSE Greatest({SumOver(areas, moving)} \cup {areas[m] : m \in DOMAIN areas \ moving})

(* getTransportMass                                                        *)
TransportableMass(o, ask, pool) ==
  Total(o, [m \in {n \in DOMAIN pool : Moves(o, ask, n)} |-> pool[m]], TransportMass)

(* updateManipulationProperties: the entry is created with 0 before it is  *)
(* compared with the first height.                                         *)
LowestPick(o, pool) ==
  CHOOSE h \in {0} \cup UNION {o.heights[m] : m \in DOMAIN pool} :
     \A m \in DOMAIN pool : \A k \in o.heights[m] \cup {0} : h <= k

-----------------------------------------------------------------------------
(* The constructors, of a robot and of several as one; the latter counts   *)
(* one unit of transport demand more, and the power source of each model   *)
(* once.                                                                   *)
EnergyCapacity(source, voltage) == source * voltage * 3600

AtomicRobot(o, m) ==
  [pool |-> [n \in {m} |-> 1], power |-> ValueOr(o, m, Power, 0), mass |-> ValueOr(o, m, Mass, 0),
   velocity |-> ValueOr(o, m, Velocity, 0),
   energy |-> EnergyCapacity(ValueOr(o, m, Source, 0), ValueOr(o, m, Voltage, 0)),
   demand |-> Unsigned(ValueOr(o, m, Demand, 1)), capacity |-> Unsigned(ValueOr(o, m, Capacity, 0))]

\* Mutant: every robot carries itself, too.
SelfishCompositeRobot(o, pool) ==
  [pool |-> pool, power |-> Total(o, pool, Power), mass |-> Total(o, pool, Mass),
   velocity |-> Highest(o, pool, Velocity), energy |-> 0,
   demand |-> Unsigned(1 + Total(o, pool, Demand)),
   capacity |-> Unsigned(Total(o, pool, Capacity) - NumberOfInstances(pool))]

CompositeRobot(o, pool) ==
  [pool |-> pool, power |-> Total(o, pool, Power), mass |-> Total(o, pool, Mass),
   velocity |-> Highest(o, pool, Velocity),
   energy |-> EnergyCapacity(Total(o, [m \in DOMAIN pool |-> 1], Source), Highest(o, pool, Voltage)),
   demand |-> Unsigned(1 + Total(o, pool, Demand)),
   capacity |-> Unsigned(Total(o, pool, Capacity) - NumberOfInstances(pool) + 1)]

(* getInstance, of a robot that has not been asked for before: AskCaches   *)
RobotOf(o, pool) ==
  IF NumberOfInstances(pool) = 1 THEN AtomicRobot(o, CHOOSE m \in DOMAIN pool : pool[m] = 1)
  ELSE CompositeRobot(o, pool)

(* getTransportSupplyDemand: isMobile asks for the whole pool.             *)
SupplyDemand(o, ask, robot) ==
  IF IsSupporting(o, ask, robot.pool, {[model |-> o.moveTo, constraints |-> {}]})
  THEN Signed(robot.capacity) ELSE Signed(robot.demand)

(* estimatedEnergyCostFromTime                                             *)
EnergyCost(robot, time) == robot.power * time
===============================================================================
