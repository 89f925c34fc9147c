------------------------------- MODULE Resources -------------------------------
(***************************************************************************)
(* Resources and their property constraints (src/src/Resource.cpp,         *)
(* PropertyConstraint.cpp, PropertyConstraintSolver.cpp, and how queries   *)
(* scale a pool to meet them, getScalingFactor of OrganizationModelAsk.cpp)*)
(*                                                                         *)
(* A resource is a class with a set of constraints; a constraint compares  *)
(* a property with a value, or with another property, the reference.       *)
(***************************************************************************)
EXTENDS ResourceSupport

(* The constraint types, in the order of the enumeration.                  *)
EQUAL == 1
LESS_THAN == 2
LESS_EQUAL == 3
GREATER_EQUAL == 4
GREATER_THAN == 5

NoReference == 0

Compare(type, i, j) ==
  CASE type = EQUAL -> i = j
    [] type = LESS_THAN -> i < j
    [] type = LESS_EQUAL -> i <= j
    [] type = GREATER_EQUAL -> i >= j
    [] type = GREATER_THAN -> i > j
    [] OTHER -> TRUE

(* operator<, by which a std::set orders its constraints.                  *)
Before(c, d) ==
  /\ c # d
  /\ \/ c.type < d.type
     \/ /\ c.type = d.type
        /\ \/ c.property < d.property
           \/ /\ c.property = d.property
              /\ c.reference < d.reference \/ c.value < d.value

Clusters(constraints) ==
  [p \in {c.property : c \in constraints} |-> {c \in constraints : c.property = p}]

-----------------------------------------------------------------------------
(* Resource::merge                                                         *)

(* Resources of the same class become one with the constraints of all.     *)
MergedResources(resources) ==
  {[model |-> m, constraints |-> UNION {r.constraints : r \in {q \in resources : q.model = m}}]
     : m \in {r.model : r \in resources}}

-----------------------------------------------------------------------------
(* PropertyConstraintSolver                                                *)

Conflict == <<"conflict">>
Unbounded == 10000  \* stands for Gecode::Float::Limits::max

(* merge: the values the constraints leave, from 0 on.  The solver works   *)
(* on intervals, it knows of an excluded end only if nothing else is left. *)
\* Mutant: the first lower bound decides.
LooseMerged(constraints) ==
  LET upper == {c.value : c \in {d \in constraints : d.type \in {EQUAL, LESS_THAN, LESS_EQUAL}}}
  IN  <<0, CHOOSE u \in upper \cup {Unbounded} : \A k \in upper : u <= k>>

Merged(constraints) ==
  LET lower == {c.value : c \in {d \in constraints : d.type \in {EQUAL, GREATER_EQUAL, GREATER_THAN}}}
      upper == {c.value : c \in {d \in constraints : d.type \in {EQUAL, LESS_THAN, LESS_EQUAL}}}
      min == Greatest(lower \cup {-Unbounded})
      max == CHOOSE u \in upper \cup {Unbounded} : \A k \in upper \cup {Unbounded} : u <= k
      excluded == \E c \in constraints : c.type \in {LESS_THAN, GREATER_THAN} /\ c.value = min
  IN  IF min > max \/ (min = max /\ excluded) \/ max < 0 THEN Conflict
      ELSE <<Larger(0, min), max>>

(* fulfills: the robot's own properties against values or references.      *)
Fulfills(values, constraints) ==
  \A c \in constraints :
    Compare(c.type, values[c.property],
            IF c.reference = NoReference THEN c.value ELSE values[c.reference])

-----------------------------------------------------------------------------
(* getScalingFactor: how many of a pool are needed to meet the constraints *)
(* of a resource, 0 for an invalid_argument.  The largest factor allowed is*)
(* worked out too, and never used.                                         *)

Infinite == 1000000  \* the quotient of a number and 0: larger than others, and
                     \* never calculated with

QuotientUp(i, j) == IF j = 0 THEN Infinite ELSE CeilDiv(i, j)

(* What one property, with its merged bounds, makes of the factor; the     *)
(* factor 0 stands for the exception thrown.                               *)
\* Mutant: does not look at the maximum.
UncappedScaled(factor, value, bounds) ==
  CASE factor = 0 \/ bounds = Conflict -> 0
    [] OTHER -> IF factor * value < bounds[1] THEN Larger(QuotientUp(bounds[1], value), factor)
                ELSE factor

(* Infinitely many of nothing are no number, which no comparison holds of; *)
(* of anything else they exceed every maximum.                             *)
Scaled(factor, value, bounds) ==
  CASE factor = 0 \/ bounds = Conflict -> 0
    [] factor = Infinite /\ bounds # Conflict -> IF value = 0 THEN Infinite ELSE 0
    [] OTHER ->
         LET raised == IF factor * value < bounds[1]
                       THEN Larger(QuotientUp(bounds[1], value), factor)
                       ELSE factor
         IN  IF value > 0 /\ raised * value > bounds[2] THEN 0 ELSE raised

ScalingFactor(values, constraints) ==
  LET clusters == Clusters(constraints)
      upTo[p \in 0 .. Greatest({0} \cup DOMAIN clusters)] ==
        IF p = 0 THEN 1
        ELSE IF p \in DOMAIN clusters
        THEN Scaled(upTo[p - 1], values[p], Merged(clusters[p]))
        ELSE upTo[p - 1]
  IN  upTo[Greatest({0} \cup DOMAIN clusters)]
=============================================================================
