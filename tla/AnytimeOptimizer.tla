--------------------------- MODULE AnytimeOptimizer ---------------------------
(***************************************************************************)
(* What the search object promises its caller, without saying how: a value *)
(* that only grows while searches run, always that of some candidate, and  *)
(* a completion that is announced only for a value good enough.            *)
(***************************************************************************)
EXTENDS Integers

CONSTANTS
  Searchers,         \* who can search
  Values,            \* values candidates have
  Sufficient(_)      \* the values good enough to stop at

VARIABLES value, running, announced

vars == <<value, running, announced>>

Init == value = 0 /\ running = {} /\ announced = FALSE

(* A search starts; starting one in the background withdraws the           *)
(* announcement of an earlier one.                                         *)
Start(s) ==
  /\ s \notin running
  /\ running' = running \cup {s}
  /\ announced' \in {announced, FALSE}
  /\ UNCHANGED value

Improve ==
  /\ running # {}
  /\ value' \in Values /\ value' > value
  /\ UNCHANGED <<running, announced>>

Finish(s) ==
  /\ s \in running
  /\ Sufficient(value)
  /\ running' = running \ {s}
  /\ announced' = TRUE
  /\ UNCHANGED value

Restart ==
  /\ running = {}
  /\ value' = 0
  /\ UNCHANGED <<running, announced>>

Next ==
  \/ \E s \in Searchers : Start(s) \/ Finish(s)
  \/ Improve
  \/ Restart

Spec == Init /\ [][Next]_vars
==============================================================================
