----------------------------- MODULE PoolIteration -----------------------------
(***************************************************************************)
(* ModelPoolIterator (src/src/ModelPoolIterator.cpp): a counter whose      *)
(* digits are the counts of a pool, from a start to an end, with a step for*)
(* each model.  The benchmark walks through the pools it measures with it. *)
(* A range r is the record of start, end and step.                         *)
(***************************************************************************)
EXTENDS ModelPools, Sequences

(* increment(): a step ahead, 1 where none is given, but not past the end. *)
Incremented(r, current, m) ==
  Smaller(Count(r.end, m), current[m] + (IF m \in DOMAIN r.step THEN r.step[m] ELSE 1))

(* The first model whose maximum has not been reached; the ones before it  *)
(* start over.                                                             *)
Advancing(r, current) == FirstOf({m \in DOMAIN current : current[m] < Count(r.end, m)})

\* Mutant: leaves the models before at their maximum.
StickingSuccessor(r, current, m) ==
  [n \in DOMAIN current |-> IF n = m THEN Incremented(r, current, m) ELSE current[n]]

Successor(r, current, m) ==
  [n \in DOMAIN current |->
     IF n < m THEN r.start[n] ELSE IF n = m THEN Incremented(r, current, m) ELSE current[n]]

(* The pools next() stops at until it returns false.                       *)
Stops(r) ==
  LET from[current \in [DOMAIN r.start -> Nat]] ==
        LET next == {Successor(r, current, m) : m \in Advancing(r, current)}
        IN  <<current>> \o (IF next = {} THEN <<>> ELSE from[CHOOSE p \in next : TRUE])
  IN  IF IsSubset(r.start, r.end) THEN from[r.start] ELSE <<>>

(* The counts a model takes: from the start in steps, and the end.         *)
Digits(r, m) ==
  LET last == Count(r.end, m)
      width == IF m \in DOMAIN r.step THEN r.step[m] ELSE 1
  IN  {i \in r.start[m] .. last : i = last \/ (i - r.start[m]) % width = 0}
==============================================================================
