------------------------------- MODULE Redundancy -------------------------------
(***************************************************************************)
(* The redundancy of a composite agent with respect to what is required of *)
(* it (metrics/Redundancy.cpp, ProbabilityOfFailure.cpp): resources are    *)
(* assigned to the requirements as often as all of them can be met, then   *)
(* what is left strengthens the weakest ones.                              *)
(***************************************************************************)
EXTENDS ResourceMatching, Sequences
Orders == INSTANCE SequencesExt

CONSTANT Cases \* records: an ontology, the bounds required, the instances
               \* available, and for each requirement the probability that
               \* one resource fails: k of d

(* What getBounds() and getRelated() give: a model that is required is a   *)
(* class, and the name of an instance, an individual, tells its model.     *)
CaseAssumption ==
  \A c \in Cases :
    /\ IsFiniteSet(DOMAIN c.required) /\ NotAssigned \notin DOMAIN c.required
    /\ \A r \in DOMAIN c.required :
         /\ c.required[r].min \in Nat
         /\ c.required[r].min > 0 => c.required[r].max > 0
    /\ IsFiniteSet(c.instances)
    /\ \A i, j \in c.instances : i.name = j.name => i.model = j.model
ASSUME CasesAreReal == CaseAssumption

VARIABLES
  given,      \* the case
  available,
  redundancy, \* fullModelRedundancy
  assigned,   \* how often instances of a name have been assigned, by requirement
  models,     \* the requirements, sorted
  updated,
  pc

vars == <<given, available, redundancy, assigned, models, updated, pc>>

required == given.required
Names(instances) == {i.name : i \in instances}

Uses(r) == SumOver(assigned[r], DOMAIN assigned[r])

-----------------------------------------------------------------------------
(* ProbabilityOfFailure: of the parts in series, and with redundancy; the  *)
(* exponent need not be integral, so that two are compared by powers.      *)
SeriesFailure(r) ==
  LET p == given.failure[r]
      c == required[r].min
  IN  [k |-> p.d ^ c - (p.d - p.k) ^ c, d |-> p.d ^ c]

(* getProbabilityOfSurvivalConditionalWithRedundancy, compared             *)
Weaker(r, s) ==
  LET a == SeriesFailure(r)
      b == SeriesFailure(s)
      x == Uses(r) * required[s].min
      y == Uses(s) * required[r].min
  IN  a.k ^ x * b.d ^ y > b.k ^ y * a.d ^ x

(* std::sort                                                               *)
Sorted(q) == \A i, j \in DOMAIN q : i < j => ~Weaker(q[j], q[i])

-----------------------------------------------------------------------------
Init ==
  /\ given \in Cases
  /\ available = given.instances
  /\ redundancy = 0
  /\ assigned = [r \in DOMAIN required |-> [n \in Names(given.instances) |-> 0]]
  /\ models = <<>> /\ updated = FALSE
  /\ pc = IF DOMAIN required # {} /\ HasMinRequirements(required) THEN "solve" ELSE "thrown"

With(f) ==
  [r \in DOMAIN required |->
     [n \in DOMAIN assigned[r] |->
        assigned[r][n] + Cardinality({i \in available : i.name = n /\ f[i] = r})]]

\* Mutant: what is assigned stays available.
KeepingSolve ==
  /\ pc = "solve"
  /\ \E f \in Matches(given.o, required, available) :
        /\ redundancy < 3
        /\ redundancy' = redundancy + 1
        /\ assigned' = With(f)
  /\ UNCHANGED <<given, available, models, updated, pc>>

\* Mutant: finds a match for each requirement by itself.
SeparateSolve ==
  /\ pc = "solve"
  /\ \A r \in DOMAIN required : Matches(given.o, [k \in {r} |-> required[r]], available) # {}
  /\ redundancy' = redundancy + 1
  /\ available' = available \ {CHOOSE i \in available : TRUE}
  /\ UNCHANGED <<given, assigned, models, updated, pc>>

(* A match, all of whose requirements have got something.                  *)
Solve ==
  /\ pc = "solve" /\ \A r \in DOMAIN required : required[r].min > 0
  /\ \E f \in Matches(given.o, required, available) :
        /\ assigned' = With(f)
        /\ available' \in LeftAfter(available, f)
  /\ redundancy' = redundancy + 1
  /\ UNCHANGED <<given, models, updated, pc>>

(* A requirement without minimum gets nothing: getAssignments() throws,    *)
(* and ends the loop before what has been assigned is removed.  Then the   *)
(* constructor of ProbabilityOfFailure divides by its cardinality, and with*)
(* the computation what it has entered for earlier requirements is lost.   *)
SolveHalf ==
  /\ pc = "solve" /\ \E r \in DOMAIN required : required[r].min = 0
  /\ Matches(given.o, required, available) # {}
  /\ redundancy' = redundancy + 1
  /\ pc' = "crashed"
  /\ UNCHANGED <<given, available, assigned, models, updated>>

NoMatch ==
  /\ pc = "solve" /\ Matches(given.o, required, available) = {}
  /\ pc' = IF redundancy = 0 THEN "thrown" ELSE "sort"
  /\ UNCHANGED <<given, available, redundancy, assigned, models, updated>>

SortModels ==
  /\ pc = "sort"
  /\ models' \in {q \in Orders!SetToSeqs(DOMAIN required) : Sorted(q)}
  /\ updated' = FALSE
  /\ pc' = "fit"
  /\ UNCHANGED <<given, available, redundancy, assigned>>

Fitting(i) == {k \in DOMAIN models : Supplies(given.o, i.model, models[k])}
FirstFitting(i) == models[CHOOSE k \in Fitting(i) : \A j \in Fitting(i) : k <= j]

(* The next of the resources strengthens the first requirement it fits.    *)
Fit ==
  /\ pc = "fit"
  /\ \E i \in available :
        /\ available' = available \ {i}
        /\ IF Fitting(i) # {}
           THEN /\ assigned' = [assigned EXCEPT ![FirstFitting(i)][i.name] = @ + 1]
                /\ updated' = TRUE
           ELSE UNCHANGED <<assigned, updated>>
  /\ UNCHANGED <<given, redundancy, models, pc>>

\* Mutant: always tries again.
RestlessNextRound ==
  /\ pc = "fit" /\ available = {}
  /\ pc' = "sort"
  /\ UNCHANGED <<given, available, redundancy, assigned, models, updated>>

NextRound ==
  /\ pc = "fit" /\ available = {}
  /\ pc' = IF updated THEN "sort" ELSE "done"
  /\ UNCHANGED <<given, available, redundancy, assigned, models, updated>>

Next == Solve \/ SolveHalf \/ NoMatch \/ SortModels \/ Fit \/ NextRound

(* One thread computes, and nothing blocks it.                             *)
Spec == Init /\ [][Next]_vars /\ WF_vars(Next)

-----------------------------------------------------------------------------
(* No resource is counted twice: of each name no more is assigned, or still*)
(* available, than there has been (computeMetric; the match and the removal*)
(* of what it has assigned go by different identities).                    *)
NothingIsUsedTwice ==
  \A n \in Names(given.instances) :
     SumOver([r \in DOMAIN required |-> assigned[r][n]], DOMAIN required) + Cardinality(Named(available, n))
       <= Cardinality(Named(given.instances, n))

(* There is no more redundancy than the resources have for all groups of   *)
(* requirements, and some if there can be: the metric is not refused.      *)
RedundancyIsReal ==
  /\ Suffices(given.o, required, given.instances, redundancy)
  /\ pc = "thrown" => ~Suffices(given.o, required, given.instances, 1) \/ ~HasMinRequirements(required)

(* Counting models and matching instances tell the same, if no model that  *)
(* is available is derived from another one; then what has been assigned   *)
(* can be taken away, and leaves something for all that has not been used. *)
MatchersAgree ==
  LET counts == Counts(available)
      Unrelated == \A a, b \in DOMAIN counts : ~Below(given.o, a, b)
  IN  pc = "solve" /\ available # {} /\ Unrelated =>
        /\ IsSupportingByCount(given.o, required, counts) <=> Matches(given.o, required, available) # {}
        /\ \A s \in Solutions(given.o, required, Accumulated(given.o, counts)) : CanSubtract(counts, s)

(* The loops end, for every requirement and however resources are chosen.  *)
ComputationEnds == <>(pc \in {"done", "thrown", "crashed"})
=================================================================================
