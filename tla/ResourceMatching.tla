---------------------------- MODULE ResourceMatching ----------------------------
(***************************************************************************)
(* Assigning available resources to required ones: by numbers of models    *)
(* (reasoning/ResourceMatch.cpp, ModelBound.cpp), and one instance of a    *)
(* resource after the other (reasoning/ResourceInstanceMatch.cpp).  Both   *)
(* are constraint problems for Gecode, which returns the first solution.   *)
(*                                                                         *)
(* Requirements and what is available are functions from models to bounds, *)
(* an instance is a record of its name, its model and its agent.  Like the *)
(* ontology's isSubClassOf, Below does not relate a class to itself.       *)
(***************************************************************************)
EXTENDS ResourceSupport

Supplies(o, given, needed) == given = needed \/ Below(o, given, needed)

(* ResourceMatch::solve: what is derived from a model counts for it, if it *)
(* comes later in the list, and still counts for itself.                   *)
Accumulated(o, available) ==
  [a \in DOMAIN available |->
     LET counted == {a} \cup {b \in DOMAIN available : a < b /\ Below(o, b, a)}
     IN  [min |-> SumOver([b \in counted |-> available[b].min], counted),
          max |-> SumOver([b \in counted |-> available[b].max], counted)]]

Solutions(o, required, available) ==
  LET cells == {c \in (DOMAIN required) \X (DOMAIN available) : Supplies(o, c[2], c[1])}
      largest == Greatest({0} \cup {available[a].max : a \in DOMAIN available})
      Row(r) == {c \in cells : c[1] = r}
      Column(a) == {c \in cells : c[2] = a}
  IN  {s \in [cells -> 0 .. largest] :
         /\ \A c \in cells : s[c] <= required[c[1]].max
         /\ \A r \in DOMAIN required : SumOver(s, Row(r)) >= required[r].min
         /\ \A a \in DOMAIN available : SumOver(s, Column(a)) <= available[a].max}

\* Mutant: does not look at how many are available in all.
Oversold(o, required, available) ==
  /\ DOMAIN available # {}
  /\ \A r \in DOMAIN required :
        Solutions(o, [k \in {r} |-> required[r]], Accumulated(o, available)) # {}

(* isSupporting: solve throws if nothing is available, or without solution.*)
IsSupportingByCount(o, required, available) ==
  /\ DOMAIN available # {}
  /\ Solutions(o, required, Accumulated(o, available)) # {}

(* substractMinFrom throws if more has been assigned than there is.        *)
Assigned(s, a) == SumOver(s, {c \in DOMAIN s : c[2] = a})
CanSubtract(available, s) ==
  \A a \in DOMAIN available : Assigned(s, a) <= available[a].max

-----------------------------------------------------------------------------
(* ResourceInstanceMatch: each instance is assigned to one requirement, or *)
(* to none.  The search tries not to assign an instance first, so that the *)
(* first solution gives no requirement more than its minimum.              *)
NotAssigned == 0

Matches(o, required, instances) ==
  {f \in [instances -> DOMAIN required \cup {NotAssigned}] :
     /\ \A i \in instances :
          f[i] # NotAssigned => Supplies(o, i.model, f[i]) /\ required[f[i]].max > 0
     /\ \A r \in DOMAIN required : Cardinality({i \in instances : f[i] = r}) = required[r].min}

(* removeAssignmentsFromList looks for the names of what was assigned; of  *)
(* several instances of one name any may be the first in the list.         *)
Named(instances, name) == {i \in instances : i.name = name}

LeftAfter(instances, f) ==
  LET used == {i \in instances : f[i] # NotAssigned}
      names == {i.name : i \in used}
  IN  {left \in SUBSET instances :
         \A name \in names \cup {i.name : i \in instances} :
            Cardinality(Named(left, name)) = Cardinality(Named(instances, name)) - Cardinality(Named(used, name))}

(* hasMinRequirements                                                      *)
HasMinRequirements(required) == \E r \in DOMAIN required : required[r].min > 0

-----------------------------------------------------------------------------
(* What can be achieved: the requirements can be met `times` over iff no   *)
(* group of them needs more than there is for the group.                   *)
Suffices(o, required, instances, times) ==
  \A group \in SUBSET DOMAIN required :
     times * SumOver([r \in group |-> required[r].min], group)
       <= Cardinality({i \in instances : \E r \in group : Supplies(o, i.model, r)})

Counts(instances) ==
  [m \in {i.model : i \in instances} |->
     LET n == Cardinality({i \in instances : i.model = m}) IN [min |-> n, max |-> n]]
=================================================================================
