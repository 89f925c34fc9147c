---------------------------- MODULE ResourceSupport ----------------------------
(***************************************************************************)
(* Which resources a functionality needs, which ones models bring along,   *)
(* and whether these suffice (src/src/algebra/ResourceSupportVector.cpp,   *)
(* getSupportVector, getSupportType and getFunctionalSaturationBound of    *)
(* OrganizationModelAsk.cpp).                                              *)
(*                                                                         *)
(* An ontology o is given as far as these queries look at it:              *)
(*   o.below  the pairs of a class and one it is derived from, closed      *)
(*            under transitivity;                                          *)
(*   o.has    for every class the classes it is restricted to have, each   *)
(*            with a minimum and a maximum, inherited ones included.       *)
(* Classes are numbered in the order of their IRIs.  A support vector is a *)
(* function from the labels of its dimensions, in that order, to sizes;    *)
(* the library's are doubles but take integral values here.                *)
(***************************************************************************)
EXTENDS ModelPools, FiniteSets

Below(o, a, b) == <<a, b>> \in o.below

SumOver(f, S) == FoldFunctionOnSet(+, 0, f, S)
Greatest(S) == CHOOSE n \in S : \A k \in S : k <= n
CeilDiv(i, j) == (i + j - 1) \div j

-----------------------------------------------------------------------------
(* ResourceSupportVector                                                   *)

NullVector(v) == \A l \in DOMAIN v : v[l] = 0
Contains(v, w) == \A l \in DOMAIN w : v[l] >= w[l]
FullSupportFrom(v, w) == Contains(w, v)
PartialSupportFrom(v, w) == SumOver([l \in DOMAIN v |-> v[l] * w[l]], DOMAIN v) # 0
Times(v, factor) == [l \in DOMAIN v |-> v[l] * factor]

(* embedClassRelationship: what is there of a class counts for the classes *)
(* it is derived from.  Each pair of labels is dealt with once, in order,  *)
(* with what has been added up by then.                                    *)
Embed(o, v, p) ==
  CASE Below(o, p[1], p[2]) -> [v EXCEPT ![p[2]] = @ + v[p[1]]]
    [] ~Below(o, p[1], p[2]) /\ Below(o, p[2], p[1]) -> [v EXCEPT ![p[1]] = @ + v[p[2]]]
    [] OTHER -> v

LastPair(pairs) == CHOOSE p \in pairs : \A q \in pairs : q[1] < p[1] \/ (q[1] = p[1] /\ q[2] <= p[2])

Embedded(o, v) ==
  LET pairs == {p \in (DOMAIN v) \X (DOMAIN v) : p[1] < p[2]}
      after[s \in SUBSET pairs] ==
        IF s = {} THEN v ELSE Embed(o, after[s \ {LastPair(s)}], LastPair(s))
  IN  after[pairs]

Degree(v, w) ==
  CASE FullSupportFrom(v, w) -> "full"
    [] ~FullSupportFrom(v, w) /\ PartialSupportFrom(v, w) -> "partial"
    [] OTHER -> "none"

SupportFrom(o, needed, given) == Degree(Embedded(o, needed), Embedded(o, given))

-----------------------------------------------------------------------------
(* getSupportVector                                                        *)

(* The restrictions of several models: the ontology library joins them     *)
(* with MAX_OP, the resources are shared.                                  *)
SharedBounds(o, models) ==
  [q \in UNION {DOMAIN o.has[m] : m \in models} |->
     LET having == {m \in models : q \in DOMAIN o.has[m]}
     IN  [min |-> Greatest({o.has[m][q].min : m \in having}),
          max |-> Greatest({o.has[m][q].max : m \in having})]]

(* The sizes as a vector; with a filter, of these classes, derived ones    *)
(* included.  Models without restrictions stand for themselves: several of *)
(* them are labels time and again, always with the size 1, which makes no  *)
(* difference to the sums and comparisons of such vectors.                 *)
\* Mutant: leaves out what is derived from a class asked for.
NamedDimensions(o, models, filter, sizes) ==
  IF DOMAIN sizes = {}
  THEN [m \in IF filter = {} \/ models \cap filter # {} THEN models ELSE {} |-> 1]
  ELSE [l \in IF filter = {} THEN DOMAIN sizes ELSE filter |->
          IF l \in DOMAIN sizes THEN sizes[l] ELSE 0]

Dimensions(o, models, filter, sizes) ==
  IF DOMAIN sizes = {}
  THEN [m \in IF filter = {} \/ models \cap filter # {} THEN models ELSE {} |-> 1]
  ELSE [l \in IF filter = {} THEN DOMAIN sizes ELSE filter |->
          SumOver(sizes, {q \in DOMAIN sizes : q = l \/ Below(o, q, l)})]

(* The number of each class that is needed (side "min") or there ("max").  *)
SupportVector(o, models, filter, side) ==
  LET bounds == SharedBounds(o, models)
  IN  Dimensions(o, models, filter, [q \in DOMAIN bounds |-> bounds[q][side]])

(* getSupportType: of a pool, for a set of functionalities.  Vectors with  *)
(* different labels cannot be added, which throws, but for null vectors.   *)
Offered(o, pool, labels) ==
  [m \in DOMAIN pool |-> Times(SupportVector(o, {m}, labels, "max"), pool[m])]

TypeOfSupport(o, needed, given) ==
  LET adding == {m \in DOMAIN given : ~NullVector(given[m])}
  IN  IF \A m \in adding : DOMAIN given[m] = DOMAIN needed
      THEN SupportFrom(o, needed, [l \in DOMAIN needed |->
                                     SumOver([m \in adding |-> given[m][l]], adding)])
      ELSE "thrown"

SupportType(o, functionalities, pool) ==
  LET needed == SupportVector(o, functionalities, {}, "min")
  IN  TypeOfSupport(o, needed, Offered(o, pool, DOMAIN needed))

(* getFunctionalSaturationBound of a requirement and a model: how many of  *)
(* it contribute, at most, in any of the resources needed.  The ratios are *)
(* taken by position.  A model without restrictions is a vector of one     *)
(* dimension, which meets the first one that is needed; one that is not    *)
(* asked for has none, which a debug build asserts against.                *)
\* Mutant: rounds down.
RoundedRatio(given, needed) ==
  Greatest({0} \cup {needed[l] \div given[l] : l \in {k \in DOMAIN given \cap DOMAIN needed : given[k] # 0}})

Ratio(given, needed) ==
  LET NeededAt(l) == IF DOMAIN given = DOMAIN needed THEN needed[l]
                     ELSE needed[CHOOSE k \in DOMAIN needed : \A n \in DOMAIN needed : k <= n]
  IN  Greatest({0} \cup {CeilDiv(NeededAt(l), given[l]) : l \in {k \in DOMAIN given : given[k] # 0}})

Asked(required, requirement) == IF NullVector(required) THEN [l \in {requirement} |-> 1] ELSE required

SaturationBy(o, asked, model) ==
  Ratio(Embedded(o, SupportVector(o, {model}, DOMAIN asked, "max")), Embedded(o, asked))

Saturation(o, requirement, model) ==
  SaturationBy(o, Asked(SupportVector(o, {requirement}, {}, "min"), requirement), model)

-----------------------------------------------------------------------------
(* CompositionFunction: the value of a property for a pool.  A model       *)
(* without a value throws.                                                 *)

WeightedSum(pool, value) == SumOver([m \in DOMAIN pool |-> pool[m] * value[m]], DOMAIN pool)
=============================================================================
