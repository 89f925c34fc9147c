------------------------------ MODULE ModelPools ------------------------------
(***************************************************************************)
(* Model pools and their algebra (src/src/ModelPool.cpp, Algebra.cpp):     *)
(* how many agents of which model there are.  A pool is a function from the*)
(* models it has an entry for to counts, as the std::map is; a model with  *)
(* count 0 differs from one without an entry until compact() is called.    *)
(* A combination, a sorted vector of models with repetitions, is the       *)
(* compact pool of its counts.                                             *)
(*                                                                         *)
(* Counts are size_t and their differences int; counts beyond 2^31, where  *)
(* the narrowing shows, are left out.                                      *)
(***************************************************************************)
EXTENDS Integers, Functions

CONSTANT Model  \* the models, numbered in the order of their IRIs

ASSUME ModelAssumption == Model \subseteq Nat

IsPool(p) == DOMAIN p \subseteq Model /\ p \in [DOMAIN p -> Nat]
EmptyPool == [m \in {} |-> 0]

(* The pool of some agents of one model.                                   *)
PoolOf(model, count) == [m \in {model} |-> count]

(* getValue(model, 0)                                                      *)
Count(pool, m) == IF m \in DOMAIN pool THEN pool[m] ELSE 0

Larger(i, j) == IF i < j THEN j ELSE i
Smaller(i, j) == IF i < j THEN i ELSE j

(* An operation that combines the counts of two pools where both have an   *)
(* entry and keeps the only one elsewhere.                                 *)
Combined(Op(_, _), a, b) ==
  [m \in DOMAIN a \cup DOMAIN b |->
     IF m \in DOMAIN a /\ m \in DOMAIN b THEN Op(a[m], b[m])
     ELSE IF m \in DOMAIN a THEN a[m] ELSE b[m]]

-----------------------------------------------------------------------------
(* Algebra                                                                 *)

(* substract(a, b), also called delta: what b has more than a.             *)
Delta(a, b) ==
  [m \in DOMAIN a \cup DOMAIN b |-> Count(b, m) - Count(a, m)]

IsNegative(delta) == \E m \in DOMAIN delta : delta[m] < 0
IsNull(delta) == \A m \in DOMAIN delta : delta[m] = 0

IsSubset(a, b) == ~IsNegative(Delta(a, b))
IsSuperset(a, b) == IsSubset(b, a)

Sum(a, b) == Combined(LAMBDA i, j : i + j, a, b)

Compact(pool) == [m \in {n \in DOMAIN pool : pool[n] # 0} |-> pool[m]]

(* merge of a set of pools: their sum as a pool.  What is equal is merged  *)
(* once: merge(M, M) = M.                                                  *)
MergeSet(pools) ==
  Compact([m \in UNION {DOMAIN p : p \in pools} |->
             LET counts == [p \in pools |-> Count(p, m)]
             IN  FoldFunction(+, 0, counts)])
Merge(a, b) == MergeSet({a, b})

PoolMax(a, b) == Combined(Larger, a, b)

(* min: a model only one pool has an entry for keeps that count.           *)
PoolMin(a, b) == Combined(Smaller, a, b)

MaxOfList(pools) ==
  IF pools = <<>> THEN EmptyPool
  ELSE FoldFunctionOnSet(PoolMax, pools[1], pools, DOMAIN pools)
MinOfList(pools) ==
  IF pools = <<>> THEN EmptyPool
  ELSE FoldFunctionOnSet(PoolMin, pools[1], pools, DOMAIN pools)

Multiply(pool, factor) == [m \in DOMAIN pool |-> pool[m] * factor]

\* Mutant: composes each pool with one of the other set.
PairedCompositions(A, B) ==
  IF A = {} THEN B
  ELSE IF B = {} THEN A
  ELSE {PoolMax(a, CHOOSE b \in B : TRUE) : a \in A}

(* maxCompositions: one pool of each set, and no more than they need.  An  *)
(* empty set stands for no requirement.                                    *)
MaxCompositions(A, B) ==
  IF A = {} THEN B
  ELSE IF B = {} THEN A
  ELSE {PoolMax(a, b) : a \in A, b \in B}

-----------------------------------------------------------------------------
(* Bounds                                                                  *)

(* applyUpperBound of a pool: a model the bound has no entry for is dropped.*)
Cut(pool, bound) ==
  [m \in DOMAIN pool \cap DOMAIN bound |-> Smaller(pool[m], bound[m])]

(* isWithinUpperBound: a model the bound has no entry for is not bounded.  *)
WithinUpperBound(pool, bound) ==
  \A m \in DOMAIN pool \cap DOMAIN bound : pool[m] <= bound[m]

ApplyUpperBound(pools, bound) == {p \in pools : WithinUpperBound(p, bound)}
ApplyLowerBound(pools, bound) == {p \in pools : ~IsNegative(Delta(bound, p))}

ExpandToLowerBound(pools, bound) ==
  IF pools = {} THEN {bound} ELSE {PoolMax(bound, p) : p \in pools}

(* The same on combinations, which leave out models with count 0.          *)
BoundedCombinations(combinations, bound) == ApplyUpperBound(combinations, bound)
SufficientCombinations(combinations, bound) == ApplyLowerBound(combinations, bound)
ExpandedCombinations(combinations, bound) ==
  {Compact(p) : p \in ExpandToLowerBound(combinations, bound)}

-----------------------------------------------------------------------------
(* Size and combinations                                                   *)

NumberOfInstances(pool) == FoldFunction(+, 0, pool)

(* begin()->first                                                          *)
FirstOf(models) == {m \in models : \A n \in models : m <= n}

(* allCombinations: the pools that can be taken out of this one, up to a   *)
(* number of agents; 0 stands for no limit.                                *)
AllCombinations(pool, maxSize) ==
  LET size == NumberOfInstances(pool)
      limit == IF maxSize > 0 THEN Smaller(maxSize, size) ELSE size
      sub == {p \in [DOMAIN pool -> 0 .. size] : \A m \in DOMAIN pool : p[m] <= pool[m]}
  IN  {Compact(p) : p \in {q \in sub : NumberOfInstances(q) \in 1 .. limit}}

-----------------------------------------------------------------------------
(* Agents: an atomic agent is a model with a number.                       *)

AtomicAgents(pool) == UNION {{<<m, i>> : i \in 0 .. pool[m] - 1} : m \in DOMAIN pool}
==============================================================================
