------------------------ MODULE OrganizationSearchProofs ------------------------
(***************************************************************************)
(* Proofs about OrganizationSearch: findBest returns one of the best       *)
(* divisions of the agents, for every set of models, every pool of agents  *)
(* and all values of its coalitions.                                       *)
(*                                                                         *)
(* Every division can be put into the order searchSubspace tries coalitions*)
(* in (OrderExists), its sizes are then an integer partition (ShapeOf), and*)
(* each of its coalitions is among the combinations tried after those      *)
(* before it (NextCoalitionIsTried).  No bound excludes it: its partition  *)
(* is worth as much (WorthIsBounded), its first coalitions promise as much *)
(* (PotentialIsReached), and no partition is sure of more than the best    *)
(* division is worth (PromiseIsKept), since there is a division of every   *)
(* partition (PartitionsAreTaken).  So an optimal division stays ahead of  *)
(* the search until a structure of its value is found, which is the        *)
(* inductive invariant.                                                    *)
(***************************************************************************)
EXTENDS OrganizationSearch, FiniteSums, SequenceTheorems

-----------------------------------------------------------------------------
(* Pools                                                                   *)

(* Pools: so many agents of each model.                                    *)
Pool == [Models -> Nat]

(* Least and greatest elements.                                            *)
LEMMA LeastIsMin ==
  ASSUME NEW S, S \subseteq Nat, S # {}
  PROVE  Min(S) \in S /\ \A x \in S : Min(S) <= x
<1>1. \E x \in S : \A y \in S : x <= y
  BY LeastExists
<1> QED
  BY <1>1 DEF Min

LEMMA GreatestIsMax ==
  ASSUME NEW S, S # {}, NEW n \in Nat, S \subseteq 0 .. n
  PROVE  Max(S) \in S /\ \A x \in S : x <= Max(S)
<1>1. \E x \in S : \A y \in S : y <= x
  BY GreatestExists
<1> QED
  BY <1>1 DEF Max

(* The size of a pool counts each of its models.                           *)
LEMMA SizeOfPool ==
  ASSUME NEW c \in Pool
  PROVE  /\ Size(c) \in Nat
         /\ \A m \in Models : c[m] \in Nat /\ c[m] <= Size(c)
         /\ (\E m \in Models : c[m] > 0) <=> Size(c) > 0
<1>1. IsFiniteSet(Models) /\ \A m \in Models : c[m] \in Nat
  BY ProblemAssumption DEF OrganizationAssumption, Pool
<1>2. SumFunctionOnSet(c, Models) \in Nat
  BY <1>1, SumIsNat
<1>3. ASSUME NEW m \in Models PROVE c[m] <= SumFunctionOnSet(c, Models)
  <2>1. SumFunctionOnSet(c, {m}) <= SumFunctionOnSet(c, Models)
    BY <1>1, SumOfPart
  <2>2. SumFunctionOnSet(c, {m}) = c[m]
    BY <1>1, SumOfOne
  <2> QED
    BY <2>1, <2>2
<1>4. ASSUME \A m \in Models : ~(c[m] > 0) PROVE SumFunctionOnSet(c, Models) = 0
  <2>1. \A m \in Models : c[m] = 0
    BY <1>1, <1>4
  <2>2. SumFunctionOnSet(c, Models) = 0 * Cardinality(Models)
    BY <1>1, <2>1, SumOfConstant
  <2> QED
    BY <1>1, <2>2, FS_CardinalityType
<1>5. (\E m \in Models : c[m] > 0) => SumFunctionOnSet(c, Models) > 0
  BY <1>1, <1>2, <1>3
<1> QED
  BY <1>1, <1>2, <1>3, <1>4, <1>5 DEF Size

(* A larger pool has a larger size, a different one another one.           *)
LEMMA SizeIsMonotonic ==
  ASSUME NEW c \in Pool, NEW d \in Pool, \A m \in Models : c[m] <= d[m]
  PROVE  /\ Size(c) <= Size(d)
         /\ Size(c) = Size(d) => \A m \in Models : c[m] = d[m]
<1>1. IsFiniteSet(Models) /\ \A m \in Models : c[m] \in Nat /\ d[m] \in Nat
  BY ProblemAssumption DEF OrganizationAssumption, Pool
<1>2. Size(c) <= Size(d)
  <2>1. \A m \in Models : c[m] \in Int /\ d[m] \in Int /\ c[m] <= d[m]
    BY <1>1
  <2> QED
    BY <1>1, <2>1, SumIsMonotonic DEF Size
<1>3. ASSUME NEW m \in Models, c[m] # d[m] PROVE Size(c) < Size(d)
  <2> DEFINE rest == Models \ {m}
  <2>1. IsFiniteSet(rest)
    BY <1>1, FS_Subset
  <2>2. \A n \in rest : c[n] \in Int /\ d[n] \in Int /\ c[n] <= d[n]
    BY <1>1
  <2>3. \A n \in Models : c[n] \in Int /\ d[n] \in Int
    BY <1>1
  <2>4. SumFunctionOnSet(c, Models) = c[m] + SumFunctionOnSet(c, rest)
    BY <1>1, <2>3, SumWithout
  <2>5. SumFunctionOnSet(d, Models) = d[m] + SumFunctionOnSet(d, rest)
    BY <1>1, <2>3, SumWithout
  <2> HIDE DEF rest
  <2>6. SumFunctionOnSet(c, rest) <= SumFunctionOnSet(d, rest)
    BY <2>1, <2>2, SumIsMonotonic
  <2>7. SumFunctionOnSet(c, rest) \in Int /\ SumFunctionOnSet(d, rest) \in Int
    BY <2>1, <2>2, SumIsInt
  <2>8. c[m] \in Nat /\ d[m] \in Nat /\ c[m] < d[m]
    BY <1>1, <1>3
  <2> QED
    BY <2>4, <2>5, <2>6, <2>7, <2>8 DEF Size
<1>4. Size(c) \in Nat /\ Size(d) \in Nat
  BY SizeOfPool
<1> QED
  BY <1>2, <1>3, <1>4

(* What a pool is made of.                                                 *)
LEMMA SubPoolsOf ==
  ASSUME NEW pool \in Pool, NEW c
  PROVE  c \in SubPools(pool) <=> c \in Pool /\ Size(c) > 0 /\ \A m \in Models : c[m] <= pool[m]
<1>1. /\ Size(pool) \in Nat
      /\ \A m \in Models : pool[m] \in Nat /\ pool[m] <= Size(pool)
  BY SizeOfPool
<1>2. ASSUME c \in [Models -> 0 .. Size(pool)] PROVE c \in Pool
  BY <1>1, <1>2 DEF Pool
<1>3. ASSUME c \in Pool, \A m \in Models : c[m] <= pool[m] PROVE c \in [Models -> 0 .. Size(pool)]
  <2>1. \A m \in Models : c[m] \in 0 .. Size(pool)
    BY <1>1, <1>3 DEF Pool
  <2> QED
    BY <1>3, <2>1 DEF Pool
<1> QED
  BY <1>2, <1>3 DEF SubPools

(* A pool without some of its agents.                                      *)
Less(pool, c) == [m \in Models |-> pool[m] - c[m]]

LEMMA SizeOfLess ==
  ASSUME NEW pool \in Pool, NEW c \in Pool, \A m \in Models : c[m] <= pool[m]
  PROVE  Less(pool, c) \in Pool /\ Size(Less(pool, c)) = Size(pool) - Size(c)
<1>1. IsFiniteSet(Models) /\ \A m \in Models : c[m] \in Nat /\ pool[m] \in Nat
  BY ProblemAssumption DEF OrganizationAssumption, Pool
<1>2. \A m \in Models : Less(pool, c)[m] = pool[m] - c[m]
  BY DEF Less
<1>3. Less(pool, c) \in Pool
  BY <1>1 DEF Less, Pool
<1>4. \A m \in Models : c[m] \in Int /\ Less(pool, c)[m] \in Int /\ pool[m] = c[m] + Less(pool, c)[m]
  BY <1>1, <1>2
<1>5. SumFunctionOnSet(pool, Models) = SumFunctionOnSet(c, Models) + SumFunctionOnSet(Less(pool, c), Models)
  BY <1>1, <1>4, SumOfSums
<1>6. Size(pool) \in Nat /\ Size(c) \in Nat /\ Size(Less(pool, c)) \in Nat
  BY <1>3, SizeOfPool
<1> QED
  BY <1>3, <1>5, <1>6 DEF Size

(* A pool has parts of any size.                                           *)
LEMMA PoolOfSize ==
  ASSUME NEW pool \in Pool, NEW n \in Nat, n <= Size(pool)
  PROVE  \E c \in Pool : Size(c) = n /\ \A m \in Models : c[m] <= pool[m]
<1> DEFINE P == {k \in Nat : k <= n => \E c \in Pool : Size(c) = k /\ \A m \in Models : c[m] <= pool[m]}
<1>0. IsFiniteSet(Models) /\ (\A m \in Models : pool[m] \in Nat) /\ Size(pool) \in Nat
  BY ProblemAssumption, SizeOfPool DEF OrganizationAssumption, Pool
<1>1. 0 \in P
  <2> DEFINE c == [m \in Models |-> 0]
  <2>1. c \in Pool /\ \A m \in Models : c[m] = 0
    BY DEF Pool
  <2>2. Size(c) \in Nat /\ ~(Size(c) > 0)
    BY <2>1, SizeOfPool
  <2> HIDE DEF c
  <2>3. Size(c) = 0 /\ \A m \in Models : c[m] <= pool[m]
    BY <1>0, <2>1, <2>2
  <2> QED
    BY <2>1, <2>3
<1>2. ASSUME NEW k \in Nat, k \in P PROVE k + 1 \in P
  <2> SUFFICES ASSUME k + 1 <= n
               PROVE  \E c \in Pool : Size(c) = k + 1 /\ \A m \in Models : c[m] <= pool[m]
    OBVIOUS
  <2>1. PICK c \in Pool : Size(c) = k /\ \A m \in Models : c[m] <= pool[m]
    BY <1>2
  <2>2. \A m \in Models : c[m] \in Nat
    BY <2>1 DEF Pool
  <2>3. \E m \in Models : c[m] # pool[m]
    <3>1. (\A m \in Models : c[m] = pool[m]) => c = pool
      BY DEF Pool
    <3> QED
      BY <1>0, <2>1, <3>1
  <2>4. PICK m \in Models : c[m] # pool[m]
    BY <2>3
  <2> DEFINE d == [c EXCEPT ![m] = c[m] + 1]
             rest == Models \ {m}
  <2>5. /\ d \in Pool /\ d[m] = c[m] + 1
        /\ \A x \in rest : d[x] = c[x]
    BY <2>1, <2>2, <2>4 DEF Pool
  <2>6. \A x \in Models : d[x] <= pool[x]
    BY <1>0, <2>1, <2>2, <2>4, <2>5
  <2>7. \A x \in Models : d[x] \in Int /\ c[x] \in Int
    BY <2>2, <2>5 DEF Pool
  <2> HIDE DEF d
  <2>8. SumFunctionOnSet(c, Models) = c[m] + SumFunctionOnSet(c, rest)
    BY <1>0, <2>4, <2>7, SumWithout
  <2>9. SumFunctionOnSet(d, Models) = d[m] + SumFunctionOnSet(d, rest)
    BY <1>0, <2>4, <2>7, SumWithout
  <2>10. IsFiniteSet(rest)
    BY <1>0, FS_Subset
  <2>11. SumFunctionOnSet(d, rest) = SumFunctionOnSet(c, rest)
    BY <2>5, <2>7, <2>10, SumIsDetermined
  <2>12. SumFunctionOnSet(c, rest) \in Int /\ c[m] \in Nat
    BY <2>2, <2>4, <2>7, <2>10, SumIsInt
  <2>13. Size(d) = k + 1
    BY <2>1, <2>5, <2>8, <2>9, <2>11, <2>12 DEF Size
  <2> QED
    BY <2>5, <2>6, <2>13
<1> HIDE DEF P
<1>3. Nat \subseteq P
  BY <1>1, <1>2, NatSetInduction
<1>4. n \in P
  BY <1>3
<1> QED
  BY <1>4 DEF P

-----------------------------------------------------------------------------
(* Coalitions formed at the same time                                      *)

(* The counts of a model in some coalitions.                               *)
CountsIn(cs, m) == [i \in DOMAIN cs |-> cs[i][m]]

(* Coalitions that can be formed at the same time.                         *)
Fits(cs) ==
  /\ cs \in Seq(Pool)
  /\ \A i \in DOMAIN cs : Size(cs[i]) > 0
  /\ \A m \in Models : Members(cs, m) <= agents[m]

(* Members adds up counts.                                                 *)
LEMMA MembersCounted ==
  ASSUME NEW cs \in Seq(Pool), NEW m \in Models
  PROVE  /\ Members(cs, m) = SumFunctionOnSet(CountsIn(cs, m), 1 .. Len(cs))
         /\ IsFiniteSet(1 .. Len(cs)) /\ Len(cs) \in Nat /\ DOMAIN cs = 1 .. Len(cs)
         /\ \A i \in 1 .. Len(cs) : /\ cs[i] \in Pool
                                    /\ CountsIn(cs, m)[i] = cs[i][m]
                                    /\ cs[i][m] \in Nat
         /\ Members(cs, m) \in Nat
<1>1. Len(cs) \in Nat /\ DOMAIN cs = 1 .. Len(cs) /\ cs \in [1 .. Len(cs) -> Pool]
  BY LenProperties
<1>2. \A i \in 1 .. Len(cs) : cs[i] \in Pool
  BY <1>1
<1>3. \A i \in 1 .. Len(cs) : CountsIn(cs, m)[i] = cs[i][m] /\ cs[i][m] \in Nat
  BY <1>1, <1>2 DEF CountsIn, Pool
<1>4. IsFiniteSet(1 .. Len(cs))
  BY <1>1, FS_Interval
<1>5. Members(cs, m) = SumFunctionOnSet(CountsIn(cs, m), 1 .. Len(cs))
  BY <1>1 DEF Members, CountsIn
<1>6. \A i \in 1 .. Len(cs) : CountsIn(cs, m)[i] \in Nat
  BY <1>3
<1>7. SumFunctionOnSet(CountsIn(cs, m), 1 .. Len(cs)) \in Nat
  BY <1>4, <1>6, SumIsNat
<1> QED
  BY <1>1, <1>2, <1>3, <1>4, <1>5, <1>7

(* No coalition has no agents.                                             *)
LEMMA NoMembers ==
  ASSUME NEW m
  PROVE  Members(<<>>, m) = 0
<1>1. DOMAIN <<>> = {}
  OBVIOUS
<1>2. Members(<<>>, m) = SumFunctionOnSet(CountsIn(<<>>, m), {})
  BY <1>1 DEF Members, CountsIn
<1> QED
  BY <1>2, SumOfNothing

(* One coalition more.                                                     *)
LEMMA MembersAppended ==
  ASSUME NEW cs \in Seq(Pool), NEW c \in Pool
  PROVE  /\ Append(cs, c) \in Seq(Pool) /\ Len(Append(cs, c)) = Len(cs) + 1 /\ Len(cs) \in Nat
         /\ \A i \in 1 .. Len(cs) : Append(cs, c)[i] = cs[i]
         /\ Append(cs, c)[Len(cs) + 1] = c
         /\ \A m \in Models : Members(Append(cs, c), m) = Members(cs, m) + c[m]
<1>1. /\ Append(cs, c) \in Seq(Pool) /\ Len(Append(cs, c)) = Len(cs) + 1
      /\ \A i \in 1 .. Len(cs) : Append(cs, c)[i] = cs[i]
      /\ Append(cs, c)[Len(cs) + 1] = c
  BY AppendProperties
<1>2. Len(cs) \in Nat
  BY LenProperties
<1>3. ASSUME NEW m \in Models PROVE Members(Append(cs, c), m) = Members(cs, m) + c[m]
  <2> DEFINE ds == Append(cs, c)
             k == Len(cs)
  <2> HIDE DEF ds, k
  <2>1. /\ ds \in Seq(Pool) /\ k \in Nat /\ Len(ds) = k + 1
        /\ \A i \in 1 .. k : ds[i] = cs[i]
        /\ ds[k + 1] = c
    BY <1>1, <1>2 DEF ds, k
  <2>2. /\ Members(cs, m) = SumFunctionOnSet(CountsIn(cs, m), 1 .. k)
        /\ IsFiniteSet(1 .. k)
        /\ \A i \in 1 .. k : CountsIn(cs, m)[i] = cs[i][m] /\ cs[i][m] \in Nat
        /\ Members(cs, m) \in Nat
    BY MembersCounted DEF k
  <2>3. /\ Members(ds, m) = SumFunctionOnSet(CountsIn(ds, m), 1 .. k + 1)
        /\ \A i \in 1 .. k + 1 : CountsIn(ds, m)[i] = ds[i][m] /\ ds[i][m] \in Nat
    BY <2>1, MembersCounted
  <2>4. 1 .. k + 1 = (1 .. k) \cup {k + 1} /\ k + 1 \notin 1 .. k
    BY <2>1
  <2>5. \A i \in (1 .. k) \cup {k + 1} : CountsIn(ds, m)[i] \in Int
    BY <2>3, <2>4
  <2>6. SumFunctionOnSet(CountsIn(ds, m), (1 .. k) \cup {k + 1})
          = CountsIn(ds, m)[k + 1] + SumFunctionOnSet(CountsIn(ds, m), 1 .. k)
    BY <2>2, <2>4, <2>5, SumWith
  <2>7. \A i \in 1 .. k : CountsIn(cs, m)[i] \in Int /\ CountsIn(cs, m)[i] = CountsIn(ds, m)[i]
    BY <2>1, <2>2, <2>3
  <2>8. SumFunctionOnSet(CountsIn(cs, m), 1 .. k) = SumFunctionOnSet(CountsIn(ds, m), 1 .. k)
    BY <2>2, <2>7, SumIsDetermined
  <2>9. CountsIn(ds, m)[k + 1] = c[m] /\ c[m] \in Nat
    <3>1. k + 1 \in 1 .. k + 1
      BY <2>1
    <3> QED
      BY <2>1, <2>3, <3>1
  <2>10. Members(ds, m) = SumFunctionOnSet(CountsIn(ds, m), (1 .. k) \cup {k + 1})
    BY <2>3, <2>4
  <2>11. Members(ds, m) = c[m] + Members(cs, m)
    BY <2>2, <2>6, <2>8, <2>9, <2>10, Zenon
  <2>12. Members(ds, m) = Members(cs, m) + c[m]
    BY <2>2, <2>9, <2>11
  <2> QED
    BY <2>12 DEF ds
<1> QED
  BY <1>1, <1>2, <1>3

(* What is left of the agents.                                             *)
LEMMA RemainingOf ==
  ASSUME agents \in Pool, NEW cs, Fits(cs)
  PROVE  /\ Remaining(cs) \in Pool
         /\ \A m \in Models : Remaining(cs)[m] = agents[m] - Members(cs, m)
<1>1. cs \in Seq(Pool)
  BY DEF Fits
<1>2. \A m \in Models : Members(cs, m) \in Nat
  BY <1>1, MembersCounted
<1>3. \A m \in Models : agents[m] - Members(cs, m) \in Nat
  BY <1>2 DEF Fits, Pool
<1> QED
  BY <1>3 DEF Remaining, Pool

(* A coalition of the remaining agents fits as well.                       *)
LEMMA FitsAppended ==
  ASSUME agents \in Pool, NEW cs, Fits(cs), NEW c \in SubPools(Remaining(cs))
  PROVE  /\ Fits(Append(cs, c)) /\ c \in Pool
         /\ Remaining(Append(cs, c)) = Less(Remaining(cs), c)
         /\ Size(Remaining(Append(cs, c))) = Size(Remaining(cs)) - Size(c)
<1>1. Remaining(cs) \in Pool /\ \A m \in Models : Remaining(cs)[m] = agents[m] - Members(cs, m)
  BY RemainingOf
<1>2. c \in Pool /\ Size(c) > 0 /\ \A m \in Models : c[m] <= Remaining(cs)[m]
  BY <1>1, SubPoolsOf
<1>3. cs \in Seq(Pool)
  BY DEF Fits
<1>4. /\ Append(cs, c) \in Seq(Pool) /\ Len(Append(cs, c)) = Len(cs) + 1 /\ Len(cs) \in Nat
      /\ \A i \in 1 .. Len(cs) : Append(cs, c)[i] = cs[i]
      /\ Append(cs, c)[Len(cs) + 1] = c
      /\ \A m \in Models : Members(Append(cs, c), m) = Members(cs, m) + c[m]
  BY <1>2, <1>3, MembersAppended
<1>5. \A m \in Models : Members(cs, m) \in Nat /\ agents[m] \in Nat /\ c[m] \in Nat
  BY <1>2, <1>3, MembersCounted DEF Pool
<1>6. \A m \in Models : Members(Append(cs, c), m) <= agents[m]
  BY <1>1, <1>2, <1>4, <1>5
<1>7. DOMAIN Append(cs, c) = 1 .. Len(cs) + 1 /\ DOMAIN cs = 1 .. Len(cs)
  BY <1>3, <1>4, LenProperties
<1>8. \A i \in DOMAIN Append(cs, c) : Size(Append(cs, c)[i]) > 0
  <2> TAKE i \in DOMAIN Append(cs, c)
  <2>1. i \in 1 .. Len(cs) \/ i = Len(cs) + 1
    BY <1>4, <1>7
  <2> QED
    BY <1>2, <1>4, <1>7, <2>1 DEF Fits
<1>9. Fits(Append(cs, c))
  BY <1>4, <1>6, <1>8 DEF Fits
<1>10. Remaining(Append(cs, c)) = Less(Remaining(cs), c)
  <2>1. \A m \in Models : agents[m] - Members(Append(cs, c), m) = Remaining(cs)[m] - c[m]
    BY <1>1, <1>4, <1>5
  <2> QED
    BY <2>1 DEF Remaining, Less
<1>11. Size(Less(Remaining(cs), c)) = Size(Remaining(cs)) - Size(c)
  BY <1>1, <1>2, SizeOfLess
<1> QED
  BY <1>2, <1>9, <1>10, <1>11

(* The sizes of coalitions add up to the agents they have.                 *)
LEMMA SizesAddUp ==
  ASSUME agents \in Pool, NEW cs, Fits(cs), NEW p, \A i \in DOMAIN cs : p[i] = Size(cs[i])
  PROVE  SumFunctionOnSet(p, DOMAIN cs) = Size(agents) - Size(Remaining(cs))
<1>1. cs \in Seq(Pool) /\ IsFiniteSet(Models)
  BY ProblemAssumption DEF Fits, OrganizationAssumption
<1>2. Len(cs) \in Nat /\ DOMAIN cs = 1 .. Len(cs) /\ \A i \in 1 .. Len(cs) : cs[i] \in Pool
  <2>1. Len(cs) \in Nat /\ DOMAIN cs = 1 .. Len(cs) /\ cs \in [1 .. Len(cs) -> Pool]
    BY <1>1, LenProperties
  <2> QED
    BY <2>1
<1> DEFINE I == 1 .. Len(cs)
<1>3. IsFiniteSet(I)
  BY <1>2, FS_Interval
<1>4. \A i \in I : \A m \in Models : cs[i][m] \in Int
  BY <1>2 DEF Pool
<1>5. \A i \in I : p[i] = SumFunctionOnSet(cs[i], Models)
  BY <1>2 DEF Size
<1>6. SumFunctionOnSet(p, I) = SumFunctionOnSet(ColumnSums(cs, I, I, Models), Models)
  <2> HIDE DEF I
  <2> QED
    BY <1>1, <1>3, <1>4, <1>5, RowsAndColumns
<1> DEFINE members == ColumnSums(cs, I, I, Models)
<1>7. \A m \in Models : members[m] = Members(cs, m)
  <2> TAKE m \in Models
  <2>1. members[m] = SumFunctionOnSet(ColumnAt(cs, I, m), I)
    BY DEF ColumnSums
  <2>2. ColumnAt(cs, I, m) = CountsIn(cs, m)
    BY <1>2 DEF ColumnAt, CountsIn
  <2>3. Members(cs, m) = SumFunctionOnSet(CountsIn(cs, m), I)
    BY <1>1, MembersCounted
  <2> QED
    BY <2>1, <2>2, <2>3
<1> HIDE DEF members
<1>8. Remaining(cs) \in Pool /\ \A m \in Models : Remaining(cs)[m] = agents[m] - Members(cs, m)
  BY RemainingOf
<1>9. \A m \in Models : Members(cs, m) \in Nat /\ agents[m] \in Nat
  BY <1>1, MembersCounted DEF Pool
<1>10. \A m \in Models : members[m] \in Int /\ Remaining(cs)[m] \in Int /\ agents[m] = members[m] + Remaining(cs)[m]
  BY <1>7, <1>8, <1>9
<1>11. SumFunctionOnSet(agents, Models) = SumFunctionOnSet(members, Models) + SumFunctionOnSet(Remaining(cs), Models)
  BY <1>1, <1>10, SumOfSums
<1>12. SumFunctionOnSet(members, Models) \in Int
  BY <1>1, <1>10, SumIsInt
<1>13. Size(agents) \in Nat /\ Size(Remaining(cs)) \in Nat
  BY <1>8, SizeOfPool
<1>14. SumFunctionOnSet(p, DOMAIN cs) = SumFunctionOnSet(members, Models)
  BY <1>2, <1>6 DEF members
<1> QED
  BY <1>11, <1>12, <1>13, <1>14 DEF Size

-----------------------------------------------------------------------------
(* Divisions and their order                                               *)

(* What is searched: some problem and its bounds.                          *)
Given ==
  /\ agents \in {given.agents : given \in Problems}
  /\ agents \in Pool
  /\ value \in [SubPools(agents) -> {0} \cup Tiny .. Ceiling]
  /\ bounds = [p \in IntegerPartitions(Size(agents)) |-> PartitionBounds(p)]

Complete(cs) == \A m \in Models : Members(cs, m) = agents[m]

(* A coalition that fits is part of the agents.                            *)
LEMMA CoalitionsOfAgents ==
  ASSUME agents \in Pool, NEW cs, Fits(cs), NEW i \in DOMAIN cs
  PROVE  cs[i] \in SubPools(agents) /\ cs[i] \in Pool /\ Size(cs[i]) \in Nat \ {0}
<1>1. cs \in Seq(Pool)
  BY DEF Fits
<1>2. cs[i] \in Pool
  <2>1. cs \in [1 .. Len(cs) -> Pool]
    BY <1>1, LenProperties
  <2> QED
    BY <2>1
<1>3. ASSUME NEW m \in Models PROVE cs[i][m] <= agents[m]
  <2>1. /\ Members(cs, m) = SumFunctionOnSet(CountsIn(cs, m), 1 .. Len(cs))
        /\ IsFiniteSet(1 .. Len(cs)) /\ DOMAIN cs = 1 .. Len(cs)
        /\ \A k \in 1 .. Len(cs) : CountsIn(cs, m)[k] = cs[k][m] /\ cs[k][m] \in Nat
        /\ Members(cs, m) \in Nat
    BY <1>1, MembersCounted
  <2>2. \A k \in 1 .. Len(cs) : CountsIn(cs, m)[k] \in Nat
    BY <2>1
  <2>3. {i} \in SUBSET (1 .. Len(cs))
    BY <2>1
  <2>4. SumFunctionOnSet(CountsIn(cs, m), {i}) <= SumFunctionOnSet(CountsIn(cs, m), 1 .. Len(cs))
    BY <2>1, <2>2, <2>3, SumOfPart
  <2>5. CountsIn(cs, m)[i] = cs[i][m] /\ cs[i][m] \in Nat
    BY <2>1
  <2>6. SumFunctionOnSet(CountsIn(cs, m), {i}) = cs[i][m]
    BY <2>5, SumOfOne
  <2>7. Members(cs, m) <= agents[m] /\ agents[m] \in Nat
    BY DEF Fits, Pool
  <2> QED
    BY <2>1, <2>4, <2>5, <2>6, <2>7
<1>4. Size(cs[i]) \in Nat /\ Size(cs[i]) > 0
  BY <1>2, SizeOfPool DEF Fits
<1> QED
  BY <1>2, <1>3, <1>4, SubPoolsOf

(* Divisions are coalitions that fit together and leave no agent.          *)
LEMMA DivisionsOf ==
  ASSUME Given, NEW cs
  PROVE  cs \in Divisions[agents] <=>
           Fits(cs) /\ Complete(cs) /\ Len(cs) \in 1 .. Size(agents) /\ DOMAIN cs = 1 .. Len(cs)
<1>1. agents \in Pool /\ Size(agents) \in Nat
  BY SizeOfPool DEF Given
<1>2. Divisions[agents] = {ds \in UNION {[1 .. k -> SubPools(agents)] : k \in 1 .. Size(agents)} :
                             \A m \in Models : Members(ds, m) = agents[m]}
  BY DEF Divisions, Given
<1>3. ASSUME cs \in Divisions[agents]
      PROVE  Fits(cs) /\ Complete(cs) /\ Len(cs) \in 1 .. Size(agents) /\ DOMAIN cs = 1 .. Len(cs)
  <2>1. PICK k \in 1 .. Size(agents) : cs \in [1 .. k -> SubPools(agents)]
    BY <1>2, <1>3
  <2>2. \A i \in 1 .. k : cs[i] \in Pool /\ Size(cs[i]) > 0
    BY <1>1, <2>1, SubPoolsOf
  <2>3. k \in Nat /\ cs \in [1 .. k -> Pool]
    BY <1>1, <2>1, <2>2
  <2>4. cs \in Seq(Pool) /\ Len(cs) = k
    BY <2>3
  <2>5. \A m \in Models : Members(cs, m) = agents[m] /\ agents[m] \in Nat
    BY <1>1, <1>2, <1>3 DEF Pool
  <2>6. \A m \in Models : Members(cs, m) <= agents[m]
    BY <2>5
  <2> QED
    BY <2>1, <2>2, <2>3, <2>4, <2>5, <2>6 DEF Fits, Complete
<1>4. ASSUME Fits(cs), Complete(cs), Len(cs) \in 1 .. Size(agents), DOMAIN cs = 1 .. Len(cs)
      PROVE  cs \in Divisions[agents]
  <2>1. \A i \in 1 .. Len(cs) : cs[i] \in SubPools(agents)
    BY <1>1, <1>4, CoalitionsOfAgents
  <2>2. cs \in [1 .. Len(cs) -> Pool]
    BY <1>4, LenProperties DEF Fits
  <2>3. cs \in [1 .. Len(cs) -> SubPools(agents)]
    BY <2>1, <2>2
  <2> QED
    BY <1>2, <1>4, <2>3 DEF Complete
<1> QED
  BY <1>3, <1>4

(* The first model of a coalition.                                         *)
LEMMA FirstModelOf ==
  ASSUME NEW c \in Pool, Size(c) > 0
  PROVE  /\ FirstModel(c) \in Models /\ FirstModel(c) \in Nat
         /\ c[FirstModel(c)] > 0
         /\ \A m \in Models : c[m] > 0 => FirstModel(c) <= m
<1> DEFINE S == {m \in Models : c[m] > 0}
<1>1. S \subseteq Nat /\ S # {}
  BY ProblemAssumption, SizeOfPool DEF OrganizationAssumption
<1>2. FirstModel(c) = Min(S)
  BY DEF FirstModel
<1> HIDE DEF S
<1>3. Min(S) \in S /\ \A x \in S : Min(S) <= x
  BY <1>1, LeastIsMin
<1> QED
  BY <1>1, <1>2, <1>3 DEF S

(* The order searchSubspace tries coalitions in.                           *)
Earlier(c, d) ==
  \/ Size(c) > Size(d)
  \/ Size(c) = Size(d) /\ FirstModel(c) <= FirstModel(d)

InOrder(cs) == \A i, j \in DOMAIN cs : i < j => Earlier(cs[i], cs[j])

LEMMA EarlierOrders ==
  ASSUME agents \in Pool, NEW cs, Fits(cs), NEW R,
         \A i, j \in DOMAIN cs : <<i, j>> \in R <=> Earlier(cs[i], cs[j])
  PROVE  TotallyOrders(R, DOMAIN cs)
<1>1. \A i \in DOMAIN cs : Size(cs[i]) \in Nat /\ FirstModel(cs[i]) \in Nat
  <2> TAKE i \in DOMAIN cs
  <2>1. cs[i] \in Pool /\ Size(cs[i]) \in Nat \ {0}
    BY CoalitionsOfAgents
  <2>2. FirstModel(cs[i]) \in Nat
    BY <2>1, FirstModelOf
  <2> QED
    BY <2>1, <2>2
<1>2. \A i, j \in DOMAIN cs : Earlier(cs[i], cs[j]) \/ Earlier(cs[j], cs[i])
  BY <1>1 DEF Earlier
<1>3. \A i, j, k \in DOMAIN cs : Earlier(cs[i], cs[j]) /\ Earlier(cs[j], cs[k]) => Earlier(cs[i], cs[k])
  BY <1>1 DEF Earlier
<1> QED
  BY <1>2, <1>3 DEF TotallyOrders

(* The coalitions of a division, in another order.                         *)
Reordered(cs, f) == [i \in DOMAIN cs |-> cs[f[i]]]
Worths(cs) == {value[cs[i]] : i \in DOMAIN cs}

(* Every division can be put into this order.                              *)
LEMMA OrderExists ==
  ASSUME Given, NEW cs \in Divisions[agents]
  PROVE  \E ds \in Divisions[agents] : InOrder(ds) /\ StructureValue(ds) = StructureValue(cs)
<1> DEFINE I == 1 .. Len(cs)
<1>1. agents \in Pool /\ Fits(cs) /\ Complete(cs) /\ Len(cs) \in 1 .. Size(agents) /\ DOMAIN cs = I
  BY DivisionsOf DEF Given
<1>2. Len(cs) \in Nat /\ cs \in [I -> Pool] /\ cs \in Seq(Pool)
  BY <1>1, LenProperties DEF Fits
<1>3. IsFiniteSet(I) /\ Cardinality(I) = Len(cs)
  BY <1>2, FS_Interval
<1> DEFINE R == {p \in I \X I : Earlier(cs[p[1]], cs[p[2]])}
<1>4. \A i, j \in I : <<i, j>> \in R <=> Earlier(cs[i], cs[j])
  OBVIOUS
<1> HIDE DEF R
<1>5. TotallyOrders(R, I)
  <2> HIDE DEF I
  <2> QED
    BY <1>1, <1>4, EarlierOrders
<1>6. PICK f : Listed(f, R, I, Len(cs))
  <2> HIDE DEF I
  <2>1. \E f : Listed(f, R, I, Cardinality(I))
    BY <1>3, <1>5, OrderedListing
  <2> QED
    BY <1>3, <2>1
<1>7. f \in [I -> I] /\ \A i, j \in I : i < j => f[i] # f[j] /\ <<f[i], f[j]>> \in R
  BY <1>6 DEF Listed
<1>8. \A i, j \in I : f[i] = f[j] => i = j
  <2> SUFFICES ASSUME NEW i \in I, NEW j \in I, f[i] = f[j] PROVE i = j
    OBVIOUS
  <2>1. ~(i < j) /\ ~(j < i)
    BY <1>7
  <2>2. i \in Int /\ j \in Int
    OBVIOUS
  <2> QED
    BY <2>1, <2>2
<1>9. \A k \in I : \E i \in I : f[i] = k
  <2> HIDE DEF I
  <2>1. f \in Injection(I, I)
    BY <1>7, <1>8 DEF Injection, IsInjective
  <2>2. f \in Surjection(I, I)
    BY <1>3, <2>1, FS_Injection
  <2> QED
    BY <2>2 DEF Surjection
<1> DEFINE ds == Reordered(cs, f)
<1>10. /\ ds \in [I -> Pool] /\ DOMAIN ds = I
       /\ \A i \in I : ds[i] = cs[f[i]] /\ f[i] \in I
  BY <1>1, <1>2, <1>7 DEF Reordered
<1>11. ds \in Seq(Pool) /\ Len(ds) = Len(cs)
  BY <1>2, <1>10
<1> HIDE DEF ds
<1>12. \A m \in Models : Members(ds, m) = Members(cs, m)
  <2> TAKE m \in Models
  <2> DEFINE g == CountsIn(ds, m)
             h == CountsIn(cs, m)
  <2>1. /\ Members(cs, m) = SumFunctionOnSet(h, I)
        /\ \A i \in I : h[i] = cs[i][m] /\ cs[i][m] \in Nat
    BY <1>2, MembersCounted
  <2>2. /\ Members(ds, m) = SumFunctionOnSet(g, I)
        /\ \A i \in I : g[i] = ds[i][m] /\ ds[i][m] \in Nat
    BY <1>11, MembersCounted
  <2>3. \A i \in I : g[i] \in Int /\ h[f[i]] = g[i]
    BY <1>10, <2>1, <2>2
  <2>4. \A i \in I : f[i] \in I
    BY <1>10
  <2> HIDE DEF I, g, h
  <2>5. SumFunctionOnSet(g, I) = SumFunctionOnSet(h, I)
    BY <1>3, <1>8, <1>9, <2>3, <2>4, SumReindexed
  <2> QED
    BY <2>1, <2>2, <2>5
<1>13. Fits(ds)
  <2>1. \A i \in DOMAIN ds : Size(ds[i]) > 0
    BY <1>1, <1>10 DEF Fits
  <2> QED
    BY <1>1, <1>11, <1>12, <2>1 DEF Fits
<1>14. ds \in Divisions[agents]
  <2>1. Complete(ds)
    BY <1>1, <1>12 DEF Complete
  <2> QED
    BY <1>1, <1>10, <1>11, <1>13, <2>1, DivisionsOf
<1>15. InOrder(ds)
  <2> SUFFICES ASSUME NEW i \in I, NEW j \in I, i < j PROVE Earlier(ds[i], ds[j])
    BY <1>10 DEF InOrder
  <2>1. <<f[i], f[j]>> \in R
    BY <1>7
  <2> QED
    BY <1>4, <1>10, <2>1
<1>16. StructureValue(ds) = StructureValue(cs)
  <2>1. \A w : w \in Worths(ds) <=> w \in Worths(cs)
    <3> TAKE w
    <3> HIDE DEF I
    <3>1. w \in Worths(ds) => w \in Worths(cs)
      BY <1>1, <1>10 DEF Worths
    <3>2. ASSUME w \in Worths(cs) PROVE w \in Worths(ds)
      <4>1. PICK k \in I : w = value[cs[k]]
        BY <1>1, <3>2 DEF Worths
      <4>2. PICK i \in I : f[i] = k
        BY <1>9
      <4> QED
        BY <1>10, <4>1, <4>2 DEF Worths
    <3> QED
      BY <3>1, <3>2
  <2>2. Worths(ds) = Worths(cs)
    BY <2>1
  <2> QED
    BY <2>2 DEF StructureValue, Worths
<1> QED
  BY <1>14, <1>15, <1>16

-----------------------------------------------------------------------------
(* Prefixes and positions                                                  *)

Shape(cs) == [i \in DOMAIN cs |-> Size(cs[i])]

(* The first coalitions of a sequence of them.                             *)
Prefix(cs, k) == [i \in 1 .. k |-> cs[i]]

(* The sizes of a division in order are an integer partition.              *)
LEMMA ShapeOf ==
  ASSUME Given, NEW cs \in Divisions[agents], InOrder(cs)
  PROVE  /\ Shape(cs) \in IntegerPartitions(Size(agents))
         /\ DOMAIN Shape(cs) = 1 .. Len(cs) /\ Len(Shape(cs)) = Len(cs)
         /\ \A i \in 1 .. Len(cs) : Shape(cs)[i] = Size(cs[i])
<1> DEFINE n == Size(agents)
           I == 1 .. Len(cs)
           p == Shape(cs)
<1>1. agents \in Pool /\ Fits(cs) /\ Complete(cs) /\ Len(cs) \in 1 .. n /\ DOMAIN cs = I /\ n \in Nat
  BY DivisionsOf, SizeOfPool DEF Given
<1>2. DOMAIN p = I /\ \A i \in I : p[i] = Size(cs[i])
  BY <1>1 DEF Shape
<1>3. ASSUME NEW i \in I PROVE p[i] \in 1 .. n /\ cs[i] \in Pool
  <2>1. cs[i] \in SubPools(agents) /\ cs[i] \in Pool /\ Size(cs[i]) \in Nat \ {0}
    BY <1>1, CoalitionsOfAgents
  <2>2. \A m \in Models : cs[i][m] <= agents[m]
    BY <1>1, <2>1, SubPoolsOf
  <2>3. Size(cs[i]) <= n
    BY <1>1, <2>1, <2>2, SizeIsMonotonic
  <2> QED
    BY <1>1, <1>2, <2>1, <2>3
<1>4. p \in [I -> 1 .. n]
  BY <1>2, <1>3 DEF Shape
<1>5. SumFunctionOnSet(p, DOMAIN cs) = n - Size(Remaining(cs))
  <2>1. \A i \in DOMAIN cs : p[i] = Size(cs[i])
    BY <1>1, <1>2
  <2> HIDE DEF p
  <2> QED
    BY <1>1, <2>1, SizesAddUp
<1>6. Size(Remaining(cs)) = 0
  <2>1. Remaining(cs) \in Pool /\ \A m \in Models : Remaining(cs)[m] = agents[m] - Members(cs, m)
    BY <1>1, RemainingOf
  <2>2. \A m \in Models : Remaining(cs)[m] = 0
    BY <1>1, <2>1 DEF Complete, Pool
  <2>3. Size(Remaining(cs)) \in Nat /\ ~(Size(Remaining(cs)) > 0)
    BY <2>1, <2>2, SizeOfPool
  <2> QED
    BY <2>3
<1>7. SumFunctionOnSet(p, DOMAIN p) = n
  BY <1>1, <1>2, <1>5, <1>6
<1>8. \A i, j \in DOMAIN p : i <= j => p[i] >= p[j]
  <2> SUFFICES ASSUME NEW i \in I, NEW j \in I, i <= j PROVE p[i] >= p[j]
    BY <1>2
  <2>1. p[i] \in Int /\ p[j] \in Int /\ i \in Int /\ j \in Int
    BY <1>3
  <2>2. i < j => Size(cs[i]) >= Size(cs[j])
    <3>1. i < j => Earlier(cs[i], cs[j])
      BY <1>1 DEF InOrder
    <3> QED
      BY <1>2, <2>1, <3>1 DEF Earlier
  <2>3. i = j => p[i] >= p[j]
    BY <2>1
  <2> HIDE DEF p
  <2> QED
    BY <1>2, <2>1, <2>2, <2>3
<1>9. p \in IntegerPartitions(n)
  <2> HIDE DEF p
  <2> QED
    BY <1>1, <1>4, <1>7, <1>8 DEF IntegerPartitions
<1>10. Len(p) = Len(cs)
  BY <1>1, <1>2
<1> QED
  BY <1>2, <1>9, <1>10

(* A prefix with one coalition more.                                       *)
LEMMA PrefixOf ==
  ASSUME NEW cs \in Seq(Pool), NEW k \in 0 .. Len(cs)
  PROVE  /\ Prefix(cs, k) \in Seq(Pool) /\ Len(Prefix(cs, k)) = k
         /\ DOMAIN Prefix(cs, k) = 1 .. k
         /\ \A i \in 1 .. k : Prefix(cs, k)[i] = cs[i]
<1>1. Len(cs) \in Nat /\ cs \in [1 .. Len(cs) -> Pool]
  BY LenProperties
<1>2. Prefix(cs, k) \in [1 .. k -> Pool] /\ k \in Nat
  BY <1>1 DEF Prefix
<1> QED
  BY <1>2 DEF Prefix

LEMMA PrefixGrows ==
  ASSUME NEW cs \in Seq(Pool), NEW k \in 0 .. Len(cs) - 1
  PROVE  /\ Prefix(cs, k + 1) = Append(Prefix(cs, k), cs[k + 1])
         /\ cs[k + 1] \in Pool
<1>1. Len(cs) \in Nat /\ cs \in [1 .. Len(cs) -> Pool]
  BY LenProperties
<1>2. cs[k + 1] \in Pool /\ k \in 0 .. Len(cs) /\ k + 1 \in 0 .. Len(cs) /\ k \in Nat
  BY <1>1
<1> DEFINE s == Prefix(cs, k)
           t == Prefix(cs, k + 1)
           a == Append(s, cs[k + 1])
<1>3. s \in Seq(Pool) /\ Len(s) = k /\ \A i \in 1 .. k : s[i] = cs[i]
  BY <1>2, PrefixOf
<1>4. t \in Seq(Pool) /\ Len(t) = k + 1 /\ \A i \in 1 .. k + 1 : t[i] = cs[i]
  BY <1>2, PrefixOf
<1> HIDE DEF s, t
<1>5. a \in Seq(Pool) /\ Len(a) = k + 1 /\ (\A i \in 1 .. k : a[i] = s[i]) /\ a[k + 1] = cs[k + 1]
  BY <1>2, <1>3, AppendProperties
<1> HIDE DEF a
<1>6. \A i \in 1 .. k + 1 : a[i] = t[i]
  BY <1>2, <1>3, <1>4, <1>5
<1>7. a = t
  BY <1>4, <1>5, <1>6, SeqEqual
<1> QED
  BY <1>2, <1>7 DEF a, s, t

(* What has been chosen and what is to be chosen next fit.                 *)
LEMMA PrefixFits ==
  ASSUME agents \in Pool, NEW cs, Fits(cs), NEW k \in 0 .. Len(cs)
  PROVE  /\ Fits(Prefix(cs, k))
         /\ k < Len(cs) => cs[k + 1] \in SubPools(Remaining(Prefix(cs, k)))
<1>1. /\ cs \in Seq(Pool) /\ Len(cs) \in Nat /\ DOMAIN cs = 1 .. Len(cs)
      /\ \A i \in DOMAIN cs : Size(cs[i]) > 0
      /\ \A m \in Models : Members(cs, m) <= agents[m] /\ agents[m] \in Nat
  BY LenProperties DEF Fits, Pool
<1>2. ASSUME NEW j \in 0 .. Len(cs), NEW m \in Models
      PROVE  Members(Prefix(cs, j), m) <= Members(cs, m) /\ Members(Prefix(cs, j), m) \in Nat
             /\ Members(cs, m) \in Nat
  <2> DEFINE s == Prefix(cs, j)
  <2>1. s \in Seq(Pool) /\ Len(s) = j /\ \A i \in 1 .. j : s[i] = cs[i]
    BY <1>1, PrefixOf
  <2> HIDE DEF s
  <2>2. /\ Members(s, m) = SumFunctionOnSet(CountsIn(s, m), 1 .. j)
        /\ \A i \in 1 .. j : CountsIn(s, m)[i] = s[i][m] /\ s[i][m] \in Nat
        /\ Members(s, m) \in Nat
    BY <2>1, MembersCounted
  <2>3. /\ Members(cs, m) = SumFunctionOnSet(CountsIn(cs, m), 1 .. Len(cs))
        /\ IsFiniteSet(1 .. Len(cs))
        /\ \A i \in 1 .. Len(cs) : CountsIn(cs, m)[i] = cs[i][m] /\ cs[i][m] \in Nat
        /\ Members(cs, m) \in Nat
    BY <1>1, MembersCounted
  <2>4. 1 .. j \in SUBSET (1 .. Len(cs)) /\ \A i \in 1 .. Len(cs) : CountsIn(cs, m)[i] \in Nat
    BY <1>1, <2>3
  <2>5. SumFunctionOnSet(CountsIn(cs, m), 1 .. j) <= SumFunctionOnSet(CountsIn(cs, m), 1 .. Len(cs))
    BY <2>3, <2>4, SumOfPart
  <2>6. IsFiniteSet(1 .. j) /\ \A i \in 1 .. j : CountsIn(s, m)[i] \in Int /\ CountsIn(s, m)[i] = CountsIn(cs, m)[i]
    <3>1. IsFiniteSet(1 .. j)
      BY <2>3, <2>4, FS_Subset
    <3>2. ASSUME NEW i \in 1 .. j
          PROVE  CountsIn(s, m)[i] \in Int /\ CountsIn(s, m)[i] = CountsIn(cs, m)[i]
      <4>1. i \in 1 .. Len(cs)
        BY <2>4
      <4>2. CountsIn(s, m)[i] = s[i][m] /\ s[i][m] \in Nat /\ s[i] = cs[i]
        BY <2>1, <2>2
      <4>3. CountsIn(cs, m)[i] = cs[i][m]
        BY <2>3, <4>1
      <4> QED
        BY <4>2, <4>3
    <3> QED
      BY <3>1, <3>2
  <2>7. SumFunctionOnSet(CountsIn(s, m), 1 .. j) = SumFunctionOnSet(CountsIn(cs, m), 1 .. j)
    BY <2>6, SumIsDetermined
  <2>8. Members(s, m) <= Members(cs, m)
    BY <2>2, <2>3, <2>5, <2>7
  <2> QED
    BY <2>2, <2>3, <2>8 DEF s
<1>3. ASSUME NEW j \in 0 .. Len(cs) PROVE Fits(Prefix(cs, j))
  <2>1. Prefix(cs, j) \in Seq(Pool) /\ DOMAIN Prefix(cs, j) = 1 .. j /\ \A i \in 1 .. j : Prefix(cs, j)[i] = cs[i]
    BY <1>1, PrefixOf
  <2>2. \A i \in DOMAIN Prefix(cs, j) : Size(Prefix(cs, j)[i]) > 0
    BY <1>1, <2>1
  <2>3. \A m \in Models : Members(Prefix(cs, j), m) <= agents[m]
    BY <1>1, <1>2
  <2> QED
    BY <2>1, <2>2, <2>3 DEF Fits
<1>4. ASSUME k < Len(cs) PROVE cs[k + 1] \in SubPools(Remaining(Prefix(cs, k)))
  <2> DEFINE s == Prefix(cs, k)
  <2>1. k \in 0 .. Len(cs) - 1 /\ k + 1 \in 0 .. Len(cs) /\ k + 1 \in DOMAIN cs
    BY <1>1, <1>4
  <2>2. Prefix(cs, k + 1) = Append(s, cs[k + 1]) /\ cs[k + 1] \in Pool
    BY <1>1, <2>1, PrefixGrows
  <2>3. s \in Seq(Pool) /\ Fits(s)
    BY <1>1, <1>3, PrefixOf
  <2>4. \A m \in Models : Members(Prefix(cs, k + 1), m) = Members(s, m) + cs[k + 1][m]
    <3>1. s \in Seq(Pool) /\ cs[k + 1] \in Pool
      BY <2>2, <2>3
    <3> HIDE DEF s
    <3>2. \A m \in Models : Members(Append(s, cs[k + 1]), m) = Members(s, m) + cs[k + 1][m]
      BY <3>1, MembersAppended
    <3> QED
      BY <2>2, <3>2
  <2>5. Remaining(s) \in Pool /\ \A m \in Models : Remaining(s)[m] = agents[m] - Members(s, m)
    BY <2>3, RemainingOf
  <2>6. \A m \in Models : cs[k + 1][m] <= Remaining(s)[m]
    <3> TAKE m \in Models
    <3>1. Members(Prefix(cs, k + 1), m) <= Members(cs, m) /\ Members(cs, m) \in Nat
      BY <1>2, <2>1
    <3>2. Members(s, m) \in Nat
      BY <1>2
    <3>3. cs[k + 1][m] \in Nat
      BY <2>2 DEF Pool
    <3>4. Members(cs, m) <= agents[m] /\ agents[m] \in Nat
      BY <1>1
    <3>5. Members(Prefix(cs, k + 1), m) = Members(s, m) + cs[k + 1][m]
      BY <2>4
    <3>6. Remaining(s)[m] = agents[m] - Members(s, m)
      BY <2>5
    <3> HIDE DEF s
    <3> QED
      BY <3>1, <3>2, <3>3, <3>4, <3>5, <3>6
  <2>7. Size(cs[k + 1]) > 0
    BY <1>1, <2>1
  <2> HIDE DEF s
  <2>8. cs[k + 1] \in SubPools(Remaining(s))
    BY <2>2, <2>5, <2>6, <2>7, SubPoolsOf
  <2> QED
    BY <2>8 DEF s
<1> QED
  BY <1>3, <1>4

(* The position of a coalition among the remaining agents.                 *)
Before(n) == {m \in Models : m < n}

LEMMA FirstIndexOf ==
  ASSUME agents \in Pool, NEW cs, Fits(cs), NEW c
  PROVE  /\ FirstIndex(cs, c) = SumFunctionOnSet(Remaining(cs), Before(FirstModel(c)))
         /\ FirstIndex(cs, c) \in Nat
<1>1. Remaining(cs) \in Pool
  BY RemainingOf
<1>2. IsFiniteSet(Before(FirstModel(c))) /\ \A m \in Before(FirstModel(c)) : Remaining(cs)[m] \in Nat
  <2>1. IsFiniteSet(Models)
    BY ProblemAssumption DEF OrganizationAssumption
  <2>2. Before(FirstModel(c)) \subseteq Models
    BY DEF Before
  <2> QED
    BY <1>1, <2>1, <2>2, FS_Subset DEF Pool
<1>3. SumFunctionOnSet(Remaining(cs), Before(FirstModel(c))) \in Nat
  BY <1>2, SumIsNat
<1> QED
  BY <1>3 DEF FirstIndex, Before

(* Of two coalitions in order the second one is not before the first one.  *)
LEMMA LaterIndex ==
  ASSUME agents \in Pool, NEW cs, Fits(cs), NEW c \in SubPools(Remaining(cs)),
         NEW d \in SubPools(Remaining(Append(cs, c))), FirstModel(c) <= FirstModel(d)
  PROVE  FirstIndex(cs, c) <= FirstIndex(Append(cs, c), d)
<1> DEFINE a == Append(cs, c)
           B == Before(FirstModel(c))
           D == Before(FirstModel(d))
<1>1. Fits(a) /\ c \in Pool /\ Remaining(a) = Less(Remaining(cs), c)
  BY FitsAppended
<1>2. Remaining(cs) \in Pool /\ Remaining(a) \in Pool
  BY <1>1, RemainingOf
<1>3. Size(c) > 0 /\ d \in Pool /\ Size(d) > 0
  BY <1>2, SubPoolsOf
<1>4. FirstModel(c) \in Nat /\ FirstModel(d) \in Nat /\ \A m \in Models : c[m] > 0 => FirstModel(c) <= m
  BY <1>1, <1>3, FirstModelOf
<1>5. IsFiniteSet(Models) /\ Models \subseteq Nat
  BY ProblemAssumption DEF OrganizationAssumption
<1>6. B \in SUBSET D /\ D \in SUBSET Models
  <2>1. D \in SUBSET Models
    BY DEF Before
  <2>2. ASSUME NEW m \in B PROVE m \in D
    <3>1. m \in Models /\ m \in Nat /\ m < FirstModel(c)
      BY <1>5 DEF Before
    <3>2. m < FirstModel(d)
      BY <1>4, <3>1
    <3> QED
      BY <3>1, <3>2 DEF Before
  <2> QED
    BY <2>1, <2>2
<1>7. IsFiniteSet(D) /\ IsFiniteSet(B)
  BY <1>5, <1>6, FS_Subset
<1>8. \A m \in B : Remaining(a)[m] = Remaining(cs)[m]
  <2> TAKE m \in B
  <2>1. m \in Models /\ m < FirstModel(c) /\ m \in Nat
    BY <1>5 DEF Before
  <2>2. c[m] \in Nat /\ Remaining(cs)[m] \in Nat
    BY <1>1, <1>2, <2>1 DEF Pool
  <2>3. c[m] = 0
    BY <1>4, <2>1, <2>2
  <2>4. Remaining(a)[m] = Remaining(cs)[m] - c[m]
    BY <1>1, <2>1 DEF Less
  <2> QED
    BY <2>2, <2>3, <2>4
<1>9. /\ FirstIndex(cs, c) = SumFunctionOnSet(Remaining(cs), B)
      /\ FirstIndex(a, d) = SumFunctionOnSet(Remaining(a), D)
  <2>1. FirstIndex(cs, c) = SumFunctionOnSet(Remaining(cs), B)
    BY FirstIndexOf
  <2>2. FirstIndex(a, d) = SumFunctionOnSet(Remaining(a), D)
    <3> HIDE DEF a
    <3> QED
      BY <1>1, FirstIndexOf
  <2> QED
    BY <2>1, <2>2
<1> HIDE DEF a, B, D
<1>10. \A m \in D : Remaining(a)[m] \in Nat
  BY <1>2, <1>6 DEF Pool
<1>11. SumFunctionOnSet(Remaining(a), B) <= SumFunctionOnSet(Remaining(a), D)
  BY <1>6, <1>7, <1>10, SumOfPart
<1>12. \A m \in B : Remaining(a)[m] \in Int /\ Remaining(a)[m] = Remaining(cs)[m]
  BY <1>6, <1>8, <1>10
<1>13. SumFunctionOnSet(Remaining(a), B) = SumFunctionOnSet(Remaining(cs), B)
  BY <1>7, <1>12, SumIsDetermined
<1> QED
  BY <1>9, <1>11, <1>13 DEF a

-----------------------------------------------------------------------------
(* The enumeration                                                         *)

(* The coalitions chosen before the last one.                              *)
LEMMA PrefixEnds ==
  ASSUME NEW cs \in Seq(Pool), NEW k \in 0 .. Len(cs) - 1
  PROVE  /\ Front(Prefix(cs, k + 1)) = Prefix(cs, k)
         /\ Last(Prefix(cs, k + 1)) = cs[k + 1]
<1>1. Len(cs) \in Nat
  BY LenProperties
<1>2. k \in 0 .. Len(cs) /\ k + 1 \in 0 .. Len(cs) /\ k \in Nat
  BY <1>1
<1>3. Len(Prefix(cs, k + 1)) = k + 1 /\ \A i \in 1 .. k + 1 : Prefix(cs, k + 1)[i] = cs[i]
  BY <1>2, PrefixOf
<1>4. Last(Prefix(cs, k + 1)) = cs[k + 1]
  BY <1>2, <1>3 DEF Last
<1>5. Front(Prefix(cs, k + 1)) = [i \in 1 .. k |-> Prefix(cs, k + 1)[i]]
  BY <1>2, <1>3 DEF Front
<1>6. [i \in 1 .. k |-> Prefix(cs, k + 1)[i]] = [i \in 1 .. k |-> cs[i]]
  BY <1>2, <1>3
<1> QED
  BY <1>4, <1>5, <1>6 DEF Prefix

(* The lower limit on a combination does not exclude the next coalition of *)
(* a division that is in order: coalitions of one size follow each other   *)
(* by their first agents, whose position among the remaining agents grows. *)
LEMMA AlphaAllows ==
  ASSUME Given, NEW cs \in Divisions[agents], InOrder(cs), partition = Shape(cs),
         NEW k \in 1 .. Len(cs) - 1
  PROVE  Alpha(Prefix(cs, k)) <= FirstIndex(Prefix(cs, k), cs[k + 1]) + 1
<1>1. /\ agents \in Pool /\ Fits(cs) /\ DOMAIN cs = 1 .. Len(cs) /\ cs \in Seq(Pool)
      /\ Len(cs) \in Nat
  BY DivisionsOf, LenProperties DEF Given, Fits
<1>2. k \in Nat /\ k \in 0 .. Len(cs) /\ k \in 1 .. Len(cs) /\ k + 1 \in 1 .. Len(cs) /\ k < Len(cs)
  BY <1>1
<1>3. Fits(Prefix(cs, k)) /\ cs[k + 1] \in SubPools(Remaining(Prefix(cs, k)))
  BY <1>1, <1>2, PrefixFits
<1>4. FirstIndex(Prefix(cs, k), cs[k + 1]) \in Nat
  BY <1>1, <1>3, FirstIndexOf
<1>5. Len(Prefix(cs, k)) = k
  BY <1>1, <1>2, PrefixOf
<1>6. partition[k + 1] = Size(cs[k + 1]) /\ partition[k] = Size(cs[k])
  BY <1>2, ShapeOf
<1>7. CASE partition[k + 1] # partition[k]
  <2>1. Alpha(Prefix(cs, k)) = 1
    BY <1>2, <1>5, <1>7 DEF Alpha
  <2> QED
    BY <1>4, <2>1
<1>8. CASE partition[k + 1] = partition[k]
  <2>1. PICK j \in 0 .. Len(cs) - 1 : k = j + 1 /\ j \in 0 .. Len(cs)
    <3>1. k - 1 \in 0 .. Len(cs) - 1 /\ k = (k - 1) + 1 /\ k - 1 \in 0 .. Len(cs)
      BY <1>1, <1>2
    <3> QED
      BY <3>1
  <2>2. Front(Prefix(cs, k)) = Prefix(cs, j) /\ Last(Prefix(cs, k)) = cs[k]
    BY <1>1, <2>1, PrefixEnds
  <2>3. Alpha(Prefix(cs, k)) = FirstIndex(Prefix(cs, j), cs[k])
    BY <1>2, <1>5, <1>8, <2>2 DEF Alpha
  <2>4. Fits(Prefix(cs, j)) /\ cs[k] \in SubPools(Remaining(Prefix(cs, j)))
    <3>1. j < Len(cs)
      BY <1>1, <2>1
    <3> QED
      BY <1>1, <2>1, <3>1, PrefixFits
  <2>5. Prefix(cs, k) = Append(Prefix(cs, j), cs[k])
    BY <1>1, <2>1, PrefixGrows
  <2>6. FirstModel(cs[k]) <= FirstModel(cs[k + 1])
    <3>1. Earlier(cs[k], cs[k + 1])
      BY <1>1, <1>2 DEF InOrder
    <3>2. Size(cs[k]) \in Nat /\ Size(cs[k + 1]) \in Nat
      BY <1>1, <1>2, CoalitionsOfAgents
    <3> QED
      BY <1>6, <1>8, <3>1, <3>2 DEF Earlier
  <2>7. cs[k + 1] \in SubPools(Remaining(Append(Prefix(cs, j), cs[k])))
    BY <1>3, <2>5
  <2>8. FirstIndex(Prefix(cs, j), cs[k]) <= FirstIndex(Append(Prefix(cs, j), cs[k]), cs[k + 1])
    BY <1>1, <2>4, <2>6, <2>7, LaterIndex
  <2>9. FirstIndex(Prefix(cs, j), cs[k]) \in Nat
    BY <1>1, <2>4, FirstIndexOf
  <2>10. FirstIndex(Prefix(cs, j), cs[k]) <= FirstIndex(Prefix(cs, k), cs[k + 1])
    BY <2>5, <2>8
  <2> QED
    BY <1>4, <2>3, <2>9, <2>10
<1> QED
  BY <1>7, <1>8

(* The next coalition of a division in order is among the combinations     *)
(* that are tried after its first ones.                                    *)
LEMMA CoalitionIsTried ==
  ASSUME Given, NEW cs \in Divisions[agents], InOrder(cs), NEW k \in 0 .. Len(cs) - 1,
         NEW alpha, alpha <= FirstIndex(Prefix(cs, k), cs[k + 1]) + 1
  PROVE  cs[k + 1] \in Combinations(Shape(cs), Prefix(cs, k), alpha)
<1>1. agents \in Pool /\ Fits(cs) /\ cs \in Seq(Pool) /\ Len(cs) \in Nat
  BY DivisionsOf, LenProperties DEF Given, Fits
<1>2. k \in 0 .. Len(cs) /\ k + 1 \in 1 .. Len(cs) /\ k < Len(cs)
  BY <1>1
<1>3. Len(Prefix(cs, k)) = k
  BY <1>1, <1>2, PrefixOf
<1>4. Shape(cs)[k + 1] = Size(cs[k + 1])
  BY <1>2, ShapeOf
<1>5. cs[k + 1] \in SubPools(Remaining(Prefix(cs, k)))
  BY <1>1, <1>2, PrefixFits
<1> QED
  BY <1>3, <1>4, <1>5 DEF Combinations

(* So the first coalition is tried at once, and each other one after those *)
(* before it.                                                              *)
LEMMA FirstCoalitionIsTried ==
  ASSUME Given, NEW cs \in Divisions[agents], InOrder(cs)
  PROVE  cs[1] \in Combinations(Shape(cs), <<>>, 0)
<1>1. agents \in Pool /\ Fits(cs) /\ cs \in Seq(Pool) /\ Len(cs) \in Nat /\ Len(cs) >= 1
  BY DivisionsOf, LenProperties, SizeOfPool DEF Given, Fits
<1>2. Prefix(cs, 0) = <<>> /\ 0 \in 0 .. Len(cs) - 1 /\ 0 \in 0 .. Len(cs) /\ 0 + 1 = 1
  BY <1>1 DEF Prefix
<1>3. Fits(Prefix(cs, 0))
  BY <1>1, <1>2, PrefixFits
<1>4. FirstIndex(Prefix(cs, 0), cs[1]) \in Nat
  BY <1>1, <1>3, FirstIndexOf
<1>5. 0 <= FirstIndex(Prefix(cs, 0), cs[1]) + 1
  BY <1>4
<1>6. cs[0 + 1] \in Combinations(Shape(cs), Prefix(cs, 0), 0)
  BY <1>2, <1>5, CoalitionIsTried
<1> QED
  BY <1>2, <1>6

LEMMA NextCoalitionIsTried ==
  ASSUME Given, NEW cs \in Divisions[agents], InOrder(cs), partition = Shape(cs),
         NEW k \in 1 .. Len(cs) - 1
  PROVE  cs[k + 1] \in Combinations(partition, Prefix(cs, k), Alpha(Prefix(cs, k)))
<1>1. Len(cs) \in Nat
  BY DivisionsOf, LenProperties DEF Given, Fits
<1>2. k \in 0 .. Len(cs) - 1
  BY <1>1
<1>3. Alpha(Prefix(cs, k)) <= FirstIndex(Prefix(cs, k), cs[k + 1]) + 1
  BY AlphaAllows
<1> QED
  BY <1>2, <1>3, CoalitionIsTried

-----------------------------------------------------------------------------
(* Values and their bounds                                                 *)

LEMMA Limits ==
  /\ Tiny \in Nat \ {0} /\ Ceiling \in Nat /\ Unbounded \in Nat
  /\ Tiny <= Ceiling /\ Ceiling <= Unbounded
BY ProblemAssumption DEF OrganizationAssumption

LEMMA ValueOf ==
  ASSUME Given, NEW c \in SubPools(agents)
  PROVE  value[c] \in Nat /\ value[c] <= Ceiling /\ (value[c] > 0 => value[c] >= Tiny)
<1>1. value[c] \in {0} \cup Tiny .. Ceiling
  BY DEF Given
<1> QED
  BY <1>1, Limits

(* The values of the coalitions of a size lie within its bounds.           *)
ValuesOfSize(n) == {value[c] : c \in {d \in DOMAIN value : Size(d) = n}}

LEMMA SizeBounds ==
  ASSUME Given, NEW n
  PROVE  /\ SizeMaximum(n) \in Tiny .. Ceiling
         /\ SizeMinimum(n) \in 0 .. Unbounded
         /\ \A c \in SubPools(agents) :
               Size(c) = n => value[c] <= SizeMaximum(n) /\ SizeMinimum(n) <= value[c]
<1> DEFINE V == ValuesOfSize(n)
<1>1. DOMAIN value = SubPools(agents)
  BY DEF Given
<1>2. \A x \in V : x \in Nat /\ x <= Ceiling
  BY <1>1, ValueOf DEF ValuesOfSize
<1>3. SizeMaximum(n) = Max({Tiny} \cup V) /\ SizeMinimum(n) = Min({Unbounded} \cup V)
  BY DEF SizeMaximum, SizeMinimum, ValuesOfSize
<1>4. \A c \in SubPools(agents) : Size(c) = n => value[c] \in V
  BY <1>1 DEF ValuesOfSize
<1> HIDE DEF V
<1>5. {Tiny} \cup V \subseteq 0 .. Ceiling /\ {Tiny} \cup V # {}
  BY <1>2, Limits
<1>6. {Unbounded} \cup V \subseteq Nat /\ {Unbounded} \cup V # {}
  BY <1>2, Limits
<1>7. SizeMaximum(n) \in {Tiny} \cup V /\ \A x \in {Tiny} \cup V : x <= SizeMaximum(n)
  BY <1>3, <1>5, Limits, GreatestIsMax
<1>8. SizeMinimum(n) \in {Unbounded} \cup V /\ \A x \in {Unbounded} \cup V : SizeMinimum(n) <= x
  BY <1>3, <1>6, LeastIsMin
<1>9. SizeMaximum(n) \in Tiny .. Ceiling
  <2>1. SizeMaximum(n) \in 0 .. Ceiling /\ Tiny <= SizeMaximum(n)
    BY <1>5, <1>7
  <2> QED
    BY <2>1, Limits
<1>10. SizeMinimum(n) \in 0 .. Unbounded
  <2>1. SizeMinimum(n) \in Nat /\ SizeMinimum(n) <= Unbounded
    BY <1>6, <1>8
  <2> QED
    BY <2>1, Limits
<1> QED
  BY <1>4, <1>7, <1>8, <1>9, <1>10

(* So do the values of the structures of a partition.                      *)
Maxima(p) == {SizeMaximum(p[i]) : i \in DOMAIN p}
Minima(p) == {SizeMinimum(p[i]) : i \in DOMAIN p}

LEMMA PartitionsOf ==
  ASSUME Given, NEW p \in IntegerPartitions(Size(agents))
  PROVE  /\ Len(p) \in 1 .. Size(agents) /\ DOMAIN p = 1 .. Len(p) /\ Len(p) \in Nat
         /\ \A i \in 1 .. Len(p) : p[i] \in Nat \ {0}
         /\ SumFunctionOnSet(p, 1 .. Len(p)) = Size(agents)
<1>1. Size(agents) \in Nat
  BY SizeOfPool DEF Given
<1>2. /\ p \in UNION {[1 .. k -> 1 .. Size(agents)] : k \in 1 .. Size(agents)}
      /\ SumFunctionOnSet(p, DOMAIN p) = Size(agents)
  BY DEF IntegerPartitions
<1>3. PICK k \in 1 .. Size(agents) : p \in [1 .. k -> 1 .. Size(agents)]
  BY <1>2
<1>4. k \in Nat /\ Len(p) = k /\ DOMAIN p = 1 .. k
  BY <1>1, <1>3
<1>5. \A i \in 1 .. k : p[i] \in Nat \ {0}
  <2> TAKE i \in 1 .. k
  <2>1. p[i] \in 1 .. Size(agents)
    BY <1>3
  <2> QED
    BY <1>1, <2>1
<1> QED
  BY <1>2, <1>3, <1>4, <1>5

LEMMA BoundsOf ==
  ASSUME Given, NEW p \in IntegerPartitions(Size(agents))
  PROVE  /\ bounds[p].maximum \in Tiny .. Ceiling /\ bounds[p].minimum \in 0 .. Unbounded
         /\ \A i \in 1 .. Len(p) : /\ SizeMaximum(p[i]) <= bounds[p].maximum
                                   /\ bounds[p].minimum <= SizeMinimum(p[i])
<1>1. bounds[p].maximum = Max(Maxima(p)) /\ bounds[p].minimum = Min(Minima(p))
  BY DEF Given, PartitionBounds, Maxima, Minima
<1>2. Len(p) \in Nat /\ 1 \in DOMAIN p /\ DOMAIN p = 1 .. Len(p)
  BY PartitionsOf
<1>3. \A x \in Maxima(p) : x \in Tiny .. Ceiling
  BY SizeBounds DEF Maxima
<1>4. \A x \in Minima(p) : x \in 0 .. Unbounded
  BY SizeBounds DEF Minima
<1>5. Maxima(p) \subseteq 0 .. Ceiling /\ Maxima(p) # {} /\ Minima(p) \subseteq Nat /\ Minima(p) # {}
  <2>1. SizeMaximum(p[1]) \in Maxima(p) /\ SizeMinimum(p[1]) \in Minima(p)
    BY <1>2 DEF Maxima, Minima
  <2> QED
    BY <1>3, <1>4, <2>1, Limits
<1>6. Max(Maxima(p)) \in Maxima(p) /\ \A x \in Maxima(p) : x <= Max(Maxima(p))
  BY <1>5, Limits, GreatestIsMax
<1>7. Min(Minima(p)) \in Minima(p) /\ \A x \in Minima(p) : Min(Minima(p)) <= x
  BY <1>5, LeastIsMin
<1>8. \A i \in 1 .. Len(p) : SizeMaximum(p[i]) \in Maxima(p) /\ SizeMinimum(p[i]) \in Minima(p)
  BY <1>2 DEF Maxima, Minima
<1>9. Max(Maxima(p)) \in Tiny .. Ceiling /\ Min(Minima(p)) \in 0 .. Unbounded
  BY <1>3, <1>4, <1>6, <1>7
<1> QED
  BY <1>1, <1>6, <1>7, <1>8, <1>9

(* A structure is worth as much as its worst coalition.                    *)
LEMMA StructureValueOf ==
  ASSUME Given, NEW cs, Fits(cs), Len(cs) > 0
  PROVE  /\ StructureValue(cs) \in Nat /\ StructureValue(cs) <= Ceiling
         /\ StructureValue(cs) > 0 => StructureValue(cs) >= Tiny
         /\ \E i \in 1 .. Len(cs) : StructureValue(cs) = value[cs[i]]
         /\ \A i \in 1 .. Len(cs) : StructureValue(cs) <= value[cs[i]]
<1>1. agents \in Pool /\ cs \in Seq(Pool) /\ Len(cs) \in Nat /\ DOMAIN cs = 1 .. Len(cs)
  BY LenProperties DEF Given, Fits
<1>2. \A i \in 1 .. Len(cs) : cs[i] \in SubPools(agents)
  BY <1>1, CoalitionsOfAgents
<1>3. \A i \in 1 .. Len(cs) : value[cs[i]] \in Nat /\ value[cs[i]] <= Ceiling
                               /\ (value[cs[i]] > 0 => value[cs[i]] >= Tiny)
  BY <1>2, ValueOf
<1>4. StructureValue(cs) = Min(Worths(cs))
  BY DEF StructureValue, Worths
<1>5. Worths(cs) \subseteq Nat
  BY <1>1, <1>3 DEF Worths
<1>6. \A i \in 1 .. Len(cs) : value[cs[i]] \in Worths(cs)
  BY <1>1 DEF Worths
<1>7. Worths(cs) # {}
  <2>1. 1 \in 1 .. Len(cs)
    BY <1>1
  <2> QED
    BY <1>6, <2>1
<1>8. Min(Worths(cs)) \in Worths(cs) /\ \A x \in Worths(cs) : Min(Worths(cs)) <= x
  BY <1>5, <1>7, LeastIsMin
<1>9. \E i \in 1 .. Len(cs) : Min(Worths(cs)) = value[cs[i]]
  BY <1>1, <1>8 DEF Worths
<1> QED
  BY <1>3, <1>4, <1>6, <1>8, <1>9

(* No structure is worth more than its partition allows,                   *)
LEMMA WorthIsBounded ==
  ASSUME Given, NEW cs \in Divisions[agents], InOrder(cs)
  PROVE  /\ Shape(cs) \in IntegerPartitions(Size(agents))
         /\ bounds[Shape(cs)].maximum \in Nat
         /\ StructureValue(cs) <= bounds[Shape(cs)].maximum
<1>1. agents \in Pool /\ Fits(cs) /\ Len(cs) \in 1 .. Size(agents) /\ Size(agents) \in Nat /\ DOMAIN cs = 1 .. Len(cs)
  BY DivisionsOf, SizeOfPool DEF Given
<1>2. 1 \in 1 .. Len(cs) /\ Len(cs) > 0
  BY <1>1
<1>3. /\ Shape(cs) \in IntegerPartitions(Size(agents)) /\ Len(Shape(cs)) = Len(cs)
      /\ Shape(cs)[1] = Size(cs[1])
  BY <1>2, ShapeOf
<1>4. StructureValue(cs) <= value[cs[1]] /\ StructureValue(cs) \in Nat
  BY <1>1, <1>2, StructureValueOf
<1>5. cs[1] \in SubPools(agents)
  BY <1>1, <1>2, CoalitionsOfAgents
<1>6. value[cs[1]] <= SizeMaximum(Size(cs[1])) /\ SizeMaximum(Size(cs[1])) \in Tiny .. Ceiling
  BY <1>5, SizeBounds
<1>7. /\ SizeMaximum(Shape(cs)[1]) <= bounds[Shape(cs)].maximum
      /\ bounds[Shape(cs)].maximum \in Tiny .. Ceiling
  BY <1>2, <1>3, BoundsOf
<1>8. value[cs[1]] \in Nat
  BY <1>5, ValueOf
<1> QED
  BY <1>3, <1>4, <1>6, <1>7, <1>8, Limits

(* or than the potential of its first coalitions.                          *)
Hopes(cs) ==
  {Ceiling} \cup {value[cs[i]] : i \in DOMAIN cs}
    \cup {SizeMaximum(partition[i]) : i \in Len(cs) + 1 .. Len(partition)}

LEMMA PotentialIsReached ==
  ASSUME Given, NEW cs \in Divisions[agents], InOrder(cs), partition = Shape(cs),
         NEW k \in 1 .. Len(cs)
  PROVE  Potential(Prefix(cs, k)) \in Nat /\ StructureValue(cs) <= Potential(Prefix(cs, k))
<1>1. /\ agents \in Pool /\ Fits(cs) /\ Len(cs) \in Nat /\ Len(cs) > 0 /\ DOMAIN cs = 1 .. Len(cs)
      /\ cs \in Seq(Pool)
  BY DivisionsOf, LenProperties DEF Given, Fits
<1>2. k \in 0 .. Len(cs) /\ k \in Nat
  BY <1>1
<1> DEFINE s == Prefix(cs, k)
<1>3. DOMAIN s = 1 .. k /\ Len(s) = k /\ \A i \in 1 .. k : s[i] = cs[i]
  BY <1>1, <1>2, PrefixOf
<1> HIDE DEF s
<1>4. Len(partition) = Len(cs) /\ \A i \in 1 .. Len(cs) : partition[i] = Size(cs[i])
  BY ShapeOf
<1>5. \A i \in 1 .. Len(cs) : cs[i] \in SubPools(agents)
  BY <1>1, CoalitionsOfAgents
<1>6. StructureValue(cs) \in Nat /\ StructureValue(cs) <= Ceiling
      /\ \A i \in 1 .. Len(cs) : StructureValue(cs) <= value[cs[i]]
  BY <1>1, StructureValueOf
<1>7. \A i \in 1 .. Len(cs) : value[cs[i]] \in Nat
  BY <1>5, ValueOf
<1>8. \A i \in 1 .. Len(cs) : /\ SizeMaximum(partition[i]) \in Nat
                              /\ value[cs[i]] <= SizeMaximum(partition[i])
  <2> TAKE i \in 1 .. Len(cs)
  <2>1. SizeMaximum(Size(cs[i])) \in Tiny .. Ceiling /\ value[cs[i]] <= SizeMaximum(Size(cs[i]))
    BY <1>5, SizeBounds
  <2> QED
    BY <1>4, <2>1, Limits
<1>9. \A x \in Hopes(s) : x \in Nat /\ StructureValue(cs) <= x
  <2> TAKE x \in Hopes(s)
  <2>1. CASE x = Ceiling
    BY <1>6, <2>1, Limits
  <2>2. CASE \E i \in 1 .. k : x = value[cs[i]]
    <3>1. PICK i \in 1 .. k : x = value[cs[i]]
      BY <2>2
    <3>2. i \in 1 .. Len(cs)
      BY <1>1, <1>2
    <3> QED
      BY <1>6, <1>7, <3>1, <3>2
  <2>3. CASE \E i \in k + 1 .. Len(cs) : x = SizeMaximum(partition[i])
    <3>1. PICK i \in k + 1 .. Len(cs) : x = SizeMaximum(partition[i])
      BY <2>3
    <3>2. i \in 1 .. Len(cs)
      BY <1>1, <1>2
    <3>3. SizeMaximum(partition[i]) \in Nat /\ value[cs[i]] <= SizeMaximum(partition[i])
      BY <1>8, <3>2
    <3>4. StructureValue(cs) <= value[cs[i]] /\ value[cs[i]] \in Nat
      BY <1>6, <1>7, <3>2
    <3> QED
      BY <1>6, <3>1, <3>3, <3>4
  <2> QED
    BY <1>3, <1>4, <2>1, <2>2, <2>3 DEF Hopes
<1>10. Potential(s) = Min(Hopes(s))
  BY DEF Potential, Hopes
<1>11. Hopes(s) # {} /\ Hopes(s) \subseteq Nat
  <2>1. Ceiling \in Hopes(s)
    BY DEF Hopes
  <2> QED
    BY <1>9, <2>1
<1>12. Min(Hopes(s)) \in Hopes(s)
  BY <1>11, LeastIsMin
<1> QED
  BY <1>9, <1>10, <1>12 DEF s

-----------------------------------------------------------------------------
(* Partitions and optimal divisions                                        *)

(* Coalitions of the sizes a partition starts with.                        *)
Sized(cs, p, k) == Fits(cs) /\ Len(cs) = k /\ \A i \in 1 .. k : Size(cs[i]) = p[i]

(* Coalitions of all the sizes of a partition are a division.              *)
LEMMA SizedIsDivision ==
  ASSUME Given, NEW p \in IntegerPartitions(Size(agents)), NEW cs, Sized(cs, p, Len(p))
  PROVE  cs \in Divisions[agents]
<1>1. agents \in Pool /\ Size(agents) \in Nat
  BY SizeOfPool DEF Given
<1>2. /\ Len(p) \in 1 .. Size(agents) /\ Len(p) \in Nat
      /\ SumFunctionOnSet(p, 1 .. Len(p)) = Size(agents)
  BY PartitionsOf
<1>3. Fits(cs) /\ cs \in Seq(Pool) /\ Len(cs) = Len(p) /\ DOMAIN cs = 1 .. Len(p)
  BY LenProperties DEF Sized, Fits
<1>4. \A i \in DOMAIN cs : p[i] = Size(cs[i])
  BY <1>3 DEF Sized
<1>5. SumFunctionOnSet(p, DOMAIN cs) = Size(agents) - Size(Remaining(cs))
  BY <1>1, <1>3, <1>4, SizesAddUp
<1>6. Remaining(cs) \in Pool /\ \A m \in Models : Remaining(cs)[m] = agents[m] - Members(cs, m)
  BY <1>1, <1>3, RemainingOf
<1>7. Size(Remaining(cs)) \in Nat
  BY <1>6, SizeOfPool
<1>8. ~(Size(Remaining(cs)) > 0)
  BY <1>1, <1>2, <1>3, <1>5, <1>7
<1>9. \A m \in Models : ~(Remaining(cs)[m] > 0) /\ Remaining(cs)[m] \in Nat
  BY <1>6, <1>8, SizeOfPool
<1>10. \A m \in Models : Members(cs, m) \in Nat /\ agents[m] \in Nat
  BY <1>1, <1>3, MembersCounted DEF Pool
<1>11. Complete(cs)
  BY <1>6, <1>9, <1>10 DEF Complete
<1> QED
  BY <1>2, <1>3, <1>11, DivisionsOf

(* Every partition is the partition of some division.                      *)
LEMMA PartitionsAreTaken ==
  ASSUME Given, NEW p \in IntegerPartitions(Size(agents))
  PROVE  \E cs \in Divisions[agents] : Len(cs) = Len(p) /\ \A i \in 1 .. Len(p) : Size(cs[i]) = p[i]
<1>1. agents \in Pool /\ Size(agents) \in Nat
  BY SizeOfPool DEF Given
<1>2. /\ Len(p) \in 1 .. Size(agents) /\ Len(p) \in Nat
      /\ \A i \in 1 .. Len(p) : p[i] \in Nat \ {0}
      /\ SumFunctionOnSet(p, 1 .. Len(p)) = Size(agents)
  BY PartitionsOf
<1>3. IsFiniteSet(1 .. Len(p))
  BY <1>2, FS_Interval
<1> DEFINE P == {k \in Nat : k <= Len(p) => \E cs : Sized(cs, p, k)}
<1>4. ASSUME NEW k \in 0 .. Len(p), NEW cs, Sized(cs, p, k)
      PROVE  /\ SumFunctionOnSet(p, 1 .. k) = Size(agents) - Size(Remaining(cs))
             /\ Remaining(cs) \in Pool /\ Size(Remaining(cs)) \in Nat
             /\ DOMAIN cs = 1 .. k
  <2>1. Fits(cs) /\ DOMAIN cs = 1 .. k
    BY <1>4, LenProperties DEF Sized, Fits
  <2>2. \A i \in DOMAIN cs : p[i] = Size(cs[i])
    BY <1>4, <2>1 DEF Sized
  <2>3. SumFunctionOnSet(p, DOMAIN cs) = Size(agents) - Size(Remaining(cs))
    BY <1>1, <2>1, <2>2, SizesAddUp
  <2>4. Remaining(cs) \in Pool /\ Size(Remaining(cs)) \in Nat
    BY <1>1, <2>1, RemainingOf, SizeOfPool
  <2> QED
    BY <2>1, <2>3, <2>4
<1>5. 0 \in P
  <2>1. Len(<<>>) = 0 /\ DOMAIN <<>> = {} /\ <<>> \in Seq(Pool) /\ 1 .. 0 = {}
    OBVIOUS
  <2>2. \A m \in Models : Members(<<>>, m) = 0 /\ agents[m] \in Nat
    BY <1>1, NoMembers DEF Pool
  <2>3. \A m \in Models : Members(<<>>, m) <= agents[m]
    BY <2>2
  <2>4. Sized(<<>>, p, 0)
    BY <2>1, <2>3 DEF Sized, Fits
  <2> QED
    BY <2>4
<1>6. ASSUME NEW k \in Nat, k \in P PROVE k + 1 \in P
  <2> SUFFICES ASSUME k + 1 <= Len(p) PROVE \E cs : Sized(cs, p, k + 1)
    OBVIOUS
  <2>1. k \in 0 .. Len(p) /\ k + 1 \in 1 .. Len(p)
    BY <1>2
  <2>2. PICK cs : Sized(cs, p, k)
    BY <1>6, <2>1
  <2>3. SumFunctionOnSet(p, 1 .. k) = Size(agents) - Size(Remaining(cs))
        /\ Remaining(cs) \in Pool /\ Size(Remaining(cs)) \in Nat
    BY <1>4, <2>1, <2>2
  <2>4. Fits(cs) /\ cs \in Seq(Pool)
    BY <2>2 DEF Sized, Fits
  <2>5. p[k + 1] \in Nat \ {0}
    BY <1>2, <2>1
  <2>6. p[k + 1] <= Size(Remaining(cs))
    <3>1. 1 .. k + 1 = (1 .. k) \cup {k + 1} /\ k + 1 \notin 1 .. k /\ 1 .. k + 1 \in SUBSET (1 .. Len(p))
      BY <1>2, <2>1
    <3>2. IsFiniteSet(1 .. k)
      BY FS_Interval
    <3>3. \A i \in 1 .. Len(p) : p[i] \in Nat
      BY <1>2
    <3>4. SumFunctionOnSet(p, 1 .. k + 1) <= SumFunctionOnSet(p, 1 .. Len(p))
      BY <1>3, <3>1, <3>3, SumOfPart
    <3>5. \A i \in (1 .. k) \cup {k + 1} : p[i] \in Int
      BY <3>1, <3>3
    <3>6. SumFunctionOnSet(p, (1 .. k) \cup {k + 1}) = p[k + 1] + SumFunctionOnSet(p, 1 .. k)
      BY <3>1, <3>2, <3>5, SumWith
    <3>7. SumFunctionOnSet(p, 1 .. k + 1) = SumFunctionOnSet(p, (1 .. k) \cup {k + 1})
      BY <3>1
    <3>8. p[k + 1] + SumFunctionOnSet(p, 1 .. k) <= Size(agents)
      BY <1>2, <3>4, <3>6, <3>7
    <3> HIDE DEF P
    <3> QED
      BY <1>1, <2>3, <2>5, <3>8
  <2>7. PICK c \in Pool : Size(c) = p[k + 1] /\ \A m \in Models : c[m] <= Remaining(cs)[m]
    BY <2>3, <2>5, <2>6, PoolOfSize
  <2>8. c \in SubPools(Remaining(cs))
    BY <2>3, <2>5, <2>7, SubPoolsOf
  <2>9. Fits(Append(cs, c))
    BY <1>1, <2>4, <2>8, FitsAppended
  <2>10. /\ Len(Append(cs, c)) = k + 1
         /\ \A i \in 1 .. k : Append(cs, c)[i] = cs[i]
         /\ Append(cs, c)[k + 1] = c
    BY <2>2, <2>4, <2>7, MembersAppended DEF Sized
  <2>11. \A i \in 1 .. k + 1 : Size(Append(cs, c)[i]) = p[i]
    <3> TAKE i \in 1 .. k + 1
    <3>1. i \in 1 .. k \/ i = k + 1
      OBVIOUS
    <3> QED
      BY <2>2, <2>7, <2>10, <3>1 DEF Sized
  <2> QED
    BY <2>9, <2>10, <2>11 DEF Sized
<1> HIDE DEF P
<1>7. Nat \subseteq P
  BY <1>5, <1>6, NatSetInduction
<1>8. \E cs : Sized(cs, p, Len(p))
  BY <1>2, <1>7 DEF P
<1>9. PICK cs : Sized(cs, p, Len(p))
  BY <1>8
<1>10. cs \in Divisions[agents]
  BY <1>9, SizedIsDivision
<1> QED
  BY <1>9, <1>10 DEF Sized

(* The best divisions the search can come by.                              *)
Optimal(cs) ==
  /\ cs \in Divisions[agents] /\ InOrder(cs)
  /\ \A ds \in Divisions[agents] : StructureValue(ds) <= StructureValue(cs)

LEMMA DivisionIsWorth ==
  ASSUME Given, NEW cs \in Divisions[agents]
  PROVE  /\ StructureValue(cs) \in Nat /\ StructureValue(cs) <= Ceiling
         /\ StructureValue(cs) > 0 => StructureValue(cs) >= Tiny
<1>1. Fits(cs) /\ Len(cs) \in 1 .. Size(agents) /\ Size(agents) \in Nat
  BY DivisionsOf, SizeOfPool DEF Given
<1>2. Len(cs) > 0
  BY <1>1
<1> QED
  BY <1>1, <1>2, StructureValueOf

(* Each partition promises at most as much as the best division is worth.  *)
LEMMA PromiseIsKept ==
  ASSUME Given, NEW cs, Optimal(cs), NEW p \in IntegerPartitions(Size(agents))
  PROVE  bounds[p].minimum <= StructureValue(cs)
<1>1. PICK ds \in Divisions[agents] : Len(ds) = Len(p) /\ \A i \in 1 .. Len(p) : Size(ds[i]) = p[i]
  BY PartitionsAreTaken
<1>2. agents \in Pool /\ Fits(ds) /\ Len(ds) \in 1 .. Size(agents) /\ Size(agents) \in Nat /\ DOMAIN ds = 1 .. Len(ds)
  BY DivisionsOf, SizeOfPool DEF Given
<1>3. Len(ds) > 0
  BY <1>2
<1>4. StructureValue(ds) \in Nat /\ \E i \in 1 .. Len(ds) : StructureValue(ds) = value[ds[i]]
  BY <1>2, <1>3, StructureValueOf
<1>5. PICK i \in 1 .. Len(ds) : StructureValue(ds) = value[ds[i]]
  BY <1>4
<1>6. ds[i] \in SubPools(agents) /\ Size(ds[i]) = p[i]
  BY <1>1, <1>2, CoalitionsOfAgents
<1>7. SizeMinimum(p[i]) <= value[ds[i]] /\ SizeMinimum(p[i]) \in 0 .. Unbounded
  BY <1>6, SizeBounds
<1>8. bounds[p].minimum <= SizeMinimum(p[i]) /\ bounds[p].minimum \in 0 .. Unbounded
  BY <1>1, BoundsOf
<1>9. StructureValue(ds) <= StructureValue(cs)
  BY DEF Optimal
<1>10. StructureValue(cs) \in Nat
  BY DivisionIsWorth DEF Optimal
<1> QED
  BY <1>4, <1>5, <1>7, <1>8, <1>9, <1>10, Limits

(* If there is a division there is an optimal one.                         *)
DivisionWorths == {StructureValue(ds) : ds \in Divisions[agents]}

LEMMA OptimalExists ==
  ASSUME Given, NEW ds \in Divisions[agents]
  PROVE  \E cs : Optimal(cs) /\ StructureValue(ds) <= StructureValue(cs)
<1>1. \A x \in DivisionWorths : x \in Nat /\ x <= Ceiling
  BY DivisionIsWorth DEF DivisionWorths
<1>2. StructureValue(ds) \in DivisionWorths
  BY DEF DivisionWorths
<1>3. DivisionWorths \subseteq 0 .. Ceiling
  BY <1>1, Limits
<1>4. \E x \in DivisionWorths : \A y \in DivisionWorths : y <= x
  BY <1>2, <1>3, Limits, GreatestExists
<1>5. PICK x \in DivisionWorths : \A y \in DivisionWorths : y <= x
  BY <1>4
<1>6. PICK best1 \in Divisions[agents] : x = StructureValue(best1)
  BY <1>5 DEF DivisionWorths
<1>7. PICK cs \in Divisions[agents] : InOrder(cs) /\ StructureValue(cs) = StructureValue(best1)
  BY <1>6, OrderExists
<1>8. \A es \in Divisions[agents] : StructureValue(es) <= StructureValue(cs)
  <2> TAKE es \in Divisions[agents]
  <2>1. StructureValue(es) \in DivisionWorths
    BY DEF DivisionWorths
  <2> QED
    BY <1>5, <1>6, <1>7, <2>1
<1> QED
  BY <1>7, <1>8 DEF Optimal

-----------------------------------------------------------------------------
(* What is known while the search runs.  Its parts name the variables they *)
(* speak of, except those of the problem.                                  *)

Recorded(s, v) ==
  /\ v \in 0 .. Ceiling
  /\ IF v = 0 THEN s = <<>> ELSE s \in Divisions[agents] /\ StructureValue(s) = v

Mapped(map) ==
  /\ DOMAIN map \subseteq IntegerPartitions(Size(agents))
  /\ map = [p \in DOMAIN map |-> bounds[p]]

Stacked(cs, ts, p) ==
  /\ Sized(cs, p, Len(cs)) /\ ts \in Seq(SUBSET Pool)
  /\ Len(ts) = Len(cs) + 1 /\ Len(ts) <= Len(p)
  /\ \A i \in 1 .. Len(ts) : \A c \in ts[i] :
        Size(c) = p[i] /\ c \in SubPools(Remaining(Prefix(cs, i - 1)))

(* The search still comes to a division: its partition is left, and while  *)
(* that one is searched, some call has yet to try the next coalition.      *)
Agree(s, cs, i) == \A j \in 1 .. i - 1 : s[j] = cs[j]

Ahead(cs, s, ts) == \E i \in 1 .. Len(ts) : Agree(s, cs, i) /\ cs[i] \in ts[i]

Reachable(cs, map, p, s, ts, at) ==
  /\ at # "done" /\ Shape(cs) \in DOMAIN map
  /\ at = "round" => p # Shape(cs)
  /\ at \in {"explore", "check"} /\ p = Shape(cs) => Ahead(cs, s, ts)

Located(p, map, s, ts, at) ==
  /\ at \in {"start", "select", "explore", "check", "round", "done"}
  /\ at \in {"explore", "check", "round"} => p \in DOMAIN map
  /\ at \in {"explore", "check"} => Stacked(s, ts, p)

Kept(cs, v, limit, map, p, s, ts, at) ==
  /\ StructureValue(cs) <= limit
  /\ at # "start" => StructureValue(cs) <= v \/ Reachable(cs, map, p, s, ts, at)

OrganizationInvariant ==
  /\ Given
  /\ Recorded(best, bestValue)
  /\ upperBound \in Nat
  /\ Mapped(boundMap)
  /\ Located(partition, boundMap, path, todo, pc)
  /\ \A cs \in Divisions[agents] :
        Optimal(cs) => Kept(cs, bestValue, upperBound, boundMap, partition, path, todo, pc)

(* The problem does not change, and so neither does what is said of it.    *)
LEMMA ProblemKept ==
  ASSUME UNCHANGED problem
  PROVE  /\ Given' = Given /\ Divisions[agents]' = Divisions[agents]
         /\ \A cs : StructureValue(cs)' = StructureValue(cs)
         /\ \A cs : Optimal(cs)' = Optimal(cs)
         /\ \A s, v : Recorded(s, v)' = Recorded(s, v)
         /\ \A map : Mapped(map)' = Mapped(map)
         /\ \A s, ts, p : Stacked(s, ts, p)' = Stacked(s, ts, p)
<1>1. agents' = agents /\ value' = value /\ bounds' = bounds
  BY DEF problem
<1>2. \A n : SizeMaximum(n)' = SizeMaximum(n) /\ SizeMinimum(n)' = SizeMinimum(n)
  BY <1>1 DEF SizeMaximum, SizeMinimum
<1>3. \A p : PartitionBounds(p)' = PartitionBounds(p)
  BY <1>2 DEF PartitionBounds
<1>4. Given' = Given
  BY <1>1, <1>3 DEF Given
<1>5. Divisions[agents]' = Divisions[agents]
  BY <1>1
<1>6. \A cs : StructureValue(cs)' = StructureValue(cs)
  BY <1>1 DEF StructureValue
<1>7. \A cs : Optimal(cs)' = Optimal(cs)
  BY <1>5, <1>6 DEF Optimal
<1>8. \A s, v : Recorded(s, v)' = Recorded(s, v)
  BY <1>5, <1>6 DEF Recorded
<1>9. \A map : Mapped(map)' = Mapped(map)
  BY <1>1 DEF Mapped
<1>10. \A cs : Fits(cs)' = Fits(cs)
  BY <1>1 DEF Fits
<1>11. \A s, p, k : Sized(s, p, k)' = Sized(s, p, k)
  BY <1>10 DEF Sized
<1>12. \A s : Remaining(s)' = Remaining(s)
  BY <1>1 DEF Remaining
<1>13. \A s, ts, p : Stacked(s, ts, p)' = Stacked(s, ts, p)
  BY <1>11, <1>12 DEF Stacked
<1> QED
  BY <1>4, <1>5, <1>6, <1>7, <1>8, <1>9, <1>13

LEMMA InvariantCarriesOver ==
  ASSUME OrganizationInvariant, UNCHANGED problem,
         Recorded(best', bestValue'), upperBound' \in Nat, Mapped(boundMap'),
         Located(partition', boundMap', path', todo', pc'),
         \A cs \in Divisions[agents] : Optimal(cs) =>
           Kept(cs, bestValue', upperBound', boundMap', partition', path', todo', pc')
  PROVE  OrganizationInvariant'
<1>1. /\ Given' = Given /\ Divisions[agents]' = Divisions[agents]
      /\ \A cs : StructureValue(cs)' = StructureValue(cs)
      /\ \A cs : Optimal(cs)' = Optimal(cs)
      /\ \A s, v : Recorded(s, v)' = Recorded(s, v)
      /\ \A map : Mapped(map)' = Mapped(map)
      /\ \A s, ts, p : Stacked(s, ts, p)' = Stacked(s, ts, p)
  BY ProblemKept
<1>2. \A p, map, s, ts, at : Located(p, map, s, ts, at)' = Located(p, map, s, ts, at)
  BY <1>1 DEF Located
<1>3. \A cs, v, limit, map, p, s, ts, at :
        Kept(cs, v, limit, map, p, s, ts, at)' = Kept(cs, v, limit, map, p, s, ts, at)
  BY <1>1 DEF Kept
<1>4. Given' /\ Recorded(best, bestValue)' /\ Mapped(boundMap)'
  BY <1>1 DEF OrganizationInvariant
<1>5. Located(partition, boundMap, path, todo, pc)'
  BY <1>2
<1>6. (\A cs \in Divisions[agents] :
        Optimal(cs) => Kept(cs, bestValue, upperBound, boundMap, partition, path, todo, pc))'
  BY <1>1, <1>3
<1> QED
  BY <1>4, <1>5, <1>6 DEF OrganizationInvariant

-----------------------------------------------------------------------------
(* The bounds of the partitions that are left                              *)

LEMMA MappedBounds ==
  ASSUME Given, NEW map, Mapped(map)
  PROVE  \A p \in DOMAIN map :
           /\ p \in IntegerPartitions(Size(agents)) /\ map[p] = bounds[p]
           /\ map[p].maximum \in 0 .. Unbounded /\ map[p].minimum \in 0 .. Unbounded
<1> SUFFICES ASSUME NEW p \in DOMAIN map
             PROVE  /\ p \in IntegerPartitions(Size(agents)) /\ map[p] = bounds[p]
                    /\ map[p].maximum \in 0 .. Unbounded /\ map[p].minimum \in 0 .. Unbounded
  OBVIOUS
<1>1. p \in IntegerPartitions(Size(agents)) /\ map[p] = bounds[p]
  BY DEF Mapped
<1>2. bounds[p].maximum \in Tiny .. Ceiling /\ bounds[p].minimum \in 0 .. Unbounded
  BY <1>1, BoundsOf
<1>3. bounds[p].maximum \in 0 .. Unbounded
  BY <1>2, Limits
<1> QED
  BY <1>1, <1>2, <1>3

(* Part of such a map is such a map.                                       *)
LEMMA MappedPart ==
  ASSUME NEW map, NEW part, Mapped(map), DOMAIN part \subseteq DOMAIN map,
         part = [p \in DOMAIN part |-> map[p]]
  PROVE  Mapped(part)
<1>1. \A p \in DOMAIN part : map[p] = bounds[p]
  BY DEF Mapped
<1>2. part = [p \in DOMAIN part |-> bounds[p]]
  BY <1>1
<1> QED
  BY <1>2 DEF Mapped

Maximums(map, reached) == {Tiny, reached} \cup {map[p].maximum : p \in DOMAIN map}
Minimums(map, reached) == {Tiny, reached} \cup {map[p].minimum : p \in DOMAIN map}

LEMMA UpperBoundOf ==
  ASSUME NEW map, NEW reached \in 0 .. Unbounded,
         \A p \in DOMAIN map : map[p].maximum \in 0 .. Unbounded
  PROVE  /\ BestUpperBound(map, reached) \in Nat
         /\ reached <= BestUpperBound(map, reached)
         /\ \A p \in DOMAIN map : map[p].maximum <= BestUpperBound(map, reached)
<1> DEFINE S == Maximums(map, reached)
<1>1. S \subseteq 0 .. Unbounded /\ \A x \in S : x \in Nat
  BY Limits DEF Maximums
<1>2. reached \in S /\ \A p \in DOMAIN map : map[p].maximum \in S
  BY DEF Maximums
<1>3. BestUpperBound(map, reached) = Max(S)
  BY DEF BestUpperBound, Maximums
<1> HIDE DEF S
<1>4. Max(S) \in S /\ \A x \in S : x <= Max(S)
  BY <1>1, <1>2, Limits, GreatestIsMax
<1>5. Max(S) \in Nat
  BY <1>1, <1>4
<1> QED
  BY <1>2, <1>3, <1>4, <1>5

LEMMA LowerBoundOf ==
  ASSUME NEW map, NEW reached \in 0 .. Unbounded, NEW x \in Nat, Tiny <= x, reached <= x,
         \A p \in DOMAIN map : map[p].minimum \in 0 .. Unbounded /\ map[p].minimum <= x
  PROVE  BestLowerBound(map, reached) <= x
<1> DEFINE S == Minimums(map, reached)
<1>1. S \subseteq 0 .. Unbounded /\ \A y \in S : y <= x
  BY Limits DEF Minimums
<1>2. reached \in S
  BY DEF Minimums
<1>3. BestLowerBound(map, reached) = Max(S)
  BY DEF BestLowerBound, Minimums
<1> HIDE DEF S
<1>4. Max(S) \in S
  BY <1>1, <1>2, Limits, GreatestIsMax
<1> QED
  BY <1>1, <1>3, <1>4

(* Pruning keeps the partition of a division that is worth more than the   *)
(* best one found so far.                                                  *)
LEMMA PruningKeeps ==
  ASSUME Given, bestValue \in 0 .. Ceiling, NEW map, NEW cs, Optimal(cs),
         bestValue < StructureValue(cs), Shape(cs) \in DOMAIN map,
         StructureValue(cs) <= map[Shape(cs)].maximum, map[Shape(cs)].maximum \in Nat,
         \A p \in DOMAIN map :
            map[p].minimum \in 0 .. Unbounded /\ map[p].minimum <= StructureValue(cs)
  PROVE  Shape(cs) \in DOMAIN Pruned(map)
<1>1. StructureValue(cs) \in Nat /\ (StructureValue(cs) > 0 => StructureValue(cs) >= Tiny)
  BY DivisionIsWorth DEF Optimal
<1>2. bestValue \in 0 .. Unbounded /\ bestValue <= StructureValue(cs) /\ Tiny <= StructureValue(cs)
  BY <1>1, Limits
<1>3. BestLowerBound(map, bestValue) <= StructureValue(cs)
  BY <1>1, <1>2, LowerBoundOf
<1>4. BestLowerBound(map, bestValue) \in Int
  <2>1. Minimums(map, bestValue) \subseteq 0 .. Unbounded /\ bestValue \in Minimums(map, bestValue)
    BY <1>2, Limits DEF Minimums
  <2>2. Max(Minimums(map, bestValue)) \in Minimums(map, bestValue)
    BY <2>1, Limits, GreatestIsMax
  <2>3. BestLowerBound(map, bestValue) = Max(Minimums(map, bestValue))
    BY DEF BestLowerBound, Minimums
  <2> QED
    BY <2>1, <2>2, <2>3
<1>5. map[Shape(cs)].maximum >= BestLowerBound(map, bestValue)
  BY <1>1, <1>3, <1>4
<1> QED
  BY <1>5 DEF Pruned

LEMMA RecordedValue ==
  ASSUME OrganizationInvariant
  PROVE  bestValue \in 0 .. Ceiling /\ bestValue \in 0 .. Unbounded /\ bestValue \in Nat
<1>1. bestValue \in 0 .. Ceiling
  BY DEF OrganizationInvariant, Recorded
<1> QED
  BY <1>1, Limits

LEMMA OptimalValue ==
  ASSUME Given, NEW cs, Optimal(cs)
  PROVE  /\ StructureValue(cs) \in Nat
         /\ Shape(cs) \in IntegerPartitions(Size(agents))
         /\ bounds[Shape(cs)].maximum \in Nat
         /\ StructureValue(cs) <= bounds[Shape(cs)].maximum
BY DivisionIsWorth, WorthIsBounded DEF Optimal

(* The search goes on with other partitions, each of which it still bounds *)
(* and one of which is that of a better division, if there is one.         *)
LEMMA OtherPartitions ==
  ASSUME OrganizationInvariant, UNCHANGED <<problem, result, calls>>, Mapped(boundMap'),
         upperBound' = BestUpperBound(boundMap', bestValue)
           \/ (upperBound' \in Nat /\ bestValue <= upperBound'
                /\ \A p \in DOMAIN boundMap' : boundMap'[p].maximum <= upperBound'),
         pc' = "select" \/ (pc' = "done" /\ DOMAIN boundMap' = {}),
         \A cs \in Divisions[agents] : Optimal(cs) =>
           StructureValue(cs) <= bestValue \/ Shape(cs) \in DOMAIN boundMap'
  PROVE  OrganizationInvariant'
<1>1. Given /\ bestValue \in 0 .. Unbounded /\ bestValue \in Nat
  BY RecordedValue DEF OrganizationInvariant
<1>2. \A p \in DOMAIN boundMap' : boundMap'[p] = bounds[p] /\ boundMap'[p].maximum \in 0 .. Unbounded
  BY <1>1, MappedBounds
<1>3. upperBound' \in Nat /\ bestValue <= upperBound'
      /\ \A p \in DOMAIN boundMap' : boundMap'[p].maximum <= upperBound'
  BY <1>1, <1>2, UpperBoundOf
<1>4. UNCHANGED problem /\ best' = best /\ bestValue' = bestValue
  BY DEF result
<1>5. Recorded(best', bestValue')
  BY <1>4 DEF OrganizationInvariant
<1>6. Located(partition', boundMap', path', todo', pc')
  BY DEF Located
<1>7. ASSUME NEW cs \in Divisions[agents], Optimal(cs)
      PROVE  Kept(cs, bestValue', upperBound', boundMap', partition', path', todo', pc')
  <2>1. StructureValue(cs) \in Nat /\ StructureValue(cs) <= bounds[Shape(cs)].maximum
        /\ bounds[Shape(cs)].maximum \in Nat
    BY <1>1, <1>7, OptimalValue
  <2>2. CASE StructureValue(cs) <= bestValue
    <3>1. StructureValue(cs) <= upperBound'
      BY <1>1, <1>3, <2>1, <2>2
    <3> QED
      BY <1>4, <2>2, <3>1 DEF Kept
  <2>3. CASE Shape(cs) \in DOMAIN boundMap'
    <3>1. StructureValue(cs) <= upperBound'
      BY <1>2, <1>3, <2>1, <2>3
    <3> QED
      BY <2>3, <3>1 DEF Kept, Reachable
  <2> QED
    BY <1>7, <2>2, <2>3
<1> QED
  BY <1>3, <1>4, <1>5, <1>6, <1>7, InvariantCarriesOver

LEMMA InvariantStarts ==
  ASSUME Init
  PROVE  OrganizationInvariant
<1>1. PICK given \in Problems : agents = given.agents /\ value = given.value
  BY DEF Init
<1>2. Given
  <2>1. given.agents \in [Models -> Nat] /\ given.value \in [SubPools(given.agents) -> {0} \cup Tiny .. Ceiling]
    BY ProblemAssumption DEF OrganizationAssumption
  <2>2. bounds = [p \in IntegerPartitions(Size(agents)) |-> PartitionBounds(p)]
    BY DEF Init
  <2> QED
    BY <1>1, <2>1, <2>2 DEF Given, Pool
<1>3. Recorded(best, bestValue)
  BY Limits DEF Init, Recorded
<1>4. Mapped(boundMap)
  BY DEF Init, Mapped
<1>5. upperBound \in Nat /\ Located(partition, boundMap, path, todo, pc)
  BY Limits DEF Init, Located
<1>6. ASSUME NEW cs \in Divisions[agents], Optimal(cs)
      PROVE  Kept(cs, bestValue, upperBound, boundMap, partition, path, todo, pc)
  <2>1. StructureValue(cs) \in Nat /\ StructureValue(cs) <= Ceiling
    BY <1>2, DivisionIsWorth
  <2>2. StructureValue(cs) <= Unbounded
    BY <2>1, Limits
  <2> QED
    BY <2>2 DEF Kept, Init
<1> QED
  BY <1>2, <1>3, <1>4, <1>5, <1>6 DEF OrganizationInvariant

LEMMA FindBestKeeps ==
  ASSUME OrganizationInvariant, FindBest
  PROVE  OrganizationInvariant'
<1>1. /\ boundMap' = Pruned(bounds) /\ upperBound' = BestUpperBound(boundMap', bestValue)
      /\ pc' = "select" /\ UNCHANGED <<problem, result, calls>>
  BY DEF FindBest
<1>2. Given
  BY DEF OrganizationInvariant
<1>3. Mapped(bounds) /\ DOMAIN bounds = IntegerPartitions(Size(agents))
  BY <1>2 DEF Given, Mapped
<1>4. Mapped(boundMap')
  <2>1. DOMAIN Pruned(bounds) \subseteq DOMAIN bounds
        /\ Pruned(bounds) = [p \in DOMAIN Pruned(bounds) |-> bounds[p]]
    BY DEF Pruned
  <2> QED
    BY <1>1, <1>3, <2>1, MappedPart
<1>5. ASSUME NEW cs \in Divisions[agents], Optimal(cs)
      PROVE  StructureValue(cs) <= bestValue \/ Shape(cs) \in DOMAIN boundMap'
  <2>1. /\ StructureValue(cs) \in Nat /\ Shape(cs) \in IntegerPartitions(Size(agents))
        /\ bounds[Shape(cs)].maximum \in Nat /\ StructureValue(cs) <= bounds[Shape(cs)].maximum
    BY <1>2, <1>5, OptimalValue
  <2>2. bestValue \in 0 .. Ceiling /\ bestValue \in Nat
    BY RecordedValue
  <2>3. \A p \in DOMAIN bounds :
          bounds[p].minimum \in 0 .. Unbounded /\ bounds[p].minimum <= StructureValue(cs)
    BY <1>2, <1>3, <1>5, MappedBounds, PromiseIsKept
  <2>4. bestValue < StructureValue(cs) => Shape(cs) \in DOMAIN Pruned(bounds)
    BY <1>2, <1>3, <1>5, <2>1, <2>2, <2>3, PruningKeeps
  <2> QED
    BY <1>1, <2>1, <2>2, <2>4
<1> QED
  BY <1>1, <1>4, <1>5, OtherPartitions

(* Before a round ends, its partition is that of no better division.       *)
LEMMA RoundIsDecided ==
  ASSUME OrganizationInvariant, pc = "round", NEW cs \in Divisions[agents], Optimal(cs)
  PROVE  /\ StructureValue(cs) <= upperBound /\ StructureValue(cs) \in Nat
         /\ \/ StructureValue(cs) <= bestValue
            \/ Shape(cs) \in DOMAIN boundMap /\ Shape(cs) # partition
<1>1. Kept(cs, bestValue, upperBound, boundMap, partition, path, todo, pc)
  BY DEF OrganizationInvariant
<1>2. StructureValue(cs) \in Nat
  BY OptimalValue DEF OrganizationInvariant
<1> QED
  BY <1>1, <1>2 DEF Kept, Reachable

Exact == [maximum |-> bestValue, minimum |-> bestValue]
Updated == [boundMap EXCEPT ![partition] = Exact]

LEMMA FinishRoundKeeps ==
  ASSUME OrganizationInvariant, FinishRound
  PROVE  OrganizationInvariant'
<1>1. pc = "round" /\ UNCHANGED <<problem, result, calls>>
  BY DEF FinishRound
<1>2. Given /\ Mapped(boundMap) /\ partition \in DOMAIN boundMap /\ upperBound \in Nat
  BY <1>1 DEF OrganizationInvariant, Located
<1>3. bestValue \in 0 .. Ceiling /\ bestValue \in 0 .. Unbounded /\ bestValue \in Nat
  BY RecordedValue
<1>4. CASE improved /\ Sufficient /\ pc' = "done" /\ UNCHANGED <<upperBound, boundMap>>
  <2>1. UNCHANGED problem /\ best' = best /\ bestValue' = bestValue
        /\ upperBound' = upperBound /\ boundMap' = boundMap
    BY <1>1, <1>4 DEF result
  <2>2. Recorded(best', bestValue') /\ Mapped(boundMap') /\ upperBound' \in Nat
    BY <1>2, <2>1 DEF OrganizationInvariant
  <2>3. Located(partition', boundMap', path', todo', pc')
    BY <1>4 DEF Located
  <2>4. ASSUME NEW cs \in Divisions[agents], Optimal(cs)
        PROVE  Kept(cs, bestValue', upperBound', boundMap', partition', path', todo', pc')
    <3>1. StructureValue(cs) <= upperBound /\ StructureValue(cs) \in Nat
      BY <1>1, <2>4, RoundIsDecided
    <3>2. StructureValue(cs) <= bestValue
      BY <1>2, <1>3, <1>4, <3>1 DEF Sufficient
    <3> QED
      BY <2>1, <3>1, <3>2 DEF Kept
  <2> QED
    BY <2>1, <2>2, <2>3, <2>4, InvariantCarriesOver
<1>5. CASE /\ ~improved /\ boundMap' = Erased(boundMap, partition)
           /\ upperBound' = BestUpperBound(boundMap', bestValue)
           /\ pc' = IF DOMAIN boundMap' = {} THEN "done" ELSE "select"
  <2>1. DOMAIN boundMap' = DOMAIN boundMap \ {partition}
        /\ boundMap' = [p \in DOMAIN boundMap' |-> boundMap[p]]
    BY <1>5 DEF Erased
  <2>2. Mapped(boundMap')
    BY <1>2, <2>1, MappedPart
  <2>3. ASSUME NEW cs \in Divisions[agents], Optimal(cs)
        PROVE  StructureValue(cs) <= bestValue \/ Shape(cs) \in DOMAIN boundMap'
    BY <1>1, <2>1, <2>3, RoundIsDecided
  <2>4. pc' = "select" \/ (pc' = "done" /\ DOMAIN boundMap' = {})
    BY <1>5
  <2> QED
    BY <1>1, <1>5, <2>2, <2>3, <2>4, OtherPartitions
<1>6. CASE /\ improved /\ ~Sufficient
           /\ boundMap' = Erased(Pruned(Updated), partition)
           /\ upperBound' = BestUpperBound(Pruned(Updated), bestValue)
           /\ pc' = IF DOMAIN boundMap' = {} THEN "done" ELSE "select"
  <2> DEFINE left == Pruned(Updated)
  <2>1. /\ DOMAIN Updated = DOMAIN boundMap
        /\ Updated[partition].maximum = bestValue /\ Updated[partition].minimum = bestValue
        /\ \A p \in DOMAIN boundMap \ {partition} : Updated[p] = boundMap[p]
    BY <1>2 DEF Updated, Exact
  <2>2. \A p \in DOMAIN boundMap : /\ boundMap[p].maximum \in 0 .. Unbounded
                                   /\ boundMap[p].minimum \in 0 .. Unbounded
                                   /\ boundMap[p] = bounds[p]
                                   /\ p \in IntegerPartitions(Size(agents))
    BY <1>2, MappedBounds
  <2>3. \A p \in DOMAIN Updated : /\ Updated[p].maximum \in 0 .. Unbounded
                                  /\ Updated[p].minimum \in 0 .. Unbounded
    <3> TAKE p \in DOMAIN Updated
    <3>1. CASE p = partition
      BY <1>3, <2>1, <3>1
    <3>2. CASE p # partition
      BY <2>1, <2>2, <3>2
    <3> QED
      BY <3>1, <3>2
  <2>4. DOMAIN left \subseteq DOMAIN Updated /\ \A p \in DOMAIN left : left[p] = Updated[p]
    BY DEF Pruned
  <2> HIDE DEF left
  <2>5. /\ DOMAIN boundMap' = DOMAIN left \ {partition}
        /\ boundMap' = [p \in DOMAIN boundMap' |-> left[p]]
    BY <1>6 DEF Erased, left
  <2>6. DOMAIN boundMap' \subseteq DOMAIN boundMap
        /\ \A p \in DOMAIN boundMap' : left[p] = boundMap[p]
    BY <2>1, <2>4, <2>5
  <2>7. boundMap' = [p \in DOMAIN boundMap' |-> boundMap[p]]
    BY <2>5, <2>6
  <2>8. Mapped(boundMap')
    BY <1>2, <2>6, <2>7, MappedPart
  <2>9. \A p \in DOMAIN left : left[p].maximum \in 0 .. Unbounded
    BY <2>3, <2>4
  <2>10. /\ upperBound' = BestUpperBound(left, bestValue)
         /\ pc' = IF DOMAIN boundMap' = {} THEN "done" ELSE "select"
    BY <1>6 DEF left
  <2>11. /\ upperBound' \in Nat /\ bestValue <= upperBound'
         /\ \A p \in DOMAIN left : left[p].maximum <= upperBound'
    BY <1>3, <2>9, <2>10, UpperBoundOf
  <2>12. \A p \in DOMAIN boundMap' : boundMap'[p].maximum <= upperBound'
    <3>1. \A p \in DOMAIN boundMap' : boundMap'[p] = left[p] /\ p \in DOMAIN left
      BY <2>5
    <3> QED
      BY <2>11, <3>1
  <2>13. ASSUME NEW cs \in Divisions[agents], Optimal(cs)
         PROVE  StructureValue(cs) <= bestValue \/ Shape(cs) \in DOMAIN boundMap'
    <3> SUFFICES ASSUME ~(StructureValue(cs) <= bestValue) PROVE Shape(cs) \in DOMAIN boundMap'
      OBVIOUS
    <3>1. StructureValue(cs) \in Nat /\ Shape(cs) \in DOMAIN boundMap /\ Shape(cs) # partition
      BY <1>1, <2>13, RoundIsDecided
    <3>2. bounds[Shape(cs)].maximum \in Nat /\ StructureValue(cs) <= bounds[Shape(cs)].maximum
      BY <1>2, <2>13, OptimalValue
    <3>3. Updated[Shape(cs)].maximum \in Nat /\ StructureValue(cs) <= Updated[Shape(cs)].maximum
      BY <2>1, <2>2, <3>1, <3>2
    <3>4. bestValue < StructureValue(cs)
      BY <1>3, <3>1
    <3>5. \A p \in DOMAIN Updated : Updated[p].minimum <= StructureValue(cs)
      <4> TAKE p \in DOMAIN Updated
      <4>1. CASE p = partition
        BY <1>3, <2>1, <3>1, <3>4, <4>1
      <4>2. CASE p # partition
        <5>1. bounds[p].minimum <= StructureValue(cs)
          BY <1>2, <2>1, <2>2, <2>13, PromiseIsKept
        <5> QED
          BY <2>1, <2>2, <4>2, <5>1
      <4> QED
        BY <4>1, <4>2
    <3>6. Shape(cs) \in DOMAIN Pruned(Updated)
      BY <1>2, <1>3, <2>1, <2>3, <2>13, <3>1, <3>3, <3>4, <3>5, PruningKeeps
    <3> QED
      BY <2>5, <3>1, <3>6 DEF left
  <2>14. pc' = "select" \/ (pc' = "done" /\ DOMAIN boundMap' = {})
    BY <2>10
  <2> QED
    BY <1>1, <2>8, <2>11, <2>12, <2>13, <2>14, OtherPartitions
<1> QED
  BY <1>4, <1>5, <1>6 DEF FinishRound, Updated, Exact

-----------------------------------------------------------------------------
(* The calls of searchSubspace                                             *)

LEMMA CombinationsOf ==
  ASSUME agents \in Pool, NEW cs, Fits(cs), NEW p, NEW alpha
  PROVE  /\ Combinations(p, cs, alpha) \in SUBSET Pool
         /\ \A c \in Combinations(p, cs, alpha) :
               c \in SubPools(Remaining(cs)) /\ Size(c) = p[Len(cs) + 1]
<1>1. Remaining(cs) \in Pool
  BY RemainingOf
<1>2. \A c \in SubPools(Remaining(cs)) : c \in Pool
  BY <1>1, SubPoolsOf
<1>3. \A c \in Combinations(p, cs, alpha) : c \in SubPools(Remaining(cs)) /\ Size(c) = p[Len(cs) + 1]
  BY DEF Combinations
<1> QED
  BY <1>2, <1>3

LEMMA NothingFits ==
  ASSUME agents \in Pool
  PROVE  Fits(<<>>) /\ Len(<<>>) = 0
<1>1. Len(<<>>) = 0 /\ DOMAIN <<>> = {} /\ <<>> \in Seq(Pool)
  OBVIOUS
<1>2. \A m \in Models : Members(<<>>, m) = 0 /\ agents[m] \in Nat
  BY NoMembers DEF Pool
<1>3. \A m \in Models : Members(<<>>, m) <= agents[m]
  BY <1>2
<1> QED
  BY <1>1, <1>3 DEF Fits

LEMMA SelectPartitionKeeps ==
  ASSUME OrganizationInvariant, SelectPartition
  PROVE  OrganizationInvariant'
<1>1. /\ pc = "select" /\ pc' = "explore" /\ path' = <<>>
      /\ UNCHANGED problem /\ best' = best /\ bestValue' = bestValue
      /\ upperBound' = upperBound /\ boundMap' = boundMap
  BY DEF SelectPartition, result
<1>2. PICK p \in DOMAIN boundMap : partition' = p /\ todo' = <<Combinations(p, <<>>, 0)>>
  BY DEF SelectPartition
<1>3. Given /\ agents \in Pool /\ Mapped(boundMap) /\ p \in IntegerPartitions(Size(agents))
  BY MappedBounds DEF OrganizationInvariant, Given
<1>4. Fits(<<>>) /\ Len(<<>>) = 0
  BY <1>3, NothingFits
<1>5. Recorded(best', bestValue') /\ upperBound' \in Nat /\ Mapped(boundMap')
  BY <1>1 DEF OrganizationInvariant
<1> DEFINE first == Combinations(p, <<>>, 0)
<1>6. /\ first \in SUBSET Pool
      /\ \A c \in first : c \in SubPools(Remaining(<<>>)) /\ Size(c) = p[1]
  <2>1. 0 + 1 = 1
    OBVIOUS
  <2> QED
    BY <1>3, <1>4, <2>1, CombinationsOf
<1>7. Len(p) \in Nat /\ 1 <= Len(p)
  BY <1>3, PartitionsOf
<1>8. todo' = <<first>>
  BY <1>2
<1> HIDE DEF first
<1>9. Stacked(<<>>, <<first>>, p)
  <2>1. <<first>> \in Seq(SUBSET Pool) /\ Len(<<first>>) = 1 /\ <<first>>[1] = first
    BY <1>6
  <2>2. Sized(<<>>, p, 0)
    BY <1>4 DEF Sized
  <2>3. Prefix(<<>>, 0) = <<>>
    BY DEF Prefix
  <2>4. \A i \in 1 .. 1 : \A c \in <<first>>[i] :
          Size(c) = p[i] /\ c \in SubPools(Remaining(Prefix(<<>>, i - 1)))
    BY <1>6, <2>1, <2>3
  <2> QED
    BY <1>4, <1>7, <2>1, <2>2, <2>4 DEF Stacked
<1>10. Located(partition', boundMap', path', todo', pc')
  BY <1>1, <1>2, <1>8, <1>9 DEF Located
<1>11. ASSUME NEW cs \in Divisions[agents], Optimal(cs)
       PROVE  Kept(cs, bestValue', upperBound', boundMap', partition', path', todo', pc')
  <2>1. Kept(cs, bestValue, upperBound, boundMap, partition, path, todo, pc)
    BY <1>11 DEF OrganizationInvariant
  <2>2. ASSUME p = Shape(cs) PROVE Ahead(cs, <<>>, <<first>>)
    <3>1. cs[1] \in first
      BY <1>3, <1>11, <2>2, FirstCoalitionIsTried DEF Optimal, first
    <3>2. Agree(<<>>, cs, 1)
      BY DEF Agree
    <3>3. 1 \in 1 .. Len(<<first>>) /\ <<first>>[1] = first
      OBVIOUS
    <3> QED
      BY <3>1, <3>2, <3>3 DEF Ahead
  <2> QED
    BY <1>1, <1>2, <1>8, <2>1, <2>2 DEF Kept, Reachable
<1> QED
  BY <1>1, <1>5, <1>10, <1>11, InvariantCarriesOver

(* What an iteration of searchSubspace starts from.                        *)
Searching ==
  /\ OrganizationInvariant
  /\ pc \in {"explore", "check"}

LEMMA StackIs ==
  ASSUME Searching
  PROVE  /\ Given /\ agents \in Pool /\ partition \in DOMAIN boundMap
         /\ partition \in IntegerPartitions(Size(agents))
         /\ Stacked(path, todo, partition) /\ Fits(path)
         /\ path \in Seq(Pool) /\ Len(path) \in Nat /\ Len(todo) = Len(path) + 1
         /\ todo \in Seq(SUBSET Pool) /\ DOMAIN todo = 1 .. Len(todo)
         /\ Last(todo) = todo[Len(todo)] /\ Len(todo) \in 1 .. Len(todo)
         /\ Len(todo) \in Nat /\ Len(partition) \in Nat /\ Len(todo) <= Len(partition)
         /\ Prefix(path, Len(path)) = path
<1>1. Given /\ agents \in Pool /\ partition \in DOMAIN boundMap /\ Mapped(boundMap)
      /\ Stacked(path, todo, partition)
  BY DEF Searching, OrganizationInvariant, Located, Given
<1>2. partition \in IntegerPartitions(Size(agents))
  BY <1>1, MappedBounds
<1>3. Fits(path) /\ path \in Seq(Pool) /\ todo \in Seq(SUBSET Pool)
      /\ Len(todo) = Len(path) + 1 /\ Len(todo) <= Len(partition)
  BY <1>1 DEF Stacked, Sized, Fits
<1>4. Len(path) \in Nat /\ path = [i \in 1 .. Len(path) |-> path[i]]
  BY <1>3, LenProperties
<1>5. Len(partition) \in Nat
  BY <1>1, <1>2, PartitionsOf
<1>6. DOMAIN todo = 1 .. Len(todo) /\ Len(todo) \in Nat
  BY <1>3, LenProperties
<1>7. Last(todo) = todo[Len(todo)]
  BY DEF Last
<1>8. Len(todo) \in 1 .. Len(todo)
  BY <1>3, <1>4
<1> QED
  BY <1>1, <1>2, <1>3, <1>4, <1>5, <1>6, <1>7, <1>8 DEF Prefix

(* The coalitions chosen with the next one.                                *)
LEMMA ChosenNext ==
  ASSUME Searching, NEW c \in Last(todo)
  PROVE  /\ Sized(Append(path, c), partition, Len(todo))
         /\ Append(path, c) \in Seq(Pool) /\ Len(Append(path, c)) = Len(todo)
         /\ \A i \in 1 .. Len(path) : Append(path, c)[i] = path[i]
         /\ Append(path, c)[Len(todo)] = c
<1>1. /\ agents \in Pool /\ Stacked(path, todo, partition) /\ Fits(path)
      /\ path \in Seq(Pool) /\ Len(path) \in Nat /\ Len(todo) = Len(path) + 1
      /\ Last(todo) = todo[Len(todo)] /\ Len(todo) \in 1 .. Len(todo)
      /\ Prefix(path, Len(path)) = path
  BY StackIs
<1>2. Size(c) = partition[Len(todo)] /\ c \in SubPools(Remaining(path))
  <2>1. Size(c) = partition[Len(todo)] /\ c \in SubPools(Remaining(Prefix(path, Len(todo) - 1)))
    BY <1>1 DEF Stacked
  <2>2. Len(todo) - 1 = Len(path)
    BY <1>1
  <2> QED
    BY <1>1, <2>1, <2>2
<1>3. Fits(Append(path, c)) /\ c \in Pool
  BY <1>1, <1>2, FitsAppended
<1>4. /\ Append(path, c) \in Seq(Pool) /\ Len(Append(path, c)) = Len(path) + 1
      /\ \A i \in 1 .. Len(path) : Append(path, c)[i] = path[i]
      /\ Append(path, c)[Len(path) + 1] = c
  BY <1>1, <1>3, MembersAppended
<1>5. \A i \in 1 .. Len(path) : Size(path[i]) = partition[i]
  BY <1>1 DEF Stacked, Sized
<1>6. \A i \in 1 .. Len(todo) : Size(Append(path, c)[i]) = partition[i]
  <2> TAKE i \in 1 .. Len(todo)
  <2>1. i \in 1 .. Len(path) \/ i = Len(path) + 1
    BY <1>1
  <2> QED
    BY <1>1, <1>2, <1>4, <1>5, <2>1
<1> QED
  BY <1>1, <1>3, <1>4, <1>6 DEF Sized

(* A combination is taken from the last call's.                            *)
LEMMA TakenFrom ==
  ASSUME Searching, NEW c \in Last(todo)
  PROVE  /\ Taken(c) \in Seq(SUBSET Pool) /\ Len(Taken(c)) = Len(todo)
         /\ \A i \in 1 .. Len(path) : Taken(c)[i] = todo[i]
         /\ Taken(c)[Len(todo)] = todo[Len(todo)] \ {c}
         /\ Stacked(path, Taken(c), partition)
<1> DEFINE n == Len(todo)
           rest == todo[n] \ {c}
<1>1. /\ Stacked(path, todo, partition) /\ Len(path) \in Nat /\ n = Len(path) + 1
      /\ todo \in Seq(SUBSET Pool) /\ DOMAIN todo = 1 .. n /\ n \in 1 .. n /\ n \in Nat
  BY StackIs
<1>2. Taken(c) = [todo EXCEPT ![n] = rest]
  BY DEF Taken
<1>3. todo \in [1 .. n -> SUBSET Pool]
  BY <1>1, LenProperties
<1> HIDE DEF n
<1>4. rest \in SUBSET Pool
  BY <1>1, <1>3
<1> HIDE DEF rest
<1>5. Taken(c) \in [1 .. n -> SUBSET Pool] /\ Taken(c)[n] = rest
      /\ \A i \in 1 .. n : i # n => Taken(c)[i] = todo[i]
  BY <1>1, <1>2, <1>3, <1>4
<1>6. Taken(c) \in Seq(SUBSET Pool) /\ Len(Taken(c)) = n
  BY <1>1, <1>5
<1>7. \A i \in 1 .. Len(path) : Taken(c)[i] = todo[i]
  <2> TAKE i \in 1 .. Len(path)
  <2>1. i \in 1 .. n /\ i # n
    BY <1>1
  <2> QED
    BY <1>5, <2>1
<1>8. \A i \in 1 .. n : Taken(c)[i] \subseteq todo[i]
  <2> TAKE i \in 1 .. n
  <2>1. i # n => Taken(c)[i] = todo[i]
    BY <1>5
  <2>2. i = n => Taken(c)[i] \subseteq todo[i]
    BY <1>5 DEF rest
  <2> QED
    BY <2>1, <2>2
<1>9. Stacked(path, Taken(c), partition)
  <2>1. /\ Sized(path, partition, Len(path)) /\ n <= Len(partition)
        /\ \A i \in 1 .. n : \A d \in todo[i] :
             Size(d) = partition[i] /\ d \in SubPools(Remaining(Prefix(path, i - 1)))
    BY <1>1 DEF Stacked, n
  <2>2. \A i \in 1 .. n : \A d \in Taken(c)[i] :
             Size(d) = partition[i] /\ d \in SubPools(Remaining(Prefix(path, i - 1)))
    BY <1>8, <2>1
  <2> QED
    BY <1>1, <1>6, <2>1, <2>2 DEF Stacked
<1> QED
  BY <1>5, <1>6, <1>7, <1>9 DEF n, rest

(* A division that was ahead still is, or the combination is the next one  *)
(* of its coalitions.                                                      *)
LEMMA TakenAhead ==
  ASSUME Searching, NEW c \in Last(todo), NEW cs, Ahead(cs, path, todo)
  PROVE  \/ Ahead(cs, path, Taken(c))
         \/ Agree(path, cs, Len(todo)) /\ cs[Len(todo)] = c
<1>1. PICK i \in 1 .. Len(todo) : Agree(path, cs, i) /\ cs[i] \in todo[i]
  BY DEF Ahead
<1>2. /\ Len(Taken(c)) = Len(todo) /\ \A j \in 1 .. Len(path) : Taken(c)[j] = todo[j]
      /\ Taken(c)[Len(todo)] = todo[Len(todo)] \ {c}
  BY TakenFrom
<1>3. Len(path) \in Nat /\ Len(todo) = Len(path) + 1
  BY StackIs
<1>4. CASE i = Len(todo)
  <2>1. cs[i] # c => cs[i] \in Taken(c)[i]
    BY <1>1, <1>2, <1>4
  <2> QED
    BY <1>1, <1>2, <1>4, <2>1 DEF Ahead
<1>5. CASE i # Len(todo)
  <2>1. i \in 1 .. Len(path)
    BY <1>3, <1>5
  <2> QED
    BY <1>1, <1>2, <2>1 DEF Ahead
<1> QED
  BY <1>4, <1>5

(* Then the coalitions chosen are the first ones of the division.          *)
LEMMA ChosenAreFirst ==
  ASSUME Searching, NEW c \in Last(todo), NEW cs \in Seq(Pool), Len(todo) <= Len(cs),
         Agree(path, cs, Len(todo)), cs[Len(todo)] = c
  PROVE  Append(path, c) = Prefix(cs, Len(todo))
<1>1. Len(path) \in Nat /\ Len(todo) = Len(path) + 1 /\ Len(todo) \in Nat
  BY StackIs
<1>2. /\ Append(path, c) \in Seq(Pool) /\ Len(Append(path, c)) = Len(todo)
      /\ \A i \in 1 .. Len(path) : Append(path, c)[i] = path[i]
      /\ Append(path, c)[Len(todo)] = c
  BY ChosenNext
<1>3. Len(cs) \in Nat /\ Len(todo) \in 0 .. Len(cs)
  BY <1>1, LenProperties
<1>4. /\ Prefix(cs, Len(todo)) \in Seq(Pool) /\ Len(Prefix(cs, Len(todo))) = Len(todo)
      /\ \A i \in 1 .. Len(todo) : Prefix(cs, Len(todo))[i] = cs[i]
  BY <1>3, PrefixOf
<1>5. \A i \in 1 .. Len(todo) : Append(path, c)[i] = Prefix(cs, Len(todo))[i]
  <2> TAKE i \in 1 .. Len(todo)
  <2>1. i \in 1 .. Len(todo) - 1 \/ i = Len(todo)
    BY <1>1
  <2>2. i \in 1 .. Len(todo) - 1 => Append(path, c)[i] = cs[i]
    <3>1. i \in 1 .. Len(todo) - 1 => path[i] = cs[i] /\ i \in 1 .. Len(path)
      BY <1>1 DEF Agree
    <3> QED
      BY <1>2, <3>1
  <2> QED
    BY <1>2, <1>4, <2>1, <2>2
<1> QED
  BY <1>2, <1>4, <1>5, SeqEqual

-----------------------------------------------------------------------------
(* Steps within a partition                                                *)

(* An optimal division whose partition is searched.                        *)
LEMMA SearchedDivision ==
  ASSUME Searching, NEW cs \in Divisions[agents], Optimal(cs), partition = Shape(cs)
  PROVE  /\ cs \in Seq(Pool) /\ Len(cs) \in Nat /\ Len(partition) = Len(cs)
         /\ StructureValue(cs) \in Nat
         /\ InOrder(cs)
<1>1. Given
  BY StackIs
<1>2. cs \in Seq(Pool) /\ Len(cs) \in Nat
  BY <1>1, DivisionsOf, LenProperties DEF Fits
<1>3. InOrder(cs)
  BY DEF Optimal
<1>4. Len(Shape(cs)) = Len(cs)
  BY <1>1, <1>3, ShapeOf
<1> QED
  BY <1>1, <1>2, <1>3, <1>4, OptimalValue

(* As long as the search has not found a better structure and stays within *)
(* the partition, only that partition's divisions need another look.       *)
LEMMA SearchContinues ==
  ASSUME Searching, UNCHANGED problem,
         \/ (best' = best /\ bestValue' = bestValue)
         \/ (Recorded(best', bestValue') /\ bestValue <= bestValue'),
         UNCHANGED <<upperBound, boundMap, partition>>,
         pc' \in {"explore", "check"}, Stacked(path', todo', partition),
         \A cs \in Divisions[agents] :
            Optimal(cs) /\ partition = Shape(cs) /\ Ahead(cs, path, todo) =>
              StructureValue(cs) <= bestValue' \/ Ahead(cs, path', todo')
  PROVE  OrganizationInvariant'
<1>1. Given /\ partition \in DOMAIN boundMap
  BY StackIs
<1>2. Recorded(best', bestValue') /\ bestValue \in Nat /\ bestValue' \in Nat /\ bestValue <= bestValue'
  <2>1. Recorded(best, bestValue) /\ bestValue \in Nat
    BY RecordedValue DEF Searching, OrganizationInvariant
  <2>2. Recorded(best', bestValue') /\ bestValue <= bestValue'
    BY <2>1
  <2>3. bestValue' \in Nat
    BY <2>2, Limits DEF Recorded
  <2> QED
    BY <2>1, <2>2, <2>3
<1>3. upperBound' \in Nat /\ Mapped(boundMap')
  BY DEF Searching, OrganizationInvariant
<1>4. Located(partition', boundMap', path', todo', pc')
  BY <1>1 DEF Located
<1>5. ASSUME NEW cs \in Divisions[agents], Optimal(cs)
      PROVE  Kept(cs, bestValue', upperBound', boundMap', partition', path', todo', pc')
  <2>1. Kept(cs, bestValue, upperBound, boundMap, partition, path, todo, pc)
    BY <1>5 DEF Searching, OrganizationInvariant
  <2>2. StructureValue(cs) \in Nat
    BY <1>1, <1>5, OptimalValue
  <2>3. StructureValue(cs) <= upperBound'
    BY <2>1 DEF Kept
  <2>4. CASE StructureValue(cs) <= bestValue
    <3>1. StructureValue(cs) <= bestValue'
      BY <1>2, <2>2, <2>4
    <3> QED
      BY <2>3, <3>1 DEF Kept
  <2>5. CASE Reachable(cs, boundMap, partition, path, todo, pc)
    <3>1. Shape(cs) \in DOMAIN boundMap
          /\ (partition = Shape(cs) => Ahead(cs, path, todo))
      BY <2>5 DEF Reachable, Searching
    <3>2. StructureValue(cs) <= bestValue'
          \/ (partition = Shape(cs) => Ahead(cs, path', todo'))
      BY <1>5, <3>1
    <3>3. StructureValue(cs) <= bestValue'
          \/ Reachable(cs, boundMap', partition', path', todo', pc')
      BY <3>1, <3>2 DEF Reachable
    <3> QED
      BY <2>3, <3>3 DEF Kept
  <2> QED
    BY <2>1, <2>4, <2>5 DEF Kept, Searching
<1> QED
  BY <1>2, <1>3, <1>4, <1>5, InvariantCarriesOver DEF Searching

LEMMA CompleteStructureKeeps ==
  ASSUME Searching, NEW c \in Last(todo), CompleteStructure(c)
  PROVE  OrganizationInvariant'
<1> DEFINE ds == Append(path, c)
<1>1. /\ Len(ds) = Len(partition) /\ todo' = Taken(c) /\ pc' = "check" /\ path' = path
      /\ UNCHANGED problem /\ UNCHANGED <<upperBound, boundMap, partition>>
      /\ \/ StructureValue(ds) > bestValue /\ best' = ds /\ bestValue' = StructureValue(ds)
         \/ ~(StructureValue(ds) > bestValue) /\ best' = best /\ bestValue' = bestValue
  BY DEF CompleteStructure, result
<1>2. /\ Given /\ partition \in IntegerPartitions(Size(agents))
  BY StackIs
<1>3. Sized(ds, partition, Len(todo)) /\ Len(ds) = Len(todo)
  BY ChosenNext
<1> HIDE DEF ds
<1>4. ds \in Divisions[agents]
  <2>1. Sized(ds, partition, Len(partition))
    BY <1>1, <1>3
  <2> QED
    BY <1>2, <2>1, SizedIsDivision
<1>5. StructureValue(ds) \in Nat /\ StructureValue(ds) <= Ceiling
  BY <1>2, <1>4, DivisionIsWorth
<1>6. bestValue \in Nat
  BY RecordedValue DEF Searching
<1>7. /\ \/ (best' = best /\ bestValue' = bestValue)
         \/ (Recorded(best', bestValue') /\ bestValue <= bestValue')
      /\ StructureValue(ds) <= bestValue'
  <2>1. CASE StructureValue(ds) > bestValue /\ best' = ds /\ bestValue' = StructureValue(ds)
    <3>1. bestValue' \in 0 .. Ceiling /\ bestValue' # 0 /\ bestValue <= bestValue'
      BY <1>5, <1>6, <2>1, Limits
    <3>2. Recorded(best', bestValue')
      BY <1>4, <2>1, <3>1 DEF Recorded
    <3> QED
      BY <1>5, <2>1, <3>1, <3>2
  <2>2. CASE ~(StructureValue(ds) > bestValue) /\ best' = best /\ bestValue' = bestValue
    BY <1>5, <1>6, <2>2
  <2> QED
    BY <1>1, <2>1, <2>2
<1>8. Stacked(path', todo', partition)
  BY <1>1, TakenFrom
<1>9. ASSUME NEW cs \in Divisions[agents],
             Optimal(cs) /\ partition = Shape(cs) /\ Ahead(cs, path, todo)
      PROVE  StructureValue(cs) <= bestValue' \/ Ahead(cs, path', todo')
  <2>1. cs \in Seq(Pool) /\ Len(cs) \in Nat /\ Len(partition) = Len(cs)
    BY <1>9, SearchedDivision
  <2>2. CASE Ahead(cs, path, Taken(c))
    BY <1>1, <2>2
  <2>3. CASE Agree(path, cs, Len(todo)) /\ cs[Len(todo)] = c
    <3>1. Len(todo) = Len(cs)
      BY <1>1, <1>3, <2>1
    <3>2. Len(todo) <= Len(cs)
      BY <2>1, <3>1
    <3>3. ds = Prefix(cs, Len(cs))
      BY <2>1, <2>3, <3>1, <3>2, ChosenAreFirst DEF ds
    <3>4. cs = Prefix(cs, Len(cs))
      BY <2>1 DEF Prefix
    <3> QED
      BY <1>7, <3>3, <3>4
  <2> QED
    BY <1>9, <2>2, <2>3, TakenAhead
<1>10. pc' \in {"explore", "check"}
  BY <1>1
<1> QED
  BY <1>1, <1>7, <1>8, <1>9, <1>10, SearchContinues

LEMMA SkipSubspaceKeeps ==
  ASSUME Searching, NEW c \in Last(todo), SkipSubspace(c)
  PROVE  OrganizationInvariant'
<1> DEFINE ds == Append(path, c)
<1>1. /\ Len(ds) < Len(partition) /\ bestValue >= Potential(ds)
      /\ todo' = Taken(c) /\ pc' = "check" /\ path' = path
      /\ UNCHANGED problem /\ UNCHANGED <<upperBound, boundMap, partition>>
      /\ best' = best /\ bestValue' = bestValue
  BY DEF SkipSubspace, result
<1>2. Given /\ Len(todo) \in Nat /\ Len(todo) \in 1 .. Len(todo)
  BY StackIs
<1>3. Len(ds) = Len(todo)
  BY ChosenNext
<1> HIDE DEF ds
<1>4. bestValue \in Nat
  BY RecordedValue DEF Searching
<1>5. Stacked(path', todo', partition)
  BY <1>1, TakenFrom
<1>6. ASSUME NEW cs \in Divisions[agents],
             Optimal(cs) /\ partition = Shape(cs) /\ Ahead(cs, path, todo)
      PROVE  StructureValue(cs) <= bestValue' \/ Ahead(cs, path', todo')
  <2>1. /\ cs \in Seq(Pool) /\ Len(cs) \in Nat /\ Len(partition) = Len(cs)
        /\ StructureValue(cs) \in Nat /\ InOrder(cs)
    BY <1>6, SearchedDivision
  <2>2. CASE Ahead(cs, path, Taken(c))
    BY <1>1, <2>2
  <2>3. CASE Agree(path, cs, Len(todo)) /\ cs[Len(todo)] = c
    <3>1. Len(todo) <= Len(cs) /\ Len(todo) \in 1 .. Len(cs)
      BY <1>1, <1>2, <1>3, <2>1
    <3>2. ds = Prefix(cs, Len(todo))
      BY <2>1, <2>3, <3>1, ChosenAreFirst DEF ds
    <3>3. /\ Potential(Prefix(cs, Len(todo))) \in Nat
          /\ StructureValue(cs) <= Potential(Prefix(cs, Len(todo)))
      BY <1>2, <1>6, <2>1, <3>1, PotentialIsReached
    <3> QED
      BY <1>1, <1>4, <2>1, <3>2, <3>3
  <2> QED
    BY <1>6, <2>2, <2>3, TakenAhead
<1>7. pc' \in {"explore", "check"}
  BY <1>1
<1> QED
  BY <1>1, <1>5, <1>6, <1>7, SearchContinues

LEMMA EnterSubspaceKeeps ==
  ASSUME Searching, NEW c \in Last(todo), EnterSubspace(c)
  PROVE  OrganizationInvariant'
<1> DEFINE ds == Append(path, c)
           n == Len(todo)
           next == Combinations(partition, ds, Alpha(ds))
<1>1. /\ Len(ds) < Len(partition) /\ path' = ds /\ todo' = Append(Taken(c), next) /\ pc' = pc
      /\ UNCHANGED problem /\ UNCHANGED <<upperBound, boundMap, partition>>
      /\ best' = best /\ bestValue' = bestValue
  BY DEF EnterSubspace, result
<1>2. /\ Given /\ agents \in Pool /\ n \in Nat /\ n \in 1 .. n /\ n = Len(path) + 1 /\ Len(path) \in Nat
      /\ Len(partition) \in Nat /\ path \in Seq(Pool)
  BY StackIs
<1>3. /\ Sized(ds, partition, n) /\ Len(ds) = n /\ ds \in Seq(Pool) /\ Fits(ds)
      /\ \A i \in 1 .. Len(path) : ds[i] = path[i]
  <2>1. /\ Sized(ds, partition, n) /\ Len(ds) = n /\ ds \in Seq(Pool)
        /\ \A i \in 1 .. Len(path) : ds[i] = path[i]
    BY ChosenNext
  <2> QED
    BY <2>1 DEF Sized
<1>4. /\ Taken(c) \in Seq(SUBSET Pool) /\ Len(Taken(c)) = n /\ Stacked(path, Taken(c), partition)
  BY TakenFrom
<1> HIDE DEF ds
<1>5. next \in SUBSET Pool /\ \A d \in next : d \in SubPools(Remaining(ds)) /\ Size(d) = partition[n + 1]
  BY <1>2, <1>3, CombinationsOf
<1> HIDE DEF next, n
<1>6. /\ todo' \in Seq(SUBSET Pool) /\ Len(todo') = n + 1
      /\ \A i \in 1 .. n : todo'[i] = Taken(c)[i]
      /\ todo'[n + 1] = next
  BY <1>1, <1>4, <1>5, AppendProperties
<1>7. \A i \in 1 .. n : Prefix(ds, i - 1) = Prefix(path, i - 1)
  <2> TAKE i \in 1 .. n
  <2>1. \A j \in 1 .. i - 1 : j \in 1 .. Len(path)
    BY <1>2
  <2>2. \A j \in 1 .. i - 1 : ds[j] = path[j]
    BY <1>3, <2>1
  <2> QED
    BY <2>2 DEF Prefix
<1>8. Prefix(ds, n) = ds
  <2>1. ds = [i \in 1 .. Len(ds) |-> ds[i]]
    BY <1>3, LenProperties
  <2> QED
    BY <1>3, <2>1 DEF Prefix
<1>9. Stacked(path', todo', partition)
  <2>1. \A i \in 1 .. n : \A d \in Taken(c)[i] :
           Size(d) = partition[i] /\ d \in SubPools(Remaining(Prefix(path, i - 1)))
    BY <1>4 DEF Stacked
  <2>2. ASSUME NEW i \in 1 .. n + 1, NEW d \in todo'[i]
        PROVE  Size(d) = partition[i] /\ d \in SubPools(Remaining(Prefix(ds, i - 1)))
    <3>1. CASE i \in 1 .. n
      BY <1>6, <1>7, <2>1, <2>2, <3>1
    <3>2. CASE i = n + 1
      <4>1. i - 1 = n /\ d \in next
        BY <1>2, <1>6, <2>2, <3>2
      <4> QED
        BY <1>5, <1>8, <3>2, <4>1
    <3> QED
      BY <1>2, <3>1, <3>2
  <2>3. n + 1 <= Len(partition)
    BY <1>1, <1>2, <1>3
  <2> QED
    BY <1>1, <1>3, <1>6, <2>2, <2>3 DEF Stacked
<1>10. ASSUME NEW cs \in Divisions[agents],
              Optimal(cs) /\ partition = Shape(cs) /\ Ahead(cs, path, todo)
       PROVE  Ahead(cs, path', todo')
  <2>1. /\ cs \in Seq(Pool) /\ Len(cs) \in Nat /\ Len(partition) = Len(cs) /\ InOrder(cs)
    BY <1>10, SearchedDivision
  <2>2. CASE Ahead(cs, path, Taken(c))
    <3>1. PICK i \in 1 .. n : Agree(path, cs, i) /\ cs[i] \in Taken(c)[i]
      BY <1>4, <2>2 DEF Ahead
    <3>2. \A j \in 1 .. i - 1 : j \in 1 .. Len(path)
      BY <1>2
    <3>3. Agree(ds, cs, i)
      BY <1>3, <3>1, <3>2 DEF Agree
    <3>4. i \in 1 .. n + 1
      BY <1>2
    <3> QED
      BY <1>1, <1>6, <3>1, <3>3, <3>4 DEF Ahead
  <2>3. CASE Agree(path, cs, n) /\ cs[n] = c
    <3>1. n <= Len(cs) /\ n \in 1 .. Len(cs) - 1
      BY <1>1, <1>2, <1>3, <2>1
    <3>2. ds = Prefix(cs, n)
      BY <2>1, <2>3, <3>1, ChosenAreFirst DEF ds, n
    <3>3. cs[n + 1] \in next
      BY <1>2, <1>10, <2>1, <3>1, <3>2, NextCoalitionIsTried DEF next
    <3>4. Agree(ds, cs, n + 1)
      <4>1. n \in 0 .. Len(cs) /\ (n + 1) - 1 = n
        BY <1>2, <2>1, <3>1
      <4>2. \A j \in 1 .. n : Prefix(cs, n)[j] = cs[j]
        BY <2>1, <4>1, PrefixOf
      <4> QED
        BY <3>2, <4>1, <4>2 DEF Agree
    <3>5. n + 1 \in 1 .. n + 1
      BY <1>2
    <3> QED
      BY <1>1, <1>6, <3>3, <3>4, <3>5 DEF Ahead
  <2> QED
    BY <1>10, <2>2, <2>3, TakenAhead DEF n
<1>11. pc' \in {"explore", "check"}
  BY <1>1 DEF Searching
<1> QED
  BY <1>1, <1>9, <1>10, <1>11, SearchContinues

(* A call returns when nothing better is left in it.                       *)
AheadBefore(cs) ==
  \E i \in 1 .. Len(path) : Agree(path, cs, i) /\ cs[i] \in todo[i]

LEMMA ReturnKeeps ==
  ASSUME Searching, Return,
         \A cs \in Divisions[agents] : Optimal(cs) =>
            StructureValue(cs) <= bestValue \/ (partition = Shape(cs) => AheadBefore(cs))
  PROVE  OrganizationInvariant'
<1>1. /\ todo' = Front(todo) /\ path' = (IF path = <<>> THEN path ELSE Front(path))
      /\ pc' = (IF Len(todo) = 1 THEN "round" ELSE "check")
      /\ UNCHANGED problem /\ UNCHANGED <<upperBound, boundMap, partition>>
      /\ best' = best /\ bestValue' = bestValue
  BY DEF Return, result
<1>2. /\ Given /\ partition \in DOMAIN boundMap /\ Stacked(path, todo, partition)
      /\ path \in Seq(Pool) /\ Len(path) \in Nat /\ Len(todo) = Len(path) + 1
      /\ todo \in Seq(SUBSET Pool)
  BY StackIs
<1>3. CASE Len(todo) = 1
  <2>1. pc' = "round" /\ Len(path) = 0
    BY <1>1, <1>2, <1>3
  <2>2. Recorded(best', bestValue') /\ upperBound' \in Nat /\ Mapped(boundMap')
    BY <1>1 DEF Searching, OrganizationInvariant
  <2>3. Located(partition', boundMap', path', todo', pc')
    BY <1>1, <1>2, <2>1 DEF Located
  <2>4. ASSUME NEW cs \in Divisions[agents], Optimal(cs)
        PROVE  Kept(cs, bestValue', upperBound', boundMap', partition', path', todo', pc')
    <3>1. Kept(cs, bestValue, upperBound, boundMap, partition, path, todo, pc)
      BY <2>4 DEF Searching, OrganizationInvariant
    <3>2. ~AheadBefore(cs)
      BY <2>1 DEF AheadBefore
    <3>3. StructureValue(cs) <= bestValue \/ partition # Shape(cs)
      BY <2>4, <3>2
    <3>4. StructureValue(cs) <= bestValue \/ Shape(cs) \in DOMAIN boundMap
      BY <3>1 DEF Kept, Reachable, Searching
    <3> QED
      BY <1>1, <2>1, <3>1, <3>3, <3>4 DEF Kept, Reachable
  <2> QED
    BY <1>1, <2>2, <2>3, <2>4, InvariantCarriesOver DEF Searching
<1>4. CASE Len(todo) # 1
  <2> DEFINE s == Front(path)
             ts == Front(todo)
             k == Len(path) - 1
  <2>1. k \in Nat /\ Len(path) = k + 1 /\ Len(todo) = k + 2 /\ path # <<>> /\ todo # <<>>
    BY <1>2, <1>4
  <2>2. path' = s /\ todo' = ts /\ pc' = "check"
    BY <1>1, <1>4, <2>1
  <2>3. path \in [1 .. k + 1 -> Pool] /\ todo \in [1 .. k + 2 -> SUBSET Pool]
    BY <1>2, <2>1, LenProperties
  <2>4. s = [i \in 1 .. k |-> path[i]] /\ ts = [i \in 1 .. k + 1 |-> todo[i]]
    <3>1. Len(path) - 1 = k /\ Len(todo) - 1 = k + 1
      BY <1>2, <2>1
    <3> QED
      BY <3>1 DEF Front
  <2> HIDE DEF s, ts, k
  <2>5. s \in [1 .. k -> Pool] /\ ts \in [1 .. k + 1 -> SUBSET Pool]
    BY <2>1, <2>3, <2>4
  <2>6. s \in Seq(Pool) /\ Len(s) = k /\ ts \in Seq(SUBSET Pool) /\ Len(ts) = k + 1
    BY <2>1, <2>5
  <2>7. \A i \in 1 .. k : s[i] = path[i]
    BY <2>4
  <2>8. \A i \in 1 .. k + 1 : ts[i] = todo[i]
    BY <2>4
  <2>9. s = Prefix(path, k)
    BY <2>4 DEF Prefix
  <2>10. Fits(path) /\ agents \in Pool
    BY StackIs
  <2>11. Fits(s)
    <3>1. k \in 0 .. Len(path)
      BY <2>1
    <3> QED
      BY <2>9, <2>10, <3>1, PrefixFits
  <2>12. Sized(s, partition, k)
    <3>1. \A i \in 1 .. k : Size(path[i]) = partition[i]
      <4>1. \A i \in 1 .. k : i \in 1 .. Len(path)
        BY <2>1
      <4> QED
        BY <1>2, <4>1 DEF Stacked, Sized
    <3> QED
      BY <2>6, <2>7, <2>11, <3>1 DEF Sized
  <2>13. \A i \in 1 .. k + 1 : Prefix(s, i - 1) = Prefix(path, i - 1)
    <3> TAKE i \in 1 .. k + 1
    <3>1. \A j \in 1 .. i - 1 : j \in 1 .. k
      BY <2>1
    <3>2. \A j \in 1 .. i - 1 : s[j] = path[j]
      BY <2>7, <3>1
    <3> QED
      BY <3>2 DEF Prefix
  <2>14. Stacked(s, ts, partition)
    <3>1. /\ k + 2 <= Len(partition)
          /\ \A i \in 1 .. k + 2 : \A c \in todo[i] :
               Size(c) = partition[i] /\ c \in SubPools(Remaining(Prefix(path, i - 1)))
      BY <1>2, <2>1 DEF Stacked
    <3>2. \A i \in 1 .. k + 1 : \A c \in ts[i] :
               Size(c) = partition[i] /\ c \in SubPools(Remaining(Prefix(s, i - 1)))
      <4> TAKE i \in 1 .. k + 1
      <4>1. i \in 1 .. k + 2
        BY <2>1
      <4> QED
        BY <2>8, <2>13, <3>1, <4>1
    <3>3. Len(partition) \in Nat
      BY StackIs
    <3>4. k + 1 <= Len(partition)
      BY <2>1, <3>1, <3>3
    <3> QED
      BY <2>6, <2>12, <3>2, <3>4 DEF Stacked
  <2>15. ASSUME NEW cs \in Divisions[agents],
                Optimal(cs) /\ partition = Shape(cs) /\ Ahead(cs, path, todo)
         PROVE  StructureValue(cs) <= bestValue' \/ Ahead(cs, path', todo')
    <3>1. StructureValue(cs) <= bestValue \/ AheadBefore(cs)
      BY <2>15
    <3>2. ASSUME AheadBefore(cs) PROVE Ahead(cs, s, ts)
      <4>1. PICK i \in 1 .. k + 1 : Agree(path, cs, i) /\ cs[i] \in todo[i]
        BY <2>1, <3>2 DEF AheadBefore
      <4>2. \A j \in 1 .. i - 1 : j \in 1 .. k
        BY <2>1
      <4>3. Agree(s, cs, i)
        BY <2>7, <4>1, <4>2 DEF Agree
      <4> QED
        BY <2>6, <2>8, <4>1, <4>3 DEF Ahead
    <3> QED
      BY <1>1, <2>2, <3>1, <3>2
  <2>16. pc' \in {"explore", "check"} /\ Stacked(path', todo', partition)
    BY <2>2, <2>14
  <2> QED
    BY <1>1, <2>15, <2>16, SearchContinues
<1> QED
  BY <1>3, <1>4

-----------------------------------------------------------------------------
(* Steps and theorems                                                      *)

LEMMA ExploreKeeps ==
  ASSUME OrganizationInvariant, Explore
  PROVE  OrganizationInvariant'
<1>1. Searching
  BY DEF Explore, Searching
<1>2. ASSUME NEW c \in Last(todo), CompleteStructure(c) PROVE OrganizationInvariant'
  BY <1>1, <1>2, CompleteStructureKeeps
<1>3. ASSUME NEW c \in Last(todo), EnterSubspace(c) PROVE OrganizationInvariant'
  BY <1>1, <1>3, EnterSubspaceKeeps
<1>4. ASSUME NEW c \in Last(todo), SkipSubspace(c) PROVE OrganizationInvariant'
  BY <1>1, <1>4, SkipSubspaceKeeps
<1>5. ASSUME Last(todo) = {}, Return PROVE OrganizationInvariant'
  <2>1. /\ Len(todo) = Len(path) + 1 /\ Len(path) \in Nat /\ Last(todo) = todo[Len(todo)]
    BY <1>1, StackIs
  <2>2. ASSUME NEW cs \in Divisions[agents], Optimal(cs), partition = Shape(cs)
        PROVE  StructureValue(cs) <= bestValue \/ AheadBefore(cs)
    <3>1. Kept(cs, bestValue, upperBound, boundMap, partition, path, todo, pc)
      BY <2>2 DEF OrganizationInvariant
    <3>2. StructureValue(cs) <= bestValue \/ Ahead(cs, path, todo)
      BY <1>1, <2>2, <3>1 DEF Kept, Reachable, Searching
    <3>3. ASSUME Ahead(cs, path, todo) PROVE AheadBefore(cs)
      <4>1. PICK i \in 1 .. Len(todo) : Agree(path, cs, i) /\ cs[i] \in todo[i]
        BY <3>3 DEF Ahead
      <4>2. i # Len(todo)
        BY <1>5, <2>1, <4>1
      <4>3. i \in 1 .. Len(path)
        BY <2>1, <4>2
      <4> QED
        BY <4>1, <4>3 DEF AheadBefore
    <3> QED
      BY <3>2, <3>3
  <2> QED
    BY <1>1, <1>5, <2>2, ReturnKeeps
<1> QED
  BY <1>2, <1>3, <1>4, <1>5 DEF Explore

LEMMA CheckKeeps ==
  ASSUME OrganizationInvariant, Check
  PROVE  OrganizationInvariant'
<1>1. Searching
  BY DEF Check, Searching
<1>2. /\ Given /\ partition \in DOMAIN boundMap /\ Stacked(path, todo, partition)
  BY <1>1, StackIs
<1>3. bestValue \in Nat /\ upperBound \in Nat
  BY RecordedValue DEF OrganizationInvariant
<1>4. ASSUME Sufficient \/ bestValue = bounds[partition].maximum, Return
      PROVE  OrganizationInvariant'
  <2>1. ASSUME NEW cs \in Divisions[agents], Optimal(cs), partition = Shape(cs)
        PROVE  StructureValue(cs) <= bestValue
    <3>1. /\ StructureValue(cs) \in Nat
          /\ StructureValue(cs) <= bounds[Shape(cs)].maximum
      BY <1>2, <2>1, OptimalValue
    <3>2. StructureValue(cs) <= upperBound
      BY <2>1 DEF OrganizationInvariant, Kept
    <3>3. Sufficient => upperBound <= bestValue
      BY DEF Sufficient
    <3>4. Sufficient => StructureValue(cs) <= bestValue
      BY <1>3, <3>1, <3>2, <3>3
    <3> QED
      BY <1>4, <2>1, <3>1, <3>4
  <2>2. \A cs \in Divisions[agents] : Optimal(cs) =>
            StructureValue(cs) <= bestValue \/ (partition = Shape(cs) => AheadBefore(cs))
    BY <2>1
  <2> QED
    BY <1>1, <1>4, <2>2, ReturnKeeps
<1>5. ASSUME pc' = "explore", UNCHANGED <<problem, result, upperBound, boundMap, calls>>
      PROVE  OrganizationInvariant'
  <2>1. /\ UNCHANGED problem /\ UNCHANGED <<upperBound, boundMap, partition>>
        /\ best' = best /\ bestValue' = bestValue /\ path' = path /\ todo' = todo
    BY <1>5 DEF result, calls
  <2>2. pc' \in {"explore", "check"} /\ Stacked(path', todo', partition)
    BY <1>2, <1>5, <2>1
  <2>3. \A cs \in Divisions[agents] :
            Optimal(cs) /\ partition = Shape(cs) /\ Ahead(cs, path, todo) =>
              StructureValue(cs) <= bestValue' \/ Ahead(cs, path', todo')
    BY <2>1
  <2> QED
    BY <1>1, <2>1, <2>2, <2>3, SearchContinues
<1> QED
  BY <1>4, <1>5 DEF Check

LEMMA StutterKeeps ==
  ASSUME OrganizationInvariant, UNCHANGED vars
  PROVE  OrganizationInvariant'
<1>1. /\ UNCHANGED problem /\ best' = best /\ bestValue' = bestValue
      /\ upperBound' = upperBound /\ boundMap' = boundMap /\ partition' = partition
      /\ path' = path /\ todo' = todo /\ pc' = pc
  BY DEF vars, result, calls
<1>2. Recorded(best', bestValue') /\ upperBound' \in Nat /\ Mapped(boundMap')
  BY <1>1 DEF OrganizationInvariant
<1>3. Located(partition', boundMap', path', todo', pc')
  BY <1>1 DEF OrganizationInvariant
<1>4. \A cs \in Divisions[agents] : Optimal(cs) =>
        Kept(cs, bestValue', upperBound', boundMap', partition', path', todo', pc')
  BY <1>1 DEF OrganizationInvariant
<1> QED
  BY <1>1, <1>2, <1>3, <1>4, InvariantCarriesOver

(* The records of the search are right throughout: the best structure is a *)
(* division of the agents of the value recorded with it, the upper bound is*)
(* one, and as long as a better division exists its partition is left and, *)
(* while that is searched, one of the calls of searchSubspace still has    *)
(* its next coalition to try.                                              *)
THEOREM OrganizationInvariantHolds == Spec => []OrganizationInvariant
<1>1. Init => OrganizationInvariant
  BY InvariantStarts
<1>2. ASSUME OrganizationInvariant, [Next]_vars PROVE OrganizationInvariant'
  <2>1. CASE FindBest
    BY <1>2, <2>1, FindBestKeeps
  <2>2. CASE SelectPartition
    BY <1>2, <2>2, SelectPartitionKeeps
  <2>3. CASE Explore
    BY <1>2, <2>3, ExploreKeeps
  <2>4. CASE Check
    BY <1>2, <2>4, CheckKeeps
  <2>5. CASE FinishRound
    BY <1>2, <2>5, FinishRoundKeeps
  <2>6. CASE UNCHANGED vars
    BY <1>2, <2>6, StutterKeeps
  <2> QED
    BY <1>2, <2>1, <2>2, <2>3, <2>4, <2>5, <2>6 DEF Next
<1> QED
  BY <1>1, <1>2, PTL DEF Spec

LEMMA DoneIsBest ==
  ASSUME OrganizationInvariant
  PROVE  FoundIsBest
<1> SUFFICES ASSUME pc = "done"
             PROVE  /\ \A cs \in Divisions[agents] : StructureValue(cs) <= bestValue
                    /\ IF bestValue = 0 THEN best = <<>>
                       ELSE best \in Divisions[agents] /\ StructureValue(best) = bestValue
  BY DEF FoundIsBest
<1>1. Given /\ Recorded(best, bestValue) /\ bestValue \in Nat
  BY RecordedValue DEF OrganizationInvariant
<1>2. ASSUME NEW cs \in Divisions[agents] PROVE StructureValue(cs) <= bestValue
  <2>1. PICK ds : Optimal(ds) /\ StructureValue(cs) <= StructureValue(ds)
    BY <1>1, OptimalExists
  <2>2. ds \in Divisions[agents]
    BY <2>1 DEF Optimal
  <2>3. StructureValue(ds) <= bestValue
    BY <2>1, <2>2 DEF OrganizationInvariant, Kept, Reachable
  <2>4. StructureValue(cs) \in Nat /\ StructureValue(ds) \in Nat
    BY <1>1, <2>2, DivisionIsWorth
  <2> QED
    BY <1>1, <2>1, <2>3, <2>4
<1> QED
  BY <1>1, <1>2 DEF Recorded

(* When the search is done, no division of the agents is worth more than   *)
(* what it found, and what it found is a division of that value, or none   *)
(* if every division is infeasible: pruned partitions, skipped subspaces   *)
(* and orders of equal coalitions that were never tried lose nothing.      *)
THEOREM FoundBest == Spec => []FoundIsBest
<1>1. OrganizationInvariant => FoundIsBest
  BY DoneIsBest
<1> QED
  BY <1>1, OrganizationInvariantHolds, PTL
=================================================================================
