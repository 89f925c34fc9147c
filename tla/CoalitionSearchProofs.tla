------------------------ MODULE CoalitionSearchProofs ------------------------
(***************************************************************************)
(* Proofs about CoalitionSearch, for every set of threads, every search    *)
(* space and every quality the assumptions of that module admit; and that  *)
(* what it assumes of its search space holds of the one CoalitionStructures*)
(* computes, for any number of agents and any values of coalitions: the    *)
(* bounds bound, averages are reached, and the alpha rule leaves an order  *)
(* of every structure.                                                     *)
(***************************************************************************)
EXTENDS CoalitionSearch, MCCoalitionStructures, FiniteSums, SequenceTheorems

(* Multiplying by a quality keeps the order.                               *)
LEMMA ProductMonotone ==
  ASSUME NEW a \in Int, NEW b \in Int, NEW n \in Nat, a <= b
  PROVE  a * n <= b * n
<1>1. b - a \in Nat
  OBVIOUS
<1>2. (b - a) * n >= 0
  BY <1>1
<1>3. (b - a) * n = b * n - a * n
  OBVIOUS
<1> QED
  BY <1>2, <1>3

(* A value at least as large as a sufficient one is sufficient.            *)
LEMMA SufficientMonotone ==
  ASSUME NEW v \in Nat, NEW w \in Nat, v <= w, Sufficient(v)
  PROVE  Sufficient(w)
<1> SUFFICES ASSUME NEW cs \in Structure
             PROVE  StructureValue[cs] * QualityDen <= w * QualityNum
  BY DEF Sufficient
<1>1. StructureValue[cs] * QualityDen <= v * QualityNum
  BY DEF Sufficient
<1>2. v * QualityNum <= w * QualityNum
  BY ProductMonotone, QualityAssumption
<1>3. StructureValue[cs] * QualityDen \in Int /\ v * QualityNum \in Int /\ w * QualityNum \in Int
  BY QualityAssumption, SpaceAssumption
<1> QED
  BY <1>1, <1>2, <1>3

(* The value of an optimal structure is sufficient whatever the quality.   *)
LEMMA OptimumSufficient ==
  ASSUME NEW v \in Nat, NEW best \in Optima, StructureValue[best] <= v
  PROVE  Sufficient(v)
<1> SUFFICES ASSUME NEW cs \in Structure
             PROVE  StructureValue[cs] * QualityDen <= v * QualityNum
  BY DEF Sufficient
<1>1. StructureValue[cs] \in Int /\ StructureValue[best] \in Int
  BY SpaceAssumption DEF Optima
<1>2. StructureValue[cs] <= v
  BY <1>1 DEF Optima
<1>3. StructureValue[cs] * QualityDen <= v * QualityDen
  BY <1>1, <1>2, ProductMonotone, QualityAssumption
<1>4. QualityDen * v <= QualityNum * v
  BY ProductMonotone, QualityAssumption
<1>5. /\ v * QualityDen = QualityDen * v
      /\ v * QualityNum = QualityNum * v
      /\ StructureValue[cs] * QualityDen \in Int
      /\ v * QualityDen \in Int /\ v * QualityNum \in Int
  BY <1>1, QualityAssumption
<1> QED
  BY <1>3, <1>4, <1>5

(* A value within the quality of an upper bound is sufficient.             *)
LEMMA QualitySufficient ==
  ASSUME NEW v \in Nat, NEW bound \in Nat, IsUpperBound(bound),
         WithinQuality(bound, v)
  PROVE  Sufficient(v)
<1> SUFFICES ASSUME NEW cs \in Structure
             PROVE  StructureValue[cs] * QualityDen <= v * QualityNum
  BY DEF Sufficient
<1>1. StructureValue[cs] \in Int /\ StructureValue[cs] <= bound
  BY SpaceAssumption DEF IsUpperBound
<1>2. StructureValue[cs] * QualityDen <= bound * QualityDen
  BY <1>1, ProductMonotone, QualityAssumption
<1>3. bound * QualityDen <= v * QualityNum
  BY DEF WithinQuality
<1>4. /\ StructureValue[cs] * QualityDen \in Int
      /\ bound * QualityDen \in Int /\ v * QualityNum \in Int
  BY <1>1, QualityAssumption
<1> QED
  BY <1>2, <1>3, <1>4

(* The value of an optimal structure bounds every structure.               *)
LEMMA OptimumIsBound ==
  ASSUME NEW b \in Int, NEW best \in Optima, StructureValue[best] <= b
  PROVE  IsUpperBound(b)
<1> SUFFICES ASSUME NEW cs \in Structure
             PROVE  StructureValue[cs] <= b
  BY DEF IsUpperBound
<1>1. StructureValue[cs] \in Int /\ StructureValue[best] \in Int
  BY SpaceAssumption DEF Optima
<1> QED
  BY <1>1 DEF Optima

(* Extending a partial structure by one of its choices.                    *)
LEMMA Extension ==
  ASSUME NEW p \in Partition, NEW cs \in Seq(Coalitions), IsPartial(p, cs),
         Len(cs) < Length[p], NEW c \in Choice[p][cs]
  PROVE  /\ c \in Coalitions
         /\ Append(cs, c) \in Seq(Coalitions)
         /\ Len(Append(cs, c)) = Len(cs) + 1
         /\ Append(cs, c) \in [1 .. Len(cs) + 1 -> Coalitions]
         /\ \A i \in 1 .. Len(cs) : Append(cs, c)[i] = cs[i]
         /\ Append(cs, c)[Len(cs) + 1] = c
         /\ \A i \in 0 .. Len(cs) : Prefix(Append(cs, c), i) = Prefix(cs, i)
         /\ Prefix(cs, Len(cs)) = cs
         /\ IsPartial(p, Append(cs, c))
<1> DEFINE n == Len(cs)
           e == Append(cs, c)
<1>1. /\ n \in Nat /\ n \in 0 .. Length[p] - 1
      /\ cs \in [1 .. n -> Coalitions]
  BY SpaceAssumption
<1>2. c \in Coalitions
  BY <1>1, SpaceAssumption
<1>3. /\ e \in Seq(Coalitions) /\ Len(e) = n + 1
      /\ e \in [1 .. n + 1 -> Coalitions]
      /\ \A i \in 1 .. n : e[i] = cs[i]
      /\ e[n + 1] = c
  <2>1. /\ e \in Seq(Coalitions) /\ Len(e) = n + 1
        /\ \A i \in 1 .. n : e[i] = cs[i]
        /\ e[n + 1] = c
    BY <1>2, AppendProperties
  <2>2. e \in [1 .. Len(e) -> Coalitions]
    BY <2>1, LenProperties
  <2> HIDE DEF e, n
  <2> QED
    BY <2>1, <2>2
<1>4. \A i \in 0 .. n : Prefix(e, i) = Prefix(cs, i)
  BY <1>1, <1>3 DEF Prefix
<1>5. Prefix(cs, n) = cs
  BY <1>1 DEF Prefix
<1>6. IsPartial(p, e)
  <2> SUFFICES ASSUME NEW i \in 1 .. n + 1
               PROVE  e[i] \in Choice[p][Prefix(e, i - 1)]
    BY <1>3 DEF IsPartial
  <2>1. CASE i \in 1 .. n
    <3>1. cs[i] \in Choice[p][Prefix(cs, i - 1)]
      BY <1>1, <2>1 DEF IsPartial
    <3> QED
      BY <1>1, <1>3, <1>4, <2>1, <3>1
  <2>2. CASE i = n + 1
    BY <1>1, <1>3, <1>4, <1>5, <2>2
  <2> QED
    BY <2>1, <2>2, <1>1
<1> QED
  BY <1>2, <1>3, <1>4, <1>5, <1>6

(* What may follow a partial structure are coalitions.                     *)
LEMMA ChoiceType ==
  ASSUME NEW p \in Partition, NEW cs \in Seq(Coalitions), IsPartial(p, cs),
         Len(cs) < Length[p]
  PROVE  Choice[p][cs] \subseteq Coalitions
<1>1. Len(cs) \in 0 .. Length[p] - 1 /\ cs \in [1 .. Len(cs) -> Coalitions]
  BY SpaceAssumption, LenProperties
<1> QED
  BY <1>1, SpaceAssumption

(* A partial structure of full length is a structure.                      *)
LEMMA FullLength ==
  ASSUME NEW p \in Partition, NEW cs \in Seq(Coalitions), IsPartial(p, cs),
         Len(cs) = Length[p]
  PROVE  cs \in Structures[p] /\ cs \in Structure /\ StructureValue[cs] \in Int
<1>1. cs \in [1 .. Length[p] -> Coalitions]
  OBVIOUS
<1>2. cs \in Structures[p]
  BY <1>1 DEF Structures
<1> QED
  BY <1>2, SpaceAssumption DEF Structure

(* Dropping the last coalition of a partial structure.                     *)
LEMMA Shortening ==
  ASSUME NEW p \in Partition, NEW cs \in Seq(Coalitions), IsPartial(p, cs),
         Len(cs) > 0
  PROVE  /\ SubSeq(cs, 1, Len(cs) - 1) \in Seq(Coalitions)
         /\ Len(SubSeq(cs, 1, Len(cs) - 1)) = Len(cs) - 1
         /\ \A i \in 1 .. Len(cs) - 1 : SubSeq(cs, 1, Len(cs) - 1)[i] = cs[i]
         /\ \A i \in 0 .. Len(cs) - 1 :
               Prefix(SubSeq(cs, 1, Len(cs) - 1), i) = Prefix(cs, i)
         /\ IsPartial(p, SubSeq(cs, 1, Len(cs) - 1))
<1> DEFINE n == Len(cs) - 1
           s == SubSeq(cs, 1, n)
<1>1. n \in Nat /\ n + 1 = Len(cs) /\ cs \in [1 .. n + 1 -> Coalitions]
  BY LenProperties
<1>2. /\ s \in Seq(Coalitions) /\ Len(s) = n
      /\ \A i \in 1 .. n : s[i] = cs[i]
  <2>1. \A i \in 1 .. n : cs[i] \in Coalitions
    BY <1>1
  <2>2. /\ s \in Seq(Coalitions)
        /\ Len(s) = IF 1 <= n THEN n - 1 + 1 ELSE 0
        /\ \A i \in 1 .. n - 1 + 1 : s[i] = cs[1 + i - 1]
    BY <1>1, <2>1, SubSeqProperties
  <2> HIDE DEF s, n
  <2> QED
    BY <1>1, <2>2
<1>3. \A i \in 0 .. n : Prefix(s, i) = Prefix(cs, i)
  <2> HIDE DEF s, n
  <2> QED
    BY <1>1, <1>2 DEF Prefix
<1>4. IsPartial(p, s)
  <2> HIDE DEF s, n
  <2>1. DOMAIN s = 1 .. n
    BY <1>2, LenProperties
  <2> SUFFICES ASSUME NEW i \in 1 .. n
               PROVE  s[i] \in Choice[p][Prefix(s, i - 1)]
    BY <2>1 DEF IsPartial
  <2>2. cs[i] \in Choice[p][Prefix(cs, i - 1)]
    BY <1>1 DEF IsPartial
  <2> QED
    BY <1>1, <1>2, <1>3, <2>2
<1> QED
  BY <1>1, <1>2, <1>3, <1>4

(* The empty prefix is the empty sequence.                                 *)
LEMMA EmptyPrefix ==
  ASSUME NEW cs
  PROVE  Prefix(cs, 0) = <<>>
BY DEF Prefix

(* A stack of choices loses its topmost set and stays a stack of choices.  *)
LEMMA StackShortening ==
  ASSUME NEW S, NEW stack \in Seq(S), Len(stack) > 0
  PROVE  /\ SubSeq(stack, 1, Len(stack) - 1) \in Seq(S)
         /\ Len(SubSeq(stack, 1, Len(stack) - 1)) = Len(stack) - 1
         /\ \A i \in 1 .. Len(stack) - 1 :
               SubSeq(stack, 1, Len(stack) - 1)[i] = stack[i]
<1> DEFINE n == Len(stack) - 1
           s == SubSeq(stack, 1, n)
<1>1. n \in Nat /\ n + 1 = Len(stack) /\ stack \in [1 .. n + 1 -> S]
  BY LenProperties
<1>2. \A i \in 1 .. n : stack[i] \in S
  BY <1>1
<1>3. /\ s \in Seq(S)
      /\ Len(s) = IF 1 <= n THEN n - 1 + 1 ELSE 0
      /\ \A i \in 1 .. n - 1 + 1 : s[i] = stack[1 + i - 1]
  BY <1>1, <1>2, SubSeqProperties
<1> HIDE DEF s, n
<1> QED
  BY <1>1, <1>3 DEF s, n

-----------------------------------------------------------------------------
(* Type correctness                                                        *)

(* What the call stack says of a thread inside searchSubspace: the deepest *)
(* call holds choices for the current partial structure.                   *)
LEMMA InSubspace ==
  ASSUME TypeOK, NEW t \in Searcher, CallStack(t), todo[t] # <<>>
  PROVE  /\ partition[t] \in Partition
         /\ Len(todo[t]) \in 1 .. Length[partition[t]]
         /\ Length[partition[t]] \in Nat
         /\ path[t] \in Seq(Coalitions) /\ IsPartial(partition[t], path[t])
         /\ todo[t] \in Seq(SUBSET Coalitions)
         /\ pc[t] = "update" => Len(path[t]) = Len(todo[t]) /\ Len(todo[t]) = Length[partition[t]]
         /\ pc[t] # "update" => Len(path[t]) + 1 = Len(todo[t])
         /\ \A i \in 1 .. Len(todo[t]) :
               todo[t][i] \subseteq Choice[partition[t]][Prefix(path[t], i - 1)]
<1>1. path[t] \in Seq(Coalitions) /\ todo[t] \in Seq(SUBSET Coalitions)
  BY DEF TypeOK
<1>2. Len(todo[t]) \in Nat \ {0}
  BY <1>1, EmptySeq
<1>3. partition[t] \in Partition /\ Length[partition[t]] \in Nat
  BY SpaceAssumption DEF CallStack
<1> QED
  BY <1>1, <1>2, <1>3 DEF CallStack

(* What a combination of the deepest call extends the partial structure to.*)
LEMMA Combination ==
  ASSUME TypeOK, NEW t \in Searcher, CallStack(t), pc[t] = "explore",
         NEW c \in Upcoming(todo[t][Deepest(t)])
  PROVE  /\ todo[t] # <<>>
         /\ Len(path[t]) + 1 = Len(todo[t])
         /\ c \in todo[t][Len(todo[t])]
         /\ c \in Choice[partition[t]][path[t]]
         /\ Append(path[t], c) \in Seq(Coalitions)
         /\ Len(Append(path[t], c)) = Len(todo[t])
         /\ Append(path[t], c) \in [1 .. Len(todo[t]) -> Coalitions]
         /\ \A i \in 1 .. Len(path[t]) : Append(path[t], c)[i] = path[t][i]
         /\ Append(path[t], c)[Len(todo[t])] = c
         /\ \A i \in 0 .. Len(path[t]) : Prefix(Append(path[t], c), i) = Prefix(path[t], i)
         /\ Prefix(path[t], Len(path[t])) = path[t]
         /\ IsPartial(partition[t], Append(path[t], c))
<1> DEFINE p == partition[t]
           cs == path[t]
           d == Len(todo[t])
<1>1. todo[t] # <<>>
  BY DEF CallStack
<1>2. /\ p \in Partition /\ d \in 1 .. Length[p] /\ Length[p] \in Nat
      /\ cs \in Seq(Coalitions) /\ IsPartial(p, cs)
      /\ Len(cs) + 1 = d
      /\ todo[t] \in Seq(SUBSET Coalitions)
      /\ todo[t][d] \subseteq Choice[p][Prefix(cs, d - 1)]
  BY <1>1, InSubspace
<1>3. Len(cs) \in Nat /\ cs \in [1 .. Len(cs) -> Coalitions]
  BY <1>2, LenProperties
<1>4. todo[t][d] \in SUBSET Coalitions
  BY <1>2, ElementOfSeq
<1>5. c \in todo[t][d]
  BY <1>4, SpaceAssumption DEF Deepest
<1>6. Prefix(cs, d - 1) = cs
  BY <1>2, <1>3 DEF Prefix
<1>7. c \in Choice[p][cs] /\ Len(cs) < Length[p]
  BY <1>2, <1>3, <1>5, <1>6
<1> HIDE DEF p, cs, d
<1>8. /\ Append(cs, c) \in Seq(Coalitions)
      /\ Len(Append(cs, c)) = Len(cs) + 1
      /\ Append(cs, c) \in [1 .. Len(cs) + 1 -> Coalitions]
      /\ \A i \in 1 .. Len(cs) : Append(cs, c)[i] = cs[i]
      /\ Append(cs, c)[Len(cs) + 1] = c
      /\ \A i \in 0 .. Len(cs) : Prefix(Append(cs, c), i) = Prefix(cs, i)
      /\ Prefix(cs, Len(cs)) = cs
      /\ IsPartial(p, Append(cs, c))
  BY <1>2, <1>7, Extension
<1> QED
  BY <1>1, <1>2, <1>5, <1>7, <1>8 DEF p, cs, d

(* The initial values are of their types.                                  *)
LEMMA TypeInit == Init => TypeOK
<1> SUFFICES ASSUME Init PROVE TypeOK
  OBVIOUS
<1>1. PreparedStatistics \in [pruned : SUBSET Partition, searched : SUBSET Partition]
  BY DEF PreparedStatistics
<1>2. <<>> \in Seq(Coalitions) /\ <<>> \in Seq(SUBSET Coalitions)
  BY EmptySeq
<1> QED
  BY <1>1, <1>2, BoundAssumption DEF Init, TypeOK, Searcher, Labels

(* What Return does to the stack keeps its type.                           *)
LEMMA TypeReturn ==
  ASSUME TypeOK, NEW t \in Searcher, CallStack(t), todo[t] # <<>>,
         pc[t] # "update", Return(t)
  PROVE  /\ pc' \in [Searcher -> Labels]
         /\ open' \in [Searcher -> SUBSET Partition]
         /\ path' \in [Searcher -> Seq(Coalitions)]
         /\ todo' \in [Searcher -> Seq(SUBSET Coalitions)]
<1>1. /\ path[t] \in Seq(Coalitions) /\ todo[t] \in Seq(SUBSET Coalitions)
      /\ Len(path[t]) + 1 = Len(todo[t]) /\ Len(todo[t]) \in Nat
      /\ IsPartial(partition[t], path[t]) /\ partition[t] \in Partition
  BY InSubspace, LenProperties
<1>2. CASE Deepest(t) > 1
  <2>1. SubSeq(path[t], 1, Len(path[t]) - 1) \in Seq(Coalitions)
    BY <1>1, <1>2, Shortening DEF Deepest
  <2>2. SubSeq(todo[t], 1, Len(todo[t]) - 1) \in Seq(SUBSET Coalitions)
    BY <1>1, <1>2, StackShortening DEF Deepest
  <2> QED
    BY <1>2, <2>1, <2>2 DEF Return, TypeOK, Goto, Labels
<1>3. CASE ~(Deepest(t) > 1)
  <2>1. <<>> \in Seq(SUBSET Coalitions)
    BY EmptySeq
  <2>2. CASE improved[t]
    BY <1>3, <2>1, <2>2, ZenonT(40) DEF Return, TypeOK, Goto, Labels
  <2>3. CASE ~improved[t]
    <3>1. /\ todo' = [todo EXCEPT ![t] = <<>>] /\ path' = path
          /\ pc' = [pc EXCEPT ![t] = "bound"]
          /\ open' = [open EXCEPT ![t] = @ \ {partition[t]}]
      BY <1>3, <2>3 DEF Return, Goto
    <3> QED
      BY <2>1, <3>1 DEF TypeOK, Labels
  <2> QED
    BY <2>2, <2>3
<1> QED
  BY <1>2, <1>3

(* A step of a search keeps the types.                                     *)
LEMMA TypeSearchStep ==
  ASSUME TypeOK, NEW t \in Searcher, CallStack(t), SearchStep(t)
  PROVE  TypeOK'
<1> USE DEF TypeOK, Goto, Labels
<1>1. CASE Prune(t)
  BY <1>1 DEF Prune, Dominated, threads
<1>2. CASE ComputeBound(t)
  <2>1. UpperCandidates(t) \subseteq Nat
    BY BoundAssumption DEF UpperCandidates, UpperOf
  <2> QED
    BY <1>2, <2>1 DEF ComputeBound, shared, threads
<1>3. CASE PublishBound(t)
  BY <1>3 DEF PublishBound, threads
<1>4. CASE SelectPartition(t)
  <2>1. PICK p \in open[t] :
          /\ partition' = [partition EXCEPT ![t] = p]
          /\ todo' = [todo EXCEPT ![t] = <<Choice[p][<<>>]>>]
          /\ statistics' = [statistics EXCEPT !.searched = @ \cup {p}]
    BY <1>4 DEF SelectPartition
  <2>2. p \in Partition
    OBVIOUS
  <2>3. Choice[p][<<>>] \subseteq Coalitions
    <3>1. 0 \in 0 .. Length[p] - 1 /\ <<>> \in [1 .. 0 -> Coalitions]
      BY <2>2, SpaceAssumption
    <3>2. IsPartial(p, <<>>)
      BY DEF IsPartial
    <3> QED
      BY <2>2, <3>1, <3>2, SpaceAssumption
  <2>4. <<Choice[p][<<>>]>> \in Seq(SUBSET Coalitions) /\ <<>> \in Seq(Coalitions)
    BY <2>3
  <2> QED
    BY <1>4, <2>1, <2>2, <2>4 DEF SelectPartition, threads
<1>5. CASE Rebound(t)
  BY <1>5 DEF Rebound, shared, threads
<1>6. CASE Complete(t)
  BY <1>6 DEF Complete, threads
<1>7. CASE Explore(t)
  <2>1. PICK c \in Upcoming(todo[t][Deepest(t)]) :
          LET p == partition[t]
              extended == Append(path[t], c)
              rest == [todo[t] EXCEPT ![Deepest(t)] = @ \ {c}]
          IN \/ /\ todo' = [todo EXCEPT ![t] = rest]
                /\ \/ path' = [path EXCEPT ![t] = extended] /\ Goto(t, "update")
                   \/ Goto(t, "quality") /\ UNCHANGED path
             \/ /\ Len(extended) < Length[p]
                /\ path' = [path EXCEPT ![t] = extended]
                /\ todo' = [todo EXCEPT ![t] = Append(rest, Choice[p][extended])]
                /\ UNCHANGED pc
    BY <1>7 DEF Explore, Without
  <2> DEFINE p == partition[t]
             e == Append(path[t], c)
             rest == [todo[t] EXCEPT ![Deepest(t)] = @ \ {c}]
  <2>2. /\ todo[t] # <<>> /\ e \in Seq(Coalitions) /\ Len(e) = Len(todo[t])
        /\ e \in [1 .. Len(e) -> Coalitions] /\ IsPartial(p, e)
    BY <1>7, Combination, SMTT(30) DEF Explore
  <2>3. /\ p \in Partition /\ Len(todo[t]) \in 1 .. Length[p] /\ Length[p] \in Nat
        /\ todo[t] \in Seq(SUBSET Coalitions)
    BY <2>2, InSubspace
  <2>4. rest \in Seq(SUBSET Coalitions)
    <3>1. todo[t][Len(todo[t])] \ {c} \in SUBSET Coalitions
      BY <2>3, ElementOfSeq
    <3> QED
      BY <2>3, <3>1, ExceptSeq DEF Deepest
  <2>5. ASSUME Len(e) < Length[p]
        PROVE  Append(rest, Choice[p][e]) \in Seq(SUBSET Coalitions)
    <3>1. Choice[p][e] \in SUBSET Coalitions
      BY <2>2, <2>3, <2>5, ChoiceType
    <3> QED
      BY <2>4, <3>1, AppendProperties
  <2> HIDE DEF e, rest
  <2>6. \/ /\ todo' = [todo EXCEPT ![t] = rest]
           /\ \/ path' = [path EXCEPT ![t] = e] /\ pc' = [pc EXCEPT ![t] = "update"]
              \/ pc' = [pc EXCEPT ![t] = "quality"] /\ path' = path
        \/ /\ Len(e) < Length[p]
           /\ path' = [path EXCEPT ![t] = e]
           /\ todo' = [todo EXCEPT ![t] = Append(rest, Choice[p][e])]
           /\ pc' = pc
    BY <2>1 DEF e, rest
  <2>7. path' \in [Searcher -> Seq(Coalitions)] /\ pc' \in [Searcher -> Labels]
    BY <2>2, <2>6, ZenonT(40)
  <2>8. todo' \in [Searcher -> Seq(SUBSET Coalitions)]
    BY <2>4, <2>5, <2>6, ZenonT(40)
  <2> QED
    BY <1>7, <2>7, <2>8 DEF Explore, shared, threads
<1>8. CASE Update(t)
  <2>1. todo[t] # <<>> /\ pc[t] = "update"
    BY <1>8 DEF Update, CallStack
  <2>2. /\ partition[t] \in Partition /\ path[t] \in Seq(Coalitions)
        /\ IsPartial(partition[t], path[t]) /\ Len(path[t]) = Length[partition[t]]
        /\ Len(path[t]) > 0
    BY <2>1, InSubspace, SMTT(30)
  <2>3. path[t] \in Structure /\ StructureValue[path[t]] \in Int
    BY <2>2, FullLength
  <2>4. SubSeq(path[t], 1, Len(path[t]) - 1) \in Seq(Coalitions)
    BY <2>2, Shortening
  <2>5. bestValue' \in Nat /\ bestStructure' \in Structure \cup {<<>>}
        /\ improved' \in [Searcher -> BOOLEAN]
    <3>1. CASE StructureValue[path[t]] > bestValue
      <4>1. /\ bestValue' = StructureValue[path[t]] /\ bestStructure' = path[t]
            /\ improved' = [improved EXCEPT ![t] = TRUE]
        BY <1>8, <3>1 DEF Update
      <4> QED
        BY <2>3, <3>1, <4>1
    <3>2. CASE ~(StructureValue[path[t]] > bestValue)
      BY <1>8, <3>2 DEF Update
    <3> QED
      BY <3>1, <3>2
  <2> QED
    BY <1>8, <2>4, <2>5 DEF Update, threads
<1>9. CASE LoadForQuality(t)
  <2>1. loaded' \in [Searcher -> Nat] /\ pc' \in [Searcher -> Labels]
    <3>1. CASE loaded' = [loaded EXCEPT ![t] = bestValue] /\ Goto(t, "loadedValue")
      BY <3>1
    <3>2. CASE loaded' = [loaded EXCEPT ![t] = globalUpperBound] /\ Goto(t, "loadedBound")
      BY <3>2
    <3> QED
      BY <1>9, <3>1, <3>2 DEF LoadForQuality
  <2> QED
    BY <1>9, <2>1 DEF LoadForQuality, shared, threads
<1>10. CASE JudgeQuality(t)
  <2>1. CASE todo[t] = <<>>
    BY <1>10, <2>1 DEF JudgeQuality, shared, threads
  <2>2. CASE todo[t] # <<>>
    <3>1. CASE Return(t)
      <4>1. pc[t] # "update"
        BY <1>10 DEF JudgeQuality
      <4> QED
        BY <1>10, <2>2, <3>1, <4>1, TypeReturn DEF JudgeQuality, shared, threads
    <3>2. CASE Goto(t, "saturation") /\ UNCHANGED <<open, path, todo>>
      BY <1>10, <3>2 DEF JudgeQuality, shared, threads
    <3> QED
      BY <1>10, <2>2, <3>1, <3>2 DEF JudgeQuality
  <2> QED
    BY <2>1, <2>2
<1>11. CASE CheckSaturation(t)
  <2>1. todo[t] # <<>> /\ pc[t] # "update"
    BY <1>11 DEF CheckSaturation, CallStack
  <2>2. CASE Return(t)
    BY <1>11, <2>1, <2>2, TypeReturn DEF CheckSaturation, shared, threads
  <2>3. CASE Goto(t, "explore") /\ UNCHANGED <<open, path, todo>>
    BY <1>11, <2>3 DEF CheckSaturation, shared, threads
  <2> QED
    BY <1>11, <2>2, <2>3 DEF CheckSaturation
<1>12. CASE Exhaust(t)
  <2>1. todo[t] # <<>> /\ pc[t] # "update"
    BY <1>12 DEF Exhaust, CallStack
  <2> QED
    BY <1>12, <2>1, TypeReturn DEF Exhaust, shared, threads
<1> QED
  BY <1>1, <1>2, <1>3, <1>4, <1>5, <1>6, <1>7, <1>8, <1>9, <1>10, <1>11, <1>12
     DEF SearchStep

-----------------------------------------------------------------------------
(* What one thread's step means for another                                *)

Untouched(u) ==
  /\ pc'[u] = pc[u] /\ open'[u] = open[u] /\ exact'[u] = exact[u]
  /\ partition'[u] = partition[u] /\ path'[u] = path[u] /\ todo'[u] = todo[u]
  /\ loaded'[u] = loaded[u]

(* A step of one search leaves the stack of every other alone.             *)
LEMMA OthersUntouched ==
  ASSUME TypeOK, NEW t \in Searcher, NEW u \in Searcher, u # t, SearchStep(t)
  PROVE  Untouched(u)
<1> USE DEF TypeOK, Goto, Untouched
<1>1. CASE Prune(t)
  BY <1>1 DEF Prune
<1>2. CASE ComputeBound(t)
  BY <1>2 DEF ComputeBound
<1>3. CASE PublishBound(t)
  BY <1>3 DEF PublishBound
<1>4. CASE SelectPartition(t)
  BY <1>4 DEF SelectPartition
<1>5. CASE Rebound(t)
  BY <1>5 DEF Rebound
<1>6. CASE Complete(t)
  BY <1>6 DEF Complete
<1>7. CASE Explore(t)
  BY <1>7 DEF Explore
<1>8. CASE Update(t)
  BY <1>8 DEF Update
<1>9. CASE LoadForQuality(t)
  BY <1>9 DEF LoadForQuality
<1>10. CASE JudgeQuality(t)
  BY <1>10 DEF JudgeQuality, Return
<1>11. CASE CheckSaturation(t)
  BY <1>11 DEF CheckSaturation, Return
<1>12. CASE Exhaust(t)
  BY <1>12 DEF Exhaust, Return
<1> QED
  BY <1>1, <1>2, <1>3, <1>4, <1>5, <1>6, <1>7, <1>8, <1>9, <1>10, <1>11, <1>12
     DEF SearchStep

(* A search never lowers the best value, and writes it only to store a     *)
(* structure.                                                              *)
LEMMA BestGrows ==
  ASSUME TypeOK, TypeOK', NEW t \in Searcher, SearchStep(t)
  PROVE  /\ bestValue <= bestValue'
         /\ ~Update(t) => UNCHANGED <<bestValue, bestStructure>>
<1>1. CASE Update(t)
  <2>1. bestValue \in Nat /\ bestValue' \in Nat
    BY DEF TypeOK
  <2>2. bestValue' > bestValue \/ bestValue' = bestValue
    BY <1>1 DEF Update
  <2> QED
    BY <1>1, <2>1, <2>2
<1>2. CASE ~Update(t)
  <2>1. UNCHANGED <<bestValue, bestStructure>>
    BY <1>2 DEF SearchStep, Prune, ComputeBound, PublishBound, SelectPartition,
       Rebound, Complete, Explore, LoadForQuality, JudgeQuality,
       CheckSaturation, Exhaust, shared
  <2> QED
    BY <2>1 DEF TypeOK
<1> QED
  BY <1>1, <1>2

(* While the best value is not sufficient, the optimum is worth more.      *)
LEMMA NotYet ==
  ASSUME NEW v \in Nat, ~Sufficient(v), NEW best \in Optima
  PROVE  /\ StructureValue[best] \in Int /\ v < StructureValue[best]
         /\ \E p \in Partition : best \in Structures[p]
<1>1. StructureValue[best] \in Int /\ \E p \in Partition : best \in Structures[p]
  BY SpaceAssumption DEF Optima, Structure
<1>2. ~(StructureValue[best] <= v)
  BY OptimumSufficient
<1> QED
  BY <1>1, <1>2

(* The other threads keep their part of the invariant.                     *)
LEMMA OtherThread ==
  ASSUME TypeOK, TypeOK', NEW u \in Searcher, ThreadInvariant(u), Untouched(u),
         bestValue <= bestValue'
  PROVE  ThreadInvariant(u)'
<1>1. GoodEnough => GoodEnough'
  BY SufficientMonotone DEF TypeOK, GoodEnough
<1>2. CallStack(u)'
  <2>1. CallStack(u)
    BY DEF ThreadInvariant
  <2> QED
    BY <2>1 DEF CallStack, Untouched
<1>3. MapEntry(u)'
  <2>1. /\ MapEntry(u) /\ bestValue \in Nat /\ bestValue' \in Nat /\ exact[u] \in Nat
        /\ exact'[u] = exact[u] /\ pc'[u] = pc[u] /\ partition'[u] = partition[u]
    BY DEF ThreadInvariant, Untouched, TypeOK
  <2>2. exact'[u] <= IF pc'[u] \in {"prune", "bound", "publish"} THEN bestValue' ELSE 0
    <3>1. CASE pc[u] \in {"prune", "bound", "publish"}
      BY <2>1, <3>1 DEF MapEntry
    <3>2. CASE pc[u] \notin {"prune", "bound", "publish"}
      BY <2>1, <3>2 DEF MapEntry
    <3> QED
      BY <3>1, <3>2
  <2> QED
    BY <2>1, <2>2 DEF MapEntry
<1>4. LoadedValue(u)'
  <2>1. /\ LoadedValue(u) /\ bestValue \in Nat /\ bestValue' \in Nat /\ loaded[u] \in Nat
        /\ loaded'[u] = loaded[u] /\ pc'[u] = pc[u]
    BY DEF ThreadInvariant, Untouched, TypeOK
  <2>2. pc'[u] = "loadedValue" => loaded'[u] <= bestValue'
    BY <2>1 DEF LoadedValue
  <2>3. pc'[u] \in {"loadedBound", "publish"} => GoodEnough' \/ IsUpperBound(loaded'[u])
    BY <1>1, <2>1 DEF LoadedValue
  <2> QED
    BY <2>2, <2>3 DEF LoadedValue, IsUpperBound
<1>5. OptimumInReach(u)'
  <2>1. \A cs \in Optima : CanReach(u, cs) => CanReach(u, cs)'
    BY DEF CanReach, Untouched
  <2>2. Searching(u)' = Searching(u)
    BY DEF Searching, Untouched
  <2> QED
    BY <1>1, <2>1, <2>2 DEF ThreadInvariant, OptimumInReach
<1> QED
  BY <1>2, <1>3, <1>4, <1>5 DEF ThreadInvariant

-----------------------------------------------------------------------------
(* What a thread's own step does to its part of the invariant              *)

(* While the best is not good enough, a search can reach the optimum, which*)
(* is worth more.                                                          *)
LEMMA StillToFind ==
  ASSUME TypeOK, NEW t \in Searcher, ThreadInvariant(t), Searching(t), ~GoodEnough,
         NEW best \in Optima
  PROVE  /\ CanReach(t, best)
         /\ StructureValue[best] \in Int /\ bestValue < StructureValue[best]
         /\ \E p \in Partition : best \in Structures[p]
<1>1. CanReach(t, best)
  BY DEF ThreadInvariant, OptimumInReach
<1> QED
  BY <1>1, NotYet DEF GoodEnough, TypeOK

(* A thread between two calls of searchSubspace reaches a structure only   *)
(* through a partition that is open.                                       *)
LEMMA ReachByPartition ==
  ASSUME TypeOK, NEW t \in Searcher, CallStack(t), NEW cs, CanReach(t, cs),
         pc[t] \in {"prune", "bound", "publish", "select", "rebound", "complete"}
  PROVE  /\ todo[t] = <<>> /\ path[t] = <<>>
         /\ \E p \in open[t] \ {partition[t]} : p \in Partition /\ cs \in Structures[p]
<1>1. todo[t] = <<>> /\ path[t] = <<>>
  BY DEF CallStack
<1>2. ~ \E i \in 1 .. Len(todo[t]) : TRUE
  BY <1>1
<1>3. \E p \in open[t] \ {partition[t]} : cs \in Structures[p]
  BY <1>2 DEF CanReach
<1> QED
  BY <1>1, <1>3 DEF TypeOK

(* The beginning of a search puts every structure in reach.                *)
LEMMA BeginInvariant ==
  ASSUME TypeOK, NEW t \in Searcher, ThreadInvariant(t), pc[t] = "idle",
         BeginSearch(t), UNCHANGED bestValue
  PROVE  ThreadInvariant(t)'
<1>1. /\ pc'[t] = "prune" /\ open'[t] = Partition /\ partition'[t] = NoPartition
      /\ exact' = exact /\ path' = path /\ todo' = todo /\ loaded' = loaded
  BY DEF BeginSearch, Goto, TypeOK
<1>2. todo[t] = <<>> /\ path[t] = <<>> /\ exact[t] <= 0
  BY DEF ThreadInvariant, CallStack, MapEntry
<1>3. CallStack(t)'
  BY <1>1, <1>2 DEF CallStack
<1>4. MapEntry(t)'
  BY <1>1, <1>2 DEF MapEntry, TypeOK
<1>5. LoadedValue(t)'
  BY <1>1 DEF LoadedValue
<1>6. ASSUME NEW cs \in Optima PROVE CanReach(t, cs)'
  <2>1. PICK p \in Partition : cs \in Structures[p]
    BY DEF Optima, Structure
  <2>2. p \in open'[t] \ {partition'[t]}
    BY <1>1, SpaceAssumption
  <2> QED
    BY <2>1, <2>2 DEF CanReach
<1> QED
  BY <1>3, <1>4, <1>5, <1>6 DEF ThreadInvariant, OptimumInReach

(* Pruning never drops a partition that holds the optimum: its maximum is  *)
(* at least the optimum, every average is at most that, and the exact value*)
(* an improved partition is entered with is at most the best value.        *)
LEMMA PruneInvariant ==
  ASSUME TypeOK, NEW t \in Searcher, ThreadInvariant(t), Prune(t)
  PROVE  ThreadInvariant(t)'
<1>1. /\ pc[t] = "prune" /\ pc'[t] = "bound" /\ open'[t] = open[t] \ Dominated(t)
      /\ partition' = partition /\ exact' = exact /\ path' = path /\ todo' = todo
      /\ loaded' = loaded /\ bestValue' = bestValue
  BY DEF Prune, Goto, TypeOK
<1>2. todo[t] = <<>> /\ path[t] = <<>> /\ exact[t] <= bestValue
  BY <1>1 DEF ThreadInvariant, CallStack, MapEntry
<1>3. CallStack(t)'
  BY <1>1, <1>2 DEF CallStack
<1>4. MapEntry(t)'
  BY <1>1, <1>2 DEF MapEntry, TypeOK
<1>5. LoadedValue(t)'
  BY <1>1 DEF LoadedValue
<1>6. ASSUME ~GoodEnough', NEW cs \in Optima PROVE CanReach(t, cs)'
  <2>1. ~GoodEnough /\ Searching(t)
    BY <1>1, <1>6 DEF GoodEnough, Searching
  <2>2. /\ CanReach(t, cs)
        /\ StructureValue[cs] \in Int /\ bestValue < StructureValue[cs]
    BY <2>1, StillToFind
  <2>3. PICK p \in open[t] \ {partition[t]} : p \in Partition /\ cs \in Structures[p]
    BY <1>1, <2>2, ReachByPartition DEF ThreadInvariant
  <2>4. /\ UpperOf(t, p) = MaxBound[p] /\ MaxBound[p] \in Nat /\ Tiny <= MaxBound[p]
        /\ StructureValue[cs] <= MaxBound[p] /\ Tiny \in Nat
    BY <2>3, BoundAssumption, ValueContract DEF UpperOf
  <2>5. ASSUME NEW q \in open[t] PROVE AverageOf(t, q) <= StructureValue[cs] /\ AverageOf(t, q) \in Nat
    <3>1. CASE q = partition[t]
      BY <1>2, <2>2, <3>1 DEF AverageOf, TypeOK
    <3>2. CASE q # partition[t]
      <4>1. q \in Partition
        BY DEF TypeOK
      <4>2. PICK other \in Structures[q] : AvgBound[q] <= StructureValue[other]
        BY <4>1, ValueContract
      <4>3. other \in Structure
        BY <4>1 DEF Structure
      <4>4. StructureValue[other] <= StructureValue[cs] /\ StructureValue[other] \in Int
        BY <4>3, SpaceAssumption DEF Optima
      <4>5. AvgBound[q] \in Nat
        BY <4>1, BoundAssumption
      <4> QED
        BY <2>2, <3>2, <4>2, <4>4, <4>5 DEF AverageOf
    <3> QED
      BY <3>1, <3>2
  <2>6. p \notin Dominated(t)
    BY <2>2, <2>4, <2>5, SMTT(30) DEF Dominated, TypeOK
  <2>7. p \in open'[t] \ {partition'[t]}
    BY <1>1, <2>3, <2>6
  <2> QED
    BY <2>3, <2>7 DEF CanReach
<1> QED
  BY <1>3, <1>4, <1>5, <1>6 DEF ThreadInvariant, OptimumInReach

(* The bound computed is one of every structure while the optimum lies in  *)
(* an open partition: its maximum is a candidate.                          *)
LEMMA ComputeBoundInvariant ==
  ASSUME TypeOK, TypeOK', NEW t \in Searcher, ThreadInvariant(t), ComputeBound(t)
  PROVE  ThreadInvariant(t)'
<1>1. PICK bound \in UpperCandidates(t) :
        /\ \A other \in UpperCandidates(t) : other <= bound
        /\ loaded' = [loaded EXCEPT ![t] = bound]
  BY DEF ComputeBound
<1>2. /\ pc[t] = "bound" /\ pc'[t] = "publish" /\ open' = open /\ loaded'[t] = bound
      /\ partition' = partition /\ exact' = exact /\ path' = path /\ todo' = todo
      /\ bestValue' = bestValue
  BY <1>1 DEF ComputeBound, Goto, TypeOK, shared
<1>3. todo[t] = <<>> /\ path[t] = <<>> /\ exact[t] <= bestValue
  BY <1>2 DEF ThreadInvariant, CallStack, MapEntry
<1>4. CallStack(t)'
  BY <1>2, <1>3 DEF CallStack
<1>5. MapEntry(t)'
  BY <1>2, <1>3 DEF MapEntry, TypeOK
<1>6. ASSUME ~GoodEnough PROVE IsUpperBound(loaded'[t])
  <2>1. PICK cs \in Optima : TRUE
    BY BestExists
  <2>2. /\ CanReach(t, cs)
        /\ StructureValue[cs] \in Int /\ bestValue < StructureValue[cs]
    BY <1>2, <1>6, StillToFind DEF Searching
  <2>3. PICK p \in open[t] \ {partition[t]} : p \in Partition /\ cs \in Structures[p]
    BY <1>2, <2>2, ReachByPartition DEF ThreadInvariant
  <2>4. /\ MaxBound[p] \in UpperCandidates(t) /\ MaxBound[p] \in Nat
        /\ StructureValue[cs] <= MaxBound[p]
    BY <2>3, BoundAssumption, ValueContract DEF UpperCandidates, UpperOf
  <2>5. loaded'[t] \in Nat
    BY DEF TypeOK
  <2>6. StructureValue[cs] <= loaded'[t]
    BY <1>1, <1>2, <2>2, <2>4, <2>5
  <2> QED
    BY <2>5, <2>6, OptimumIsBound
<1>7. LoadedValue(t)'
  <2>1. GoodEnough' \/ IsUpperBound(loaded'[t])
    BY <1>2, <1>6 DEF GoodEnough
  <2> QED
    BY <1>2, <2>1 DEF LoadedValue, IsUpperBound
<1>8. \A cs \in Optima : CanReach(t, cs) => CanReach(t, cs)'
  BY <1>2 DEF CanReach
<1>9. OptimumInReach(t)'
  BY <1>2, <1>8 DEF ThreadInvariant, OptimumInReach, GoodEnough, Searching
<1> QED
  BY <1>4, <1>5, <1>7, <1>9 DEF ThreadInvariant

(* An empty map ends the search, and it empties only when the best is good *)
(* enough: until then the optimum's partition is in it.                    *)
LEMMA PublishInvariant ==
  ASSUME TypeOK, NEW t \in Searcher, ThreadInvariant(t), PublishBound(t)
  PROVE  /\ ThreadInvariant(t)'
         /\ pc'[t] = "complete" => GoodEnough'
<1>1. /\ pc[t] = "publish" /\ pc'[t] \in {"complete", "select"}
      /\ pc'[t] = "complete" => open'[t] = {}
      /\ open'[t] = open[t] \ {partition[t]}
      /\ partition'[t] = NoPartition /\ exact'[t] = 0 /\ path' = path /\ todo' = todo
      /\ bestValue' = bestValue
  BY DEF PublishBound, Goto, TypeOK
<1>2. todo[t] = <<>> /\ path[t] = <<>>
  BY <1>1 DEF ThreadInvariant, CallStack
<1>3. CallStack(t)'
  BY <1>1, <1>2 DEF CallStack
<1>4. MapEntry(t)'
  BY <1>1 DEF MapEntry
<1>5. LoadedValue(t)'
  BY <1>1 DEF LoadedValue
<1>6. ASSUME ~GoodEnough', NEW cs \in Optima
      PROVE  CanReach(t, cs)' /\ open'[t] # {}
  <2>1. CanReach(t, cs)
    BY <1>1, <1>6, StillToFind DEF GoodEnough, Searching
  <2>2. PICK p \in open[t] \ {partition[t]} : p \in Partition /\ cs \in Structures[p]
    BY <1>1, <2>1, ReachByPartition DEF ThreadInvariant
  <2>3. p \in open'[t] \ {partition'[t]}
    BY <1>1, <2>2, SpaceAssumption
  <2> QED
    BY <2>2, <2>3 DEF CanReach
<1>7. pc'[t] = "complete" => GoodEnough'
  BY <1>1, <1>6, BestExists
<1> QED
  BY <1>3, <1>4, <1>5, <1>6, <1>7 DEF ThreadInvariant, OptimumInReach

(* The first call of searchSubspace has every first coalition before it.   *)
LEMMA SelectInvariant ==
  ASSUME TypeOK, NEW t \in Searcher, ThreadInvariant(t), SelectPartition(t)
  PROVE  ThreadInvariant(t)'
<1>1. PICK p \in open[t] : /\ partition' = [partition EXCEPT ![t] = p]
                           /\ todo' = [todo EXCEPT ![t] = <<Choice[p][<<>>]>>]
  BY DEF SelectPartition
<1>2. /\ pc[t] = "select" /\ pc'[t] = "explore" /\ open' = open /\ exact' = exact
      /\ partition'[t] = p /\ todo'[t] = <<Choice[p][<<>>]>> /\ path'[t] = <<>>
      /\ bestValue' = bestValue /\ p \in Partition
  BY <1>1 DEF SelectPartition, Goto, TypeOK
<1>3. partition[t] = NoPartition /\ exact[t] <= 0
  BY <1>2 DEF ThreadInvariant, MapEntry
<1>4. /\ todo'[t] # <<>> /\ Len(todo'[t]) = 1 /\ todo'[t][1] = Choice[p][<<>>]
      /\ Len(path'[t]) = 0 /\ Length[p] \in Nat \ {0}
  BY <1>2, SpaceAssumption
<1>5. CallStack(t)'
  <2>1. IsPartial(p, path'[t])
    BY <1>2 DEF IsPartial
  <2>2. \A i \in 1 .. 1 : todo'[t][i] \subseteq Choice[p][Prefix(path'[t], i - 1)]
    BY <1>4, EmptyPrefix
  <2>3. 1 <= Length[p] /\ Len(path'[t]) + 1 = 1
    BY <1>4
  <2> QED
    BY <1>2, <1>4, <2>1, <2>2, <2>3 DEF CallStack, IsPartial, Prefix
<1>6. MapEntry(t)'
  BY <1>2, <1>3 DEF MapEntry
<1>7. LoadedValue(t)'
  BY <1>2 DEF LoadedValue
<1>8. ASSUME NEW cs \in Optima, CanReach(t, cs) PROVE CanReach(t, cs)'
  <2>1. PICK q \in open[t] \ {partition[t]} : q \in Partition /\ cs \in Structures[q]
    BY <1>2, <1>8, ReachByPartition DEF ThreadInvariant
  <2>2. CASE q # p
    BY <1>2, <2>1, <2>2 DEF CanReach
  <2>3. CASE q = p
    <3>1. cs[1] \in Choice[p][Prefix(cs, 0)]
      BY <1>4, <2>1, <2>3 DEF Structures, IsPartial
    <3>2. /\ 1 \in 1 .. Len(todo'[t])
          /\ \A j \in 1 .. 1 - 1 : cs[j] = path'[t][j]
          /\ cs[1] \in todo'[t][1]
      BY <1>4, <3>1, EmptyPrefix
    <3> QED
      BY <1>2, <2>1, <2>3, <3>2 DEF CanReach
  <2> QED
    BY <2>2, <2>3
<1>9. OptimumInReach(t)'
  BY <1>2, <1>8 DEF ThreadInvariant, OptimumInReach, GoodEnough, Searching
<1> QED
  BY <1>5, <1>6, <1>7, <1>9 DEF ThreadInvariant

(* The entry of an improved partition becomes the best value.              *)
LEMMA ReboundInvariant ==
  ASSUME TypeOK, NEW t \in Searcher, ThreadInvariant(t), Rebound(t)
  PROVE  ThreadInvariant(t)'
<1>1. /\ pc[t] = "rebound" /\ pc'[t] = "prune" /\ exact'[t] = bestValue
      /\ open' = open /\ partition' = partition /\ path' = path /\ todo' = todo
      /\ bestValue' = bestValue /\ bestValue \in Nat
  BY DEF Rebound, Goto, TypeOK, shared
<1>2. todo[t] = <<>> /\ path[t] = <<>>
  BY <1>1 DEF ThreadInvariant, CallStack
<1>3. CallStack(t)'
  BY <1>1, <1>2 DEF CallStack
<1>4. MapEntry(t)'
  BY <1>1 DEF MapEntry
<1>5. LoadedValue(t)'
  BY <1>1 DEF LoadedValue
<1>6. \A cs \in Optima : CanReach(t, cs) => CanReach(t, cs)'
  BY <1>1, <1>2 DEF CanReach
<1>7. OptimumInReach(t)'
  BY <1>1, <1>6 DEF ThreadInvariant, OptimumInReach, GoodEnough, Searching
<1> QED
  BY <1>3, <1>4, <1>5, <1>7 DEF ThreadInvariant

(* A search that has completed owes nothing any more.                      *)
LEMMA CompleteInvariant ==
  ASSUME TypeOK, NEW t \in Searcher, ThreadInvariant(t), Complete(t)
  PROVE  ThreadInvariant(t)'
<1>1. /\ pc[t] = "complete" /\ pc'[t] = "idle" /\ exact' = exact
      /\ path' = path /\ todo' = todo
  BY DEF Complete, Goto, TypeOK
<1>2. todo[t] = <<>> /\ path[t] = <<>> /\ exact[t] <= 0
  BY <1>1 DEF ThreadInvariant, CallStack, MapEntry
<1>3. CallStack(t)'
  BY <1>1, <1>2 DEF CallStack
<1>4. MapEntry(t)' /\ LoadedValue(t)' /\ OptimumInReach(t)'
  BY <1>1, <1>2 DEF MapEntry, LoadedValue, OptimumInReach, Searching
<1> QED
  BY <1>3, <1>4 DEF ThreadInvariant

(* A combination tried is no loss: a better complete structure is about to *)
(* be stored, a partial one is entered, and one that is passed over has too*)
(* small a potential to lead to the optimum.                               *)
LEMMA ExploreInvariant ==
  ASSUME TypeOK, NEW t \in Searcher, ThreadInvariant(t), Explore(t)
  PROVE  ThreadInvariant(t)'
<1> DEFINE p == partition[t]
           d == Len(todo[t])
           Rest(c) == [todo[t] EXCEPT ![d] = @ \ {c}]
           e(c) == Append(path[t], c)
<1>1. PICK c \in Upcoming(todo[t][Deepest(t)]) :
        \/ /\ Len(e(c)) = Length[p]
           /\ todo' = [todo EXCEPT ![t] = Rest(c)]
           /\ StructureValue[e(c)] > bestValue
           /\ path' = [path EXCEPT ![t] = e(c)] /\ Goto(t, "update")
        \/ /\ Len(e(c)) = Length[p]
           /\ todo' = [todo EXCEPT ![t] = Rest(c)]
           /\ ~(StructureValue[e(c)] > bestValue)
           /\ path' = path /\ Goto(t, "quality")
        \/ /\ Len(e(c)) < Length[p]
           /\ path' = [path EXCEPT ![t] = e(c)]
           /\ todo' = [todo EXCEPT ![t] = Append(Rest(c), Choice[p][e(c)])]
           /\ pc' = pc
        \/ /\ Len(e(c)) < Length[p]
           /\ bestValue >= Potential[p][e(c)]
           /\ todo' = [todo EXCEPT ![t] = Rest(c)]
           /\ path' = path /\ Goto(t, "quality")
  BY DEF Explore, Deepest, Without
<1> DEFINE x == e(c)
           rest == Rest(c)
<1>2. /\ pc[t] = "explore" /\ open' = open /\ exact' = exact /\ partition' = partition
      /\ loaded' = loaded /\ bestValue' = bestValue /\ bestValue \in Nat
      /\ CallStack(t)
  BY DEF Explore, shared, TypeOK, ThreadInvariant
<1>3. /\ todo[t] # <<>> /\ Len(path[t]) + 1 = d /\ c \in todo[t][d]
      /\ x \in Seq(Coalitions) /\ Len(x) = d /\ x \in [1 .. d -> Coalitions]
      /\ \A i \in 1 .. d - 1 : x[i] = path[t][i]
      /\ x[d] = c
      /\ \A i \in 0 .. d - 1 : Prefix(x, i) = Prefix(path[t], i)
      /\ Prefix(path[t], d - 1) = path[t]
      /\ IsPartial(p, x)
  <2> DEFINE n == Len(path[t])
  <2>1. /\ todo[t] # <<>> /\ n + 1 = d /\ c \in todo[t][d]
        /\ x \in Seq(Coalitions) /\ Len(x) = d /\ x \in [1 .. d -> Coalitions]
        /\ \A i \in 1 .. n : x[i] = path[t][i]
        /\ x[d] = c
        /\ \A i \in 0 .. n : Prefix(x, i) = Prefix(path[t], i)
        /\ Prefix(path[t], n) = path[t]
        /\ IsPartial(p, x)
    BY <1>2, Combination
  <2>2. n \in Nat
    BY LenProperties DEF TypeOK
  <2> HIDE DEF n, d, x, p
  <2>3. n = d - 1
    BY <2>1, <2>2
  <2>4. /\ todo[t] # <<>> /\ n + 1 = d /\ c \in todo[t][d]
        /\ x \in Seq(Coalitions) /\ Len(x) = d /\ x \in [1 .. d -> Coalitions]
        /\ \A i \in 1 .. d - 1 : x[i] = path[t][i]
        /\ x[d] = c
        /\ \A i \in 0 .. d - 1 : Prefix(x, i) = Prefix(path[t], i)
        /\ Prefix(path[t], d - 1) = path[t]
        /\ IsPartial(p, x)
    BY <2>1, <2>3
  <2> QED
    BY <2>4 DEF n
<1>4. /\ p \in Partition /\ d \in 1 .. Length[p] /\ Length[p] \in Nat
      /\ todo[t] \in Seq(SUBSET Coalitions)
      /\ path[t] \in Seq(Coalitions) /\ IsPartial(p, path[t])
      /\ \A i \in 1 .. d : todo[t][i] \subseteq Choice[p][Prefix(path[t], i - 1)]
  BY <1>2, <1>3, InSubspace
<1>5. /\ rest \in Seq(SUBSET Coalitions) /\ Len(rest) = d
      /\ \A i \in 1 .. d : rest[i] = IF i = d THEN todo[t][d] \ {c} ELSE todo[t][i]
  <2>1. todo[t][d] \ {c} \in SUBSET Coalitions
    BY <1>4, ElementOfSeq
  <2> QED
    BY <1>4, <2>1, ExceptSeq
<1>6. Prefix(x, d) = x
  BY <1>3, <1>4 DEF Prefix
<1>7. ASSUME d < Length[p]
      PROVE  /\ Append(rest, Choice[p][x]) \in Seq(SUBSET Coalitions)
             /\ Len(Append(rest, Choice[p][x])) = d + 1
             /\ \A i \in 1 .. d : Append(rest, Choice[p][x])[i] = rest[i]
             /\ Append(rest, Choice[p][x])[d + 1] = Choice[p][x]
  <2>1. Choice[p][x] \in SUBSET Coalitions
    BY <1>3, <1>4, <1>7, ChoiceType
  <2> QED
    BY <1>5, <2>1, AppendProperties
<1>8. \/ /\ d = Length[p] /\ todo'[t] = rest /\ path'[t] = x
         /\ pc'[t] = "update"
      \/ /\ d = Length[p] /\ todo'[t] = rest /\ path'[t] = path[t]
         /\ ~(StructureValue[x] > bestValue) /\ pc'[t] = "quality"
      \/ /\ d < Length[p] /\ todo'[t] = Append(rest, Choice[p][x]) /\ path'[t] = x
         /\ pc'[t] = "explore"
      \/ /\ d < Length[p] /\ todo'[t] = rest /\ path'[t] = path[t]
         /\ bestValue >= Potential[p][x] /\ pc'[t] = "quality"
  BY <1>1, <1>2, <1>3 DEF Goto, TypeOK
<1> HIDE DEF p, d, Rest, e, x, rest
<1>9. CallStack(t)'
  <2>1. partition'[t] = p
    BY <1>2 DEF p
  <2>2. CASE d = Length[p] /\ todo'[t] = rest /\ path'[t] = x /\ pc'[t] = "update"
    <3>1. \A i \in 1 .. d : rest[i] \subseteq Choice[p][Prefix(x, i - 1)]
      BY <1>3, <1>4, <1>5
    <3>2. rest # <<>>
      BY <1>4, <1>5
    <3> QED
      BY <1>3, <1>4, <1>5, <2>1, <2>2, <3>1, <3>2 DEF CallStack
  <2>3. CASE todo'[t] = rest /\ path'[t] = path[t] /\ pc'[t] = "quality"
    <3>1. \A i \in 1 .. d : rest[i] \subseteq Choice[p][Prefix(path[t], i - 1)]
      BY <1>4, <1>5
    <3>2. rest # <<>>
      BY <1>4, <1>5
    <3> QED
      BY <1>3, <1>4, <1>5, <2>1, <2>3, <3>1, <3>2 DEF CallStack
  <2>4. CASE /\ d < Length[p] /\ todo'[t] = Append(rest, Choice[p][x]) /\ path'[t] = x
             /\ pc'[t] = "explore"
    <3>1. Len(todo'[t]) = d + 1 /\ todo'[t] # <<>> /\ d \in Nat
      BY <1>4, <1>7, <2>4
    <3>2. \A i \in 1 .. d + 1 : todo'[t][i] \subseteq Choice[p][Prefix(x, i - 1)]
      <4> TAKE i \in 1 .. d + 1
      <4>1. CASE i \in 1 .. d
        <5>1. todo'[t][i] = rest[i] /\ rest[i] \subseteq todo[t][i]
          BY <1>5, <1>7, <2>4, <4>1
        <5>2. i - 1 \in 0 .. d - 1
          BY <1>4, <4>1
        <5>3. Prefix(x, i - 1) = Prefix(path[t], i - 1)
          BY <1>3, <5>2
        <5> QED
          BY <1>4, <4>1, <5>1, <5>3
      <4>2. CASE i = d + 1
        BY <1>6, <1>7, <2>4, <3>1, <4>2
      <4> QED
        BY <3>1, <4>1, <4>2
    <3> QED
      BY <1>3, <1>4, <2>1, <2>4, <3>1, <3>2 DEF CallStack
  <2> QED
    BY <1>8, <2>2, <2>3, <2>4
<1>10. MapEntry(t)' /\ LoadedValue(t)'
  BY <1>2, <1>8 DEF ThreadInvariant, MapEntry, LoadedValue
<1>11. ASSUME ~GoodEnough', NEW cs \in Optima PROVE CanReach(t, cs)'
  <2>1. ~GoodEnough /\ Searching(t)
    BY <1>2, <1>11 DEF GoodEnough, Searching
  <2>2. /\ CanReach(t, cs)
        /\ StructureValue[cs] \in Int /\ bestValue < StructureValue[cs]
    BY <2>1, StillToFind
  <2>3. CASE \E q \in open[t] \ {partition[t]} : cs \in Structures[q]
    BY <1>2, <2>3 DEF CanReach
  <2>4. CASE /\ cs \in Structures[p]
             /\ \E i \in 1 .. d : /\ \A j \in 1 .. i - 1 : cs[j] = path[t][j]
                                  /\ cs[i] \in todo[t][i]
    <3>1. /\ cs \in [1 .. Length[p] -> Coalitions]
          /\ \A i \in 1 .. Length[p] : cs[i] \in Choice[p][Prefix(cs, i - 1)]
      BY <1>4, <2>4 DEF Structures, IsPartial
    <3>2. ASSUME NEW i \in 1 .. Len(todo'[t]),
                 \A j \in 1 .. i - 1 : cs[j] = path'[t][j],
                 cs[i] \in todo'[t][i]
          PROVE  CanReach(t, cs)'
      BY <1>2, <1>4, <2>4, <3>2 DEF CanReach, p
    <3>3. PICK i \in 1 .. d : /\ \A j \in 1 .. i - 1 : cs[j] = path[t][j]
                              /\ cs[i] \in todo[t][i]
      BY <2>4
    <3>4. ASSUME cs[i] \in rest[i] PROVE CanReach(t, cs)'
      <4>1. i \in 1 .. Len(todo'[t]) /\ cs[i] \in todo'[t][i]
        BY <1>4, <1>5, <1>7, <1>8, <3>4, SMTT(30)
      <4>2. \A j \in 1 .. i - 1 : cs[j] = path'[t][j]
        BY <1>3, <1>4, <1>8, <3>3
      <4> QED
        BY <3>2, <4>1, <4>2
    <3>5. CASE i = d /\ cs[d] = c
      <4>1. \A j \in 1 .. d : cs[j] = x[j]
        <5>1. d \in Nat /\ x[d] = c /\ \A j \in 1 .. d - 1 : x[j] = path[t][j]
          BY <1>3, <1>4
        <5>2. cs[d] = c /\ \A j \in 1 .. d - 1 : cs[j] = path[t][j]
          BY <3>3, <3>5
        <5>3. \A j \in 1 .. d : j = d \/ j \in 1 .. d - 1
          BY <5>1
        <5> HIDE DEF d, x
        <5> QED
          BY <5>1, <5>2, <5>3
      <4>2. CASE d = Length[p]
        <5>1. x = cs
          <6>1. x \in [1 .. d -> Coalitions] /\ cs \in [1 .. d -> Coalitions]
            BY <1>3, <3>1, <4>2
          <6>2. \A j \in 1 .. d : x[j] = cs[j]
            BY <4>1
          <6>3. x = [j \in 1 .. d |-> x[j]]
            BY <6>1
          <6>4. cs = [j \in 1 .. d |-> cs[j]]
            BY <6>1
          <6>5. [j \in 1 .. d |-> x[j]] = [j \in 1 .. d |-> cs[j]]
            BY <6>2
          <6> QED
            BY <6>3, <6>4, <6>5, Zenon
        <5>2. pc'[t] = "update" /\ path'[t] = cs
          BY <1>4, <1>8, <2>2, <4>2, <5>1
        <5> QED
          BY <1>2, <1>4, <2>4, <5>2 DEF CanReach, p
      <4>3. CASE d < Length[p]
        <5>1. Prefix(cs, d) = x
          BY <1>3, <1>4, <4>1 DEF Prefix
        <5>2. cs[d + 1] \in Choice[p][x]
          BY <1>4, <3>1, <4>3, <5>1
        <5>3. CASE todo'[t] = Append(rest, Choice[p][x]) /\ path'[t] = x
          <6>1. d + 1 \in 1 .. Len(todo'[t]) /\ cs[d + 1] \in todo'[t][d + 1]
            BY <1>4, <1>7, <4>3, <5>2, <5>3
          <6>2. \A j \in 1 .. (d + 1) - 1 : cs[j] = path'[t][j]
            BY <1>4, <4>1, <5>3
          <6> QED
            BY <3>2, <6>1, <6>2
        <5>4. CASE bestValue >= Potential[p][x]
          <6>1. d \in 1 .. Length[p] - 1
            BY <1>4, <4>3
          <6>2. StructureValue[cs] <= Potential[p][x]
            BY <1>4, <2>4, <5>1, <6>1, ValueContract
          <6>3. Potential[p][x] \in Int
            BY <1>3, <1>4, <6>1, SpaceAssumption
          <6> QED
            BY <1>2, <2>2, <5>4, <6>2, <6>3
        <5> QED
          BY <1>4, <1>8, <4>3, <5>3, <5>4
      <4> QED
        BY <1>4, <4>2, <4>3
    <3> QED
      BY <1>5, <3>3, <3>4, <3>5
  <2> QED
    BY <1>2, <2>2, <2>3, <2>4 DEF CanReach, p, d
<1>12. OptimumInReach(t)'
  BY <1>11 DEF OptimumInReach
<1> QED
  BY <1>9, <1>10, <1>12 DEF ThreadInvariant

(* A call of searchSubspace returns without loss when the combinations it  *)
(* has left do not lead to the optimum.                                    *)
LEMMA ReturnInvariant ==
  ASSUME TypeOK, NEW t \in Searcher, ThreadInvariant(t), todo[t] # <<>>,
         pc[t] # "update", Return(t),
         UNCHANGED <<partition, exact, bestValue>>,
         \A cs \in Optima :
            ~GoodEnough =>
               \/ \E q \in open[t] \ {partition[t]} : cs \in Structures[q]
               \/ /\ cs \in Structures[partition[t]]
                  /\ \E i \in 1 .. Len(todo[t]) - 1 :
                        /\ \A j \in 1 .. i - 1 : cs[j] = path[t][j]
                        /\ cs[i] \in todo[t][i]
  PROVE  ThreadInvariant(t)'
<1> DEFINE p == partition[t]
           d == Len(todo[t])
           shortPath == SubSeq(path[t], 1, Len(path[t]) - 1)
           shortTodo == SubSeq(todo[t], 1, d - 1)
<1>1. /\ p \in Partition /\ d \in 1 .. Length[p] /\ Length[p] \in Nat
      /\ path[t] \in Seq(Coalitions) /\ IsPartial(p, path[t])
      /\ todo[t] \in Seq(SUBSET Coalitions)
      /\ Len(path[t]) + 1 = d /\ Len(path[t]) \in Nat
      /\ \A i \in 1 .. d : todo[t][i] \subseteq Choice[p][Prefix(path[t], i - 1)]
  BY InSubspace, LenProperties DEF ThreadInvariant
<1>2. /\ partition' = partition /\ exact' = exact /\ GoodEnough' = GoodEnough
      /\ bestValue' = bestValue /\ bestValue \in Nat /\ exact[t] \in Nat /\ exact[t] <= 0
  <2>1. pc[t] \notin {"prune", "bound", "publish"}
    BY DEF ThreadInvariant, CallStack
  <2> QED
    BY <2>1 DEF ThreadInvariant, MapEntry, GoodEnough, TypeOK
<1>3. pc'[t] \in {"quality", "bound"}
  BY DEF Return, Goto, TypeOK
<1>4. MapEntry(t)' /\ LoadedValue(t)'
  BY <1>2, <1>3 DEF MapEntry, LoadedValue
<1>5. CASE Deepest(t) > 1
  <2>1. /\ path'[t] = shortPath /\ todo'[t] = shortTodo /\ open' = open
        /\ pc'[t] = "quality"
    BY <1>5 DEF Return, Goto, TypeOK
  <2>2. /\ Len(shortPath) = Len(path[t]) - 1 /\ shortPath \in Seq(Coalitions)
        /\ \A i \in 1 .. Len(path[t]) - 1 : shortPath[i] = path[t][i]
        /\ \A i \in 0 .. Len(path[t]) - 1 : Prefix(shortPath, i) = Prefix(path[t], i)
        /\ IsPartial(p, shortPath)
    <3>1. d > 1
      BY <1>5 DEF Deepest
    <3>2. Len(path[t]) > 0
      <4> HIDE DEF p, d
      <4> QED
        BY <1>1, <3>1
    <3> HIDE DEF p
    <3> QED
      BY <1>1, <3>2, Shortening
  <2>3. /\ shortTodo \in Seq(SUBSET Coalitions) /\ Len(shortTodo) = d - 1
        /\ \A i \in 1 .. d - 1 : shortTodo[i] = todo[t][i]
    BY <1>1, StackShortening
  <2>4. d > 1
    BY <1>5 DEF Deepest
  <2> HIDE DEF shortPath, shortTodo, p, d
  <2>5. Len(path[t]) - 1 = d - 2
    BY <1>1
  <2>6. CallStack(t)'
    <3>1. ASSUME NEW i \in 1 .. d - 1
          PROVE  shortTodo[i] \subseteq Choice[p][Prefix(shortPath, i - 1)]
      <4>1. i - 1 \in 0 .. Len(path[t]) - 1 /\ i \in 1 .. d
        BY <1>1, <2>5
      <4> QED
        BY <1>1, <2>2, <2>3, <4>1
    <3>2. shortTodo # <<>>
      BY <1>1, <2>3, <2>4
    <3>3. Len(shortPath) + 1 = Len(shortTodo) /\ Len(shortTodo) <= Length[p]
      BY <1>1, <2>2, <2>3
    <3>4. partition'[t] = p
      BY <1>2 DEF p
    <3> QED
      BY <1>1, <2>1, <2>2, <2>3, <3>1, <3>2, <3>3, <3>4 DEF CallStack
  <2>7. ASSUME ~GoodEnough', NEW cs \in Optima PROVE CanReach(t, cs)'
    <3>1. CASE \E q \in open[t] \ {partition[t]} : cs \in Structures[q]
      BY <1>2, <2>1, <3>1 DEF CanReach
    <3>2. CASE /\ cs \in Structures[p]
               /\ \E i \in 1 .. d - 1 : /\ \A j \in 1 .. i - 1 : cs[j] = path[t][j]
                                        /\ cs[i] \in todo[t][i]
      <4>1. PICK i \in 1 .. d - 1 : /\ \A j \in 1 .. i - 1 : cs[j] = path[t][j]
                                    /\ cs[i] \in todo[t][i]
        BY <3>2
      <4>2. \A j \in 1 .. i - 1 : cs[j] = shortPath[j]
        <5>1. d \in Nat /\ d = Len(path[t]) + 1
          BY <1>1
        <5> TAKE j \in 1 .. i - 1
        <5>2. j \in 1 .. Len(path[t]) - 1
          <6> HIDE DEF d
          <6> QED
            BY <1>1, <4>1, <5>1
        <5> QED
          BY <2>2, <4>1, <5>2
      <4>3. cs[i] \in shortTodo[i] /\ i \in 1 .. Len(shortTodo)
        BY <2>3, <4>1
      <4>4. \E j \in 1 .. Len(todo'[t]) :
               /\ \A k \in 1 .. j - 1 : cs[k] = path'[t][k]
               /\ cs[j] \in todo'[t][j]
        BY <2>1, <4>2, <4>3
      <4>5. partition'[t] \in Partition /\ cs \in Structures[partition'[t]]
        BY <1>1, <1>2, <3>2 DEF p
      <4> QED
        BY <4>4, <4>5 DEF CanReach
    <3> QED
      BY <1>2, <2>7, <3>1, <3>2 DEF p, d
  <2> QED
    BY <1>4, <2>6, <2>7 DEF ThreadInvariant, OptimumInReach
<1>6. CASE ~(Deepest(t) > 1)
  <2>1. d = 1 /\ Len(path[t]) = 0
    <3>1. ~(d > 1)
      BY <1>6 DEF Deepest
    <3> HIDE DEF p, d
    <3> QED
      BY <1>1, <3>1
  <2>2. path[t] = <<>>
    BY <1>1, <2>1, EmptySeq
  <2>3. /\ todo'[t] = <<>> /\ path'[t] = <<>>
        /\ open'[t] \in {open[t], open[t] \ {p}}
    <3>1. CASE improved[t]
      BY <1>6, <2>2, <3>1 DEF Return, TypeOK
    <3>2. CASE ~improved[t]
      BY <1>6, <2>2, <3>2 DEF Return, TypeOK
    <3> QED
      BY <3>1, <3>2
  <2>4. CallStack(t)'
    BY <1>3, <2>3 DEF CallStack
  <2>5. ASSUME ~GoodEnough', NEW cs \in Optima PROVE CanReach(t, cs)'
    <3>1. ~ \E i \in 1 .. d - 1 : TRUE
      BY <2>1
    <3>2. \E q \in open[t] \ {p} : cs \in Structures[q]
      BY <1>2, <2>5, <3>1
    <3> QED
      BY <1>2, <2>3, <3>2 DEF CanReach
  <2> QED
    BY <1>4, <2>4, <2>5 DEF ThreadInvariant, OptimumInReach
<1> QED
  BY <1>5, <1>6

(* Only the deepest call's combinations are at stake when it returns.      *)
LEMMA ReachAbove ==
  ASSUME TypeOK, NEW t \in Searcher, ThreadInvariant(t), Searching(t),
         todo[t] # <<>>, pc[t] # "update",
         \A cs \in Optima : ~GoodEnough /\ cs \in Structures[partition[t]]
                               => cs[Len(todo[t])] \notin todo[t][Len(todo[t])]
  PROVE  \A cs \in Optima :
            ~GoodEnough =>
               \/ \E q \in open[t] \ {partition[t]} : cs \in Structures[q]
               \/ /\ cs \in Structures[partition[t]]
                  /\ \E i \in 1 .. Len(todo[t]) - 1 :
                        /\ \A j \in 1 .. i - 1 : cs[j] = path[t][j]
                        /\ cs[i] \in todo[t][i]
<1> SUFFICES ASSUME NEW cs \in Optima, ~GoodEnough,
                    ~ \E q \in open[t] \ {partition[t]} : cs \in Structures[q]
             PROVE  /\ cs \in Structures[partition[t]]
                    /\ \E i \in 1 .. Len(todo[t]) - 1 :
                          /\ \A j \in 1 .. i - 1 : cs[j] = path[t][j]
                          /\ cs[i] \in todo[t][i]
  OBVIOUS
<1>1. CanReach(t, cs)
  BY StillToFind
<1>2. /\ cs \in Structures[partition[t]]
      /\ \E i \in 1 .. Len(todo[t]) : /\ \A j \in 1 .. i - 1 : cs[j] = path[t][j]
                                      /\ cs[i] \in todo[t][i]
  BY <1>1 DEF CanReach
<1>3. Len(todo[t]) \in Nat
  BY LenProperties DEF TypeOK
<1>4. ASSUME NEW i \in 1 .. Len(todo[t]), cs[i] \in todo[t][i]
      PROVE  i \in 1 .. Len(todo[t]) - 1
  <2>1. i # Len(todo[t])
    BY <1>2, <1>4
  <2> QED
    BY <1>3, <2>1
<1> QED
  BY <1>2, <1>4

(* Storing compares again: what is not stored is no better than the best.  *)
LEMMA UpdateInvariant ==
  ASSUME TypeOK, TypeOK', NEW t \in Searcher, ThreadInvariant(t), Update(t)
  PROVE  /\ ThreadInvariant(t)'
         /\ SolutionHasItsValue => SolutionHasItsValue'
<1> DEFINE p == partition[t]
           d == Len(todo[t])
           short == SubSeq(path[t], 1, Len(path[t]) - 1)
<1>1. /\ pc[t] = "update" /\ pc'[t] = "quality" /\ open' = open /\ exact' = exact
      /\ partition' = partition /\ todo' = todo /\ path'[t] = short
      /\ bestValue \in Nat /\ bestValue' \in Nat
  BY DEF Update, Goto, TypeOK
<1>2. todo[t] # <<>> /\ exact[t] <= 0 /\ exact[t] \in Nat
  BY <1>1 DEF ThreadInvariant, CallStack, MapEntry, TypeOK
<1>3. /\ p \in Partition /\ d \in 1 .. Length[p] /\ Length[p] \in Nat
      /\ path[t] \in Seq(Coalitions) /\ IsPartial(p, path[t])
      /\ Len(path[t]) = d /\ d = Length[p] /\ Len(path[t]) > 0
      /\ \A i \in 1 .. d : todo[t][i] \subseteq Choice[p][Prefix(path[t], i - 1)]
  BY <1>1, <1>2, InSubspace DEF ThreadInvariant
<1>4. path[t] \in Structures[p] /\ StructureValue[path[t]] \in Int
  BY <1>3, FullLength
<1>5. /\ Len(short) = Len(path[t]) - 1 /\ short \in Seq(Coalitions)
      /\ \A i \in 1 .. Len(path[t]) - 1 : short[i] = path[t][i]
      /\ \A i \in 0 .. Len(path[t]) - 1 : Prefix(short, i) = Prefix(path[t], i)
      /\ IsPartial(p, short)
  BY <1>3, Shortening
<1>6. /\ bestValue <= bestValue' /\ StructureValue[path[t]] <= bestValue'
      /\ SolutionHasItsValue => SolutionHasItsValue'
  <2>1. CASE StructureValue[path[t]] > bestValue
    <3>1. bestValue' = StructureValue[path[t]] /\ bestStructure' = path[t]
      BY <2>1 DEF Update
    <3>2. path[t] # <<>>
      BY <1>3, EmptySeq
    <3> QED
      BY <1>1, <1>4, <2>1, <3>1, <3>2 DEF SolutionHasItsValue
  <2>2. CASE ~(StructureValue[path[t]] > bestValue)
    <3>1. bestValue' = bestValue /\ bestStructure' = bestStructure
      BY <2>2 DEF Update
    <3>2. pc'[Owner] = "resetValue" => pc[Owner] = "resetValue"
      BY DEF Update, Goto, TypeOK, Searcher
    <3>3. pc[Owner] = "resetValue" => pc'[Owner] = "resetValue"
      BY DEF Update, Goto, TypeOK, Searcher
    <3> QED
      BY <1>1, <1>4, <2>2, <3>1, <3>2, <3>3 DEF SolutionHasItsValue
  <2> QED
    BY <2>1, <2>2
<1>7. GoodEnough => GoodEnough'
  BY <1>1, <1>6, SufficientMonotone DEF GoodEnough
<1> HIDE DEF p, d, short
<1>8. CallStack(t)'
  <2>1. partition'[t] = p /\ todo'[t] = todo[t] /\ Len(todo[t]) = d
    BY <1>1 DEF p, d
  <2>2. \A i \in 1 .. d : todo[t][i] \subseteq Choice[p][Prefix(short, i - 1)]
    <3> TAKE i \in 1 .. d
    <3>1. i - 1 \in 0 .. Len(path[t]) - 1
      BY <1>3
    <3> QED
      BY <1>3, <1>5, <3>1
  <2>3. Len(short) + 1 = d /\ d <= Length[p]
    BY <1>3, <1>5
  <2> QED
    BY <1>1, <1>2, <1>3, <1>5, <2>1, <2>2, <2>3 DEF CallStack
<1>9. MapEntry(t)' /\ LoadedValue(t)'
  BY <1>1, <1>2 DEF MapEntry, LoadedValue
<1>10. ASSUME ~GoodEnough', NEW cs \in Optima PROVE CanReach(t, cs)'
  <2>1. ~GoodEnough /\ Searching(t)
    BY <1>1, <1>7, <1>10 DEF Searching
  <2>2. CanReach(t, cs)
    BY <2>1, StillToFind
  <2>3. CASE \E q \in open[t] \ {partition[t]} : cs \in Structures[q]
    BY <1>1, <2>3 DEF CanReach
  <2>4. CASE cs = path[t]
    <3>1. Sufficient(bestValue')
      BY <1>1, <1>6, <2>4, OptimumSufficient
    <3> QED
      BY <1>10, <3>1 DEF GoodEnough
  <2>5. CASE /\ cs \in Structures[p]
             /\ \E i \in 1 .. d : /\ \A j \in 1 .. i - 1 : cs[j] = path[t][j]
                                  /\ cs[i] \in todo[t][i]
    <3>1. PICK i \in 1 .. d : /\ \A j \in 1 .. i - 1 : cs[j] = path[t][j]
                              /\ cs[i] \in todo[t][i]
      BY <2>5
    <3>2. \A j \in 1 .. i - 1 : cs[j] = short[j]
      BY <1>3, <1>5, <3>1
    <3> QED
      BY <1>1, <1>3, <2>5, <3>1, <3>2 DEF CanReach, p, d
  <2> QED
    BY <2>2, <2>3, <2>4, <2>5 DEF CanReach, p, d
<1> QED
  BY <1>6, <1>8, <1>9, <1>10 DEF ThreadInvariant, OptimumInReach

(* What is loaded for the quality is, at the time, the best value or the   *)
(* published bound.                                                        *)
LEMMA LoadInvariant ==
  ASSUME TypeOK, NEW t \in Searcher, ThreadInvariant(t), LoadForQuality(t),
         GoodEnough \/ IsUpperBound(globalUpperBound)
  PROVE  ThreadInvariant(t)'
<1>1. /\ pc[t] = "quality" /\ open' = open /\ exact' = exact /\ partition' = partition
      /\ path' = path /\ todo' = todo /\ bestValue' = bestValue /\ bestValue \in Nat
      /\ \/ pc'[t] = "loadedValue" /\ loaded'[t] = bestValue
         \/ pc'[t] = "loadedBound" /\ loaded'[t] = globalUpperBound
  BY DEF LoadForQuality, Goto, TypeOK, shared
<1>2. GoodEnough' = GoodEnough /\ MapEntry(t)
  BY <1>1 DEF GoodEnough, ThreadInvariant
<1>3. CallStack(t)'
  BY <1>1 DEF ThreadInvariant, CallStack
<1>4. MapEntry(t)'
  BY <1>1, <1>2 DEF MapEntry
<1>5. LoadedValue(t)'
  BY <1>1, <1>2 DEF LoadedValue, IsUpperBound
<1>6. \A cs \in Optima : CanReach(t, cs) => CanReach(t, cs)'
  BY <1>1 DEF CanReach
<1>7. OptimumInReach(t)'
  BY <1>1, <1>2, <1>6 DEF ThreadInvariant, OptimumInReach, Searching
<1> QED
  BY <1>3, <1>4, <1>5, <1>7 DEF ThreadInvariant

(* A search that finds the quality sufficient is right, although the bound *)
(* and the value were read at different times.                             *)
LEMMA JudgeInvariant ==
  ASSUME TypeOK, NEW t \in Searcher, ThreadInvariant(t), JudgeQuality(t),
         GoodEnough \/ IsUpperBound(globalUpperBound)
  PROVE  /\ ThreadInvariant(t)'
         /\ pc'[t] = "complete" => GoodEnough'
<1> DEFINE sufficient == IF pc[t] = "loadedValue"
                         THEN WithinQuality(globalUpperBound, loaded[t])
                         ELSE WithinQuality(loaded[t], bestValue)
<1>1. /\ pc[t] \in {"loadedValue", "loadedBound"}
      /\ exact' = exact /\ partition' = partition /\ bestValue' = bestValue
      /\ bestValue \in Nat /\ globalUpperBound \in Nat /\ loaded[t] \in Nat
      /\ \/ sufficient /\ todo[t] # <<>> /\ Return(t)
         \/ /\ sufficient /\ todo[t] = <<>> /\ pc'[t] = "complete"
            /\ UNCHANGED <<open, path, todo>>
         \/ /\ ~sufficient /\ UNCHANGED <<open, path, todo>>
            /\ pc'[t] = IF todo[t] = <<>> THEN "rebound" ELSE "saturation"
  BY DEF JudgeQuality, Goto, TypeOK, shared
<1>2. /\ GoodEnough' = GoodEnough /\ MapEntry(t) /\ exact[t] \in Nat
      /\ CallStack(t) /\ OptimumInReach(t)
  BY <1>1 DEF GoodEnough, ThreadInvariant, TypeOK
<1>3. sufficient => GoodEnough
  <2>1. CASE pc[t] = "loadedValue"
    <3>1. loaded[t] <= bestValue
      BY <2>1 DEF ThreadInvariant, LoadedValue
    <3>2. ASSUME sufficient, IsUpperBound(globalUpperBound) PROVE Sufficient(loaded[t])
      BY <1>1, <2>1, <3>2, QualitySufficient
    <3> QED
      BY <1>1, <3>1, <3>2, SufficientMonotone DEF GoodEnough
  <2>2. CASE pc[t] = "loadedBound"
    <3>1. GoodEnough \/ IsUpperBound(loaded[t])
      BY <2>2 DEF ThreadInvariant, LoadedValue
    <3>2. ASSUME sufficient, IsUpperBound(loaded[t]) PROVE Sufficient(bestValue)
      BY <1>1, <2>2, <3>2, QualitySufficient
    <3> QED
      BY <3>1, <3>2 DEF GoodEnough
  <2> QED
    BY <1>1, <2>1, <2>2
<1> HIDE DEF sufficient
<1>4. CASE sufficient /\ todo[t] # <<>> /\ Return(t)
  <2>1. ThreadInvariant(t)'
    BY <1>1, <1>3, <1>4, ReturnInvariant
  <2>2. pc'[t] \in {"quality", "bound"}
    BY <1>4 DEF Return, Goto, TypeOK
  <2> QED
    BY <2>1, <2>2
<1>5. CASE /\ sufficient /\ todo[t] = <<>> /\ pc'[t] = "complete"
           /\ UNCHANGED <<open, path, todo>>
  <2>1. CallStack(t)'
    BY <1>2, <1>5 DEF CallStack
  <2>2. MapEntry(t)' /\ LoadedValue(t)'
    BY <1>1, <1>2, <1>5 DEF MapEntry, LoadedValue
  <2>3. GoodEnough' /\ OptimumInReach(t)'
    BY <1>2, <1>3, <1>5 DEF OptimumInReach
  <2> QED
    BY <2>1, <2>2, <2>3 DEF ThreadInvariant
<1>6. CASE /\ ~sufficient /\ UNCHANGED <<open, path, todo>>
           /\ pc'[t] = IF todo[t] = <<>> THEN "rebound" ELSE "saturation"
  <2>1. CallStack(t)'
    BY <1>1, <1>2, <1>6 DEF CallStack
  <2>2. MapEntry(t)' /\ LoadedValue(t)'
    BY <1>1, <1>2, <1>6 DEF MapEntry, LoadedValue
  <2>3. \A cs \in Optima : CanReach(t, cs) => CanReach(t, cs)'
    BY <1>1, <1>6 DEF CanReach
  <2>4. OptimumInReach(t)'
    BY <1>1, <1>2, <1>6, <2>3 DEF OptimumInReach, Searching
  <2> QED
    BY <1>6, <2>1, <2>2, <2>4 DEF ThreadInvariant
<1> QED
  BY <1>1, <1>4, <1>5, <1>6

(* A best value that has reached the maximum of the partition leaves no    *)
(* optimum in it to find.                                                  *)
LEMMA SaturationInvariant ==
  ASSUME TypeOK, NEW t \in Searcher, ThreadInvariant(t), CheckSaturation(t)
  PROVE  ThreadInvariant(t)'
<1>1. /\ pc[t] = "saturation" /\ Searching(t)
      /\ exact' = exact /\ partition' = partition /\ bestValue' = bestValue
      /\ \/ bestValue = MaxBound[partition[t]] /\ Return(t)
         \/ pc'[t] = "explore" /\ UNCHANGED <<open, path, todo>>
  BY DEF CheckSaturation, Goto, TypeOK, shared, Searching
<1>2. /\ todo[t] # <<>> /\ partition[t] \in Partition
      /\ CallStack(t) /\ MapEntry(t) /\ OptimumInReach(t)
  BY <1>1 DEF ThreadInvariant, CallStack
<1>3. CASE bestValue = MaxBound[partition[t]] /\ Return(t)
  <2>1. ASSUME NEW cs \in Optima, ~GoodEnough
        PROVE  cs \notin Structures[partition[t]]
    <3>1. StructureValue[cs] \in Int /\ bestValue < StructureValue[cs]
      BY <1>1, <2>1, StillToFind
    <3>2. ASSUME cs \in Structures[partition[t]]
          PROVE  StructureValue[cs] <= MaxBound[partition[t]]
      BY <1>2, <3>2, ValueContract
    <3> QED
      BY <1>3, <3>1, <3>2 DEF TypeOK
  <2>2. \A cs \in Optima :
           ~GoodEnough =>
              \/ \E q \in open[t] \ {partition[t]} : cs \in Structures[q]
              \/ /\ cs \in Structures[partition[t]]
                 /\ \E i \in 1 .. Len(todo[t]) - 1 :
                       /\ \A j \in 1 .. i - 1 : cs[j] = path[t][j]
                       /\ cs[i] \in todo[t][i]
    BY <1>1, <1>2, <2>1, ReachAbove
  <2> QED
    BY <1>1, <1>2, <1>3, <2>2, ReturnInvariant
<1>4. CASE pc'[t] = "explore" /\ UNCHANGED <<open, path, todo>>
  <2>1. CallStack(t)'
    BY <1>1, <1>2, <1>4 DEF CallStack
  <2>2. MapEntry(t)' /\ LoadedValue(t)'
    BY <1>1, <1>2, <1>4 DEF MapEntry, LoadedValue
  <2>3. \A cs \in Optima : CanReach(t, cs) => CanReach(t, cs)'
    BY <1>1, <1>4 DEF CanReach
  <2>4. OptimumInReach(t)'
    BY <1>1, <1>2, <1>4, <2>3 DEF OptimumInReach, GoodEnough
  <2> QED
    BY <2>1, <2>2, <2>4 DEF ThreadInvariant
<1> QED
  BY <1>1, <1>3, <1>4

(* A call with no combination left leaves nothing behind.                  *)
LEMMA ExhaustInvariant ==
  ASSUME TypeOK, NEW t \in Searcher, ThreadInvariant(t), Exhaust(t)
  PROVE  ThreadInvariant(t)'
<1>1. /\ pc[t] = "explore" /\ todo[t][Len(todo[t])] = {} /\ Return(t) /\ Searching(t)
      /\ exact' = exact /\ partition' = partition /\ bestValue' = bestValue
  BY DEF Exhaust, shared, Deepest, Searching
<1>2. todo[t] # <<>>
  BY <1>1 DEF ThreadInvariant, CallStack
<1>3. \A cs \in Optima :
         ~GoodEnough =>
            \/ \E q \in open[t] \ {partition[t]} : cs \in Structures[q]
            \/ /\ cs \in Structures[partition[t]]
               /\ \E i \in 1 .. Len(todo[t]) - 1 :
                     /\ \A j \in 1 .. i - 1 : cs[j] = path[t][j]
                     /\ cs[i] \in todo[t][i]
  BY <1>1, <1>2, ReachAbove
<1> QED
  BY <1>1, <1>2, <1>3, ReturnInvariant

-----------------------------------------------------------------------------
(* The invariant                                                           *)

(* The bound every search starts from is one of every structure.           *)
LEMMA UnboundedIsBound == IsUpperBound(Unbounded)
<1> SUFFICES ASSUME NEW cs \in Structure PROVE StructureValue[cs] <= Unbounded
  BY DEF IsUpperBound
<1>1. PICK p \in Partition : cs \in Structures[p]
  BY DEF Structure
<1>2. /\ StructureValue[cs] \in Int /\ StructureValue[cs] <= MaxBound[p]
      /\ MaxBound[p] \in Tiny .. Unbounded /\ Tiny \in Nat /\ Unbounded \in Nat
  BY <1>1, SpaceAssumption, BoundAssumption, ValueContract
<1> QED
  BY <1>2

(* It holds in the initial states.                                         *)
LEMMA InvariantInit == Init => SearchInvariant
<1> SUFFICES ASSUME Init PROVE SearchInvariant
  OBVIOUS
<1>1. TypeOK
  BY TypeInit
<1>2. BoundIsHonest
  BY UnboundedIsBound DEF Init, BoundIsHonest
<1>3. SolutionHasItsValue
  BY DEF Init, SolutionHasItsValue
<1>4. CompletedIsGoodEnough /\ ResetAlone
  BY DEF Init, CompletedIsGoodEnough, ResetAlone, Searcher
<1>5. ASSUME NEW t \in Searcher PROVE ThreadInvariant(t)
  BY DEF Init, ThreadInvariant, CallStack, MapEntry, LoadedValue, OptimumInReach,
     Searching
<1> QED
  BY <1>1, <1>2, <1>3, <1>4, <1>5 DEF SearchInvariant

(* A step of a search is one of a thread that searches, and never part of  *)
(* a reset.                                                                *)
LEMMA SearchStepLabels ==
  ASSUME TypeOK, NEW t \in Searcher, SearchStep(t), ThreadInvariant(t)
  PROVE  /\ Searching(t)
         /\ pc'[t] \notin {"resetValue", "resetBound"}
         /\ ~PublishBound(t) => UNCHANGED globalUpperBound
<1> USE DEF TypeOK, Goto, Searching, shared
<1>1. CASE Prune(t)
  BY <1>1 DEF Prune
<1>2. CASE ComputeBound(t)
  BY <1>2 DEF ComputeBound
<1>3. CASE PublishBound(t)
  BY <1>3 DEF PublishBound
<1>4. CASE SelectPartition(t)
  BY <1>4 DEF SelectPartition
<1>5. CASE Rebound(t)
  BY <1>5 DEF Rebound
<1>6. CASE Complete(t)
  BY <1>6 DEF Complete
<1>7. CASE Explore(t)
  BY <1>7 DEF Explore
<1>8. CASE Update(t)
  BY <1>8 DEF Update
<1>9. CASE LoadForQuality(t)
  BY <1>9 DEF LoadForQuality
<1>10. CASE JudgeQuality(t)
  BY <1>10 DEF JudgeQuality, Return
<1>11. CASE CheckSaturation(t)
  BY <1>11 DEF CheckSaturation, Return
<1>12. CASE Exhaust(t)
  BY <1>12 DEF Exhaust, Return
<1> QED
  BY <1>1, <1>2, <1>3, <1>4, <1>5, <1>6, <1>7, <1>8, <1>9, <1>10, <1>11, <1>12
     DEF SearchStep

(* The thread that moves keeps its part, and completes only with a good    *)
(* enough best value.                                                      *)
LEMMA MovingThread ==
  ASSUME SearchInvariant, TypeOK', NEW t \in Searcher, SearchStep(t)
  PROVE  /\ ThreadInvariant(t)'
         /\ pc'[t] = "complete" => GoodEnough'
<1>1. TypeOK /\ ThreadInvariant(t)
  BY DEF SearchInvariant
<1>2. GoodEnough \/ IsUpperBound(globalUpperBound)
  <2>1. Searching(t)
    BY <1>1, SearchStepLabels
  <2>2. pc[Owner] # "resetBound"
    BY <2>1 DEF SearchInvariant, ResetAlone, NoSearch
  <2> QED
    BY <2>2 DEF SearchInvariant, BoundIsHonest
<1>3. CASE Prune(t)
  <2>1. pc'[t] # "complete"
    BY <1>1, <1>3 DEF Prune, Goto, TypeOK
  <2> QED
    BY <1>1, <1>3, <2>1, PruneInvariant
<1>4. CASE ComputeBound(t)
  <2>1. pc'[t] # "complete"
    BY <1>1, <1>4 DEF ComputeBound, Goto, TypeOK
  <2> QED
    BY <1>1, <1>4, <2>1, ComputeBoundInvariant
<1>5. CASE PublishBound(t)
  BY <1>1, <1>5, PublishInvariant
<1>6. CASE SelectPartition(t)
  <2>1. pc'[t] # "complete"
    BY <1>1, <1>6 DEF SelectPartition, Goto, TypeOK
  <2> QED
    BY <1>1, <1>6, <2>1, SelectInvariant
<1>7. CASE Rebound(t)
  <2>1. pc'[t] # "complete"
    BY <1>1, <1>7 DEF Rebound, Goto, TypeOK
  <2> QED
    BY <1>1, <1>7, <2>1, ReboundInvariant
<1>8. CASE Complete(t)
  <2>1. pc'[t] # "complete"
    BY <1>1, <1>8 DEF Complete, Goto, TypeOK
  <2> QED
    BY <1>1, <1>8, <2>1, CompleteInvariant
<1>9. CASE Explore(t)
  <2>1. pc'[t] # "complete"
    BY <1>1, <1>9 DEF Explore, Goto, TypeOK
  <2> QED
    BY <1>1, <1>9, <2>1, ExploreInvariant
<1>10. CASE Update(t)
  <2>1. pc'[t] # "complete"
    BY <1>1, <1>10 DEF Update, Goto, TypeOK
  <2> QED
    BY <1>1, <1>10, <2>1, UpdateInvariant
<1>11. CASE LoadForQuality(t)
  <2>1. pc'[t] # "complete"
    BY <1>1, <1>11 DEF LoadForQuality, Goto, TypeOK
  <2> QED
    BY <1>1, <1>2, <1>11, <2>1, LoadInvariant
<1>12. CASE JudgeQuality(t)
  BY <1>1, <1>2, <1>12, JudgeInvariant
<1>13. CASE CheckSaturation(t)
  <2>1. pc'[t] # "complete"
    BY <1>1, <1>13, ZenonT(40) DEF CheckSaturation, Return, Goto, TypeOK
  <2> QED
    BY <1>1, <1>13, <2>1, SaturationInvariant
<1>14. CASE Exhaust(t)
  <2>1. pc'[t] # "complete"
    BY <1>1, <1>14 DEF Exhaust, Return, Goto, TypeOK
  <2> QED
    BY <1>1, <1>14, <2>1, ExhaustInvariant
<1> QED
  BY <1>3, <1>4, <1>5, <1>6, <1>7, <1>8, <1>9, <1>10, <1>11, <1>12, <1>13, <1>14
     DEF SearchStep

(* A step of a search keeps the invariant.                                 *)
LEMMA InvariantSearchStep ==
  ASSUME SearchInvariant, NEW t \in Searcher, SearchStep(t)
  PROVE  SearchInvariant'
<1>1. TypeOK /\ \A u \in Searcher : ThreadInvariant(u)
  BY DEF SearchInvariant
<1>2. TypeOK'
  BY <1>1, TypeSearchStep DEF ThreadInvariant
<1>3. /\ ThreadInvariant(t)' /\ (pc'[t] = "complete" => GoodEnough')
      /\ bestValue <= bestValue'
      /\ ~Update(t) => UNCHANGED <<bestValue, bestStructure>>
      /\ bestValue \in Nat /\ bestValue' \in Nat
  BY <1>1, <1>2, MovingThread, BestGrows DEF TypeOK
<1>4. GoodEnough => GoodEnough'
  BY <1>3, SufficientMonotone DEF GoodEnough
<1>5. ASSUME NEW u \in Searcher, u # t
      PROVE  Untouched(u) /\ ThreadInvariant(u)'
  BY <1>1, <1>2, <1>3, <1>5, OthersUntouched, OtherThread
<1>6. /\ Searching(t) /\ pc'[t] \notin {"resetValue", "resetBound"}
      /\ ~PublishBound(t) => UNCHANGED globalUpperBound
  BY <1>1, SearchStepLabels
<1>7. /\ pc[Owner] \notin {"resetValue", "resetBound"}
      /\ pc'[Owner] \notin {"resetValue", "resetBound"}
  <2>1. pc[Owner] \notin {"resetValue", "resetBound"}
    BY <1>6 DEF SearchInvariant, ResetAlone, NoSearch
  <2>2. Owner = t \/ pc'[Owner] = pc[Owner]
    BY <1>5 DEF Untouched, Searcher
  <2> QED
    BY <1>6, <2>1, <2>2
<1>8. BoundIsHonest'
  <2>1. CASE PublishBound(t)
    <3>1. globalUpperBound' = loaded[t] /\ (GoodEnough \/ IsUpperBound(loaded[t]))
      BY <1>1, <2>1 DEF PublishBound, ThreadInvariant, LoadedValue
    <3>2. GoodEnough' \/ IsUpperBound(globalUpperBound')
      BY <1>4, <3>1
    <3> QED
      BY <3>2 DEF BoundIsHonest, IsUpperBound
  <2>2. CASE ~PublishBound(t)
    <3>1. GoodEnough \/ IsUpperBound(globalUpperBound)
      BY <1>7 DEF SearchInvariant, BoundIsHonest
    <3>2. GoodEnough' \/ IsUpperBound(globalUpperBound')
      BY <1>4, <1>6, <2>2, <3>1
    <3> QED
      BY <3>2 DEF BoundIsHonest, IsUpperBound
  <2> QED
    BY <2>1, <2>2
<1>9. SolutionHasItsValue'
  <2>1. SolutionHasItsValue
    BY DEF SearchInvariant
  <2>2. CASE Update(t)
    BY <1>1, <1>2, <2>1, <2>2, UpdateInvariant
  <2>3. CASE ~Update(t)
    <3>1. bestValue' = bestValue /\ bestStructure' = bestStructure
      BY <1>3, <2>3
    <3> QED
      BY <1>7, <2>1, <3>1 DEF SolutionHasItsValue
  <2> QED
    BY <2>2, <2>3
<1>10. CompletedIsGoodEnough'
  <2> SUFFICES ASSUME NEW u \in Searcher, pc'[u] = "complete" PROVE GoodEnough'
    BY DEF CompletedIsGoodEnough
  <2>1. CASE u = t
    BY <1>3, <2>1
  <2>2. CASE u # t
    <3>1. pc[u] = "complete"
      BY <1>5, <2>2 DEF Untouched
    <3> QED
      BY <1>4, <3>1 DEF SearchInvariant, CompletedIsGoodEnough
  <2> QED
    BY <2>1, <2>2
<1>11. ResetAlone'
  BY <1>7 DEF ResetAlone
<1>12. \A u \in Searcher : ThreadInvariant(u)'
  BY <1>3, <1>5
<1> QED
  BY <1>2, <1>8, <1>9, <1>10, <1>11, <1>12 DEF SearchInvariant

(* Starting a search keeps the invariant, whatever else is running.        *)
LEMMA InvariantBegin ==
  ASSUME SearchInvariant, NEW t \in Searcher, pc[t] = "idle", BeginSearch(t),
         pc[Owner] = "idle",
         UNCHANGED <<bestStructure, bestValue, globalUpperBound, statistics>>,
         completed' \in BOOLEAN, handle' \in Searcher, interrupted' \in SUBSET Worker
  PROVE  SearchInvariant'
<1>1. TypeOK /\ \A u \in Searcher : ThreadInvariant(u)
  BY DEF SearchInvariant
<1>2. TypeOK'
  BY <1>1 DEF TypeOK, BeginSearch, Goto, Labels
<1>3. ASSUME NEW u \in Searcher PROVE ThreadInvariant(u)'
  <2>1. CASE u = t
    BY <1>1, <2>1, BeginInvariant
  <2>2. CASE u # t
    <3>1. Untouched(u) /\ bestValue <= bestValue'
      BY <1>1, <2>2 DEF BeginSearch, Goto, Untouched, TypeOK
    <3> QED
      BY <1>1, <1>2, <3>1, OtherThread
  <2> QED
    BY <2>1, <2>2
<1>4. /\ pc'[Owner] \in {"idle", "prune"}
      /\ \A u \in Searcher : pc'[u] = "complete" => pc[u] = "complete"
  BY <1>1 DEF BeginSearch, Goto, TypeOK, Searcher
<1>5. BoundIsHonest'
  <2>1. GoodEnough \/ IsUpperBound(globalUpperBound)
    BY DEF SearchInvariant, BoundIsHonest
  <2>2. GoodEnough' \/ IsUpperBound(globalUpperBound')
    BY <2>1 DEF GoodEnough
  <2> QED
    BY <2>2 DEF BoundIsHonest, IsUpperBound
<1>6. SolutionHasItsValue' /\ CompletedIsGoodEnough' /\ ResetAlone'
  BY <1>4 DEF SearchInvariant, SolutionHasItsValue, CompletedIsGoodEnough, ResetAlone,
     GoodEnough
<1> QED
  BY <1>2, <1>3, <1>5, <1>6 DEF SearchInvariant

(* While no search runs, any value the owner gives the shared state is fine*)
(* with the threads.                                                       *)
LEMMA IdleThreads ==
  ASSUME TypeOK, TypeOK', NoSearch, NEW u \in Searcher, ThreadInvariant(u),
         UNCHANGED local, ~Searching(u)'
  PROVE  ThreadInvariant(u)'
<1>1. /\ pc[u] \in {"idle", "resetValue", "resetBound"}
      /\ pc'[u] \in {"idle", "resetValue", "resetBound"}
  BY DEF NoSearch, Searching
<1>2. todo[u] = <<>> /\ path[u] = <<>> /\ exact[u] <= 0 /\ exact[u] \in Nat
  BY <1>1 DEF ThreadInvariant, CallStack, MapEntry, TypeOK
<1>3. /\ exact' = exact /\ path' = path /\ todo' = todo
  BY DEF local
<1>4. CallStack(u)'
  BY <1>1, <1>2, <1>3 DEF CallStack
<1>5. MapEntry(u)' /\ LoadedValue(u)' /\ OptimumInReach(u)'
  BY <1>1, <1>2, <1>3 DEF MapEntry, LoadedValue, OptimumInReach, Searching
<1> QED
  BY <1>4, <1>5 DEF ThreadInvariant

(* The three steps of a reset, which has the object to itself.             *)
LEMMA InvariantReset ==
  ASSUME SearchInvariant, NoSearch,
         ResetSolution \/ ResetValue \/ ResetBound
  PROVE  SearchInvariant'
<1>1. TypeOK /\ \A u \in Searcher : ThreadInvariant(u)
  BY DEF SearchInvariant
<1>2. TypeOK'
  <2>1. CASE ResetSolution
    BY <1>1, <2>1 DEF TypeOK, ResetSolution, NoStatistics, Goto, Labels, threads, local
  <2>2. CASE ResetValue
    BY <1>1, <2>2 DEF TypeOK, ResetValue, Goto, Labels, threads, local
  <2>3. CASE ResetBound
    <3>1. PreparedStatistics \in [pruned : SUBSET Partition, searched : SUBSET Partition]
      BY DEF PreparedStatistics
    <3> QED
      BY <1>1, <2>3, <3>1, BoundAssumption DEF TypeOK, ResetBound, Goto, Labels, threads, local
  <2> QED
    BY <2>1, <2>2, <2>3
<1>3. /\ UNCHANGED local
      /\ pc'[Owner] \in {"resetValue", "resetBound", "idle"}
      /\ \A u \in Searcher : u # Owner => pc'[u] = pc[u]
  BY <1>1 DEF ResetSolution, ResetValue, ResetBound, Goto, TypeOK, Searcher
<1>4. \A u \in Searcher : ~Searching(u)'
  BY <1>3 DEF NoSearch, Searching
<1>5. \A u \in Searcher : ThreadInvariant(u)'
  BY <1>1, <1>2, <1>3, <1>4, IdleThreads
<1>6. CompletedIsGoodEnough' /\ ResetAlone'
  <2>1. \A u \in Searcher : pc'[u] # "complete"
    BY <1>4 DEF Searching
  <2>2. pc'[Owner] \in {"resetValue", "resetBound"} => bestStructure' = <<>>
    <3>1. CASE ResetSolution
      BY <3>1 DEF ResetSolution
    <3>2. CASE ResetValue
      BY <3>2 DEF ResetValue, SearchInvariant, ResetAlone
    <3>3. CASE ResetBound
      BY <1>1, <3>3 DEF ResetBound, Goto, TypeOK, Searcher
    <3> QED
      BY <3>1, <3>2, <3>3
  <2> QED
    BY <1>4, <2>1, <2>2 DEF CompletedIsGoodEnough, ResetAlone, NoSearch
<1>7. BoundIsHonest' /\ SolutionHasItsValue'
  <2>1. CASE ResetSolution
    <3>1. /\ pc'[Owner] = "resetValue" /\ pc[Owner] = "idle"
          /\ bestValue' = bestValue /\ globalUpperBound' = globalUpperBound
      BY <1>1, <2>1 DEF ResetSolution, Goto, TypeOK, Searcher
    <3>2. GoodEnough' \/ IsUpperBound(globalUpperBound')
      BY <3>1 DEF SearchInvariant, BoundIsHonest, GoodEnough
    <3> QED
      BY <3>1, <3>2 DEF BoundIsHonest, SolutionHasItsValue, IsUpperBound
  <2>2. CASE ResetValue
    <3>1. pc'[Owner] = "resetBound" /\ bestValue' = 0 /\ bestStructure' = bestStructure
      BY <1>1, <2>2 DEF ResetValue, Goto, TypeOK, Searcher
    <3>2. bestStructure = <<>>
      BY <2>2 DEF SearchInvariant, ResetAlone, ResetValue
    <3> QED
      BY <3>1, <3>2 DEF BoundIsHonest, SolutionHasItsValue
  <2>3. CASE ResetBound
    <3>1. /\ pc'[Owner] = "idle" /\ pc[Owner] = "resetBound"
          /\ globalUpperBound' = Unbounded
          /\ bestValue' = bestValue /\ bestStructure' = bestStructure
      BY <1>1, <2>3 DEF ResetBound, Goto, TypeOK, Searcher
    <3>2. IsUpperBound(Unbounded)
      BY UnboundedIsBound
    <3> QED
      BY <3>1, <3>2 DEF BoundIsHonest, SolutionHasItsValue, SearchInvariant, IsUpperBound
  <2> QED
    BY <2>1, <2>2, <2>3
<1> QED
  BY <1>2, <1>5, <1>6, <1>7 DEF SearchInvariant

(* A request to stop changes nothing a search reads.                       *)
LEMMA InvariantStop ==
  ASSUME SearchInvariant, StopSearch
  PROVE  SearchInvariant'
<1>1. TypeOK /\ \A u \in Searcher : ThreadInvariant(u)
  BY DEF SearchInvariant
<1>2. UNCHANGED <<shared, handle, pc, local>> /\ handle \in Worker
  BY <1>1 DEF StopSearch, TypeOK, Searcher
<1>3. TypeOK'
  BY <1>1, <1>2 DEF TypeOK, StopSearch, shared, local
<1>4. ASSUME NEW u \in Searcher PROVE ThreadInvariant(u)'
  <2>1. Untouched(u)
    BY <1>2 DEF Untouched, local
  <2>2. bestValue <= bestValue'
    BY <1>1, <1>2 DEF shared, TypeOK
  <2> QED
    BY <1>1, <1>3, <2>1, <2>2, OtherThread
<1>5. BoundIsHonest'
  <2>1. GoodEnough' \/ IsUpperBound(globalUpperBound') \/ pc'[Owner] = "resetBound"
    BY <1>2 DEF SearchInvariant, BoundIsHonest, GoodEnough, shared
  <2> QED
    BY <2>1 DEF BoundIsHonest, IsUpperBound
<1>6. SolutionHasItsValue' /\ CompletedIsGoodEnough' /\ ResetAlone'
  BY <1>2 DEF SearchInvariant, SolutionHasItsValue, CompletedIsGoodEnough, ResetAlone,
     GoodEnough, NoSearch, Searching, shared
<1> QED
  BY <1>3, <1>4, <1>5, <1>6 DEF SearchInvariant

(* A step that changes nothing keeps the invariant.                        *)
LEMMA InvariantStutter ==
  ASSUME SearchInvariant, UNCHANGED vars
  PROVE  SearchInvariant'
<1>1. TypeOK /\ \A u \in Searcher : ThreadInvariant(u)
  BY DEF SearchInvariant
<1>2. UNCHANGED <<shared, threads, pc, local>>
  BY DEF vars
<1>3. TypeOK'
  BY <1>1, <1>2 DEF TypeOK, shared, threads, local
<1>4. ASSUME NEW u \in Searcher PROVE ThreadInvariant(u)'
  <2>1. Untouched(u)
    BY <1>2 DEF Untouched, local
  <2>2. bestValue <= bestValue'
    BY <1>1, <1>2 DEF shared, TypeOK
  <2> QED
    BY <1>1, <1>3, <2>1, <2>2, OtherThread
<1>5. BoundIsHonest'
  <2>1. GoodEnough' \/ IsUpperBound(globalUpperBound') \/ pc'[Owner] = "resetBound"
    BY <1>2 DEF SearchInvariant, BoundIsHonest, GoodEnough, shared
  <2> QED
    BY <2>1 DEF BoundIsHonest, IsUpperBound
<1>6. SolutionHasItsValue' /\ CompletedIsGoodEnough' /\ ResetAlone'
  BY <1>2 DEF SearchInvariant, SolutionHasItsValue, CompletedIsGoodEnough, ResetAlone,
     GoodEnough, NoSearch, Searching, shared
<1> QED
  BY <1>3, <1>4, <1>5, <1>6 DEF SearchInvariant

(* Every step keeps the invariant.                                         *)
LEMMA InvariantNext == SearchInvariant /\ [Next]_vars => SearchInvariant'
<1> SUFFICES ASSUME SearchInvariant, [Next]_vars PROVE SearchInvariant'
  OBVIOUS
<1>1. TypeOK /\ Owner \in Searcher /\ Worker \subseteq Searcher
  BY DEF SearchInvariant, Searcher
<1>2. CASE \E t \in Searcher : SearchStep(t)
  BY <1>2, InvariantSearchStep
<1>3. ASSUME NEW w \in Worker, AnytimeSearch(w) PROVE SearchInvariant'
  <2>1. /\ w \in Searcher /\ pc[w] = "idle" /\ pc[Owner] = "idle" /\ BeginSearch(w)
        /\ UNCHANGED <<bestStructure, bestValue, globalUpperBound, statistics>>
        /\ completed' \in BOOLEAN /\ handle' \in Searcher
        /\ interrupted' \in SUBSET Worker
    BY <1>1, <1>3 DEF AnytimeSearch, TypeOK
  <2> QED
    BY <2>1, InvariantBegin
<1>4. CASE FindBest
  <2>1. /\ pc[Owner] = "idle" /\ BeginSearch(Owner)
        /\ UNCHANGED <<bestStructure, bestValue, globalUpperBound, statistics>>
        /\ completed' \in BOOLEAN /\ handle' \in Searcher
        /\ interrupted' \in SUBSET Worker
    BY <1>1, <1>4 DEF FindBest, TypeOK, shared, threads
  <2> QED
    BY <1>1, <2>1, InvariantBegin
<1>5. CASE StopSearch
  BY <1>5, InvariantStop
<1>6. CASE ResetValue \/ ResetBound
  <2>1. NoSearch
    BY <1>6 DEF SearchInvariant, ResetAlone, ResetValue, ResetBound
  <2> QED
    BY <1>6, <2>1, InvariantReset
<1>7. CASE NoSearch /\ ResetSolution
  BY <1>7, InvariantReset
<1>8. CASE UNCHANGED vars
  BY <1>8, InvariantStutter
<1> QED
  BY <1>2, <1>3, <1>4, <1>5, <1>6, <1>7, <1>8 DEF Next, OwnerCall

-----------------------------------------------------------------------------
(* Theorems                                                                *)

(* The inductive invariant holds in every reachable state: any number of   *)
(* searches on one object, each of them able to reach the optimum until one*)
(* of the requested quality is found.                                      *)
THEOREM SearchInvariantHolds == Spec => []SearchInvariant
<1>1. Init => SearchInvariant
  BY InvariantInit
<1>2. SearchInvariant /\ [Next]_vars => SearchInvariant'
  BY InvariantNext
<1> QED
  BY <1>1, <1>2, PTL DEF Spec

(* Every variable keeps its type, and the recursion its shape.             *)
THEOREM TypeCorrect == Spec => []TypeOK
<1>1. SearchInvariant => TypeOK
  BY DEF SearchInvariant
<1> QED
  BY <1>1, SearchInvariantHolds, PTL

(* A search that completes has found a structure of the quality it was     *)
(* asked for, however the searches on the object interleave.               *)
THEOREM CompletionIsCorrect == Spec => []CompletedIsGoodEnough
<1>1. SearchInvariant => CompletedIsGoodEnough
  BY DEF SearchInvariant
<1> QED
  BY <1>1, SearchInvariantHolds, PTL

(* The global upper bound is one, until the requested quality is reached.  *)
THEOREM BoundIsCorrect == Spec => []BoundIsHonest
<1>1. SearchInvariant => BoundIsHonest
  BY DEF SearchInvariant
<1> QED
  BY <1>1, SearchInvariantHolds, PTL

(* The solution has its value at every moment.                             *)
THEOREM SolutionIsConsistent == Spec => []SolutionHasItsValue
<1>1. SearchInvariant => SolutionHasItsValue
  BY DEF SearchInvariant
<1> QED
  BY <1>1, SearchInvariantHolds, PTL

(* Between resets the best value only grows, and the solution changes only *)
(* together with it: a search in a state that was overtaken stores nothing.*)
THEOREM BestImproves == Spec => BestOnlyImproves
<1> DEFINE Improvement ==
             \/ bestStructure' = <<>>
             \/ /\ bestValue' >= bestValue
                /\ bestStructure' # bestStructure => bestValue' > bestValue
<1>1. SearchInvariant /\ SearchInvariant' /\ [Next]_vars
         => [Improvement]_<<bestStructure, bestValue>>
  <2> SUFFICES ASSUME SearchInvariant, SearchInvariant', [Next]_vars,
                      ~ UNCHANGED <<bestStructure, bestValue>>
               PROVE  Improvement
    OBVIOUS
  <2>1. TypeOK /\ TypeOK'
    BY DEF SearchInvariant
  <2>2. ASSUME NEW t \in Searcher, SearchStep(t) PROVE Improvement
    <3>1. Update(t)
      BY <2>1, <2>2, BestGrows
    <3>2. bestValue' > bestValue
      BY <3>1 DEF Update
    <3>3. bestValue \in Nat /\ bestValue' \in Nat
      BY <2>1 DEF TypeOK
    <3> QED
      BY <3>2, <3>3
  <2>3. CASE OwnerCall
    <3>1. ResetValue
      BY <2>3 DEF OwnerCall, AnytimeSearch, FindBest, StopSearch, ResetBound, shared
    <3>2. bestStructure' = <<>>
      BY <3>1 DEF ResetValue, SearchInvariant, ResetAlone
    <3> QED
      BY <3>2
  <2>4. CASE ResetSolution
    BY <2>4 DEF ResetSolution
  <2>5. CASE UNCHANGED vars
    BY <2>5 DEF vars, shared
  <2> QED
    BY <2>2, <2>3, <2>4, <2>5 DEF Next
<1> QED
  BY <1>1, SearchInvariantHolds, PTL DEF Spec, BestOnlyImproves

-----------------------------------------------------------------------------
(* Refinement                                                              *)

(* A step that neither stores nor begins nor ends a search is none of the  *)
(* optimizer's.                                                            *)
LEMMA InternalStep ==
  ASSUME TypeOK, UNCHANGED <<bestValue, completed>>,
         \A u \in Searcher : Searching(u)' = Searching(u)
  PROVE  UNCHANGED Optimizer!vars
BY DEF Optimizer!vars

(* Every step of a search is one the optimizer allows.                     *)
LEMMA SearchStepRefines ==
  ASSUME SearchInvariant, SearchInvariant', NEW t \in Searcher, SearchStep(t)
  PROVE  Optimizer!Next \/ UNCHANGED Optimizer!vars
<1>1. /\ TypeOK /\ TypeOK' /\ ThreadInvariant(t)
      /\ \A u \in Searcher : ThreadInvariant(u)
  BY DEF SearchInvariant
<1>2. /\ Searching(t) /\ pc'[t] \notin {"resetValue", "resetBound"}
  BY <1>1, SearchStepLabels
<1>3. \A u \in Searcher : u # t => Searching(u)' = Searching(u)
  BY <1>1, OthersUntouched DEF Untouched, Searching
<1>4. CASE Complete(t)
  <2>1. /\ pc'[t] = "idle" /\ completed' = TRUE /\ bestValue' = bestValue
        /\ Sufficient(bestValue)
    BY <1>1, <1>4 DEF Complete, Goto, TypeOK, SearchInvariant, CompletedIsGoodEnough,
       GoodEnough
  <2>2. {u \in Searcher : Searching(u)'} = {u \in Searcher : Searching(u)} \ {t}
    BY <1>3, <2>1 DEF Searching
  <2>3. Optimizer!Finish(t)
    BY <1>2, <2>1, <2>2 DEF Optimizer!Finish
  <2> QED
    BY <2>3 DEF Optimizer!Next
<1>5. CASE ~Complete(t)
  <2>1. completed' = completed /\ pc'[t] # "idle"
    BY <1>1, <1>5, ZenonT(40) DEF SearchStep, Prune, ComputeBound, PublishBound, SelectPartition,
       Rebound, Explore, Update, LoadForQuality, JudgeQuality, CheckSaturation,
       Exhaust, Return, Goto, TypeOK, shared
  <2>2. \A u \in Searcher : Searching(u)' = Searching(u)
    BY <1>2, <1>3, <2>1 DEF Searching
  <2>3. CASE bestValue' = bestValue
    BY <1>1, <2>1, <2>2, <2>3, InternalStep
  <2>4. CASE bestValue' # bestValue
    <3>1. Update(t)
      BY <1>1, <2>4, BestGrows
    <3>2. bestValue' = StructureValue[path[t]] /\ bestValue' > bestValue
      BY <2>4, <3>1 DEF Update
    <3>3. path[t] \in Structure
      <4>1. todo[t] # <<>> /\ pc[t] = "update"
        BY <1>1, <3>1 DEF Update, ThreadInvariant, CallStack
      <4>2. /\ partition[t] \in Partition /\ path[t] \in Seq(Coalitions)
            /\ IsPartial(partition[t], path[t]) /\ Len(path[t]) = Length[partition[t]]
        BY <1>1, <4>1, InSubspace DEF ThreadInvariant
      <4> QED
        BY <4>2, FullLength
    <3>4. Optimizer!Improve
      BY <1>2, <2>1, <2>2, <3>2, <3>3 DEF Optimizer!Improve
    <3> QED
      BY <3>4 DEF Optimizer!Next
  <2> QED
    BY <2>3, <2>4
<1> QED
  BY <1>4, <1>5

(* The object implements the optimizer its interface describes.            *)
THEOREM SearchImplementsOptimizer == Spec => ImplementsOptimizer
<1>1. Init => Optimizer!Init
  BY DEF Init, Optimizer!Init, Searching
<1>2. SearchInvariant /\ SearchInvariant' /\ [Next]_vars
         => [Optimizer!Next]_Optimizer!vars
  <2> SUFFICES ASSUME SearchInvariant, SearchInvariant', [Next]_vars
               PROVE  Optimizer!Next \/ UNCHANGED Optimizer!vars
    OBVIOUS
  <2>1. TypeOK /\ TypeOK' /\ Owner \in Searcher /\ Worker \subseteq Searcher
    BY DEF SearchInvariant, Searcher
  <2>2. ASSUME NEW t \in Searcher, SearchStep(t)
        PROVE  Optimizer!Next \/ UNCHANGED Optimizer!vars
    BY <2>2, SearchStepRefines
  <2>3. ASSUME NEW t \in Searcher, pc[t] = "idle", BeginSearch(t),
               bestValue' = bestValue, completed' \in {completed, FALSE}
        PROVE  Optimizer!Next
    <3>1. {u \in Searcher : Searching(u)'} = {u \in Searcher : Searching(u)} \cup {t}
      BY <2>1, <2>3, SMTT(30) DEF BeginSearch, Goto, TypeOK, Searching
    <3>2. Optimizer!Start(t)
      BY <2>3, <3>1 DEF Optimizer!Start, Searching
    <3> QED
      BY <3>2 DEF Optimizer!Next
  <2>4. CASE OwnerCall
    <3>1. ASSUME NEW w \in Worker, AnytimeSearch(w) PROVE Optimizer!Next
      BY <2>1, <2>3, <3>1 DEF AnytimeSearch
    <3>2. CASE FindBest
      BY <2>1, <2>3, <3>2 DEF FindBest, shared
    <3>3. CASE StopSearch
      <4>1. \A u \in Searcher : Searching(u)' = Searching(u)
        BY <3>3 DEF StopSearch, Searching
      <4> QED
        BY <2>1, <3>3, <4>1, InternalStep DEF StopSearch, shared
    <3>4. CASE ResetValue
      <4>1. {u \in Searcher : Searching(u)} = {}
        BY <3>4 DEF ResetValue, SearchInvariant, ResetAlone, NoSearch
      <4>2. \A u \in Searcher : Searching(u)' = Searching(u)
        BY <2>1, <3>4 DEF ResetValue, Goto, TypeOK, Searching
      <4>3. Optimizer!Restart
        BY <3>4, <4>1, <4>2 DEF ResetValue, Optimizer!Restart
      <4> QED
        BY <4>3 DEF Optimizer!Next
    <3>5. CASE ResetBound
      <4>1. \A u \in Searcher : Searching(u)' = Searching(u)
        BY <2>1, <3>5 DEF ResetBound, Goto, TypeOK, Searching
      <4> QED
        BY <2>1, <3>5, <4>1, InternalStep DEF ResetBound
    <3> QED
      BY <2>4, <3>1, <3>2, <3>3, <3>4, <3>5 DEF OwnerCall
  <2>5. CASE ResetSolution
    <3>1. \A u \in Searcher : Searching(u)' = Searching(u)
      BY <2>1, <2>5 DEF ResetSolution, Goto, TypeOK, Searching
    <3> QED
      BY <2>1, <2>5, <3>1, InternalStep DEF ResetSolution
  <2>6. CASE UNCHANGED vars
    <3>1. \A u \in Searcher : Searching(u)' = Searching(u)
      BY <2>6 DEF vars, Searching
    <3> QED
      BY <2>1, <2>6, <3>1, InternalStep DEF vars, shared
  <2> QED
    BY <2>2, <2>4, <2>5, <2>6 DEF Next
<1> QED
  BY <1>1, <1>2, SearchInvariantHolds, PTL DEF Spec, ImplementsOptimizer, Optimizer!Spec
-----------------------------------------------------------------------------
(* The statistics, which all searches on an object append to: what is      *)
(* pruned held no optimum, and what is neither pruned nor searched is still*)
(* open.                                                                   *)

(* Of a partition that holds an optimal structure the maximum is at least  *)
(* as large as every average.                                              *)
LEMMA OptimalPartition ==
  ASSUME NEW p \in OptimalPartitions
  PROVE  /\ p \in Partition /\ MaxBound[p] \in Nat /\ Tiny <= MaxBound[p]
         /\ \A q \in Partition : AvgBound[q] \in Nat /\ AvgBound[q] <= MaxBound[p]
         /\ \E best \in Optima : best \in Structures[p] /\ StructureValue[best] <= MaxBound[p]
<1>1. PICK best \in Optima : best \in Structures[p]
  BY DEF OptimalPartitions
<1>2. p \in Partition /\ MaxBound[p] \in Nat /\ Tiny <= MaxBound[p]
  BY BoundAssumption DEF OptimalPartitions
<1>3. StructureValue[best] <= MaxBound[p] /\ StructureValue[best] \in Int
  BY <1>1, <1>2, ValueContract, SpaceAssumption DEF Optima
<1>4. ASSUME NEW q \in Partition PROVE AvgBound[q] \in Nat /\ AvgBound[q] <= MaxBound[p]
  <2>1. PICK other \in Structures[q] : AvgBound[q] <= StructureValue[other]
    BY ValueContract
  <2>2. other \in Structure
    BY DEF Structure
  <2>3. StructureValue[other] \in Int /\ StructureValue[other] <= StructureValue[best]
    BY <2>2, SpaceAssumption DEF Optima
  <2>4. AvgBound[q] \in Nat
    BY BoundAssumption
  <2> QED
    BY <1>2, <1>3, <2>1, <2>3, <2>4
<1> QED
  BY <1>1, <1>2, <1>3, <1>4

(* What prepare() prunes without a solution holds no optimum.              *)
LEMMA PreparedPrunesNoOptimum ==
  ASSUME bestValue = 0
  PROVE  PreparedStatistics.pruned \cap OptimalPartitions = {}
<1> SUFFICES ASSUME NEW p \in OptimalPartitions
             PROVE  p \notin PreparedStatistics.pruned
  OBVIOUS
<1>1. /\ p \in Partition /\ MaxBound[p] \in Nat
      /\ \A q \in Partition : AvgBound[q] \in Nat /\ AvgBound[q] <= MaxBound[p]
  BY OptimalPartition
<1>2. ~(MaxBound[p] < bestValue) /\ ~ \E q \in Partition : MaxBound[p] < AvgBound[q]
  BY <1>1
<1> QED
  BY <1>2 DEF PreparedStatistics

(* A search that prunes a partition with an optimal structure has found one*)
(* of the requested quality: its maximum is below the best value, or it is *)
(* the partition searched last, which was searched in full.                *)
LEMMA PrunedOptimum ==
  ASSUME SearchInvariant, NEW t \in Searcher, Prune(t),
         NEW p \in Dominated(t), p \in OptimalPartitions
  PROVE  GoodEnough
<1>1. /\ TypeOK /\ ThreadInvariant(t) /\ pc[t] = "prune" /\ Searching(t)
      /\ exact[t] <= bestValue /\ exact[t] \in Nat /\ bestValue \in Nat
      /\ open[t] \subseteq Partition /\ p \in open[t]
  BY DEF SearchInvariant, ThreadInvariant, MapEntry, TypeOK, Prune, Searching, Dominated
<1>2. /\ p \in Partition /\ MaxBound[p] \in Nat /\ Tiny <= MaxBound[p] /\ Tiny \in Nat
      /\ \A q \in Partition : AvgBound[q] \in Nat /\ AvgBound[q] <= MaxBound[p]
  BY OptimalPartition, BoundAssumption
<1>3. PICK best \in Optima : best \in Structures[p] /\ StructureValue[best] <= MaxBound[p]
  BY OptimalPartition
<1> SUFFICES ASSUME ~GoodEnough PROVE FALSE
  OBVIOUS
<1>4. /\ CanReach(t, best)
      /\ StructureValue[best] \in Int /\ bestValue < StructureValue[best]
  BY <1>1, StillToFind
<1>5. CASE p = partition[t]
  <2>1. PICK q \in open[t] \ {p} : best \in Structures[q]
    BY <1>1, <1>4, <1>5, ReachByPartition DEF ThreadInvariant
  <2>2. Structures[p] \cap Structures[q] = {}
    BY <1>1, <1>2, <2>1, DistinctPartitions
  <2> QED
    BY <1>3, <2>1, <2>2
<1>6. CASE p # partition[t]
  <2>1. UpperOf(t, p) = MaxBound[p]
    BY <1>6 DEF UpperOf
  <2>2. \A q \in open[t] : AverageOf(t, q) \in Nat /\ AverageOf(t, q) <= MaxBound[p]
    BY <1>1, <1>2, <1>3, <1>4 DEF AverageOf
  <2>3. p \notin Dominated(t)
    BY <1>1, <1>2, <1>3, <1>4, <2>1, <2>2 DEF Dominated
  <2> QED
    BY <2>3
<1> QED
  BY <1>5, <1>6

-----------------------------------------------------------------------------
(* The invariant                                                           *)

(* Without a search there is nothing to account for.                      *)
LEMMA StatisticsInit == Init => StatisticsInvariant
<1> SUFFICES ASSUME Init PROVE StatisticsInvariant
  OBVIOUS
<1>1. \A t \in Searcher : pc[t] = "idle"
  BY DEF Init
<1>2. PrunedHoldNoOptimum
  BY PreparedPrunesNoOptimum DEF Init, PrunedHoldNoOptimum
<1>3. StatisticsCleared /\ \A t \in Searcher : Accounted(t)
  BY <1>1 DEF StatisticsCleared, Accounted, Searching, Searcher
<1>4. SearchedAreVisited
  BY DEF Init, PreparedStatistics, SearchedAreVisited
<1> QED
  BY <1>2, <1>3, <1>4 DEF StatisticsInvariant

(* The statistics only grow while a search runs, and a search that does not*)
(* move keeps its account.                                                 *)
LEMMA AccountKept ==
  ASSUME NEW u \in Searcher, Accounted(u), Untouched(u),
         statistics.pruned \subseteq statistics'.pruned,
         statistics.searched \subseteq statistics'.searched
  PROVE  Accounted(u)'
BY DEF Accounted, Untouched, Searching, Remaining

(* The shape of a change of the statistics by a search.                    *)
LEMMA StatisticsGrow ==
  ASSUME TypeOK, NEW t \in Searcher, SearchStep(t)
  PROVE  /\ statistics.pruned \subseteq statistics'.pruned
         /\ statistics.searched \subseteq statistics'.searched
         /\ ~Prune(t) => statistics'.pruned = statistics.pruned
<1> USE DEF TypeOK, shared
<1>1. CASE Prune(t)
  BY <1>1 DEF Prune
<1>2. CASE SelectPartition(t)
  BY <1>2 DEF SelectPartition
<1>3. CASE ~Prune(t) /\ ~SelectPartition(t)
  <2>1. statistics' = statistics
    BY <1>3 DEF SearchStep, ComputeBound, PublishBound, Rebound, Complete, Explore,
       Update, LoadForQuality, JudgeQuality, CheckSaturation, Exhaust
  <2> QED
    BY <2>1
<1> QED
  BY <1>1, <1>2, <1>3

(* A search closes a partition only by pruning it or after recording it as *)
(* searched.                                                               *)
LEMMA AccountSearchStep ==
  ASSUME TypeOK, NEW t \in Searcher, Accounted(t), ThreadInvariant(t), SearchStep(t)
  PROVE  Accounted(t)'
<1>1. Searching(t)
  BY SearchStepLabels
<1>2. /\ Partition \ (statistics.pruned \cup statistics.searched) \subseteq open[t]
      /\ partition[t] \in Partition => partition[t] \in statistics.searched
  BY <1>1 DEF Accounted, Remaining
<1> USE DEF TypeOK, Goto, shared, Remaining
<1>3. CASE Prune(t)
  <2>1. /\ open'[t] = open[t] \ Dominated(t) /\ partition' = partition
        /\ statistics'.pruned = statistics.pruned \cup Dominated(t)
        /\ statistics'.searched = statistics.searched
    BY <1>3 DEF Prune
  <2> QED
    BY <1>2, <2>1 DEF Accounted
<1>4. CASE PublishBound(t)
  <2>1. /\ open'[t] = open[t] \ {partition[t]} /\ partition'[t] = NoPartition
        /\ statistics' = statistics
    BY <1>4 DEF PublishBound
  <2> QED
    BY <1>2, <2>1, SpaceAssumption DEF Accounted
<1>5. CASE SelectPartition(t)
  <2>1. PICK p \in open[t] : /\ partition' = [partition EXCEPT ![t] = p]
                             /\ statistics' = [statistics EXCEPT !.searched = @ \cup {p}]
    BY <1>5 DEF SelectPartition
  <2>2. /\ open' = open /\ partition'[t] = p
        /\ statistics'.pruned = statistics.pruned
        /\ statistics'.searched = statistics.searched \cup {p}
    BY <1>5, <2>1 DEF SelectPartition
  <2> QED
    BY <1>2, <2>2 DEF Accounted
<1>6. CASE Complete(t)
  BY <1>6 DEF Complete, Accounted, Searching
<1>7. CASE JudgeQuality(t) \/ CheckSaturation(t) \/ Exhaust(t)
  <2>1. /\ open'[t] = open[t] \/ open'[t] = open[t] \ {partition[t]}
        /\ partition' = partition /\ statistics' = statistics
    BY <1>7 DEF JudgeQuality, CheckSaturation, Exhaust, Return
  <2> QED
    BY <1>2, <2>1 DEF Accounted
<1>8. CASE ComputeBound(t) \/ Rebound(t) \/ Explore(t) \/ Update(t) \/ LoadForQuality(t)
  <2>1. open' = open /\ partition' = partition /\ statistics' = statistics
    BY <1>8 DEF ComputeBound, Rebound, Explore, Update, LoadForQuality
  <2> QED
    BY <1>2, <2>1 DEF Accounted
<1> QED
  BY <1>3, <1>4, <1>5, <1>6, <1>7, <1>8 DEF SearchStep

(* A search that goes on has closed what it began on and left, and begins  *)
(* on what it records.                                                     *)
LEMMA VisitedSearchStep ==
  ASSUME TypeOK, NEW t \in Searcher, ThreadInvariant(t), SearchStep(t), ~Complete(t),
         NEW p \in Partition
  PROVE  /\ Visited(t, p) => Visited(t, p)'
         /\ p \in statistics'.searched => p \in statistics.searched \/ Visited(t, p)'
<1>1. Searching(t) /\ Searching(t)'
  <2>1. Searching(t) /\ pc'[t] \notin {"resetValue", "resetBound"}
    BY SearchStepLabels
  <2>2. pc'[t] # "idle"
    BY DEF TypeOK, Goto, SearchStep, Prune, ComputeBound, PublishBound, SelectPartition, Rebound,
       Explore, Update, LoadForQuality, JudgeQuality, CheckSaturation, Exhaust, Return
  <2> QED
    BY <2>1, <2>2 DEF Searching
<1>2. NoPartition # p
  BY SpaceAssumption
<1> USE DEF TypeOK, shared
<1>3. CASE Prune(t)
  <2>1. /\ open'[t] = open[t] \ Dominated(t) /\ partition' = partition
        /\ statistics'.searched = statistics.searched
    BY <1>3 DEF Prune
  <2> QED
    BY <1>1, <2>1 DEF Visited
<1>4. CASE PublishBound(t)
  <2>1. /\ open'[t] = open[t] \ {partition[t]} /\ statistics' = statistics
    BY <1>4 DEF PublishBound
  <2> QED
    BY <1>1, <2>1 DEF Visited
<1>5. CASE SelectPartition(t)
  <2>1. PICK q \in open[t] : /\ partition' = [partition EXCEPT ![t] = q]
                             /\ statistics' = [statistics EXCEPT !.searched = @ \cup {q}]
    BY <1>5 DEF SelectPartition
  <2>2. open' = open /\ partition'[t] = q /\ statistics'.searched = statistics.searched \cup {q}
    BY <1>5, <2>1 DEF SelectPartition
  <2>3. partition[t] = NoPartition
    BY <1>5 DEF SelectPartition, ThreadInvariant, MapEntry
  <2> QED
    BY <1>1, <1>2, <2>2, <2>3 DEF Visited
<1>6. CASE JudgeQuality(t) \/ CheckSaturation(t) \/ Exhaust(t)
  <2>1. /\ open'[t] = open[t] \/ open'[t] = open[t] \ {partition[t]}
        /\ partition' = partition /\ statistics' = statistics
    BY <1>6 DEF JudgeQuality, CheckSaturation, Exhaust, Return
  <2> QED
    BY <1>1, <2>1 DEF Visited
<1>7. CASE ComputeBound(t) \/ Rebound(t) \/ Explore(t) \/ Update(t) \/ LoadForQuality(t)
  <2>1. open' = open /\ partition' = partition /\ statistics' = statistics
    BY <1>7 DEF ComputeBound, Rebound, Explore, Update, LoadForQuality
  <2> QED
    BY <1>1, <2>1 DEF Visited
<1> QED
  BY <1>3, <1>4, <1>5, <1>6, <1>7 DEF SearchStep

(* A step of a search keeps the books of its own thread and disturbs no   *)
(* other's.                                                               *)
LEMMA StatisticsSearchStep ==
  ASSUME SearchInvariant, SearchInvariant', StatisticsInvariant,
         NEW t \in Searcher, SearchStep(t)
  PROVE  StatisticsInvariant'
<1>1. /\ TypeOK /\ TypeOK' /\ \A u \in Searcher : ThreadInvariant(u) /\ Accounted(u)
      /\ PrunedHoldNoOptimum /\ SearchedAreVisited
  BY DEF SearchInvariant, StatisticsInvariant
<1>2. /\ statistics.pruned \subseteq statistics'.pruned
      /\ statistics.searched \subseteq statistics'.searched
      /\ ~Prune(t) => statistics'.pruned = statistics.pruned
  BY <1>1, StatisticsGrow
<1>3. \A u \in Searcher : Accounted(u)'
  <2> SUFFICES ASSUME NEW u \in Searcher PROVE Accounted(u)'
    OBVIOUS
  <2>1. CASE u = t
    BY <1>1, <2>1, AccountSearchStep
  <2>2. CASE u # t
    BY <1>1, <1>2, <2>2, OthersUntouched, AccountKept
  <2> QED
    BY <2>1, <2>2
<1>4. GoodEnough => GoodEnough'
  <2>1. bestValue <= bestValue' /\ bestValue \in Nat /\ bestValue' \in Nat
    BY <1>1, BestGrows DEF TypeOK
  <2> QED
    BY <2>1, SufficientMonotone DEF GoodEnough
<1>5. PrunedHoldNoOptimum'
  <2>1. OptimalPartitions' = OptimalPartitions
    BY DEF OptimalPartitions, Optima, Structure, Structures, IsPartial, Prefix
  <2> SUFFICES ASSUME NEW p \in statistics'.pruned, p \in OptimalPartitions
               PROVE  GoodEnough'
    BY <2>1 DEF PrunedHoldNoOptimum
  <2>2. CASE p \in statistics.pruned
    BY <1>1, <1>4, <2>2 DEF PrunedHoldNoOptimum
  <2>3. CASE p \notin statistics.pruned
    <3>1. Prune(t)
      BY <1>2, <2>3
    <3>2. p \in Dominated(t)
      BY <1>1, <2>3, <3>1 DEF Prune, TypeOK
    <3> QED
      BY <1>4, <3>1, <3>2, PrunedOptimum
  <2> QED
    BY <2>2, <2>3
<1>6. StatisticsCleared'
  <2>1. Searching(t) /\ pc'[t] \notin {"resetValue", "resetBound"}
    BY <1>1, SearchStepLabels
  <2>2. pc[Owner] \notin {"resetValue", "resetBound"}
    BY <2>1 DEF SearchInvariant, ResetAlone, NoSearch
  <2>3. Owner = t \/ pc'[Owner] = pc[Owner]
    BY <1>1, OthersUntouched DEF Untouched, Searcher
  <2> QED
    BY <2>1, <2>2, <2>3 DEF StatisticsCleared
<1>7. SearchedAreVisited'
  <2> SUFFICES ASSUME NEW p \in statistics'.searched
               PROVE  GoodEnough' \/ \E u \in Searcher : Visited(u, p)'
    BY DEF SearchedAreVisited
  <2>1. p \in Partition
    BY <1>1 DEF TypeOK
  <2>2. CASE GoodEnough
    BY <1>4, <2>2
  <2>3. CASE Complete(t)
    <3>1. GoodEnough
      BY <2>3 DEF Complete, SearchInvariant, CompletedIsGoodEnough
    <3> QED
      BY <1>4, <3>1
  <2>4. CASE ~GoodEnough /\ ~Complete(t)
    <3>1. CASE p \in statistics.searched
      <4>1. PICK u \in Searcher : Visited(u, p)
        BY <1>1, <2>4, <3>1 DEF SearchedAreVisited
      <4>2. CASE u = t
        BY <1>1, <2>1, <2>4, <4>1, <4>2, VisitedSearchStep
      <4>3. CASE u # t
        BY <1>1, <4>1, <4>3, OthersUntouched DEF Visited, Untouched, Searching
      <4> QED
        BY <4>2, <4>3
    <3>2. CASE p \notin statistics.searched
      BY <1>1, <2>1, <2>4, <3>2, VisitedSearchStep
    <3> QED
      BY <3>1, <3>2
  <2> QED
    BY <2>2, <2>3, <2>4
<1> QED
  BY <1>3, <1>5, <1>6, <1>7 DEF StatisticsInvariant

(* A step that leaves the statistics and the best value alone, lets each   *)
(* search be and may let a thread begin one.                               *)
LEMMA StatisticsKept ==
  ASSUME StatisticsInvariant, UNCHANGED <<statistics, bestValue>>,
         pc'[Owner] \in {"resetValue", "resetBound"}
            => pc[Owner] \in {"resetValue", "resetBound"},
         \A u \in Searcher : \/ Untouched(u)
                             \/ /\ ~Searching(u)
                                /\ open'[u] = Partition /\ partition'[u] = NoPartition
  PROVE  StatisticsInvariant'
<1>1. PrunedHoldNoOptimum'
  BY DEF StatisticsInvariant, PrunedHoldNoOptimum, GoodEnough, OptimalPartitions
<1>2. StatisticsCleared'
  BY DEF StatisticsInvariant, StatisticsCleared
<1>3. ASSUME NEW u \in Searcher PROVE Accounted(u)'
  <2>1. CASE Untouched(u)
    BY <2>1, AccountKept DEF StatisticsInvariant
  <2>2. CASE open'[u] = Partition /\ partition'[u] = NoPartition
    BY <2>2, SpaceAssumption DEF Accounted, Remaining
  <2> QED
    BY <2>1, <2>2
<1>4. SearchedAreVisited'
  <2> SUFFICES ASSUME NEW p \in statistics.searched, ~GoodEnough
               PROVE  \E u \in Searcher : Visited(u, p)'
    BY DEF SearchedAreVisited, GoodEnough
  <2>1. PICK u \in Searcher : Visited(u, p)
    BY DEF StatisticsInvariant, SearchedAreVisited
  <2>2. Untouched(u)
    BY <2>1 DEF Visited
  <2> QED
    BY <2>1, <2>2 DEF Visited, Untouched, Searching
<1> QED
  BY <1>1, <1>2, <1>3, <1>4 DEF StatisticsInvariant

(* reset() with the object to itself clears the statistics before the     *)
(* best value.                                                            *)
LEMMA StatisticsReset ==
  ASSUME SearchInvariant, SearchInvariant', StatisticsInvariant, NoSearch,
         ResetSolution \/ ResetValue \/ ResetBound
  PROVE  StatisticsInvariant'
<1>1. TypeOK /\ Owner \in Searcher
  BY DEF SearchInvariant, Searcher
<1>2. \A u \in Searcher : ~Searching(u)'
  BY <1>1 DEF NoSearch, Searching, ResetSolution, ResetValue, ResetBound, Goto, TypeOK
<1>3. \A u \in Searcher : Accounted(u)'
  BY <1>2 DEF Accounted
<1>4. CASE ResetSolution \/ ResetValue
  <2>1. statistics' = NoStatistics
    BY <1>4 DEF ResetSolution, ResetValue, StatisticsInvariant, StatisticsCleared
  <2>2. statistics'.pruned = {} /\ statistics'.searched = {}
    BY <2>1 DEF NoStatistics
  <2>3. NoStatistics' = NoStatistics
    BY DEF NoStatistics
  <2> QED
    BY <1>3, <2>1, <2>2, <2>3 DEF StatisticsInvariant, StatisticsCleared, PrunedHoldNoOptimum,
       SearchedAreVisited
<1>5. CASE ResetBound
  <2>1. pc[Owner] = "resetBound" /\ pc'[Owner] = "idle" /\ statistics' = PreparedStatistics
    BY <1>1, <1>5 DEF ResetBound, Goto, TypeOK
  <2>2. bestValue = 0
    BY <2>1 DEF SearchInvariant, ResetAlone, SolutionHasItsValue
  <2>3. statistics'.pruned \cap OptimalPartitions = {}
    BY <2>1, <2>2, PreparedPrunesNoOptimum
  <2>4. statistics'.searched = {}
    BY <2>1 DEF PreparedStatistics
  <2> QED
    BY <1>3, <2>1, <2>3, <2>4 DEF StatisticsInvariant, StatisticsCleared, PrunedHoldNoOptimum,
       OptimalPartitions, SearchedAreVisited
<1> QED
  BY <1>4, <1>5

(* Every step keeps the invariant.                                        *)
LEMMA StatisticsNext ==
  SearchInvariant /\ SearchInvariant' /\ StatisticsInvariant /\ [Next]_vars
    => StatisticsInvariant'
<1> SUFFICES ASSUME SearchInvariant, SearchInvariant', StatisticsInvariant, [Next]_vars
             PROVE  StatisticsInvariant'
  OBVIOUS
<1>1. TypeOK /\ Owner \in Searcher /\ Worker \subseteq Searcher
  BY DEF SearchInvariant, Searcher
<1>2. ASSUME NEW t \in Searcher, SearchStep(t) PROVE StatisticsInvariant'
  BY <1>2, StatisticsSearchStep
<1>3. ASSUME NEW t \in Searcher, pc[t] = "idle", BeginSearch(t), UNCHANGED <<statistics, bestValue>>
      PROVE  StatisticsInvariant'
  <2>1. ASSUME NEW u \in Searcher
        PROVE  \/ Untouched(u)
               \/ ~Searching(u) /\ open'[u] = Partition /\ partition'[u] = NoPartition
    BY <1>1, <1>3 DEF BeginSearch, Goto, Untouched, TypeOK, Searching
  <2>2. pc'[Owner] = pc[Owner] \/ pc'[Owner] = "prune"
    BY <1>1, <1>3 DEF BeginSearch, Goto, TypeOK
  <2> QED
    BY <1>3, <2>1, <2>2, StatisticsKept
<1>4. CASE OwnerCall
  <2>1. ASSUME NEW w \in Worker, AnytimeSearch(w) PROVE StatisticsInvariant'
    BY <1>1, <1>3, <2>1 DEF AnytimeSearch
  <2>2. CASE FindBest
    BY <1>1, <1>3, <2>2 DEF FindBest, shared
  <2>3. CASE StopSearch
    <3>1. \A u \in Searcher : Untouched(u)
      BY <2>3 DEF StopSearch, Untouched, local
    <3> QED
      BY <2>3, <3>1, StatisticsKept DEF StopSearch, shared
  <2>4. CASE ResetValue \/ ResetBound
    <3>1. NoSearch
      BY <2>4 DEF ResetValue, ResetBound, SearchInvariant, ResetAlone
    <3> QED
      BY <2>4, <3>1, StatisticsReset
  <2> QED
    BY <1>4, <2>1, <2>2, <2>3, <2>4 DEF OwnerCall
<1>5. CASE NoSearch /\ ResetSolution
  BY <1>5, StatisticsReset
<1>6. CASE UNCHANGED vars
  <2>1. \A u \in Searcher : Untouched(u)
    BY <1>6 DEF vars, local, Untouched
  <2> QED
    BY <1>6, <2>1, StatisticsKept DEF vars, shared
<1> QED
  BY <1>2, <1>4, <1>5, <1>6 DEF Next

-----------------------------------------------------------------------------
(* Theorems                                                                *)

(* Pruning, an account of what is closed and the clearing of the statistics*)
(* by a reset together are preserved by every step.                        *)
THEOREM StatisticsInvariantHolds == Spec => []StatisticsInvariant
<1>1. Init => StatisticsInvariant
  BY StatisticsInit
<1>2. SearchInvariant /\ SearchInvariant' /\ StatisticsInvariant /\ [Next]_vars
        => StatisticsInvariant'
  BY StatisticsNext
<1> QED
  BY <1>1, <1>2, SearchInvariantHolds, PTL DEF Spec

(* A partition any search has pruned since the last reset held no optimal  *)
(* structure, unless one of the requested quality has been found.          *)
THEOREM PruningIsSafe == Spec => []PrunedHoldNoOptimum
<1>1. StatisticsInvariant => PrunedHoldNoOptimum
  BY DEF StatisticsInvariant
<1> QED
  BY <1>1, StatisticsInvariantHolds, PTL

(* A partition that counts as searched and holds an optimal structure is   *)
(* being searched, or something good enough has been found: a search that  *)
(* has closed it no longer has the structure in reach.                     *)
LEMMA SearchedOptimum ==
  ASSUME SearchInvariant, StatisticsInvariant, NEW p \in statistics.searched,
         p \in OptimalPartitions, ~GoodEnough
  PROVE  \E t \in Searcher : WithinSearchOf(t, p)
<1>1. PICK t \in Searcher : Visited(t, p)
  BY DEF StatisticsInvariant, SearchedAreVisited
<1>2. PICK best \in Optima : best \in Structures[p]
  BY DEF OptimalPartitions
<1>3. TypeOK /\ ThreadInvariant(t) /\ Searching(t) /\ p \in Partition
  BY <1>1 DEF SearchInvariant, Visited, OptimalPartitions
<1>4. CanReach(t, best)
  BY <1>2, <1>3, StillToFind
<1>5. \A q \in Partition : best \in Structures[q] => q = p
  BY <1>2, <1>3, DistinctPartitions
<1>6. ~ \E q \in open[t] \ {partition[t]} : best \in Structures[q]
  <2>1. open[t] \subseteq Partition
    BY <1>3 DEF TypeOK
  <2> QED
    BY <1>1, <1>5, <2>1 DEF Visited
<1>7. /\ partition[t] \in Partition /\ best \in Structures[partition[t]]
      /\ (\E i \in 1 .. Len(todo[t]) : TRUE) \/ pc[t] = "update"
  BY <1>4, <1>6 DEF CanReach
<1>8. todo[t] # <<>>
  BY <1>3, <1>7 DEF ThreadInvariant, CallStack
<1> QED
  BY <1>5, <1>7, <1>8 DEF WithinSearchOf

(* ProgressIsAccounted: whatever the searches append to the statistics,    *)
(* what counts as remaining is open in each of them, and an optimum in what*)
(* counts as searched is found or being searched for.                      *)
THEOREM ProgressIsHonest == Spec => []ProgressIsAccounted
<1>1. SearchInvariant /\ StatisticsInvariant => ProgressIsAccounted
  <2> SUFFICES ASSUME SearchInvariant, StatisticsInvariant PROVE ProgressIsAccounted
    OBVIOUS
  <2>1. \A t \in Searcher : Searching(t) => Remaining \subseteq open[t]
    BY DEF StatisticsInvariant, Accounted
  <2>2. \A p \in statistics.searched \cap OptimalPartitions :
           GoodEnough \/ \E t \in Searcher : WithinSearchOf(t, p)
    BY SearchedOptimum
  <2> QED
    BY <2>1, <2>2 DEF ProgressIsAccounted
<1> QED
  BY <1>1, SearchInvariantHolds, StatisticsInvariantHolds, PTL

-----------------------------------------------------------------------------
(* The search space.                                                       *)
StructuresTypeOK ==
  /\ agentCount \in Nat \ {0}
  /\ values \in [(SUBSET AllAgents) \ {{}} -> Nat]
  /\ blocks \in SetPartitions

(* Nothing changes; all there is to say is what StructuresInit admits. *)
LEMMA TypesStay == StructuresSpec => []StructuresTypeOK
<1>1. StructuresInit => StructuresTypeOK
  <2> SUFFICES ASSUME StructuresInit PROVE StructuresTypeOK
    OBVIOUS
  <2> USE InstancesAreReal DEF InstanceAssumption, StructuresTypeOK, StructuresInit
  <2>1. CASE /\ agentCount = FewAgents
             /\ values \in [(SUBSET AllAgents) \ {{}} -> Levels]
    BY <2>1
  <2>2. CASE /\ agentCount = ManyAgents
             /\ values = [c \in (SUBSET AllAgents) \ {{}} |-> 60]
    BY <2>2
  <2> QED
    BY <2>1, <2>2
<1>2. StructuresTypeOK /\ [StructuresNext]_<<agentCount, values, blocks>> => StructuresTypeOK'
  <2> SUFFICES ASSUME StructuresTypeOK, [StructuresNext]_<<agentCount, values, blocks>> PROVE StructuresTypeOK'
    OBVIOUS
  <2>1. agentCount' = agentCount /\ values' = values /\ blocks' = blocks
    BY DEF StructuresNext
  <2>2. AllAgents' = AllAgents
    BY <2>1 DEF AllAgents
  <2>3. SetPartitions' = SetPartitions
    BY <2>2 DEF SetPartitions
  <2> QED
    BY <2>1, <2>2, <2>3 DEF StructuresTypeOK
<1> QED
  BY <1>1, <1>2, PTL DEF StructuresSpec

(* Coalition structures: disjoint coalitions that hold all agents.         *)
Divides(P) ==
  /\ P \subseteq SUBSET AllAgents
  /\ {} \notin P
  /\ UNION P = AllAgents
  /\ \A b, c \in P : b # c => b \cap c = {}

(* The agents are finitely many natural numbers.                           *)
LEMMA AgentsAreNumbers ==
  ASSUME StructuresTypeOK
  PROVE  /\ AllAgents \subseteq Nat /\ IsFiniteSet(AllAgents)
         /\ Cardinality(AllAgents) = agentCount
         /\ Space!Agents = AllAgents
<1>1. agentCount \in Nat \ {0}
  BY DEF StructuresTypeOK
<1>2. IsFiniteSet(1 .. agentCount) /\ Cardinality(1 .. agentCount) = agentCount
  BY <1>1, FS_Interval
<1> QED
  BY <1>1, <1>2 DEF AllAgents, Space!Agents

(* The smallest agent of a coalition.                                      *)
LEMMA MinIsLeast ==
  ASSUME NEW S, S \subseteq Nat, S # {}
  PROVE  /\ Min(S) \in S /\ \A x \in S : Min(S) <= x
         /\ Space!Min(S) = Min(S)
<1>1. \E x \in S : \A y \in S : x <= y
  BY LeastExists
<1> QED
  BY <1>1 DEF Min, Space!Min

(* The reference definition, by a leader of each block, gives divisions ...*)
LEMMA SetPartitionDivides ==
  ASSUME StructuresTypeOK, NEW P \in SetPartitions
  PROVE  Divides(P)
<1>1. PICK f \in [AllAgents -> AllAgents] :
         /\ \A a \in AllAgents : f[a] <= a /\ f[f[a]] = f[a]
         /\ P = {{a \in AllAgents : f[a] = l} : l \in {f[a] : a \in AllAgents}}
  BY DEF SetPartitions
<1>2. \A a \in AllAgents : {b \in AllAgents : f[b] = f[a]} \in P
  BY <1>1
<1>3. \A b \in P : \E a \in AllAgents : b = {c \in AllAgents : f[c] = f[a]}
  BY <1>1
<1>4. {} \notin P
  BY <1>3
<1>5. UNION P = AllAgents
  <2>1. UNION P \subseteq AllAgents
    BY <1>3
  <2>2. AllAgents \subseteq UNION P
    <3> SUFFICES ASSUME NEW a \in AllAgents PROVE a \in UNION P
      OBVIOUS
    <3>1. a \in {b \in AllAgents : f[b] = f[a]}
      OBVIOUS
    <3> QED
      BY <1>2, <3>1
  <2> QED
    BY <2>1, <2>2
<1>6. \A b, c \in P : b # c => b \cap c = {}
  <2> SUFFICES ASSUME NEW b \in P, NEW c \in P, NEW x \in b \cap c PROVE b = c
    OBVIOUS
  <2>1. PICK p \in AllAgents : b = {y \in AllAgents : f[y] = f[p]}
    BY <1>3
  <2>2. PICK q \in AllAgents : c = {y \in AllAgents : f[y] = f[q]}
    BY <1>3
  <2> QED
    BY <2>1, <2>2
<1>7. P \subseteq SUBSET AllAgents
  BY <1>3
<1> QED
  BY <1>4, <1>5, <1>6, <1>7 DEF Divides

(* ... and all of them: the leader is the smallest agent.                  *)
LEMMA DivisionIsSetPartition ==
  ASSUME StructuresTypeOK, NEW P, Divides(P)
  PROVE  P \in SetPartitions
<1> DEFINE block(a) == CHOOSE b \in P : a \in b
           f == [a \in AllAgents |-> Min(block(a))]
<1>1. \A a \in AllAgents : block(a) \in P /\ a \in block(a)
  BY DEF Divides
<1>2. \A b \in P : \A a \in b : a \in AllAgents /\ block(a) = b
  BY <1>1 DEF Divides
<1>3. \A b \in P : Min(b) \in b /\ \A a \in b : Min(b) <= a
  <2> TAKE b \in P
  <2>1. b \subseteq Nat /\ b # {}
    BY AgentsAreNumbers DEF Divides
  <2> QED
    BY <2>1, MinIsLeast
<1> HIDE DEF block
<1>4. \A b \in P : \A a \in b : f[a] = Min(b)
  BY <1>2
<1>5. f \in [AllAgents -> AllAgents]
  BY <1>1, <1>2, <1>3
<1>6. \A a \in AllAgents : f[a] <= a /\ f[f[a]] = f[a]
  BY <1>1, <1>2, <1>3, <1>4
<1> HIDE DEF f
<1>7. \A b \in P : b = {a \in AllAgents : f[a] = Min(b)}
  <2> SUFFICES ASSUME NEW b \in P, NEW a \in AllAgents, f[a] = Min(b) PROVE a \in b
    BY <1>2, <1>4
  <2>1. Min(block(a)) = Min(b)
    BY <1>1, <1>4
  <2>2. Min(b) \in b /\ Min(b) \in block(a)
    BY <1>1, <1>3, <2>1
  <2>3. block(a) = b
    BY <1>1, <1>2, <2>2
  <2> QED
    BY <1>1, <2>3
<1>8. P = {{a \in AllAgents : f[a] = l} : l \in {f[a] : a \in AllAgents}}
  <2>1. \A b \in P : \E l \in {f[a] : a \in AllAgents} : b = {a \in AllAgents : f[a] = l}
    <3> TAKE b \in P
    <3>1. Min(b) \in AllAgents /\ f[Min(b)] = Min(b)
      BY <1>2, <1>3, <1>4
    <3> QED
      BY <1>7, <3>1
  <2>2. \A p \in AllAgents : {a \in AllAgents : f[a] = f[p]} \in P
    <3> TAKE p \in AllAgents
    <3>1. block(p) \in P /\ f[p] = Min(block(p))
      BY <1>1, <1>4
    <3>2. block(p) = {a \in AllAgents : f[a] = Min(block(p))}
      BY <1>7, <3>1
    <3> QED
      BY <3>1, <3>2
  <2> QED
    BY <2>1, <2>2
<1> QED
  BY <1>5, <1>6, <1>8 DEF SetPartitions

-----------------------------------------------------------------------------
(* Structures as sequences of coalitions                                   *)

(* A division has no more coalitions than there are agents.                *)
LEMMA DivisionIsFinite ==
  ASSUME StructuresTypeOK, NEW P, Divides(P)
  PROVE  /\ IsFiniteSet(P) /\ Cardinality(P) \in Nat \ {0} /\ Cardinality(P) <= agentCount
         /\ \A b \in P : b \subseteq AllAgents /\ b # {} /\ IsFiniteSet(b) /\ Cardinality(b) \in 1 .. agentCount
<1> DEFINE leader == [b \in P |-> Min(b)]
<1>0. /\ AllAgents \subseteq Nat /\ IsFiniteSet(AllAgents) /\ Cardinality(AllAgents) = agentCount
      /\ agentCount \in Nat \ {0}
  BY AgentsAreNumbers DEF StructuresTypeOK
<1>1. IsFiniteSet(P)
  <2>1. IsFiniteSet(SUBSET AllAgents)
    BY <1>0, FS_SUBSET
  <2> QED
    BY <2>1, FS_Subset DEF Divides
<1>2. \A b \in P : b \subseteq AllAgents /\ b # {} /\ Min(b) \in b
  <2> TAKE b \in P
  <2>1. b \subseteq Nat /\ b # {} /\ b \subseteq AllAgents
    BY <1>0 DEF Divides
  <2> QED
    BY <2>1, MinIsLeast
<1>3. leader \in Injection(P, AllAgents)
  <2>1. leader \in [P -> AllAgents]
    BY <1>2
  <2>2. \A b, c \in P : leader[b] = leader[c] => b = c
    BY <1>2 DEF Divides
  <2> QED
    BY <2>1, <2>2 DEF Injection, IsInjective
<1>4. Cardinality(P) <= agentCount /\ Cardinality(P) \in Nat
  BY <1>0, <1>1, <1>3, FS_Injection, FS_CardinalityType
<1>5. Cardinality(P) # 0
  <2>1. 1 \in AllAgents
    BY <1>0 DEF AllAgents
  <2>2. P # {}
    BY <2>1 DEF Divides
  <2> QED
    BY <1>1, <2>2, FS_EmptySet
<1>6. ASSUME NEW b \in P PROVE IsFiniteSet(b) /\ Cardinality(b) \in 1 .. agentCount
  <2>1. IsFiniteSet(b) /\ Cardinality(b) <= agentCount
    BY <1>0, <1>2, FS_Subset
  <2>2. Cardinality(b) \in Nat /\ Cardinality(b) # 0
    BY <1>2, <2>1, FS_CardinalityType, FS_EmptySet
  <2> QED
    BY <1>0, <2>1, <2>2
<1> QED
  BY <1>1, <1>2, <1>4, <1>5, <1>6

(* A division in some order: what SetToSeqs yields.                        *)
Ordered(cs, P) ==
  /\ cs \in [1 .. Cardinality(P) -> P]
  /\ \A i, j \in 1 .. Cardinality(P) : i # j => cs[i] # cs[j]

(* It holds every coalition, and its sizes sum up to the agents.           *)
LEMMA OrderedFacts ==
  ASSUME StructuresTypeOK, NEW P, Divides(P), NEW cs, Ordered(cs, P)
  PROVE  /\ \A b \in P : \E i \in DOMAIN cs : cs[i] = b
         /\ DOMAIN cs = 1 .. Cardinality(P) /\ IsFiniteSet(DOMAIN cs)
         /\ Parted(cs, DOMAIN cs, AllAgents)
         /\ \A i \in DOMAIN cs : cs[i] \in (SUBSET AllAgents) \ {{}} /\ IsFiniteSet(cs[i])
         /\ SumFunctionOnSet(Shape(cs), DOMAIN cs) = agentCount
         /\ Shape(cs) \in [DOMAIN cs -> 1 .. agentCount]
<1> DEFINE D == 1 .. Cardinality(P)
<1>0. /\ IsFiniteSet(P) /\ Cardinality(P) \in Nat /\ IsFiniteSet(AllAgents) /\ Cardinality(AllAgents) = agentCount
      /\ \A b \in P : b \subseteq AllAgents /\ b # {} /\ IsFiniteSet(b) /\ Cardinality(b) \in 1 .. agentCount
  BY DivisionIsFinite, AgentsAreNumbers
<1>1. DOMAIN cs = D /\ IsFiniteSet(D) /\ Cardinality(D) = Cardinality(P)
  BY <1>0, FS_Interval DEF Ordered
<1>2. cs \in Injection(D, P)
  BY <1>1 DEF Ordered, Injection, IsInjective
<1>3. cs \in Surjection(D, P)
  BY <1>0, <1>1, <1>2, FS_Injection
<1>4. \A b \in P : \E i \in D : cs[i] = b
  BY <1>3 DEF Surjection
<1>5. \A i \in D : cs[i] \in P
  BY <1>1 DEF Ordered
<1>6. Parted(cs, D, AllAgents)
  <2>1. \A i \in D : cs[i] \subseteq AllAgents
    BY <1>0, <1>5
  <2>2. \A x \in AllAgents : \E i \in D : x \in cs[i]
    BY <1>4 DEF Divides
  <2>3. \A i, j \in D : i # j => cs[i] \cap cs[j] = {}
    BY <1>5 DEF Divides, Ordered
  <2> QED
    BY <2>1, <2>2, <2>3 DEF Parted
<1>7. \A i \in D : Shape(cs)[i] = Cardinality(cs[i])
  BY <1>1 DEF Shape
<1>8. SumFunctionOnSet(Shape(cs), D) = agentCount
  BY <1>0, <1>1, <1>6, <1>7, SumOfParts
<1>9. Shape(cs) \in [D -> 1 .. agentCount]
  BY <1>0, <1>1, <1>5 DEF Shape
<1> QED
  BY <1>0, <1>1, <1>4, <1>5, <1>6, <1>8, <1>9

(* The library's sums under the name CoalitionStructures has for them.     *)
LEMMA SpaceSum ==
  ASSUME NEW f, NEW S
  PROVE  Space!SumOver(f, S) = SumFunctionOnSet(f, S)
BY DEF Space!SumOver, Space!SumFunctionOnSet, SumFunctionOnSet, Space!FoldFunctionOnSet,
       FoldFunctionOnSet, Space!MapThenFoldSet, MapThenFoldSet

(* Nor do sizes depend on the name.                                        *)
LEMMA SpaceCardinality ==
  ASSUME NEW S
  PROVE  Space!Cardinality(S) = Cardinality(S)
BY DEF Space!Cardinality, Cardinality

(* The combinations of agents of one size.                                *)
LEMMA CoalitionsOfSize ==
  ASSUME StructuresTypeOK, NEW s
  PROVE  Space!AgentCoalitions(s) = {c \in SUBSET AllAgents : Cardinality(c) = s}
BY AgentsAreNumbers, SpaceCardinality DEF Space!AgentCoalitions, Space!kSubset

(* In order of size a division has the shape of an integer partition.      *)
LEMMA ShapeIsIntegerPartition ==
  ASSUME StructuresTypeOK, NEW P, Divides(P), NEW cs, Ordered(cs, P),
         \A i, j \in DOMAIN cs : i <= j => Shape(cs)[i] >= Shape(cs)[j]
  PROVE  Shape(cs) \in Space!IntegerPartitions
<1>1. Shape(cs) \in [DOMAIN cs -> 1 .. agentCount] /\ DOMAIN cs = 1 .. Cardinality(P)
  BY OrderedFacts
<1>2. SumFunctionOnSet(Shape(cs), DOMAIN cs) = agentCount
  BY OrderedFacts
<1>3. Cardinality(P) \in 1 .. agentCount
  BY DivisionIsFinite DEF StructuresTypeOK
<1>4. DOMAIN Shape(cs) = DOMAIN cs
  BY DEF Shape
<1>5. Space!Agents = 1 .. agentCount
  BY DEF Space!Agents
<1> QED
  BY <1>1, <1>2, <1>3, <1>4, <1>5, SpaceSum DEF Space!IntegerPartitions

(* The library's orders of a set are the ones defined above.               *)
LEMMA SeqsAreOrdered ==
  ASSUME NEW P
  PROVE  \A cs : cs \in SetToSeqs(P) <=> Ordered(cs, P)
BY DEF SetToSeqs, Ordered

-----------------------------------------------------------------------------
(* Bounds                                                                  *)

(* Bounds::maximum is above every coalition of its size.                   *)
LEMMA SizeMaximumBounds ==
  ASSUME StructuresTypeOK, NEW s \in 1 .. agentCount
  PROVE  /\ Space!SizeMaximum[s] \in Nat
         /\ \A c \in (SUBSET AllAgents) \ {{}} : Cardinality(c) = s => values[c] <= Space!SizeMaximum[s]
<1> DEFINE C == {values[c] : c \in Space!AgentCoalitions(s)}
           B == {TinyBound} \cup C
<1>1. TinyBound \in Nat
  BY InstancesAreReal DEF InstanceAssumption
<1>2. \A c \in Space!AgentCoalitions(s) : c \in (SUBSET AllAgents) \ {{}} /\ values[c] \in Nat
  <2> SUFFICES ASSUME NEW c \in Space!AgentCoalitions(s) PROVE c \in (SUBSET AllAgents) \ {{}}
    BY DEF StructuresTypeOK
  <2>1. c \in SUBSET AllAgents /\ Cardinality(c) = s
    BY CoalitionsOfSize
  <2>2. c # {}
    BY <2>1, FS_EmptySet
  <2> QED
    BY <2>1, <2>2
<1>3. B \subseteq Nat /\ B # {} /\ IsFiniteSet(B)
  <2>1. IsFiniteSet(SUBSET AllAgents)
    BY AgentsAreNumbers, FS_SUBSET
  <2>2. Space!AgentCoalitions(s) \in SUBSET SUBSET AllAgents
    BY <1>2
  <2>3. IsFiniteSet(Space!AgentCoalitions(s))
    BY <2>1, <2>2, FS_Subset
  <2>4. IsFiniteSet(C)
    <3> DEFINE f == [c \in Space!AgentCoalitions(s) |-> values[c]]
    <3>1. f \in Surjection(Space!AgentCoalitions(s), C)
      BY DEF Surjection
    <3> QED
      BY <2>3, <3>1, FS_Surjection
  <2>5. IsFiniteSet({TinyBound})
    BY FS_Singleton
  <2> QED
    BY <1>1, <1>2, <2>4, <2>5, FS_Union
<1>4. PICK m \in B : \A k \in B : k <= m
  BY <1>3, FiniteHasGreatest
<1>5. Space!Max(B) \in B /\ \A k \in B : k <= Space!Max(B)
  BY <1>3, <1>4 DEF Space!Max
<1>6. Space!SizeMaximum[s] = Space!Max(B)
  BY AgentsAreNumbers DEF Space!SizeMaximum, AllAgents
<1>7. \A c \in (SUBSET AllAgents) \ {{}} : Cardinality(c) = s => values[c] \in B
  BY CoalitionsOfSize
<1> HIDE DEF B
<1> QED
  BY <1>3, <1>5, <1>6, <1>7

(* Every coalition of an ordered division has a size and a value.          *)
LEMMA CoalitionFacts ==
  ASSUME StructuresTypeOK, NEW P, Divides(P), NEW cs, Ordered(cs, P)
  PROVE  /\ DOMAIN Shape(cs) = DOMAIN cs
         /\ \A i \in DOMAIN cs : /\ Shape(cs)[i] = Cardinality(cs[i])
                                 /\ Shape(cs)[i] \in 1 .. agentCount
                                 /\ values[cs[i]] \in Nat
                                 /\ Space!SizeMaximum[Shape(cs)[i]] \in Nat
                                 /\ values[cs[i]] <= Space!SizeMaximum[Shape(cs)[i]]
<1>1. DOMAIN Shape(cs) = DOMAIN cs /\ \A i \in DOMAIN cs : Shape(cs)[i] = Cardinality(cs[i])
  BY DEF Shape
<1>2. \A i \in DOMAIN cs : cs[i] \in (SUBSET AllAgents) \ {{}} /\ Shape(cs)[i] \in 1 .. agentCount
  BY OrderedFacts
<1> QED
  BY <1>1, <1>2, SizeMaximumBounds DEF StructuresTypeOK

(* No division is worth more than the bounds say.                          *)
LEMMA BoundsHold ==
  ASSUME StructuresTypeOK, NEW P, Divides(P), NEW cs, Ordered(cs, P),
         Shape(cs) \in Space!IntegerPartitions
  PROVE  /\ Space!AdditiveValue(cs) <= Space!PartitionMaximum[Shape(cs)]
         /\ \A k \in 1 .. Len(cs) - 1 :
              Space!AdditiveValue(cs) <= Space!SubspacePotential(Shape(cs), SubSeq(cs, 1, k))
<1> DEFINE D == DOMAIN cs
           v == [i \in D |-> values[cs[i]]]
           m == [i \in D |-> Space!SizeMaximum[Shape(cs)[i]]]
<1>0. IsFiniteSet(D) /\ D = 1 .. Cardinality(P) /\ Cardinality(P) \in Nat
  BY OrderedFacts, DivisionIsFinite
<1>1. \A i \in D : v[i] \in Nat /\ m[i] \in Nat /\ v[i] <= m[i]
  BY CoalitionFacts
<1>2. Space!AdditiveValue(cs) = SumFunctionOnSet(v, D)
  BY SpaceSum DEF Space!AdditiveValue
<1>3. Space!PartitionMaximum[Shape(cs)] = SumFunctionOnSet(m, D)
  BY SpaceSum, CoalitionFacts DEF Space!PartitionMaximum
<1>4. SumFunctionOnSet(v, D) <= SumFunctionOnSet(m, D)
  <2> HIDE DEF v, m
  <2> QED
    BY <1>0, <1>1, SumIsMonotonic
<1>5. ASSUME NEW k \in 1 .. Len(cs) - 1
      PROVE  Space!AdditiveValue(cs) <= Space!SubspacePotential(Shape(cs), SubSeq(cs, 1, k))
  <2> DEFINE prefix == SubSeq(cs, 1, k)
             e == [i \in D |-> IF i <= Len(prefix) THEN values[prefix[i]] ELSE Space!SizeMaximum[Shape(cs)[i]]]
  <2>1. cs \in Seq(P) /\ Len(cs) = Cardinality(P)
    BY <1>0 DEF Ordered
  <2>2. Len(prefix) = k /\ \A i \in 1 .. k : prefix[i] = cs[i]
    BY <2>1
  <2>3. \A i \in D : e[i] \in Nat /\ v[i] <= e[i]
    BY <1>0, <1>1, <2>2
  <2>4. Space!SubspacePotential(Shape(cs), prefix) = SumFunctionOnSet(e, D)
    BY SpaceSum, CoalitionFacts DEF Space!SubspacePotential
  <2>5. SumFunctionOnSet(v, D) <= SumFunctionOnSet(e, D)
    <3> HIDE DEF v, e
    <3> QED
      BY <1>0, <1>1, <2>3, SumIsMonotonic
  <2> QED
    BY <1>2, <2>4, <2>5
<1> QED
  BY <1>2, <1>3, <1>4, <1>5

(* What BoundsAreAdmissible says of any number of agents and any values.   *)
THEOREM BoundsAdmissible == StructuresSpec => []BoundsAreAdmissible
<1>1. StructuresTypeOK => BoundsAreAdmissible
  <2> SUFFICES ASSUME StructuresTypeOK, NEW cs \in Enumerated
               PROVE  /\ Space!AdditiveValue(cs) <= Space!PartitionMaximum[Shape(cs)]
                      /\ \A k \in 1 .. Len(cs) - 1 :
                           Space!AdditiveValue(cs) <= Space!SubspacePotential(Shape(cs), SubSeq(cs, 1, k))
    BY DEF BoundsAreAdmissible
  <2>1. cs \in SetToSeqs(blocks) /\ Shape(cs) \in Space!IntegerPartitions
    BY DEF Enumerated
  <2>2. Divides(blocks) /\ Ordered(cs, blocks)
    BY <2>1, SeqsAreOrdered, SetPartitionDivides DEF StructuresTypeOK
  <2> QED
    BY <2>1, <2>2, BoundsHold
<1> QED
  BY <1>1, TypesStay, PTL

-----------------------------------------------------------------------------
(* Enumeration                                                             *)

(* The order searchSubspace is sure to reach: larger coalitions first, of  *)
(* equally large ones that with the smaller first agent.                   *)
Earlier(b, c) ==
  \/ Cardinality(b) > Cardinality(c)
  \/ Cardinality(b) = Cardinality(c) /\ Min(b) < Min(c)

EarlierPairs(P) == {q \in P \X P : Earlier(q[1], q[2])}

(* It orders the coalitions of a division.                                 *)
LEMMA EarlierOrders ==
  ASSUME StructuresTypeOK, NEW P, Divides(P)
  PROVE  /\ TotallyOrders(EarlierPairs(P), P)
         /\ \A b, c \in P : <<b, c>> \in EarlierPairs(P) <=> Earlier(b, c)
<1>1. \A b, c \in P : <<b, c>> \in EarlierPairs(P) <=> Earlier(b, c)
  BY DEF EarlierPairs
<1>2. \A b \in P : Cardinality(b) \in Nat /\ Min(b) \in Nat /\ Min(b) \in b
  <2> TAKE b \in P
  <2>1. b \subseteq Nat /\ b # {} /\ Cardinality(b) \in Nat
    BY DivisionIsFinite, AgentsAreNumbers DEF StructuresTypeOK
  <2> QED
    BY <2>1, MinIsLeast
<1>3. \A b, c \in P : b = c \/ Min(b) # Min(c)
  BY <1>2 DEF Divides
<1>4. \A b, c \in P : b = c \/ Earlier(b, c) \/ Earlier(c, b)
  BY <1>2, <1>3 DEF Earlier
<1>5. \A b, c, d \in P : Earlier(b, c) /\ Earlier(c, d) => Earlier(b, d)
  BY <1>2 DEF Earlier
<1> QED
  BY <1>1, <1>4, <1>5 DEF TotallyOrders

(* Each coalition of a division is made of agents the ones before it left. *)
LEMMA PrefixFacts ==
  ASSUME StructuresTypeOK, NEW P, Divides(P), NEW cs, Ordered(cs, P), NEW i \in DOMAIN cs
  PROVE  /\ Len(SubSeq(cs, 1, i - 1)) = i - 1
         /\ \A k \in 1 .. i - 1 : SubSeq(cs, 1, i - 1)[k] = cs[k]
         /\ Space!RemainingAgents(SubSeq(cs, 1, i - 1)) = AllAgents \ UNION {cs[k] : k \in 1 .. i - 1}
<1>1. DOMAIN cs = 1 .. Cardinality(P) /\ Cardinality(P) \in Nat /\ cs \in [1 .. Cardinality(P) -> P]
  BY OrderedFacts, DivisionIsFinite DEF Ordered
<1>2. cs \in Seq(P) /\ Len(cs) = Cardinality(P) /\ i \in 1 .. Cardinality(P)
  BY <1>1
<1> DEFINE prefix == SubSeq(cs, 1, i - 1)
<1>3. Len(prefix) = i - 1 /\ DOMAIN prefix = 1 .. i - 1 /\ \A k \in 1 .. i - 1 : prefix[k] = cs[k]
  BY <1>2
<1> HIDE DEF prefix
<1>4. {prefix[k] : k \in DOMAIN prefix} = {cs[k] : k \in 1 .. i - 1}
  BY <1>3
<1>5. Space!RemainingAgents(prefix) = AllAgents \ UNION {cs[k] : k \in 1 .. i - 1}
  BY <1>4, AgentsAreNumbers DEF Space!RemainingAgents
<1> QED
  BY <1>3, <1>5 DEF prefix

(* Remaining agents below the first one of a coalition.                    *)
Below(cs, i, c) == {a \in AllAgents : a < Min(c) /\ \A k \in 1 .. i - 1 : a \notin cs[k]}

(* FirstIndex is their number.                                             *)
LEMMA FirstIndexCounts ==
  ASSUME StructuresTypeOK, NEW P, Divides(P), NEW cs, Ordered(cs, P), NEW i \in DOMAIN cs, NEW c \in P
  PROVE  /\ Space!FirstIndex(SubSeq(cs, 1, i - 1), c) = Cardinality(Below(cs, i, c))
         /\ IsFiniteSet(Below(cs, i, c)) /\ Cardinality(Below(cs, i, c)) \in Nat
<1>1. Space!Min(c) = Min(c)
  <2>1. c \subseteq Nat /\ c # {}
    BY DivisionIsFinite, AgentsAreNumbers
  <2> QED
    BY <2>1, MinIsLeast
<1> DEFINE R == Space!RemainingAgents(SubSeq(cs, 1, i - 1))
<1>2. R = AllAgents \ UNION {cs[k] : k \in 1 .. i - 1}
  BY PrefixFacts
<1> HIDE DEF R
<1>3. {a \in R : a < Min(c)} = Below(cs, i, c)
  BY <1>2 DEF Below
<1>4. Space!FirstIndex(SubSeq(cs, 1, i - 1), c) = Cardinality({a \in R : a < Min(c)})
  BY <1>1, SpaceCardinality DEF Space!FirstIndex, R
<1>5. Below(cs, i, c) \in SUBSET AllAgents
  BY DEF Below
<1>6. IsFiniteSet(Below(cs, i, c))
  BY <1>5, AgentsAreNumbers, FS_Subset
<1> QED
  BY <1>3, <1>4, <1>6, FS_CardinalityType

(* The prefix the call above has extended, and by what.                    *)
LEMMA PrefixBefore ==
  ASSUME StructuresTypeOK, NEW P, Divides(P), NEW cs, Ordered(cs, P), NEW i \in DOMAIN cs, i # 1
  PROVE  /\ i - 1 \in DOMAIN cs
         /\ Space!Front(SubSeq(cs, 1, i - 1)) = SubSeq(cs, 1, (i - 1) - 1)
         /\ Space!Last(SubSeq(cs, 1, i - 1)) = cs[i - 1]
<1>1. DOMAIN cs = 1 .. Cardinality(P) /\ Cardinality(P) \in Nat /\ cs \in [1 .. Cardinality(P) -> P]
  BY OrderedFacts, DivisionIsFinite DEF Ordered
<1>2. cs \in Seq(P) /\ Len(cs) = Cardinality(P) /\ i \in 1 .. Cardinality(P)
  BY <1>1
<1> DEFINE prefix == SubSeq(cs, 1, i - 1)
<1>3. prefix \in Seq(P) /\ Len(prefix) = i - 1 /\ \A k \in 1 .. i - 1 : prefix[k] = cs[k]
  BY <1>2
<1>4. Space!Front(prefix) = SubSeq(prefix, 1, (i - 1) - 1) /\ Space!Last(prefix) = prefix[i - 1]
  BY <1>3 DEF Space!Front, Space!Last
<1>5. SubSeq(prefix, 1, (i - 1) - 1) = SubSeq(cs, 1, (i - 1) - 1)
  BY <1>2
<1> QED
  BY <1>1, <1>2, <1>3, <1>4, <1>5

(* The alpha rule admits each step of a division in order.                 *)
LEMMA OrderIsEnumerated ==
  ASSUME StructuresTypeOK, NEW P, Divides(P), NEW cs, Ordered(cs, P),
         \A i, j \in DOMAIN cs : i < j => Earlier(cs[i], cs[j]),
         NEW i \in DOMAIN cs
  PROVE  cs[i] \in Space!Combinations(Shape(cs), SubSeq(cs, 1, i - 1))
<1> DEFINE p == Shape(cs)
           prefix == SubSeq(cs, 1, i - 1)
<1>1. DOMAIN cs = 1 .. Cardinality(P) /\ Cardinality(P) \in Nat /\ cs \in [1 .. Cardinality(P) -> P]
  BY OrderedFacts, DivisionIsFinite DEF Ordered
<1>2. i \in 1 .. Cardinality(P) /\ cs[i] \in P /\ p[i] = Cardinality(cs[i])
  BY <1>1 DEF Shape
<1>3. Len(prefix) = i - 1
  BY PrefixFacts
<1>4. Space!FirstIndex(prefix, cs[i]) = Cardinality(Below(cs, i, cs[i]))
      /\ Cardinality(Below(cs, i, cs[i])) \in Nat /\ IsFiniteSet(Below(cs, i, cs[i]))
  BY <1>2, FirstIndexCounts
<1>5. cs[i] \in Space!kSubset(p[Len(prefix) + 1], Space!RemainingAgents(prefix))
  <2>1. cs[i] \subseteq AllAgents /\ \A k \in 1 .. i - 1 : cs[i] \cap cs[k] = {}
    BY <1>1, <1>2 DEF Divides, Ordered
  <2>2. Space!RemainingAgents(prefix) = AllAgents \ UNION {cs[k] : k \in 1 .. i - 1}
    BY PrefixFacts
  <2>3. cs[i] \subseteq Space!RemainingAgents(prefix)
    BY <2>1, <2>2
  <2>4. p[Len(prefix) + 1] = Cardinality(cs[i])
    BY <1>2, <1>3
  <2> QED
    BY <2>3, <2>4, SpaceCardinality DEF Space!kSubset
<1>6. Space!Alpha(p, prefix) <= Space!FirstIndex(prefix, cs[i]) + 1
  <2>1. CASE i = 1
    <3>1. Len(prefix) + 1 = 1
      BY <1>3, <2>1
    <3>2. Space!Alpha(p, prefix) = 0
      <4> HIDE DEF p, prefix
      <4> QED
        BY <3>1 DEF Space!Alpha
    <3> QED
      BY <1>4, <3>2
  <2>2. CASE i # 1 /\ p[i] # p[i - 1]
    <3>1. Space!Alpha(p, prefix) = 1
      BY <1>2, <1>3, <2>2 DEF Space!Alpha
    <3> QED
      BY <1>4, <3>1
  <2>3. CASE i # 1 /\ p[i] = p[i - 1]
    <3> DEFINE b == cs[i - 1]
    <3>1. /\ i - 1 \in DOMAIN cs
          /\ Space!Front(prefix) = SubSeq(cs, 1, (i - 1) - 1)
          /\ Space!Last(prefix) = b
      BY <2>3, PrefixBefore
    <3>2. b \in P /\ p[i - 1] = Cardinality(b)
      BY <1>1, <3>1 DEF Shape
    <3>3. Space!Alpha(p, prefix) = Space!FirstIndex(Space!Front(prefix), Space!Last(prefix))
      BY <1>2, <1>3, <2>3 DEF Space!Alpha
    <3>4. Space!FirstIndex(Space!Front(prefix), Space!Last(prefix)) = Cardinality(Below(cs, i - 1, b))
      BY <3>1, <3>2, FirstIndexCounts
    <3>5. Min(b) < Min(cs[i]) /\ Min(b) \in Nat /\ Min(cs[i]) \in Nat /\ \A x \in b : Min(b) <= x
      <4>1. Earlier(b, cs[i])
        BY <1>2, <3>1
      <4>2. Cardinality(b) = Cardinality(cs[i]) /\ Cardinality(b) \in Nat
        BY <1>2, <2>3, <3>2, DivisionIsFinite DEF StructuresTypeOK
      <4>3. b \subseteq Nat /\ b # {} /\ cs[i] \subseteq Nat /\ cs[i] # {}
        BY <1>2, <3>2, DivisionIsFinite, AgentsAreNumbers
      <4> QED
        BY <4>1, <4>2, <4>3, MinIsLeast DEF Earlier
    <3>6. Below(cs, i - 1, b) \subseteq Below(cs, i, cs[i])
      <4> SUFFICES ASSUME NEW a \in AllAgents, a < Min(b), \A k \in 1 .. (i - 1) - 1 : a \notin cs[k]
                   PROVE  a < Min(cs[i]) /\ \A k \in 1 .. i - 1 : a \notin cs[k]
        BY DEF Below
      <4>1. a \in Nat /\ a \notin b
        BY <3>5, AgentsAreNumbers
      <4>2. \A k \in 1 .. i - 1 : k = i - 1 \/ k \in 1 .. (i - 1) - 1
        BY <1>2
      <4>3. \A k \in 1 .. i - 1 : a \notin cs[k]
        BY <4>1, <4>2
      <4> QED
        BY <3>5, <4>1, <4>3
    <3>7. Cardinality(Below(cs, i - 1, b)) <= Cardinality(Below(cs, i, cs[i]))
      BY <1>4, <3>6, FS_Subset
    <3>8. Cardinality(Below(cs, i - 1, b)) \in Nat
      BY <3>1, <3>2, FirstIndexCounts
    <3> QED
      BY <1>4, <3>3, <3>4, <3>7, <3>8
  <2> QED
    BY <2>1, <2>2, <2>3
<1> HIDE DEF p, prefix
<1>7. cs[i] \in Space!Combinations(p, prefix)
  BY <1>5, <1>6 DEF Space!Combinations
<1> QED
  BY <1>7 DEF p, prefix

(* Every division has an order in which it is enumerated.                  *)
LEMMA DivisionIsEnumerated ==
  ASSUME StructuresTypeOK, NEW P, Divides(P)
  PROVE  \E cs : /\ Ordered(cs, P) /\ Shape(cs) \in Space!IntegerPartitions
                 /\ \A i \in DOMAIN cs : cs[i] \in Space!Combinations(Shape(cs), SubSeq(cs, 1, i - 1))
<1>1. IsFiniteSet(P) /\ Cardinality(P) \in Nat
  BY DivisionIsFinite
<1>2. PICK cs : Listed(cs, EarlierPairs(P), P, Cardinality(P))
  BY <1>1, EarlierOrders, OrderedListing
<1>3. Ordered(cs, P)
  <2>1. \A i, j \in 1 .. Cardinality(P) : i < j => cs[i] # cs[j]
    BY <1>2 DEF Listed
  <2>2. \A i, j \in 1 .. Cardinality(P) : i # j => cs[i] # cs[j]
    BY <1>1, <2>1
  <2> QED
    BY <1>2, <2>2 DEF Listed, Ordered
<1>4. DOMAIN cs = 1 .. Cardinality(P)
  BY <1>3 DEF Ordered
<1>5. \A i, j \in DOMAIN cs : i < j => Earlier(cs[i], cs[j])
  <2> SUFFICES ASSUME NEW i \in 1 .. Cardinality(P), NEW j \in 1 .. Cardinality(P), i < j
               PROVE  Earlier(cs[i], cs[j])
    BY <1>4
  <2>1. <<cs[i], cs[j]>> \in EarlierPairs(P) /\ cs[i] \in P /\ cs[j] \in P
    BY <1>2 DEF Listed
  <2> QED
    BY <2>1, EarlierOrders
<1>6. \A i, j \in DOMAIN cs : i <= j => Shape(cs)[i] >= Shape(cs)[j]
  <2>1. \A i \in DOMAIN cs : Shape(cs)[i] = Cardinality(cs[i]) /\ Shape(cs)[i] \in Nat
    BY <1>3, CoalitionFacts DEF StructuresTypeOK
  <2> SUFFICES ASSUME NEW i \in DOMAIN cs, NEW j \in DOMAIN cs, i <= j PROVE Shape(cs)[i] >= Shape(cs)[j]
    OBVIOUS
  <2>2. CASE i = j
    BY <2>1, <2>2
  <2>3. CASE i < j
    BY <1>5, <2>1, <2>3 DEF Earlier
  <2> QED
    BY <1>1, <1>4, <2>2, <2>3
<1>7. Shape(cs) \in Space!IntegerPartitions
  BY <1>3, <1>6, ShapeIsIntegerPartition
<1>8. \A i \in DOMAIN cs : cs[i] \in Space!Combinations(Shape(cs), SubSeq(cs, 1, i - 1))
  BY <1>3, <1>5, OrderIsEnumerated
<1> QED
  BY <1>3, <1>7, <1>8

(* What EveryStructureIsEnumerated says of any number of agents.           *)
THEOREM StructuresEnumerated == StructuresSpec => []EveryStructureIsEnumerated
<1>1. StructuresTypeOK => EveryStructureIsEnumerated
  <2> SUFFICES ASSUME StructuresTypeOK PROVE Enumerated # {}
    BY DEF EveryStructureIsEnumerated
  <2>1. Divides(blocks)
    BY SetPartitionDivides DEF StructuresTypeOK
  <2>2. PICK cs : /\ Ordered(cs, blocks) /\ Shape(cs) \in Space!IntegerPartitions
                  /\ \A i \in DOMAIN cs : cs[i] \in Space!Combinations(Shape(cs), SubSeq(cs, 1, i - 1))
    BY <2>1, DivisionIsEnumerated
  <2>3. cs \in Enumerated
    BY <2>2, SeqsAreOrdered DEF Enumerated
  <2> QED
    BY <2>3
<1> QED
  BY <1>1, TypesStay, PTL

-----------------------------------------------------------------------------
(* Averages                                                                *)

(* Renaming the agents takes a structure to one of the same shape.  Over   *)
(* all permutations each coalition of a size stands equally often for a    *)
(* given one of that size, so that on average a renamed structure is worth *)
(* the averages of its sizes, and some renamed structure is worth as much. *)
Permutation(S) == Bijection(S, S)

Renamed(f, c) == {f[x] : x \in c}

(* A finite set has finitely many permutations, of which one is identity.  *)
LEMMA PermutationsAreFinite ==
  ASSUME NEW S, IsFiniteSet(S)
  PROVE  IsFiniteSet(Permutation(S)) /\ Permutation(S) # {}
<1> DEFINE graph == [f \in Permutation(S) |-> {p \in S \X S : p[2] = f[p[1]]}]
<1>1. graph \in Injection(Permutation(S), SUBSET (S \X S))
  <2>1. graph \in [Permutation(S) -> SUBSET (S \X S)]
    OBVIOUS
  <2>2. ASSUME NEW f \in Permutation(S), NEW g \in Permutation(S), graph[f] = graph[g] PROVE f = g
    <3>1. f \in [S -> S] /\ g \in [S -> S]
      BY DEF Permutation, Bijection, Injection
    <3>2. ASSUME NEW x \in S PROVE f[x] = g[x]
      <4>1. <<x, f[x]>> \in graph[f]
        BY <3>1
      <4>2. <<x, f[x]>> \in graph[g]
        BY <2>2, <4>1
      <4> QED
        BY <4>2
    <3> QED
      BY <3>1, <3>2
  <2> QED
    BY <2>1, <2>2 DEF Injection, IsInjective
<1>2. IsFiniteSet(SUBSET (S \X S))
  BY FS_Product, FS_SUBSET
<1>3. [x \in S |-> x] \in Permutation(S)
  BY DEF Permutation, Bijection, Injection, Surjection, IsInjective
<1> HIDE DEF graph
<1> QED
  BY <1>1, <1>2, <1>3, FS_Injection

(* Renaming keeps the size of a coalition.                                 *)
LEMMA RenamingKeepsSize ==
  ASSUME NEW S, IsFiniteSet(S), NEW f \in Permutation(S), NEW c \in SUBSET S
  PROVE  /\ Renamed(f, c) \in SUBSET S
         /\ Cardinality(Renamed(f, c)) = Cardinality(c)
<1> DEFINE g == [x \in c |-> f[x]]
<1>1. f \in [S -> S] /\ \A x, y \in S : f[x] = f[y] => x = y
  BY DEF Permutation, Bijection, Injection, IsInjective
<1>2. g \in Bijection(c, Renamed(f, c))
  BY <1>1 DEF Renamed, Bijection, Injection, Surjection, IsInjective
<1>3. IsFiniteSet(c) /\ ExistsBijection(c, Renamed(f, c))
  BY <1>2, FS_Subset DEF ExistsBijection
<1> QED
  BY <1>1, <1>3, FS_Bijection DEF Renamed

(* What is left of a finite set without a part of it.                      *)
LEMMA SizeOfRest ==
  ASSUME NEW S, IsFiniteSet(S), NEW c \in SUBSET S
  PROVE  /\ IsFiniteSet(c) /\ IsFiniteSet(S \ c)
         /\ Cardinality(c) \in Nat /\ Cardinality(S) \in Nat
         /\ Cardinality(S \ c) = Cardinality(S) - Cardinality(c)
<1>1. IsFiniteSet(c) /\ IsFiniteSet(S \ c)
  BY FS_Subset
<1>2. Cardinality(c) \in Nat /\ Cardinality(S) \in Nat /\ Cardinality(S \ c) \in Nat
  BY <1>1, FS_CardinalityType
<1>3. c \cap (S \ c) = {} /\ c \cup (S \ c) = S
  OBVIOUS
<1>4. Cardinality(c \cup (S \ c)) = Cardinality(c) + Cardinality(S \ c)
  BY <1>1, <1>3, DisjointUnion
<1>5. Cardinality(c \cup (S \ c)) = Cardinality(S)
  BY <1>3, Zenon
<1> QED
  BY <1>1, <1>2, <1>4, <1>5

Renaming(f, S, c, d) == f \in Permutation(S) /\ Renamed(f, c) = d

(* Any coalition can be renamed to any other one of its size.              *)
LEMMA RenamingExists ==
  ASSUME NEW S, IsFiniteSet(S), NEW c \in SUBSET S, NEW d \in SUBSET S, Cardinality(c) = Cardinality(d)
  PROVE  \E f : Renaming(f, S, c, d)
<1>1. PICK g : g \in Bijection(c, d)
  BY SizeOfRest, FS_SameCardinalityBij DEF ExistsBijection
<1>2. PICK h : h \in Bijection(S \ c, S \ d)
  <2>1. IsFiniteSet(S \ c) /\ IsFiniteSet(S \ d) /\ Cardinality(S \ c) = Cardinality(S \ d)
    BY SizeOfRest
  <2> QED
    BY <2>1, FS_SameCardinalityBij DEF ExistsBijection
<1> DEFINE f == [x \in S |-> IF x \in c THEN g[x] ELSE h[x]]
<1>3. /\ \A x \in c : f[x] = g[x] /\ f[x] \in d
      /\ \A x \in S \ c : f[x] = h[x] /\ f[x] \in S \ d
  BY <1>1, <1>2 DEF Bijection, Injection
<1>4. /\ \A x, y \in c : g[x] = g[y] => x = y
      /\ \A x, y \in S \ c : h[x] = h[y] => x = y
  BY <1>1, <1>2 DEF Bijection, Injection, IsInjective
<1>5. /\ \A y \in d : \E x \in c : g[x] = y
      /\ \A y \in S \ d : \E x \in S \ c : h[x] = y
  BY <1>1, <1>2 DEF Bijection, Surjection
<1>6. f \in [S -> S]
  BY <1>3
<1> HIDE DEF f
<1>7. \A x, y \in S : f[x] = f[y] => x = y
  BY <1>3, <1>4
<1>8. \A y \in S : \E x \in S : f[x] = y
  BY <1>3, <1>5
<1>9. Renamed(f, c) = d
  BY <1>3, <1>5 DEF Renamed
<1> QED
  BY <1>6, <1>7, <1>8, <1>9 DEF Renaming, Permutation, Bijection, Injection, Surjection, IsInjective

Renamings(S, b, c) == {f \in Permutation(S) : Renamed(f, b) = c}

(* The permutations that rename b to c are as many as those that rename it *)
(* to another coalition.                                                   *)
LEMMA NotMoreRenamings ==
  ASSUME NEW S, IsFiniteSet(S), NEW b \in SUBSET S, NEW c \in SUBSET S, NEW d \in SUBSET S,
         Cardinality(c) = Cardinality(d)
  PROVE  /\ Cardinality(Renamings(S, b, c)) \in Nat /\ IsFiniteSet(Renamings(S, b, c))
         /\ Cardinality(Renamings(S, b, c)) <= Cardinality(Renamings(S, b, d))
<1> USE DEF Permutation, Bijection, Injection, Surjection, IsInjective
<1>1. PICK g : Renaming(g, S, c, d)
  BY RenamingExists
<1>2. g \in [S -> S] /\ (\A x, y \in S : g[x] = g[y] => x = y) /\ \A y \in S : \E x \in S : g[x] = y
  BY <1>1 DEF Renaming
<1>3. Renamed(g, c) = d
  BY <1>1 DEF Renaming
<1> DEFINE then(f) == [x \in S |-> g[f[x]]]
           h == [f \in Renamings(S, b, c) |-> then(f)]
<1>4. ASSUME NEW f \in Renamings(S, b, c) PROVE then(f) \in Renamings(S, b, d)
  <2>1. f \in [S -> S] /\ (\A x, y \in S : f[x] = f[y] => x = y) /\ \A y \in S : \E x \in S : f[x] = y
    BY DEF Renamings
  <2>2. then(f) \in [S -> S] /\ \A x \in S : then(f)[x] = g[f[x]] /\ f[x] \in S
    BY <1>2, <2>1
  <2> HIDE DEF then
  <2>3. \A x, y \in S : then(f)[x] = then(f)[y] => x = y
    BY <1>2, <2>1, <2>2
  <2>4. \A y \in S : \E x \in S : then(f)[x] = y
    <3> TAKE y \in S
    <3>1. PICK z \in S : g[z] = y
      BY <1>2
    <3>2. PICK x \in S : f[x] = z
      BY <2>1
    <3> QED
      BY <2>2, <3>1, <3>2
  <2>5. then(f) \in Permutation(S)
    BY <2>2, <2>3, <2>4
  <2>6. Renamed(f, b) = c
    BY DEF Renamings
  <2>7. Renamed(then(f), b) = Renamed(g, c)
    <3>1. \A x \in b : then(f)[x] = g[f[x]] /\ f[x] \in c
      BY <2>2, <2>6 DEF Renamed
    <3>2. \A y \in c : \E x \in b : f[x] = y
      BY <2>6 DEF Renamed
    <3> QED
      BY <3>1, <3>2 DEF Renamed
  <2> QED
    BY <1>3, <2>5, <2>7 DEF Renamings
<1>5. ASSUME NEW f \in Renamings(S, b, c), NEW e \in Renamings(S, b, c), then(f) = then(e) PROVE f = e
  <2>1. f \in [S -> S] /\ e \in [S -> S]
    BY DEF Renamings
  <2>2. ASSUME NEW x \in S PROVE f[x] = e[x]
    <3>1. then(f)[x] = g[f[x]] /\ then(e)[x] = g[e[x]]
      OBVIOUS
    <3>2. g[f[x]] = g[e[x]]
      BY <1>5, <3>1
    <3> QED
      BY <1>2, <2>1, <3>2
  <2> QED
    BY <2>1, <2>2
<1>6. h \in Injection(Renamings(S, b, c), Renamings(S, b, d))
  <2> HIDE DEF then
  <2>1. \A f \in Renamings(S, b, c) : h[f] = then(f)
    OBVIOUS
  <2>2. h \in [Renamings(S, b, c) -> Renamings(S, b, d)]
    BY <1>4
  <2> HIDE DEF h
  <2> QED
    BY <1>5, <2>1, <2>2
<1>7. \A e \in SUBSET S : IsFiniteSet(Renamings(S, b, e))
  <2> HIDE DEF Permutation
  <2>1. IsFiniteSet(Permutation(S))
    BY PermutationsAreFinite
  <2> QED
    BY <2>1, FS_Subset DEF Renamings
<1> HIDE DEF h, Injection
<1> QED
  BY <1>6, <1>7, FS_Injection, FS_CardinalityType

OfSize(S, n) == {c \in SUBSET S : Cardinality(c) = n}

Evenly(k, f, v, S, n) ==
  /\ k \in Nat
  /\ Cardinality(Permutation(S)) = k * Cardinality(OfSize(S, n))
  /\ SumFunctionOnSet(f, Permutation(S)) = k * SumFunctionOnSet(v, OfSize(S, n))

(* Every coalition of a size stands for a given one of it equally often.   *)
LEMMA RenamedEvenly ==
  ASSUME NEW S, IsFiniteSet(S), NEW b \in SUBSET S, NEW v, \A c \in OfSize(S, Cardinality(b)) : v[c] \in Int,
         NEW f, \A p \in Permutation(S) : f[p] = v[Renamed(p, b)]
  PROVE  \E k : Evenly(k, f, v, S, Cardinality(b))
<1> DEFINE X == Permutation(S)
           C == OfSize(S, Cardinality(b))
           k == Cardinality(Renamings(S, b, b))
           part == [c \in C |-> Renamings(S, b, c)]
           ones == [c \in C |-> k]
           sums == [c \in C |-> SumFunctionOnSet(f, part[c])]
<1>1. IsFiniteSet(X)
  BY PermutationsAreFinite
<1>2. IsFiniteSet(C) /\ b \in C
  <2>1. IsFiniteSet(SUBSET S)
    BY FS_SUBSET
  <2> QED
    BY <2>1, FS_Subset DEF OfSize
<1>3. \A c \in C : c \in SUBSET S /\ Cardinality(c) = Cardinality(b)
  BY DEF OfSize
<1>4. \A p \in X : Renamed(p, b) \in C /\ f[p] \in Int
  BY RenamingKeepsSize DEF OfSize
<1>5. \A c \in C : IsFiniteSet(Renamings(S, b, c)) /\ Cardinality(Renamings(S, b, c)) = k
  <2> TAKE c \in C
  <2>1. /\ Cardinality(Renamings(S, b, c)) <= Cardinality(Renamings(S, b, b))
        /\ Cardinality(Renamings(S, b, b)) <= Cardinality(Renamings(S, b, c))
        /\ Cardinality(Renamings(S, b, b)) \in Nat /\ Cardinality(Renamings(S, b, c)) \in Nat
        /\ IsFiniteSet(Renamings(S, b, c))
    BY <1>3, NotMoreRenamings
  <2> QED
    BY <2>1
<1>6. k \in Nat
  BY NotMoreRenamings
<1> HIDE DEF k, C
<1>7. Parted(part, C, X)
  <2>1. \A p : p \in X <=> \E c \in C : p \in part[c]
    BY <1>4 DEF Renamings
  <2>2. \A c, d \in C : c # d => part[c] \cap part[d] = {}
    BY DEF Renamings
  <2> QED
    BY <2>1, <2>2 DEF Parted
<1>8. Cardinality(X) = k * Cardinality(C)
  <2>1. \A c \in C : ones[c] = Cardinality(part[c]) /\ ones[c] = k
    BY <1>5
  <2> HIDE DEF ones, part
  <2>2. SumFunctionOnSet(ones, C) = Cardinality(X)
    BY <1>1, <1>2, <1>7, <2>1, SumOfParts
  <2>3. SumFunctionOnSet(ones, C) = k * Cardinality(C)
    BY <1>2, <1>6, <2>1, SumOfConstant
  <2> QED
    BY <2>2, <2>3
<1>9. SumFunctionOnSet(f, X) = k * SumFunctionOnSet(v, C)
  <2>1. \A c \in C : sums[c] = SumFunctionOnSet(f, part[c])
    OBVIOUS
  <2>2. ASSUME NEW c \in C PROVE sums[c] = k * v[c] /\ v[c] \in Int
    <3>1. v[c] \in Int
      BY <1>2 DEF C
    <3>2. \A p \in Renamings(S, b, c) : f[p] = v[c]
      BY DEF Renamings
    <3>3. SumFunctionOnSet(f, Renamings(S, b, c)) = v[c] * Cardinality(Renamings(S, b, c))
      BY <1>5, <3>1, <3>2, SumOfConstant
    <3>4. SumFunctionOnSet(f, Renamings(S, b, c)) = v[c] * k
      BY <1>5, <3>3
    <3>5. v[c] * k = k * v[c]
      BY <1>6, <3>1
    <3> QED
      BY <3>1, <3>4, <3>5
  <2> HIDE DEF sums, part
  <2>3. SumFunctionOnSet(sums, C) = SumFunctionOnSet(f, X)
    BY <1>1, <1>2, <1>4, <1>7, <2>1, SumOfPartialSums
  <2>4. SumFunctionOnSet(sums, C) = k * SumFunctionOnSet(v, C)
    BY <1>2, <1>6, <2>2, SumOfMultiples
  <2> QED
    BY <2>3, <2>4
<1> QED
  BY <1>6, <1>8, <1>9 DEF Evenly, C

(* What a coalition is worth on average over all permutations is at least  *)
(* the average of its size.                                                *)
LEMMA AverageOverPermutations ==
  ASSUME StructuresTypeOK, NEW b \in (SUBSET AllAgents) \ {{}},
         NEW f, \A p \in Permutation(AllAgents) : f[p] = values[Renamed(p, b)]
  PROVE  /\ Space!SizeAverage[Cardinality(b)] \in Int
         /\ Space!SizeAverage[Cardinality(b)] * Cardinality(Permutation(AllAgents))
              <= SumFunctionOnSet(f, Permutation(AllAgents))
<1> DEFINE n == Cardinality(b)
           C == OfSize(AllAgents, n)
           a == Space!SizeAverage[n]
           s == SumFunctionOnSet(values, C)
           m == Cardinality(C)
<1>0. IsFiniteSet(AllAgents) /\ Cardinality(AllAgents) = agentCount /\ agentCount \in Nat
  BY AgentsAreNumbers DEF StructuresTypeOK
<1>1. n \in 1 .. agentCount
  <2>1. IsFiniteSet(b) /\ n <= agentCount
    BY <1>0, FS_Subset
  <2>2. n \in Nat /\ n # 0
    BY <2>1, FS_CardinalityType, FS_EmptySet
  <2> QED
    BY <1>0, <2>1, <2>2
<1>2. \A c \in C : values[c] \in Int
  <2> SUFFICES ASSUME NEW c \in C PROVE c \in (SUBSET AllAgents) \ {{}}
    BY DEF StructuresTypeOK
  <2>1. c # {}
    BY <1>1, FS_EmptySet DEF OfSize
  <2> QED
    BY <2>1 DEF OfSize
<1>3. IsFiniteSet(C) /\ C # {} /\ m \in Nat \ {0}
  <2>1. IsFiniteSet(SUBSET AllAgents)
    BY <1>0, FS_SUBSET
  <2>2. IsFiniteSet(C)
    BY <2>1, FS_Subset DEF OfSize
  <2>3. b \in C
    BY DEF OfSize
  <2> QED
    BY <2>2, <2>3, FS_CardinalityType, FS_EmptySet
<1>4. s \in Int
  BY <1>2, <1>3, SumIsInt
<1>5. Space!AgentCoalitions(n) = C
  BY CoalitionsOfSize DEF OfSize
<1>6. a = s \div m
  <2>1. a = Space!SizeSum(n) \div Space!Cardinality(Space!AgentCoalitions(n))
    BY <1>1 DEF Space!SizeAverage, Space!Agents
  <2>2. Space!SizeSum(n) = s
    BY <1>5, SpaceSum DEF Space!SizeSum
  <2>3. Space!Cardinality(Space!AgentCoalitions(n)) = m
    BY <1>5, SpaceCardinality
  <2> QED
    BY <2>1, <2>2, <2>3
<1> HIDE DEF a, s, m, C, n
<1>7. a \in Int /\ a * m <= s
  BY <1>3, <1>4, <1>6
<1>8. PICK k : Evenly(k, f, values, AllAgents, n)
  <2>1. \A c \in OfSize(AllAgents, Cardinality(b)) : values[c] \in Int
    BY <1>2 DEF C, n
  <2>2. \E k : Evenly(k, f, values, AllAgents, Cardinality(b))
    BY <1>0, <2>1, RenamedEvenly
  <2> QED
    BY <2>2 DEF n
<1>9. k \in Nat /\ Cardinality(Permutation(AllAgents)) = k * m /\ SumFunctionOnSet(f, Permutation(AllAgents)) = k * s
  BY <1>8 DEF Evenly, C, m, s
<1>10. a * (k * m) <= k * s
  <2>1. a * (k * m) = k * (a * m)
    BY <1>3, <1>7, <1>9
  <2>2. k * (a * m) <= k * s
    BY <1>3, <1>4, <1>7, <1>9
  <2> QED
    BY <2>1, <2>2
<1> QED
  BY <1>7, <1>9, <1>10 DEF a, n

RenamedAll(f, cs) == [i \in DOMAIN cs |-> Renamed(f, cs[i])]
Members(cs) == {cs[i] : i \in DOMAIN cs}

(* A renamed structure is a structure of the same shape.                   *)
LEMMA RenamedStructure ==
  ASSUME StructuresTypeOK, NEW P, Divides(P), NEW cs, Ordered(cs, P), NEW f \in Permutation(AllAgents)
  PROVE  /\ Divides(Members(RenamedAll(f, cs)))
         /\ Ordered(RenamedAll(f, cs), Members(RenamedAll(f, cs)))
         /\ Shape(RenamedAll(f, cs)) = Shape(cs)
<1> DEFINE D == DOMAIN cs
           ds == RenamedAll(f, cs)
           Q == Members(ds)
<1>0. IsFiniteSet(AllAgents)
  BY AgentsAreNumbers
<1>1. /\ D = 1 .. Cardinality(P) /\ IsFiniteSet(D) /\ Cardinality(P) \in Nat
      /\ Parted(cs, D, AllAgents)
      /\ \A i \in D : cs[i] \in (SUBSET AllAgents) \ {{}}
  BY OrderedFacts, DivisionIsFinite
<1>2. /\ f \in [AllAgents -> AllAgents]
      /\ \A x, y \in AllAgents : f[x] = f[y] => x = y
      /\ \A y \in AllAgents : \E x \in AllAgents : f[x] = y
  BY DEF Permutation, Bijection, Injection, Surjection, IsInjective
<1>3. DOMAIN ds = D /\ \A i \in D : ds[i] = Renamed(f, cs[i])
  BY DEF RenamedAll
<1> HIDE DEF ds, D
<1>4. \A i \in D : ds[i] \in SUBSET AllAgents /\ ds[i] # {} /\ Cardinality(ds[i]) = Cardinality(cs[i])
  <2> TAKE i \in D
  <2>1. cs[i] \in SUBSET AllAgents /\ cs[i] # {}
    BY <1>1
  <2>2. Renamed(f, cs[i]) # {}
    BY <2>1 DEF Renamed
  <2> QED
    BY <1>0, <1>3, <2>1, <2>2, RenamingKeepsSize
<1>5. \A i, j \in D : i # j => ds[i] \cap ds[j] = {}
  <2> SUFFICES ASSUME NEW i \in D, NEW j \in D, i # j, NEW y \in ds[i], y \in ds[j] PROVE FALSE
    OBVIOUS
  <2>1. PICK x \in cs[i] : y = f[x]
    BY <1>3 DEF Renamed
  <2>2. PICK z \in cs[j] : y = f[z]
    BY <1>3 DEF Renamed
  <2>3. x = z
    BY <1>1, <1>2, <2>1, <2>2
  <2> QED
    BY <1>1, <2>3 DEF Parted
<1>6. \A i, j \in D : i # j => ds[i] # ds[j]
  BY <1>4, <1>5
<1>7. UNION Q = AllAgents
  <2>1. UNION Q \subseteq AllAgents
    BY <1>3, <1>4 DEF Members
  <2>2. ASSUME NEW y \in AllAgents PROVE y \in UNION Q
    <3>1. PICK x \in AllAgents : f[x] = y
      BY <1>2
    <3>2. PICK i \in D : x \in cs[i]
      BY <1>1 DEF Parted
    <3>3. y \in ds[i] /\ ds[i] \in Q
      BY <1>3, <3>1, <3>2 DEF Renamed, Members
    <3> QED
      BY <3>3
  <2> QED
    BY <2>1, <2>2
<1>8. Divides(Q)
  BY <1>3, <1>4, <1>5, <1>7 DEF Divides, Members
<1>9. Cardinality(Q) = Cardinality(P)
  <2>1. ds \in [D -> Q]
    <3>1. \A i \in D : ds[i] \in Q
      BY <1>3 DEF Members
    <3>2. ds = [i \in D |-> ds[i]]
      BY <1>3 DEF ds, RenamedAll, D
    <3> QED
      BY <3>1, <3>2
  <2>2. ds \in Bijection(D, Q)
    BY <1>3, <1>6, <2>1 DEF Bijection, Injection, Surjection, IsInjective, Members
  <2>3. ExistsBijection(D, Q)
    BY <2>2 DEF ExistsBijection
  <2> QED
    BY <1>1, <2>3, FS_Bijection, FS_Interval
<1>10. Ordered(ds, Q)
  <2>1. ds = [i \in 1 .. Cardinality(Q) |-> ds[i]]
    BY <1>1, <1>3, <1>9 DEF ds, RenamedAll, D
  <2>2. \A i \in 1 .. Cardinality(Q) : ds[i] \in Q
    BY <1>1, <1>3, <1>9 DEF Members
  <2> QED
    BY <1>1, <1>6, <1>9, <2>1, <2>2 DEF Ordered
<1>11. Shape(ds) = Shape(cs)
  BY <1>3, <1>4 DEF Shape, D
<1> QED
  BY <1>8, <1>10, <1>11 DEF ds

(* Some renamed structure is worth the averages of its sizes.              *)
LEMMA SomeRenamingReaches ==
  ASSUME StructuresTypeOK, NEW P, Divides(P), NEW cs, Ordered(cs, P),
         Shape(cs) \in Space!IntegerPartitions
  PROVE  \E f \in Permutation(AllAgents) :
           Space!PartitionAverage[Shape(cs)] <= Space!AdditiveValue(RenamedAll(f, cs))
<1> DEFINE D == DOMAIN cs
           X == Permutation(AllAgents)
           m == [f \in X |-> [i \in D |-> values[Renamed(f, cs[i])]]]
           rows == [f \in X |-> Space!AdditiveValue(RenamedAll(f, cs))]
           columns == ColumnSums(m, X, X, D)
           average == [i \in D |-> Space!SizeAverage[Shape(cs)[i]]]
           total == SumFunctionOnSet(average, D)
           n == Cardinality(X)
           scaled == [i \in D |-> n * average[i]]
<1>0. /\ IsFiniteSet(AllAgents) /\ IsFiniteSet(X) /\ X # {} /\ n \in Nat
      /\ IsFiniteSet(D)
  BY AgentsAreNumbers, PermutationsAreFinite, OrderedFacts, FS_CardinalityType
<1>1. \A i \in D : cs[i] \in (SUBSET AllAgents) \ {{}} /\ Shape(cs)[i] = Cardinality(cs[i])
  BY OrderedFacts, CoalitionFacts
<1> HIDE DEF n
<1>2. \A f \in X : \A i \in D : m[f][i] = values[Renamed(f, cs[i])] /\ m[f][i] \in Int
  <2> TAKE f \in X
  <2> TAKE i \in D
  <2>1. Renamed(f, cs[i]) \in SUBSET AllAgents
    BY <1>0, <1>1, RenamingKeepsSize
  <2>2. Renamed(f, cs[i]) # {}
    BY <1>1 DEF Renamed
  <2>3. values[Renamed(f, cs[i])] \in Int
    BY <2>1, <2>2 DEF StructuresTypeOK
  <2> HIDE DEF X, D
  <2> QED
    BY <2>3
<1>3. \A f \in X : rows[f] = SumFunctionOnSet(m[f], D)
  <2> TAKE f \in X
  <2> DEFINE ds == RenamedAll(f, cs)
  <2>1. DOMAIN ds = D /\ \A i \in D : ds[i] = Renamed(f, cs[i])
    BY DEF RenamedAll
  <2>2. Space!AdditiveValue(ds) = SumFunctionOnSet([i \in DOMAIN ds |-> values[ds[i]]], DOMAIN ds)
    BY SpaceSum DEF Space!AdditiveValue
  <2> HIDE DEF ds
  <2>3. [i \in DOMAIN ds |-> values[ds[i]]] = m[f]
    BY <2>1
  <2> HIDE DEF m
  <2>4. Space!AdditiveValue(ds) = SumFunctionOnSet(m[f], D)
    BY <2>1, <2>2, <2>3
  <2> QED
    BY <2>4 DEF ds
<1>4. \A i \in D : average[i] \in Int /\ average[i] * n <= columns[i]
  <2> TAKE i \in D
  <2> DEFINE f == ColumnAt(m, X, i)
  <2>1. \A p \in X : f[p] = values[Renamed(p, cs[i])]
    BY <1>2 DEF ColumnAt
  <2> HIDE DEF f, m
  <2>2. /\ Space!SizeAverage[Cardinality(cs[i])] \in Int
        /\ Space!SizeAverage[Cardinality(cs[i])] * Cardinality(X) <= SumFunctionOnSet(f, X)
    BY <1>1, <2>1, AverageOverPermutations
  <2>3. average[i] = Space!SizeAverage[Cardinality(cs[i])]
    BY <1>1
  <2>4. columns[i] = SumFunctionOnSet(f, X)
    BY DEF ColumnSums, f
  <2> HIDE DEF average, columns
  <2> QED
    BY <2>2, <2>3, <2>4 DEF n
<1>5. \A i \in D : scaled[i] = n * average[i] /\ scaled[i] \in Int /\ columns[i] \in Int /\ scaled[i] <= columns[i]
  <2> TAKE i \in D
  <2>1. \A f \in X : ColumnAt(m, X, i)[f] \in Int
    BY <1>2 DEF ColumnAt
  <2> HIDE DEF m
  <2>2. columns[i] \in Int
    BY <1>0, <2>1, SumIsInt DEF ColumnSums
  <2> HIDE DEF average, columns
  <2> QED
    BY <1>0, <1>4, <2>2
<1>6. SumFunctionOnSet(rows, X) = SumFunctionOnSet(columns, D)
  <2> HIDE DEF m, rows, X, D
  <2> QED
    BY <1>0, <1>2, <1>3, RowsAndColumns
<1>7. total \in Int
  <2> HIDE DEF average
  <2> QED
    BY <1>0, <1>4, SumIsInt
<1>8. n * total <= SumFunctionOnSet(columns, D)
  <2> HIDE DEF average, columns, scaled
  <2>1. SumFunctionOnSet(scaled, D) = n * total
    BY <1>0, <1>4, <1>5, SumOfMultiples
  <2>2. SumFunctionOnSet(scaled, D) <= SumFunctionOnSet(columns, D)
    BY <1>0, <1>5, SumIsMonotonic
  <2> QED
    BY <2>1, <2>2
<1>9. \A f \in X : rows[f] \in Int
  <2> TAKE f \in X
  <2>1. SumFunctionOnSet(m[f], D) \in Int
    <3> HIDE DEF m
    <3> QED
      BY <1>0, <1>2, SumIsInt
  <2> HIDE DEF rows, m
  <2> QED
    BY <1>3, <2>1
<1>10. \E f \in X : total <= rows[f]
  <2>1. total * Cardinality(X) <= SumFunctionOnSet(rows, X)
    BY <1>0, <1>6, <1>7, <1>8 DEF n
  <2> HIDE DEF rows, total, X
  <2> QED
    BY <1>0, <1>7, <1>9, <2>1, SomeReachTheAverage
<1>11. Space!PartitionAverage[Shape(cs)] = total
  BY SpaceSum, CoalitionFacts DEF Space!PartitionAverage
<1> HIDE DEF total
<1> QED
  BY <1>10, <1>11

(* What AverageIsReached says of any number of agents and any values.      *)
THEOREM AverageReached == StructuresSpec => []AverageIsReached
<1>1. StructuresTypeOK => AverageIsReached
  <2> SUFFICES ASSUME StructuresTypeOK, NEW cs \in Enumerated
               PROVE  \E other \in SetPartitions : \E ds \in SetToSeqs(other) :
                         /\ Shape(ds) = Shape(cs)
                         /\ Space!PartitionAverage[Shape(cs)] <= Space!AdditiveValue(ds)
    BY DEF AverageIsReached
  <2>1. cs \in SetToSeqs(blocks) /\ Shape(cs) \in Space!IntegerPartitions
    BY DEF Enumerated
  <2>2. Divides(blocks) /\ Ordered(cs, blocks)
    BY <2>1, SeqsAreOrdered, SetPartitionDivides DEF StructuresTypeOK
  <2>3. PICK f \in Permutation(AllAgents) :
           Space!PartitionAverage[Shape(cs)] <= Space!AdditiveValue(RenamedAll(f, cs))
    BY <2>1, <2>2, SomeRenamingReaches
  <2> DEFINE ds == RenamedAll(f, cs)
             other == Members(ds)
  <2>4. Divides(other) /\ Ordered(ds, other) /\ Shape(ds) = Shape(cs)
    BY <2>2, RenamedStructure
  <2>5. other \in SetPartitions
    BY <2>4, DivisionIsSetPartition
  <2>6. ds \in SetToSeqs(other)
    BY <2>4, SeqsAreOrdered
  <2> QED
    BY <2>3, <2>4, <2>5, <2>6
<1> QED
  BY <1>1, TypesStay, PTL

===============================================================================
