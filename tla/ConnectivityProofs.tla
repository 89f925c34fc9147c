--------------------------- MODULE ConnectivityProofs ---------------------------
(***************************************************************************)
(* The answers of the feasibility check for all pools, ontologies and      *)
(* orders of the search: an answer tells whether the agents can be put     *)
(* together one after the other.  The search looks for something else, for *)
(* links that make a connected graph of all agents at once.                *)
(***************************************************************************)
EXTENDS Connectivity, FiniteSums

(* A graph of agents that the links connect: nothing is closed under the   *)
(* links but all of the agents.                                            *)
Closed(links, X) == \A l \in links : Between(l) \cap X # {} => Between(l) \subseteq X
Connected(agents, links) == \A X \in SUBSET agents : X # {} /\ Closed(links, X) => X = agents
Linking(agents, links) == \A l \in links : Between(l) \subseteq agents /\ l[1][1] # l[2][1]

(* Two agents are two.                                                    *)
LEMMA TwoOfThem ==
  ASSUME NEW a, NEW b, a # b
  PROVE  Cardinality({a, b}) = 2
<1> DEFINE one == {a}
<1>1. IsFiniteSet(one) /\ Cardinality(one) = 1 /\ b \notin one
  BY FS_Singleton
<1>2. {a, b} = one \cup {b}
  OBVIOUS
<1> HIDE DEF one
<1>3. Cardinality(one \cup {b}) = 2
  BY <1>1, OneMore
<1> QED
  BY <1>2, <1>3, Zenon

(* A pair shares one element with a set if it crosses its border.         *)
LEMMA CrossedOnce ==
  ASSUME NEW a, NEW b, a # b, NEW X
  PROVE  Cardinality({a, b} \cap X) = 1 <=> (a \in X /\ b \notin X) \/ (a \notin X /\ b \in X)
<1>1. CASE a \in X /\ b \in X
  <2>1. {a, b} \cap X = {a, b}
    BY <1>1
  <2>2. Cardinality({a, b} \cap X) = Cardinality({a, b})
    BY <2>1, Zenon
  <2>3. Cardinality({a, b}) = 2
    BY TwoOfThem
  <2> QED
    BY <1>1, <2>2, <2>3
<1>3. CASE a \in X /\ b \notin X
  <2>1. {a, b} \cap X = {a}
    BY <1>3
  <2>2. Cardinality({a, b} \cap X) = 1
    BY <2>1, FS_Singleton, Zenon
  <2> QED
    BY <1>3, <2>2
<1>4. CASE a \notin X /\ b \in X
  <2>1. {a, b} \cap X = {b}
    BY <1>4
  <2>2. Cardinality({a, b} \cap X) = 1
    BY <2>1, FS_Singleton, Zenon
  <2> QED
    BY <1>4, <2>2
<1>5. CASE a \notin X /\ b \notin X
  <2>1. {a, b} \cap X = {}
    BY <1>5
  <2>2. Cardinality({a, b} \cap X) = 0
    BY <2>1, FS_EmptySet, Zenon
  <2> QED
    BY <1>5, <2>2
<1> QED
  BY <1>1, <1>3, <1>4, <1>5

-----------------------------------------------------------------------------
(* isComplete tells whether the links connect the agents.                  *)

Grown(links, prev) == prev \cup UNION {Between(l) : l \in {k \in links : Between(k) \cap prev # {}}}
FirstAgent(agents) == CHOOSE a \in agents : TRUE
Reaches(f, agents, links) ==
  f = [n \in 0 .. Cardinality(agents) |-> IF n = 0 THEN {FirstAgent(agents)} ELSE Grown(links, f[n - 1])]
Reached(agents, links) == CHOOSE f : Reaches(f, agents, links)

(* isComplete by the set reached from the first agent.                    *)
LEMMA CompleteUnfolded ==
  ASSUME NEW pool, NEW links
  PROVE  IsComplete(pool, links)
           <=> Reached(Agents(pool), links)[Cardinality(Agents(pool))] = Agents(pool)
BY DEF IsComplete, Reached, Reaches, Grown, FirstAgent

(* What is reached grows along links and stays within a set that no link  *)
(* leaves.                                                                *)
LEMMA GrownFacts ==
  ASSUME NEW links, NEW X, NEW prev
  PROVE  /\ prev \subseteq Grown(links, prev)
         /\ prev \subseteq X /\ Closed(links, X) => Grown(links, prev) \subseteq X
         /\ prev \cap X = {} /\ Closed(links, X) => Grown(links, prev) \cap X = {}
         /\ Grown(links, prev) \subseteq prev => Closed(links, prev)
BY DEF Grown, Closed

(* The recursion of isComplete has a solution.                            *)
LEMMA ReachedFacts ==
  ASSUME NEW agents, IsFiniteSet(agents), agents # {}, NEW links, Linking(agents, links),
         NEW r, r = Reached(agents, links)
  PROVE  /\ r \in [0 .. Cardinality(agents) -> SUBSET agents]
         /\ r[0] = {FirstAgent(agents)} /\ FirstAgent(agents) \in agents
         /\ \A n \in 1 .. Cardinality(agents) : r[n] = Grown(links, r[n - 1])
<1> DEFINE N == Cardinality(agents)
           D == SUBSET agents
           step == [prev \in D |-> Grown(links, prev)]
           start == {FirstAgent(agents)}
<1>0. N \in Nat
  BY FS_CardinalityType
<1>1. FirstAgent(agents) \in agents /\ start \in D
  BY DEF FirstAgent
<1>2. step \in [D -> D]
  <2>1. \A prev \in D : Grown(links, prev) \in D
    BY DEF Grown, Linking
  <2> QED
    BY <2>1
<1>3. PICK f : /\ f \in [0 .. 0 + N -> D] /\ f[0] = start
               /\ \A k \in 0 + 1 .. 0 + N : f[k] = step[f[k - 1]]
  <2> HIDE DEF N, D, step, start
  <2>1. \E f : Recursion(f, D, start, step, 0, N)
    BY <1>0, <1>1, <1>2, RecursionExists
  <2> QED
    BY <2>1 DEF Recursion
<1>4. f \in [0 .. N -> D] /\ \A k \in 1 .. N : f[k] = Grown(links, f[k - 1])
  <2>1. 0 + N = N /\ 0 + 1 = 1
    BY <1>0
  <2>2. f \in [0 .. N -> D] /\ \A k \in 1 .. N : f[k] = step[f[k - 1]]
    BY <1>3, <2>1
  <2>3. \A k \in 1 .. N : k - 1 \in 0 .. N
    BY <1>0
  <2> QED
    BY <2>2, <2>3
<1>5. Reaches(f, agents, links)
  <2> DEFINE g == [n \in 0 .. N |-> IF n = 0 THEN {FirstAgent(agents)} ELSE Grown(links, f[n - 1])]
  <2>1. ASSUME NEW n \in 0 .. N
        PROVE  f[n] = g[n]
    <3>1. CASE n = 0
      BY <1>3, <3>1
    <3>2. CASE n # 0
      <4>1. n \in 1 .. N
        BY <1>0, <3>2
      <4> HIDE DEF N
      <4> QED
        BY <1>4, <3>2, <4>1
    <3> QED
      BY <3>1, <3>2
  <2>2. DOMAIN f = 0 .. N /\ f = [n \in 0 .. N |-> f[n]]
    BY <1>4
  <2>3. DOMAIN g = 0 .. N /\ g = [n \in 0 .. N |-> g[n]]
    OBVIOUS
  <2>4. f = g
    <3> HIDE DEF g
    <3> QED
      BY <2>1, <2>2, <2>3
  <2> QED
    BY <2>4 DEF Reaches
<1>6. Reaches(r, agents, links)
  BY <1>5 DEF Reached
<1>7. /\ DOMAIN r = 0 .. N /\ r[0] = {FirstAgent(agents)}
      /\ \A n \in 1 .. N : r[n] = Grown(links, r[n - 1])
      /\ r = [n \in 0 .. N |-> r[n]]
  <2>1. r = [n \in 0 .. N |-> IF n = 0 THEN {FirstAgent(agents)} ELSE Grown(links, r[n - 1])]
    BY <1>6 DEF Reaches
  <2>2. \A n \in 1 .. N : n \in 0 .. N /\ n # 0
    BY <1>0
  <2>3. 0 \in 0 .. N
    BY <1>0
  <2> HIDE DEF N
  <2>4. DOMAIN r = 0 .. N /\ r = [n \in 0 .. N |-> r[n]]
    BY <2>1
  <2>5. \A n \in 0 .. N : r[n] = IF n = 0 THEN {FirstAgent(agents)} ELSE Grown(links, r[n - 1])
    BY <2>1
  <2> QED
    BY <2>2, <2>3, <2>4, <2>5
<1>8. \A n \in 0 .. N : r[n] \in D
  <2> DEFINE P == {n \in Nat : n \in 0 .. N => r[n] \in D}
  <2>1. 0 \in P
    BY <1>1, <1>7
  <2>2. \A n \in Nat : n \in P => n + 1 \in P
    <3> SUFFICES ASSUME NEW n \in Nat, n \in P, n + 1 \in 0 .. N PROVE r[n + 1] \in D
      OBVIOUS
    <3>1. n \in 0 .. N /\ n + 1 \in 1 .. N /\ (n + 1) - 1 = n
      BY <1>0
    <3>2. r[n] \in D /\ r[n + 1] = Grown(links, r[n])
      BY <1>7, <3>1
    <3> QED
      BY <1>2, <3>2
  <2> HIDE DEF P
  <2>3. Nat \subseteq P
    BY <2>1, <2>2, NatSetInduction
  <2> QED
    BY <1>0, <2>3 DEF P
<1>9. r \in [0 .. N -> D]
  BY <1>7, <1>8
<1> QED
  BY <1>1, <1>7, <1>9

(* isComplete reaches all agents exactly if no link-closed part of them   *)
(* stands apart: while something is missing every pass reaches one agent  *)
(* more.                                                                  *)
LEMMA CompleteIsConnected ==
  ASSUME NEW agents, IsFiniteSet(agents), agents # {}, NEW links, Linking(agents, links)
  PROVE  Reached(agents, links)[Cardinality(agents)] = agents <=> Connected(agents, links)
<1> DEFINE N == Cardinality(agents)
<1>0. N \in Nat
  BY FS_CardinalityType
<1> DEFINE r == Reached(agents, links)
<1>1. /\ r \in [0 .. N -> SUBSET agents]
      /\ r[0] = {FirstAgent(agents)} /\ FirstAgent(agents) \in agents
      /\ \A n \in 1 .. N : r[n] = Grown(links, r[n - 1])
  BY ReachedFacts
<1> HIDE DEF N, r
<1>2. \A n \in Nat : n + 1 \in 0 .. N => n \in 0 .. N /\ n + 1 \in 1 .. N /\ r[n + 1] = Grown(links, r[n])
  <2> SUFFICES ASSUME NEW n \in Nat, n + 1 \in 0 .. N
               PROVE  n \in 0 .. N /\ n + 1 \in 1 .. N /\ r[n + 1] = Grown(links, r[n])
    OBVIOUS
  <2>1. n \in 0 .. N /\ n + 1 \in 1 .. N /\ (n + 1) - 1 = n
    BY <1>0
  <2> QED
    BY <1>1, <2>1
<1>3. ASSUME r[N] = agents, NEW X \in SUBSET agents, X # {}, Closed(links, X)
      PROVE  X = agents
  <2> DEFINE P == {n \in Nat : n \in 0 .. N => r[n] \subseteq X}
             Q == {n \in Nat : n \in 0 .. N => r[n] \cap X = {}}
  <2>1. CASE FirstAgent(agents) \in X
    <3>1. 0 \in P
      BY <1>1, <2>1
    <3>2. \A n \in Nat : n \in P => n + 1 \in P
      BY <1>2, <1>3, GrownFacts
    <3> HIDE DEF P
    <3>3. Nat \subseteq P
      BY <3>1, <3>2, NatSetInduction
    <3>4. r[N] \subseteq X
      BY <1>0, <3>3 DEF P
    <3> QED
      BY <1>3, <3>4
  <2>2. CASE FirstAgent(agents) \notin X
    <3>1. 0 \in Q
      BY <1>1, <2>2
    <3>2. \A n \in Nat : n \in Q => n + 1 \in Q
      BY <1>2, <1>3, GrownFacts
    <3> HIDE DEF Q
    <3>3. Nat \subseteq Q
      BY <3>1, <3>2, NatSetInduction
    <3>4. r[N] \cap X = {}
      BY <1>0, <3>3 DEF Q
    <3> QED
      BY <1>3, <3>4
  <2> QED
    BY <2>1, <2>2
<1>4. ASSUME Connected(agents, links)
      PROVE  r[N] = agents
  <2> DEFINE P == {n \in Nat : n \in 0 .. N => r[n] # {} /\ (r[n] = agents \/ Cardinality(r[n]) >= n + 1)}
  <2>0. \A n \in 0 .. N : r[n] \in SUBSET agents /\ IsFiniteSet(r[n]) /\ Cardinality(r[n]) \in Nat
    BY <1>1, FS_Subset, FS_CardinalityType
  <2>1. 0 \in P
    <3>1. Cardinality(r[0]) = 1 /\ r[0] # {}
      BY <1>1, FS_Singleton
    <3> QED
      BY <3>1
  <2>2. \A n \in Nat : n \in P => n + 1 \in P
    <3> SUFFICES ASSUME NEW n \in Nat, n \in P PROVE n + 1 \in P
      OBVIOUS
    <3> SUFFICES ASSUME n + 1 \in 0 .. N
                 PROVE  r[n + 1] # {} /\ (r[n + 1] = agents \/ Cardinality(r[n + 1]) >= (n + 1) + 1)
      OBVIOUS
    <3>1. n \in 0 .. N /\ r[n + 1] = Grown(links, r[n]) /\ r[n] # {}
      BY <1>2
    <3>2. r[n] \subseteq r[n + 1]
      BY <3>1 DEF Grown
    <3>3. CASE r[n] = agents
      BY <2>0, <3>1, <3>2, <3>3
    <3>4. CASE r[n] # agents
      <4>1. Cardinality(r[n]) >= n + 1
        BY <3>1, <3>4
      <4>2. ~ Closed(links, r[n])
        BY <1>4, <2>0, <3>1, <3>4 DEF Connected
      <4>3. r[n + 1] # r[n]
        BY <3>1, <4>2, GrownFacts
      <4>4. Cardinality(r[n]) <= Cardinality(r[n + 1]) /\ Cardinality(r[n]) # Cardinality(r[n + 1])
        BY <2>0, <3>2, <4>3, FS_Subset
      <4>5. Cardinality(r[n]) \in Nat /\ Cardinality(r[n + 1]) \in Nat
        BY <2>0, <3>1
      <4> QED
        BY <3>1, <3>2, <4>1, <4>4, <4>5
    <3> QED
      BY <3>3, <3>4
  <2> HIDE DEF P
  <2>3. Nat \subseteq P
    BY <2>1, <2>2, NatSetInduction
  <2>4. r[N] = agents \/ Cardinality(r[N]) >= N + 1
    BY <1>0, <2>3 DEF P
  <2>5. Cardinality(r[N]) <= N /\ Cardinality(r[N]) \in Nat
    BY <1>0, <2>0, FS_Subset DEF N
  <2> QED
    BY <1>0, <2>4, <2>5
<1> QED
  BY <1>3, <1>4 DEF Connected, N, r

-----------------------------------------------------------------------------
(* Agents put together one after the other.                                *)

Crossing(links, u) == {k \in links : Cardinality(Between(k) \cap u.in) = 1 /\ Ends(k) \cap u.used = {}}
With(u, l) == [in |-> u.in \cup Between(l), used |-> u.used \cup Ends(l)]
Beginning(agents) == {[in |-> {a}, used |-> {}] : a \in agents}
Extended(links, prev) == UNION {{With(u, l) : l \in Crossing(links, u)} : u \in prev}
Stages(f, agents, links) ==
  f = [n \in 1 .. Cardinality(agents) |-> IF n = 1 THEN Beginning(agents) ELSE Extended(links, f[n - 1])]
Staged(agents, links) == CHOOSE f : Stages(f, agents, links)

(* The reference definition by its last stage.                            *)
LEMMA AssemblyUnfolded ==
  ASSUME NEW pool
  PROVE  CanBeAssembled(pool)
           <=> Staged(Agents(pool), Compatible(pool))[Cardinality(Agents(pool))] # {}
BY DEF CanBeAssembled, Staged, Stages, Extended, Beginning, With, Crossing

(* Parts of a unit: agents, and interfaces of the links.                   *)
Units(agents, links) == [in : SUBSET agents, used : SUBSET UNION {Ends(l) : l \in links}]

(* The recursion of the reference definition has a solution.              *)
LEMMA StageFacts ==
  ASSUME NEW agents, IsFiniteSet(agents), agents # {}, NEW links, Linking(agents, links),
         NEW f, f = Staged(agents, links)
  PROVE  /\ f[1] = Beginning(agents)
         /\ \A n \in 2 .. Cardinality(agents) : f[n] = Extended(links, f[n - 1])
<1> DEFINE N == Cardinality(agents)
           D == SUBSET Units(agents, links)
           step == [prev \in D |-> Extended(links, prev)]
           start == Beginning(agents)
<1>0. N \in Nat /\ N # 0 /\ N - 1 \in Nat /\ 1 + (N - 1) = N
  BY FS_CardinalityType, FS_EmptySet
<1>1. start \in D
  BY DEF Beginning, Units
<1>2. step \in [D -> D]
  <2>1. ASSUME NEW prev \in D PROVE Extended(links, prev) \in D
    <3>1. ASSUME NEW u \in prev, NEW l \in Crossing(links, u) PROVE With(u, l) \in Units(agents, links)
      <4>1. u \in Units(agents, links) /\ l \in links
        BY DEF Crossing
      <4>2. u.in \cup Between(l) \in SUBSET agents
        BY <4>1 DEF Units, Linking
      <4>3. u.used \cup Ends(l) \in SUBSET UNION {Ends(k) : k \in links}
        BY <4>1 DEF Units
      <4> QED
        BY <4>2, <4>3 DEF With, Units
    <3> QED
      BY <3>1 DEF Extended
  <2> QED
    BY <2>1
<1>3. PICK g : /\ g \in [1 .. N -> D] /\ g[1] = start
               /\ \A k \in 2 .. N : g[k] = step[g[k - 1]]
  <2> HIDE DEF N, D, step, start
  <2>1. \E g : Recursion(g, D, start, step, 1, N - 1)
    BY <1>0, <1>1, <1>2, RecursionExists
  <2>2. 1 + (N - 1) = N /\ 1 + 1 = 2
    BY <1>0
  <2>3. \E g : /\ g \in [1 .. 1 + (N - 1) -> D] /\ g[1] = start
               /\ \A k \in 1 + 1 .. 1 + (N - 1) : g[k] = step[g[k - 1]]
    BY <2>1 DEF Recursion
  <2> QED
    BY <2>2, <2>3
<1>4. g \in [1 .. N -> D] /\ \A k \in 2 .. N : g[k] = Extended(links, g[k - 1])
  <2>1. \A k \in 2 .. N : k - 1 \in 1 .. N
    BY <1>0
  <2> QED
    BY <1>3, <2>1
<1>5. Stages(g, agents, links)
  <2> DEFINE h == [n \in 1 .. N |-> IF n = 1 THEN Beginning(agents) ELSE Extended(links, g[n - 1])]
  <2>1. ASSUME NEW n \in 1 .. N
        PROVE  g[n] = h[n]
    <3>1. CASE n = 1
      BY <1>3, <3>1
    <3>2. CASE n # 1
      <4>1. n \in 2 .. N
        BY <1>0, <3>2
      <4> HIDE DEF N
      <4> QED
        BY <1>4, <3>2, <4>1
    <3> QED
      BY <3>1, <3>2
  <2>2. DOMAIN g = 1 .. N /\ g = [n \in 1 .. N |-> g[n]]
    BY <1>4
  <2>3. DOMAIN h = 1 .. N /\ h = [n \in 1 .. N |-> h[n]]
    OBVIOUS
  <2>4. g = h
    <3> HIDE DEF h
    <3> QED
      BY <2>1, <2>2, <2>3
  <2> QED
    BY <2>4 DEF Stages
<1>6. f = [n \in 1 .. N |-> IF n = 1 THEN Beginning(agents) ELSE Extended(links, f[n - 1])]
  BY <1>5 DEF Staged, Stages
<1>7. 1 \in 1 .. N /\ \A n \in 2 .. N : n \in 1 .. N /\ n # 1
  BY <1>0
<1> HIDE DEF N
<1>8. \A n \in 1 .. N : f[n] = IF n = 1 THEN Beginning(agents) ELSE Extended(links, f[n - 1])
  BY <1>6
<1> QED
  BY <1>7, <1>8 DEF N

(* A link that joins one more agent at free interfaces extends an         *)
(* assembly.                                                              *)
LEMMA ExtendedTo ==
  ASSUME NEW links, NEW prev, NEW u \in prev, NEW l \in links,
         Cardinality(Between(l) \cap u.in) = 1, Ends(l) \cap u.used = {}
  PROVE  With(u, l) \in Extended(links, prev)
<1>1. l \in Crossing(links, u)
  BY DEF Crossing
<1>2. With(u, l) \in {With(u, k) : k \in Crossing(links, u)}
  BY <1>1
<1> QED
  BY <1>2 DEF Extended

(* An extended assembly comes from one, by such a link.                   *)
ExtendedBy(v, links, prev) ==
  \E u \in prev, l \in links :
     /\ Cardinality(Between(l) \cap u.in) = 1 /\ Ends(l) \cap u.used = {}
     /\ v.in = u.in \cup Between(l) /\ v.used = u.used \cup Ends(l)

(* What lies in Extended comes from an assembly by a link that fits it.    *)
LEMMA ExtendedFrom ==
  ASSUME NEW links, NEW prev, NEW v \in Extended(links, prev)
  PROVE  ExtendedBy(v, links, prev)
<1>1. PICK u \in prev : v \in {With(u, l) : l \in Crossing(links, u)}
  BY DEF Extended
<1>2. PICK l \in Crossing(links, u) : v = With(u, l)
  BY <1>1
<1>3. v.in = u.in \cup Between(l) /\ v.used = u.used \cup Ends(l)
  BY <1>2 DEF With
<1>4. l \in links /\ Cardinality(Between(l) \cap u.in) = 1 /\ Ends(l) \cap u.used = {}
  BY DEF Crossing
<1> QED
  BY <1>3, <1>4 DEF ExtendedBy

(* A link that is crossed adds one agent.                                  *)
LEMMA CrossingAddsOne ==
  ASSUME NEW l, l[1][1] # l[2][1], NEW X, IsFiniteSet(X)
  PROVE  /\ Cardinality(Between(l) \cap X) = 1
              <=> Between(l) \cap X # {} /\ ~ (Between(l) \subseteq X)
         /\ Cardinality(Between(l) \cap X) = 1 =>
              \E a, b : /\ Between(l) = {a, b} /\ a \in X /\ b \notin X
                        /\ X \cup Between(l) = X \cup {b}
                        /\ IsFiniteSet(X \cup Between(l))
                        /\ Cardinality(X \cup Between(l)) = Cardinality(X) + 1
<1> DEFINE a == l[1][1]
           b == l[2][1]
<1>1. Between(l) = {a, b}
  BY DEF Between
<1>2. Cardinality(Between(l) \cap X) = Cardinality({a, b} \cap X)
  BY <1>1, Zenon
<1>3. Cardinality(Between(l) \cap X) = 1 <=> (a \in X /\ b \notin X) \/ (a \notin X /\ b \in X)
  BY <1>2, CrossedOnce
<1> HIDE DEF a, b
<1>4. ASSUME NEW c, NEW d, Between(l) = {c, d}, c \in X, d \notin X
      PROVE  /\ X \cup Between(l) = X \cup {d}
             /\ IsFiniteSet(X \cup Between(l)) /\ Cardinality(X \cup Between(l)) = Cardinality(X) + 1
  <2>1. X \cup Between(l) = X \cup {d}
    BY <1>4
  <2>2. IsFiniteSet(X \cup {d}) /\ Cardinality(X \cup {d}) = Cardinality(X) + 1
    BY <1>4, OneMore
  <2> QED
    BY <2>1, <2>2, Zenon
<1>5. Between(l) = {b, a}
  BY <1>1
<1>6. CASE a \in X /\ b \notin X
  BY <1>1, <1>3, <1>4, <1>6
<1>7. CASE a \notin X /\ b \in X
  BY <1>1, <1>3, <1>4, <1>5, <1>7
<1>8. CASE ~ ((a \in X /\ b \notin X) \/ (a \notin X /\ b \in X))
  BY <1>1, <1>3, <1>8
<1> QED
  BY <1>6, <1>7, <1>8

-----------------------------------------------------------------------------
(* Links that connect, each interface used once, tell how to put the agents*)
(* together: whatever is together, a link leads on.                        *)
Separate(links) == \A k, l \in links : k # l => Ends(k) \cap Ends(l) = {} /\ Between(k) # Between(l)
EndsOf(links) == UNION {Ends(l) : l \in links}

(* A unit of n agents, put together by some of the links.                  *)
Joins(u, n, agents, links) ==
  /\ u.in \in SUBSET agents /\ u.in # {} /\ IsFiniteSet(u.in) /\ Cardinality(u.in) = n
  /\ \E T \in SUBSET links : u.used = EndsOf(T) /\ \A l \in T : Between(l) \subseteq u.in

(* Among links that connect all agents and share no interface, one leads  *)
(* out of what has been assembled, and its interfaces are free.           *)
LEMMA JoinsMore ==
  ASSUME NEW agents, IsFiniteSet(agents), NEW all, Linking(agents, all),
         NEW links \in SUBSET all, Separate(links), Connected(agents, links),
         NEW n \in Nat, n < Cardinality(agents),
         NEW prev, NEW u \in prev, Joins(u, n, agents, links)
  PROVE  \E v \in Extended(all, prev) : Joins(v, n + 1, agents, links)
<1>1. PICK T \in SUBSET links : u.used = EndsOf(T) /\ \A l \in T : Between(l) \subseteq u.in
  BY DEF Joins
<1>2. u.in \in SUBSET agents /\ u.in # {} /\ IsFiniteSet(u.in) /\ Cardinality(u.in) = n
  BY DEF Joins
<1>3. u.in # agents
  BY <1>2
<1>4. PICK l \in links : Between(l) \cap u.in # {} /\ ~ (Between(l) \subseteq u.in)
  BY <1>2, <1>3 DEF Connected, Closed
<1>5. l \in all /\ l[1][1] # l[2][1] /\ Between(l) \subseteq agents
  BY DEF Linking
<1>6. Cardinality(Between(l) \cap u.in) = 1
  BY <1>2, <1>4, <1>5, CrossingAddsOne
<1>7. IsFiniteSet(u.in \cup Between(l)) /\ Cardinality(u.in \cup Between(l)) = n + 1
  BY <1>2, <1>5, <1>6, CrossingAddsOne
<1>8. Ends(l) \cap u.used = {}
  <2>1. l \notin T
    BY <1>1, <1>4
  <2>2. \A k \in T : Ends(l) \cap Ends(k) = {}
    BY <2>1 DEF Separate
  <2> QED
    BY <1>1, <2>2 DEF EndsOf
<1> DEFINE v == With(u, l)
<1>9. v.in = u.in \cup Between(l) /\ v.used = u.used \cup Ends(l)
  BY DEF With
<1>10. v \in Extended(all, prev)
  BY <1>5, <1>6, <1>8, ExtendedTo
<1> HIDE DEF v
<1>11. v.used = EndsOf(T \cup {l}) /\ T \cup {l} \in SUBSET links
  BY <1>1, <1>9 DEF EndsOf
<1>12. \A k \in T \cup {l} : Between(k) \subseteq v.in
  BY <1>1, <1>9
<1>13. v.in \in SUBSET agents /\ v.in # {}
  BY <1>2, <1>5, <1>9
<1>14. IsFiniteSet(v.in) /\ Cardinality(v.in) = n + 1
  BY <1>7, <1>9, Zenon
<1> QED
  BY <1>10, <1>11, <1>12, <1>13, <1>14 DEF Joins

(* Agents that some solution connects can be assembled one after the      *)
(* other.                                                                 *)
LEMMA ConnectedCanBeStaged ==
  ASSUME NEW agents, IsFiniteSet(agents), agents # {}, NEW all, Linking(agents, all),
         NEW links \in SUBSET all, Separate(links), Connected(agents, links)
  PROVE  Staged(agents, all)[Cardinality(agents)] # {}
<1> DEFINE N == Cardinality(agents)
           f == Staged(agents, all)
           P == {n \in Nat : n + 1 <= N => \E u \in f[n + 1] : Joins(u, n + 1, agents, links)}
<1>0. N \in Nat /\ N # 0
  BY FS_CardinalityType, FS_EmptySet
<1>a. f[1] = Beginning(agents) /\ \A n \in 2 .. N : f[n] = Extended(all, f[n - 1])
  BY StageFacts
<1> HIDE DEF f
<1>1. 0 \in P
  <2>1. PICK a \in agents : TRUE
    OBVIOUS
  <2> DEFINE u == [in |-> {a}, used |-> {}]
  <2>2. u \in f[1]
    BY <1>a, <2>1 DEF Beginning
  <2>3. u.in = {a} /\ u.used = {}
    OBVIOUS
  <2> HIDE DEF u
  <2>4. IsFiniteSet({a}) /\ Cardinality({a}) = 1
    BY FS_Singleton
  <2>5. u.used = EndsOf({})
    BY <2>3 DEF EndsOf
  <2>6. Joins(u, 1, agents, links)
    BY <2>1, <2>3, <2>4, <2>5 DEF Joins
  <2> QED
    BY <2>2, <2>6
<1>2. \A n \in Nat : n \in P => n + 1 \in P
  <2> SUFFICES ASSUME NEW n \in Nat, n \in P, (n + 1) + 1 <= N
               PROVE  \E v \in f[(n + 1) + 1] : Joins(v, (n + 1) + 1, agents, links)
    OBVIOUS
  <2>1. n + 1 <= N /\ n + 1 < N /\ n + 1 \in Nat /\ (n + 1) + 1 \in 2 .. N /\ ((n + 1) + 1) - 1 = n + 1
    BY <1>0
  <2>2. PICK u \in f[n + 1] : Joins(u, n + 1, agents, links)
    BY <2>1
  <2>3. f[(n + 1) + 1] = Extended(all, f[n + 1])
    BY <1>a, <2>1
  <2> HIDE DEF P
  <2>4. \E v \in Extended(all, f[n + 1]) : Joins(v, (n + 1) + 1, agents, links)
    BY <2>1, <2>2, JoinsMore
  <2> QED
    BY <2>3, <2>4
<1>3. Nat \subseteq P
  <2> HIDE DEF P
  <2> QED
    BY <1>1, <1>2, NatSetInduction
<1>4. N - 1 \in P /\ (N - 1) + 1 = N
  BY <1>0, <1>3
<1>5. \E u \in f[N] : TRUE
  BY <1>4
<1> QED
  BY <1>5 DEF f

-----------------------------------------------------------------------------
(* The links by which agents were put together make a tree.                *)
Tree(T, n, u, agents, links) ==
  /\ T \in SUBSET links /\ IsFiniteSet(T) /\ Cardinality(T) = n - 1
  /\ u.in \in SUBSET agents /\ IsFiniteSet(u.in) /\ Cardinality(u.in) = n
  /\ u.used = EndsOf(T) /\ Separate(T)
  /\ \A l \in T : Between(l) \subseteq u.in
  /\ Connected(u.in, T)

(* With one link more an assembly stays a tree.                           *)
LEMMA TreeGrows ==
  ASSUME NEW agents, IsFiniteSet(agents), NEW links, Linking(agents, links),
         NEW n \in Nat, NEW u, NEW T, Tree(T, n, u, agents, links),
         NEW l \in links, Cardinality(Between(l) \cap u.in) = 1, Ends(l) \cap u.used = {},
         NEW v, v.in = u.in \cup Between(l), v.used = u.used \cup Ends(l)
  PROVE  Tree(T \cup {l}, n + 1, v, agents, links)
<1>0. /\ T \in SUBSET links /\ IsFiniteSet(T) /\ Cardinality(T) = n - 1
      /\ u.in \in SUBSET agents /\ IsFiniteSet(u.in) /\ Cardinality(u.in) = n
      /\ u.used = EndsOf(T) /\ Separate(T)
      /\ \A k \in T : Between(k) \subseteq u.in
      /\ Connected(u.in, T)
  BY DEF Tree
<1>1. l[1][1] # l[2][1] /\ Between(l) \subseteq agents
  BY DEF Linking
<1>2. PICK a, b : /\ Between(l) = {a, b} /\ a \in u.in /\ b \notin u.in
                  /\ u.in \cup Between(l) = u.in \cup {b}
                  /\ IsFiniteSet(u.in \cup Between(l))
                  /\ Cardinality(u.in \cup Between(l)) = Cardinality(u.in) + 1
  BY <1>0, <1>1, CrossingAddsOne
<1>3. l \notin T
  BY <1>0, <1>2
<1>4. T \cup {l} \in SUBSET links /\ IsFiniteSet(T \cup {l}) /\ Cardinality(T \cup {l}) = (n + 1) - 1
  <2>1. Cardinality(T \cup {l}) = Cardinality(T) + 1 /\ IsFiniteSet(T \cup {l})
    BY <1>0, <1>3, OneMore
  <2> QED
    BY <1>0, <2>1
<1>5. v.in \in SUBSET agents /\ IsFiniteSet(v.in) /\ Cardinality(v.in) = n + 1
  <2>1. IsFiniteSet(v.in) /\ Cardinality(v.in) = Cardinality(u.in) + 1
    BY <1>2, Zenon
  <2> QED
    BY <1>0, <1>1, <2>1
<1>6. v.used = EndsOf(T \cup {l})
  BY <1>0 DEF EndsOf
<1>7. Separate(T \cup {l})
  <2>1. \A k \in T : Ends(k) \cap Ends(l) = {}
    BY <1>0 DEF EndsOf
  <2>2. \A k \in T : Between(k) # Between(l)
    BY <1>0, <1>2
  <2> QED
    BY <1>0, <2>1, <2>2 DEF Separate
<1>8. \A k \in T \cup {l} : Between(k) \subseteq v.in
  BY <1>0
<1>9. Connected(v.in, T \cup {l})
  <2> SUFFICES ASSUME NEW X \in SUBSET v.in, X # {}, Closed(T \cup {l}, X)
               PROVE  X = v.in
    BY DEF Connected
  <2>1. v.in = u.in \cup {b}
    BY <1>2
  <2>2. Closed(T, X \cap u.in)
    BY <1>0 DEF Closed
  <2>3. a \in X <=> b \in X
    BY <1>2 DEF Closed
  <2>4. X \cap u.in # {}
    BY <1>2, <2>1, <2>3
  <2>5. X \cap u.in = u.in
    BY <1>0, <2>2, <2>4 DEF Connected
  <2> QED
    BY <1>2, <2>1, <2>3, <2>5
<1> QED
  BY <1>4, <1>5, <1>6, <1>7, <1>8, <1>9 DEF Tree

(* The links of a complete assembly are one less than the agents, share   *)
(* no interface and connect everything.                                   *)
LEMMA StagedHasTree ==
  ASSUME NEW agents, IsFiniteSet(agents), agents # {}, NEW links, Linking(agents, links),
         Staged(agents, links)[Cardinality(agents)] # {}
  PROVE  \E T \in SUBSET links :
           /\ IsFiniteSet(T) /\ Cardinality(T) = Cardinality(agents) - 1
           /\ Separate(T) /\ Connected(agents, T)
<1> DEFINE N == Cardinality(agents)
           f == Staged(agents, links)
           P == {n \in Nat : n + 1 <= N => \A u \in f[n + 1] : \E T : Tree(T, n + 1, u, agents, links)}
<1>0. N \in Nat /\ N # 0
  BY FS_CardinalityType, FS_EmptySet
<1>a. f[1] = Beginning(agents) /\ \A n \in 2 .. N : f[n] = Extended(links, f[n - 1])
  BY StageFacts
<1>b. f[N] # {}
  OBVIOUS
<1> HIDE DEF f
<1>1. 0 \in P
  <2> SUFFICES ASSUME NEW u \in f[1] PROVE Tree({}, 1, u, agents, links)
    OBVIOUS
  <2>1. PICK a \in agents : u = [in |-> {a}, used |-> {}]
    BY <1>a DEF Beginning
  <2>2. u.in = {a} /\ u.used = EndsOf({}) /\ Separate({})
    BY <2>1 DEF EndsOf, Separate
  <2>3. IsFiniteSet(u.in) /\ Cardinality(u.in) = 1
    <3> DEFINE one == {a}
    <3>1. IsFiniteSet(one) /\ Cardinality(one) = 1
      BY FS_Singleton
    <3>2. u.in = one
      BY <2>2
    <3> HIDE DEF one
    <3> QED
      BY <3>1, <3>2
  <2>4. Connected(u.in, {})
    BY <2>2 DEF Connected
  <2>5. IsFiniteSet({}) /\ Cardinality({}) = 1 - 1
    BY FS_EmptySet
  <2> QED
    BY <2>1, <2>2, <2>3, <2>4, <2>5 DEF Tree
<1>2. \A n \in Nat : n \in P => n + 1 \in P
  <2> SUFFICES ASSUME NEW n \in Nat, n \in P, (n + 1) + 1 <= N, NEW v \in f[(n + 1) + 1]
               PROVE  \E T : Tree(T, (n + 1) + 1, v, agents, links)
    OBVIOUS
  <2>1. n + 1 <= N /\ n + 1 \in Nat /\ (n + 1) + 1 \in 2 .. N /\ ((n + 1) + 1) - 1 = n + 1
    BY <1>0
  <2>2. \A u \in f[n + 1] : \E T : Tree(T, n + 1, u, agents, links)
    BY <2>1
  <2> DEFINE prev == f[n + 1]
  <2>3. v \in Extended(links, prev)
    BY <1>a, <2>1
  <2> HIDE DEF P, prev
  <2>4. PICK u \in prev, l \in links :
          /\ Cardinality(Between(l) \cap u.in) = 1 /\ Ends(l) \cap u.used = {}
          /\ v.in = u.in \cup Between(l) /\ v.used = u.used \cup Ends(l)
    <3>1. ExtendedBy(v, links, prev)
      BY <2>3, ExtendedFrom
    <3> QED
      BY <3>1 DEF ExtendedBy
  <2>5. PICK T : Tree(T, n + 1, u, agents, links)
    BY <2>2 DEF prev
  <2>6. Tree(T \cup {l}, (n + 1) + 1, v, agents, links)
    BY <2>1, <2>4, <2>5, TreeGrows
  <2> QED
    BY <2>6
<1>3. Nat \subseteq P
  <2> HIDE DEF P
  <2> QED
    BY <1>1, <1>2, NatSetInduction
<1>4. N - 1 \in P /\ (N - 1) + 1 = N
  BY <1>0, <1>3
<1>5. PICK u \in f[N] : TRUE
  BY <1>b
<1>6. \A v \in f[N] : \E T : Tree(T, N, v, agents, links)
  BY <1>0, <1>4
<1>7. PICK T : Tree(T, N, u, agents, links)
  BY <1>5, <1>6
<1>8. u.in = agents
  BY <1>7, FS_Subset DEF Tree
<1> QED
  BY <1>7, <1>8 DEF Tree

-----------------------------------------------------------------------------
(* What the search looks for, and what AnswerIsRight asks, is the same.    *)

(* A pool has as many agents as its entries sum up to, which the early    *)
(* returns of isFeasible look at.                                         *)
LEMMA AgentFacts ==
  ASSUME NEW pool, IsPool(pool), IsFiniteSet(DOMAIN pool)
  PROVE  /\ IsFiniteSet(Agents(pool))
         /\ NumberOfInstances(pool) = Cardinality(Agents(pool))
         /\ NumberOfInstances(pool) \in Nat
         /\ \A a \in Agents(pool) : a[1] \in Nat /\ a[2] \in Nat
<1> DEFINE part == [m \in DOMAIN pool |-> {<<m, i>> : i \in 1 .. pool[m]}]
<1>1. \A m \in DOMAIN pool : pool[m] \in Nat /\ m \in Nat
  BY ModelAssumption DEF IsPool
<1>2. ASSUME NEW m \in DOMAIN pool
      PROVE  IsFiniteSet(part[m]) /\ Cardinality(part[m]) = pool[m]
  <2> DEFINE f == [i \in 1 .. pool[m] |-> <<m, i>>]
  <2>1. f \in Bijection(1 .. pool[m], part[m])
    BY DEF Bijection, Injection, Surjection, IsInjective
  <2>2. ExistsBijection(1 .. pool[m], part[m])
    BY <2>1 DEF ExistsBijection
  <2>3. IsFiniteSet(1 .. pool[m]) /\ Cardinality(1 .. pool[m]) = pool[m]
    BY <1>1, FS_Interval
  <2> HIDE DEF part
  <2> QED
    BY <2>2, <2>3, FS_Bijection
<1>3. Parted(part, DOMAIN pool, Agents(pool))
  BY DEF Parted, Agents
<1>4. IsFiniteSet(Agents(pool))
  <2> HIDE DEF part
  <2> QED
    BY <1>2, <1>3, PartsAreFinite
<1>5. NumberOfInstances(pool) = SumFunctionOnSet(pool, DOMAIN pool)
  BY DEF NumberOfInstances, FoldFunction, SumFunctionOnSet
<1>6. SumFunctionOnSet(pool, DOMAIN pool) = Cardinality(Agents(pool))
  <2> HIDE DEF part
  <2> QED
    BY <1>2, <1>3, <1>4, SumOfParts
<1>7. \A a \in Agents(pool) : a[1] \in Nat /\ a[2] \in Nat
  BY <1>1 DEF Agents
<1> QED
  BY <1>4, <1>5, <1>6, <1>7, FS_CardinalityType

(* Compatible links join two agents that have interfaces.                 *)
LEMMA LinkFacts ==
  ASSUME NEW pool, IsPool(pool), IsFiniteSet(DOMAIN pool)
  PROVE  /\ Linking(Agents(pool), Compatible(pool))
         /\ \A l \in Compatible(pool), m \in DOMAIN pool :
              l[1][1][1] = m \/ l[2][1][1] = m => ontology.interfaces[m] # <<>>
<1> SUFFICES ASSUME NEW l \in Compatible(pool)
             PROVE  /\ Between(l) \subseteq Agents(pool) /\ l[1][1] # l[2][1]
                    /\ \A m : l[1][1][1] = m \/ l[2][1][1] = m => ontology.interfaces[m] # <<>>
  BY DEF Linking
<1> DEFINE ports == UNION {InterfacesOf(a) : a \in Agents(pool)}
<1>1. l \in ports \X ports /\ Precedes(l[1][1], l[2][1])
  BY DEF Compatible
<1>2. \A p \in ports : p[1] \in Agents(pool) /\ ontology.interfaces[p[1][1]] # <<>>
  BY DEF InterfacesOf
<1> HIDE DEF ports
<1>3. l[1] \in ports /\ l[2] \in ports
  BY <1>1
<1>4. l[1][1] \in Agents(pool) /\ l[2][1] \in Agents(pool)
  BY <1>2, <1>3
<1>5. l[1][1] # l[2][1]
  BY <1>1, <1>4, AgentFacts DEF Precedes
<1>6. Between(l) \subseteq Agents(pool)
  BY <1>4 DEF Between
<1> QED
  BY <1>2, <1>3, <1>5, <1>6

(* A solution of the constraints that is complete exists exactly if the   *)
(* agents can be assembled.                                               *)
LEMMA CompleteSolution ==
  ASSUME NEW pool, IsPool(pool), IsFiniteSet(DOMAIN pool), Agents(pool) # {}
  PROVE  /\ \A links \in Solutions(pool) : IsComplete(pool, links) => CanBeAssembled(pool)
         /\ CanBeAssembled(pool) =>
              \E links \in Solutions(pool) : IsComplete(pool, links) /\ Connected(Agents(pool), links)
<1> DEFINE agents == Agents(pool)
           all == Compatible(pool)
<1>0. IsFiniteSet(agents) /\ agents # {} /\ Linking(agents, all) /\ Cardinality(agents) \in Nat
  BY AgentFacts, LinkFacts, FS_CardinalityType
<1>1. \A links \in SUBSET all : Linking(agents, links)
  BY <1>0 DEF Linking
<1>2. \A links : /\ IsComplete(pool, links) <=> Reached(agents, links)[Cardinality(agents)] = agents
                 /\ links \in Solutions(pool)
                      <=> /\ links \in SUBSET all /\ Separate(links)
                          /\ Cardinality(links) - Cardinality(agents) \in {-1, 0}
  <2>1. \A links : IsComplete(pool, links) <=> Reached(agents, links)[Cardinality(agents)] = agents
    BY CompleteUnfolded
  <2>2. \A links : links \in Solutions(pool)
                     <=> /\ links \in SUBSET all /\ Separate(links)
                         /\ Cardinality(links) - Cardinality(agents) \in {-1, 0}
    BY DEF Solutions, Separate, Exclude
  <2> QED
    BY <2>1, <2>2
<1>3. CanBeAssembled(pool) <=> Staged(agents, all)[Cardinality(agents)] # {}
  BY AssemblyUnfolded
<1> HIDE DEF agents, all
<1>4. \A links \in SUBSET all : IsComplete(pool, links) <=> Connected(agents, links)
  BY <1>0, <1>1, <1>2, CompleteIsConnected
<1>5. ASSUME NEW links \in Solutions(pool), IsComplete(pool, links)
      PROVE  CanBeAssembled(pool)
  <2>1. links \in SUBSET all /\ Separate(links) /\ Connected(agents, links)
    BY <1>2, <1>4, <1>5
  <2> QED
    BY <1>0, <1>3, <2>1, ConnectedCanBeStaged
<1>6. ASSUME CanBeAssembled(pool)
      PROVE  \E links \in Solutions(pool) : IsComplete(pool, links) /\ Connected(agents, links)
  <2>1. PICK T \in SUBSET all : /\ Cardinality(T) = Cardinality(agents) - 1
                                /\ Separate(T) /\ Connected(agents, T)
    BY <1>0, <1>3, <1>6, StagedHasTree
  <2>2. Cardinality(T) - Cardinality(agents) = -1
    BY <1>0, <2>1
  <2> QED
    BY <1>2, <1>4, <2>1, <2>2
<1> QED
  BY <1>5, <1>6 DEF agents

(* The early return for a pool of one agent is right.                     *)
LEMMA SingleAgent ==
  ASSUME NEW pool, IsPool(pool), IsFiniteSet(DOMAIN pool), NumberOfInstances(pool) = 1
  PROVE  CanBeAssembled(pool)
<1> DEFINE agents == Agents(pool)
           all == Compatible(pool)
<1>1. IsFiniteSet(agents) /\ Cardinality(agents) = 1 /\ agents # {} /\ Linking(agents, all)
  BY AgentFacts, LinkFacts, FS_EmptySet
<1>2. CanBeAssembled(pool) <=> Staged(agents, all)[Cardinality(agents)] # {}
  BY AssemblyUnfolded
<1> HIDE DEF agents, all
<1>3. Staged(agents, all)[1] = Beginning(agents)
  BY <1>1, StageFacts
<1>4. Beginning(agents) # {}
  BY <1>1 DEF Beginning
<1> QED
  BY <1>1, <1>2, <1>3, <1>4

(* The early return for a pool without interfaces is right.               *)
LEMMA NothingToConnect ==
  ASSUME NEW pool, IsPool(pool), IsFiniteSet(DOMAIN pool), NumberOfInstances(pool) > 1, NoInterfaces(pool)
  PROVE  ~ CanBeAssembled(pool)
<1> SUFFICES ASSUME CanBeAssembled(pool) PROVE FALSE
  OBVIOUS
<1>1. PICK m \in DOMAIN pool : pool[m] # 0 /\ ontology.interfaces[m] = <<>>
  BY DEF NoInterfaces, Compact
<1>2. pool[m] \in Nat
  BY DEF IsPool
<1> DEFINE a == <<m, 1>>
<1>3. a \in Agents(pool) /\ a[1] = m
  BY <1>1, <1>2 DEF Agents
<1>4. PICK links \in Solutions(pool) : Connected(Agents(pool), links)
  BY <1>3, CompleteSolution
<1>5. \A l \in links : a \notin Between(l)
  <2> SUFFICES ASSUME NEW l \in links, a \in Between(l) PROVE FALSE
    OBVIOUS
  <2>1. l \in Compatible(pool)
    BY <1>4 DEF Solutions
  <2>2. l[1][1][1] = m \/ l[2][1][1] = m
    BY <1>3 DEF Between
  <2> QED
    BY <1>1, <2>1, <2>2, LinkFacts
<1> HIDE DEF a
<1>6. Closed(links, {a})
  BY <1>5 DEF Closed
<1>7. Agents(pool) = {a}
  BY <1>3, <1>4, <1>6 DEF Connected
<1>8. Cardinality(Agents(pool)) = 1
  BY <1>7, FS_Singleton, Zenon
<1> QED
  BY <1>8, AgentFacts

-----------------------------------------------------------------------------
(* The engine's stack.                                                     *)

Nodes(all) == [links : SUBSET all, without : SUBSET all, done : SUBSET SUBSET all]

(* What a step does to the sequence of open nodes.                         *)
LEMMA StackFacts ==
  ASSUME NEW N, NEW s \in Seq(N), s # <<>>, NEW a \in N, NEW b \in N,
         NEW t, t = <<a, b>> \o Tail(s)
  PROVE  /\ Len(s) \in Nat /\ Len(s) >= 1 /\ Head(s) = s[1] /\ s[1] \in N
         /\ Tail(s) \in Seq(N) /\ Len(Tail(s)) = Len(s) - 1
         /\ \A i \in 1 .. Len(s) - 1 : Tail(s)[i] = s[i + 1]
         /\ t \in Seq(N) /\ t # <<>> /\ Len(t) = Len(s) + 1 /\ Head(t) = a
         /\ t[1] = a /\ t[2] = b
         /\ \A i \in 3 .. Len(s) + 1 : t[i] = s[i - 1]
<1>1. /\ Len(s) \in Nat /\ Len(s) >= 1 /\ Head(s) = s[1] /\ s[1] \in N
      /\ Tail(s) \in Seq(N) /\ Len(Tail(s)) = Len(s) - 1
      /\ \A i \in 1 .. Len(s) - 1 : Tail(s)[i] = s[i + 1]
  OBVIOUS
<1>2. <<a, b>> \in Seq(N) /\ Len(<<a, b>>) = 2
  OBVIOUS
<1>3. t \in Seq(N) /\ Len(t) = Len(s) + 1
  BY <1>1, <1>2
<1>4. t[1] = a /\ t[2] = b /\ \A i \in 3 .. Len(s) + 1 : t[i] = Tail(s)[i - 2]
  BY <1>1, <1>2
<1>5. \A i \in 3 .. Len(s) + 1 : t[i] = s[i - 1]
  BY <1>1, <1>4
<1> QED
  BY <1>1, <1>3, <1>4, <1>5

(* The solutions wanted, some sets of links, all lie in open nodes; those  *)
(* that contain a no-good of a node lie in nodes above it.                 *)
Above(s, n, links) == \E j \in 1 .. n : Admits(s[j], links)
Covered(s, wanted) == \A links \in wanted : Above(s, Len(s), links)
Justified(s, wanted) ==
  \A i \in 1 .. Len(s) : \A d \in s[i].done, links \in wanted :
    d \subseteq links => Above(s, i - 1, links)
Uncut(s) == \A i \in 1 .. Len(s) : s[i].without = {}
NoneContains(nogoods, wanted) == \A d \in nogoods, links \in wanted : ~ (d \subseteq links)
Sound(s, wanted) == Covered(s, wanted) /\ Justified(s, wanted) /\ Uncut(s)

(* A search that starts with no-goods that exclude nothing wanted.         *)
LEMMA SoundStart ==
  ASSUME NEW wanted, NEW known, NoneContains(known, wanted)
  PROVE  Sound(<<Node({}, {}, known)>>, wanted)
<1> DEFINE root == Node({}, {}, known)
           s == <<root>>
<1>1. root.links = {} /\ root.without = {} /\ root.done = known
  BY DEF Node
<1>2. Len(s) = 1 /\ s[1] = root
  OBVIOUS
<1> HIDE DEF root, s
<1>3. \A links \in wanted : Admits(root, links)
  BY <1>1 DEF Admits, NoneContains
<1>4. Covered(s, wanted)
  BY <1>2, <1>3 DEF Covered, Above
<1>5. Justified(s, wanted)
  BY <1>1, <1>2 DEF Justified, NoneContains
<1>6. Uncut(s)
  BY <1>1, <1>2 DEF Uncut
<1> QED
  BY <1>4, <1>5, <1>6 DEF Sound, s, root

(* The no-goods of the node on top exclude nothing wanted.                 *)
LEMMA SoundTop ==
  ASSUME NEW N, NEW s \in Seq(N), s # <<>>, NEW wanted, Sound(s, wanted)
  PROVE  NoneContains(Head(s).done, wanted) /\ Head(s).without = {}
<1>1. Len(s) \in Nat /\ Len(s) >= 1 /\ Head(s) = s[1]
  OBVIOUS
<1>2. \A links : ~ Above(s, 0, links)
  BY DEF Above
<1> QED
  BY <1>1, <1>2 DEF Sound, Justified, Uncut, NoneContains

(* What is wanted has one of two parts of a node where it had the node.    *)
LEMMA SoundBranch ==
  ASSUME NEW all, NEW s \in Seq(Nodes(all)), s # <<>>, NEW wanted, Sound(s, wanted), NEW l \in all,
         NEW left, left = Node(Head(s).links \cup {l}, {}, Head(s).done),
         NEW right, right = Node(Head(s).links, {}, Head(s).done \cup {Head(s).links \cup {l}}),
         NEW t, t = <<left, right>> \o Tail(s)
  PROVE  Sound(t, wanted)
<1> DEFINE top == Head(s)
<1>1. top \in Nodes(all)
  OBVIOUS
<1>2. left \in Nodes(all) /\ right \in Nodes(all)
  BY <1>1 DEF Nodes, Node
<1>3. /\ Len(s) \in Nat /\ Len(s) >= 1 /\ top = s[1]
      /\ Len(t) = Len(s) + 1 /\ t[1] = left /\ t[2] = right
      /\ \A i \in 3 .. Len(s) + 1 : t[i] = s[i - 1]
  BY <1>2, StackFacts
<1>4. /\ left.links = top.links \cup {l} /\ left.without = {} /\ left.done = top.done
      /\ right.links = top.links /\ right.without = {} /\ right.done = top.done \cup {top.links \cup {l}}
  BY DEF Node
<1>5. NoneContains(top.done, wanted) /\ top.without = {}
  BY SoundTop
<1> HIDE DEF top
<1>6. \A links : Admits(top, links) => Admits(left, links) \/ Admits(right, links)
  BY <1>4, <1>5 DEF Admits
<1>7. \A n \in 1 .. Len(s) : \A links : Above(s, n, links) => Above(t, n + 1, links)
  <2> SUFFICES ASSUME NEW n \in 1 .. Len(s), NEW links, NEW j \in 1 .. n, Admits(s[j], links)
               PROVE  \E k \in 1 .. n + 1 : Admits(t[k], links)
    BY DEF Above
  <2>1. CASE j = 1
    <3>1. Admits(t[1], links) \/ Admits(t[2], links)
      BY <1>3, <1>6, <2>1
    <3>2. 1 \in 1 .. n + 1 /\ 2 \in 1 .. n + 1
      OBVIOUS
    <3> QED
      BY <3>1, <3>2
  <2>2. CASE j # 1
    <3>1. j + 1 \in 3 .. Len(s) + 1 /\ j + 1 \in 1 .. n + 1 /\ (j + 1) - 1 = j
      BY <1>3, <2>2
    <3> QED
      BY <1>3, <3>1
  <2> QED
    BY <2>1, <2>2
<1>8. Covered(t, wanted)
  <2>1. Len(s) \in 1 .. Len(s)
    BY <1>3
  <2> QED
    BY <1>3, <1>7, <2>1 DEF Sound, Covered
<1>9. Justified(t, wanted)
  <2> SUFFICES ASSUME NEW i \in 1 .. Len(t), NEW d \in t[i].done, NEW links \in wanted, d \subseteq links
               PROVE  Above(t, i - 1, links)
    BY DEF Justified
  <2>1. CASE i = 1
    BY <1>3, <1>4, <1>5, <2>1 DEF NoneContains
  <2>2. CASE i = 2
    <3>0. d \in right.done
      BY <1>3, <2>2
    <3>1. d = top.links \cup {l}
      <4>1. CASE d \in top.done
        BY <1>5, <4>1 DEF NoneContains
      <4> QED
        BY <1>4, <3>0, <4>1
    <3>2. Admits(left, links)
      BY <1>4, <1>5, <3>1 DEF Admits, NoneContains
    <3> QED
      BY <1>3, <2>2, <3>2 DEF Above
  <2>3. CASE i \in 3 .. Len(t)
    <3>1. t[i] = s[i - 1] /\ i - 1 \in 1 .. Len(s) /\ i - 2 \in 1 .. Len(s) /\ (i - 1) - 1 = i - 2 /\ (i - 2) + 1 = i - 1
      BY <1>3, <2>3
    <3>2. Above(s, i - 2, links)
      BY <3>1 DEF Sound, Justified
    <3>3. Above(t, (i - 2) + 1, links)
      BY <1>7, <3>1, <3>2
    <3> QED
      BY <3>1, <3>3
  <2> QED
    BY <1>3, <2>1, <2>2, <2>3
<1>10. Uncut(t)
  <2> SUFFICES ASSUME NEW i \in 1 .. Len(t) PROVE t[i].without = {}
    BY DEF Uncut
  <2>1. i = 1 \/ i = 2 \/ i \in 3 .. Len(t)
    BY <1>3
  <2>2. CASE i = 1 \/ i = 2
    BY <1>3, <1>4, <2>2
  <2>3. CASE i \in 3 .. Len(t)
    <3>1. t[i] = s[i - 1] /\ i - 1 \in 1 .. Len(s)
      BY <1>3, <2>3
    <3> QED
      BY <3>1 DEF Sound, Uncut
  <2> QED
    BY <2>1, <2>2, <2>3
<1> QED
  BY <1>8, <1>9, <1>10 DEF Sound

(* A node without anything wanted is done with.                            *)
LEMMA SoundDrop ==
  ASSUME NEW N, NEW s \in Seq(N), s # <<>>, NEW wanted, Sound(s, wanted),
         \A links \in wanted : ~ Admits(Head(s), links)
  PROVE  Sound(Tail(s), wanted)
<1> DEFINE t == Tail(s)
<1>1. /\ Len(s) \in Nat /\ Len(s) >= 1 /\ Head(s) = s[1]
      /\ Len(t) = Len(s) - 1 /\ \A i \in 1 .. Len(s) - 1 : t[i] = s[i + 1]
  OBVIOUS
<1> HIDE DEF t
<1>2. ASSUME NEW n \in 1 .. Len(s), NEW links \in wanted, Above(s, n, links)
      PROVE  Above(t, n - 1, links)
  <2>1. PICK j \in 1 .. n : Admits(s[j], links)
    BY <1>2 DEF Above
  <2>2. j # 1
    BY <1>1, <2>1
  <2>3. j - 1 \in 1 .. n - 1 /\ j - 1 \in 1 .. Len(s) - 1 /\ (j - 1) + 1 = j
    BY <1>1, <2>2
  <2>4. t[j - 1] = s[j]
    BY <1>1, <2>3
  <2> QED
    BY <2>1, <2>3, <2>4 DEF Above
<1>3. Covered(t, wanted)
  <2>1. Len(s) \in 1 .. Len(s)
    BY <1>1
  <2> QED
    BY <1>1, <1>2, <2>1 DEF Sound, Covered
<1>4. Justified(t, wanted)
  <2> SUFFICES ASSUME NEW i \in 1 .. Len(t), NEW d \in t[i].done, NEW links \in wanted, d \subseteq links
               PROVE  Above(t, i - 1, links)
    BY DEF Justified
  <2>1. t[i] = s[i + 1] /\ i + 1 \in 1 .. Len(s) /\ (i + 1) - 1 = i /\ i \in 1 .. Len(s)
    BY <1>1
  <2>2. Above(s, i, links)
    BY <2>1 DEF Sound, Justified
  <2> QED
    BY <1>2, <2>1, <2>2
<1>5. Uncut(t)
  <2> SUFFICES ASSUME NEW i \in 1 .. Len(t) PROVE t[i].without = {}
    BY DEF Uncut
  <2>1. t[i] = s[i + 1] /\ i + 1 \in 1 .. Len(s)
    BY <1>1
  <2> QED
    BY <2>1 DEF Sound, Uncut
<1> QED
  BY <1>3, <1>4, <1>5 DEF Sound, t

(* A node in which the number of links is decided holds one solution at    *)
(* most: the one that propagation makes of it.                             *)
LEMMA DecidedHasOne ==
  ASSUME NEW pool, IsFiniteSet(Compatible(pool)), Cardinality(Agents(pool)) \in Nat,
         NEW node, Decided(pool, node),
         NEW links \in Solutions(pool), Admits(node, links)
  PROVE  links = Outcome(pool, node) /\ IsSolved(pool, node)
<1> DEFINE n == Cardinality(Agents(pool))
           all == Compatible(pool)
           possible == Possible(pool, node)
<1>1. links \in SUBSET all /\ \A k, l \in links : k # l => ~ Exclude(k, l)
  BY DEF Solutions
<1>2. node.links \subseteq links /\ node.without \cap links = {} /\ \A d \in node.done : ~ (d \subseteq links)
  BY DEF Admits
<1>3. links \subseteq possible
  <2> SUFFICES ASSUME NEW l \in links, l \notin node.links PROVE l \in Free(pool, node)
    BY DEF Possible
  <2>1. \A k \in node.links : ~ Exclude(k, l)
    BY <1>1, <1>2
  <2>2. \A d \in node.done : ~ (d \subseteq node.links \cup {l})
    BY <1>2
  <2> QED
    BY <1>1, <1>2, <2>1, <2>2 DEF Free
<1>4. possible \subseteq all
  BY <1>1, <1>2 DEF Possible, Free
<1>5. /\ IsFiniteSet(links) /\ IsFiniteSet(possible) /\ IsFiniteSet(node.links)
      /\ Cardinality(links) \in Nat /\ Cardinality(possible) \in Nat /\ Cardinality(node.links) \in Nat
  BY <1>1, <1>2, <1>4, FS_Subset, FS_CardinalityType
<1>6. Cardinality(links) = n \/ Cardinality(links) = n - 1
  <2>1. Cardinality(links) - n \in {-1, 0} /\ n \in Nat
    BY DEF Solutions
  <2> HIDE DEF n
  <2> QED
    BY <1>5, <2>1
<1>7. /\ Cardinality(links) <= Cardinality(possible)
      /\ Cardinality(links) = Cardinality(possible) => links = possible
  BY <1>3, <1>5, FS_Subset
<1>8. /\ Cardinality(node.links) <= Cardinality(links)
      /\ Cardinality(node.links) = Cardinality(links) => node.links = links
  BY <1>2, <1>5, FS_Subset
<1>9. Cardinality(node.links) = n \/ Cardinality(possible) < n
  BY DEF Decided
<1>10. n \in Nat
  OBVIOUS
<1>11. Outcome(pool, node) = IF Cardinality(node.links) = n THEN node.links ELSE possible
  BY DEF Outcome
<1> HIDE DEF n, all, possible
<1>12. links = Outcome(pool, node)
  <2>1. CASE Cardinality(node.links) = n
    BY <1>5, <1>6, <1>8, <1>10, <1>11, <2>1
  <2>2. CASE Cardinality(node.links) # n
    BY <1>5, <1>6, <1>7, <1>9, <1>10, <1>11, <2>2
  <2> QED
    BY <2>1, <2>2
<1> QED
  BY <1>12 DEF IsSolved

(* Finitely many links are possible.                                       *)
LEMMA FinitelyManyLinks ==
  ASSUME ontology \in Ontologies, NEW pool, IsPool(pool), IsFiniteSet(DOMAIN pool)
  PROVE  IsFiniteSet(Compatible(pool))
<1> DEFINE part == [a \in Agents(pool) |-> InterfacesOf(a)]
           ports == UNION {InterfacesOf(a) : a \in Agents(pool)}
<1>1. IsFiniteSet(Agents(pool)) /\ \A a \in Agents(pool) : a[1] \in Model
  BY AgentFacts DEF Agents, IsPool
<1>2. ASSUME NEW a \in Agents(pool)
      PROVE  IsFiniteSet(part[a])
  <2> DEFINE D == DOMAIN ontology.interfaces[a[1]]
             f == [k \in D |-> <<a, k>>]
  <2>1. IsFiniteSet(D)
    BY <1>1, QueriesAreReal DEF QueryAssumption
  <2>2. f \in Surjection(D, part[a])
    BY DEF Surjection, InterfacesOf
  <2> HIDE DEF D, f, part
  <2> QED
    BY <2>1, <2>2, FS_Surjection
<1>3. Parted(part, Agents(pool), ports)
  BY DEF Parted, InterfacesOf
<1>4. IsFiniteSet(ports)
  <2> HIDE DEF part, ports
  <2> QED
    BY <1>1, <1>2, <1>3, PartsAreFinite
<1>5. Compatible(pool) \subseteq ports \X ports
  BY DEF Compatible
<1> HIDE DEF ports
<1> QED
  BY <1>4, <1>5, FS_Product, FS_Subset

(* The solutions the search is for.                                        *)
Assemblies(pool) == {links \in Solutions(pool) : IsComplete(pool, links)}

(* Two agents are connected by any link there is.                          *)
LEMMA PairFacts ==
  ASSUME NEW pool, IsPool(pool), IsFiniteSet(DOMAIN pool), Cardinality(Agents(pool)) = 2,
         NEW l \in Compatible(pool)
  PROVE  /\ {l} \in Assemblies(pool)
         /\ \A k \in Compatible(pool) : Exclude(l, k)
<1> DEFINE agents == Agents(pool)
           all == Compatible(pool)
<1>1. IsFiniteSet(agents) /\ agents # {} /\ Linking(agents, all)
  BY AgentFacts, LinkFacts, FS_EmptySet
<1>2. ASSUME NEW k \in all
      PROVE  Between(k) = agents
  <2>1. Between(k) \subseteq agents /\ k[1][1] # k[2][1]
    BY <1>1 DEF Linking
  <2>2. Cardinality(Between(k)) = 2
    BY <2>1, TwoOfThem DEF Between
  <2> QED
    BY <1>1, <2>1, <2>2, FS_Subset
<1>3. Connected(agents, {l})
  <2> SUFFICES ASSUME NEW X \in SUBSET agents, X # {}, Closed({l}, X) PROVE X = agents
    BY DEF Connected
  <2>1. Between(l) = agents
    BY <1>2
  <2> QED
    BY <2>1 DEF Closed
<1>4. {l} \in Solutions(pool)
  <2>1. Cardinality({l}) = 1
    BY FS_Singleton
  <2>2. Cardinality({l}) - Cardinality(Agents(pool)) \in {-1, 0}
    BY <2>1
  <2> QED
    BY <2>2 DEF Solutions
<1>5. IsComplete(pool, {l})
  <2>1. Linking(agents, {l})
    BY <1>1 DEF Linking
  <2> HIDE DEF agents
  <2>2. Reached(agents, {l})[Cardinality(agents)] = agents
    BY <1>1, <1>3, <2>1, CompleteIsConnected
  <2> QED
    BY <2>2, CompleteUnfolded DEF agents
<1> QED
  BY <1>2, <1>4, <1>5 DEF Assemblies, Exclude

(* The stack of a search for one solution: nothing wanted is lost while no *)
(* symmetry has cut anything off, and two agents are never without a link  *)
(* that may be tried.                                                      *)
IsPairTop(pool, node) ==
  node.done = {} /\ node.without = {} /\ \E l \in Compatible(pool) : node.links \subseteq {l}

StackIsRight(pool, stack, isCut) ==
  /\ stack \in Seq(Nodes(Compatible(pool)))
  /\ ~ isCut => Sound(stack, Assemblies(pool))
  /\ Cardinality(Agents(pool)) = 2 /\ Compatible(pool) # {} =>
       stack # <<>> /\ IsPairTop(pool, Head(stack))

(* The engine starts, or starts over.                                      *)
LEMMA StartIsRight ==
  ASSUME NEW pool, NEW isCut, NEW known \in SUBSET SUBSET Compatible(pool),
         ~ isCut => NoneContains(known, Assemblies(pool)),
         Cardinality(Agents(pool)) = 2 /\ Compatible(pool) # {} => known = {}
  PROVE  StackIsRight(pool, <<Node({}, {}, known)>>, isCut)
<1> DEFINE root == Node({}, {}, known)
<1>1. root \in Nodes(Compatible(pool)) /\ root.links = {} /\ root.without = {} /\ root.done = known
  BY DEF Nodes, Node
<1>2. ~ isCut => Sound(<<root>>, Assemblies(pool))
  BY SoundStart
<1> HIDE DEF root
<1>3. <<root>> \in Seq(Nodes(Compatible(pool))) /\ <<root>> # <<>> /\ Head(<<root>>) = root
  BY <1>1
<1>4. Cardinality(Agents(pool)) = 2 /\ Compatible(pool) # {} => IsPairTop(pool, root)
  BY <1>1 DEF IsPairTop
<1>5. StackIsRight(pool, <<root>>, isCut)
  BY <1>2, <1>3, <1>4 DEF StackIsRight
<1> QED
  BY <1>5 DEF root

(* No-goods of a stack that a symmetry has not cut exclude nothing wanted. *)
LEMMA TopIsRight ==
  ASSUME NEW pool, NEW isCut, NEW stack, StackIsRight(pool, stack, isCut), stack # <<>>
  PROVE  /\ Head(stack).done \in SUBSET SUBSET Compatible(pool)
         /\ ~ isCut => NoneContains(Head(stack).done, Assemblies(pool)) /\ Head(stack).without = {}
         /\ Cardinality(Agents(pool)) = 2 /\ Compatible(pool) # {} => Head(stack).done = {}
<1>1. stack \in Seq(Nodes(Compatible(pool)))
  BY DEF StackIsRight
<1>2. Head(stack) \in Nodes(Compatible(pool))
  BY <1>1
<1>3. ~ isCut => NoneContains(Head(stack).done, Assemblies(pool)) /\ Head(stack).without = {}
  BY <1>1, SoundTop DEF StackIsRight
<1> QED
  BY <1>2, <1>3 DEF StackIsRight, IsPairTop, Nodes

LEMMA RestartIsRight ==
  ASSUME NEW pool, NEW isCut, NEW stack, StackIsRight(pool, stack, isCut), stack # <<>>,
         NEW known \in {{}, Head(stack).done}
  PROVE  StackIsRight(pool, <<Node({}, {}, known)>>, isCut)
<1>1. known \in SUBSET SUBSET Compatible(pool)
  BY TopIsRight
<1>2. ~ isCut => NoneContains(known, Assemblies(pool))
  BY TopIsRight DEF NoneContains
<1>3. Cardinality(Agents(pool)) = 2 /\ Compatible(pool) # {} => known = {}
  BY TopIsRight
<1> QED
  BY <1>1, <1>2, <1>3, StartIsRight

LEMMA BranchIsRight ==
  ASSUME NEW pool, IsPool(pool), IsFiniteSet(DOMAIN pool),
         NEW isCut, NEW stack, StackIsRight(pool, stack, isCut), stack # <<>>,
         NEW l \in Free(pool, Head(stack)),
         NEW alike, alike = Alike(pool, Head(stack), l) \ {l},
         NEW left, left = Node(Head(stack).links \cup {l}, Head(stack).without, Head(stack).done),
         NEW right, right = Node(Head(stack).links, Head(stack).without \cup alike,
                                 Head(stack).done \cup {Head(stack).links \cup {l}})
  PROVE  StackIsRight(pool, <<left, right>> \o Tail(stack), isCut \/ alike # {})
<1> DEFINE all == Compatible(pool)
           top == Head(stack)
           t == <<left, right>> \o Tail(stack)
<1>1. stack \in Seq(Nodes(all)) /\ top \in Nodes(all)
  BY DEF StackIsRight
<1>2. l \in all /\ l \notin top.links /\ \A k \in top.links : ~ Exclude(k, l)
  BY DEF Free
<1>3. alike \subseteq all
  BY DEF Alike, Free
<1>4. left \in Nodes(all) /\ right \in Nodes(all)
  BY <1>1, <1>2, <1>3 DEF Nodes, Node
<1>5. t \in Seq(Nodes(all)) /\ t # <<>> /\ Head(t) = left
  <2> HIDE DEF all
  <2> QED
    BY <1>1, <1>4, StackFacts
<1>6. ASSUME ~ isCut, alike = {}
      PROVE  Sound(t, Assemblies(pool))
  <2>1. ~ isCut /\ alike = {} /\ Sound(stack, Assemblies(pool))
    BY <1>6 DEF StackIsRight
  <2>2. top.without = {}
    BY <2>1, TopIsRight
  <2>3. /\ left = Node(Head(stack).links \cup {l}, {}, Head(stack).done)
        /\ right = Node(Head(stack).links, {}, Head(stack).done \cup {Head(stack).links \cup {l}})
    BY <2>1, <2>2
  <2> HIDE DEF all
  <2> QED
    BY <1>1, <1>2, <2>1, <2>3, SoundBranch
<1>7. ASSUME Cardinality(Agents(pool)) = 2, all # {}
      PROVE  IsPairTop(pool, left)
  <2>1. top.done = {} /\ top.without = {}
    BY <1>7 DEF StackIsRight, IsPairTop
  <2>2. PICK k \in all : top.links \subseteq {k}
    BY <1>7 DEF StackIsRight, IsPairTop
  <2>3. Exclude(k, l)
    BY <1>2, <1>7, PairFacts
  <2>4. top.links = {}
    BY <1>2, <2>2, <2>3
  <2>5. left.links = {l} /\ left.done = {} /\ left.without = {}
    BY <2>1, <2>4 DEF Node
  <2> QED
    BY <1>2, <2>5 DEF IsPairTop
<1> HIDE DEF t
<1>8. StackIsRight(pool, t, isCut \/ alike # {})
  BY <1>5, <1>6, <1>7 DEF StackIsRight
<1> QED
  BY <1>8 DEF t

(* A decided node that is no solution holds nothing wanted.                *)
LEMMA FailIsRight ==
  ASSUME NEW pool, IsPool(pool), IsFiniteSet(DOMAIN pool), ontology \in Ontologies,
         NEW isCut, NEW stack, StackIsRight(pool, stack, isCut), stack # <<>>,
         Decided(pool, Head(stack)),
         IsSolved(pool, Head(stack)) => ~ IsComplete(pool, Outcome(pool, Head(stack)))
  PROVE  /\ StackIsRight(pool, Tail(stack), isCut)
         /\ ~ (Cardinality(Agents(pool)) = 2 /\ Compatible(pool) # {})
<1> DEFINE top == Head(stack)
<1>1. IsFiniteSet(Compatible(pool)) /\ Cardinality(Agents(pool)) \in Nat
  BY FinitelyManyLinks, AgentFacts, FS_CardinalityType
<1>2. \A links \in Assemblies(pool) : ~ Admits(top, links)
  <2> SUFFICES ASSUME NEW links \in Assemblies(pool), Admits(top, links) PROVE FALSE
    OBVIOUS
  <2>1. links \in Solutions(pool) /\ IsComplete(pool, links)
    BY DEF Assemblies
  <2>2. links = Outcome(pool, top) /\ IsSolved(pool, top)
    BY <1>1, <2>1, DecidedHasOne
  <2> QED
    BY <2>1, <2>2
<1>3. ASSUME Cardinality(Agents(pool)) = 2, Compatible(pool) # {}
      PROVE  FALSE
  <2>1. IsPairTop(pool, top)
    BY <1>3 DEF StackIsRight
  <2>2. PICK l \in Compatible(pool) : top.links \subseteq {l}
    BY <2>1 DEF IsPairTop
  <2>3. Admits(top, {l})
    BY <2>1, <2>2 DEF Admits, IsPairTop
  <2> QED
    BY <1>2, <1>3, <2>3, PairFacts
<1>4. stack \in Seq(Nodes(Compatible(pool))) /\ Tail(stack) \in Seq(Nodes(Compatible(pool)))
  BY DEF StackIsRight
<1>5. ~ isCut => Sound(Tail(stack), Assemblies(pool))
  BY <1>2, <1>4, SoundDrop DEF StackIsRight
<1> QED
  BY <1>3, <1>4, <1>5 DEF StackIsRight

(* A solution that is not complete: the engine starts over with the        *)
(* no-goods of the node that would be next.                                *)
LEMMA NextIsRight ==
  ASSUME NEW pool, IsPool(pool), IsFiniteSet(DOMAIN pool), ontology \in Ontologies,
         NEW isCut, NEW stack, StackIsRight(pool, stack, isCut), stack # <<>>,
         IsSolved(pool, Head(stack)), ~ IsComplete(pool, Outcome(pool, Head(stack))),
         NEW known \in {{}, IF Tail(stack) = <<>> THEN Head(stack).done ELSE Head(Tail(stack)).done}
  PROVE  StackIsRight(pool, <<Node({}, {}, known)>>, isCut)
<1>1. StackIsRight(pool, Tail(stack), isCut)
  BY FailIsRight DEF IsSolved
<1>2. CASE Tail(stack) = <<>>
  BY <1>2, RestartIsRight
<1>3. CASE Tail(stack) # <<>>
  BY <1>1, <1>3, RestartIsRight
<1> QED
  BY <1>2, <1>3

(* An engine at its end has missed nothing, or a symmetry has cut something*)
(* off and there are more than two agents.                                 *)
LEMMA EndOfStack ==
  ASSUME NEW pool, IsPool(pool), IsFiniteSet(DOMAIN pool), NumberOfInstances(pool) > 1,
         NEW isCut, StackIsRight(pool, <<>>, isCut)
  PROVE  ~ CanBeAssembled(pool) \/ (isCut /\ Cardinality(Agents(pool)) > 2)
<1> SUFFICES ASSUME CanBeAssembled(pool) PROVE isCut /\ Cardinality(Agents(pool)) > 2
  OBVIOUS
<1>1. Cardinality(Agents(pool)) \in Nat /\ Cardinality(Agents(pool)) > 1
  BY AgentFacts, FS_CardinalityType
<1>2. Agents(pool) # {}
  <2>1. Cardinality(Agents(pool)) # 0
    BY <1>1
  <2> QED
    BY <2>1, FS_EmptySet
<1>3. PICK links \in Assemblies(pool) : TRUE
  BY <1>2, CompleteSolution DEF Assemblies
<1>4. isCut
  <2>1. \A s : s = <<>> => Len(s) = 0
    OBVIOUS
  <2>2. ~ Sound(<<>>, Assemblies(pool))
    BY <1>3, <2>1 DEF Sound, Covered, Above
  <2> QED
    BY <2>2 DEF StackIsRight
<1>5. Cardinality(Agents(pool)) # 2
  <2> SUFFICES ASSUME Cardinality(Agents(pool)) = 2 PROVE FALSE
    OBVIOUS
  <2>1. Compatible(pool) = {}
    BY DEF StackIsRight
  <2>2. links = {} /\ Cardinality(links) - 2 \in {-1, 0}
    BY <2>1 DEF Assemblies, Solutions
  <2> QED
    BY <2>2, FS_EmptySet
<1> QED
  BY <1>1, <1>4, <1>5

-----------------------------------------------------------------------------
(* The answers.                                                            *)

Right(q, result) ==
  IF result THEN CanBeAssembled(q.pool)
  ELSE \/ q.minFeasible > 1
       \/ q \in late
       \/ q \in cut /\ Cardinality(Agents(q.pool)) > 2
       \/ ~ CanBeAssembled(q.pool)

ConnectivityTypeOK ==
  /\ ontology \in Ontologies
  /\ queries \in Sessions /\ query \in queries
  /\ DOMAIN cache \subseteq queries
  /\ feasible \in Nat /\ complete \in BOOLEAN

(* Who asks for one solution only gets the answer with the first one that  *)
(* is complete: until then the last one is not, and the stack is right.    *)
SearchIsOpen ==
  pc = "search" =>
    /\ NumberOfInstances(query.pool) > 1
    /\ complete => CanBeAssembled(query.pool)
    /\ query.minFeasible <= 1 => ~ complete /\ StackIsRight(query.pool, open, query \in cut)

CacheIsRight == \A q \in DOMAIN cache : Right(q, cache[q])

ConnectivityInv == ConnectivityTypeOK /\ SearchIsOpen /\ CacheIsRight /\ AnswerIsRight

(* AnswerIsRight of each answer for itself.                               *)
LEMMA AnswersAreRight ==
  AnswerIsRight <=> \A a \in answers : Right(a[1], a[2])
BY DEF AnswerIsRight, Right

(* What QueriesAreReal says of the query.                                 *)
LEMMA QueryFacts ==
  ASSUME ConnectivityTypeOK
  PROVE  IsPool(query.pool) /\ IsFiniteSet(DOMAIN query.pool) /\ query.minFeasible \in Nat
BY QueriesAreReal DEF ConnectivityTypeOK, QueryAssumption

(* The constraint problem depends on the ontology only.                    *)
LEMMA SameProblem ==
  ASSUME ontology' = ontology
  PROVE  \A pool : /\ Agents(pool)' = Agents(pool)
                   /\ Compatible(pool)' = Compatible(pool)
                   /\ Assemblies(pool)' = Assemblies(pool)
                   /\ (CanBeAssembled(pool))' <=> CanBeAssembled(pool)
<1> TAKE pool
<1>1. Agents(pool)' = Agents(pool)
  BY DEF Agents
<1>2. Compatible(pool)' = Compatible(pool)
  BY DEF Compatible, InterfacesOf, Class
<1>3. Solutions(pool)' = Solutions(pool)
  BY <1>1, <1>2 DEF Solutions
<1>4. \A links : (IsComplete(pool, links))' <=> IsComplete(pool, links)
  <2> TAKE links
  <2>1. (IsComplete(pool, links))'
           <=> Reached(Agents(pool)', links)[Cardinality(Agents(pool)')] = Agents(pool)'
    BY DEF IsComplete, Reached, Reaches, Grown, FirstAgent
  <2> QED
    BY <1>1, <2>1, CompleteUnfolded
<1>5. (CanBeAssembled(pool))' <=> CanBeAssembled(pool)
  <2>1. (CanBeAssembled(pool))'
           <=> Staged(Agents(pool)', Compatible(pool)')[Cardinality(Agents(pool)')] # {}
    BY DEF CanBeAssembled, Staged, Stages, Extended, Beginning, With, Crossing
  <2> QED
    BY <1>1, <1>2, <2>1, AssemblyUnfolded
<1>6. Assemblies(pool)' = Assemblies(pool)
  BY <1>3, <1>4 DEF Assemblies
<1> QED
  BY <1>1, <1>2, <1>5, <1>6

(* The same of the pool of the query.                                      *)
LEMMA SameQuery ==
  ASSUME ontology' = ontology, query' = query
  PROVE  /\ Agents(query.pool)' = Agents(query.pool)
         /\ Compatible(query.pool)' = Compatible(query.pool)
         /\ Assemblies(query.pool)' = Assemblies(query.pool)
         /\ (CanBeAssembled(query.pool))' <=> CanBeAssembled(query.pool)
<1>1. Agents(query.pool)' = Agents(query.pool)
  BY DEF Agents
<1>2. Compatible(query.pool)' = Compatible(query.pool)
  BY <1>1 DEF Compatible, InterfacesOf, Class
<1>3. Solutions(query.pool)' = Solutions(query.pool)
  BY <1>1, <1>2 DEF Solutions
<1>4. \A links : (IsComplete(query.pool, links))' <=> IsComplete(query.pool, links)
  <2> TAKE links
  <2>1. (IsComplete(query.pool, links))'
           <=> Reached(Agents(query.pool)', links)[Cardinality(Agents(query.pool)')] = Agents(query.pool)'
    BY DEF IsComplete, Reached, Reaches, Grown, FirstAgent
  <2> QED
    BY <1>1, <2>1, CompleteUnfolded
<1>5. (CanBeAssembled(query.pool))' <=> CanBeAssembled(query.pool)
  <2>1. (CanBeAssembled(query.pool))'
           <=> Staged(Agents(query.pool)', Compatible(query.pool)')[Cardinality(Agents(query.pool)')] # {}
    BY DEF CanBeAssembled, Staged, Stages, Extended, Beginning, With, Crossing
  <2> QED
    BY <1>1, <1>2, <2>1, AssemblyUnfolded
<1>6. Assemblies(query.pool)' = Assemblies(query.pool)
  BY <1>3, <1>4 DEF Assemblies
<1> QED
  BY <1>1, <1>2, <1>5, <1>6

(* Whether the stack is right does not depend on anything else.            *)
LEMMA SameStack ==
  ASSUME ontology' = ontology, query' = query, StackIsRight(query.pool, open', query' \in cut')
  PROVE  StackIsRight(query.pool, open, query \in cut)'
<1>1. /\ Agents(query.pool)' = Agents(query.pool)
      /\ Compatible(query.pool)' = Compatible(query.pool)
      /\ Assemblies(query.pool)' = Assemblies(query.pool)
  BY SameQuery
<1> QED
  BY <1>1 DEF StackIsRight, IsPairTop

(* An answer stays right when more checks run out of time or are cut.     *)
LEMMA RightStaysRight ==
  ASSUME ontology' = ontology, late \subseteq late', cut \subseteq cut', NEW q, NEW result, Right(q, result)
  PROVE  Right(q, result)'
<1>1. (CanBeAssembled(q.pool))' <=> CanBeAssembled(q.pool)
  BY SameProblem
<1>2. Agents(q.pool)' = Agents(q.pool)
  BY SameProblem
<1> QED
  BY <1>1, <1>2 DEF Right

(* Nothing is cached or answered at first.                                *)
LEMMA ConnectivityInit ==
  ASSUME Init
  PROVE  ConnectivityInv
<1>1. ConnectivityTypeOK
  BY DEF Init, ConnectivityTypeOK
<1>2. SearchIsOpen /\ CacheIsRight /\ AnswerIsRight
  BY DEF Init, SearchIsOpen, CacheIsRight, AnswerIsRight
<1> QED
  BY <1>1, <1>2 DEF ConnectivityInv

(* The end of a search, with a result that is right.                       *)
LEMMA EndIsRight ==
  ASSUME ConnectivityInv, NEW result \in BOOLEAN, EndSearch(result), Right(query, result)',
         ontology' = ontology, queries' = queries, query' = query,
         late \subseteq late', cut \subseteq cut', feasible' \in Nat, complete' \in BOOLEAN
  PROVE  ConnectivityInv'
<1>0. /\ cache' = [q \in DOMAIN cache \cup {query} |-> IF q = query THEN result ELSE cache[q]]
      /\ answers' = answers \cup {<<query, result>>} /\ pc' = "idle"
  BY DEF EndSearch, Answer
<1>1. \A q, r : Right(q, r) => Right(q, r)'
  BY RightStaysRight
<1>2. CacheIsRight'
  BY <1>0, <1>1 DEF ConnectivityInv, CacheIsRight
<1>3. \A a \in answers' : Right(a[1], a[2])'
  BY <1>0, <1>1, AnswersAreRight DEF ConnectivityInv
<1>4. AnswerIsRight'
  BY <1>3 DEF AnswerIsRight, Right
<1>5. ConnectivityTypeOK'
  BY <1>0 DEF ConnectivityInv, ConnectivityTypeOK
<1>6. SearchIsOpen'
  BY <1>0 DEF SearchIsOpen
<1> QED
  BY <1>2, <1>4, <1>5, <1>6 DEF ConnectivityInv

(* A step that leaves the cache alone.                                     *)
LEMMA CacheStaysRight ==
  ASSUME ConnectivityInv, ontology' = ontology, queries' = queries, query' \in queries,
         cache' = cache, late' = late, cut \subseteq cut',
         feasible' \in Nat, complete' \in BOOLEAN, SearchIsOpen',
         \A a \in answers' : a \in answers \/ Right(a[1], a[2])
  PROVE  ConnectivityInv'
<1>1. \A q, r : Right(q, r) => Right(q, r)'
  BY RightStaysRight
<1>2. CacheIsRight'
  BY <1>1 DEF ConnectivityInv, CacheIsRight
<1>3. \A a \in answers' : Right(a[1], a[2])'
  BY <1>1, AnswersAreRight DEF ConnectivityInv
<1>4. AnswerIsRight'
  BY <1>3 DEF AnswerIsRight, Right
<1>5. ConnectivityTypeOK'
  BY DEF ConnectivityInv, ConnectivityTypeOK
<1> QED
  BY <1>2, <1>4, <1>5 DEF ConnectivityInv

(* A step of the engine that returns nothing.                              *)
LEMMA EngineStep ==
  ASSUME ConnectivityInv, pc = "search", ontology' = ontology, queries' = queries, query' = query,
         cache' = cache, late' = late, cut \subseteq cut', answers' = answers, pc' = pc,
         feasible' \in Nat, complete' \in BOOLEAN,
         complete' => CanBeAssembled(query.pool),
         query.minFeasible <= 1 => ~ complete' /\ StackIsRight(query.pool, open', query' \in cut')
  PROVE  ConnectivityInv'
<1>1. query.minFeasible <= 1 => StackIsRight(query.pool, open, query \in cut)'
  BY SameStack
<1>2. (CanBeAssembled(query.pool))' <=> CanBeAssembled(query.pool)
  BY SameQuery
<1>3. SearchIsOpen'
  BY <1>1, <1>2 DEF ConnectivityInv, SearchIsOpen
<1>4. query' \in queries
  BY DEF ConnectivityInv, ConnectivityTypeOK
<1> QED
  BY <1>3, <1>4, CacheStaysRight

(* Every step of isFeasible and of its search keeps the invariant.        *)
LEMMA ConnectivityStep ==
  ASSUME ConnectivityInv, [Next]_vars
  PROVE  ConnectivityInv'
<1> USE DEF search
<1> DEFINE pool == query.pool
<1>0. ConnectivityTypeOK /\ SearchIsOpen /\ CacheIsRight /\ AnswerIsRight
  BY DEF ConnectivityInv
<1>a. feasible \in Nat /\ complete \in BOOLEAN /\ query \in queries /\ ontology \in Ontologies
  BY <1>0 DEF ConnectivityTypeOK
<1>b. IsPool(pool) /\ IsFiniteSet(DOMAIN pool) /\ query.minFeasible \in Nat
  BY <1>0, QueryFacts
<1>c. pc = "search" =>
        /\ NumberOfInstances(pool) > 1
        /\ complete => CanBeAssembled(pool)
        /\ query.minFeasible <= 1 => ~ complete /\ StackIsRight(pool, open, query \in cut)
  BY <1>0 DEF SearchIsOpen
<1>1. CASE Call
  <2>1. SearchIsOpen'
    BY <1>1 DEF Call, SearchIsOpen
  <2> QED
    BY <1>1, <1>a, <2>1, CacheStaysRight DEF Call
<1>2. CASE ResetQueryCache
  <2>1. pc' = "idle" /\ DOMAIN cache' = {} /\ answers' = {} /\ queries' = queries /\ query' = query
        /\ feasible' = feasible /\ complete' = complete /\ ontology' = ontology
    BY <1>2 DEF ResetQueryCache
  <2> QED
    BY <1>0, <2>1 DEF ConnectivityInv, ConnectivityTypeOK, SearchIsOpen, CacheIsRight, AnswerIsRight
<1>3. CASE AnswerFromCache
  <2>1. SearchIsOpen'
    BY <1>3 DEF AnswerFromCache, Answer, SearchIsOpen
  <2>2. \A a \in answers' : a \in answers \/ Right(a[1], a[2])
    BY <1>0, <1>3 DEF AnswerFromCache, Answer, CacheIsRight
  <2> QED
    BY <1>3, <1>a, <2>1, <2>2, CacheStaysRight DEF AnswerFromCache
<1>4. CASE AnswerAtOnce
  <2>1. SearchIsOpen'
    BY <1>4 DEF AnswerAtOnce, Answer, SearchIsOpen
  <2>2. NumberOfInstances(pool) \in Nat
    BY <1>b, AgentFacts
  <2>3. NumberOfInstances(pool) # 0 => Right(query, NumberOfInstances(pool) = 1)
    <3>1. CASE NumberOfInstances(pool) = 1
      BY <1>b, <3>1, SingleAgent DEF Right
    <3>2. CASE NumberOfInstances(pool) > 1
      <4>1. NoInterfaces(pool) /\ NumberOfInstances(pool) # 1
        BY <1>4, <2>2, <3>2 DEF AnswerAtOnce
      <4> QED
        BY <1>b, <3>2, <4>1, NothingToConnect DEF Right
    <3> QED
      BY <2>2, <3>1, <3>2
  <2>4. \A a \in answers' : a \in answers \/ Right(a[1], a[2])
    BY <1>4, <2>3 DEF AnswerAtOnce, Answer
  <2> QED
    BY <1>4, <1>a, <2>1, <2>4, CacheStaysRight DEF AnswerAtOnce
<1>5. CASE StartSearch
  <2>1. /\ open' = <<Node({}, {}, {})>> /\ complete' = FALSE /\ NumberOfInstances(pool) > 1
        /\ ontology' = ontology /\ query' = query /\ cut' = cut
    BY <1>5 DEF StartSearch
  <2>2. NoneContains({}, Assemblies(pool)) /\ {} \in SUBSET SUBSET Compatible(pool)
    BY DEF NoneContains
  <2>3. StackIsRight(pool, open', query' \in cut')
    BY <2>1, <2>2, StartIsRight
  <2>4. StackIsRight(pool, open, query \in cut)'
    BY <2>1, <2>3, SameStack
  <2>5. SearchIsOpen'
    BY <2>1, <2>4 DEF SearchIsOpen
  <2> QED
    BY <1>5, <1>a, <2>5, CacheStaysRight DEF StartSearch
<1>6. CASE Branch
  <2>1. /\ pc = "search" /\ open # <<>> /\ ontology' = ontology /\ queries' = queries /\ query' = query
        /\ cache' = cache /\ late' = late /\ answers' = answers /\ pc' = pc
        /\ feasible' = feasible /\ complete' = complete
    BY <1>6 DEF Branch
  <2>2. PICK l \in Free(pool, Head(open)) :
          /\ open' = <<Node(Head(open).links \cup {l}, Head(open).without, Head(open).done),
                       Node(Head(open).links, Head(open).without \cup (Alike(pool, Head(open), l) \ {l}),
                            Head(open).done \cup {Head(open).links \cup {l}})>> \o Tail(open)
          /\ cut' = IF Alike(pool, Head(open), l) \ {l} = {} THEN cut ELSE cut \cup {query}
    BY <1>6 DEF Branch
  <2> DEFINE alike == Alike(pool, Head(open), l) \ {l}
  <2>3. (query' \in cut' <=> query \in cut \/ alike # {}) /\ cut \subseteq cut'
    BY <2>1, <2>2
  <2>4. ASSUME query.minFeasible <= 1
        PROVE  StackIsRight(pool, open', query' \in cut')
    <3>1. StackIsRight(pool, open, query \in cut)
      BY <1>c, <2>1, <2>4
    <3> DEFINE left == Node(Head(open).links \cup {l}, Head(open).without, Head(open).done)
               right == Node(Head(open).links, Head(open).without \cup alike,
                             Head(open).done \cup {Head(open).links \cup {l}})
    <3>2. alike = Alike(pool, Head(open), l) \ {l}
      OBVIOUS
    <3>3. open' = <<left, right>> \o Tail(open)
      BY <2>2
    <3>4. l \in Free(pool, Head(open))
      BY <2>2
    <3> HIDE DEF pool, alike, left, right
    <3>5. StackIsRight(pool, <<left, right>> \o Tail(open), query \in cut \/ alike # {})
      <4>1. left = Node(Head(open).links \cup {l}, Head(open).without, Head(open).done)
        BY DEF left
      <4>2. right = Node(Head(open).links, Head(open).without \cup alike,
                         Head(open).done \cup {Head(open).links \cup {l}})
        BY DEF right
      <4> QED
        BY <1>b, <2>1, <3>1, <3>2, <3>4, <4>1, <4>2, BranchIsRight
    <3> QED
      BY <2>3, <3>3, <3>5 DEF StackIsRight
  <2> QED
    BY <1>a, <1>c, <2>1, <2>3, <2>4, EngineStep
<1>7. CASE Fail
  <2>1. /\ pc = "search" /\ open # <<>> /\ ontology' = ontology /\ queries' = queries /\ query' = query
        /\ cache' = cache /\ late' = late /\ cut' = cut /\ answers' = answers /\ pc' = pc
        /\ feasible' = feasible /\ complete' = complete
    BY <1>7 DEF Fail
  <2>2. open' = Tail(open) /\ Decided(pool, Head(open)) /\ ~ IsSolved(pool, Head(open))
    BY <1>7 DEF Fail
  <2>3. query.minFeasible <= 1 => StackIsRight(pool, open', query' \in cut')
    BY <1>a, <1>b, <1>c, <2>1, <2>2, FailIsRight
  <2> QED
    BY <1>a, <1>c, <2>1, <2>3, EngineStep
<1>8. CASE Restart
  <2>1. /\ pc = "search" /\ open # <<>> /\ ontology' = ontology /\ queries' = queries /\ query' = query
        /\ cache' = cache /\ late' = late /\ cut' = cut /\ answers' = answers /\ pc' = pc
        /\ feasible' = feasible /\ complete' = complete
    BY <1>8 DEF Restart
  <2>2. PICK known \in {{}, Head(open).done} : open' = <<Node({}, {}, known)>>
    BY <1>8 DEF Restart, StartOver
  <2>3. query.minFeasible <= 1 => StackIsRight(pool, open', query' \in cut')
    BY <1>c, <2>1, <2>2, RestartIsRight
  <2> QED
    BY <1>a, <1>c, <2>1, <2>3, EngineStep
<1>9. CASE Evaluate
  <2>1. /\ pc = "search" /\ open # <<>> /\ ontology' = ontology /\ queries' = queries /\ query' = query
        /\ late' = late /\ cut' = cut
    BY <1>9 DEF Evaluate
  <2>2. /\ IsSolved(pool, Head(open))
        /\ complete' = IsComplete(pool, Outcome(pool, Head(open)))
        /\ feasible' = IF complete' THEN feasible + 1 ELSE feasible
        /\ IF complete' /\ feasible' >= query.minFeasible
           THEN EndSearch(TRUE)
           ELSE /\ StartOver(IF Tail(open) = <<>> THEN Head(open).done ELSE Head(Tail(open)).done)
                /\ UNCHANGED <<pc, cache, answers>>
    BY <1>9 DEF Evaluate
  <2>3. complete' \in BOOLEAN /\ feasible' \in Nat
    BY <1>a, <2>2 DEF IsComplete
  <2>4. complete' => CanBeAssembled(pool)
    <3>1. Outcome(pool, Head(open)) \in Solutions(pool)
      BY <2>2 DEF IsSolved
    <3>2. Agents(pool) # {}
      <4>1. Cardinality(Agents(pool)) # 0
        BY <1>b, <1>c, <2>1, AgentFacts
      <4> QED
        BY <4>1, FS_EmptySet
    <3> QED
      BY <1>b, <2>2, <3>1, <3>2, CompleteSolution
  <2>5. CASE complete' /\ feasible' >= query.minFeasible
    <3>1. Right(query, TRUE)'
      <4>1. (CanBeAssembled(query.pool))' <=> CanBeAssembled(query.pool)
        BY <2>1, SameQuery
      <4> QED
        BY <2>4, <2>5, <4>1 DEF Right
    <3> QED
      BY <2>1, <2>2, <2>3, <2>5, <3>1, EndIsRight
  <2>6. CASE ~ (complete' /\ feasible' >= query.minFeasible)
    <3>1. /\ pc' = pc /\ cache' = cache /\ answers' = answers
          /\ StartOver(IF Tail(open) = <<>> THEN Head(open).done ELSE Head(Tail(open)).done)
      BY <2>2, <2>6
    <3>2. query.minFeasible <= 1 => ~ complete'
      <4>1. complete' => feasible' >= 1
        BY <1>a, <2>2
      <4> QED
        BY <1>b, <2>3, <2>6, <4>1
    <3>3. PICK known \in {{}, IF Tail(open) = <<>> THEN Head(open).done ELSE Head(Tail(open)).done} :
            open' = <<Node({}, {}, known)>>
      BY <3>1 DEF StartOver
    <3>4. ASSUME query.minFeasible <= 1
          PROVE  StackIsRight(pool, open', query' \in cut')
      <4>1. StackIsRight(pool, open, query \in cut) /\ ~ IsComplete(pool, Outcome(pool, Head(open)))
        BY <1>c, <2>1, <2>2, <3>2, <3>4
      <4>2. StackIsRight(pool, <<Node({}, {}, known)>>, query \in cut)
        BY <1>a, <1>b, <2>1, <2>2, <4>1, NextIsRight
      <4> QED
        BY <2>1, <3>3, <4>2
    <3> QED
      BY <2>1, <2>3, <2>4, <3>1, <3>2, <3>4, EngineStep
  <2> QED
    BY <2>5, <2>6
<1>10. ASSUME pc = "search", EndSearch(complete), ontology' = ontology, queries' = queries, query' = query,
              feasible' = feasible, complete' = complete, late \subseteq late', cut' = cut,
              open = <<>> \/ query \in late'
       PROVE  ConnectivityInv'
  <2>1. complete => CanBeAssembled(pool)
    BY <1>10, <1>c
  <2>2. ~ complete => \/ query.minFeasible > 1
                      \/ query \in late'
                      \/ query \in cut /\ Cardinality(Agents(pool)) > 2
                      \/ ~ CanBeAssembled(pool)
    <3> SUFFICES ASSUME query.minFeasible <= 1, open = <<>>
                 PROVE  ~ CanBeAssembled(pool) \/ (query \in cut /\ Cardinality(Agents(pool)) > 2)
      BY <1>10, <1>b
    <3>1. StackIsRight(pool, <<>>, query \in cut) /\ NumberOfInstances(pool) > 1
      BY <1>10, <1>c
    <3> QED
      BY <1>b, <3>1, EndOfStack
  <2>3. Right(query, complete)'
    <3>1. (CanBeAssembled(query.pool))' <=> CanBeAssembled(query.pool)
      BY <1>10, SameQuery
    <3>2. Agents(query.pool)' = Agents(query.pool)
      BY <1>10, SameQuery
    <3> QED
      BY <1>10, <2>1, <2>2, <3>1, <3>2 DEF Right
  <2>4. \A r : r = complete => Right(query, r)'
    BY <1>10, <2>3 DEF Right
  <2> QED
    BY <1>10, <1>a, <2>4, EndIsRight
<1>11. CASE Exhaust
  BY <1>10, <1>11 DEF Exhaust
<1>12. CASE TimeOut
  BY <1>10, <1>12 DEF TimeOut
<1>13. CASE UNCHANGED vars
  <2>1. /\ ontology' = ontology /\ queries' = queries /\ query' = query /\ cache' = cache /\ late' = late
        /\ cut' = cut /\ answers' = answers /\ pc' = pc /\ open' = open
        /\ feasible' = feasible /\ complete' = complete
    BY <1>13 DEF vars
  <2>2. CASE pc = "search"
    BY <1>a, <1>c, <2>1, <2>2, EngineStep
  <2>3. CASE pc # "search"
    <3>1. SearchIsOpen'
      BY <2>1, <2>3 DEF SearchIsOpen
    <3> QED
      BY <1>a, <2>1, <3>1, CacheStaysRight
  <2> QED
    BY <2>2, <2>3
<1> QED
  BY <1>1, <1>2, <1>3, <1>4, <1>5, <1>6, <1>7, <1>8, <1>9, <1>11, <1>12, <1>13 DEF Next

(* What AnswerIsRight says of every pool, every ontology and every order in*)
(* which links are tried.                                                  *)
THEOREM AnswersRight == Spec => []AnswerIsRight
<1>1. Init => ConnectivityInv
  BY ConnectivityInit
<1>2. ConnectivityInv /\ [Next]_vars => ConnectivityInv'
  BY ConnectivityStep
<1>3. ConnectivityInv => AnswerIsRight
  BY DEF ConnectivityInv
<1> QED
  BY <1>1, <1>2, <1>3, PTL DEF Spec

=================================================================================
