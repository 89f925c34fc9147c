------------------------------ MODULE MCRedundancy ------------------------------
(* Redundancy for up to six resources of two agents: 21 is a kind of        *)
(* resource, 22 and 23 are derived from it, 24 is not.                      *)
EXTENDS Redundancy
LOCAL INSTANCE TLC

Classes == [below |-> {<<22, 21>>, <<23, 21>>}]

AtLeast(n) == [min |-> n, max |-> 1000000]
Fails(k, d) == [k |-> k, d |-> d]
Coin == Fails(1, 2)

(* The resources of n agents of each model of a table.                      *)
Resources(table, n) == {[name |-> t[1], model |-> t[2], agent |-> k] : t \in table, k \in 1 .. n}

Sets ==
  {Resources({<<"camera", 22>>, <<"arm", 24>>, <<"laser", 23>>}, 2),
   Resources({<<"camera", 22>>, <<"laser", 23>>}, 3),
   Resources({<<"left", 22>>, <<"right", 22>>}, 2) \cup Resources({<<"arm", 24>>, <<"laser", 23>>}, 1),
   Resources({<<"camera", 21>>}, 2) \cup Resources({<<"laser", 22>>}, 2),
   Resources({<<"camera", 21>>, <<"arm", 24>>}, 1)}

BoundsRequired ==
  {21 :> AtLeast(1), 21 :> AtLeast(2) @@ 24 :> AtLeast(1), 21 :> AtLeast(1) @@ 22 :> AtLeast(1),
   22 :> AtLeast(1) @@ 23 :> AtLeast(1), 22 :> AtLeast(2) @@ 23 :> AtLeast(1),
   21 :> AtLeast(1) @@ 22 :> AtLeast(0), 21 :> AtLeast(1) @@ 22 :> AtLeast(1) @@ 23 :> AtLeast(1),
   24 :> AtLeast(0)}

Failures(requirement) ==
  {[r \in DOMAIN requirement |-> Coin],
   [r \in DOMAIN requirement |-> IF r = 21 /\ requirement[r].min < 2 THEN Fails(1, 4) ELSE Coin]}

MCCases ==
  UNION {{[o |-> Classes, required |-> q, instances |-> s, failure |-> f] : f \in Failures(q), s \in Sets}
           : q \in BoundsRequired}
=================================================================================
