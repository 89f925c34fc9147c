---------------------------- MODULE MCConnectivity ----------------------------
(* Connectivity of pools of up to four agents, in ontologies of three tables*)
(* of interfaces: one with a model that has none; one where an agent has    *)
(* what both of two others need; and one with hooks and eyes, which look    *)
(* different to the plugs and sockets next to them.  Compatibility is mutual*)
(* or not.                                                                  *)
EXTENDS Connectivity

MCInterfaces ==
  {<<<<"plug", "socket">>, <<"plug">>, <<"socket", "socket">>, <<>>>>,
   <<<<"plug">>, <<"socket", "plug">>, <<"socket", "socket">>, <<"plug">>>>,
   <<<<"plug", "hook">>, <<"plug">>, <<"eye", "socket">>, <<"socket">>>>}

MCOntologies ==
  [interfaces : MCInterfaces,
   compatible : {{<<"plug", "socket">>, <<"socket", "plug">>, <<"hook", "eye">>, <<"eye", "hook">>},
                 {<<"plug", "socket">>},
                 {<<"socket", "plug">>, <<"socket", "socket">>}}]

MCPools ==
  {[m \in {1, 3} |-> 1], [m \in {1, 2} |-> m], [m \in {1, 2, 3} |-> 1],
   [m \in {2} |-> 2], [m \in {1, 3} |-> 2 * (m % 3)], [m \in {3, 4} |-> 1], [m \in {2} |-> 3],
   [m \in {1, 3, 4} |-> 1], [m \in {3} |-> 1]}

Asked(pool) ==
  {[pool |-> pool, timeout |-> t[1], minFeasible |-> t[2]] : t \in {<<0, 1>>, <<5, 1>>, <<0, 2>>}}
OfEach == [pool |-> [m \in Model |-> 1], timeout |-> 0, minFeasible |-> 1]

MCSessions == {Asked(p) : p \in MCPools} \cup {{OfEach}}
===============================================================================
