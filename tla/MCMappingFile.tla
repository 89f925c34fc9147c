---------------------------- MODULE MCMappingFile ----------------------------
(***************************************************************************)
(* Instances of MappingFile: two models, two functionalities; for several  *)
(* processes at once, one model and one functionality.                     *)
(***************************************************************************)
EXTENDS MappingFile
LOCAL INSTANCE SequencesExt
LOCAL INSTANCE TLC

CONSTANTS m1, m2, f1, f2

InOrder(S) == SetToSeq(S)

One(m) == [x \in {m} |-> 1]
Both == [x \in {m1, m2} |-> 1]

Supported(first, second) ==
  [NewMapping(Both, <<f1, f2>>, One(m1)) EXCEPT
     !.pools = [f \in {f1, f2} |-> IF f = f1 THEN first ELSE second],
     !.supported = (IF first = {} THEN {} ELSE {f1}) \cup (IF second = {} THEN {} ELSE {f2}),
     !.active = first \cup second]

(* Any of them supported by one model, by two together, or not at all.     *)
EveryMapping ==
  {Supported(first, second) : first \in SUBSET {One(m1), Both}, second \in SUBSET {One(m2), Both}}

(* The shortest file in which something is supported.                      *)
OnePool == {Add(NewMapping(One(m1), <<f1>>, EmptyPool), One(m1), f1)}

(* Bound: nobody loads the file before the others are done.                *)
OthersAreDone ==
  \A p \in Process : pc[p] = "load" => \A q \in Process \ {p} : pc[q] = "done"

Interchangeable == Permutations(Process)
==============================================================================
