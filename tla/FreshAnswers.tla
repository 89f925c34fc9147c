------------------------------ MODULE FreshAnswers ------------------------------
(***************************************************************************)
(* What the queries of OrganizationModelAsk promise: each call is answered *)
(* as a process would that has never been asked anything before.  There may*)
(* be several such answers, since checks may run out of time; but until the*)
(* process is told to forget, it gives the same one to the same call.      *)
(***************************************************************************)
CONSTANTS
  Call,
  Fresh(_)  \* the answers a call may get in a process of its own

VARIABLE told  \* the calls and their answers, since the last reset

Init == told = {}

Answer(c) ==
  \E result \in Fresh(c) :
     /\ \A t \in told : t[1] = c => t[2] = result
     /\ told' = told \cup {<<c, result>>}

Forget == told' = {}

Next == (\E c \in Call : Answer(c)) \/ Forget

Spec == Init /\ [][Next]_told
================================================================================
