------------------------- MODULE MCLocalBlockchain -------------------------
(* Instances of LocalBlockchain for TLC: two contracts a and b, two versions *)
(* of their code.                                                            *)
EXTENDS LocalBlockchain

CONSTANTS a, b

Act(acc, vk) == [kind |-> "act", account |-> acc, vk |-> vk, data |-> "x"]
Deploy(acc, vk) == [kind |-> "deploy", account |-> acc, vk |-> vk, data |-> "x"]
Lock(acc) == [kind |-> "lock", account |-> acc, vk |-> 1, data |-> "x"]

\* What a reducer's users send: deployments, actions, an upgrade racing them,
\* a transaction whose permission change forbids its own action.
MCTemplates ==
  {<<Deploy(a, 1), Deploy(b, 1)>>, <<Act(a, 1), Act(a, 1)>>, <<Act(b, 1), Act(a, 1)>>,
   <<Deploy(a, 2)>>, <<Deploy(a, 2), Act(a, 2)>>, <<Lock(a), Act(a, 1)>>,
   <<Act(a, 1), Lock(b)>>, <<Act(a, 1)>>}
=============================================================================
