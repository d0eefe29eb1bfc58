------------------------------ MODULE MCInbound ------------------------------
(* Model-checking instance of Inbound: symmetry over ids and threads.       *)
EXTENDS Inbound, TLC

Symmetry ==
  Permutations(Message) \cup Permutations(Handler) \cup Permutations(Operator)
=============================================================================
