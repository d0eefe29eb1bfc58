----------------------------- MODULE MCRequests -----------------------------
(* Model-checking instances of Requests: which threads live where.          *)
EXTENDS Requests, TLC

CONSTANTS p1, p2, t1

OneHome == [t \in Thread |-> p1]
TwoHomes == [t \in Thread |-> IF t = t1 THEN p1 ELSE p2]

Symmetry == Permutations(Request)
=============================================================================
