---------------------------- MODULE MCSupervisor ----------------------------
EXTENDS Supervisor, TLC
CONSTANTS p1, p2, p3, r1, r2, r3

(* One message per peer, and the last one to the first peer again.         *)
Addressed == [r \in Request |-> IF r = r2 THEN p2 ELSE p1]

Symmetry == Permutations(Thread) \cup Permutations(Loop)
=============================================================================
