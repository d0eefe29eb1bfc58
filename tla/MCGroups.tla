------------------------------ MODULE MCGroups ------------------------------
(* Two processes of different agents on one file; one has one session, the *)
(* other several.                                                          *)
EXTENDS Groups, TLC
CONSTANTS p1, p2, a1, a2

Owners == (p1 :> a1) @@ (p2 :> a2)
=============================================================================
