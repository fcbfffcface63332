------------------------------- MODULE MCChat --------------------------------
(* Two pages of one user, one of the other. *)
EXTENDS Chat, TLC

CONSTANTS ana, beto, a1, a2, b1

TheUsers == {ana, beto}
ThreePages == {a1, a2, b1}
Owner == [p \in Pages |-> IF p = b1 THEN beto ELSE ana]
Symmetry == Permutations({a1, a2})
=============================================================================
