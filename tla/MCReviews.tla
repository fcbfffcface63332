------------------------------ MODULE MCReviews ------------------------------
(* Instances of Reviews. *)
EXTENDS Reviews, TLC

CONSTANTS w1, w2, x, y

TwoWorkers == {w1, w2}
TwoOutsiders == {x, y}
Symmetry == Permutations(Workers) \cup Permutations(Outsiders)
=============================================================================
