--------------------------- MODULE MCSubscriptions ---------------------------
(* Instances of Subscriptions. *)
EXTENDS Subscriptions, TLC

CONSTANTS w1, w2, k1, k2

TwoWorkers == {w1, w2}
TwoPreapprovals == {k1, k2}

\* One that gives premium and one that takes it.
TwoBodies == [id : {None}, change : {0}, status : {"authorized", "cancelled"}]

\* Sound: neither workers nor preapprovals differ, and no body names one.
Symmetry == Permutations(Workers) \cup Permutations(Preapprovals)
=============================================================================
