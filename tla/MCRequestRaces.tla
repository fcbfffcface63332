--------------------------- MODULE MCRequestRaces ----------------------------
(* Instances of RequestRaces.                                              *)
EXTENDS RequestRaces, TLC

CONSTANTS r1, p1, p2, w1, w2, ana, garcom

OneRequest == {r1}
TwoProfessionals == {p1, p2}
Nobody == {}
TwoWorkers == {w1, w2}
TheClients == {ana}
TheCategories == {garcom}
OneClient == [r \in Requests |-> ana]
OneCategory == [r \in Requests |-> garcom]
OnePosition == [r \in Requests |-> 1]
OneTick == {1}

\* Sound for the safety run: neither professionals nor workers differ.
Symmetry == Permutations(Professionals) \cup Permutations(Workers)
=============================================================================
