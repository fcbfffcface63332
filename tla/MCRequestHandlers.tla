-------------------------- MODULE MCRequestHandlers --------------------------
(* Instances of RequestHandlers.                                           *)
EXTENDS RequestHandlers, TLC

CONSTANTS r1, r2, p1, p2, w1, w2, ana, garcom

OneRequest == {r1}
TwoRequests == {r1, r2}
OneProfessional == {p1}
TwoProfessionals == {p1, p2}
Nobody == {}
OneWorker == {w1}
TwoWorkers == {w1, w2}
TheClients == {ana}
TheCategories == {garcom}
OneClient == [r \in Requests |-> ana]
OneCategory == [r \in Requests |-> garcom]
OnePosition == [r \in Requests |-> 1]
TwoPositions == [r \in Requests |-> 2]
OneTick == {1}

\* Sound for the safety runs: neither professionals nor workers differ.
Symmetry == Permutations(Professionals) \cup Permutations(Workers)
=============================================================================
