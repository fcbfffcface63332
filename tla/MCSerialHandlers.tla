-------------------------- MODULE MCSerialHandlers --------------------------
(* Instances of SerialHandlers.                                            *)
EXTENDS SerialHandlers, TLC

CONSTANTS r1, r2, p1, p2, w1, ana, garcom

TwoRequests == {r1, r2}
TwoProfessionals == {p1, p2}
Nobody == {}
OneWorker == {w1}
TheClients == {ana}
TheCategories == {garcom}
OneClient == [r \in Requests |-> ana]
OneCategory == [r \in Requests |-> garcom]
TwoPositionsForR1 == [r \in Requests |-> IF r = r1 THEN 2 ELSE 1]
OneTick == {1}

Symmetry == Permutations(Professionals)
=============================================================================
