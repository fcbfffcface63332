-------------------------- MODULE MCServiceRequests --------------------------
(***************************************************************************)
(* Instances of ServiceRequests.  r1 and r2 are of one client and category *)
(* and can be each other's recent twin; r3 differs in category and, where  *)
(* the run says so, in client.                                             *)
(***************************************************************************)
EXTENDS ServiceRequests, TLC

CONSTANTS r1, r2, r3, p1, p2, p3, ana, bia, garcom, musico

TwoRequests == {r1, r2}
ThreeRequests == {r1, r2, r3}
OneProfessional == {p1}
TwoProfessionals == {p1, p2}
ThreeProfessionals == {p1, p2, p3}
TheClients == {ana, bia}
TheCategories == {garcom, musico}
OneClient == [r \in Requests |-> ana]
TwoClients == [r \in Requests |-> IF r = r3 THEN bia ELSE ana]
Category == [r \in Requests |-> IF r = r3 THEN musico ELSE garcom]
TwoPositionsForR1 == [r \in Requests |-> IF r = r1 THEN 2 ELSE 1]
OnePosition == [r \in Requests |-> 1]
OneTick == {1}
ShortWindow == {2}
TwoWindows == {2, 3}
Nobody == {}
OnlyAna == {ana}

\* Sound for the safety runs: nothing tells one professional from another.
ProfessionalSymmetry == Permutations(Professionals)
=============================================================================
