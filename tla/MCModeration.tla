---------------------------- MODULE MCModeration -----------------------------
(* Two cases against one user. *)
EXTENDS Moderation, TLC

CONSTANTS w1, w2, c1, c2, rui

TwoWorkers == {w1, w2}
TwoCases == {c1, c2}
OneUser == {rui}
AboutRui == [c \in Cases |-> rui]
\* Staff reopen a case, or put down a decision and no more.
TwoEdits == {Opened, [Opened EXCEPT !.status = "decided", !.decision = "suspension"]}
Symmetry == Permutations(Workers) \cup Permutations(Cases)
=============================================================================
