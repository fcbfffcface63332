--------------------------- MODULE MCProfessionals ---------------------------
(* Instances of Professionals: one category open, one closed.  "9:00" is   *)
(* the text that sorts after later hours.                                  *)
EXTENDS Professionals, TLC

CONSTANTS bento, carla, w1, w2, w3, garcom, fechada

OneOwner == {bento}
TwoWorkers == {w1, w2}
ThreeWorkers == {w1, w2, w3}
Open == {garcom}

Hours == {"08:00", "9:00", "10:00", "11:00"}
Minutes == [t \in Hours |->
  CASE t = "08:00" -> 480 [] t = "9:00" -> 540 [] t = "10:00" -> 600
    [] t = "11:00" -> 660]
Order == [t \in Hours |->
  CASE t = "08:00" -> 1 [] t = "10:00" -> 2 [] t = "11:00" -> 3
    [] t = "9:00" -> 4]

Monday(from, to) == [day |-> 1, start |-> from, end |-> to]
Tuesday(from, to) == [day |-> 2, start |-> from, end |-> to]
Form(c, placed, now, ps) ==
  [category |-> c, fits |-> TRUE, placed |-> placed, now |-> now, periods |-> ps]

\* Two that are saved, one of them without a place; one of a closed category;
\* overlapping periods: neighbours once sorted, not as listed, and a later
\* period whose text sorts before an earlier one's; one out of range.
SomeForms ==
  {Form(garcom, TRUE, TRUE, <<Monday("10:00", "11:00"), Monday("08:00", "10:00"),
                              Tuesday("9:00", "10:00")>>),
   Form(garcom, FALSE, FALSE, <<Monday("9:00", "11:00")>>),
   Form(fechada, TRUE, FALSE, <<>>),
   Form(garcom, TRUE, FALSE, <<Monday("08:00", "10:00"), Tuesday("08:00", "9:00"),
                               Monday("9:00", "11:00")>>),
   Form(garcom, TRUE, FALSE, <<Monday("10:00", "11:00"), Monday("9:00", "11:00")>>),
   [Form(garcom, TRUE, TRUE, <<>>) EXCEPT !.fits = FALSE]}

Symmetry == Permutations(Workers)
=============================================================================
