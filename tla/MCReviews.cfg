\* Two requests at once, four answers, two users who took no part; then there
\* may be nothing left to do.
SPECIFICATION Spec
CONSTANTS
  w1 = w1
  w2 = w2
  x = x
  y = y
  Workers <- TwoWorkers
  Outsiders <- TwoOutsiders
  MaxAnswers = 4
CHECK_DEADLOCK FALSE
SYMMETRY Symmetry
INVARIANTS
  ReviewsWereEarned
  AnswersAreKept
  DisputesAreFlagged
PROPERTY
  ReviewsAreBlind
