\* Two requests at once, two preapprovals, three changes of them in all, and one
\* body the provider never sent.
SPECIFICATION Spec
CONSTANTS
  w1 = w1
  w2 = w2
  k1 = k1
  k2 = k2
  None = None
  Workers <- TwoWorkers
  Preapprovals <- TwoPreapprovals
  Posted <- TwoBodies
  MaxChanges = 3
  MaxUnsent = 1
  FreeLimit = 1
SYMMETRY Symmetry
INVARIANTS
  PremiumWasPaid
  PremiumFollowsProvider
  FreePlanRespected
