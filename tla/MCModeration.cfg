\* Two cases against one user, two requests at once, two ways to write a case by
\* hand; in the end all is closed.
SPECIFICATION Spec
CONSTANTS
  w1 = w1
  w2 = w2
  c1 = c1
  c2 = c2
  rui = rui
  Workers <- TwoWorkers
  Cases <- TwoCases
  Users <- OneUser
  About <- AboutRui
  Edits <- TwoEdits
CHECK_DEADLOCK FALSE
SYMMETRY Symmetry
INVARIANTS
  AccountsFollowCases
PROPERTY
  CasesGoForward
