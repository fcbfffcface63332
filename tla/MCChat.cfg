\* Three pages, one message a minute, a history of one; three messages, one more
\* than the user with two pages may send at once.
SPECIFICATION Spec
CONSTANTS
  ana = ana
  beto = beto
  a1 = a1
  a2 = a2
  b1 = b1
  Users <- TheUsers
  Pages <- ThreePages
  UserOf <- Owner
  Limit = 1
  HistoryLimit = 1
  MaxMessages = 3
SYMMETRY Symmetry
INVARIANTS
  RateHolds
  BlockHolds
  NothingMissed
