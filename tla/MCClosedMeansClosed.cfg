\* A request closed with one position of two filled.
SPECIFICATION Spec
CONSTANTS
  r1 = r1
  r2 = r2
  r3 = r3
  p1 = p1
  p2 = p2
  p3 = p3
  ana = ana
  bia = bia
  garcom = garcom
  musico = musico
  Requests <- TwoRequests
  Professionals <- TwoProfessionals
  Clients <- TheClients
  Categories <- TheCategories
  ClientOf <- OneClient
  CategoryOf <- Category
  Positions <- TwoPositionsForR1
  Windows <- ShortWindow
  DuplicateWindow = 1
  FreeLimit = 2
  Premium <- Nobody
  LastTime = 5
INVARIANT ClosedMeansClosed
