\* Two requests of one client in one category, two applicants, a fair sweep.
\* One is published at 1 and due at 2; the other, published at 2, keeps the
\* sweep from saving it until 3.
SPECIFICATION FairSpec
CONSTANTS
  r1 = r1
  r2 = r2
  r3 = r3
  p1 = p1
  p2 = p2
  p3 = p3
  ana = ana
  bia = bia
  garcom = garcom
  musico = musico
  Requests <- TwoRequests
  Professionals <- TwoProfessionals
  Clients <- TheClients
  Categories <- TheCategories
  ClientOf <- OneClient
  CategoryOf <- Category
  Positions <- TwoPositionsForR1
  Windows <- OneTick
  DuplicateWindow = 0
  FreeLimit = 2
  Premium <- Nobody
  LastTime = 3
PROPERTIES
  RequestsEnd
  ApplicationsEnd
  KeepsPromise
INVARIANTS
  StatusMatchesSelection
  AnswersAreTold
