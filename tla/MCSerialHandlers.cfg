\* Two requests of one category, two applicants, one handler at a time.
SPECIFICATION SerialSpec
CONSTANTS
  r1 = r1
  r2 = r2
  p1 = p1
  p2 = p2
  w1 = w1
  ana = ana
  garcom = garcom
  None = None
  Requests <- TwoRequests
  Professionals <- TwoProfessionals
  Workers <- OneWorker
  Clients <- TheClients
  Categories <- TheCategories
  ClientOf <- OneClient
  CategoryOf <- OneCategory
  Positions <- TwoPositionsForR1
  Windows <- OneTick
  DuplicateWindow = 0
  FreeLimit = 2
  Premium <- Nobody
  LastTime = 3
  Crashes = FALSE
SYMMETRY Symmetry
PROPERTY ImplementsHandlers
