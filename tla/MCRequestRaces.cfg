\* One request for one, two applicants, two workers that may stop halfway.
SPECIFICATION RacesSpec
CONSTANTS
  r1 = r1
  p1 = p1
  p2 = p2
  w1 = w1
  w2 = w2
  ana = ana
  garcom = garcom
  None = None
  Requests <- OneRequest
  Professionals <- TwoProfessionals
  Workers <- TwoWorkers
  Clients <- TheClients
  Categories <- TheCategories
  ClientOf <- OneClient
  CategoryOf <- OneCategory
  Positions <- OnePosition
  Windows <- OneTick
  DuplicateWindow = 0
  FreeLimit = 1
  Premium <- Nobody
  LastTime = 2
  Crashes = TRUE
SYMMETRY Symmetry
INVARIANTS
  ChatMeansSelected
  FilledMeansEnough
  EndIsRecorded
  NobodyForgotten
  RefusedAreTold
  SelectedAreTold
PROPERTY
  RefusalSparesTheSelected
