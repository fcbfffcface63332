\* Two tabs of one browser, three logins or refreshes, a link of each kind.
SPECIFICATION Spec
CONSTANTS
  t1 = t1
  t2 = t2
  laptop = laptop
  professional = professional
  contractor = contractor
  Tabs <- TwoTabs
  Browsers <- OneBrowser
  BrowserOf <- Browser
  ProfileTypes <- TwoTypes
  MaxTokens = 3
  MaxLinks <- OneLinkEach
SYMMETRY TabAndTypeSymmetry
INVARIANTS
  OneLivePerLogin
  ResetEndsSessions
  LinksWorkOnce
  JarHoldsACurrentToken
  NobodyWaitsInACircle
PROPERTY
  ClosedForGood
CHECK_DEADLOCK FALSE
