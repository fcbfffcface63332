\* One professional, two requests at once, two images at most.
SPECIFICATION Spec
CONSTANTS
  bento = bento
  carla = carla
  w1 = w1
  w2 = w2
  w3 = w3
  garcom = garcom
  fechada = fechada
  None = None
  Owners <- OneOwner
  Workers <- TwoWorkers
  Forms <- SomeForms
  OpenCategories <- Open
  Limit = 2
  MaxUploads = 3
  Crashes = TRUE
  Clocks <- Hours
  MinuteOf <- Minutes
  TextRank <- Order
SYMMETRY Symmetry
INVARIANTS
  WithinLimit
  ImagesAreServed
  NoFileForgotten
  FormsAreSavedWhole
  PeriodsDisjoint
PROPERTY
  CoverStays
