\* Two interests in one sweep, one phone both users log in on.
SPECIFICATION FairSpec
CONSTANTS
  i1 = i1
  i2 = i2
  pub = pub
  caio = caio
  paula = paula
  phone = phone
  Nobody = Nobody
  Users <- TheUsers
  Events <- AllEvents
  Devices <- OnePhone
  Wishes <- TheWishes
  Reachable <- Contacts
  Configured <- Channels
  Interests <- TwoInterests
  Urgent <- Publications
  Compatible <- TheCompatible
  ClientOf <- Client
  ProfessionalOf <- Professional
INVARIANTS
  LastHolderOnly
  SilenceHasAReason
PROPERTY
  EveryoneIsAsked
