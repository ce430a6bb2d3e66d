SPECIFICATION FairSpec
CONSTANTS
  TypeOf <- MCTypeOf
  Traits <- MCTraits
  Unreadable = unreadable
  Installed <- MCInstalled
  Foreign <- MCForeign
  MaxTime = 2
  Launches = 2
  Faults = 1
CHECK_DEADLOCK FALSE
INVARIANTS
  TypeOK
  NothingLost
PROPERTIES
  GuiReturns
  DueIsEarned
