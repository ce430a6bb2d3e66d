SPECIFICATION FairSpec
CONSTANTS
  Urls = {u1, u2, u3}
  BadPorts = {u3}
  NoUrl = none
  Clicks = 2
  Frames = 1
CHECK_DEADLOCK FALSE
INVARIANTS
  TypeOK
  OwnRelay
  StatusSettles
PROPERTIES
  ConnectReturns
  LossShown
