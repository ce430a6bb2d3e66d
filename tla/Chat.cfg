SPECIFICATION Spec
VIEW StateView
CONSTANTS
  u1 = u1
  u2 = u2
  Urls = {u1, u2}
  NoUrl = none
  Cut = cut
  Home <- OneOfTwo
  Sends = 2
  Arrivals = 1
  Dials = 2
  Faults = 1
CHECK_DEADLOCK FALSE
INVARIANTS
  TypeOK
  SentKept
  RightFile
  ShownSettles
  Subscribed
  RightRelay
  NodesKept
