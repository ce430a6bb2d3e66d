SPECIFICATION FairSpec
CONSTANTS
  Argvs <- NoOptions
  DefaultLimits <- SmallLimits
  DefaultAllowed = {1, 2}
  DefaultKindTtl <- SmallTtl
  U16 = 8
  U64 = 16
  Clients = {c1}
  Talker = c1
  Fds = {1, 2}
  Polls = 1
  Signals = 2
  Calls = 2
  Words <- Silent
CHECK_DEADLOCK FALSE
PROPERTIES
  StopReturns
  BusyPortReported
