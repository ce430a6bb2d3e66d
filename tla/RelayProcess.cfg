SPECIFICATION Spec
VIEW StateView
CONSTANTS
  Argvs <- ManyArgvs
  DefaultLimits <- SmallLimits
  DefaultAllowed = {1, 2}
  DefaultKindTtl <- SmallTtl
  U16 = 8
  U64 = 16
  Clients = {c1, c2}
  Talker = c1
  Fds = {1, 2, 3}
  Polls = 1
  Signals = 1
  Calls = 1
  Words <- OneTalks
CHECK_DEADLOCK FALSE
INVARIANTS
  TypeOK
  OwnDescriptors
  QuietAtExit
  ConfigAsMeant
