SPECIFICATION Spec
CONSTANTS
  Pubkeys <- TwoKeys
  Ids <- TwoIds
  KindTtl <- Ttls
  DefaultTtl = 1
  AllowedKinds = {1, 2}
  BannedPubkeys = {}
  U64 = 16
  U16 = 8
  NumSessions = 2
  Submissions <- HugeOnly
  Filters <- NoFilters
  Budget <- FirstOnlyTwice
  SendBuf = 1
  MayClose = {}
  StartTime = 2
  MaxTime = 2
  RateLimit = 1
  Window = 1
  MaxPerPubkey = 1
  MaxPerKind = 2
  MaxTotal = 2
  MaxSize = 4
  OpAllow = {}
  OpBan = {}
  OpPurge = {}
  OpDelete = {}
CHECK_DEADLOCK FALSE
INVARIANTS
  RelayedWithinRate
