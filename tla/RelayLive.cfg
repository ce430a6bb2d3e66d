SPECIFICATION FairSpec
CONSTANTS
  Pubkeys <- TwoKeys
  Ids <- TwoIds
  KindTtl <- Ttls
  DefaultTtl = 1
  AllowedKinds = {1, 2}
  BannedPubkeys = {}
  U64 = 16
  U16 = 8
  NumSessions = 2
  Submissions <- Aging
  Filters <- IllTypedFilters
  Budget <- Once
  SendBuf = 1
  MayClose = {2}
  StartTime = 2
  MaxTime = 3
  RateLimit = 2
  Window = 1
  MaxPerPubkey = 2
  MaxPerKind = 2
  MaxTotal = 2
  MaxSize = 4
  OpAllow = {}
  OpBan = {}
  OpPurge = {}
  OpDelete = {}
CHECK_DEADLOCK FALSE
PROPERTIES
  KeptUntilExpired
  Served
  OverAgeGone
