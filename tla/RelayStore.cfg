SPECIFICATION Spec
CONSTANTS
  Pubkeys <- TwoKeys
  Ids <- TwoIds
  KindTtl <- Ttls
  DefaultTtl = 1
  AllowedKinds = {1, 2}
  BannedPubkeys = {}
  U64 = 16
  U16 = 8
  NumSessions = 2
  Submissions <- Racing
  Filters <- NoFilters
  Budget <- TwiceThenOnce
  SendBuf = 1
  MayClose = {}
  StartTime = 1
  MaxTime = 2
  RateLimit = 1
  Window = 1
  MaxPerPubkey = 2
  MaxPerKind = 2
  MaxTotal = 2
  MaxSize = 4
  OpAllow = {}
  OpBan = {}
  OpPurge = {}
  OpDelete = {}
CHECK_DEADLOCK FALSE
INVARIANTS
  TypeOK
  RateBound
PROPERTIES
  BroadcastExactlyOnce
  ImplementsLog
