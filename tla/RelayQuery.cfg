SPECIFICATION Spec
CONSTANTS
  Pubkeys <- TwoKeys
  Ids <- TwoIds
  KindTtl <- Ttls
  DefaultTtl = 1
  AllowedKinds = {1, 2}
  BannedPubkeys = {}
  U64 = 16
  U16 = 8
  NumSessions = 2
  Submissions <- ByTwoKeys
  Filters <- NotesFilter
  Budget <- TwiceThenOnce
  SendBuf = 1
  MayClose = {}
  StartTime = 2
  MaxTime = 2
  RateLimit = 2
  Window = 1
  MaxPerPubkey = 1
  MaxPerKind = 1
  MaxTotal = 3
  MaxSize = 4
  OpAllow = {3}
  OpBan = {"alice"}
  OpPurge = {"alice"}
  OpDelete = {"i2"}
CHECK_DEADLOCK FALSE
INVARIANTS
  Quotas
PROPERTIES
  PurgedStaysPurged
  SnapshotExact
