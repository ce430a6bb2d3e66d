SPECIFICATION Spec
CONSTANTS
  d = d
  u = u
  k1 = k1
  k2 = k2
  Keys <- TwoKeys
  NoKey = nokey
  Names <- SomeNames
  ReadBack <- UpToQuote
  Urls <- TwoUrls
  NoUrl = nourl
  DefaultUrl = d
  Absent = absent
  Cut = cut
  Faults = 1
  Windows = 2
SYMMETRY KeysAlike
CHECK_DEADLOCK FALSE
INVARIANTS
  TypeOK
  SignedInAsOwner
  RowActsOnShown
