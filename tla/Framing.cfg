SPECIFICATION FairSpec
CONSTANTS
  Threads <- TwoThreads
  Jobs <- SomeJobs
  MayBreak = {"up", "down"}
CHECK_DEADLOCK FALSE
INVARIANTS
  TypeOK
  Framed
  InOrder
  StopsForReason
PROPERTIES
  AllHandled
