CONSTANTS
  a = a
  b = b
  p = p
  Topic = {a, b}
  Peer = {p}
  oldPeers = {}
  BulkMax = 2
  PeerLimit = 2
  MaxAttempts = 2
  MaxRoot = 1
  MaxFaults = 2
  ownRoot <- const_ownRoot
SPECIFICATION FairSpec
INVARIANT ColdStartInv
INVARIANT NoRecordIsTrue
INVARIANT AnswersReachContests
PROPERTY PullsEnd
CHECK_DEADLOCK FALSE
