CONSTANTS
  p1 = p1
  p2 = p2
  Peer = {p1, p2}
  HostAwaits = TRUE
  Expiry = 0
  MaxAttempts = 2
  MaxBucket = 2
  MaxHeard = 2
  PeerRootsMax = 1
  DecodedRootsMax = 1
SPECIFICATION FairSpec
INVARIANT PublicationInv
INVARIANT VerdictsAreOfAttempt
PROPERTY AttemptOnlyAdvances
PROPERTY VerdictsAreHeard
CHECK_DEADLOCK FALSE
