CONSTANTS
  voteX = voteX
  voteY = voteY
  refused = refused
  overCap = overCap
  w1 = w1
  w2 = w2
  x = x
  y = y
  NoBundle = NoBundle
  Bundle = {voteY, refused, overCap}
  Slot = {s1}
  Chase = {c1}
  ownBundles = {}
  infraFails = TRUE
  offlineInvalid = {overCap}
  blocksPerBucket = 2
  voteExpiryBuckets = 0
  MaxBucket = 1
  VerdictCacheMax = 1
  AcceptedMax = 1
  Wallet <- const_Wallet
  address <- const_address
  blockNumber <- const_blockNumber
  cidRank <- const_cidRank
  choice <- const_choice
  carriesName <- const_carriesName
  gateAnswers <- const_gateAnswers
  nameAnswers <- const_nameAnswers
SPECIFICATION Spec
INVARIANT ForwardedIsVerified
INVARIANT RelayersAreSafe
INVARIANT ChecksMatchCrdt
INVARIANT ServedIsVerified
