CONSTANTS
  voteX = voteX
  voteY = voteY
  refused = refused
  overCap = overCap
  w1 = w1
  w2 = w2
  x = x
  y = y
  NoBundle = NoBundle
  Bundle = {voteX, voteY}
  Slot = {}
  Chase = {c1}
  ownBundles = {voteX}
  infraFails = FALSE
  offlineInvalid = {}
  blocksPerBucket = 2
  voteExpiryBuckets = 0
  MaxBucket = 1
  VerdictCacheMax = 2
  AcceptedMax = 2
  Wallet <- const_Wallet
  address <- const_address
  blockNumber <- const_blockNumber
  cidRank <- const_cidRank
  choice <- const_choice
  carriesName <- const_carriesName
  gateAnswers <- const_gateAnswers
  nameAnswers <- const_nameAnswers
SPECIFICATION FairSpec
PROPERTY PendingSettles
PROPERTY PruneKeepsServed
