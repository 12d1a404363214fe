CONSTANTS
  v1 = v1
  View = {v1}
  readsFail = TRUE
  old = old
  lowCid = lowCid
  highCid = highCid
  other = other
  w1 = w1
  w2 = w2
  x = x
  y = y
  Community = {x, y}
  choice <- const_choice
  addressRank <- const_addressRank
  size <- const_size
  maxChunkBytes = 2
  Bundle <- const_Bundle
  Wallet <- const_Wallet
  address <- const_address
  blockNumber <- const_blockNumber
  cidRank <- const_cidRank
  blocksPerBucket = 2
  voteExpiryBuckets = 1
  MaxBucket = 3
SPECIFICATION TallySpec
CONSTRAINT ObservedIsSmall
INVARIANT
  
  RowsAreOrderFree
  RecordIsCanonical
  DecodeIsWholeOrNothing
  PruningIsInvisible
PROPERTY
  ImplementsVoteCrdt
