CONSTANTS
  first = first
  later = later
  w1 = w1
  NoBundle = NoBundle
  NoRecord = NoRecord
  Corrupt = Corrupt
  Leaver = leave
  Bundle = {first, later}
  Server = {}
  Writer = {timer}
  Restorer = {restore}
  offlineInvalid = {first}
  fails = {"head", "set", "put"}
  WriteAttempts = 2
  blocksPerBucket = 1
  voteExpiryBuckets = 1
  MaxBucket = 2
  Wallet <- const_Wallet
  address <- const_address
  blockNumber <- const_blockNumber
  cidRank <- const_cidRank
SPECIFICATION Spec
INVARIANT CheckpointInv
INVARIANT RecordIsCurrent
PROPERTY WritesKeepPersisted
CONSTRAINT Unraced
