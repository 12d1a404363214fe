CONSTANTS
  keeper = keeper
  mover = mover
  Lock = Lock
  x1 = x1
  x2 = x2
  Batch = {x1, x2}
  Wallet = {keeper, mover}
  Block <- const_Block
  Question <- const_Question
  Histories <- const_Histories
  MaxBlock = 2
  EpochBlocks = 2
  ReadsPerCall = 2
  Concurrency = 1
SPECIFICATION RuleSpec
INVARIANT RuleInv
INVARIANT VerdictsFollowHoldings
INVARIANT MemoIsTrue
CHECK_DEADLOCK FALSE
