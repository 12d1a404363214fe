CONSTANTS
  soulbound = soulbound
  pinned = pinned
  constant = constant
  Question = {soulbound, pinned, constant}
  Gates <- const_Gates
  MaxScore = 2
SPECIFICATION GateSpec
INVARIANT GateInv
INVARIANT LazyIsFull
INVARIANT OutagesDecideNothing
CHECK_DEADLOCK FALSE
