CONSTANTS
  n1 = n1
  n2 = n2
  n3 = n3
  b1 = b1
  NoRoot = NoRoot
  Node = {n1, n2, n3}
  Bundle = {b1}
  MaxFaults = 1
SPECIFICATION FairExchangeSpec
INVARIANT RootExchangeInv
 
PROPERTY Converges
