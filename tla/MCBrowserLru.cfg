CONSTANTS
  k1 = k1
  k2 = k2
  k3 = k3
  k4 = k4
  c1 = c1
  c2 = c2
  Key = {k1, k2, k3, k4}
  Caller = {c1, c2}
  maxItems = 2
SPECIFICATION Spec
PROPERTY AtMostHalfDrops
SYMMETRY const_Symmetry
