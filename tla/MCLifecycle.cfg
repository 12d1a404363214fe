CONSTANTS
  e1 = e1
  e2 = e2
  Engine = {e1, e2}
  MaxCalls = 3
SPECIFICATION FairSpec
INVARIANT LifecycleInv
INVARIANT HeartbeatGoesOn
 
PROPERTY ChangesAreAnnounced
CHECK_DEADLOCK FALSE
