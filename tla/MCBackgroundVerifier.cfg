CONSTANTS
  named = named
  late = late
  forged = forged
  name = name
  NoBundle = NoBundle
  Bundle = {named, late, forged}
  Name = {name}
  wrongKey = {forged}
  GateGrace = 2
  MaxOutages = 1
  claims <- const_claims
  gateAnswers <- const_gateAnswers
  nameAnswers <- const_nameAnswers
SPECIFICATION FairSpec
INVARIANT InFlightIsHeld
INVARIANT WorkIsScheduled
PROPERTY Settles
PROPERTY ImplementsDeferredChecks
