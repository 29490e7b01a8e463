SPECIFICATION Spec
CONSTANTS
  r1 = r1
  r2 = r2
  NoHold = NoHold
  NoCall = NoCall
  Plan = {1, 2}
  InitialPlan = 2
  Request = {r1, r2}
  MaxGeneration = 2
  MaxFaults = 1
  MaxUsage = 2
CHECK_DEADLOCK FALSE
INVARIANTS
  ResizeInvariant
  ConsumedIsBilled
  HeldPlanFits
PROPERTY
  GrantedOnlyAsBilled
SYMMETRY RequestSymmetry
