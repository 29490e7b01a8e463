SPECIFICATION Spec
CONSTANTS
  s1 = s1
  a1 = a1
  a2 = a2
  w1 = w1
  w2 = w2
  NoWorker = NoWorker
  Server = {s1}
  App = {a1, a2}
  Worker = {w1, w2}
  HostOf <- TwoAppsHostOf
  PlacementOf <- TwoAppsPlacementOf
  CustomerAction = {"start"}
  MaxAttempts = 2
  MaxJobs = 4
  MaxFaults = 1
INVARIANTS
  WorkerInvariant
  RevokedWorkStops
  SoleLease
  SuspendedIffRevoked
