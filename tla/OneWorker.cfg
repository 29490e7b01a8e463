SPECIFICATION FairSpec
CONSTANTS
  s1 = s1
  a1 = a1
  a2 = a2
  w1 = w1
  w2 = w2
  NoWorker = NoWorker
  Server = {s1}
  App = {a1}
  Worker = {w1}
  HostOf <- OneAppHostOf
  PlacementOf <- OneAppPlacementOf
  CustomerAction = {"start", "backup"}
  MaxAttempts = 2
  MaxJobs = 3
  MaxFaults = 2
INVARIANTS
  LiveIsUp
  CleanupIsQueued
PROPERTIES
  JobsEnd
  InstallsAreStopped
