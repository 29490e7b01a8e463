SPECIFICATION Spec
CONSTANTS
  s1 = s1
  s2 = s2
  k1 = k1
  k2 = k2
  starter = starter
  scale = scale
  NoWorker = NoWorker
  NoPlan = NoPlan
  NoListing = NoListing
  Installation = {s1, s2}
  Key = {k1, k2}
  App = {1, 2}
  InitialApps = {1, 2}
  Worker = {1}
  Plan = {starter}
  InitialPlan = starter
  ServerOf <- ContentionServerOf
  HostOf <- ContentionHostOf
  Capacity <- ContentionCapacity
  Demand <- UnitDemand
  Quota <- UnitQuota
  ProviderStatus = {"active", "canceled"}
  MaxFaults = 0
INVARIANTS
  NoOvercommit
PROPERTIES
  HistoryIsFinal
  HonoursObligations
