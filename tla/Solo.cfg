SPECIFICATION FairSpec
CONSTANTS
  s1 = s1
  s2 = s2
  k1 = k1
  k2 = k2
  starter = starter
  scale = scale
  NoWorker = NoWorker
  NoPlan = NoPlan
  NoListing = NoListing
  Installation = {s1}
  Key = {k1}
  App = {1}
  InitialApps = {1}
  Worker = {1}
  Plan = {starter}
  InitialPlan = starter
  ServerOf <- SoloServerOf
  HostOf <- SoloHostOf
  Capacity <- SoloCapacity
  Demand <- UnitDemand
  Quota <- UnitQuota
  ProviderStatus = {"active", "past_due", "canceled"}
  MaxFaults = 2
INVARIANTS
  LedgersAgree
  RefundExcludesCapacity
  EntitlementFollowsRows
PROPERTIES
  RecoveryIsSettled
  CancellationRevokes
