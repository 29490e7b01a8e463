SPECIFICATION Spec
CONSTANT
  Offered = {"finance", "consent", "seo", "notify", "tasks", "feedback",
             "links", "publish", "inbox", "crm", "meetings", "learning",
             "community", "events", "metering", "people", "live", "assurance",
             "schedule", "flags", "forms", "esign", "email", "giveaways",
             "testimonials", "brand-pages", "collab", "hire", "operations", "projects",
             "drive", "commands", "store", "pages", "memory-pages",
             "proposals", "targets", "assistant", "public",
             "evidence", "form-pages", "tables", "access", "read-access"}
  Contributor = {"u"}
  Project = {"p"}
  Key = {1, 2}
  SlotMinutes = 50
  Rate = {1}
  Year = {1, 2}
  MaxEntries = 2
  Aggregation = {"sum"}
  Source = {1, 2}
  Unit = {1}
  Base = {0, 1}
  MaxMeters = 1
  MaxAggregates = 1
  MaxBills = 2
  MaxCredits = 1
  Sku = {"s"}
  Price = {0, 1, 2}
  LedgerPeriod = {"p"}
  MaxOrders = 1
  MaxPayments = 3
  MaxJournals = 1
  Amount = {1, 2}
  Credit = {1}
  Quantity = {1}
  PaymentReceipt = {1, 2}
  Horizon = 2
  MaxInvoices = 3
  Site = {"s", "t"}
  Domain = {"d"}
  NoDomain = "none"
  Visitor = {"v"}
  VisitorRequest = {"r", "q"}
  MaxChallenges = 2
  MaxRevisions = 2
  MaxReceipts = 2
  MaxScans = 1
  Address = {"a"}
  MailEvent = {1}
  Reason = {"complaint", "unsubscribe"}
  Final = {"complaint"}
  MailHorizon = 2
  MaxAudiences = 1
  MaxSuppressions = 2
  MaxCampaigns = 1
  MaxDrafts = 2
  MaxPlans = 1
  MaxMailVersion = 8
  Subscriber = {"s"}
  Topic = {"t", "t2"}
  Event = {"e"}
  Field = {"f"}
  Workflow = {"v", "w"}
  MaxRecords = 2
  Presenter = {"p"}
  Attendee = {"p", "u"}
  Creator = "c"
  Kind = {"respond"}
  Visibility = {"private", "workspace"}
  ConsentRequired = TRUE
  LiveHorizon = 1
  MaxGrants = 1
  MaxAccesses = 1
  MaxConsents = 2
  MaxMessages = 1
  MaxLiveVersion = 3
  Reference = {1}
  WidgetKey = {"k"}
  Expiry = {1, 2}
  TestimonialHorizon = 1
  MaxRequests = 1
  MaxTestimonials = 2
  MaxPublications = 2
  MaxWidgets = 2
  ProviderReceipt = {1, 2}
  SeatQuantity = {1, 2}
  SeatPrice = {1}
  Refund = {1, 2}
  Seats = 2
  EventHorizon = 3
  SalesEnd = 2
  StartsAt = 2
  MaxTypes = 1
  MaxReservations = 2
  MaxRefundRequests = 2
  MaxEventVersion = 2
  Slug = {"s", "t"}
  Duration = {1}
  ScheduleHorizon = 2
  BookingPage = {1}
  MaxHosts = 1
  MaxSchedules = 1
  MaxReleases = 2
  MaxBookings = 3
  MaxBookingVersion = 3
  Owner = "o"
  Employee = {"u"}
  Interval = {1, 2}
  PolicyKey = {"k"}
  Cycle = {1}
  Privacy = {"manager-and-person", "restricted"}
  PeopleHorizon = 1
  MaxPeopleRecords = 5
  MaxEach = 2
  Engines = {{"core", "additive"}, {"growth"}, {"esign"}, {"email"}, {"extended"}, {"premium"}}
  Other = "u"
  Role = {"member"}
  CommandKey = {1}
  HumanDecision = {"d"}
  NoDecision = "none"
  FreshFor = 0
  CommandHorizon = 1
  MaxCommandReceipts = 2
  MaxCommandVersion = 2
  Backend = {"postgres", "memory"}
  Guest = "v"
  StoreRequest = {1, 2}
  RecordLimit <- RecordLimits
  StorageLimit <- StorageLimits
  ObjectSize = {0, 1}
  MaxStored = 3
  MaxStoredVersion = 2
INVARIANTS
  MoneyAddsUp
  NothingTwice
  OnlyWithConsent
  LiveIsApproved
  HistoryReplays
  MembersRead
  WorkIsConsistent
  AnswersFollowRules
CHECK_DEADLOCK FALSE
