----------------------------- MODULE Workspace -----------------------------
(***************************************************************************)
(* The command engines of a business workspace that the proofs are about.  *)
(* A workspace has the modules its owner enabled, of which one at a time   *)
(* is looked at, and the records of that module (suite-store.ts).  The     *)
(* first part is the modules that keep money, the second the modules that  *)
(* may reach or show a person only as the person agreed.  SuiteWorkspace   *)
(* adds the other modules.                                                 *)
(***************************************************************************)
EXTENDS Integers, FiniteSets

CONSTANTS
  Offered,   \* the modules a workspace may have enabled
  Key        \* idempotency keys of the callers

VARIABLES enabled,   \* the workspace's enabled module ids
          records    \* the records of the enabled module

Has(m) == m \in enabled

-----------------------------------------------------------------------------
(* Money: the books of finance (the business engine), the credits and      *)
(* bills of metering (the extended engine) and the ledger of operations    *)
(* (the premium engine).                                                   *)

CONSTANTS            \* the parameters of the money-keeping engines
  Contributor, Project, SlotMinutes, Rate, Year, MaxEntries,                   \* finance
  Aggregation, Source, Unit, Base, MaxMeters, MaxAggregates, MaxBills, MaxCredits,  \* metering
  Sku, Price, LedgerPeriod, MaxOrders, MaxPayments, MaxJournals,                          \* operations
  Amount, Credit, Quantity, PaymentReceipt, Horizon, MaxInvoices

\* Quantities are numbers, and none of the keys is the mark of having none.
ASSUME MoneyAssumption ==
  /\ Horizon \in Nat /\ SlotMinutes \in Nat /\ Key \subseteq Nat \ {0}
  /\ Rate \subseteq Nat /\ Unit \subseteq Nat /\ Base \subseteq Nat /\ Price \subseteq Nat
  /\ Amount \subseteq Nat /\ Credit \subseteq Nat /\ Quantity \subseteq Nat
  /\ Aggregation \subseteq {"sum", "count", "maximum"}

Finance == INSTANCE Finance
Metering == INSTANCE Metering WITH
  Amount <- Credit, Receipt <- PaymentReceipt, MaxInvoices <- MaxBills
Premium == INSTANCE Premium WITH
  Period <- LedgerPeriod, MaxInvoices <- MaxBills,
  ProjectKey <- {"p"}, Points <- {1}, CapacityPoints <- 2, Horizon <- 1, Until <- {1, 2},
  MaxIssues <- 3, MaxCycles <- 1, MaxVersion <- 3, MaxFiles <- 2, MaxShares <- 1

MoneyInit ==
  \E m \in Offered :
    /\ enabled = {m}
    /\ \/ m = "finance"    /\ Finance!Init
       \/ m = "metering"   /\ Metering!Init
       \/ m = "operations" /\ Premium!Init

\* A command of the enabled module, in the engine that serves it.
MoneyNext ==
  /\ \/ "finance"    \in enabled /\ Finance!Next
     \/ "metering"   \in enabled /\ Metering!Next
     \/ "operations" \in enabled /\ Premium!OperationsNext
  /\ UNCHANGED enabled

MoneySpec == MoneyInit /\ [][MoneyNext]_<<enabled, records>>

-----------------------------------------------------------------------------
\* Every sum the money-keeping engines hand out is the sum of what they keep:
\* no time entry is billed twice, no invoice overpaid, no credit spent twice
\* (InvoiceIssue and payment-record of finance, finalize-invoice of metering,
\* journal-post and payment-record of operations).
MoneyAddsUp ==
  /\ Has("finance")    => Finance!BooksBalance
  /\ Has("metering")   => Metering!CreditsAddUp
  /\ Has("operations") => Premium!LedgerAddsUp

\* The inductive form of MoneyAddsUp.
MoneyInvariant ==
  /\ \E m \in Offered : enabled = {m}
  /\ Has("finance")    => Finance!BooksInvariant
  /\ Has("metering")   => Metering!CreditsInvariant
  /\ Has("operations") => Premium!LedgerInvariant

-----------------------------------------------------------------------------
(* Agreement: consent and notify (the additive engine), email, live (the   *)
(* extended engine), testimonials (the growth engine).                     *)

CONSTANTS            \* the parameters of the engines
  Site, Domain, NoDomain, Visitor, VisitorRequest,                                    \* consent
  MaxChallenges, MaxRevisions, MaxReceipts, MaxScans,
  Address, MailEvent, Reason, Final, MailHorizon,                                     \* email
  MaxAudiences, MaxSuppressions, MaxCampaigns, MaxDrafts, MaxPlans, MaxMailVersion,
  Subscriber, Topic, Event, Field, Workflow, MaxRecords,                              \* notify
  Presenter, Attendee, Creator, Kind, Visibility, ConsentRequired, LiveHorizon,       \* live
  MaxGrants, MaxAccesses, MaxConsents, MaxMessages, MaxLiveVersion,
  Reference, WidgetKey, Expiry, TestimonialHorizon,                                   \* testimonials
  MaxRequests, MaxTestimonials, MaxPublications, MaxWidgets

\* Clocks count from zero.
ASSUME AgreementAssumption == MailHorizon \in Nat /\ LiveHorizon \in Nat

Consent == INSTANCE Consent WITH Request <- VisitorRequest
Email == INSTANCE Email WITH
  Event <- MailEvent, Horizon <- MailHorizon, MaxVersion <- MaxMailVersion
Notify == INSTANCE SeoNotify WITH
  Site <- {}, Origin <- {}, Query <- {}, NoOrigin <- "none", Ceiling <- 0, Day <- 0
LiveAssurance == INSTANCE LiveAssurance WITH
  Horizon <- LiveHorizon, MaxVersion <- MaxLiveVersion,
  Admin <- "o", Person <- {"u"}, ProgramKey <- {"k"}, ControlKey <- {"c"}, Classification <- {0, 3},
  MaxPrograms <- 1, MaxSubjects <- 2, MaxRisks <- 2, MaxControls <- 1, MaxMappings <- 2, MaxRecords <- 0
Growth == INSTANCE Growth WITH
  Horizon <- TestimonialHorizon, Source <- {"reference"} \X Reference,
  Participant <- {"p", "q"}, BonusCap <- 1, ClosesAt <- 1, MaxEntries <- 2,
  MaxSignals <- 1, MaxDecisions <- 1, MaxSnapshots <- 2,
  Slug <- {"s"}, LinkKey <- {"k"}, MaxRoutes <- 2, MaxDestinations <- 1, MaxVersions <- 3

AgreementInit ==
  \E m \in Offered :
    /\ enabled = {m}
    /\ \/ m = "consent"      /\ Consent!Init
       \/ m = "email"        /\ Email!Init
       \/ m = "notify"       /\ Notify!NotifyInit
       \/ m = "live"         /\ LiveAssurance!LiveInit
       \/ m = "testimonials" /\ Growth!TestimonialsInit

\* A command of the enabled module, in the engine that serves it.
AgreementNext ==
  /\ \/ "consent"      \in enabled /\ Consent!Next
     \/ "email"        \in enabled /\ Email!Next
     \/ "notify"       \in enabled /\ Notify!NotifyNext
     \/ "live"         \in enabled /\ LiveAssurance!LiveNext
     \/ "testimonials" \in enabled /\ Growth!TestimonialsNext
  /\ UNCHANGED enabled

AgreementSpec == AgreementInit /\ [][AgreementNext]_<<enabled, records>>

-----------------------------------------------------------------------------
\* Nothing reaches or records a person who has not agreed to it: mail,
\* notifications, recordings, testimonials on a public page, consent receipts
\* bound to a published policy.
OnlyWithConsent ==
  /\ Has("consent")      => Consent!PublishedIsProven /\ Consent!ReceiptsAreChained
  /\ Has("email")        => Email!MailIsConsented
  /\ Has("notify")       => Notify!PreferencesHonoured
  /\ Has("live")         => LiveAssurance!RecordedWithConsent
  /\ Has("testimonials") => Growth!ShownIsConsented

\* The inductive form of OnlyWithConsent.
AgreementInvariant ==
  /\ \E m \in Offered : enabled = {m}
  /\ Has("consent")      => Consent!ConsentInvariant
  /\ Has("email")        => Email!MailInvariant
  /\ Has("notify")       => Notify!NotifyInvariant
  /\ Has("live")         => LiveAssurance!LiveInvariant
  /\ Has("testimonials") => Growth!TestimonialsInvariant

-----------------------------------------------------------------------------
(* Once: events and people (the extended engine), schedule (the schedule   *)
(* engine), the command protocol of every engine, and the store below them *)
(* with both its back ends.                                                *)

CONSTANTS
  ProviderReceipt,                                                                      \* of a provider
  SeatQuantity, SeatPrice, Refund, Seats, EventHorizon, SalesEnd, StartsAt,             \* events
  MaxTypes, MaxReservations, MaxRefundRequests, MaxEventVersion,
  Slug, Duration, ScheduleHorizon, BookingPage, MaxHosts, MaxSchedules,                 \* schedule
  MaxReleases, MaxBookings, MaxBookingVersion,
  Owner, Employee, Interval, PolicyKey, Cycle, Privacy,                                 \* people
  PeopleHorizon, MaxPeopleRecords, MaxEach,
  Engines, Other, Role, CommandKey, HumanDecision, NoDecision, FreshFor, CommandHorizon, \* commands
  MaxCommandReceipts, MaxCommandVersion,
  Backend, Guest, StoreRequest, RecordLimit, StorageLimit, ObjectSize,                  \* the store
  MaxStored, MaxStoredVersion

\* Seats, amounts, sizes and clocks are natural numbers, no page has the number
\* of none, and a higher plan allows no less.
ASSUME OnceAssumption ==
  /\ SeatQuantity \subseteq Nat /\ SeatPrice \subseteq Nat /\ Refund \subseteq Nat /\ Seats \in Nat
  /\ EventHorizon \in Nat /\ ScheduleHorizon \in Nat /\ PeopleHorizon \in Nat /\ CommandHorizon \in Nat /\ FreshFor \in Nat
  /\ 0 \notin BookingPage
  /\ Backend \subseteq {"postgres", "memory"} /\ ObjectSize \subseteq Nat /\ DOMAIN RecordLimit \subseteq Nat
  /\ RecordLimit \in [DOMAIN RecordLimit -> Nat] /\ StorageLimit \in [DOMAIN RecordLimit -> Nat]
  /\ \A p, q \in DOMAIN RecordLimit :
       p <= q => RecordLimit[p] <= RecordLimit[q] /\ StorageLimit[p] <= StorageLimit[q]

Events == INSTANCE Events WITH
  Receipt <- ProviderReceipt, Quantity <- SeatQuantity, Price <- SeatPrice, Amount <- Refund, Capacity <- Seats,
  Horizon <- EventHorizon, MaxRequests <- MaxRefundRequests, MaxVersion <- MaxEventVersion
Schedule == INSTANCE Schedule WITH
  Page <- BookingPage, Horizon <- ScheduleHorizon, MaxRevisions <- MaxSchedules, MaxVersion <- MaxBookingVersion
People == INSTANCE People WITH Receipt <- ProviderReceipt, Horizon <- PeopleHorizon, MaxRecords <- MaxPeopleRecords
Commands == INSTANCE Commands WITH
  Decision <- HumanDecision, Fresh <- FreshFor,
  Key <- CommandKey, Horizon <- CommandHorizon, MaxReceipts <- MaxCommandReceipts, MaxVersion <- MaxCommandVersion
Store == INSTANCE SuiteStore WITH
  Visitor <- Guest, Request <- StoreRequest, Size <- ObjectSize, MaxRecords <- MaxStored, MaxVersion <- MaxStoredVersion

OnceInit ==
  \E m \in Offered :
    /\ enabled = {m}
    /\ \/ m = "events"   /\ Events!Init
       \/ m = "schedule" /\ Schedule!Init
       \/ m = "people"   /\ People!Init
       \/ m = "commands" /\ Commands!Init
       \/ m = "store"    /\ Store!Init

OnceNext ==
  /\ \/ "events"   \in enabled /\ Events!Next
     \/ "schedule" \in enabled /\ Schedule!Next
     \/ "people"   \in enabled /\ People!Next
     \/ "commands" \in enabled /\ Commands!Next
     \/ "store"    \in enabled /\ Store!Next
  /\ UNCHANGED enabled

OnceSpec == OnceInit /\ [][OnceNext]_<<enabled, records>>

-----------------------------------------------------------------------------
\* What exists once is given out once, however holds lapse and requests are
\* repeated: a seat of an event, an hour of a host, a day of leave or a cycle's
\* payroll evidence, a command's effect, a human decision, the last room under
\* a quota.
NothingTwice ==
  /\ Has("events")   => Events!NothingSoldTwice
  /\ Has("schedule") => Schedule!HostsAreNotDoubleBooked /\ Schedule!VisitorsBookOnce
  /\ Has("people")   => People!DecidedOnce
  /\ Has("commands") => Commands!EachCommandOnce
  /\ Has("store")    => Store!CreatedWithinQuota

\* The inductive form of NothingTwice.
OnceInvariant ==
  /\ \E m \in Offered : enabled = {m}
  /\ Has("events")   => Events!EventsInvariant
  /\ Has("schedule") => Schedule!ScheduleInvariant
  /\ Has("people")   => People!PeopleInvariant
  /\ Has("commands") => Commands!CommandsInvariant
  /\ Has("store")    => Store!StoreInvariant
=============================================================================
