------------------------- MODULE CheckoutCapacity -------------------------
(***************************************************************************)
(* The paid-checkout core of the control plane: capacity holds, Stripe     *)
(* Checkout, the paid webhook, recoveries of payments that arrive after    *)
(* their hold expired, durable quota allocations, and the subscription     *)
(* rows that entitle a server.                                             *)
(*                                                                         *)
(* Every repository method is one database transaction and one action.     *)
(* Placing methods take one PostgreSQL advisory lock, so they do not       *)
(* interleave.  BillingService.checkout and the upgrade route are several  *)
(* transactions and calls: each await is a step of its own.                *)
(***************************************************************************)
EXTENDS Placement

CONSTANTS
  Installation,   \* servers
  Key,            \* checkout idempotency keys; a key is its hold, session and subscription
  App,            \* application instances that exist or may be cloned
  Worker,         \* worker nodes
  Plan,           \* configured plans
  NoWorker, NoPlan, NoListing,
  ServerOf,       \* the installation each key asks for
  HostOf,         \* the installation each application belongs to
  InitialApps,    \* the applications the installations are created with
  InitialPlan,
  Demand, Capacity, Quota,
  ProviderStatus, \* the statuses Stripe may report
  MaxFaults       \* bound on the failures and provider changes of a behaviour

ASSUME ConstantsAreWellTyped ==
  /\ ServerOf \in [Key -> Installation]
  /\ HostOf \in [App -> Installation]
  /\ App \subseteq Nat /\ Worker \subseteq Nat
  /\ InitialApps \subseteq App
  /\ InitialPlan \in Plan
  /\ NoWorker \notin Worker /\ NoPlan \notin Plan
  /\ {"active", "canceled"} \subseteq ProviderStatus
  /\ ProviderStatus \subseteq {"active", "past_due", "canceled"}
  /\ NoListing \notin [Key -> ProviderStatus \cup {"none"}]
  /\ MaxFaults \in Nat

ASSUME QuantitiesAreWellTyped ==
  /\ IsFiniteSet(InitialApps)
  /\ Demand \in [App -> Vector(Nat \ {0})]
  /\ Capacity \in [Worker -> Vector(Nat)]
  /\ Quota \in [Plan -> [memory : Nat, cpu : Nat, storage : Nat, services : Nat]]

VARIABLES
  hold,       \* checkout_capacity_holds.state of each key
  lapsed,     \* keys whose hold expires_at has passed
  heldPlan,   \* the plan snapshot of the hold
  items,      \* checkout_capacity_hold_items: application -> worker
  attached,   \* keys whose hold names its Stripe session
  call,       \* the step of the checkout request in progress
  session,    \* the Stripe Checkout Session
  provider,   \* the status of the Stripe subscription
  events,     \* subscription statuses announced by Stripe and not yet acknowledged
  refund,     \* the refund of the captured payment at Stripe
  processed,  \* keys whose checkout event is in stripe_events
  sub,        \* subscriptions.status of each key's row
  recovery,   \* paid_checkout_capacity_recoveries.state
  overdue,    \* keys whose compensation deadline has passed
  alloc,      \* installation_capacity_allocations.state, by source hold
  state,      \* installations.state; "open" is provisioning, live or failed
  plan,       \* installations.plan
  apps,       \* application_instances that exist
  placed,     \* application_instances.worker_node_id
  retrieved,  \* keys whose paid webhook has retrieved an active subscription
  verdict,    \* what a subscription webhook concluded from its retrieval
  listing,    \* Stripe's subscriptions as the reconciliation pass in progress listed them
  writes,     \* the rows its comparison decided to change, and what to
  ready,      \* workers in mode ready with a heartbeat under two minutes old
  edit,       \* a plan change whose route has read the installation as planned
  faults      \* failures and provider changes so far

holdVars     == <<hold, lapsed, heldPlan, items>>
requestVars  == <<attached, call>>
stripeVars   == <<session, provider, events, refund>>
ledgerVars   == <<processed, sub, recovery, overdue, alloc>>
serverVars   == <<state, plan, apps, placed>>
webhookVars  == <<retrieved, verdict>>
passVars     == <<listing, writes>>
controlVars  == <<passVars, ready, edit, faults>>
vars == <<holdVars, requestVars, stripeVars, ledgerVars, serverVars, webhookVars, controlVars>>

HoldState     == {"none", "active", "consumed", "released", "expired"}
RecoveryState == {"none", "pending_capacity", "fulfilled", "compensation_required", "compensated"}
SubStatus     == {"none", "active", "past_due", "canceled", "inactive",
                  "paid_pending_capacity", "compensation_required"}
OpenRecovery  == {"pending_capacity", "compensation_required"}
Assignment    == UNION {[A -> Worker] : A \in SUBSET App}

TypeOK ==
  /\ hold \in [Key -> HoldState]
  /\ lapsed \subseteq Key
  /\ heldPlan \in [Key -> Plan \cup {NoPlan}]
  /\ items \in [Key -> Assignment]
  /\ attached \subseteq Key
  /\ call \in [Key -> {"idle", "held", "created"}]
  /\ session \in [Key -> {"none", "open", "paid", "gone"}]
  /\ provider \in [Key -> ProviderStatus \cup {"none"}]
  /\ events \in [Key -> SUBSET ProviderStatus]
  /\ refund \in [Key -> {"none", "pending", "failed", "confirmed"}]
  /\ processed \subseteq Key
  /\ sub \in [Key -> SubStatus]
  /\ recovery \in [Key -> RecoveryState]
  /\ overdue \subseteq Key
  /\ alloc \in [Key -> {"none", "active", "suspended"}]
  /\ state \in [Installation -> {"planned", "open", "suspended"}]
  /\ plan \in [Installation -> Plan]
  /\ apps \subseteq App
  /\ placed \in [App -> Worker \cup {NoWorker}]
  /\ retrieved \subseteq Key
  /\ verdict \in [Key -> {"none", "active", "inactive"}]
  /\ listing \in [Key -> ProviderStatus \cup {"none"}] \cup {NoListing}
  /\ writes \in UNION {[K -> SubStatus] : K \in SUBSET Key}
  /\ ready \subseteq Worker
  /\ edit \in [Installation -> Plan \cup {NoPlan}]
  /\ faults \in 0..MaxFaults

-----------------------------------------------------------------------------
(* Capacity *)

AppsOf(i) == {a \in apps : HostOf[a] = i}
KeysOf(i) == {k \in Key : ServerOf[k] = i}

\* An active hold counts until its expiry, swept or not.
Counts(k) == hold[k] = "active" /\ k \notin lapsed

\* committedWorkerCapacitySql: assigned reservations plus the items of
\* counting holds.
Committed(w, d) ==
  Load({a \in apps : placed[a] = w}, Demand, d)
    + MapThenSumSet(LAMBDA k : Load({a \in DOMAIN items[k] : items[k][a] = w}, Demand, d),
                    {k \in Key : Counts(k)})

Free == [w \in Worker |-> [d \in Dimension |-> Capacity[w][d] - Committed(w, d)]]

\* Where a set of applications would go on the recently healthy workers.
Placement(A) == Placements(A, ready, Demand, Free)

\* Mutant of Swept: holds expire, and nobody records it.
SweptNever == hold

\* Every transaction that places, and every read of a hold, first records the
\* expiry of the holds whose time has passed.
Swept == [k \in Key |-> IF hold[k] = "active" /\ k \in lapsed THEN "expired" ELSE hold[k]]

ActiveHoldOn(i) == \E k \in KeysOf(i) : Swept[k] = "active"

\* Mutant of SnapshotHolds: the quote is compared, the server's progress is not.
SnapshotQuoteHolds(k) ==
  plan[ServerOf[k]] = heldPlan[k] /\ AppsOf(ServerOf[k]) = DOMAIN items[k]

\* The installation is still exactly what the hold of k was acquired for.
SnapshotHolds(k) ==
  LET i == ServerOf[k]
  IN /\ state[i] = "planned"
     /\ plan[i] = heldPlan[k]
     /\ AppsOf(i) = DOMAIN items[k]
     /\ \A a \in AppsOf(i) : placed[a] = NoWorker

\* placement asg is made durable
Place(asg) == placed' = [a \in App |-> IF a \in DOMAIN asg THEN asg[a] ELSE placed[a]]

-----------------------------------------------------------------------------
(* Entitlement *)

\* A server is entitled by any active subscription row (trialing is active here).
Entitled(i, rows) == \E k \in KeysOf(i) : rows[k] = "active"

\* synchronizeCapacityAllocationEntitlement and the installation updates that
\* follow it, for the installations S and the new subscription rows.
SynchronizeEntitlement(S, rows) ==
  /\ sub' = rows
  /\ alloc' = [k \in Key |->
       IF ServerOf[k] \in S /\ alloc[k] # "none"
         THEN IF Entitled(ServerOf[k], rows) THEN "active" ELSE "suspended"
         ELSE alloc[k]]
  /\ state' = [i \in Installation |->
       IF i \notin S THEN state[i]
       ELSE IF ~Entitled(i, rows) THEN "suspended"
       ELSE IF state[i] = "suspended" THEN "open" ELSE state[i]]

-----------------------------------------------------------------------------
\* What fails or changes outside the control plane, at most MaxFaults times.
Fault == faults < MaxFaults /\ faults' = faults + 1

NoItems  == [a \in {} |-> NoWorker]
NoWrites == [k \in {} |-> "none"]

Init ==
  /\ hold = [k \in Key |-> "none"]
  /\ lapsed = {}
  /\ heldPlan = [k \in Key |-> NoPlan]
  /\ items = [k \in Key |-> NoItems]
  /\ attached = {}
  /\ call = [k \in Key |-> "idle"]
  /\ session = [k \in Key |-> "none"]
  /\ provider = [k \in Key |-> "none"]
  /\ events = [k \in Key |-> {}]
  /\ refund = [k \in Key |-> "none"]
  /\ processed = {}
  /\ sub = [k \in Key |-> "none"]
  /\ recovery = [k \in Key |-> "none"]
  /\ overdue = {}
  /\ alloc = [k \in Key |-> "none"]
  /\ state = [i \in Installation |-> "planned"]
  /\ plan = [i \in Installation |-> InitialPlan]
  /\ apps = InitialApps
  /\ placed = [a \in App |-> NoWorker]
  /\ retrieved = {}
  /\ verdict = [k \in Key |-> "none"]
  /\ listing = NoListing
  /\ writes = NoWrites
  /\ ready = Worker
  /\ edit = [i \in Installation |-> NoPlan]
  /\ faults = 0

-----------------------------------------------------------------------------
(* BillingService.checkout *)

\* acquireCheckoutCapacityHold for a key that has no hold yet.
AcquireCheckoutCapacityHold(k) ==
  LET i == ServerOf[k]
  IN /\ call[k] = "idle" /\ hold[k] = "none"
     /\ state[i] = "planned"
     /\ ~ActiveHoldOn(i)
     /\ \A a \in AppsOf(i) : placed[a] = NoWorker
     /\ EnvelopeFits(AppsOf(i), Demand, Quota[plan[i]])
     /\ ready # {}
     /\ \E asg \in Placement(AppsOf(i)) :
          /\ hold' = [Swept EXCEPT ![k] = "active"]
          /\ items' = [items EXCEPT ![k] = asg]
          /\ heldPlan' = [heldPlan EXCEPT ![k] = plan[i]]
     /\ call' = [call EXCEPT ![k] = "held"]
     /\ UNCHANGED <<lapsed, attached, stripeVars, ledgerVars, serverVars, webhookVars, controlVars>>

\* The same call for a key that has one: an idempotent replay continues with
\* the active hold it finds; a terminal hold ends the request.
ReplayCheckoutCapacityHold(k) ==
  LET i == ServerOf[k]
  IN /\ call[k] = "idle" /\ hold[k] # "none"
     /\ state[i] = "planned"
     /\ plan[i] = heldPlan[k] /\ AppsOf(i) = DOMAIN items[k]
     /\ hold' = Swept
     /\ call' = [call EXCEPT ![k] = IF Swept[k] = "active" THEN "held" ELSE "idle"]
     /\ UNCHANGED <<lapsed, heldPlan, items, attached, stripeVars, ledgerVars, serverVars, webhookVars, controlVars>>

\* Mutant of Released: the state of the hold is not looked at.
ReleasedWhateverState(k) == [hold EXCEPT ![k] = "released"]

\* releaseCheckoutCapacityHold
Released(k) == [hold EXCEPT ![k] = IF @ = "active" THEN "released" ELSE @]

\* Stripe answers createCheckout; a repeated key returns the session it made.
CreateCheckout(k) ==
  /\ call[k] = "held"
  /\ session' = [session EXCEPT ![k] = IF @ = "none" THEN "open" ELSE @]
  /\ call' = [call EXCEPT ![k] = "created"]
  /\ UNCHANGED <<holdVars, attached, provider, events, refund, ledgerVars, serverVars, webhookVars, controlVars>>

\* createCustomer or createCheckout throws, Stripe having made the session or
\* not: the hold is released.
CreateCheckoutFails(k) ==
  /\ call[k] = "held"
  /\ \/ UNCHANGED session
     \/ session[k] = "none" /\ session' = [session EXCEPT ![k] = "open"]
  /\ hold' = Released(k)
  /\ call' = [call EXCEPT ![k] = "idle"]
  /\ Fault
  /\ UNCHANGED <<lapsed, heldPlan, items, attached, provider, events, refund, ledgerVars,
                 serverVars, webhookVars, passVars, ready, edit>>

Bindable(k) == hold[k] = "active" /\ k \notin lapsed /\ session[k] \in {"open", "paid"}

\* attachCheckoutSession binds the session, and the customer gets its URL.
AttachCheckoutSession(k) ==
  /\ call[k] = "created" /\ Bindable(k)
  /\ attached' = attached \cup {k}
  /\ call' = [call EXCEPT ![k] = "idle"]
  /\ UNCHANGED <<holdVars, stripeVars, ledgerVars, serverVars, webhookVars, controlVars>>

\* The attach is refused, or fails: the session is expired at Stripe and the
\* hold released; a session that Stripe will not expire keeps its hold.
AttachCheckoutSessionFails(k) ==
  /\ call[k] = "created"
  /\ IF Bindable(k) THEN Fault ELSE UNCHANGED faults
  /\ IF session[k] = "open"
       THEN session' = [session EXCEPT ![k] = "gone"] /\ hold' = Released(k)
       ELSE UNCHANGED <<session, hold>>
  /\ call' = [call EXCEPT ![k] = "idle"]
  /\ UNCHANGED <<lapsed, heldPlan, items, attached, provider, events, refund, ledgerVars,
                 serverVars, webhookVars, passVars, ready, edit>>

\* The server dies between two steps of a request, or Stripe does not confirm
\* that a session it could not bind is expired.
RequestDies(k) ==
  /\ call[k] # "idle"
  /\ call' = [call EXCEPT ![k] = "idle"]
  /\ Fault
  /\ UNCHANGED <<holdVars, attached, stripeVars, ledgerVars, serverVars, webhookVars, passVars, ready, edit>>

\* expireCheckoutCapacityHolds, run by every read of holds.
ExpireCheckoutCapacityHolds ==
  /\ hold # Swept
  /\ hold' = Swept
  /\ UNCHANGED <<lapsed, heldPlan, items, requestVars, stripeVars, ledgerVars, serverVars, webhookVars, controlVars>>

-----------------------------------------------------------------------------
(* Time, the customer and Stripe *)

\* expires_at of an active hold passes.  attachCheckoutSession requires the session to expire no
\* later than the hold, so a bound session is closed by then.
HoldLapses(k) ==
  /\ hold[k] = "active" /\ k \notin lapsed
  /\ ~(session[k] = "open" /\ k \in attached)
  /\ lapsed' = lapsed \cup {k}
  /\ UNCHANGED <<hold, heldPlan, items, requestVars, stripeVars, ledgerVars, serverVars, webhookVars, controlVars>>

SessionExpires(k) ==
  /\ session[k] = "open"
  /\ session' = [session EXCEPT ![k] = "gone"]
  /\ UNCHANGED <<holdVars, requestVars, provider, events, refund, ledgerVars, serverVars, webhookVars, controlVars>>

\* Stripe announces a new subscription status.
Announce(k, s) ==
  /\ provider' = [provider EXCEPT ![k] = s]
  /\ events' = [events EXCEPT ![k] = @ \cup {s}]

\* The customer, who has the URL of a bound session only, pays.
Pay(k) ==
  /\ session[k] = "open" /\ k \in attached
  /\ session' = [session EXCEPT ![k] = "paid"]
  /\ Announce(k, "active")
  /\ UNCHANGED <<holdVars, requestVars, refund, ledgerVars, serverVars, webhookVars, controlVars>>

\* A renewal fails or is retried, or the subscription is canceled, for good.
ProviderChanges(k, s) ==
  /\ provider[k] \notin {"none", "canceled", s}
  /\ Announce(k, s)
  /\ Fault
  /\ UNCHANGED <<holdVars, requestVars, session, refund, ledgerVars, serverVars, webhookVars, passVars, ready, edit>>

\* compensation_deadline_at passes.
DeadlinePasses(k) ==
  /\ recovery[k] = "pending_capacity" /\ k \notin overdue
  /\ overdue' = overdue \cup {k}
  /\ UNCHANGED <<holdVars, requestVars, stripeVars, processed, sub, recovery, alloc, serverVars, webhookVars, controlVars>>

\* A worker stops sending heartbeats or is drained, and comes back.
WorkerChanges(w) ==
  /\ \/ w \in ready /\ ready' = ready \ {w} /\ Fault
     \/ w \notin ready /\ ready' = ready \cup {w} /\ UNCHANGED faults
  /\ UNCHANGED <<holdVars, requestVars, stripeVars, ledgerVars, serverVars, webhookVars, passVars, edit>>

-----------------------------------------------------------------------------
(* The paid webhook: BillingService.webhook and processPaidCheckout *)

\* A signed checkout.session.completed for a hold that is active or expired:
\* the subscription is retrieved and must be active.  The transaction that
\* follows does not look at Stripe again.
PaidWebhookRetrieves(k) ==
  /\ session[k] = "paid" /\ k \in attached
  /\ k \notin processed /\ k \notin retrieved
  /\ state[ServerOf[k]] = "planned" /\ plan[ServerOf[k]] = heldPlan[k]
  /\ Swept[k] \in {"active", "expired"}
  /\ provider[k] = "active"
  /\ hold' = Swept
  /\ retrieved' = retrieved \cup {k}
  /\ UNCHANGED <<lapsed, heldPlan, items, requestVars, stripeVars, ledgerVars, serverVars, verdict, controlVars>>

\* What processPaidCheckout checks again, on the first processing of an event,
\* besides the state of the hold.
PaidEvidence(k) ==
  /\ k \in retrieved /\ k \notin processed
  /\ k \in attached
  /\ SnapshotHolds(k)
  /\ sub[k] = "none"

FitsNowhere(A) == ready = {} \/ Placement(A) = {}

\* One open obligation per installation (the unique index of migration 013).
ObligationOpenOn(i) == \E j \in KeysOf(i) : recovery[j] \in OpenRecovery

\* The checks of the transaction pass, and it has somewhere to go.
PaidEventSettles(k) ==
  /\ PaidEvidence(k)
  /\ \/ Swept[k] = "active"
     \/ /\ Swept[k] = "expired"
        /\ FitsNowhere(DOMAIN items[k]) => ~ObligationOpenOn(ServerOf[k])

\* The transaction throws, for want of evidence or because the database fails,
\* and Stripe will deliver the event again.
PaidWebhookFails(k) ==
  /\ k \in retrieved
  /\ retrieved' = retrieved \ {k}
  /\ IF PaidEventSettles(k) THEN Fault ELSE UNCHANGED faults
  /\ UNCHANGED <<holdVars, requestVars, stripeVars, ledgerVars, serverVars, verdict, passVars, ready, edit>>

\* What the three outcomes have in common: the event is recorded in the same
\* transaction.  A second delivery of it may still be on its way here.
RecordPaidEvent(k) ==
  /\ processed' = processed \cup {k}
  /\ \/ retrieved' = retrieved \ {k} /\ UNCHANGED faults
     \/ Fault /\ UNCHANGED retrieved
  /\ UNCHANGED <<lapsed, heldPlan, items, requestVars, stripeVars, overdue, plan, apps, verdict,
                 passVars, ready, edit>>

\* The quota, the placement and the entitled row are created together.
Provision(k, asg) ==
  /\ alloc' = [alloc EXCEPT ![k] = "active"]
  /\ sub' = [sub EXCEPT ![k] = "active"]
  /\ state' = [state EXCEPT ![ServerOf[k]] = "open"]
  /\ Place(asg)

\* The hold is still active: its own assignment becomes the placement.
ProcessPaidCheckout(k) ==
  /\ PaidEvidence(k) /\ Swept[k] = "active"
  /\ hold' = [Swept EXCEPT ![k] = "consumed"]
  /\ Provision(k, items[k])
  /\ UNCHANGED recovery
  /\ RecordPaidEvent(k)

\* The hold has expired and the applications fit the pool of now.
ProcessLatePaidCheckout(k) ==
  /\ PaidEvidence(k) /\ Swept[k] = "expired"
  /\ ready # {}
  /\ hold' = Swept
  /\ recovery' = [recovery EXCEPT ![k] = "fulfilled"]
  /\ \E asg \in Placement(DOMAIN items[k]) : Provision(k, asg)
  /\ RecordPaidEvent(k)

\* It has expired and they do not fit: the payment becomes an obligation.
DeferLatePaidCheckout(k) ==
  /\ PaidEvidence(k) /\ Swept[k] = "expired"
  /\ FitsNowhere(DOMAIN items[k]) /\ ~ObligationOpenOn(ServerOf[k])
  /\ hold' = Swept
  /\ recovery' = [recovery EXCEPT ![k] = "pending_capacity"]
  /\ sub' = [sub EXCEPT ![k] = "paid_pending_capacity"]
  /\ UNCHANGED <<alloc, state, placed>>
  /\ RecordPaidEvent(k)

-----------------------------------------------------------------------------
(* Subscription webhooks: customer.subscription.updated and .deleted *)

\* An active status is believed only if Stripe still reports it, at the price
\* of the installation's plan; otherwise the row is quarantined as inactive.
SubscriptionWebhookRetrieves(k) ==
  /\ "active" \in events[k] /\ sub[k] # "none" /\ verdict[k] = "none"
  /\ verdict' = [verdict EXCEPT ![k] =
       IF provider[k] = "active" /\ plan[ServerOf[k]] = heldPlan[k] THEN "active" ELSE "inactive"]
  /\ UNCHANGED <<holdVars, requestVars, stripeVars, ledgerVars, serverVars, retrieved, controlVars>>

\* Mutant of UpdateSubscriptionStatus: the row changes and nothing follows.
UpdateSubscriptionRow(k, s) ==
  /\ sub' = [sub EXCEPT ![k] = s]
  /\ UNCHANGED <<holdVars, requestVars, session, provider, refund, processed, recovery, overdue,
                 alloc, serverVars, retrieved, passVars, ready, edit>>

\* updateSubscriptionStatus.  It commits before markStripeEventProcessed, so
\* the event may be delivered again.
UpdateSubscriptionStatus(k, s) ==
  /\ SynchronizeEntitlement({ServerOf[k]}, [sub EXCEPT ![k] = s])
  /\ UNCHANGED <<holdVars, requestVars, session, provider, refund, processed, recovery, overdue,
                 plan, apps, placed, retrieved, passVars, ready, edit>>

\* markStripeEventProcessed, unless the server dies before it.
Acknowledge(k, s) == \/ events' = [events EXCEPT ![k] = @ \ {s}] /\ UNCHANGED faults
                     \/ Fault /\ UNCHANGED events

\* The webhook of an active status commits what its retrieval concluded.
ActiveSubscriptionWebhook(k) ==
  /\ verdict[k] # "none"
  /\ UpdateSubscriptionStatus(k, verdict[k])
  /\ Acknowledge(k, "active")
  /\ verdict' = [verdict EXCEPT ![k] = "none"]

\* Any other status is applied as announced, without asking Stripe.
InactiveSubscriptionWebhook(k, s) ==
  /\ s \in events[k] /\ s # "active" /\ sub[k] # "none"
  /\ UpdateSubscriptionStatus(k, s)
  /\ Acknowledge(k, s)
  /\ UNCHANGED verdict

-----------------------------------------------------------------------------
(* The scheduled reconciliation pass: reconcileSubscriptions in apply mode. *)
(* Its steps use the listing the pass began with, the ledgers as they are.  *)

BeginPass ==
  /\ listing = NoListing /\ writes = NoWrites
  /\ listing' = provider
  /\ UNCHANGED <<holdVars, requestVars, stripeVars, ledgerVars, serverVars, webhookVars, writes, ready,
                 edit, faults>>

InPass == listing # NoListing

\* Past the deadline both ledgers move to compensation_required together, or
\* the code throws.  The retry of an overdue recovery does the same.
AdvancePaidCheckoutCapacityRecovery(k) ==
  /\ InPass
  /\ recovery[k] = "pending_capacity" /\ k \in overdue
  /\ sub[k] = "paid_pending_capacity"
  /\ recovery' = [recovery EXCEPT ![k] = "compensation_required"]
  /\ sub' = [sub EXCEPT ![k] = "compensation_required"]
  /\ UNCHANGED <<holdVars, requestVars, stripeVars, processed, overdue, alloc, serverVars, webhookVars,
                 controlVars>>

NoAllocationOn(i) == \A k \in KeysOf(i) : alloc[k] = "none"

\* Mutant of RetryEvidence: an obligation is retried until it is settled.
RetryEvidenceOfAnyOpen(k) ==
  /\ recovery[k] \in OpenRecovery
  /\ hold[k] = "expired" /\ SnapshotHolds(k) /\ NoAllocationOn(ServerOf[k])

\* What the retry checks of the obligation before it places anything.
RetryEvidence(k) ==
  /\ recovery[k] = "pending_capacity" /\ k \notin overdue
  /\ hold[k] = "expired" /\ SnapshotHolds(k) /\ NoAllocationOn(ServerOf[k])
  /\ sub[k] = "paid_pending_capacity"

\* retryPaidCheckoutCapacityRecovery, for a subscription the pass listed as
\* active: place what now fits.  An attempt that fits nowhere changes nothing
\* but its attempt counter.
RetryPaidCheckoutCapacityRecovery(k) ==
  /\ InPass /\ listing[k] = "active"
  /\ RetryEvidence(k)
  /\ ready # {}
  /\ \E asg \in Placement(DOMAIN items[k]) : Provision(k, asg)
  /\ recovery' = [recovery EXCEPT ![k] = "fulfilled"]
  /\ UNCHANGED <<holdVars, requestVars, stripeVars, processed, overdue, plan, apps, webhookVars, controlVars>>

\* Mutant of CancelAtStripe: only a running subscription can be compensated.
CancelRunning(k) == provider[k] # "canceled" /\ Announce(k, "canceled")

CancelAtStripe(k) ==
  IF provider[k] = "canceled" THEN UNCHANGED <<provider, events>> ELSE Announce(k, "canceled")

\* compensatePaidCapacity: cancel at Stripe, then refund what was captured; the
\* refund is confirmed at once or left pending.
CompensatePaidCapacity(k) ==
  /\ InPass
  /\ recovery[k] = "compensation_required" /\ refund[k] = "none"
  /\ CancelAtStripe(k)
  /\ \E r \in {"pending", "confirmed"} : refund' = [refund EXCEPT ![k] = r]
  /\ UNCHANGED <<holdVars, requestVars, session, ledgerVars, serverVars, webhookVars, controlVars>>

\* Stripe settles a pending refund.
RefundSettles(k) ==
  /\ refund[k] = "pending"
  /\ \E r \in {"failed", "confirmed"} : refund' = [refund EXCEPT ![k] = r]
  /\ UNCHANGED <<holdVars, requestVars, session, provider, events, ledgerVars, serverVars, webhookVars,
                 controlVars>>

\* markPaidCheckoutCapacityCompensated, after a confirmed compensation.
MarkPaidCheckoutCapacityCompensated(k) ==
  /\ InPass
  /\ recovery[k] = "compensation_required" /\ refund[k] = "confirmed"
  /\ sub[k] = "compensation_required"
  /\ recovery' = [recovery EXCEPT ![k] = "compensated"]
  /\ sub' = [sub EXCEPT ![k] = "canceled"]
  /\ UNCHANGED <<holdVars, requestVars, stripeVars, processed, overdue, alloc, serverVars, webhookVars,
                 controlVars>>

\* Rows on which a call of the pass throws.  A throw ends the whole pass, for
\* every customer, before its final comparison.  (A row that would throw only
\* after its visit makes no difference: the comparison leaves it alone.)
AdvanceThrows(k) ==
  recovery[k] = "pending_capacity" /\ k \in overdue /\ sub[k] # "paid_pending_capacity"
RetryThrows(k) ==
  /\ InPass /\ listing[k] = "active"
  /\ recovery[k] = "pending_capacity" /\ k \notin overdue
  /\ \/ ~SnapshotHolds(k)
     \/ ~NoAllocationOn(ServerOf[k])
     \/ sub[k] # "paid_pending_capacity" /\ ~FitsNowhere(DOMAIN items[k])
CompensationThrows(k) ==
  /\ recovery[k] = "compensation_required"
  /\ \/ refund[k] = "failed"
     \/ refund[k] = "confirmed" /\ sub[k] # "compensation_required"

PassCompletes == \A k \in Key : ~AdvanceThrows(k) /\ ~RetryThrows(k) /\ ~CompensationThrows(k)

\* Mutant of LeftToRecovery: fulfilled recoveries are skipped as well.
LeftToAnyRecovery(k) == sub[k] # "none" /\ recovery[k] # "none"

\* A row with an unsettled or compensated recovery.
LeftToRecovery(k) == sub[k] # "none" /\ recovery[k] \in OpenRecovery \cup {"compensated"}

\* The row the final comparison with Stripe's listing wants for k: one left to
\* its recovery stays; a price that is not the plan's, or a subscription that
\* is not listed, deactivates it; otherwise Stripe's status is stored.
ReconciledStatus(k) ==
  IF LeftToRecovery(k) THEN sub[k]
  ELSE IF listing[k] = "none" \/ plan[ServerOf[k]] # heldPlan[k]
    THEN IF sub[k] = "none" THEN "none" ELSE "inactive"
  ELSE listing[k]

\* The final comparison of the pass decides which rows to change.  Its reads
\* and its writes are separate transactions: a webhook may commit in between.
CompareWithListing ==
  /\ InPass /\ PassCompletes
  /\ writes' = [k \in {j \in Key : ReconciledStatus(j) # sub[j]} |-> ReconciledStatus(k)]
  /\ listing' = NoListing
  /\ UNCHANGED <<holdVars, requestVars, stripeVars, ledgerVars, serverVars, webhookVars, ready, edit, faults>>

\* applySubscriptionReconciliation ends the pass; it leaves planned
\* installations alone.
ApplySubscriptionReconciliation ==
  LET rows == [k \in Key |-> IF k \in DOMAIN writes THEN writes[k] ELSE sub[k]]
      affected == {ServerOf[k] : k \in DOMAIN writes}
  IN /\ DOMAIN writes # {}
     /\ SynchronizeEntitlement({i \in affected : state[i] # "planned"}, rows)
     /\ writes' = NoWrites
     /\ UNCHANGED <<holdVars, requestVars, stripeVars, processed, recovery, overdue, plan, apps, placed,
                    webhookVars, listing, ready, edit, faults>>

\* A pass that throws, or whose process dies, ends there.
PassFails ==
  /\ InPass \/ DOMAIN writes # {}
  /\ IF InPass /\ ~PassCompletes THEN UNCHANGED faults ELSE Fault
  /\ listing' = NoListing /\ writes' = NoWrites
  /\ UNCHANGED <<holdVars, requestVars, stripeVars, ledgerVars, serverVars, webhookVars, ready, edit>>

-----------------------------------------------------------------------------
(* Changes the owner makes to a server *)

\* The upgrade route reads the installation as planned, finds no active hold
\* and checks the applications against the quota.
BeginPlanChange(i, p) ==
  /\ state[i] = "planned" /\ edit[i] = NoPlan
  /\ ~ActiveHoldOn(i)
  /\ EnvelopeFits(AppsOf(i), Demand, Quota[p])
  /\ hold' = Swept
  /\ edit' = [edit EXCEPT ![i] = p]
  /\ UNCHANGED <<lapsed, heldPlan, items, requestVars, stripeVars, ledgerVars, serverVars, webhookVars, passVars, ready, faults>>

\* Repository.upgrade: refused under an active hold; the state of the server is
\* not read again.
FinishPlanChange(i) ==
  /\ edit[i] # NoPlan
  /\ plan' = IF ActiveHoldOn(i) THEN plan ELSE [plan EXCEPT ![i] = edit[i]]
  /\ edit' = [edit EXCEPT ![i] = NoPlan]
  /\ hold' = Swept
  /\ UNCHANGED <<lapsed, heldPlan, items, requestVars, stripeVars, ledgerVars, state, apps, placed,
                 webhookVars, passVars, ready, faults>>

\* Mutant of CloneQuotas: the plan of the installation, allocated or not.
CloneQuotasOfInstallation(i) == {plan[i]}

\* The plans whose quota a clone on i must respect: its allocation's, or the
\* installation's while there is none.
CloneQuotas(i) ==
  LET mine == {k \in KeysOf(i) : alloc[k] # "none"}
  IN IF mine = {} THEN {plan[i]} ELSE {heldPlan[k] : k \in mine}

\* createApplicationClone: within the quota of the allocation, or of the plan
\* before there is one; placed at once when there is an allocation.
CreateApplicationClone(a) ==
  LET i == HostOf[a]
      mine == {k \in KeysOf(i) : alloc[k] # "none"}
  IN /\ a \notin apps
     /\ ~ActiveHoldOn(i)
     /\ state[i] = "planned" \/ Entitled(i, sub)
     /\ \A k \in mine : alloc[k] = "active"
     /\ \A p \in CloneQuotas(i) : EnvelopeFits(AppsOf(i) \cup {a}, Demand, Quota[p])
     /\ IF mine = {} THEN UNCHANGED placed
        ELSE \E asg \in Placement({a}) : Place(asg)
     /\ apps' = apps \cup {a}
     /\ hold' = Swept
     /\ UNCHANGED <<lapsed, heldPlan, items, requestVars, stripeVars, ledgerVars, state, plan,
                    webhookVars, controlVars>>

-----------------------------------------------------------------------------
CheckoutRequest(k) ==
  \/ AcquireCheckoutCapacityHold(k) \/ ReplayCheckoutCapacityHold(k)
  \/ CreateCheckout(k) \/ CreateCheckoutFails(k)
  \/ AttachCheckoutSession(k) \/ AttachCheckoutSessionFails(k)
  \/ RequestDies(k)

Environment(k) ==
  \/ HoldLapses(k) \/ SessionExpires(k) \/ Pay(k) \/ DeadlinePasses(k) \/ RefundSettles(k)
  \/ \E s \in ProviderStatus : ProviderChanges(k, s)

PaidWebhook(k) ==
  \/ PaidWebhookRetrieves(k) \/ PaidWebhookFails(k)
  \/ ProcessPaidCheckout(k) \/ ProcessLatePaidCheckout(k) \/ DeferLatePaidCheckout(k)

SubscriptionWebhook(k) ==
  \/ SubscriptionWebhookRetrieves(k) \/ ActiveSubscriptionWebhook(k)
  \/ \E s \in ProviderStatus : InactiveSubscriptionWebhook(k, s)

Reconciliation(k) ==
  \/ AdvancePaidCheckoutCapacityRecovery(k) \/ RetryPaidCheckoutCapacityRecovery(k)
  \/ CompensatePaidCapacity(k) \/ MarkPaidCheckoutCapacityCompensated(k)

Next ==
  \/ \E k \in Key : \/ CheckoutRequest(k) \/ Environment(k) \/ PaidWebhook(k)
                    \/ SubscriptionWebhook(k) \/ Reconciliation(k)
  \/ BeginPass \/ CompareWithListing \/ ApplySubscriptionReconciliation \/ PassFails
  \/ ExpireCheckoutCapacityHolds
  \/ \E w \in Worker : WorkerChanges(w)
  \/ \E i \in Installation : FinishPlanChange(i) \/ \E p \in Plan : BeginPlanChange(i, p)
  \/ \E a \in App : CreateApplicationClone(a)

Spec == Init /\ [][Next]_vars

\* Time passes: sessions, holds and deadlines run out.
TimeFairness ==
  \A k \in Key : WF_vars(SessionExpires(k)) /\ WF_vars(HoldLapses(k)) /\ WF_vars(DeadlinePasses(k))

\* Stripe delivers an event until it is acknowledged, and settles refunds.
DeliveryFairness ==
  \A k \in Key :
    /\ WF_vars(PaidWebhookRetrieves(k))
    /\ WF_vars(ProcessPaidCheckout(k) \/ ProcessLatePaidCheckout(k) \/ DeferLatePaidCheckout(k)
               \/ PaidWebhookFails(k))
    /\ WF_vars(SubscriptionWebhookRetrieves(k))
    /\ WF_vars(ActiveSubscriptionWebhook(k))
    /\ WF_vars(\E s \in ProviderStatus : InactiveSubscriptionWebhook(k, s))
    /\ WF_vars(RefundSettles(k))

\* The reconciliation worker runs pass after pass, and a pass visits every row.
ReconciliationFairness ==
  /\ WF_vars(BeginPass)
  /\ WF_vars(CompareWithListing \/ ApplySubscriptionReconciliation \/ PassFails)
  /\ \A k \in Key :
       /\ SF_vars(AdvancePaidCheckoutCapacityRecovery(k))
       /\ SF_vars(RetryPaidCheckoutCapacityRecovery(k))
       /\ SF_vars(CompensatePaidCapacity(k))
       /\ SF_vars(MarkPaidCheckoutCapacityCompensated(k))

FairSpec == Spec /\ TimeFairness /\ DeliveryFairness /\ ReconciliationFairness

-----------------------------------------------------------------------------
(* Safety *)

\* No worker is promised twice: what runs on it and what is held on it fit its
\* capacity, whatever the order of expiries, late payments and recoveries.
NoOvercommit == \A w \in Worker, d \in Dimension : Committed(w, d) <= Capacity[w][d]

\* The three ledgers of a payment agree: a processed event is exactly one
\* consumed hold or one recovery, a recovery stands for an expired hold, and a
\* quota allocation exists exactly where one of them was honoured.
LedgersAgree ==
  \A k \in Key :
    /\ k \in processed <=> hold[k] = "consumed" \/ recovery[k] # "none"
    /\ recovery[k] # "none" => hold[k] = "expired"
    /\ alloc[k] # "none" <=> hold[k] = "consumed" \/ recovery[k] = "fulfilled"

\* A captured payment is refunded only for want of capacity, and never both
\* refunded and honoured.
RefundExcludesCapacity ==
  \A k \in Key :
    /\ refund[k] # "none" => recovery[k] \in {"compensation_required", "compensated"}
    /\ recovery[k] = "compensated" => refund[k] = "confirmed"
    /\ refund[k] # "none" => alloc[k] = "none"

\* However many checkouts of a server are paid, one of them at most is provided.
ProvidedOnce ==
  \A i \in Installation : \A j, k \in KeysOf(i) : alloc[j] # "none" /\ alloc[k] # "none" => j = k

\* Placements and quotas come together: the applications of a server are all
\* placed if it has an allocation, within its quota, and none is otherwise.
PlacedUnderQuota ==
  \A i \in Installation :
    LET mine == {k \in KeysOf(i) : alloc[k] # "none"}
    IN /\ \A a \in AppsOf(i) : placed[a] # NoWorker <=> mine # {}
       /\ \A k \in mine : EnvelopeFits(AppsOf(i), Demand, Quota[heldPlan[k]])

\* An allocated server has left the planned state for good, and is open with an
\* active quota exactly while one of its subscription rows is active.
EntitlementFollowsRows ==
  \A k \in Key :
    alloc[k] # "none" =>
      LET i == ServerOf[k]
      IN /\ state[i] = IF Entitled(i, sub) THEN "open" ELSE "suspended"
         /\ alloc[k] = IF Entitled(i, sub) THEN "active" ELSE "suspended"

\* Payments come before what they buy: a webhook in progress, and a processed
\* event, stand for the paid session the hold names.
PaidFirst ==
  \A k \in Key : k \in retrieved \cup processed => session[k] = "paid" /\ k \in attached

\* A hold remembers a quote that was within the quota of its plan.
QuoteWithinQuota ==
  \A k \in Key :
    hold[k] # "none" =>
      heldPlan[k] \in Plan /\ EnvelopeFits(DOMAIN items[k], Demand, Quota[heldPlan[k]])

\* Only applications that exist, of an allocated server, are placed.
PlacedExist ==
  \A a \in App :
    placed[a] # NoWorker => a \in apps /\ \E k \in Key : ServerOf[k] = HostOf[a] /\ alloc[k] # "none"

\* The inductive invariant behind the safety properties above.
CoreInvariant ==
  /\ TypeOK /\ LedgersAgree /\ PaidFirst /\ RefundExcludesCapacity /\ ProvidedOnce
  /\ QuoteWithinQuota /\ PlacedExist /\ PlacedUnderQuota /\ EntitlementFollowsRows

\* The tables are finite, however many keys and applications there may be.
FinitelyMany ==
  /\ IsFiniteSet(apps)
  /\ IsFiniteSet({k \in Key : hold[k] # "none"})
  /\ \A k \in Key : IsFiniteSet(DOMAIN items[k])

\* NoOvercommit needs nothing else to be inductive.
CapacityInvariant == CoreInvariant /\ FinitelyMany /\ NoOvercommit

-----------------------------------------------------------------------------
(* Steps *)

\* Settled history is not rewritten: a terminal hold, its snapshot and its
\* session, a processed event and a closed recovery never change again.
HistoryIsFinal ==
  [][\A k \in Key :
       /\ hold[k] \in {"consumed", "released", "expired"} =>
            hold'[k] = hold[k] /\ items'[k] = items[k] /\ heldPlan'[k] = heldPlan[k]
       /\ k \in processed => k \in processed'
       /\ recovery[k] \in {"fulfilled", "compensated"} => recovery'[k] = recovery[k]
       /\ recovery[k] = "compensation_required" => recovery'[k] \in {recovery[k], "compensated"}]_vars

\* What each payment amounts to, for the customer: see PaidObligation.
Obligation ==
  [k \in Key |->
     IF refund[k] = "confirmed" THEN "refunded"
     ELSE IF alloc[k] # "none" THEN "provided"
     ELSE IF session[k] = "paid" THEN "owed" ELSE "unpaid"]

Abstract == INSTANCE PaidObligation WITH obligation <- Obligation

\* The checkout core implements the obligation.
HonoursObligations == Abstract!Spec

-----------------------------------------------------------------------------
(* Liveness *)

\* As long as no pass is stopped by a row it cannot handle, every recovery is
\* fulfilled or compensated in the end.
RecoveryIsSettled ==
  <>[]PassCompletes =>
    \A k \in Key :
      recovery[k] \in OpenRecovery ~> recovery[k] \in {"fulfilled", "compensated"}

\* In the same circumstances the subscription of a provided server that is
\* canceled ends up entitling nobody, whatever stale listing, late event or
\* redelivery is still to be processed.
CancellationRevokes ==
  <>[]PassCompletes =>
    \A k \in Key : provider[k] = "canceled" /\ alloc[k] # "none" ~> [](sub[k] # "active")

-----------------------------------------------------------------------------
(* What the documentation says of the program *)

\* "Signed payment evidence must remain recoverable even when webhook delivery
\* arrives after the temporary checkout reservation" (migration 013): a payment
\* the customer does not cancel is recorded in the end.
PaidIsRecorded ==
  \A k \in Key : session[k] = "paid" ~> (k \in processed \/ provider[k] = "canceled")
=============================================================================
