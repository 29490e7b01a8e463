----------------------------- MODULE PlanResize -----------------------------
(***************************************************************************)
(* Changing the plan of a paid server: BillingService.upgrade, the plan    *)
(* capacity change holds, Stripe's copy of the subscription, and the two   *)
(* other ways a confirmed change reaches the database: the subscription    *)
(* webhook and the scheduled reconciliation pass.                          *)
(*                                                                         *)
(* One server with one subscription.  A hold is named by its idempotency   *)
(* key, a generation and a plan.  Every await between two transactions or  *)
(* calls is a point where another actor may act.  A status stands for      *)
(* every status with the same effect: "active" for trialing too.           *)
(***************************************************************************)
EXTENDS Naturals, FiniteSets, TLC

CONSTANTS
  Plan,           \* a plan is the number of services it allows
  InitialPlan,
  Request,        \* customers' plan change requests in progress at once
  NoHold, NoCall,
  MaxGeneration,  \* bound on the generation in which a plan change begins, with the faults so far
  MaxFaults,      \* bound on failed calls, deaths and status changes at Stripe
  MaxUsage        \* bound on the server's applications

ASSUME ResizeConstants ==
  /\ InitialPlan \in Plan /\ Plan \subseteq Nat
  /\ MaxGeneration \in Nat /\ MaxFaults \in Nat
  /\ MaxUsage \in Nat \ {0}   \* the server has an application

Keys == (1 .. MaxGeneration) \X Plan
GenerationOf(k) == k[1]
PlanOf(k) == k[2]
ASSUME NullsAreNotKeys == NoHold \notin Keys /\ NoCall \notin Keys

VARIABLES
  plan,      \* installations.plan and the plan of the allocation
  alloc,     \* the installation's capacity allocation: state and generation
  sub,       \* subscriptions.status
  priced,    \* the plan of which the subscription row holds the prices
  usage,     \* its application instances
  hold,      \* plan_capacity_change_holds by key: state, expected_generation and from_plan
  lapsed,    \* active holds whose expires_at has passed
  request,   \* each request: its step, the plan it asks for, the key it derived and the plan it read
  provider,  \* Stripe's subscription: status, billed plan and capacityChangeHoldId
  executed,  \* idempotency keys Stripe has applied
  inFlight,  \* updates whose caller gave up before Stripe answered
  events,    \* announced statuses not yet acknowledged
  webhook,   \* what the webhook in progress has read, then its verdict
  pass,      \* what the reconciliation pass in progress has read, then its verdict
  faults     \* failures and status changes so far

ledger == <<plan, alloc, sub, priced, usage, hold, lapsed>>
stripe == <<provider, executed, inFlight, events, faults>>
vars   == <<ledger, stripe, request, webhook, pass>>

Absent == [state |-> "none", gen |-> 0, from |-> InitialPlan]
Idle   == [step |-> "idle", to |-> InitialPlan, key |-> NoCall, from |-> InitialPlan]
Verdict == {"active", "inactive", "past_due", "canceled"}

\* A webhook or a pass: not begun, holding Stripe's copy of the subscription,
\* done with the change it names, or holding the status and prices to write.
\* A webhook has read the server's plan before it calls Stripe; a pass reads
\* the subscription's row after it has converged.
Unbegun == [step |-> "none"]
Read(p) == [step |-> "read", plan |-> p]
Seen(subscription, p) == [step |-> "seen", it |-> subscription, plan |-> p]
Listed(subscription) == [step |-> "listed", it |-> subscription]
Converged(subscription) == [step |-> "converged", it |-> subscription]
Stored(subscription, status, p) == [step |-> "stored", it |-> subscription, sub |-> status, priced |-> p]
Judged(status) == [step |-> "judged", verdict |-> status]
Upsert(subscription) == [step |-> "upsert", it |-> subscription]

Init ==
  /\ plan = InitialPlan /\ priced = InitialPlan /\ sub = "active" /\ usage = 1
  /\ alloc = [state |-> "active", gen |-> 1]
  /\ hold = [k \in Keys |-> Absent] /\ lapsed = {}
  /\ request = [r \in Request |-> Idle]
  /\ provider = [status |-> "active", plan |-> InitialPlan, hold |-> NoHold]
  /\ executed = {} /\ inFlight = {} /\ events = {} /\ faults = 0
  /\ webhook = Unbegun /\ pass = Unbegun

-----------------------------------------------------------------------------
(* The ledger's operations on holds *)

Swept == [k \in Keys |-> IF hold[k].state = "active" /\ k \in lapsed
                         THEN [hold[k] EXCEPT !.state = "expired"] ELSE hold[k]]

StillLapsed == lapsed' = {k \in lapsed : hold'[k].state = "active"}

\* A bound: the later a plan change has begun, the fewer faults.
Begun == {k \in Keys : hold[k].state # "none" \/ \E r \in Request : request[r].key = k}
Fault ==
  /\ faults < MaxFaults /\ faults' = faults + 1
  /\ \A k \in Begun : GenerationOf(k) + faults < MaxGeneration

\* The hour of a hold passes, under a request too: a repeated request gets the
\* hold it already has, with the expiry that has.
HoldLapses(k) ==
  /\ hold[k].state = "active" /\ k \notin lapsed
  /\ lapsed' = lapsed \cup {k}
  /\ UNCHANGED <<plan, alloc, sub, priced, usage, hold, stripe, request, webhook, pass>>

\* Mutant of Consumable: the generation is not compared.
ConsumableAtAnyGeneration(k) ==
  hold[k].state \in {"active", "expired"} /\ alloc.state = "active" /\ sub = "active"

\* consumePlanCapacityChangeHold: the hold, the allocation, the installation
\* and the subscription row change together or not at all.
Consumable(k) ==
  /\ hold[k].state \in {"active", "expired"}
  /\ alloc = [state |-> "active", gen |-> hold[k].gen] /\ plan = hold[k].from
  /\ sub = "active"

AlreadyConsumed(k) ==
  hold[k].state = "consumed" /\ alloc.gen = hold[k].gen + 1 /\ plan = PlanOf(k)

ConsumeHold(k) ==
  /\ Consumable(k)
  /\ hold' = [hold EXCEPT ![k].state = "consumed"]
  /\ plan' = PlanOf(k) /\ priced' = PlanOf(k)
  /\ alloc' = [alloc EXCEPT !.gen = @ + 1]
  /\ StillLapsed
  /\ UNCHANGED <<sub, usage>>

\* A replay returns the allocation and changes nothing; anything else fails.
ConvergeOn(k) == ConsumeHold(k) \/ (AlreadyConsumed(k) /\ UNCHANGED ledger)
CannotConverge(k) == ~Consumable(k) /\ ~AlreadyConsumed(k)

\* Mutant of Entitle: the allocation takes the name of the status.
EntitleByStatus(status) ==
  /\ sub' = status /\ alloc' = [state |-> status, gen |-> alloc.gen + 1]
  /\ UNCHANGED <<plan, usage, hold, lapsed>>

\* A status is written, and synchronizeCapacityAllocationEntitlement called.
Entitle(status) ==
  /\ sub' = status
  /\ alloc' = CASE status # "active" /\ alloc.state = "active" -> [state |-> "suspended", gen |-> alloc.gen + 1]
                [] status = "active" /\ alloc.state = "suspended" -> [state |-> "active", gen |-> alloc.gen + 1]
                [] OTHER -> alloc
  /\ hold' = IF status # "active" /\ alloc.state = "active"
             THEN [k \in Keys |-> IF hold[k].state = "active" THEN [hold[k] EXCEPT !.state = "released"] ELSE hold[k]]
             ELSE hold
  /\ StillLapsed
  /\ UNCHANGED <<plan, usage>>

\* Mutant of NoActiveHold: applications are added whatever is held.
AnyHold(holds) == TRUE
NoActiveHold(holds) == \A k \in Keys : holds[k].state # "active"

\* cloneApplicationWithinCapacity, createApplicationsWithinCapacity: the
\* holds are swept, and a plan change in progress refuses the application.
AddApplication ==
  /\ alloc.state = "active" /\ usage < MaxUsage /\ usage < plan
  /\ NoActiveHold(Swept)
  /\ hold' = Swept /\ StillLapsed /\ usage' = usage + 1
  /\ UNCHANGED <<plan, alloc, sub, priced, stripe, request, webhook, pass>>

-----------------------------------------------------------------------------
(* POST /api/installations/:id/upgrade and BillingService.upgrade *)

Step(r, step) == request' = [request EXCEPT ![r].step = step]
Ends(r) == request' = [request EXCEPT ![r] = Idle]

\* The route reads the installation with its applications...
BeginUpgrade(r, p) ==
  /\ request[r] = Idle /\ usage <= p
  /\ request' = [request EXCEPT ![r] = [Idle EXCEPT !.step = "routed", !.to = p, !.from = plan]]
  /\ UNCHANGED <<ledger, stripe, webhook, pass>>

\* ...then getActiveSubscription...
ReadSubscription(r) ==
  /\ request[r].step = "routed"
  /\ IF sub = "active" THEN Step(r, "subscribed") ELSE Ends(r)
  /\ UNCHANGED <<ledger, stripe, webhook, pass>>

\* ...then getInstallationCapacityAllocation, whose generation names the change.
ReadAllocation(r) ==
  /\ request[r].step = "subscribed"
  /\ IF alloc.state = "active" /\ alloc.gen + faults <= MaxGeneration
     THEN request' = [request EXCEPT ![r].step = "read", ![r].key = <<alloc.gen, request[r].to>>]
     ELSE Ends(r)
  /\ UNCHANGED <<ledger, stripe, webhook, pass>>

\* acquirePlanCapacityChangeHold
AcquireHold(r) ==
  LET k == request[r].key
      known == Swept[k].state # "none"
  IN  /\ request[r].step = "read"
      /\ \/ known /\ hold' = Swept /\ IF Swept[k].state = "active" THEN Step(r, "held") ELSE Ends(r)
         \/ /\ ~known /\ NoActiveHold(Swept) /\ alloc.state = "active" /\ sub = "active"
            /\ usage <= PlanOf(k)
            /\ hold' = [Swept EXCEPT ![k] = [state |-> "active", gen |-> alloc.gen, from |-> plan]]
            /\ Step(r, "held")
         \/ /\ ~known /\ \/ ~NoActiveHold(Swept) \/ alloc.state # "active" \/ sub # "active"
                         \/ usage > PlanOf(k)
            /\ Ends(r) /\ UNCHANGED hold
      /\ StillLapsed
      /\ UNCHANGED <<plan, alloc, sub, priced, usage, stripe, webhook, pass>>

\* Stripe applies an update once per idempotency key and announces it.
Applied(k) ==
  IF k \in executed THEN UNCHANGED <<provider, executed, events>>
  ELSE /\ provider' = [provider EXCEPT !.plan = PlanOf(k), !.hold = k]
       /\ executed' = executed \cup {k}
       /\ events' = events \cup {provider.status}

UpdateAccepted(r) ==
  /\ request[r].step = "held" /\ provider.status # "canceled"
  /\ Applied(request[r].key) /\ Step(r, "confirmed")
  /\ UNCHANGED <<ledger, inFlight, faults, webhook, pass>>

\* A declined payment, a lost answer, and a call that outlives its caller.
UpdateThrows(r) ==
  /\ request[r].step = "held" /\ Step(r, "failed") /\ Fault
  /\ \/ UNCHANGED <<provider, executed, events, inFlight>>
     \/ provider.status # "canceled" /\ Applied(request[r].key) /\ UNCHANGED inFlight
     \/ inFlight' = inFlight \cup {request[r].key} /\ UNCHANGED <<provider, executed, events>>
  /\ UNCHANGED <<ledger, webhook, pass>>

LateUpdate(k) ==
  /\ k \in inFlight /\ provider.status # "canceled"
  /\ inFlight' = inFlight \ {k} /\ Applied(k)
  /\ UNCHANGED <<ledger, faults, request, webhook, pass>>

\* retrieveSubscription after the error; it may fail as well.
RetrieveAfterError(r) ==
  LET k == request[r].key
      target == provider.hold = k /\ provider.status = "active"
      unchanged == provider.hold # k /\ provider.plan = request[r].from
  IN  /\ request[r].step = "failed"
      /\ \/ target /\ Step(r, "confirmed")
         \/ unchanged /\ Step(r, "unchanged")
         \/ Ends(r)
      /\ UNCHANGED <<ledger, stripe, webhook, pass>>

ConsumeConfirmed(r) ==
  /\ request[r].step = "confirmed" /\ Ends(r)
  /\ ConvergeOn(request[r].key) \/ (CannotConverge(request[r].key) /\ UNCHANGED ledger)
  /\ UNCHANGED <<stripe, webhook, pass>>

\* releasePlanCapacityChangeHold
ReleaseUnchanged(r) ==
  /\ request[r].step = "unchanged" /\ Ends(r)
  /\ hold' = IF hold[request[r].key].state = "active"
             THEN [hold EXCEPT ![request[r].key].state = "released"] ELSE hold
  /\ StillLapsed
  /\ UNCHANGED <<plan, alloc, sub, priced, usage, stripe, webhook, pass>>

\* The process may die once Stripe has accepted; a death at another step
\* leaves what an error at that step leaves.
ServerDies(r) ==
  /\ request[r].step = "confirmed" /\ Ends(r) /\ Fault
  /\ UNCHANGED <<ledger, provider, executed, inFlight, events, webhook, pass>>

-----------------------------------------------------------------------------
(* Stripe, its webhooks and the scheduled pass *)

ProviderStatusChanges(s) ==
  /\ provider.status \notin {s, "canceled"} /\ Fault
  /\ provider' = [provider EXCEPT !.status = s]
  /\ events' = events \cup {s}
  /\ UNCHANGED <<ledger, executed, inFlight, request, webhook, pass>>

\* The webhook of an active status reads the installation...
WebhookReads ==
  /\ "active" \in events /\ webhook = Unbegun
  /\ webhook' = Read(plan)
  /\ UNCHANGED <<ledger, stripe, request, pass>>

\* ...and retrieves the subscription, whose status may be another by now...
WebhookRetrieves ==
  /\ webhook.step = "read"
  /\ webhook' = Seen(provider, webhook.plan)
  /\ UNCHANGED <<ledger, stripe, request, pass>>

\* Mutant of Converge: a change Stripe names is written without its hold.
ConvergeWithoutHold(seen) ==
  /\ plan' = seen.plan
  /\ UNCHANGED <<alloc, sub, priced, usage, hold, lapsed>>

\* ...commits the plan change it names, of whatever status, or fails...
Converge(seen) ==
  IF seen.hold # NoHold THEN ConvergeOn(seen.hold) ELSE UNCHANGED ledger

WebhookConverges ==
  /\ webhook.step = "seen" /\ webhook.it.hold # NoHold /\ Converge(webhook.it)
  /\ webhook' = Converged(webhook.it)
  /\ UNCHANGED <<stripe, request, pass>>

NotConverging(seen) == seen.hold # NoHold /\ CannotConverge(seen.hold)

\* ...in which case Stripe delivers the event again...
WebhookFails ==
  /\ webhook.step = "seen" /\ NotConverging(webhook.it)
  /\ webhook' = Unbegun
  /\ UNCHANGED <<ledger, stripe, request, pass>>

\* ...and compares status and prices: with the installation it read at first,
\* or reads again after a plan change.
Accepted(seen, p) == IF seen.status = "active" /\ seen.plan = p THEN "active" ELSE "inactive"

WebhookCompares ==
  /\ \/ webhook.step = "seen" /\ webhook.it.hold = NoHold
        /\ webhook' = Judged(Accepted(webhook.it, webhook.plan))
     \/ webhook.step = "converged" /\ webhook' = Judged(Accepted(webhook.it, plan))
  /\ UNCHANGED <<ledger, stripe, request, pass>>

\* updateSubscriptionStatus and markStripeEventProcessed
WebhookApplies ==
  /\ webhook.step = "judged" /\ Entitle(webhook.verdict) /\ webhook' = Unbegun
  /\ events' = events \ {"active"}
  /\ UNCHANGED <<priced, provider, executed, inFlight, faults, request, pass>>

\* Any other status is applied as announced.
InactiveWebhook(s) ==
  /\ s \in events /\ s # "active" /\ Entitle(s) /\ events' = events \ {s}
  /\ UNCHANGED <<priced, provider, executed, inFlight, faults, request, webhook, pass>>

BeginPass ==
  /\ pass = Unbegun /\ pass' = Listed(provider)
  /\ UNCHANGED <<ledger, stripe, request, webhook>>

\* A confirmed change converges, if the listing has the subscription active.
Confirmed(seen) == seen.status = "active" /\ seen.hold # NoHold

PassConverges ==
  /\ pass.step = "listed" /\ Confirmed(pass.it) /\ Converge(pass.it)
  /\ pass' = Converged(pass.it)
  /\ UNCHANGED <<stripe, request, webhook>>

\* A confirmed change that cannot converge ends the pass of every customer.
PassFails ==
  /\ pass.step = "listed" /\ Confirmed(pass.it) /\ NotConverging(pass.it)
  /\ pass' = Unbegun
  /\ UNCHANGED <<ledger, stripe, request, webhook>>

\* The rows are listed again; if the listing names no change, the server's plan
\* is read after its row.
PassLists ==
  /\ pass.step = "listed" /\ pass.it.hold = NoHold
  /\ pass' = Stored(pass.it, sub, priced)
  /\ UNCHANGED <<ledger, stripe, request, webhook>>

\* What a pass writes of a listed subscription whose row has a status and the
\* prices of p: nothing where the row is right, or wrongly priced but inactive.
Correction(listed, status, p, expected) ==
  CASE listed.plan # expected /\ status = "inactive" -> Unbegun
    [] listed.plan # expected /\ status # "inactive" -> Judged("inactive")
    [] listed.plan = expected /\ status = listed.status /\ p = listed.plan -> Unbegun
    [] OTHER -> Upsert(listed)

\* The price expected is of the plan the named change asks for, or of the server's.
PassCompares ==
  /\ \/ /\ pass.step = "converged" \/ (pass.step = "listed" /\ pass.it.hold # NoHold /\ ~Confirmed(pass.it))
        /\ pass' = Correction(pass.it, sub, priced, PlanOf(pass.it.hold))
     \/ pass.step = "stored" /\ pass' = Correction(pass.it, pass.sub, pass.priced, plan)
  /\ UNCHANGED <<ledger, stripe, request, webhook>>

\* applySubscriptionReconciliation: a deactivation writes the status, an upsert
\* the prices too.
PassApplies ==
  /\ \/ pass.step = "judged" /\ Entitle(pass.verdict) /\ UNCHANGED priced
     \/ pass.step = "upsert" /\ Entitle(pass.it.status) /\ priced' = pass.it.plan
  /\ pass' = Unbegun
  /\ UNCHANGED <<stripe, request, webhook>>

\* The process of a webhook or a pass dies, or a call of it fails: the event is
\* delivered again, the next pass starts afresh.
HandlerDies ==
  /\ \/ webhook # Unbegun /\ webhook' = Unbegun /\ UNCHANGED pass
     \/ pass # Unbegun /\ pass' = Unbegun /\ UNCHANGED webhook
  /\ Fault
  /\ UNCHANGED <<ledger, provider, executed, inFlight, events, request>>

-----------------------------------------------------------------------------
Upgrade(r) ==
  \/ \E p \in Plan : BeginUpgrade(r, p)
  \/ ReadSubscription(r) \/ ReadAllocation(r)
  \/ AcquireHold(r) \/ UpdateAccepted(r) \/ UpdateThrows(r) \/ RetrieveAfterError(r)
  \/ ConsumeConfirmed(r) \/ ReleaseUnchanged(r) \/ ServerDies(r)

Webhook ==
  \/ WebhookReads \/ WebhookRetrieves \/ WebhookConverges \/ WebhookFails
  \/ WebhookCompares \/ WebhookApplies
Pass == BeginPass \/ PassConverges \/ PassFails \/ PassLists \/ PassCompares \/ PassApplies

Next ==
  \/ \E r \in Request : Upgrade(r)
  \/ \E k \in Keys : HoldLapses(k) \/ LateUpdate(k)
  \/ \E s \in Verdict \ {"inactive"} : ProviderStatusChanges(s)
  \/ \E s \in Verdict : InactiveWebhook(s)
  \/ AddApplication \/ Webhook \/ Pass \/ HandlerDies

Spec == Init /\ [][Next]_vars

\* Requests differ in nothing but their names.
RequestSymmetry == Permutations(Request)

-----------------------------------------------------------------------------
\* The type invariant: holds, the allocation and its generation, Stripe's copy
\* and the requests in progress.
ResizeTypeOK ==
  /\ plan \in Plan /\ priced \in Plan /\ sub \in Verdict /\ usage \in 0 .. MaxUsage
  /\ alloc \in [state : {"active", "suspended"}, gen : Nat \ {0}]
  /\ hold \in [Keys -> [state : {"none", "active", "released", "expired", "consumed"}, gen : Nat, from : Plan]]
  /\ lapsed \subseteq Keys /\ executed \subseteq Keys /\ inFlight \subseteq Keys
  /\ provider \in [status : Verdict, plan : Plan, hold : Keys \cup {NoHold}]
  /\ events \subseteq Verdict /\ faults \in 0 .. MaxFaults
  /\ request \in [Request -> [step : {"idle", "routed", "subscribed", "read", "held", "confirmed", "failed", "unchanged"},
                              to : Plan, key : Keys \cup {NoCall}, from : Plan]]

\* The database never differs from Stripe about a change it has recorded: if
\* the hold Stripe's subscription names is consumed, the server has the plan
\* Stripe bills.  A plan billed and not granted is always named by a hold a
\* webhook or a pass can still see as unconsumed (repository.ts:1738-1769).
ConsumedIsBilled ==
  provider.hold # NoHold /\ hold[provider.hold].state = "consumed" => plan = provider.plan

\* While a change of plan is held and its hour has not passed, the server's
\* applications fit the plan asked for, though requests to add applications
\* and to change the plan run at once (repository.ts:1398, 1724-1725).
HeldPlanFits ==
  \A k \in Keys : hold[k].state = "active" /\ k \notin lapsed => usage <= PlanOf(k)

\* A server's plan changes only to a plan Stripe has been told to bill under
\* the hold that is consumed by the step (docs/paid-plan-capacity.md:92-107).
GrantedOnlyAsBilled ==
  [][plan' # plan => \E k \in executed : PlanOf(k) = plan' /\ hold[k].state # "consumed" /\ hold'[k].state = "consumed"]_vars

-----------------------------------------------------------------------------
\* Why ConsumedIsBilled holds.  What webhooks and passes hold is a copy of the
\* subscription, or a status and a plan.
Copy == [status : Verdict, plan : Plan, hold : Keys \cup {NoHold}]
CopyOf(phase) ==
  \/ phase = Unbegun
  \/ phase \in [step : {"read"}, plan : Plan]
  \/ phase \in [step : {"seen"}, it : Copy, plan : Plan]
  \/ phase \in [step : {"stored"}, it : Copy, sub : Verdict, priced : Plan]
  \/ phase \in [step : {"listed", "converged", "upsert"}, it : Copy]
  \/ phase \in [step : {"judged"}, verdict : Verdict]

\* A request has the hold of its key from the time it calls Stripe, and so has
\* whatever Stripe applies; a copy names what Stripe has applied.
CallsAreHeld ==
  /\ \A r \in Request :
       /\ request[r].step \notin {"idle", "routed", "subscribed"} => request[r].key \in Keys
       /\ request[r].step \notin {"idle", "routed", "subscribed", "read"} => hold[request[r].key].state # "none"
       /\ request[r].step = "confirmed" => request[r].key \in executed
  /\ \A k \in inFlight \cup executed : hold[k].state # "none"
NamesExecuted(it) == it.hold # NoHold => it.hold \in executed
CopiesAreExecuted ==
  /\ NamesExecuted(provider) /\ (provider.hold # NoHold => provider.plan = PlanOf(provider.hold))
  /\ webhook.step = "seen" => NamesExecuted(webhook.it)
  /\ pass.step = "listed" => NamesExecuted(pass.it)

\* Holds are of past generations, only what Stripe applied is consumed, and
\* once the change Stripe names is consumed no older one can be any more.
OlderAreStale ==
  /\ \A k \in Keys : hold[k].gen <= alloc.gen /\ (hold[k].state = "consumed" => k \in executed)
  /\ provider.hold # NoHold /\ hold[provider.hold].state = "consumed" =>
       \A k \in executed : hold[k].state # "consumed" => hold[k].gen < alloc.gen

ResizeInvariant ==
  /\ ResizeTypeOK /\ CopyOf(webhook) /\ CopyOf(pass)
  /\ CallsAreHeld /\ CopiesAreExecuted /\ OlderAreStale /\ ConsumedIsBilled
=============================================================================
