# Verification of the managed OSS cloud control plane

This directory holds TLA+ specifications of the control plane in `src/`
(TypeScript, PostgreSQL, Stripe, remote worker agents, an AI worker, public
pages), TLC configurations that model-check them on small instances, and TLAPS
proofs about them.  Paths below are relative to the repository; `repository.ts`
and its siblings are under `src/server/`.

The questions the project answers:

1. **Does a paid checkout keep its promise?**  A customer who pays gets capacity
   that is really there, or the money back, never both, never neither; and what
   the server is entitled to afterwards follows the subscription rows.
   (`CheckoutCapacity`, refining `PaidObligation`; `PlanResize` for changes of
   the plan.)
2. **Does the work on the remote workers follow that entitlement?**  No paid job
   runs for a revoked server, no worker runs two jobs, what the rows say of the
   containers stays true, and what is over its storage quota is stopped.
   (`WorkerJobs`, `WorkerHost`.)
3. **Is the public edge sound?**  Only proven hostnames are routed, revoked
   routes go, a sign-in flow yields one identity.  (`Edge`.)
4. **Do the business modules keep their books, consents, approvals and
   histories?**  (`SuiteWorkspace` and the engine modules, over `SuiteStore`,
   `Commands`, `Access`, `PublicSite`, `Proposals` and `AiQueue`.)
5. **Can a release be rolled out?**  Migrations run once; the backfill leaves
   quotas sound.  (`Operations`.)

Contents: [inventory](#1-inventory-of-the-system) ·
[plan](#2-plan) · [modules](#3-the-modules-and-the-code) ·
[runs](#4-what-the-runs-check) · [proofs](#5-what-is-proved) ·
[findings](#6-where-code-and-documentation-disagree) ·
[limits](#7-what-is-not-modelled) · [how to run](#8-running-it)

---

## 1. Inventory of the system

A customer plans a *server* (an installation: a plan and a set of applications),
pays for it through Stripe Checkout, and the control plane places each
application on a worker node, queues installation jobs and keeps routes, quotas
and jobs in step with the Stripe subscription.  Beside the servers, an account
has a *suite workspace*: members, API tokens, and the business modules it enables,
each served by one of ten command engines over one store of versioned records.
`PROJECT.json` lists every component with its status, and the hazards with
their lines.

| component | state | operations | what is hard | module |
|---|---|---|---|---|
| **Checkout capacity holds** (`repository.ts:1246–1332`, migration 005) | holds, items, plan snapshot | acquire / replay, attach session, release, expire | a hold expires by the clock, is swept by whoever comes next, and the payment may still arrive | `CheckoutCapacity` |
| **Placement** (`repository.ts:184–227`, `shared/plan-capacity.ts`) | none: computed from nodes, assignments and holds | `allocateCapacity`, `capacityEnvelopeFit` | exact limits, ties, counting a promise once | `Placement`, `AllocateCapacity` |
| **BillingService and Stripe** (`billing.ts`, `app.ts:404–416, 1414–1434`) | Stripe's sessions, subscriptions, events, refunds | `checkout`, `upgrade`, `webhook` | awaits between reading and acting; events lost, late, repeated, out of order | `CheckoutCapacity`, `PlanResize` |
| **Recoveries and compensation** (`repository.ts:1529–1694`, migration 013) | recoveries | defer, advance, retry, compensate, mark | a retry racing the refund of the same payment; a crash between Stripe and the row | `CheckoutCapacity`, `PaidObligation` |
| **Subscription reconciliation** (`subscription-reconciliation.ts`, `…-worker.ts`) | `subscriptions`; a listing per pass | list, visit, compare, apply | three moments; one row that throws ends the pass for everybody | `CheckoutCapacity` |
| **Allocations and plan changes** (`repository.ts:1089–1100, 1503–1525, 1695–1770`, migration 007) | allocations with generations, resize holds | allocate, suspend, reactivate, acquire, consume, release | Stripe and the quota change in two systems; a suspension changes the generation | `CheckoutCapacity`, `PlanResize` |
| **Worker jobs and nodes** (`repository.ts:1434–1460, 1771–1895`, `provisioning-worker.ts:330–509`) | jobs, nodes, applications; the agent's memory; containers | enqueue, claim, resume, heartbeat, lease, report, drain, revoke | agents die, reports are lost, leases expire and subscriptions end between any two steps | `WorkerJobs` |
| **Worker host** (`provisioning-worker.ts`, `worker-resource-enforcement.ts`, `compose-upgrade.ts`) | Compose file, containers, route, quarantine marker | install, start, stop, backup, restore, upgrade; the storage timer | two activities of one process alternate at every await; each call may fail | `WorkerHost` |
| **Hostname claims, gateway, sign-in** (`hostname-claims.ts`, `domain-verification.ts`, `gateway-reconciler.ts`, `managed-oauth.ts`) | claims, domains, the proxy's configuration, flows | claim, verify, poll, load, begin, complete | late DNS answers; lost answers and restarts; replayed callbacks | `Edge` |
| **Suite store** (`suite-store.ts`, `suite-record-page.ts`, `suite-record-visibility.ts`) | records with versions, quotas | create, update, delete, transaction, page | what is read before the workspace's lock; cursors over records that move | `SuiteStore`, `RecordPages` |
| **Accounts, sessions, members, tokens** (`app.ts`, `suite-store.ts`, migration 003) | users, memberships, credentials | sign up, log in, add, remove, issue, revoke | membership changes while a request is under way | `Access` |
| **Command protocol** (every engine) | command receipts | execute, replay | one effect per key, one command per approval | `Commands` |
| **AI actions** (`ai-worker.ts`, `suite-store.ts:1201–1325`) | actions, audits, bound evidence | queue, sweep, claim, complete, fail | leases against late answers; evidence that changes | `AiQueue`, `Proposals` |
| **Business engines** (ten files `*-engine.ts`) | the records of their modules | several hundred commands | see [the suite](#the-suite) | the engine modules below; what is proved of them in `Workspace` |
| **Public routers** (`public-*.ts`, `hosted-esign.ts`) | none | pages, submissions, votes, bookings, signing | a page is several queries; answers are lost and retried | `PublicSite`, `Forms`, `Schedule`, `Esign`, `Consent`, `Growth` |
| **Migrations, backfill** (`database-migrations.ts`, `legacy-capacity-backfill.ts`) | ledger; allocations | lock, verify, apply, backfill | two processes of two builds at once | `Operations` |
| **Client, CLI, MCP, configuration** | none | parsing, HTTP calls | — | not modelled |

---

## 2. Plan

Done, in this order: paid checkout with its invariant and refinement proved;
worker jobs with their invariant proved; the AI queue with its safety proved;
plan changes; the edge; the store, the command protocol and the engines; the
worker host; migrations; access; public pages; proposals.  Then the proofs of
the capacity ledger, of plan changes, of the edge, of migrations, backfill and
placement, of the engines that keep money, of those that reach or show a
person, and of those that give out once what exists once.

The order of what would come next:

1. *Proofs.*  Of the suite: `LiveIsApproved`, `HistoryReplays`, `MembersRead`,
   `WorkIsConsistent` and `AnswersFollowRules`, by the way taken in `Workspace`: the
   engines of one property as a specification of their own, which the workspace
   extends.  Abstract specification worth proving a refinement of: a command
   takes effect at most once per key.
2. *Composition.*  `WorkerJobs` with `WorkerHost` (the report of a job that the
   timer quarantines), `Edge` with the states of applications, and the plan of a
   workspace with its server's subscription (`app.ts:449–466`).

---

## 3. The modules and the code

`PROJECT.json` maps each definition to its lines.

### `CheckoutCapacity`

*State.*  A checkout key stands for its hold, its Stripe session, its
subscription and its `stripe_events` entry, which are one to one in the code
(unique constraints of migrations 005, 007 and 013).  Clocks are sets: `lapsed`
holds are those whose `expires_at` is past (`hold` still says `active` until a
transaction sweeps it), `overdue` recoveries those past their deadline.

*Atomicity.*  One repository method is one transaction and one action; placing
transactions take one advisory lock.  Everything between two awaits of
`BillingService` or of the reconciliation is a step of its own:

- a checkout request acquires a hold, asks Stripe for a session, attaches it;
  each call may fail, the process may die in between (`RequestDies`), the
  customer may repeat the request (`ReplayCheckoutCapacityHold`);
- the paid webhook retrieves the subscription (`PaidWebhookRetrieves`), and in a
  later transaction processes, defers, or fails; failing leaves the event to
  Stripe's redelivery;
- a subscription webhook retrieves first, and commits its verdict later;
  `updateSubscriptionStatus` and `markStripeEventProcessed` are two
  transactions, so an event may be handled and still be delivered again.
  Unacknowledged events are a set: Stripe does not order deliveries;
- a pass lists Stripe (`BeginPass`), visits recoveries in any order, compares
  stored rows with the old listing (`CompareWithListing`) and applies the
  decisions (`ApplySubscriptionReconciliation`), with every other actor free to
  act in between.  Comparison is reached only when no visited row throws
  (`PassCompletes`);
- compensation cancels and refunds at Stripe; the refund settles there later, and
  a later visit records it;
- the upgrade route of a planned server reads it, and writes the plan later
  (`BeginPlanChange`, `FinishPlanChange`); clones are created between quote and
  payment, or after a suspension.

`NOW()` is the start of a transaction, so a placing transaction commits its
sweep (`Swept`) together with its own changes.

*Abstractions.*  `trialing` is `active`.  `provisioning`, `live` and `failed`
are one state, `open` (they differ in `WorkerJobs`).  Prices are the equality of
the held plan with the plan of the server.  The memory safety reserve is part of
`Capacity`.  The resynchronisation of an owner's servers is taken per server.
Attempt counters and stored provider references are left out.  A failed refund
stays failed, as in the code, which leaves it to an operator.

### `PlanResize`

*State.*  The server's plan, its allocation with a generation, the subscription's
row (its status, and the plan whose prices it has), the holds by idempotency key,
and Stripe's subscription.  A request carries what it has read so far; so do the
webhook and the pass, whose record says which step comes next: a copy of Stripe's
subscription, of the row, or what is to be written.

*Steps.*  Every await of the code ends one.  The upgrade route reads the
installation, the subscription and the allocation one after the other (so the
plan a request has read may be of an earlier generation than its key), acquires
the hold, tells Stripe, and consumes or releases.  The webhook of an active status
reads the installation, then retrieves the subscription, commits the change it
names or throws, compares, writes.  It commits whatever status the *retrieved*
subscription has (`billing.ts:196–206`); the pass commits only if its listing is
active (`subscription-reconciliation.ts:210`).

*Failures.*  A call to Stripe that is refused, whose answer is lost, or that takes
effect after its caller gave up (`LateUpdate`); a process that dies; statuses that
change at Stripe, so that rows are suspended and reactivated, each time with a new
generation; holds that lapse at any time, also under a repeated request, which
gets the hold it has with its old expiry; applications added meanwhile.

### `WorkerJobs`

*State.*  `jobs` is `provisioning_jobs` in the order of `created_at`, which is
the order claims go by; `waiting` and `expired` stand for `available_at` in the
future and `lease_expires_at` in the past.  `agent` is the memory of the agent
process: the job it executes or has not reported.  `container` is the Compose
project on the worker, which nothing but the agent sees.

*Atomicity.*  `updateSubscriptionStatus` and `applySubscriptionReconciliation`
lock the queued and running jobs of a server, `claimWorkerJob` its job and then
the subscriptions, `reportWorkerJob` its job: their locks serialise them, and
each is one action.  The actions route checks the subscription in one statement
and inserts the job in another (`RequestAction`, `EnqueueJob`).  The agent's
claim, execution and report are separate steps, and it may die between them; a
restarted agent has forgotten its job, and its first claim returns it
(`ResumeJob`).

*Abstractions.*  Commands of a job succeed, or fail leaving the containers in
any state an interrupted command may leave them (`Completed`, `Interrupted`).
A `backup` restarts the application afterwards, ignores the error of that start,
and reports it live; the properties name that exception (`BackedUp`).  The
placement of an application is a constant: `CheckoutCapacity` is about choosing
it, `WorkerJobs` about what happens afterwards.

### `WorkerHost`

What a job does on the host: the Compose file (its image and its network), the
containers, the route, the quarantine marker and the archive.  The loop that
runs jobs and the timer that measures storage share one process; every await
ends a step, so they alternate there and nowhere else.  Calls (the measurement,
the quota helper, docker, the control plane, the reload of the routes) may fail.

### `Edge`

One record stands for a claim and its domain row, which one transaction writes.
A lookup is asked and answered in two steps, so answers come late and out of
order.  The reconciler reads applications and domains in two reads, remembers
the configuration of the last answered load, and skips equal ones; the proxy may
restart with its start-up configuration.  The broker begins a flow, consumes it,
exchanges the code, and looks the route up again before it signs.

### `AiQueue` and `Proposals`

`AiQueue` has the lease: an action is claimed by a worker, whose lease runs out,
whose process dies or whose request hangs; completion names the action and not
the claim.  `Proposals` has the evidence: which records a request may name in
each engine's contract, what is read to the model at the claim, and what an
answer may cite, while records, roles and members change in between.  PostgreSQL
ends an action and moves its audit record in one transaction for every contract
(`managed_oss_complete_suite_ai_action_v4` and the functions it calls), and rolls
back if the audit no longer awaits the model; the memory store does so for
proposals only, and leaves the others' to a call of the engines that only tests
make.  Both stores are modelled (`Backend`).

### The suite

`SuiteWorkspace` composes the modules of a workspace.  A command runs in a
transaction that holds the workspace's advisory lock, so it is one step of its
engine's module; an engine reads and writes records of its own module only, so
the workspace is a product of independent parts and each initial state enables
one of them (`Offered`).  The engines whose property is proved are composed
first, in `Workspace`, which `SuiteWorkspace` extends: `MoneySpec` has those that
keep money, `AgreementSpec` those that may reach or show a person only as the
person agreed, and `OnceSpec` those that give out once what exists once, the
command protocol and the store among them.  The initial states and the steps of each are the workspace's with
one of these modules enabled.  The parts that do *not* run under that lock are modelled step
by step: the store itself, reading in pages, a request's way to its transaction,
the public pages, the public submission routes and AI actions.

| module | code | what it has |
|---|---|---|
| `SuiteStore` | `suite-store.ts` | reads before the lock, the write under it, commands of several writes and their rollback; PostgreSQL and the memory store |
| `RecordPages` | `suite-store.ts:1070–1112`, `suite-record-page.ts` | cursors of a time and an id, scanning past what the reader may not see, millisecond truncation |
| `Commands` | the entry points of seven engines | roles, request digests, idempotency keys, approvals and their age, replays of stored or of today's records |
| `Access` | `app.ts`, `suite-store.ts`, migration 003 | sign-up race, sessions, tokens, memberships; authentication, scope, the transaction's own look-up |
| `PublicSite` | `public-*.ts`, `app.ts:1018–1288` | pages of six kinds read one query at a time, votes, entries and testimonials handed in meanwhile |
| `Finance`, `SeoNotify` | `suite-engine.ts` | invoices and payments; reserved units and histories; preferences and events |
| `CoreWork`, `CorePublishing` | `core-business-engine.ts` | dependencies, limits, conversations and opportunities; routes and scheduled posts |
| `Audience` | `additive-business-engine.ts` | meetings, courses, spaces and their members; tables with schemas, snapshots and imports |
| `Events`, `Metering`, `People`, `LiveAssurance` | `extended-business-engine.ts` | tickets; usage, credits and invoices; leave and reviews; recorded sessions; risks and controls |
| `Schedule`, `Forms`, `Flags` | `schedule-forms-flags-engine.ts`, `public-form-schedule.ts` | hosts and bookings; rules and submissions; revisions and evaluations; the two public pages with retries |
| `Esign` | `esign-engine.ts`, `hosted-esign.ts` | signing order, sessions, certificates, the hosted page with lost answers |
| `Email` | `email-engine.ts` | consent, suppression, drafts and dispatch plans |
| `Consent`, `Growth` | `first-party-growth-engine.ts`, `public-growth.ts` | policies and receipts; draws; consented publications; addresses |
| `HireCollab` | `hire-collab-engine.ts` | stage transitions; operations rebased on revisions |
| `Premium` | `premium-business-store-engine.ts` | orders, invoices and journals; issues and cycles; files with retention |

Common abstractions: a record is its position in its list; a content hash that
nothing rewrites is the identity of what it covers; a digest of a request is the
request; clocks are small numbers that `Tick` advances; an attestation of an
outside service is verified or the command is refused.

### `Operations`

Processes of several builds take the migration lock, compare the ledger with
their files, apply what is pending and, in a migration command, run the
backfill, among sales, suspensions, resizes and new applications.
`WorkerHost` and `AllocateCapacity` are instances of it, with state of their own.
`AllocateCapacity` is the loop of the function, one reservation a step, over any
set of applications, workers and quantities.

---

## 4. What the runs check

| run | instance | properties | what it shows |
|---|---|---|---|
| `contention` | two servers, one checkout each, one worker with room for one | `NoOvercommit` `HistoryIsFinal` `HonoursObligations` | expiring holds, late payments, recoveries and refunds never promise the worker twice, and implement `PaidObligation` |
| `one_server` | two checkouts of one server, two plans, one application and a clone | `CoreInvariant` `ProvidedOnce` | the invariant of the proofs; one payment at most is provided, within its quota, though plan and applications change meanwhile |
| `solo` | one checkout, three Stripe statuses, two faults, fairness | `LedgersAgree` `RefundExcludesCapacity` `EntitlementFollowsRows` `RecoveryIsSettled` `CancellationRevokes` | crashes, refused calls, redeliveries and stale readings; obligations are settled and cancellations win in the end |
| `plan_change` | one server, two plans, two requests at once whose keys may be the same, begun in one of two generations with no fault or in the first with one | `ResizeInvariant` `ConsumedIsBilled` `HeldPlanFits` `GrantedOnlyAsBilled` | a quota is granted only as Stripe bills it, once, and what a hold reserves still fits |
| `two_workers` | one server with two applications on two workers, four jobs, one fault | `RevokedWorkStops` `SoleLease` `SuspendedIffRevoked` `WorkerInvariant` | claims, leases, reports, drains and revocations in every order |
| `one_worker` | one application, start and backup, three jobs, two faults, fairness | `LiveIsUp` `CleanupIsQueued` `JobsEnd` `InstallsAreStopped` | deaths, lost reports and failing commands; every job ends and a cancelled install is stopped |
| `ai_queue` | two AI workers, two modules, limits 1 and 2, fairness | `RunningIsEntitled` `AnswersAreFinal` `ActionsEnd` | only entitled actions run, an action ends once and from its evidence, and every action ends |
| `edge` | an application and a workspace, one hostname, two callbacks, two lookups, fairness | `RoutedIsProven` `AssertedOnce` `RevokedRoutesGo` | late DNS answers, failed and unanswered loads, restarts, replayed callbacks |
| `operations` | three builds and two processes; two servers; one application on its host with one failing call; every input within the sets `App`, `Worker` and `Amount` of the configuration | `SchemaIsRecorded` `GrantsAreSound` `StaysQuarantined` `ComputesPlacement` | the ledger is what ran; quotas hold what their servers run; what stays over its quota stays stopped; the loop returns the best fit that `CheckoutCapacity` reserves with |
| `suite` | the 44 parts of a workspace named in `SuiteWorkspace.cfg` | the eight below | |

The eight properties of `suite` join what the modules promise, by the kind of
promise; each part has its own comment in its module.

| property | says, for instance |
|---|---|
| `MoneyAddsUp` | an hour is billed on one invoice at most and numbers have no gap (`Finance`); a credit is never spent twice however drafts interleave (`Metering`); payments and journals agree (`Premium`) |
| `NothingTwice` | a seat is sold once though receipts come late (`Events`); a host has one booking at a time and a page books once (`Schedule`); a decision about a person is made once (`People`); a key has one effect and an approval one command (`Commands`); a record had room under a plan its request could see (`SuiteStore`) |
| `OnlyWithConsent` | mail, notifications, recordings, testimonials and receipts rest on the latest consent |
| `LiveIsApproved` | active routes and revisions are the approved ones, one line of revisions runs, a visitor is shown only what was public at some moment of his request and all that was public throughout it |
| `HistoryReplays` | revisions, stage events, messages and acknowledged writes replay to the record |
| `MembersRead` | members read what their meeting, course or space holds, no more and no less; a record that stays as it is is listed once; nobody acts in a workspace he does not belong to |
| `WorkIsConsistent` | no cycle of dependencies, limits kept, rows within their schema, controls as protected as the subjects of their risks |
| `AnswersFollowRules` | answers obey the release's rules in any order of the rules; signers sign in order; draws are of the frozen entries; proposals cite only what the requester could read, as it is |

Two more runs expect a violation; they are in
[section 6](#6-where-code-and-documentation-disagree).

### The bounds, and why they are enough

- *Keys, servers, workers.*  Every conflict the code guards against is between
  two: two servers for one worker (`contention`), two checkouts of one server
  (`one_server`), two jobs of one server on two nodes (`two_workers`), two
  surfaces for one hostname (`edge`), two AI workers for one action (`ai_queue`).
  The proofs remove the bound where they reach.
- *Quantities.*  Each application needs one unit, a worker has room for one or
  two; plans grant one or two.  So every placement is at the limit of something.
  The allocation part of `operations` varies the quantities themselves.
- *`MaxFaults`*, *`Budget`* bound crashes, refused calls and Stripe's own status
  changes (2 in `solo` and `one_worker`; 1 in `plan_change` and on the host; 0 where
  two actors interleave, as a redelivery, an expiry or a lost race needs no
  fault).
- *`MaxJobs`*: an install, a revocation's stop, a customer's action and one more
  (4 with two applications, 3 with one).  *`MaxAttempts`* is 2 instead of 3: one
  retry, then the final failure.
- *The suite.*  Each part has the fewest records with which its conflicts occur:
  two entries for overlapping hours, two reservations for the last seat, three
  issues for a cycle, two operations on one revision, three records and a page
  of one, two requests and two sign-ups.  The store's workspace moves
  between a plan with no room and one with room for two records, one unit of them stored, so
  each of the two limits is met alone; both back ends run on it.  The bounds stand at each `INSTANCE` in
  `SuiteWorkspace`, those of the engines that are proved about, which are
  parameters of `Workspace`, in `SuiteWorkspace.cfg`; every name that starts with `Max`, and `Horizon`, bounds a
  list or a clock and nothing else.
  Where a second value of a set adds no interleaving there is one: one role for
  commands, pages and files of a store that all roles may write, one size.
- *`MaxGeneration`* bounds the generation of the allocation in which a plan change
  begins, together with the faults before and after it: with two generations a
  request can hold the key of one and the plan of the other.
- `one_server` is symmetric in its two keys and `plan_change` in its two
  requests; only safety is checked there.
- Deadlock is checked in the runs of `CheckoutCapacity` and `WorkerJobs`.  The
  other models stop where a bound is reached.

### Fairness

- *Time passes* (`WF`): sessions, holds and deadlines run out; a backoff passes;
  a lease expires.
- *Stripe* redelivers an event until it is acknowledged, and settles refunds
  (`WF`); this is its documented contract and what `webhook` relies on by
  throwing.
- *The reconciliation worker* starts pass after pass
  (`subscription-reconciliation-worker.ts:47–60`, `WF`), and every pass visits
  every open recovery, so a visit that is possible again and again happens
  (`SF` per key and operation).
- *Live agents* heartbeat, poll, execute and report
  (`provisioning-worker.ts:469–508`), and their container is restarted when they
  exit (`restart: unless-stopped`), each `WF`.
- *AI workers* poll, and each report or dies (`WF`).
- *The gateway reconciler* polls on a timer (`WF`); a read or a load that is
  possible again and again succeeds some time (`SF`).
- *The storage timer* and the loop's reconciliation go on (`WF`,
  `WorkerHost!Fairness`); a job may take for ever.

Not assumed: that a customer does anything, that Stripe's status stays put, that
a drain ends, that a worker becomes ready.  `RecoveryIsSettled` and
`CancellationRevokes` are conditional on `<>[]PassCompletes`, because in the code
one row that throws aborts the pass for everyone; `JobsEnd` and
`InstallsAreStopped` on `WorkersStayReady`, because a draining worker claims
nothing; `RevokedRoutesGo` on a load that is answered after one that was not,
because the reconciler skips the load otherwise.  The suite has no fairness:
everything it promises is safety, as all of it happens on somebody's request.

---

## 5. What is proved

Seven modules hold the theorems, and `SumTheorems` the facts about sums, lists and
largest elements that four of them share.  Each inductive invariant was first checked by TLC, those of the
tables below that are no property of a run with the configuration of the run and
the invariant added.

### Checkout and the capacity ledger

`CheckoutCapacity_proofs`, from `ConstantsAreWellTyped` (any numbers of
servers, checkouts, applications, workers and plans) and, for the last two, from
`QuantitiesAreWellTyped` (any demands, capacities and quotas in natural numbers,
no demand zero; finitely many applications to begin with):

| theorem | states |
|---|---|
| `TypeCorrect` | `TypeOK` always |
| `CoreSafety` | `CoreInvariant` always |
| `RefundsExcludeCapacity`, `LedgersAlwaysAgree`, `ProvidedOnlyOnce`, `PlacementsStayUnderQuota`, `EntitlementAlwaysFollowsRows` | its parts |
| `HistoryStaysFinal` | the action property `HistoryIsFinal` |
| `ImplementsObligation` | every step is a step of `PaidObligation` or a stutter |
| `CapacitySafety` | `CapacityInvariant` always |
| `NeverOvercommitted` | `NoOvercommit` always |

*The argument.*  None of the properties is inductive alone.  A payment is
provided once because a planned server has no allocation
(`PlannedIsUnallocated`), which needs that an allocated one has left the planned
state for good (`EntitlementFollowsRows`); placements are within quota because a
hold remembers a quote that was (`QuoteWithinQuota`) and because nothing of an
unallocated server is placed (`PlacedExist`); a refund excludes capacity because
the ledgers agree on what a processed event became (`LedgersAgree`), and events
stand for payments (`PaidFirst`).  `CoreInvariant` is their conjunction.  The
proof sorts steps into *quiet* ones, which leave ledgers, rows and placements
alone (`StepKinds`, `QuietCore`), and *loud* ones, each with a lemma; the three
placing actions share `ProvisionStep`, the writers of rows `SynchronizeStep`.
The quota test is never opened: the proof carries its verdict from the
transaction that makes it to the one that relies on it.

`NoOvercommit` bounds, for each worker, a sum over the placed applications and
over the promises of holds.  `CapacityInvariant` adds to it that the tables are
finite.  A step does one of four things to the ledger: it keeps or shrinks it
(`Keeps`), places applications (`Places`), turns a hold's promise into a placement
(`Consumes`) or makes a promise (`Holds`).  The second and fourth take what a
best fit of the free capacity gives, and `BestFitFits` shows from the definition
of the best fit that it exceeds no worker's; the third replaces a summand by an
equal one.  `SumTheorems` has what this needs of `MapThenSumSet`: a sum over
a finite set does not depend on the order of summation, splits over disjoint
sets, and is monotone.  The library's induction over finite sets takes an
operator parameter and cannot be used here, so these facts are proved
from a counterexample of least cardinality, which the well-foundedness of the
natural numbers provides.

### Worker jobs

`WorkerJobs_proofs`, from `WorkerConstantsAreWellTyped` (any finite set of
applications, any servers, workers, attempts, jobs and faults):

| theorem | states |
|---|---|
| `WorkerSafety` | `WorkerInvariant` always |
| `WorkerTypeCorrect`, `RevokedWorkAlwaysStops`, `LeaseIsAlwaysSole`, `SuspendedIffAlwaysRevoked`, `CleanupIsAlwaysQueued`, `LiveIsAlwaysUp` | its parts, and `LiveIsUp` which follows |

*The argument.*  `LiveIsUp` is not inductive: an agent may be in the middle of
the command that takes the containers of a live application down, and its job
must then still be unfinished (`LiveIsStable`); a revoked job may still be held
by an agent, so what an agent holds is tied to its worker and, once it has
succeeded, to the containers (`AgentsHoldTheirJobs`); and a claim finds the
worker of a job because jobs are bound to the placement of their application
(`JobsArePlaced`).  The first part of the module turns each step's effect on the
queue, a sequence, into facts about single jobs (`ExtendedQueue`, `QueueStep`,
`RequeuedJobs`, …); the rest never speaks of sequences.  Heartbeats, leases,
backoffs, nodes and refused reports are `Quiet` steps; payment, reactivation,
requests, revocation, claims, container commands and reports have a lemma each,
with a step for each part of the invariant.

### The AI queue

The first half of `Protocols_proofs`, from `ModuleAssumption` and `LimitAssumption` (any workers,
modules and limits):

| theorem | states |
|---|---|
| `TypeCorrect` | `TypeOK` always |
| `RunningIsEntitledHolds`, `AuditFollowsActionHolds` | no action runs for a module the plan has lost; a proposal awaits review exactly when its action was completed |
| `AnswersAreFinalHolds` | the action property `AnswersAreFinal` |

*The argument.*  Whatever a step does to the queue, it does one of six things to
an action (`Change`), or appends one; `Step` says so of every action of the
module, and both invariants and the action property are read off the changes.

### Plan changes

`PlanResize_proofs`, from `ResizeConstants` and `NullsAreNotKeys` (any plans,
requests, generations and numbers of faults; any usage but none, as a server that
has an allocation has an application):

| theorem | states |
|---|---|
| `ResizeSafety` | `ResizeInvariant` always |
| `ConsumedIsAlwaysBilled` | if the hold that Stripe's subscription names is consumed, the server has the plan Stripe bills |
| `HeldPlanAlwaysFits` | the applications fit every plan that a usable hold reserves |
| `GrantsFollowStripe` | the action property `GrantedOnlyAsBilled` |

*The argument.*  The route, the webhook and the pass each keep a copy of what
Stripe said while the others act, so the invariant says what a copy is worth:
every change at Stripe, done or still under way, has a hold (`CallsAreHeld`); what
a reader has copied was executed (`CopiesAreExecuted`); and once the change Stripe
names is consumed, the holds of all others it executed are of an older generation
than the allocation (`OlderAreStale`), so none of them is consumed after it.  None of
this uses the status of the copy, so it covers the webhook that commits a change of
a subscription that is past due or canceled by then.  A copy is done with once its
change is committed: what is compared and written afterwards touches no hold but to
release it (`Converged`, `Judged`, `Upsert`).  `GrantsFollowStripe`
is read off the steps: only consuming writes the plan, and it checks the copy.

### The edge

The second half of `Protocols_proofs`, from `HolderAssumption` and
`LookupsAssumption` (any applications, workspaces, hostnames, callbacks and lookups):

| theorem | states |
|---|---|
| `EdgeSafety` | `EdgeInvariant` always |
| `OnlyProvenIsRouted` | `RoutedIsProven` always |
| `OneIdentityPerFlow` | `AssertedOnce` always |

*The argument.*  What the proxy runs is older than what the reconciler applied,
and that older than the claims.  The invariant therefore says the same of the
fetched and of the loaded routes: each is an application's own address or was proven
by its holder (`FromClaims`), which no later step can undo; and a hostname has one
claim (`ClaimsUnique`).  Consuming a flow deletes it, so at most
one callback is between consumption and assertion (`OneCallback`).

### Migrations, backfill and placement

`Operations_proofs`, from `BuildAssumption` (a build has one content for each
version), `SalesAssumption` and `LoopAssumption` (finitely many applications, any
workers and quantities in natural numbers):

| theorem | states |
|---|---|
| `DeploySafety` | `DeployInvariant` always |
| `SchemaIsAlwaysRecorded` | `SchemaIsRecorded` always |
| `GrantsAreAlwaysSound` | `GrantsAreSound` always |
| `LoopSafety` | `LoopInvariant` always |
| `LoopComputesPlacement` | `ComputesPlacement` always |

*The argument.*  A process writes only under the migration lock and what its own
comparison with the ledger left pending, so the invariant says that one
process has the lock, that it writes each missing version once and nothing else
(`ProcessesInv`), and ties each server's quota, hold and applications to each other
(`ServersInv`).

`ComputesPlacement` compares the loop with the declarative placement `CheckoutCapacity`
reserves with.  The loop invariant is: the requests that remain are sorted, the
ones already placed have *the* best fit among the applications that come
first, and the bins hold what that leaves free.  It needs that a best fit is
unique where there is one (`BestFitAgrees`: of two that differ, take the first
application on which they do; up to it the free capacity is the same, and so
is its choice) and that some sorted order exists.  When the loop refuses, any
placement would agree with it up to the request that has no candidate, so there
is none.

### Money

The first half of `Counting_proofs`, from `MoneyAssumption` (any rates, prices, quantities, credits
and amounts in natural numbers; the bounds on numbers of rows are arbitrary):

| theorem | states |
|---|---|
| `MoneySafety` | `MoneyInvariant` always |
| `MoneyAlwaysAddsUp` | `MoneyAddsUp` always |

They are theorems of `MoneySpec`: a workspace whose enabled module is finance,
metering or operations.  `SuiteWorkspace` extends that specification with
the other modules; where one of those is enabled, `MoneyAddsUp` says nothing.

*The argument.*  `MoneyInvariant` is, for the enabled engine, one of three.
`BooksInvariant` adds to the balance of the books that every row refers to rows
that exist, that a draft is untouched by payments, and that a total is that of its
entries.  `CreditsInvariant` adds that a draft's total and its allocations make up
its subtotal: the loop of `draft-invoice` takes credits in order, each up to what
remains of the charge, and what it takes never exceeds the charge because it is
the remaining amounts of all credits before the last plus a part of the last
(`TakenWithinCharge`); `finalize-invoice` then refuses unless each credit
still has what was allocated, so the applications it writes sum to
the allocations.  `LedgerInvariant` adds the types of the rows.  The proof first
restates each as an operator of the lists alone, then has one lemma per command
saying how it changes the lists; sums over rows that a command adds or rewrites
are split with `SumTheorems`.

### Agreement

`Agreement_proofs`, from `AgreementAssumption` (clocks count from zero), for any sites, visitors,
addresses, subscribers, topics, attendees, testimonials and numbers of records:

| theorem | states |
|---|---|
| `AgreementSafety` | `AgreementInvariant` always |
| `ReachedOnlyWithConsent` | `OnlyWithConsent` always |

They are theorems of `AgreementSpec`: a workspace whose enabled module is consent,
email, notify, live or testimonials.

*The argument.*  `AgreementInvariant` is, for the enabled engine, one of five.

- *consent* (`ConsentInvariant`).  A visitor's choice is read, answered and appended
  in three transactions, and the site's configuration, the policy and the other
  receipts change in between.  So what a request carries is worth as much as what a
  receipt says: both name a policy of the site that was published once, and an
  earlier receipt of the same visitor on the same site (`Names`).  Publishing
  supersedes the site's other policy, which keeps the live one unique.
- *email* (`MailInvariant`).  A plan goes to those subscribed when it was made, so
  what must be kept is the way there: an approved campaign names an approval of its
  present version, a scheduled one a schedule of it, a schedule belongs to one
  campaign and is planned once (`CampaignsApproved`); a new version of the campaign
  clears both.  An active subscriber consented after every suppression it ever had
  (`SubscribersConsented`).
- *notify* (`NotifyInvariant`).  What was delivered stays delivered, so the log is
  read up to each entry.  The published workflow of an event exists, is bound to an
  existing topic and renders only fields of the schema (`WorkflowsBound`); at most
  one is published for an event, so an event's decision is one.
- *live* (`LiveInvariant`).  A recording is compared with the consents as they were
  at its start, which later ones do not change (`RecordedAsSnapshot`); the
  people present are those admitted (`SessionNamesAdmitted`), which is why an answer
  is by somebody who could read its prompt.  The creator and a presenter may have
  been admitted as attendees too; they read the session either way.
- *testimonials* (`TestimonialsInvariant`).  A testimonial is revoked exactly when
  its consent is, a publication is published only of a published testimonial, and a
  widget that is served holds only such publications; the withdrawal of a consent
  rewrites all three lists in one step.  The request a testimonial came from is
  consumed, which is why a second one is not accepted for it.

The proof restates each invariant as operators of the lists alone (`Sites`,
`Receipts`, `Linked`, `Logged`, `Recorded`, `Accepts`, …), and has a step for each
command saying which list it extends or rewrites.

### Once

The second half of `Counting_proofs`, from `OnceAssumption` (seats, amounts, sizes
and clocks are natural numbers, no page has the number that means none, and a
higher plan allows no less, as `suite-quotas.ts:41–45` has it), for any prices,
hosts, slots, durations, people, engines, keys, decisions, requests and plans:

| theorem | states |
|---|---|
| `OnceSafety` | `OnceInvariant` always |
| `NothingGivenTwice` | `NothingTwice` always |

They are theorems of `OnceSpec`: a workspace whose enabled module is events,
schedule, people, commands or store.

*The argument.*  `OnceInvariant` is, for the enabled engine, one of five.

- *events* (`EventsInvariant`).  A ticket is one of those its reservation paid for,
  and no two of a reservation have the same number.  So the tickets of a type are
  pairs of a paid reservation and one of its seats, and as many as the seats
  of those (`FibresCount`), which are held; time only takes lapsed reservations out
  of what is held, and a new hold or a late payment is admitted only if what is held
  then, itself included, still fits.
- *schedule* (`ScheduleInvariant`).  A booking follows an older one, so a new one
  has no successor yet; and a slot a page listed fits its release, whose hours no
  later step changes, so it still fits when the visitor's request arrives.
  Moving a booking replaces one confirmed booking by another in one step, and
  the host's other bookings are compared with the new hour.
- *people* (`PeopleInvariant`).  What a decision, a submission or a closing refers to
  exists, so a new row has none; the corrections of an attendance form a chain
  whose last value is the present one.
- *commands* (`CommandsInvariant`).  Whatever was done left a receipt that names it,
  its key and its decision.  So a key that is used again, or a decision that is
  given again, finds the receipt and does nothing.
- *store* (`StoreInvariant`).  A request reads its plan before the lock, and the
  plan may fall before it writes.  `best` is the best plan since it began, so what
  the request read is no better (`plan <= best`), and what had room under the
  one has room under the other.  A command of several writes carries its draft, and
  in the memory store what a rollback restores; both had room as well.

The proof restates each invariant as operators of the lists alone, then has one
lemma per command, saying how it extends or rewrites a list and what that does
to the counts.  A count over rows that a command adds or rewrites is split with
`SumTheorems` (`ListWidens`, `AtMostOne`, `FibresCount`).

### Only model-checked

- *Liveness*: `RecoveryIsSettled`, `CancellationRevokes`, `JobsEnd`,
  `InstallsAreStopped`, `ActionsEnd`, `RevokedRoutesGo`, `StaysQuarantined`; it is
  out of reach of the provers used here.
- *The properties of `suite`* other than `MoneyAddsUp`, `NothingTwice` and
  `OnlyWithConsent`: not out of reach, but each is a conjunction over several engines with an invariant of
  its own to find.  They are next in the [plan](#2-plan).

---

## 6. Where code and documentation disagree

Each run below checks one sentence of the repository, and TLC finds a behaviour
of the code that contradicts it.

| run | the sentence | the behaviour |
|---|---|---|
| `paid_is_recorded` | "Signed payment evidence must remain recoverable …" (migration 013) | a pass between payment and webhook inserts the row; every delivery of the paid event then throws (`subscription-reconciliation.ts:303`, `repository.ts:1567`) |
| `backfill_is_idempotent` | "The migration command then runs a serialized, idempotent legacy backfill" (docs/paid-plan-capacity.md:34) | after the first server sold by checkout, or the first quota resized or reactivated, every later `npm run migrate` fails after it has committed its migrations (`legacy-capacity-backfill.ts:108–121, 240`) |

### What is known not to hold

Met while modelling, each a behaviour of the models; the properties are stated
of what the code does, so none of these is hidden by a property that passes.

**Payments.**
- An `active` event of a subscription overwrites its pending recovery row
  (`billing.ts:213`, `repository.ts:1510`), after which advance and retry throw;
  README.md:250 and docs/checkout-capacity-holds.md:9 say pending rows stay
  non-entitled.
- The cancellation a compensation causes suspends the planned server, which then
  cannot check out again (`repository.ts:1515, 1284`;
  docs/checkout-capacity-holds.md:19); and it changes the row before the
  compensation is recorded, so recording it throws on every pass and ends the
  pass for everybody (`repository.ts:1689`).
- A webhook that retrieved an active subscription may commit after the
  compensation, and passes leave the row of a compensated recovery alone
  (`subscription-reconciliation.ts:251`).
- A start that runs on a stopped application when its server is suspended is
  refused at its report, and no stop job is queued (`repository.ts:1517`).  An
  install revoked by a suspension is not queued again after reactivation; a stop
  queued by a revocation survives reactivation and stops the paid application.
  A node that dies holding a job keeps it while it drains.

**Plan changes.**  A consumed change whose allocation was suspended and
reactivated has another generation, and consuming it throws in the webhook and
in the pass (docs/paid-plan-capacity.md:121); usage can outgrow a smaller plan
that Stripe already bills (docs/paid-plan-capacity.md:109); the webhook of an
active status commits the change named by a subscription that is past due or
canceled when it is retrieved, and then sets the row inactive, or throws if it
cannot, so that Stripe delivers the event again (`billing.ts:196–206`); the hold a
repeated request gets may lapse, and another change be held, before Stripe answers
the repeat (`repository.ts:1712–1717`); a listing older than
an upgrade deactivates it until the next pass; a released or expired hold makes
a retry of the same plan at the same generation refused for ever.

**Edge.**  After a load whose answer was lost, or after a restart of the proxy,
the routes are not loaded again until they change (`gateway-reconciler.ts:57`);
a stale DNS answer overwrites a newer status; nothing deletes a domain row.

**Worker host.**  A backup of a stopped application starts it; its archive holds
the Compose file and the marker, so a restore brings both back; a failed upgrade
leaves the new image in the Compose file, and a later backup reports the old
containers live; a job past its check of the marker starts a just-quarantined
application until the next scan; a failed reload after a reported success makes
the second report refused and ends the process.

**Access.**  A member removed between his transaction's look-up and its write
still writes; a token's request runs in its user's new workspace if he is moved
while it is under way (`findApiTokenPrincipal`'s workspace is not carried on);
a removed member who makes any request owns a workspace from then on and cannot
be added anywhere again; of two simultaneous sign-ups of one email the second
fails with a server error.

**Store and pages.**  `updated_at` is the start of the transaction, so a write
that waited may move it back; cursors carry milliseconds, so of two records of
one millisecond the page after the first leaves the other out
(`suite-store.ts:1105`, `postgres-values.ts:8`), while
tests/module-read-model.test.ts:46 has equal times listed exactly once (of the
memory store); the memory store's
rollback takes others' acknowledged writes back (previews only); a workspace
over its storage quota can update nothing; `updatePublicWorkflowRecord` checks
the plan in the memory store only.

**Commands.**  A replay throws when a record its receipt names may no longer be
read; a retry with a renewed approval is another request, and is refused; a
session token or an export of addresses is not given again.

**AI.**  In the memory store only a proposal's audit record follows its action, the
others stay at `pending-model` (`suite-store.ts:734–739`); an exhausted or revoked action is failed while its audit stays queued;
a slow worker's *failure* report can fail an action another worker runs, as it
names the action and not the claim (`ai-worker.ts:416`); a member's request
without a target in `metering` is queued and always refused by the worker; and
evidence outside the module's read scopes is accepted at the queueing in three
contracts, where the action then always fails.

**Public pages.**  Lists are the newest 10,000, so a contest or a link with more
receipts goes dark (`public-growth.ts:161`); a page answers 404 while another
version of it is being published; a consent time is floored to its minute and
part of the request, so a retry in a later minute is refused
(`public-growth.ts:146`); a form's page hides the target of a `show` rule that
does not fire, the engine does not (`public-form-schedule.ts:140`,
`schedule-forms-flags-engine.ts:485–490`); after a lost answer, changed answers
under the page's key are refused until it is reloaded; a replayed booking that
was moved is shown at its old time.

**Engines.**  Scheduled posts may be dispatched once per approval; a departed
participant makes every later command on a meeting or course throw; a payment
receipt that comes after its reservation lapsed is refused; an invoice draft
whose credits went elsewhere can never be finalized; a refusal after its start
stops no recording; a certificate in a second format is the first one; a fraud
signal after the freeze leaves a draw stuck; an order may be invoiced twice; a
subscriber who complained and then unsubscribed can be reactivated
(`email-engine.ts:327`; shared/email-actions.ts:175); a merged feedback request
may be merged on (shared/core-business-actions.ts:173); rescheduling checks
neither duration nor slot grid; an older approved policy may be published over a
newer one; uniqueness of a program or of a review receipt is checked among the
records the caller may read only (`extended-business-engine.ts:668, 876`).

---

## 7. What is not modelled

- *Client, CLI, MCP front ends and the release tooling*
  (`client/`, `cli/`, `mcp/`, `scripts/`, `deploy/`, `infra/`): they call the
  HTTP API or render its answers, and keep no state of the system.
- *Configuration and cryptography*: parsing of the environment, password
  hashing, signatures, TLS, rate limits.  Each is a check that passes or
  refuses.
- *`MemoryRepository`* and the preview's `store.ts`.  The models are of the
  PostgreSQL repository in hosted-entitlement mode; of the suite both stores are
  modelled.
- *The plan of a workspace* follows its server's subscription by a
  synchronisation on each request (`app.ts:449–466`): models of the suite let
  the plan change at any time instead.
- In `CheckoutCapacity`: foreign and malformed Stripe rows, and the dry-run mode
  of the reconciliation.
- In `WorkerJobs`: `uninstall`, which nothing in the code queues; installs
  without a worker (`repository.ts:1821`), which only rows older than checkout
  holds have; the registration of nodes; the upload of backups; jobs of clones.
- In the engines: commands that only create a record nothing later reads, dry
  runs, exports of text, and the schema of inputs.  The core engine's snapshots
  and `external` executor, the AI completion functions of the engines and the
  in-memory premium engine have no callers in the server.
- *The worker's jobs beside the timer* run one application: that another
  application's quarantine blocks a job is not exercised.
- *Requests of one checkout key* are one at a time: two simultaneous ones
  serialise on the advisory lock and then follow the replay path.

---

## 8. Running it

With `tlc` and `tlapm` on the path, in this directory:

```
tlc -workers 2 -config Contention.cfg     MCCheckoutCapacity.tla
tlc -workers 2 -config OneServer.cfg      MCCheckoutCapacity.tla
tlc -workers 2 -config Solo.cfg           MCCheckoutCapacity.tla
tlc -workers 2 -config TwoWorkers.cfg     MCWorkerJobs.tla
tlc -workers 2 -config OneWorker.cfg      MCWorkerJobs.tla
tlc -workers 2 -config PlanResize.cfg     PlanResize.tla
tlc -workers 2 -config AiQueue.cfg        AiQueue.tla
tlc -workers 2 -config Edge.cfg           Edge.tla
tlc -workers 2 -config Operations.cfg     Operations.tla
tlc -workers 2 -config SuiteWorkspace.cfg SuiteWorkspace.tla
tlapm CheckoutCapacity_proofs.tla
tlapm WorkerJobs_proofs.tla
tlapm PlanResize_proofs.tla
tlapm Protocols_proofs.tla
tlapm Operations_proofs.tla
tlapm SumTheorems.tla
tlapm Counting_proofs.tla
tlapm Agreement_proofs.tla
```

The runs end without an error, the largest after two million distinct states
and within minutes; the proofs take a few minutes each, `Counting_proofs` a
quarter of an hour.  To check one part of a
workspace alone, give `Offered` that part only.  `PaidIsRecorded.cfg` (with
`MCCheckoutCapacity`) and `BackfillIsIdempotent.cfg` (with `Operations`) end with
a counterexample.

Operators named in a comment as a *mutant* of another one state a plausible bug
of the code (a missing sweep, a dropped guard); `PROJECT.json` pairs each with
the property that breaks when it replaces the original.
