---------------------- MODULE CheckoutCapacity_proofs ----------------------
(***************************************************************************)
(* Type correctness of CheckoutCapacity and its CoreInvariant, for any     *)
(* servers, checkouts, applications, workers, plans and quantities, and    *)
(* what follows from it: the safety properties it is made of, the finality *)
(* of history, and that the checkout core implements PaidObligation.  Last *)
(* comes capacity: what runs and what is held never exceeds a worker.      *)
(*                                                                         *)
(* The quota test (EnvelopeFits) is never opened: the proofs only carry    *)
(* its verdict from the step that makes it to the steps that rely on it.   *)
(* The capacity proof opens the best fit and the sums it is made of, with  *)
(* the lemmas of SumTheorems.                                              *)
(***************************************************************************)
EXTENDS CheckoutCapacity, SumTheorems, TLAPS

-----------------------------------------------------------------------------
(* Types *)

\* An assignment that best-fit finds sends every application to a worker.
LEMMA PlacementType ==
  ASSUME TypeOK, NEW A \in SUBSET App, NEW asg \in Placement(A)
  PROVE  asg \in [A -> Worker] /\ asg \in Assignment
  BY DEF Placement, Placements, TypeOK, Assignment

\* Recording expiries keeps holds in their states.
LEMMA SweptType ==
  ASSUME TypeOK
  PROVE  Swept \in [Key -> HoldState]
  BY DEF TypeOK, Swept, HoldState

\* The items of a hold assign a set of applications.
LEMMA ItemsType ==
  ASSUME TypeOK, NEW k \in Key
  PROVE  DOMAIN items[k] \in SUBSET App /\ items[k] \in [DOMAIN items[k] -> Worker]
<1>1. items[k] \in Assignment
  BY DEF TypeOK
<1>2. PICK A \in SUBSET App : items[k] \in [A -> Worker]
  BY <1>1 DEF Assignment
<1> QED
  BY <1>2

\* The comparison at the end of a pass wants statuses a row may have.
LEMMA ReconciledType ==
  ASSUME TypeOK, InPass
  PROVE  \A k \in Key : ReconciledStatus(k) \in SubStatus
<1>1. listing \in [Key -> ProviderStatus \cup {"none"}]
  BY DEF TypeOK, InPass
<1>2. sub \in [Key -> SubStatus]
  BY DEF TypeOK
<1>3. ProviderStatus \subseteq {"active", "past_due", "canceled"}
  BY ConstantsAreWellTyped DEF ConstantsAreWellTyped
<1>4. ASSUME NEW k \in Key PROVE ReconciledStatus(k) \in SubStatus
  <2>1. sub[k] \in SubStatus /\ listing[k] \in ProviderStatus \cup {"none"}
    BY <1>1, <1>2
  <2>2. ReconciledStatus(k) \in {sub[k], "none", "inactive", listing[k]}
    BY DEF ReconciledStatus
  <2> QED
    BY <1>3, <2>1, <2>2 DEF SubStatus
<1> QED
  BY <1>4

\* The empty set of writes is one.
LEMMA NoWritesType == NoWrites \in UNION {[K -> SubStatus] : K \in SUBSET Key}
<1>1. NoWrites \in [{} -> SubStatus]
  BY DEF NoWrites
<1>2. {} \in SUBSET Key
  OBVIOUS
<1> QED
  BY <1>1, <1>2

\* The writes a comparison decides give statuses to rows.
LEMMA ComparisonType ==
  ASSUME TypeOK, CompareWithListing
  PROVE  writes' \in UNION {[K -> SubStatus] : K \in SUBSET Key}
<1> DEFINE K == {j \in Key : ReconciledStatus(j) # sub[j]}
<1>1. \A k \in K : ReconciledStatus(k) \in SubStatus
  BY ReconciledType DEF CompareWithListing
<1>2. writes' = [k \in K |-> ReconciledStatus(k)]
  BY DEF CompareWithListing
<1>3. writes' \in [K -> SubStatus] /\ K \in SUBSET Key
  BY <1>1, <1>2
<1> QED
  BY <1>3

\* Rows stay well typed under the writes of a pass.
LEMMA WrittenRowsType ==
  ASSUME TypeOK
  PROVE  \A k \in Key : (IF k \in DOMAIN writes THEN writes[k] ELSE sub[k]) \in SubStatus
<1>1. PICK K \in SUBSET Key : writes \in [K -> SubStatus]
  BY DEF TypeOK
<1>2. sub \in [Key -> SubStatus]
  BY DEF TypeOK
<1> QED
  BY <1>1, <1>2

\* Workers that come and go are workers.
LEMMA ReadyType ==
  ASSUME TypeOK, NEW w \in Worker, WorkerChanges(w)
  PROVE  ready' \subseteq Worker
<1>1. ready \subseteq Worker
  BY DEF TypeOK
<1>2. ready' = ready \ {w} \/ ready' = ready \cup {w}
  BY DEF WorkerChanges
<1> QED
  BY <1>1, <1>2

\* The initial state is well typed.
LEMMA InitType == Init => TypeOK
<1> SUFFICES ASSUME Init PROVE TypeOK
  OBVIOUS
<1>1. writes \in UNION {[K -> SubStatus] : K \in SUBSET Key}
  BY NoWritesType DEF Init
<1>2. items \in [Key -> Assignment]
  <2>1. NoItems \in [{} -> Worker] /\ {} \in SUBSET App
    BY DEF NoItems
  <2>2. NoItems \in Assignment
    BY <2>1 DEF Assignment
  <2> QED
    BY <2>2 DEF Init
<1>3. /\ hold \in [Key -> HoldState]
      /\ lapsed \subseteq Key
      /\ heldPlan \in [Key -> Plan \cup {NoPlan}]
      /\ attached \subseteq Key
      /\ call \in [Key -> {"idle", "held", "created"}]
      /\ session \in [Key -> {"none", "open", "paid", "gone"}]
      /\ provider \in [Key -> ProviderStatus \cup {"none"}]
      /\ events \in [Key -> SUBSET ProviderStatus]
      /\ refund \in [Key -> {"none", "pending", "failed", "confirmed"}]
      /\ processed \subseteq Key
      /\ sub \in [Key -> SubStatus]
      /\ recovery \in [Key -> RecoveryState]
      /\ overdue \subseteq Key
      /\ alloc \in [Key -> {"none", "active", "suspended"}]
  BY DEF Init, HoldState, SubStatus, RecoveryState
<1>4. /\ state \in [Installation -> {"planned", "open", "suspended"}]
      /\ plan \in [Installation -> Plan]
      /\ apps \subseteq App
      /\ placed \in [App -> Worker \cup {NoWorker}]
      /\ retrieved \subseteq Key
      /\ verdict \in [Key -> {"none", "active", "inactive"}]
      /\ listing \in [Key -> ProviderStatus \cup {"none"}] \cup {NoListing}
      /\ ready \subseteq Worker
      /\ edit \in [Installation -> Plan \cup {NoPlan}]
      /\ faults \in 0..MaxFaults
  BY ConstantsAreWellTyped DEF Init, ConstantsAreWellTyped
<1> QED
  BY <1>1, <1>2, <1>3, <1>4 DEF TypeOK

\* Every step of the code keeps every variable in its type.
LEMMA StepType ==
  ASSUME TypeOK, [Next]_vars
  PROVE  TypeOK'
<1> USE ConstantsAreWellTyped
    DEF TypeOK, ConstantsAreWellTyped, holdVars, requestVars, stripeVars, ledgerVars, serverVars,
        webhookVars, passVars, controlVars, Fault
<1>1. ASSUME NEW k \in Key, AcquireCheckoutCapacityHold(k) PROVE TypeOK'
  BY <1>1, SweptType, PlacementType
  DEF AcquireCheckoutCapacityHold, AppsOf, HoldState
<1>2. ASSUME NEW k \in Key, ReplayCheckoutCapacityHold(k) PROVE TypeOK'
  BY <1>2, SweptType
  DEF ReplayCheckoutCapacityHold
<1>3. ASSUME NEW k \in Key, CreateCheckout(k) PROVE TypeOK'
  BY <1>3
  DEF CreateCheckout
<1>4. ASSUME NEW k \in Key, CreateCheckoutFails(k) PROVE TypeOK'
  BY <1>4
  DEF CreateCheckoutFails, Released, HoldState
<1>5. ASSUME NEW k \in Key, AttachCheckoutSession(k) PROVE TypeOK'
  BY <1>5
  DEF AttachCheckoutSession
<1>6. ASSUME NEW k \in Key, AttachCheckoutSessionFails(k) PROVE TypeOK'
  BY <1>6
  DEF AttachCheckoutSessionFails, Released, HoldState
<1>7. ASSUME NEW k \in Key, RequestDies(k) PROVE TypeOK'
  BY <1>7
  DEF RequestDies
<1>8. ASSUME NEW k \in Key, HoldLapses(k) PROVE TypeOK'
  BY <1>8
  DEF HoldLapses
<1>9. ASSUME NEW k \in Key, SessionExpires(k) PROVE TypeOK'
  BY <1>9
  DEF SessionExpires
<1>10. ASSUME NEW k \in Key, Pay(k) PROVE TypeOK'
  BY <1>10
  DEF Pay, Announce
<1>11. ASSUME NEW k \in Key, DeadlinePasses(k) PROVE TypeOK'
  BY <1>11
  DEF DeadlinePasses
<1>12. ASSUME NEW k \in Key, RefundSettles(k) PROVE TypeOK'
  BY <1>12
  DEF RefundSettles
<1>13. ASSUME NEW k \in Key, NEW s \in ProviderStatus, ProviderChanges(k, s) PROVE TypeOK'
  BY <1>13
  DEF ProviderChanges, Announce
<1>14. ASSUME NEW k \in Key, PaidWebhookRetrieves(k) PROVE TypeOK'
  BY <1>14, SweptType
  DEF PaidWebhookRetrieves
<1>15. ASSUME NEW k \in Key, PaidWebhookFails(k) PROVE TypeOK'
  BY <1>15
  DEF PaidWebhookFails
<1>16. ASSUME NEW k \in Key, ProcessPaidCheckout(k) PROVE TypeOK'
  BY <1>16, SweptType
  DEF ProcessPaidCheckout, RecordPaidEvent, Provision, Place, HoldState, SubStatus, Assignment
<1>17. ASSUME NEW k \in Key, ProcessLatePaidCheckout(k) PROVE TypeOK'
  BY <1>17, SweptType, PlacementType
  DEF ProcessLatePaidCheckout, RecordPaidEvent, Provision, Place, PaidEvidence, SnapshotHolds, AppsOf, SubStatus, RecoveryState
<1>18. ASSUME NEW k \in Key, DeferLatePaidCheckout(k) PROVE TypeOK'
  BY <1>18, SweptType
  DEF DeferLatePaidCheckout, RecordPaidEvent, SubStatus, RecoveryState
<1>19. ASSUME NEW k \in Key, SubscriptionWebhookRetrieves(k) PROVE TypeOK'
  BY <1>19
  DEF SubscriptionWebhookRetrieves
<1>20. ASSUME NEW k \in Key, ActiveSubscriptionWebhook(k) PROVE TypeOK'
  BY <1>20
  DEF ActiveSubscriptionWebhook, UpdateSubscriptionStatus, SynchronizeEntitlement, Acknowledge, SubStatus
<1>21. ASSUME NEW k \in Key, NEW s \in ProviderStatus, InactiveSubscriptionWebhook(k, s) PROVE TypeOK'
  BY <1>21
  DEF InactiveSubscriptionWebhook, UpdateSubscriptionStatus, SynchronizeEntitlement, Acknowledge, SubStatus
<1>22. ASSUME NEW k \in Key, AdvancePaidCheckoutCapacityRecovery(k) PROVE TypeOK'
  BY <1>22
  DEF AdvancePaidCheckoutCapacityRecovery, SubStatus, RecoveryState
<1>23. ASSUME NEW k \in Key, RetryPaidCheckoutCapacityRecovery(k) PROVE TypeOK'
  <2>1. PICK asg \in Placement(DOMAIN items[k]) : Provision(k, asg)
    BY <1>23 DEF RetryPaidCheckoutCapacityRecovery
  <2>2. DOMAIN items[k] \in SUBSET App
    BY ItemsType
  <2>3. asg \in [DOMAIN items[k] -> Worker]
    BY <2>1, <2>2, PlacementType
  <2> QED
    BY <1>23, <2>1, <2>2, <2>3
    DEF RetryPaidCheckoutCapacityRecovery, Provision, Place, SubStatus, RecoveryState
<1>24. ASSUME NEW k \in Key, CompensatePaidCapacity(k) PROVE TypeOK'
  BY <1>24
  DEF CompensatePaidCapacity, CancelAtStripe, Announce
<1>25. ASSUME NEW k \in Key, MarkPaidCheckoutCapacityCompensated(k) PROVE TypeOK'
  BY <1>25
  DEF MarkPaidCheckoutCapacityCompensated, SubStatus, RecoveryState
<1>26. ASSUME BeginPass PROVE TypeOK'
  BY <1>26
  DEF BeginPass
<1>27. ASSUME ApplySubscriptionReconciliation PROVE TypeOK'
  BY <1>27, WrittenRowsType, NoWritesType
  DEF ApplySubscriptionReconciliation, SynchronizeEntitlement
<1>28. ASSUME PassFails PROVE TypeOK'
  BY <1>28, NoWritesType
  DEF PassFails
<1>29. ASSUME ExpireCheckoutCapacityHolds PROVE TypeOK'
  BY <1>29, SweptType
  DEF ExpireCheckoutCapacityHolds
<1>30. ASSUME NEW w \in Worker, WorkerChanges(w) PROVE TypeOK'
  BY <1>30, ReadyType DEF WorkerChanges
<1>31. ASSUME NEW i \in Installation, NEW p \in Plan, BeginPlanChange(i, p) PROVE TypeOK'
  BY <1>31, SweptType
  DEF BeginPlanChange
<1>32. ASSUME NEW i \in Installation, FinishPlanChange(i) PROVE TypeOK'
  BY <1>32, SweptType
  DEF FinishPlanChange
<1>33. ASSUME NEW a \in App, CreateApplicationClone(a) PROVE TypeOK'
  BY <1>33, SweptType, PlacementType
  DEF CreateApplicationClone, Place
<1>34. ASSUME CompareWithListing PROVE TypeOK'
  BY <1>34, ComparisonType
  DEF CompareWithListing
<1>35. CASE UNCHANGED vars
  BY <1>35 DEF vars
<1> QED
  BY <1>1, <1>2, <1>3, <1>4, <1>5, <1>6, <1>7, <1>8, <1>9, <1>10, <1>11, <1>12, <1>13, <1>14, <1>15, <1>16, <1>17, <1>18, <1>19, <1>20, <1>21, <1>22, <1>23, <1>24, <1>25, <1>26, <1>27, <1>28, <1>29, <1>30, <1>31, <1>32, <1>33, <1>34, <1>35
  DEF Next, CheckoutRequest, Environment, PaidWebhook, SubscriptionWebhook, Reconciliation

-----------------------------------------------------------------------------
\* Every variable of the checkout core stays in its type: in particular holds,
\* recoveries, rows and quotas are only ever in a state the schema allows.
THEOREM TypeCorrect == Spec => []TypeOK
<1>1. Init => TypeOK
  BY InitType
<1>2. TypeOK /\ [Next]_vars => TypeOK'
  BY StepType
<1> QED
  BY <1>1, <1>2, PTL DEF Spec

-----------------------------------------------------------------------------
(* Kinds of steps *)

\* A step that leaves the ledgers, the quotes, the rows and the placements
\* alone.  An active hold may expire or be released, a customer may pay, and a
\* webhook may retrieve a subscription that is paid for.
Quiet ==
  /\ UNCHANGED <<heldPlan, items, refund, processed, sub, recovery, alloc, state, apps, placed>>
  /\ lapsed \subseteq lapsed'
  /\ \A k \in Key : \/ hold'[k] = hold[k]
                    \/ hold[k] = "active" /\ hold'[k] \in {"expired", "released"}
  /\ attached \subseteq attached'
  /\ \/ \A k \in Key : session'[k] = "paid" <=> session[k] = "paid"
     \/ \E k \in Key : session[k] # "paid" /\ session' = [session EXCEPT ![k] = "paid"]
  /\ \A k \in retrieved' : k \in retrieved \/ (session[k] = "paid" /\ k \in attached)

\* The steps that do something to them.
Loud ==
  \/ \E k \in Key :
       \/ AcquireCheckoutCapacityHold(k)
       \/ ProcessPaidCheckout(k) \/ ProcessLatePaidCheckout(k) \/ DeferLatePaidCheckout(k)
       \/ ActiveSubscriptionWebhook(k)
       \/ \E s \in ProviderStatus : InactiveSubscriptionWebhook(k, s)
       \/ AdvancePaidCheckoutCapacityRecovery(k) \/ RetryPaidCheckoutCapacityRecovery(k)
       \/ CompensatePaidCapacity(k) \/ RefundSettles(k) \/ MarkPaidCheckoutCapacityCompensated(k)
  \/ ApplySubscriptionReconciliation
  \/ \E a \in App : CreateApplicationClone(a)

\* Recording expiries changes active holds only, into expired ones.
LEMMA SweptStep ==
  ASSUME TypeOK
  PROVE  \A k \in Key : Swept[k] = hold[k] \/ (hold[k] = "active" /\ Swept[k] = "expired")
  BY DEF Swept

\* Every step is of one of the two kinds.
LEMMA StepKinds ==
  ASSUME TypeOK, [Next]_vars
  PROVE  Quiet \/ Loud
<1> SUFFICES ASSUME hold \in [Key -> HoldState], session \in [Key -> {"none", "open", "paid", "gone"}],
                    attached \subseteq Key, retrieved \subseteq Key
             PROVE  Quiet \/ Loud
  BY DEF TypeOK
<1> USE DEF Quiet, holdVars, requestVars, stripeVars, ledgerVars, serverVars, webhookVars, passVars, controlVars
<1>1. ASSUME NEW k \in Key, ReplayCheckoutCapacityHold(k) PROVE Quiet
  BY <1>1, SweptStep DEF ReplayCheckoutCapacityHold
<1>2. ASSUME NEW k \in Key, CreateCheckout(k) PROVE Quiet
  BY <1>2 DEF CreateCheckout
<1>3. ASSUME NEW k \in Key, CreateCheckoutFails(k) PROVE Quiet
  BY <1>3 DEF CreateCheckoutFails, Released
<1>4. ASSUME NEW k \in Key, AttachCheckoutSession(k) PROVE Quiet
  BY <1>4 DEF AttachCheckoutSession
<1>5. ASSUME NEW k \in Key, AttachCheckoutSessionFails(k) PROVE Quiet
  BY <1>5 DEF AttachCheckoutSessionFails, Released
<1>6. ASSUME NEW k \in Key, RequestDies(k) PROVE Quiet
  BY <1>6 DEF RequestDies
<1>7. ASSUME NEW k \in Key, HoldLapses(k) PROVE Quiet
  BY <1>7 DEF HoldLapses
<1>8. ASSUME NEW k \in Key, SessionExpires(k) PROVE Quiet
  BY <1>8 DEF SessionExpires
<1>9. ASSUME NEW k \in Key, Pay(k) PROVE Quiet
  BY <1>9 DEF Pay, Announce
<1>10. ASSUME NEW k \in Key, DeadlinePasses(k) PROVE Quiet
  BY <1>10 DEF DeadlinePasses
<1>11. ASSUME NEW k \in Key, NEW s \in ProviderStatus, ProviderChanges(k, s) PROVE Quiet
  BY <1>11 DEF ProviderChanges, Announce
<1>12. ASSUME NEW k \in Key, PaidWebhookRetrieves(k) PROVE Quiet
  BY <1>12, SweptStep DEF PaidWebhookRetrieves
<1>13. ASSUME NEW k \in Key, PaidWebhookFails(k) PROVE Quiet
  BY <1>13 DEF PaidWebhookFails
<1>14. ASSUME NEW k \in Key, SubscriptionWebhookRetrieves(k) PROVE Quiet
  BY <1>14 DEF SubscriptionWebhookRetrieves
<1>15. ASSUME BeginPass PROVE Quiet
  BY <1>15 DEF BeginPass
<1>16. ASSUME PassFails PROVE Quiet
  BY <1>16 DEF PassFails
<1>17. ASSUME ExpireCheckoutCapacityHolds PROVE Quiet
  BY <1>17, SweptStep DEF ExpireCheckoutCapacityHolds
<1>18. ASSUME NEW w \in Worker, WorkerChanges(w) PROVE Quiet
  BY <1>18 DEF WorkerChanges
<1>19. ASSUME NEW i \in Installation, NEW p \in Plan, BeginPlanChange(i, p) PROVE Quiet
  BY <1>19, SweptStep DEF BeginPlanChange
<1>20. ASSUME NEW i \in Installation, FinishPlanChange(i) PROVE Quiet
  BY <1>20, SweptStep DEF FinishPlanChange
<1>21. ASSUME CompareWithListing PROVE Quiet
  BY <1>21 DEF CompareWithListing
<1>22. ASSUME UNCHANGED vars PROVE Quiet
  BY <1>22 DEF vars
<1> QED
  <2> HIDE DEF Quiet
  <2> QED
    BY <1>1, <1>2, <1>3, <1>4, <1>5, <1>6, <1>7, <1>8, <1>9, <1>10, <1>11, <1>12, <1>13,
     <1>14, <1>15, <1>16, <1>17, <1>18, <1>19, <1>20, <1>21, <1>22
    DEF Next, CheckoutRequest, Environment, PaidWebhook, SubscriptionWebhook, Reconciliation, Loud

-----------------------------------------------------------------------------
(* What parts of a step keep parts of the invariant *)

\* A planned server has no quota allocation.
LEMMA PlannedIsUnallocated ==
  ASSUME EntitlementFollowsRows, NEW k \in Key, state[ServerOf[k]] = "planned"
  PROVE  alloc[k] = "none"
  BY DEF EntitlementFollowsRows

\* No server has two allocations while no allocation is made.
LEMMA SameAllocations ==
  ASSUME ProvidedOnce, PlacedExist, PlacedUnderQuota, UNCHANGED <<apps, placed, heldPlan>>,
         \A k \in Key : alloc'[k] = "none" <=> alloc[k] = "none"
  PROVE  ProvidedOnce' /\ PlacedExist' /\ PlacedUnderQuota'
<1>1. ProvidedOnce'
  BY DEF ProvidedOnce, KeysOf
<1>2. PlacedExist'
  BY DEF PlacedExist
<1>3. PlacedUnderQuota'
  <2> SUFFICES ASSUME NEW i \in Installation
               PROVE  LET mine == {k \in KeysOf(i) : alloc'[k] # "none"}
                      IN /\ \A a \in AppsOf(i) : placed[a] # NoWorker <=> mine # {}
                         /\ \A k \in mine : EnvelopeFits(AppsOf(i), Demand, Quota[heldPlan[k]])
    BY DEF PlacedUnderQuota, AppsOf, KeysOf
  <2>1. {k \in KeysOf(i) : alloc'[k] # "none"} = {k \in KeysOf(i) : alloc[k] # "none"}
    BY DEF KeysOf
  <2> QED
    BY <2>1 DEF PlacedUnderQuota
<1> QED
  BY <1>1, <1>2, <1>3

\* Quotes stand while no hold appears.
LEMMA SameQuotes ==
  ASSUME QuoteWithinQuota, UNCHANGED <<heldPlan, items>>,
         \A k \in Key : hold[k] = "none" => hold'[k] = "none"
  PROVE  QuoteWithinQuota'
  BY DEF QuoteWithinQuota

\* Entitlement stands while rows change only between statuses that entitle nobody.
LEMMA SameEntitlement ==
  ASSUME EntitlementFollowsRows, UNCHANGED <<alloc, state>>,
         \A k \in Key : sub'[k] = "active" <=> sub[k] = "active"
  PROVE  EntitlementFollowsRows'
<1>1. \A i : Entitled(i, sub') <=> Entitled(i, sub)
  BY DEF Entitled, KeysOf
<1> QED
  BY <1>1 DEF EntitlementFollowsRows

\* Synchronizing servers S with new rows makes entitlement follow them,
\* provided the rows of any other allocated server are the old ones.
LEMMA SynchronizeStep ==
  ASSUME TypeOK, EntitlementFollowsRows, NEW S, NEW rows, SynchronizeEntitlement(S, rows),
         \A k \in Key : alloc[k] # "none" /\ ServerOf[k] \notin S =>
           \A j \in KeysOf(ServerOf[k]) : rows[j] = sub[j]
  PROVE  EntitlementFollowsRows' /\ \A k \in Key : alloc'[k] = "none" <=> alloc[k] = "none"
<1>1. /\ sub' = rows
      /\ alloc' = [k \in Key |->
           IF ServerOf[k] \in S /\ alloc[k] # "none"
             THEN IF Entitled(ServerOf[k], rows) THEN "active" ELSE "suspended"
             ELSE alloc[k]]
      /\ state' = [i \in Installation |->
           IF i \notin S THEN state[i]
           ELSE IF ~Entitled(i, rows) THEN "suspended"
           ELSE IF state[i] = "suspended" THEN "open" ELSE state[i]]
  BY DEF SynchronizeEntitlement
<1>2. \A k \in Key : alloc'[k] = "none" <=> alloc[k] = "none"
  BY <1>1
<1>3. ASSUME NEW k \in Key, alloc'[k] # "none"
      PROVE  /\ state'[ServerOf[k]] = IF Entitled(ServerOf[k], sub') THEN "open" ELSE "suspended"
             /\ alloc'[k] = IF Entitled(ServerOf[k], sub') THEN "active" ELSE "suspended"
  <2> DEFINE i == ServerOf[k]
  <2>1. i \in Installation
    BY ConstantsAreWellTyped DEF ConstantsAreWellTyped
  <2>2. alloc[k] # "none"
    BY <1>2, <1>3
  <2>3. /\ state[i] = IF Entitled(i, sub) THEN "open" ELSE "suspended"
        /\ alloc[k] = IF Entitled(i, sub) THEN "active" ELSE "suspended"
    BY <2>2 DEF EntitlementFollowsRows
  <2>4. CASE i \in S
    BY <1>1, <2>1, <2>2, <2>3, <2>4
  <2>5. CASE i \notin S
    <3>1. Entitled(i, rows) <=> Entitled(i, sub)
      BY <2>2, <2>5 DEF Entitled
    <3> QED
      BY <1>1, <2>1, <2>3, <2>5, <3>1
  <2> QED
    BY <2>4, <2>5
<1>4. EntitlementFollowsRows'
  BY <1>3 DEF EntitlementFollowsRows
<1> QED
  BY <1>2, <1>4

\* The three ways a payment is honoured have this in common: a planned server
\* without allocation gets its placement, its quota and its entitled row.
LEMMA ProvisionStep ==
  ASSUME CoreInvariant, NEW k \in Key, NEW asg \in [DOMAIN items[k] -> Worker], Provision(k, asg),
         SnapshotHolds(k), hold[k] # "none", UNCHANGED <<apps, heldPlan>>
  PROVE  ProvidedOnce' /\ PlacedExist' /\ PlacedUnderQuota' /\ EntitlementFollowsRows'
<1> DEFINE i == ServerOf[k]
<1>1. i \in Installation
  BY ConstantsAreWellTyped DEF ConstantsAreWellTyped
<1>2. /\ alloc' = [alloc EXCEPT ![k] = "active"]
      /\ sub' = [sub EXCEPT ![k] = "active"]
      /\ state' = [state EXCEPT ![i] = "open"]
      /\ placed' = [a \in App |-> IF a \in DOMAIN asg THEN asg[a] ELSE placed[a]]
  BY DEF Provision, Place
<1>3. /\ alloc \in [Key -> {"none", "active", "suspended"}]
      /\ sub \in [Key -> SubStatus]
      /\ state \in [Installation -> {"planned", "open", "suspended"}]
      /\ placed \in [App -> Worker \cup {NoWorker}]
      /\ apps \subseteq App
  BY DEF CoreInvariant, TypeOK
<1>4. /\ state[i] = "planned"
      /\ DOMAIN asg = AppsOf(i)
      /\ heldPlan[k] \in Plan /\ EnvelopeFits(AppsOf(i), Demand, Quota[heldPlan[k]])
  BY DEF SnapshotHolds, CoreInvariant, QuoteWithinQuota
<1>5. \A j \in Key : ServerOf[j] = i => alloc[j] = "none"
  BY <1>4, PlannedIsUnallocated DEF CoreInvariant
<1>6. /\ \A j \in Key \ {k} : alloc'[j] = alloc[j] /\ sub'[j] = sub[j]
      /\ alloc'[k] = "active" /\ sub'[k] = "active"
  BY <1>2, <1>3
<1>7. \A j \in Key : ServerOf[j] = i => (alloc'[j] # "none" <=> j = k)
  BY <1>5, <1>6
<1>8. \A a \in App : IF a \in AppsOf(i) THEN placed'[a] \in Worker ELSE placed'[a] = placed[a]
  BY <1>2, <1>3, <1>4
<1>9. ProvidedOnce'
  BY <1>6, <1>7 DEF ProvidedOnce, KeysOf, CoreInvariant
<1>10. PlacedExist'
  <2> SUFFICES ASSUME NEW a \in App, placed'[a] # NoWorker
               PROVE  a \in apps /\ \E j \in Key : ServerOf[j] = HostOf[a] /\ alloc'[j] # "none"
    BY DEF PlacedExist
  <2>1. CASE a \in AppsOf(i)
    BY <1>6, <2>1 DEF AppsOf
  <2>2. CASE a \notin AppsOf(i)
    <3>1. a \in apps /\ \E j \in Key : ServerOf[j] = HostOf[a] /\ alloc[j] # "none"
      BY <1>8, <2>2 DEF CoreInvariant, PlacedExist
    <3> QED
      BY <1>6, <3>1
  <2> QED
    BY <2>1, <2>2
<1>11. PlacedUnderQuota'
  <2> SUFFICES ASSUME NEW h \in Installation
               PROVE  LET mine == {j \in KeysOf(h) : alloc'[j] # "none"}
                      IN /\ \A a \in AppsOf(h) : placed'[a] # NoWorker <=> mine # {}
                         /\ \A j \in mine : EnvelopeFits(AppsOf(h), Demand, Quota[heldPlan[j]])
    BY DEF PlacedUnderQuota, AppsOf, KeysOf
  <2>1. CASE h = i
    <3>1. {j \in KeysOf(i) : alloc'[j] # "none"} = {k}
      BY <1>7 DEF KeysOf
    <3>2. \A a \in AppsOf(i) : placed'[a] # NoWorker
      BY <1>3, <1>8, ConstantsAreWellTyped DEF ConstantsAreWellTyped, AppsOf
    <3> QED
      BY <1>4, <2>1, <3>1, <3>2
  <2>2. CASE h # i
    <3>1. {j \in KeysOf(h) : alloc'[j] # "none"} = {j \in KeysOf(h) : alloc[j] # "none"}
      BY <1>6, <2>2 DEF KeysOf
    <3>2. \A a \in AppsOf(h) : placed'[a] = placed[a]
      BY <1>3, <1>8, <2>2 DEF AppsOf
    <3> QED
      BY <3>1, <3>2 DEF CoreInvariant, PlacedUnderQuota
  <2> QED
    BY <2>1, <2>2
<1>12. EntitlementFollowsRows'
  <2> SUFFICES ASSUME NEW j \in Key, alloc'[j] # "none"
               PROVE  /\ state'[ServerOf[j]] = IF Entitled(ServerOf[j], sub') THEN "open" ELSE "suspended"
                      /\ alloc'[j] = IF Entitled(ServerOf[j], sub') THEN "active" ELSE "suspended"
    BY DEF EntitlementFollowsRows
  <2>1. CASE j = k
    BY <1>1, <1>2, <1>3, <1>6, <2>1 DEF Entitled, KeysOf
  <2>2. CASE j # k
    <3>1. ServerOf[j] # i
      BY <1>7, <2>2
    <3>2. Entitled(ServerOf[j], sub') <=> Entitled(ServerOf[j], sub)
      BY <1>6, <3>1 DEF Entitled, KeysOf
    <3>3. alloc'[j] = alloc[j] /\ state'[ServerOf[j]] = state[ServerOf[j]]
      BY <1>2, <1>3, <1>6, <2>2, <3>1, ConstantsAreWellTyped DEF ConstantsAreWellTyped
    <3> QED
      BY <3>2, <3>3 DEF CoreInvariant, EntitlementFollowsRows
  <2> QED
    BY <2>1, <2>2
<1> QED
  BY <1>9, <1>10, <1>11, <1>12

-----------------------------------------------------------------------------
(* CoreInvariant, step by step *)

\* Nothing is at stake in the initial state.
LEMMA InitCore == Init => CoreInvariant
<1> SUFFICES ASSUME Init PROVE CoreInvariant
  OBVIOUS
<1>1. TypeOK
  BY InitType
<1>2. LedgersAgree /\ PaidFirst /\ RefundExcludesCapacity /\ ProvidedOnce /\ QuoteWithinQuota
  BY DEF Init, LedgersAgree, PaidFirst, RefundExcludesCapacity, ProvidedOnce, QuoteWithinQuota, KeysOf
<1>3. PlacedExist /\ EntitlementFollowsRows
  BY DEF Init, PlacedExist, EntitlementFollowsRows
<1>4. PlacedUnderQuota
  <2> SUFFICES ASSUME NEW i \in Installation
               PROVE  LET mine == {k \in KeysOf(i) : alloc[k] # "none"}
                      IN /\ \A a \in AppsOf(i) : placed[a] # NoWorker <=> mine # {}
                         /\ \A k \in mine : EnvelopeFits(AppsOf(i), Demand, Quota[heldPlan[k]])
    BY DEF PlacedUnderQuota
  <2>1. {k \in KeysOf(i) : alloc[k] # "none"} = {}
    BY DEF Init, KeysOf
  <2>2. \A a \in AppsOf(i) : placed[a] = NoWorker
    BY ConstantsAreWellTyped DEF Init, AppsOf, ConstantsAreWellTyped
  <2> QED
    BY <2>1, <2>2
<1> QED
  BY <1>1, <1>2, <1>3, <1>4 DEF CoreInvariant

\* Quiet steps: an expired or released hold was nobody's payment yet.
LEMMA QuietCore ==
  ASSUME CoreInvariant, TypeOK', Quiet
  PROVE  CoreInvariant'
<1> USE DEF CoreInvariant, Quiet
<1>1. LedgersAgree'
  BY DEF LedgersAgree
<1>2. PaidFirst'
  <2>1. \A k \in Key : session[k] = "paid" => session'[k] = "paid"
    BY DEF TypeOK
  <2> QED
    BY <2>1 DEF PaidFirst
<1>3. RefundExcludesCapacity'
  BY DEF RefundExcludesCapacity
<1>4. QuoteWithinQuota'
  BY SameQuotes
<1>5. ProvidedOnce' /\ PlacedExist' /\ PlacedUnderQuota'
  BY SameAllocations
<1>6. EntitlementFollowsRows'
  BY SameEntitlement
<1> QED
  BY <1>1, <1>2, <1>3, <1>4, <1>5, <1>6

\* A new hold quotes the server's plan, within whose quota its applications are.
LEMMA AcquireCore ==
  ASSUME CoreInvariant, TypeOK', NEW k \in Key, AcquireCheckoutCapacityHold(k)
  PROVE  CoreInvariant'
<1> DEFINE i == ServerOf[k]
<1>1. PICK asg \in Placement(AppsOf(i)) :
        /\ hold' = [Swept EXCEPT ![k] = "active"]
        /\ items' = [items EXCEPT ![k] = asg]
        /\ heldPlan' = [heldPlan EXCEPT ![k] = plan[i]]
  BY DEF AcquireCheckoutCapacityHold
<1>2. /\ hold[k] = "none" /\ EnvelopeFits(AppsOf(i), Demand, Quota[plan[i]])
      /\ UNCHANGED <<attached, session, refund, processed, sub, recovery, alloc, state, apps, placed,
                     retrieved>>
  BY DEF AcquireCheckoutCapacityHold, stripeVars, ledgerVars, serverVars, webhookVars
<1>3. /\ items \in [Key -> Assignment] /\ heldPlan \in [Key -> Plan \cup {NoPlan}]
      /\ plan \in [Installation -> Plan]
      /\ Swept \in [Key -> HoldState] /\ i \in Installation
  BY SweptType, ConstantsAreWellTyped DEF CoreInvariant, TypeOK, ConstantsAreWellTyped
<1>4. /\ \A j \in Key \ {k} : hold'[j] = hold[j] \/ (hold[j] = "active" /\ hold'[j] = "expired")
      /\ \A j \in Key \ {k} : items'[j] = items[j] /\ heldPlan'[j] = heldPlan[j]
      /\ hold'[k] = "active" /\ items'[k] = asg /\ heldPlan'[k] = plan[i] /\ plan[i] \in Plan
  BY <1>1, <1>3, SweptStep DEF CoreInvariant
<1>5. recovery[k] = "none" /\ alloc[k] = "none" /\ k \notin processed
  BY <1>2 DEF CoreInvariant, LedgersAgree
<1>6. LedgersAgree'
  BY <1>2, <1>4, <1>5 DEF CoreInvariant, LedgersAgree
<1>7. PaidFirst' /\ RefundExcludesCapacity' /\ ProvidedOnce' /\ PlacedExist' /\ EntitlementFollowsRows'
  <2>1. PaidFirst' /\ RefundExcludesCapacity'
    BY <1>2 DEF CoreInvariant, PaidFirst, RefundExcludesCapacity
  <2>2. ProvidedOnce' /\ PlacedExist'
    BY <1>2 DEF CoreInvariant, ProvidedOnce, PlacedExist
  <2>3. EntitlementFollowsRows'
    BY <1>2, SameEntitlement DEF CoreInvariant
  <2> QED
    BY <2>1, <2>2, <2>3
<1>8. QuoteWithinQuota'
  <2> SUFFICES ASSUME NEW j \in Key, hold'[j] # "none"
               PROVE  /\ heldPlan'[j] \in Plan
                      /\ EnvelopeFits(DOMAIN items'[j], Demand, Quota[heldPlan'[j]])
    BY DEF QuoteWithinQuota
  <2>1. CASE j = k
    <3>1. DOMAIN asg = AppsOf(i)
      BY <1>1 DEF Placement, Placements
    <3> QED
      BY <1>2, <1>4, <2>1, <3>1
  <2>2. CASE j # k
    BY <1>4, <2>2 DEF CoreInvariant, QuoteWithinQuota
  <2> QED
    BY <2>1, <2>2
<1>9. PlacedUnderQuota'
  <2> SUFFICES ASSUME NEW h \in Installation
               PROVE  LET mine == {j \in KeysOf(h) : alloc[j] # "none"}
                      IN /\ \A a \in AppsOf(h) : placed[a] # NoWorker <=> mine # {}
                         /\ \A j \in mine : EnvelopeFits(AppsOf(h), Demand, Quota[heldPlan'[j]])
    BY <1>2 DEF PlacedUnderQuota, AppsOf, KeysOf
  <2>1. \A j \in KeysOf(h) : alloc[j] # "none" => heldPlan'[j] = heldPlan[j]
    BY <1>4, <1>5 DEF KeysOf
  <2> QED
    BY <2>1 DEF CoreInvariant, PlacedUnderQuota
<1> QED
  BY <1>6, <1>7, <1>8, <1>9 DEF CoreInvariant

\* What the outcomes of a paid webhook have in common: the event of a paid
\* session, never processed before, is recorded.
LEMMA RecordedEvent ==
  ASSUME CoreInvariant, NEW k \in Key, PaidEvidence(k), RecordPaidEvent(k)
  PROVE  /\ UNCHANGED <<items, heldPlan, refund, apps>>
         /\ processed' = processed \cup {k}
         /\ hold[k] # "consumed" /\ recovery[k] = "none" /\ alloc[k] = "none" /\ refund[k] = "none"
         /\ sub[k] = "none"
         /\ SnapshotHolds(k)
         /\ PaidFirst'
<1>1. /\ processed' = processed \cup {k}
      /\ retrieved' \subseteq retrieved
      /\ UNCHANGED <<items, heldPlan, refund, apps, attached, session>>
  BY DEF RecordPaidEvent, requestVars, stripeVars
<1>2. /\ k \in retrieved /\ k \notin processed /\ SnapshotHolds(k) /\ sub[k] = "none"
  BY DEF PaidEvidence
<1>3. hold[k] # "consumed" /\ recovery[k] = "none"
  BY <1>2 DEF CoreInvariant, LedgersAgree
<1>4. alloc[k] = "none" /\ refund[k] = "none"
  BY <1>3 DEF CoreInvariant, LedgersAgree, RefundExcludesCapacity
<1>5. PaidFirst'
  BY <1>1, <1>2 DEF CoreInvariant, PaidFirst
<1> QED
  BY <1>1, <1>2, <1>3, <1>4, <1>5

\* Paid in time: the hold is consumed and its server provisioned.
LEMMA ProcessPaidCore ==
  ASSUME CoreInvariant, TypeOK', NEW k \in Key, ProcessPaidCheckout(k)
  PROVE  CoreInvariant'
<1>1. /\ PaidEvidence(k) /\ Swept[k] = "active" /\ hold' = [Swept EXCEPT ![k] = "consumed"]
      /\ Provision(k, items[k]) /\ UNCHANGED recovery /\ RecordPaidEvent(k)
  BY DEF ProcessPaidCheckout
<1>2. /\ UNCHANGED <<items, heldPlan, refund, apps>>
      /\ processed' = processed \cup {k}
      /\ recovery[k] = "none" /\ alloc[k] = "none" /\ refund[k] = "none"
      /\ SnapshotHolds(k)
      /\ PaidFirst'
  BY <1>1, RecordedEvent
<1>3. items[k] \in [DOMAIN items[k] -> Worker]
  BY ItemsType DEF CoreInvariant
<1>4. hold[k] = "active"
  BY <1>1, SweptStep DEF CoreInvariant
<1>5. /\ \A j \in Key \ {k} : hold'[j] = hold[j] \/ (hold[j] = "active" /\ hold'[j] = "expired")
      /\ hold'[k] = "consumed"
  BY <1>1, SweptType, SweptStep DEF CoreInvariant
<1>6. /\ \A j \in Key \ {k} : alloc'[j] = alloc[j]
      /\ alloc'[k] = "active"
  BY <1>1 DEF Provision, CoreInvariant, TypeOK
<1>7. ProvidedOnce' /\ PlacedExist' /\ PlacedUnderQuota' /\ EntitlementFollowsRows'
  BY <1>1, <1>2, <1>3, <1>4, ProvisionStep
<1>8. LedgersAgree'
  BY <1>1, <1>2, <1>5, <1>6 DEF CoreInvariant, LedgersAgree
<1>9. RefundExcludesCapacity'
  BY <1>1, <1>2, <1>6 DEF CoreInvariant, RefundExcludesCapacity
<1>10. QuoteWithinQuota'
  BY <1>2, <1>4, <1>5, SameQuotes DEF CoreInvariant
<1> QED
  BY <1>2, <1>7, <1>8, <1>9, <1>10 DEF CoreInvariant

\* Paid late, with room left: the recovery is born fulfilled.
LEMMA ProcessLateCore ==
  ASSUME CoreInvariant, TypeOK', NEW k \in Key, ProcessLatePaidCheckout(k)
  PROVE  CoreInvariant'
<1>1. /\ PaidEvidence(k) /\ Swept[k] = "expired" /\ hold' = Swept
      /\ recovery' = [recovery EXCEPT ![k] = "fulfilled"] /\ RecordPaidEvent(k)
  BY DEF ProcessLatePaidCheckout
<1>2. /\ UNCHANGED <<items, heldPlan, refund, apps>>
      /\ processed' = processed \cup {k}
      /\ hold[k] # "consumed" /\ recovery[k] = "none" /\ alloc[k] = "none" /\ refund[k] = "none"
      /\ SnapshotHolds(k)
      /\ PaidFirst'
  BY <1>1, RecordedEvent
<1>3. PICK asg \in Placement(DOMAIN items[k]) : Provision(k, asg)
  BY DEF ProcessLatePaidCheckout
<1>4. asg \in [DOMAIN items[k] -> Worker]
  BY <1>3, ItemsType, PlacementType DEF CoreInvariant
<1>5. hold[k] \in {"active", "expired"}
  BY <1>1, SweptStep DEF CoreInvariant
<1>6. /\ \A j \in Key : hold'[j] = hold[j] \/ (hold[j] = "active" /\ hold'[j] = "expired")
      /\ hold'[k] = "expired"
  BY <1>1, SweptStep DEF CoreInvariant
<1>7. /\ \A j \in Key \ {k} : alloc'[j] = alloc[j] /\ recovery'[j] = recovery[j]
      /\ alloc'[k] = "active" /\ recovery'[k] = "fulfilled"
  BY <1>1, <1>3 DEF Provision, CoreInvariant, TypeOK
<1>8. ProvidedOnce' /\ PlacedExist' /\ PlacedUnderQuota' /\ EntitlementFollowsRows'
  BY <1>2, <1>3, <1>4, <1>5, ProvisionStep
<1>9. LedgersAgree'
  BY <1>2, <1>6, <1>7 DEF CoreInvariant, LedgersAgree
<1>10. RefundExcludesCapacity'
  BY <1>2, <1>7 DEF CoreInvariant, RefundExcludesCapacity
<1>11. QuoteWithinQuota'
  BY <1>2, <1>6, SameQuotes DEF CoreInvariant
<1> QED
  BY <1>2, <1>8, <1>9, <1>10, <1>11 DEF CoreInvariant

\* Paid late, without room: an obligation, and a row that entitles nobody.
LEMMA DeferCore ==
  ASSUME CoreInvariant, TypeOK', NEW k \in Key, DeferLatePaidCheckout(k)
  PROVE  CoreInvariant'
<1>1. /\ PaidEvidence(k) /\ Swept[k] = "expired" /\ hold' = Swept
      /\ recovery' = [recovery EXCEPT ![k] = "pending_capacity"]
      /\ sub' = [sub EXCEPT ![k] = "paid_pending_capacity"]
      /\ UNCHANGED <<alloc, state, placed>> /\ RecordPaidEvent(k)
  BY DEF DeferLatePaidCheckout
<1>2. /\ UNCHANGED <<items, heldPlan, refund, apps>>
      /\ processed' = processed \cup {k}
      /\ hold[k] # "consumed" /\ recovery[k] = "none" /\ alloc[k] = "none" /\ refund[k] = "none"
      /\ sub[k] = "none"
      /\ PaidFirst'
  BY <1>1, RecordedEvent
<1>3. /\ \A j \in Key : hold'[j] = hold[j] \/ (hold[j] = "active" /\ hold'[j] = "expired")
      /\ hold'[k] = "expired"
  BY <1>1, SweptStep DEF CoreInvariant
<1>4. /\ \A j \in Key \ {k} : recovery'[j] = recovery[j] /\ sub'[j] = sub[j]
      /\ recovery'[k] = "pending_capacity" /\ sub'[k] = "paid_pending_capacity"
  BY <1>1 DEF CoreInvariant, TypeOK
<1>5. LedgersAgree'
  BY <1>1, <1>2, <1>3, <1>4 DEF CoreInvariant, LedgersAgree
<1>6. RefundExcludesCapacity'
  BY <1>1, <1>2, <1>4 DEF CoreInvariant, RefundExcludesCapacity
<1>7. QuoteWithinQuota'
  BY <1>2, <1>3, SameQuotes DEF CoreInvariant
<1>8. ProvidedOnce' /\ PlacedExist' /\ PlacedUnderQuota'
  BY <1>1, <1>2, SameAllocations DEF CoreInvariant
<1>9. EntitlementFollowsRows'
  BY <1>1, <1>2, <1>4, SameEntitlement DEF CoreInvariant
<1> QED
  BY <1>2, <1>5, <1>6, <1>7, <1>8, <1>9 DEF CoreInvariant

\* A subscription webhook resynchronizes the server of its row.
LEMMA WebhookCore ==
  ASSUME CoreInvariant, TypeOK', NEW k \in Key, NEW s, UpdateSubscriptionStatus(k, s)
  PROVE  CoreInvariant'
<1>1. /\ SynchronizeEntitlement({ServerOf[k]}, [sub EXCEPT ![k] = s])
      /\ UNCHANGED <<hold, heldPlan, items, attached, session, refund, processed, recovery, apps, placed,
                     retrieved>>
  BY DEF UpdateSubscriptionStatus, holdVars, requestVars
<1> DEFINE S == {ServerOf[k]}
           rows == [sub EXCEPT ![k] = s]
<1>2. \A h \in Key : alloc[h] # "none" /\ ServerOf[h] \notin S =>
        \A j \in KeysOf(ServerOf[h]) : rows[j] = sub[j]
  BY DEF KeysOf, CoreInvariant, TypeOK
<1>3. EntitlementFollowsRows' /\ \A j \in Key : alloc'[j] = "none" <=> alloc[j] = "none"
  <2>1. SynchronizeEntitlement(S, rows) /\ TypeOK /\ EntitlementFollowsRows
    BY <1>1 DEF CoreInvariant
  <2> HIDE DEF S, rows
  <2> QED
    BY <1>2, <2>1, SynchronizeStep
<1>4. LedgersAgree' /\ PaidFirst' /\ RefundExcludesCapacity'
  BY <1>1, <1>3 DEF CoreInvariant, LedgersAgree, PaidFirst, RefundExcludesCapacity
<1>5. ProvidedOnce' /\ PlacedExist' /\ PlacedUnderQuota'
  BY <1>1, <1>3, SameAllocations DEF CoreInvariant
<1>6. QuoteWithinQuota'
  BY <1>1, SameQuotes DEF CoreInvariant
<1> QED
  BY <1>3, <1>4, <1>5, <1>6 DEF CoreInvariant

\* What the passes do to a recovery: the other variables stand, and one row
\* goes from a status that entitles nobody to another.
LEMMA RecoveryLedgerStep ==
  ASSUME CoreInvariant, TypeOK', NEW k \in Key,
         UNCHANGED <<hold, heldPlan, items, attached, session, refund, processed, alloc, state, apps,
                     placed, retrieved>>,
         \A j \in Key : sub'[j] = "active" <=> sub[j] = "active",
         \A j \in Key \ {k} : recovery'[j] = recovery[j],
         \/ recovery[k] = "pending_capacity" /\ recovery'[k] = "compensation_required"
         \/ recovery[k] = "compensation_required" /\ recovery'[k] = "compensated" /\ refund[k] = "confirmed"
  PROVE  CoreInvariant'
<1>1. LedgersAgree'
  BY DEF CoreInvariant, LedgersAgree
<1>2. PaidFirst'
  BY DEF CoreInvariant, PaidFirst
<1>3. RefundExcludesCapacity'
  BY DEF CoreInvariant, RefundExcludesCapacity
<1>4. ProvidedOnce' /\ PlacedExist' /\ PlacedUnderQuota'
  BY SameAllocations DEF CoreInvariant
<1>5. QuoteWithinQuota'
  BY SameQuotes DEF CoreInvariant
<1>6. EntitlementFollowsRows'
  BY SameEntitlement DEF CoreInvariant
<1> QED
  BY <1>1, <1>2, <1>3, <1>4, <1>5, <1>6 DEF CoreInvariant

\* Past its deadline an obligation becomes one to compensate.
LEMMA AdvanceCore ==
  ASSUME CoreInvariant, TypeOK', NEW k \in Key, AdvancePaidCheckoutCapacityRecovery(k)
  PROVE  CoreInvariant'
<1>1. /\ recovery[k] = "pending_capacity" /\ sub[k] = "paid_pending_capacity"
      /\ recovery' = [recovery EXCEPT ![k] = "compensation_required"]
      /\ sub' = [sub EXCEPT ![k] = "compensation_required"]
      /\ UNCHANGED <<hold, heldPlan, items, attached, session, refund, processed, alloc, state, apps,
                     placed, retrieved>>
  BY DEF AdvancePaidCheckoutCapacityRecovery, holdVars, requestVars, stripeVars, serverVars, webhookVars
<1>2. /\ \A j \in Key \ {k} : recovery'[j] = recovery[j]
      /\ recovery'[k] = "compensation_required"
      /\ \A j \in Key : sub'[j] = "active" <=> sub[j] = "active"
  BY <1>1 DEF CoreInvariant, TypeOK
<1> QED
  BY <1>1, <1>2, RecoveryLedgerStep

\* A confirmed compensation is recorded.
LEMMA MarkCore ==
  ASSUME CoreInvariant, TypeOK', NEW k \in Key, MarkPaidCheckoutCapacityCompensated(k)
  PROVE  CoreInvariant'
<1>1. /\ recovery[k] = "compensation_required" /\ refund[k] = "confirmed"
      /\ sub[k] = "compensation_required"
      /\ recovery' = [recovery EXCEPT ![k] = "compensated"]
      /\ sub' = [sub EXCEPT ![k] = "canceled"]
      /\ UNCHANGED <<hold, heldPlan, items, attached, session, refund, processed, alloc, state, apps,
                     placed, retrieved>>
  BY DEF MarkPaidCheckoutCapacityCompensated, holdVars, requestVars, stripeVars, serverVars, webhookVars
<1>2. /\ \A j \in Key \ {k} : recovery'[j] = recovery[j]
      /\ recovery'[k] = "compensated"
      /\ \A j \in Key : sub'[j] = "active" <=> sub[j] = "active"
  BY <1>1 DEF CoreInvariant, TypeOK
<1> QED
  BY <1>1, <1>2, RecoveryLedgerStep

\* A retried obligation that now fits is honoured; it was not refunded.
LEMMA RetryCore ==
  ASSUME CoreInvariant, TypeOK', NEW k \in Key, RetryPaidCheckoutCapacityRecovery(k)
  PROVE  CoreInvariant'
<1>1. /\ recovery[k] = "pending_capacity" /\ hold[k] = "expired" /\ SnapshotHolds(k)
      /\ recovery' = [recovery EXCEPT ![k] = "fulfilled"]
      /\ UNCHANGED <<hold, heldPlan, items, attached, session, refund, processed, apps, retrieved>>
  BY DEF RetryPaidCheckoutCapacityRecovery, RetryEvidence, holdVars, requestVars, stripeVars, webhookVars
<1>2. PICK asg \in Placement(DOMAIN items[k]) : Provision(k, asg)
  BY DEF RetryPaidCheckoutCapacityRecovery
<1>3. asg \in [DOMAIN items[k] -> Worker]
  BY <1>2, ItemsType, PlacementType DEF CoreInvariant
<1>4. /\ \A j \in Key \ {k} : alloc'[j] = alloc[j] /\ recovery'[j] = recovery[j]
      /\ alloc'[k] = "active" /\ recovery'[k] = "fulfilled"
  BY <1>1, <1>2 DEF Provision, CoreInvariant, TypeOK
<1>5. ProvidedOnce' /\ PlacedExist' /\ PlacedUnderQuota' /\ EntitlementFollowsRows'
  BY <1>1, <1>2, <1>3, ProvisionStep
<1>6. LedgersAgree'
  BY <1>1, <1>4 DEF CoreInvariant, LedgersAgree
<1>7. RefundExcludesCapacity'
  BY <1>1, <1>4 DEF CoreInvariant, RefundExcludesCapacity
<1>8. PaidFirst' /\ QuoteWithinQuota'
  BY <1>1, SameQuotes DEF CoreInvariant, PaidFirst
<1> QED
  BY <1>5, <1>6, <1>7, <1>8 DEF CoreInvariant

\* Compensation refunds a payment that bought nothing, and a pending refund
\* belongs to a recovery that is not yet compensated.
LEMMA RefundCore ==
  ASSUME CoreInvariant, TypeOK', NEW k \in Key, CompensatePaidCapacity(k) \/ RefundSettles(k)
  PROVE  CoreInvariant'
<1>1. /\ UNCHANGED <<hold, heldPlan, items, attached, session, processed, sub, recovery, alloc, state,
                     apps, placed, retrieved>>
      /\ \E r : refund' = [refund EXCEPT ![k] = r]
      /\ \/ recovery[k] = "compensation_required"
         \/ refund[k] = "pending"
  BY DEF CompensatePaidCapacity, RefundSettles, holdVars, requestVars, ledgerVars, serverVars, webhookVars
<1>2. \A j \in Key \ {k} : refund'[j] = refund[j]
  BY <1>1 DEF CoreInvariant, TypeOK
<1>3. recovery[k] = "compensation_required" /\ alloc[k] = "none"
  BY <1>1 DEF CoreInvariant, RefundExcludesCapacity, LedgersAgree
<1>4. RefundExcludesCapacity'
  BY <1>1, <1>2, <1>3 DEF CoreInvariant, RefundExcludesCapacity
<1>5. LedgersAgree' /\ PaidFirst'
  BY <1>1 DEF CoreInvariant, LedgersAgree, PaidFirst
<1>6. ProvidedOnce' /\ PlacedExist' /\ PlacedUnderQuota'
  BY <1>1, SameAllocations DEF CoreInvariant
<1>7. QuoteWithinQuota' /\ EntitlementFollowsRows'
  BY <1>1, SameQuotes, SameEntitlement DEF CoreInvariant
<1> QED
  BY <1>4, <1>5, <1>6, <1>7 DEF CoreInvariant

\* The end of a pass synchronizes every server one of whose rows it changes,
\* except planned ones, which have no allocation.
LEMMA ApplyCore ==
  ASSUME CoreInvariant, TypeOK', ApplySubscriptionReconciliation
  PROVE  CoreInvariant'
<1> DEFINE rows == [k \in Key |-> IF k \in DOMAIN writes THEN writes[k] ELSE sub[k]]
           affected == {ServerOf[k] : k \in DOMAIN writes}
           S == {i \in affected : state[i] # "planned"}
<1>1. /\ SynchronizeEntitlement(S, rows)
      /\ UNCHANGED <<hold, heldPlan, items, attached, session, refund, processed, recovery, apps, placed,
                     retrieved>>
  BY DEF ApplySubscriptionReconciliation, holdVars, requestVars, stripeVars, webhookVars
<1>2. ASSUME NEW h \in Key, alloc[h] # "none", ServerOf[h] \notin S, NEW j \in KeysOf(ServerOf[h])
      PROVE  rows[j] = sub[j]
  <2>1. state[ServerOf[h]] # "planned"
    BY <1>2, PlannedIsUnallocated DEF CoreInvariant
  <2>2. ServerOf[h] \notin affected
    BY <1>2, <2>1
  <2>3. j \in Key /\ ServerOf[j] = ServerOf[h]
    BY <1>2 DEF KeysOf
  <2> QED
    BY <2>2, <2>3
<1>3. EntitlementFollowsRows' /\ \A j \in Key : alloc'[j] = "none" <=> alloc[j] = "none"
  <2>1. TypeOK /\ EntitlementFollowsRows
    BY DEF CoreInvariant
  <2> HIDE DEF rows, S
  <2> QED
    BY <1>1, <1>2, <2>1, SynchronizeStep
<1>4. LedgersAgree' /\ PaidFirst' /\ RefundExcludesCapacity'
  BY <1>1, <1>3 DEF CoreInvariant, LedgersAgree, PaidFirst, RefundExcludesCapacity
<1>5. ProvidedOnce' /\ PlacedExist' /\ PlacedUnderQuota'
  BY <1>1, <1>3, SameAllocations DEF CoreInvariant
<1>6. QuoteWithinQuota'
  BY <1>1, SameQuotes DEF CoreInvariant
<1> QED
  BY <1>3, <1>4, <1>5, <1>6 DEF CoreInvariant

\* A clone of an allocated server is placed at once, within the allocation's
\* quota; a clone of any other server waits for the checkout.
LEMMA CloneCore ==
  ASSUME CoreInvariant, TypeOK', NEW a \in App, CreateApplicationClone(a)
  PROVE  CoreInvariant'
<1> DEFINE i == HostOf[a]
           mine == {k \in KeysOf(i) : alloc[k] # "none"}
<1>1. /\ a \notin apps /\ apps' = apps \cup {a} /\ hold' = Swept
      /\ \A p \in CloneQuotas(i) : EnvelopeFits(AppsOf(i) \cup {a}, Demand, Quota[p])
      /\ IF mine = {} THEN UNCHANGED placed ELSE \E asg \in Placement({a}) : Place(asg)
      /\ UNCHANGED <<heldPlan, items, attached, session, refund, processed, sub, recovery, alloc, state,
                     retrieved>>
  BY DEF CreateApplicationClone, requestVars, stripeVars, ledgerVars, webhookVars
<1>2. i \in Installation
  BY ConstantsAreWellTyped DEF ConstantsAreWellTyped
<1>3. /\ placed \in [App -> Worker \cup {NoWorker}] /\ apps \subseteq App
      /\ NoWorker \notin Worker
  BY ConstantsAreWellTyped DEF CoreInvariant, TypeOK, ConstantsAreWellTyped
<1>4. /\ \A b \in App \ {a} : placed'[b] = placed[b]
      /\ placed'[a] # NoWorker <=> mine # {}
  <2>1. CASE mine = {}
    BY <1>1, <2>1 DEF CoreInvariant, PlacedExist
  <2>2. CASE mine # {}
    <3>1. PICK asg \in Placement({a}) : Place(asg)
      BY <1>1, <2>2
    <3>2. asg \in [{a} -> Worker]
      BY PlacementType DEF CoreInvariant
    <3>3. placed' = [b \in App |-> IF b \in DOMAIN asg THEN asg[b] ELSE placed[b]]
      BY <3>1 DEF Place
    <3> QED
      BY <1>3, <2>2, <3>2, <3>3
  <2> QED
    BY <2>1, <2>2
<1>5. PlacedExist'
  <2> SUFFICES ASSUME NEW b \in App, placed'[b] # NoWorker
               PROVE  b \in apps' /\ \E k \in Key : ServerOf[k] = HostOf[b] /\ alloc[k] # "none"
    BY <1>1 DEF PlacedExist
  <2>1. CASE b = a
    BY <1>1, <1>4, <2>1 DEF KeysOf
  <2>2. CASE b # a
    BY <1>1, <1>4, <2>2 DEF CoreInvariant, PlacedExist
  <2> QED
    BY <2>1, <2>2
<1>6. PlacedUnderQuota'
  <2> SUFFICES ASSUME NEW h \in Installation
               PROVE  LET hers == {k \in KeysOf(h) : alloc[k] # "none"}
                      IN /\ \A b \in AppsOf(h)' : placed'[b] # NoWorker <=> hers # {}
                         /\ \A k \in hers : EnvelopeFits(AppsOf(h)', Demand, Quota[heldPlan[k]])
    BY <1>1 DEF PlacedUnderQuota, KeysOf
  <2> DEFINE hers == {k \in KeysOf(h) : alloc[k] # "none"}
  <2>1. /\ \A b \in AppsOf(h) : placed[b] # NoWorker <=> hers # {}
        /\ \A k \in hers : EnvelopeFits(AppsOf(h), Demand, Quota[heldPlan[k]])
    BY DEF CoreInvariant, PlacedUnderQuota
  <2>2. CASE h = i
    <3>1. AppsOf(h)' = AppsOf(h) \cup {a}
      BY <1>1, <2>2 DEF AppsOf
    <3>2. \A b \in AppsOf(h) : placed'[b] = placed[b]
      BY <1>1, <1>3, <1>4 DEF AppsOf
    <3>3. \A k \in hers : EnvelopeFits(AppsOf(h) \cup {a}, Demand, Quota[heldPlan[k]])
      BY <1>1, <2>2 DEF CloneQuotas
    <3> QED
      BY <1>4, <2>1, <2>2, <3>1, <3>2, <3>3
  <2>3. CASE h # i
    <3>1. AppsOf(h)' = AppsOf(h)
      BY <1>1, <2>3 DEF AppsOf
    <3>2. \A b \in AppsOf(h) : placed'[b] = placed[b]
      BY <1>1, <1>3, <1>4 DEF AppsOf
    <3> QED
      BY <2>1, <3>1, <3>2
  <2> QED
    BY <2>2, <2>3
<1>7. LedgersAgree'
  BY <1>1, SweptStep DEF CoreInvariant, LedgersAgree
<1>8. PaidFirst' /\ RefundExcludesCapacity' /\ ProvidedOnce'
  BY <1>1 DEF CoreInvariant, PaidFirst, RefundExcludesCapacity, ProvidedOnce
<1>9. QuoteWithinQuota'
  BY <1>1, SweptStep, SameQuotes DEF CoreInvariant
<1>10. EntitlementFollowsRows'
  BY <1>1, SameEntitlement DEF CoreInvariant
<1> QED
  BY <1>5, <1>6, <1>7, <1>8, <1>9, <1>10 DEF CoreInvariant

\* Every step of the code keeps the core invariant.
LEMMA StepCore ==
  ASSUME CoreInvariant, [Next]_vars
  PROVE  CoreInvariant'
<1>1. TypeOK /\ TypeOK'
  BY StepType DEF CoreInvariant
<1>2. CASE Quiet
  BY <1>1, <1>2, QuietCore
<1>3. CASE Loud
  <2>1. ASSUME NEW k \in Key, ActiveSubscriptionWebhook(k) PROVE CoreInvariant'
    BY <1>1, <2>1, WebhookCore DEF ActiveSubscriptionWebhook
  <2>2. ASSUME NEW k \in Key, NEW s \in ProviderStatus, InactiveSubscriptionWebhook(k, s)
        PROVE  CoreInvariant'
    BY <1>1, <2>2, WebhookCore DEF InactiveSubscriptionWebhook
  <2> QED
    BY <1>1, <1>3, <2>1, <2>2, AcquireCore, ProcessPaidCore, ProcessLateCore, DeferCore, AdvanceCore,
       RetryCore, RefundCore, MarkCore, ApplyCore, CloneCore
    DEF Loud
<1> QED
  BY <1>1, <1>2, <1>3, StepKinds

-----------------------------------------------------------------------------
(* What follows *)

\* The core invariant of the paid checkout holds in every reachable state.
THEOREM CoreSafety == Spec => []CoreInvariant
<1>1. Init => CoreInvariant
  BY InitCore
<1>2. CoreInvariant /\ [Next]_vars => CoreInvariant'
  BY StepCore
<1> QED
  BY <1>1, <1>2, PTL DEF Spec

\* No payment is both refunded and honoured, and only a payment that could not
\* be honoured in time is refunded.
THEOREM RefundsExcludeCapacity == Spec => []RefundExcludesCapacity
<1>1. CoreInvariant => RefundExcludesCapacity
  BY DEF CoreInvariant
<1> QED
  BY <1>1, CoreSafety, PTL

\* Events, holds, recoveries and allocations always tell the same story.
THEOREM LedgersAlwaysAgree == Spec => []LedgersAgree
<1>1. CoreInvariant => LedgersAgree
  BY DEF CoreInvariant
<1> QED
  BY <1>1, CoreSafety, PTL

\* No server is provided for two payments.
THEOREM ProvidedOnlyOnce == Spec => []ProvidedOnce
<1>1. CoreInvariant => ProvidedOnce
  BY DEF CoreInvariant
<1> QED
  BY <1>1, CoreSafety, PTL

\* What is placed is paid for and within the quota that was paid for, whatever
\* the owner changes or clones between the quote and the payment.
THEOREM PlacementsStayUnderQuota == Spec => []PlacedUnderQuota
<1>1. CoreInvariant => PlacedUnderQuota
  BY DEF CoreInvariant
<1> QED
  BY <1>1, CoreSafety, PTL

\* The state and the quota of a provided server follow its subscription rows.
THEOREM EntitlementAlwaysFollowsRows == Spec => []EntitlementFollowsRows
<1>1. CoreInvariant => EntitlementFollowsRows
  BY DEF CoreInvariant
<1> QED
  BY <1>1, CoreSafety, PTL

-----------------------------------------------------------------------------
(* Steps *)

\* What a step may do to a hold and its quote, an event and a recovery once they
\* are settled: nothing.
SettledStay ==
  \A k \in Key :
    /\ hold[k] \in {"consumed", "released", "expired"} =>
         hold'[k] = hold[k] /\ items'[k] = items[k] /\ heldPlan'[k] = heldPlan[k]
    /\ k \in processed => k \in processed'
    /\ recovery[k] \in {"fulfilled", "compensated"} => recovery'[k] = recovery[k]
    /\ recovery[k] = "compensation_required" => recovery'[k] \in {recovery[k], "compensated"}

\* Steps that leave quotes and recoveries alone and only add events.
LEMMA HoldsSettle ==
  ASSUME UNCHANGED <<items, heldPlan, recovery>>, processed \subseteq processed',
         \A k \in Key : hold[k] \in {"consumed", "released", "expired"} => hold'[k] = hold[k]
  PROVE  SettledStay
  BY DEF SettledStay

\* No step rewrites settled history.
LEMMA StepHistory ==
  ASSUME CoreInvariant, [Next]_vars
  PROVE  SettledStay
<1> USE DEF holdVars, requestVars, stripeVars, ledgerVars, serverVars, webhookVars
<1>1. /\ TypeOK /\ LedgersAgree
      /\ hold \in [Key -> HoldState] /\ items \in [Key -> Assignment]
      /\ heldPlan \in [Key -> Plan \cup {NoPlan}] /\ recovery \in [Key -> RecoveryState]
      /\ Swept \in [Key -> HoldState]
      /\ \A k \in Key : Swept[k] = hold[k] \/ (hold[k] = "active" /\ Swept[k] = "expired")
  BY SweptStep, SweptType DEF CoreInvariant, TypeOK
<1>2. CASE Quiet
  BY <1>2, HoldsSettle DEF Quiet
<1>3. ASSUME NEW k \in Key, AcquireCheckoutCapacityHold(k) PROVE SettledStay
  <2>1. PICK asg : /\ hold[k] = "none" /\ hold' = [Swept EXCEPT ![k] = "active"]
                   /\ items' = [items EXCEPT ![k] = asg]
                   /\ heldPlan' = [heldPlan EXCEPT ![k] = plan[ServerOf[k]]]
                   /\ UNCHANGED <<processed, recovery>>
    BY <1>3 DEF AcquireCheckoutCapacityHold
  <2>2. \A j \in Key \ {k} : /\ hold'[j] = Swept[j]
                             /\ items'[j] = items[j] /\ heldPlan'[j] = heldPlan[j]
    BY <1>1, <2>1
  <2> QED
    BY <1>1, <2>1, <2>2 DEF SettledStay
<1>4. ASSUME NEW k \in Key, ProcessPaidCheckout(k) PROVE SettledStay
  <2>1. /\ Swept[k] = "active" /\ hold' = [Swept EXCEPT ![k] = "consumed"]
        /\ UNCHANGED <<items, heldPlan, recovery>> /\ processed \subseteq processed'
    BY <1>4 DEF ProcessPaidCheckout, RecordPaidEvent
  <2> QED
    BY <1>1, <2>1, HoldsSettle
<1>5. ASSUME NEW k \in Key, ProcessLatePaidCheckout(k) \/ DeferLatePaidCheckout(k) PROVE SettledStay
  <2>1. /\ PaidEvidence(k) /\ hold' = Swept
        /\ \E r \in RecoveryState : recovery' = [recovery EXCEPT ![k] = r]
        /\ UNCHANGED <<items, heldPlan>> /\ processed \subseteq processed'
    BY <1>5 DEF ProcessLatePaidCheckout, DeferLatePaidCheckout, RecordPaidEvent, RecoveryState
  <2>2. recovery[k] = "none"
    BY <1>1, <2>1 DEF PaidEvidence, LedgersAgree
  <2>3. \A j \in Key \ {k} : recovery'[j] = recovery[j]
    BY <1>1, <2>1
  <2> QED
    BY <1>1, <2>1, <2>2, <2>3 DEF SettledStay
<1>6. ASSUME NEW k \in Key, NEW s, UpdateSubscriptionStatus(k, s) PROVE SettledStay
  BY <1>6, HoldsSettle DEF UpdateSubscriptionStatus
<1>7. ASSUME NEW k \in Key,
             \/ AdvancePaidCheckoutCapacityRecovery(k) \/ RetryPaidCheckoutCapacityRecovery(k)
             \/ MarkPaidCheckoutCapacityCompensated(k)
      PROVE  SettledStay
  <2>1. /\ UNCHANGED <<hold, items, heldPlan, processed>>
        /\ \/ /\ recovery[k] = "pending_capacity"
              /\ \E r \in RecoveryState : recovery' = [recovery EXCEPT ![k] = r]
           \/ /\ recovery[k] = "compensation_required"
              /\ recovery' = [recovery EXCEPT ![k] = "compensated"]
    BY <1>7 DEF AdvancePaidCheckoutCapacityRecovery, RetryPaidCheckoutCapacityRecovery, RetryEvidence,
                MarkPaidCheckoutCapacityCompensated, RecoveryState
  <2>2. \A j \in Key \ {k} : recovery'[j] = recovery[j]
    BY <1>1, <2>1
  <2>3. recovery[k] = "compensation_required" => recovery'[k] = "compensated"
    BY <1>1, <2>1
  <2>4. recovery[k] \notin {"fulfilled", "compensated"}
    BY <2>1
  <2> QED
    BY <2>1, <2>2, <2>3, <2>4 DEF SettledStay
<1>8. ASSUME NEW k \in Key, CompensatePaidCapacity(k) \/ RefundSettles(k) PROVE SettledStay
  BY <1>8, HoldsSettle DEF CompensatePaidCapacity, RefundSettles
<1>9. ASSUME ApplySubscriptionReconciliation PROVE SettledStay
  BY <1>9, HoldsSettle DEF ApplySubscriptionReconciliation
<1>10. ASSUME NEW a \in App, CreateApplicationClone(a) PROVE SettledStay
  <2>1. hold' = Swept /\ UNCHANGED <<items, heldPlan, recovery, processed>>
    BY <1>10 DEF CreateApplicationClone
  <2> QED
    BY <1>1, <2>1, HoldsSettle
<1>11. CASE Loud
  <2>1. ASSUME NEW k \in Key, ActiveSubscriptionWebhook(k) PROVE SettledStay
    BY <1>6, <2>1 DEF ActiveSubscriptionWebhook
  <2>2. ASSUME NEW k \in Key, NEW s \in ProviderStatus, InactiveSubscriptionWebhook(k, s)
        PROVE  SettledStay
    BY <1>6, <2>2 DEF InactiveSubscriptionWebhook
  <2> QED
    BY <1>3, <1>4, <1>5, <1>7, <1>8, <1>9, <1>10, <1>11, <2>1, <2>2 DEF Loud
<1> QED
  BY <1>1, <1>2, <1>11, StepKinds

\* Settled history is final in every behaviour: no late webhook, retried pass,
\* replayed request or plan change reopens a hold or a recovery.
THEOREM HistoryStaysFinal == Spec => HistoryIsFinal
<1>1. CoreInvariant /\ [Next]_vars => [SettledStay]_vars
  BY StepHistory
<1>2. HistoryIsFinal <=> [][SettledStay]_vars
  BY DEF HistoryIsFinal, SettledStay
<1> QED
  BY <1>1, <1>2, CoreSafety, PTL DEF Spec

-----------------------------------------------------------------------------
(* Implementation of PaidObligation *)

\* The obligation changes in one way only when one payment changes.
LEMMA OneObligation ==
  ASSUME NEW k \in Key, NEW o, Obligation'[k] = o,
         \A j \in Key \ {k} : Obligation'[j] = Obligation[j]
  PROVE  Obligation' = [Obligation EXCEPT ![k] = o]
<1>1. /\ Obligation = [j \in Key |-> Obligation[j]]
      /\ Obligation' = [j \in Key |-> Obligation'[j]]
  BY DEF Obligation
<1> QED
  BY <1>1

\* The obligation stands while sessions, allocations and refunds do.
LEMMA SameObligation ==
  ASSUME \A k \in Key : /\ session'[k] = "paid" <=> session[k] = "paid"
                        /\ alloc'[k] = "none" <=> alloc[k] = "none"
                        /\ refund'[k] = "confirmed" <=> refund[k] = "confirmed"
  PROVE  Obligation' = Obligation
  BY DEF Obligation

\* What is provided or refunded was paid.
LEMMA OnlyPaid ==
  ASSUME CoreInvariant, NEW k \in Key, alloc[k] # "none" \/ refund[k] # "none"
  PROVE  session[k] = "paid"
  BY DEF CoreInvariant, LedgersAgree, RefundExcludesCapacity, PaidFirst

\* Provisioning a paid and unsettled payment of a server without allocation is
\* the Provide of the obligation.
LEMMA ProvisionProvides ==
  ASSUME CoreInvariant, NEW k \in Key, NEW asg, Provision(k, asg),
         session[k] = "paid", refund[k] = "none",
         state[ServerOf[k]] = "planned", UNCHANGED <<session, refund>>
  PROVE  Abstract!Provide(k)
<1>1. \A j \in Key : ServerOf[j] = ServerOf[k] => alloc[j] = "none"
  BY PlannedIsUnallocated DEF CoreInvariant
<1>2. /\ \A j \in Key \ {k} : alloc'[j] = alloc[j]
      /\ alloc'[k] = "active"
  BY DEF Provision, CoreInvariant, TypeOK
<1>3. Obligation[k] = "owed" /\ Obligation'[k] = "provided"
  BY <1>1, <1>2 DEF Obligation
<1>4. \A j \in Key \ {k} : Obligation'[j] = Obligation[j]
  BY <1>2 DEF Obligation
<1>5. \A j \in Key : ServerOf[j] = ServerOf[k] => Obligation[j] # "provided"
  BY <1>1 DEF Obligation
<1> QED
  BY <1>3, <1>4, <1>5, OneObligation DEF Abstract!Provide

\* Every step of the code is a step of the obligation, or none.
LEMMA StepObligation ==
  ASSUME CoreInvariant, [Next]_vars
  PROVE  Abstract!Next \/ UNCHANGED Obligation
<1> USE DEF holdVars, requestVars, stripeVars, ledgerVars, serverVars, webhookVars
<1>1. /\ TypeOK
      /\ session \in [Key -> {"none", "open", "paid", "gone"}]
      /\ refund \in [Key -> {"none", "pending", "failed", "confirmed"}]
  BY DEF CoreInvariant, TypeOK
<1>2. CASE Quiet
  <2>1. UNCHANGED <<alloc, refund>>
    BY <1>2 DEF Quiet
  <2>2. CASE \A k \in Key : session'[k] = "paid" <=> session[k] = "paid"
    BY <2>1, <2>2, SameObligation
  <2>3. ASSUME NEW k \in Key, session[k] # "paid", session' = [session EXCEPT ![k] = "paid"]
        PROVE  Abstract!Capture(k)
    <3>1. alloc[k] = "none" /\ refund[k] = "none"
      BY <2>3, OnlyPaid
    <3>2. session'[k] = "paid" /\ \A j \in Key \ {k} : session'[j] = session[j]
      BY <1>1, <2>3
    <3>3. Obligation[k] = "unpaid" /\ Obligation'[k] = "owed"
      BY <2>1, <2>3, <3>1, <3>2 DEF Obligation
    <3>4. \A j \in Key \ {k} : Obligation'[j] = Obligation[j]
      BY <2>1, <3>2 DEF Obligation
    <3> QED
      BY <3>3, <3>4, OneObligation DEF Abstract!Capture
  <2> QED
    BY <1>2, <2>2, <2>3 DEF Quiet, Abstract!Next
<1>3. ASSUME NEW k \in Key, AcquireCheckoutCapacityHold(k) PROVE UNCHANGED Obligation
  BY <1>3, SameObligation DEF AcquireCheckoutCapacityHold
<1>4. ASSUME NEW k \in Key, ProcessPaidCheckout(k) PROVE Abstract!Provide(k)
  <2>1. /\ PaidEvidence(k) /\ RecordPaidEvent(k) /\ Provision(k, items[k]) /\ UNCHANGED session
    BY <1>4 DEF ProcessPaidCheckout, RecordPaidEvent
  <2>2. session[k] = "paid" /\ state[ServerOf[k]] = "planned" /\ refund[k] = "none" /\ UNCHANGED refund
    BY <2>1, RecordedEvent DEF PaidEvidence, SnapshotHolds, CoreInvariant, PaidFirst
  <2> QED
    BY <2>1, <2>2, ProvisionProvides
<1>5. ASSUME NEW k \in Key, ProcessLatePaidCheckout(k) PROVE Abstract!Provide(k)
  <2>1. PICK asg : /\ PaidEvidence(k) /\ RecordPaidEvent(k) /\ Provision(k, asg)
                   /\ UNCHANGED session
    BY <1>5 DEF ProcessLatePaidCheckout, RecordPaidEvent
  <2>2. session[k] = "paid" /\ state[ServerOf[k]] = "planned" /\ refund[k] = "none" /\ UNCHANGED refund
    BY <2>1, RecordedEvent DEF PaidEvidence, SnapshotHolds, CoreInvariant, PaidFirst
  <2> QED
    BY <2>1, <2>2, ProvisionProvides
<1>6. ASSUME NEW k \in Key, RetryPaidCheckoutCapacityRecovery(k) PROVE Abstract!Provide(k)
  <2>1. PICK asg : /\ RetryEvidence(k) /\ Provision(k, asg) /\ UNCHANGED <<session, refund>>
    BY <1>6 DEF RetryPaidCheckoutCapacityRecovery
  <2>2. recovery[k] = "pending_capacity" /\ state[ServerOf[k]] = "planned"
    BY <2>1 DEF RetryEvidence, SnapshotHolds
  <2>3. session[k] = "paid" /\ refund[k] = "none"
    BY <2>2 DEF CoreInvariant, LedgersAgree, PaidFirst, RefundExcludesCapacity
  <2> QED
    BY <2>1, <2>2, <2>3, ProvisionProvides
<1>7. ASSUME NEW k \in Key,
             \/ DeferLatePaidCheckout(k) \/ AdvancePaidCheckoutCapacityRecovery(k)
             \/ MarkPaidCheckoutCapacityCompensated(k)
      PROVE  UNCHANGED Obligation
  <2>1. UNCHANGED <<session, alloc, refund>>
    BY <1>7 DEF DeferLatePaidCheckout, RecordPaidEvent, AdvancePaidCheckoutCapacityRecovery,
                MarkPaidCheckoutCapacityCompensated
  <2> QED
    BY <2>1, SameObligation
<1>8. ASSUME NEW k \in Key, CompensatePaidCapacity(k) \/ RefundSettles(k)
      PROVE  Abstract!Refund(k) \/ UNCHANGED Obligation
  <2>1. /\ UNCHANGED <<session, alloc>>
        /\ \E r : refund' = [refund EXCEPT ![k] = r]
        /\ refund[k] # "confirmed"
        /\ recovery[k] = "compensation_required" \/ refund[k] = "pending"
    BY <1>8 DEF CompensatePaidCapacity, RefundSettles
  <2>2. \A j \in Key \ {k} : refund'[j] = refund[j]
    BY <1>1, <2>1
  <2>3. session[k] = "paid" /\ alloc[k] = "none"
    BY <2>1 DEF CoreInvariant, RefundExcludesCapacity, LedgersAgree, PaidFirst
  <2>4. \A j \in Key \ {k} : Obligation'[j] = Obligation[j]
    BY <2>1, <2>2 DEF Obligation
  <2>5. CASE refund'[k] = "confirmed"
    <3>1. Obligation[k] = "owed" /\ Obligation'[k] = "refunded"
      BY <2>1, <2>3, <2>5 DEF Obligation
    <3> QED
      BY <2>4, <3>1, OneObligation DEF Abstract!Refund
  <2>6. CASE refund'[k] # "confirmed"
    BY <2>1, <2>2, <2>6, SameObligation
  <2> QED
    BY <2>5, <2>6
<1>9. ASSUME NEW k \in Key, NEW s, UpdateSubscriptionStatus(k, s) PROVE UNCHANGED Obligation
  <2>1. UNCHANGED <<session, refund>> /\ \A j \in Key : alloc'[j] = "none" <=> alloc[j] = "none"
    BY <1>9 DEF UpdateSubscriptionStatus, SynchronizeEntitlement
  <2> QED
    BY <2>1, SameObligation
<1>10. ASSUME ApplySubscriptionReconciliation PROVE UNCHANGED Obligation
  <2>1. UNCHANGED <<session, refund>> /\ \A j \in Key : alloc'[j] = "none" <=> alloc[j] = "none"
    BY <1>10 DEF ApplySubscriptionReconciliation, SynchronizeEntitlement
  <2> QED
    BY <2>1, SameObligation
<1>11. ASSUME NEW a \in App, CreateApplicationClone(a) PROVE UNCHANGED Obligation
  BY <1>11, SameObligation DEF CreateApplicationClone
<1>12. CASE Loud
  <2>1. ASSUME NEW k \in Key, ActiveSubscriptionWebhook(k) PROVE UNCHANGED Obligation
    BY <1>9, <2>1 DEF ActiveSubscriptionWebhook
  <2>2. ASSUME NEW k \in Key, NEW s \in ProviderStatus, InactiveSubscriptionWebhook(k, s)
        PROVE  UNCHANGED Obligation
    BY <1>9, <2>2 DEF InactiveSubscriptionWebhook
  <2> QED
    BY <1>3, <1>4, <1>5, <1>6, <1>7, <1>8, <1>10, <1>11, <1>12, <2>1, <2>2 DEF Loud, Abstract!Next
<1> QED
  BY <1>1, <1>2, <1>12, StepKinds

\* The checkout core implements the obligation to the paying customer: owed
\* capacity or money from the payment on, given one of them, never both.
THEOREM ImplementsObligation == Spec => HonoursObligations
<1>1. Init => Abstract!Init
  BY DEF Init, Abstract!Init, Obligation
<1>2. CoreInvariant /\ [Next]_vars => [Abstract!Next]_Obligation
  BY StepObligation
<1> QED
  BY <1>1, <1>2, CoreSafety, PTL DEF Spec, HonoursObligations, Abstract!Spec

-----------------------------------------------------------------------------
(* Capacity, as sums                                                       *)

\* What a worker runs, what part of an assignment it gets, the holds that
\* count, and their loads on it.
Running(w)   == {a \in apps : placed[a] = w}
Part(asg, w) == {a \in DOMAIN asg : asg[a] = w}
Counting     == {k \in Key : Counts(k)}
Need(d)      == [a \in App |-> Demand[a][d]]
HeldOn(w, d) == [k \in Key |-> Load(Part(items[k], w), Demand, d)]

\* The reservations are natural numbers.
LEMMA NeedType ==
  ASSUME NEW d \in Dimension
  PROVE  \A a \in App : Need(d)[a] = Demand[a][d] /\ Need(d)[a] \in Nat
  BY QuantitiesAreWellTyped DEF QuantitiesAreWellTyped, Need, Vector, Dimension

\* The load of some of the applications.
LEMMA LoadType ==
  ASSUME NEW d \in Dimension, NEW A \in SUBSET App, IsFiniteSet(A)
  PROVE  Load(A, Demand, d) = SumOver(Need(d), A) /\ SumOver(Need(d), A) \in Nat
<1>1. \A a \in A : Need(d)[a] = Demand[a][d] /\ Need(d)[a] \in Nat
  BY NeedType
<1>. QED BY <1>1, LoadIsSum, SumNat

InSums ==
  \A w \in Worker, d \in Dimension :
    /\ Committed(w, d) = SumOver(Need(d), Running(w)) + SumOver(HeldOn(w, d), Counting)
    /\ SumOver(Need(d), Running(w)) \in Nat /\ SumOver(HeldOn(w, d), Counting) \in Nat
    /\ \A k \in Key : HeldOn(w, d)[k] = SumOver(Need(d), Part(items[k], w)) /\ HeldOn(w, d)[k] \in Nat
    /\ IsFiniteSet(Running(w)) /\ Running(w) \subseteq App /\ IsFiniteSet(Counting) /\ Counting \subseteq Key
    /\ \A k \in Key : Part(items[k], w) \subseteq App /\ IsFiniteSet(Part(items[k], w))

LEMMA CommittedInSums == TypeOK /\ FinitelyMany => InSums
<1>. SUFFICES ASSUME TypeOK, FinitelyMany, NEW w \in Worker, NEW d \in Dimension
              PROVE  /\ Committed(w, d) = SumOver(Need(d), Running(w)) + SumOver(HeldOn(w, d), Counting)
                     /\ SumOver(Need(d), Running(w)) \in Nat /\ SumOver(HeldOn(w, d), Counting) \in Nat
                     /\ \A k \in Key : HeldOn(w, d)[k] = SumOver(Need(d), Part(items[k], w)) /\ HeldOn(w, d)[k] \in Nat
                     /\ IsFiniteSet(Running(w)) /\ Running(w) \subseteq App /\ IsFiniteSet(Counting) /\ Counting \subseteq Key
                     /\ \A k \in Key : Part(items[k], w) \subseteq App /\ IsFiniteSet(Part(items[k], w))
  BY DEF InSums
<1>1. IsFiniteSet(Running(w)) /\ Running(w) \subseteq App
  BY FS_Subset DEF FinitelyMany, TypeOK, Running
<1>2. IsFiniteSet(Counting) /\ Counting \subseteq Key
  <2>1. Counting \in SUBSET {k \in Key : hold[k] # "none"}
    BY DEF Counting, Counts
  <2>. QED BY <2>1, FS_Subset DEF FinitelyMany
<1>3. ASSUME NEW k \in Key PROVE Part(items[k], w) \subseteq App /\ IsFiniteSet(Part(items[k], w))
  <2>1. Part(items[k], w) \in SUBSET (DOMAIN items[k]) /\ DOMAIN items[k] \subseteq App
    BY ItemsType DEF Part
  <2>. QED BY <2>1, FS_Subset DEF FinitelyMany
<1>4. ASSUME NEW k \in Key
      PROVE  HeldOn(w, d)[k] = SumOver(Need(d), Part(items[k], w)) /\ HeldOn(w, d)[k] \in Nat
  BY <1>3, LoadType DEF HeldOn
<1>5. Load(Running(w), Demand, d) = SumOver(Need(d), Running(w)) /\ SumOver(Need(d), Running(w)) \in Nat
  BY <1>1, LoadType
<1>6. SumOver(HeldOn(w, d), Counting) \in Nat
  BY <1>2, <1>4, SumNat
<1>7. Committed(w, d) = Load(Running(w), Demand, d) + SumOver(HeldOn(w, d), Counting)
  <2>. DEFINE L(k) == Load({a \in DOMAIN items[k] : items[k][a] = w}, Demand, d)
              Mine(g)  == [s \in SUBSET Counting |-> IF s = {} THEN 0 ELSE L(Picked(s)) + g[s \ {Picked(s)}]]
              Yours(g) == [s \in SUBSET Counting |->
                             IF s = {} THEN 0 ELSE HeldOn(w, d)[Picked(s)] + g[s \ {Picked(s)}]]
  <2>1. \A s \in SUBSET Counting : s # {} => Picked(s) \in Counting
    BY DEF Picked
  <2>2. \A k \in Counting : L(k) = HeldOn(w, d)[k]
    BY <1>2 DEF HeldOn, Part
  <2>3. \A g : Mine(g) = Yours(g)
    <3>. HIDE DEF L
    <3>. QED BY <2>1, <2>2
  <2>4. Committed(w, d) = Load(Running(w), Demand, d) + (CHOOSE g : g = Mine(g))[Counting]
    BY DEF Committed, Running, Counting, MapThenSumSet, MapThenFoldSet, Picked
  <2>5. SumOver(HeldOn(w, d), Counting) = (CHOOSE g : g = Yours(g))[Counting]
    BY DEF SumOver, MapThenSumSet, MapThenFoldSet, Picked
  <2>. HIDE DEF Mine, Yours
  <2>. QED BY <2>3, <2>4, <2>5
<1>. QED BY <1>1, <1>2, <1>3, <1>4, <1>5, <1>6, <1>7

\* What runs and what is held, after a step, in terms of what was before it.
LEMMA CapacityStep ==
  ASSUME InSums, InSums', NEW w \in Worker, NEW d \in Dimension,
         NEW A \in SUBSET App, IsFiniteSet(A), Running(w)' \subseteq Running(w) \cup A,
         NEW C \in SUBSET Counting, Counting' \subseteq C, \A k \in C : items'[k] = items[k]
  PROVE  Committed(w, d)' <= SumOver(Need(d), Running(w)) + SumOver(Need(d), A) + SumOver(HeldOn(w, d), C)
<1>1. /\ Committed(w, d)' = SumOver(Need(d), Running(w)') + SumOver(HeldOn(w, d)', Counting')
      /\ SumOver(Need(d), Running(w)') \in Nat /\ SumOver(HeldOn(w, d)', Counting') \in Nat
  BY DEF InSums, Need
<1>2. SumOver(Need(d), Running(w)') <= SumOver(Need(d), Running(w)) + SumOver(Need(d), A)
  BY NeedType, SumGrows DEF InSums
<1>3. SumOver(HeldOn(w, d)', Counting') <= SumOver(HeldOn(w, d), C)
  <2>1. /\ IsFiniteSet(C) /\ C \subseteq Key
        /\ \A k \in C : HeldOn(w, d)[k] \in Nat /\ HeldOn(w, d)'[k] = HeldOn(w, d)[k]
    BY FS_Subset DEF InSums, HeldOn
  <2>2. SumOver(HeldOn(w, d)', Counting') <= SumOver(HeldOn(w, d)', C)
    BY <2>1, SumSubset
  <2>3. SumOver(HeldOn(w, d)', C) = SumOver(HeldOn(w, d), C)
    BY <2>1, SumCongruent
  <2>. QED BY <2>2, <2>3
<1>4. /\ SumOver(Need(d), Running(w)) \in Nat /\ SumOver(Need(d), A) \in Nat
      /\ SumOver(HeldOn(w, d), C) \in Nat
  <2>1. IsFiniteSet(C) /\ \A k \in C : HeldOn(w, d)[k] \in Nat
    BY FS_Subset DEF InSums
  <2>2. \A a \in A : Need(d)[a] \in Nat
    BY NeedType
  <2>. QED BY <2>1, <2>2, SumNat DEF InSums
<1>. QED BY <1>1, <1>2, <1>3, <1>4

\* Steps that place and hold nothing new.
Keeps ==
  /\ UNCHANGED items
  /\ \A w \in Worker : Running(w)' \subseteq Running(w)
  /\ Counting' \subseteq Counting

LEMMA KeepsCapacity ==
  ASSUME InSums, InSums', NoOvercommit, Keeps
  PROVE  NoOvercommit'
<1>. SUFFICES ASSUME NEW w \in Worker, NEW d \in Dimension
              PROVE  Committed(w, d)' <= Capacity[w][d]
  BY DEF NoOvercommit
<1>1. Committed(w, d)' <= SumOver(Need(d), Running(w)) + SumOver(Need(d), {}) + SumOver(HeldOn(w, d), Counting)
  <2>1. IsFiniteSet({}) /\ {} \in SUBSET App /\ Counting \in SUBSET Counting
    BY FS_EmptySet
  <2>2. Running(w)' \subseteq Running(w) \cup {} /\ Counting' \subseteq Counting
        /\ \A k \in Counting : items'[k] = items[k]
    BY DEF Keeps
  <2>. HIDE DEF Keeps
  <2>. QED BY <2>1, <2>2, CapacityStep
<1>2. SumOver(Need(d), {}) = 0
  BY SumEmpty
<1>3. /\ Committed(w, d) = SumOver(Need(d), Running(w)) + SumOver(HeldOn(w, d), Counting)
      /\ SumOver(Need(d), Running(w)) \in Nat /\ SumOver(HeldOn(w, d), Counting) \in Nat
      /\ Committed(w, d)' \in Nat
  BY DEF InSums
<1>4. Committed(w, d) <= Capacity[w][d] /\ Capacity[w][d] \in Nat
  BY QuantitiesAreWellTyped DEF NoOvercommit, QuantitiesAreWellTyped, Vector, Dimension
<1>. QED BY <1>1, <1>2, <1>3, <1>4

\* What best fit gives a worker, it has room for.
LEMMA PartFits ==
  ASSUME TypeOK, InSums, NoOvercommit, NEW A \in SUBSET App, IsFiniteSet(A), NEW asg \in Placement(A),
         NEW w \in Worker, NEW d \in Dimension
  PROVE  /\ Part(asg, w) \subseteq App /\ IsFiniteSet(Part(asg, w))
         /\ SumOver(Need(d), Part(asg, w)) \in Nat
         /\ SumOver(Need(d), Part(asg, w)) + Committed(w, d) <= Capacity[w][d]
<1>1. asg \in [A -> Worker] /\ DOMAIN asg = A
  BY PlacementType
<1>2. Part(asg, w) \in SUBSET A /\ IsFiniteSet(Part(asg, w)) /\ Part(asg, w) \in SUBSET App
  BY <1>1, FS_Subset DEF Part
<1>3. Load(Part(asg, w), Demand, d) = SumOver(Need(d), Part(asg, w)) /\ SumOver(Need(d), Part(asg, w)) \in Nat
  BY <1>2, LoadType
<1>4. Committed(w, d) \in Nat /\ Committed(w, d) <= Capacity[w][d] /\ Capacity[w][d] \in Nat
  BY QuantitiesAreWellTyped DEF InSums, NoOvercommit, QuantitiesAreWellTyped, Vector, Dimension
<1>5. CASE Part(asg, w) = {}
  <2>1. SumOver(Need(d), Part(asg, w)) = 0
    BY <1>5, SumEmpty
  <2>. QED BY <1>2, <1>3, <1>4, <2>1
<1>6. CASE Part(asg, w) # {}
  <2>1. Free[w][d] = Capacity[w][d] - Committed(w, d)
    BY DEF Free
  <2>2. Load({a \in A : asg[a] = w}, Demand, d) <= Free[w][d]
    <3>1. A \in SUBSET Nat /\ \A a \in A : Demand[a] \in Vector(Nat)
      BY ConstantsAreWellTyped, QuantitiesAreWellTyped DEF ConstantsAreWellTyped, QuantitiesAreWellTyped, Vector
    <3>2. \E a \in A : asg[a] = w
      BY <1>1, <1>6 DEF Part
    <3>3. asg \in Placements(A, ready, Demand, Free)
      BY DEF Placement
    <3>4. Free[w][d] \in Int
      BY <1>4, <2>1
    <3>. QED BY <3>1, <3>2, <3>3, <3>4, BestFitFits
  <2>3. Part(asg, w) = {a \in A : asg[a] = w}
    BY <1>1 DEF Part
  <2>. QED BY <1>2, <1>3, <1>4, <2>1, <2>2, <2>3
<1>. QED BY <1>5, <1>6

\* Steps that place applications A by best fit, and hold nothing new.
Places(A, asg) ==
  /\ asg \in Placement(A)
  /\ UNCHANGED items
  /\ \A w \in Worker : Running(w)' \subseteq Running(w) \cup Part(asg, w)
  /\ Counting' \subseteq Counting

LEMMA PlacesCapacity ==
  ASSUME TypeOK, InSums, InSums', NoOvercommit,
         NEW A \in SUBSET App, IsFiniteSet(A), NEW asg, Places(A, asg)
  PROVE  NoOvercommit'
<1>. SUFFICES ASSUME NEW w \in Worker, NEW d \in Dimension
              PROVE  Committed(w, d)' <= Capacity[w][d]
  BY DEF NoOvercommit
<1>1. /\ asg \in Placement(A) /\ Counting \in SUBSET Counting /\ Counting' \subseteq Counting
      /\ Running(w)' \subseteq Running(w) \cup Part(asg, w)
      /\ \A k \in Counting : items'[k] = items[k]
  BY DEF Places
<1>2. /\ Part(asg, w) \subseteq App /\ IsFiniteSet(Part(asg, w))
      /\ SumOver(Need(d), Part(asg, w)) \in Nat
      /\ SumOver(Need(d), Part(asg, w)) + Committed(w, d) <= Capacity[w][d]
  BY <1>1, PartFits
<1>3. Committed(w, d)' <= SumOver(Need(d), Running(w)) + SumOver(Need(d), Part(asg, w)) + SumOver(HeldOn(w, d), Counting)
  BY <1>1, <1>2, CapacityStep
<1>4. /\ Committed(w, d) = SumOver(Need(d), Running(w)) + SumOver(HeldOn(w, d), Counting)
      /\ SumOver(Need(d), Running(w)) \in Nat /\ SumOver(HeldOn(w, d), Counting) \in Nat
      /\ Committed(w, d)' \in Nat
  BY DEF InSums
<1>5. Capacity[w][d] \in Nat
  BY QuantitiesAreWellTyped DEF QuantitiesAreWellTyped, Vector, Dimension
<1>. QED BY <1>2, <1>3, <1>4, <1>5

\* The step that turns a hold that counts into what runs.
Consumes(k) ==
  /\ k \in Counting
  /\ UNCHANGED items
  /\ \A w \in Worker : Running(w)' \subseteq Running(w) \cup Part(items[k], w)
  /\ Counting' \subseteq Counting \ {k}

LEMMA ConsumesCapacity ==
  ASSUME InSums, InSums', NoOvercommit, NEW k \in Key, Consumes(k)
  PROVE  NoOvercommit'
<1>. SUFFICES ASSUME NEW w \in Worker, NEW d \in Dimension
              PROVE  Committed(w, d)' <= Capacity[w][d]
  BY DEF NoOvercommit
<1>1. /\ k \in Counting /\ Counting \ {k} \in SUBSET Counting /\ Counting' \subseteq Counting \ {k}
      /\ Running(w)' \subseteq Running(w) \cup Part(items[k], w)
      /\ \A j \in Counting \ {k} : items'[j] = items[j]
  BY DEF Consumes
<1>2. /\ Part(items[k], w) \subseteq App /\ IsFiniteSet(Part(items[k], w))
      /\ HeldOn(w, d)[k] = SumOver(Need(d), Part(items[k], w)) /\ HeldOn(w, d)[k] \in Nat
  BY DEF InSums
<1>3. Committed(w, d)' <= SumOver(Need(d), Running(w)) + SumOver(Need(d), Part(items[k], w))
                            + SumOver(HeldOn(w, d), Counting \ {k})
  BY <1>1, <1>2, CapacityStep
<1>4. SumOver(HeldOn(w, d), Counting) = HeldOn(w, d)[k] + SumOver(HeldOn(w, d), Counting \ {k})
      /\ SumOver(HeldOn(w, d), Counting \ {k}) \in Int
  <2>1. IsFiniteSet(Counting) /\ \A j \in Counting : HeldOn(w, d)[j] \in Int
    BY DEF InSums
  <2>. QED BY <1>1, <2>1, SumRemove
<1>5. /\ Committed(w, d) = SumOver(Need(d), Running(w)) + SumOver(HeldOn(w, d), Counting)
      /\ SumOver(Need(d), Running(w)) \in Nat /\ SumOver(HeldOn(w, d), Counting) \in Nat
      /\ Committed(w, d)' \in Nat
  BY DEF InSums
<1>6. Committed(w, d) <= Capacity[w][d] /\ Capacity[w][d] \in Nat
  BY QuantitiesAreWellTyped DEF NoOvercommit, QuantitiesAreWellTyped, Vector, Dimension
<1>. QED BY <1>2, <1>3, <1>4, <1>5, <1>6

\* The step that makes a hold, by best fit.
Holds(k, A, asg) ==
  /\ asg \in Placement(A)
  /\ k \notin Counting
  /\ items' = [items EXCEPT ![k] = asg]
  /\ UNCHANGED <<apps, placed>>
  /\ Counting' \subseteq Counting \cup {k}

LEMMA HoldsCapacity ==
  ASSUME TypeOK, InSums, InSums', NoOvercommit, NEW k \in Key,
         NEW A \in SUBSET App, IsFiniteSet(A), NEW asg, Holds(k, A, asg)
  PROVE  NoOvercommit'
<1>. SUFFICES ASSUME NEW w \in Worker, NEW d \in Dimension
              PROVE  Committed(w, d)' <= Capacity[w][d]
  BY DEF NoOvercommit
<1>1. /\ asg \in Placement(A) /\ k \notin Counting /\ Counting' \subseteq Counting \cup {k}
      /\ Running(w)' = Running(w)
  BY DEF Holds, Running
<1>2. items'[k] = asg /\ \A j \in Key \ {k} : items'[j] = items[j]
  BY DEF Holds, TypeOK
<1>3. /\ SumOver(Need(d), Part(asg, w)) \in Nat
      /\ SumOver(Need(d), Part(asg, w)) + Committed(w, d) <= Capacity[w][d]
  BY <1>1, PartFits
<1>4. /\ \A j \in Key : HeldOn(w, d)'[j] = SumOver(Need(d), Part(items'[j], w)) /\ HeldOn(w, d)'[j] \in Nat
      /\ Committed(w, d)' = SumOver(Need(d), Running(w)) + SumOver(HeldOn(w, d)', Counting')
  BY <1>1 DEF InSums, Need, Part
<1>5. HeldOn(w, d)'[k] = SumOver(Need(d), Part(asg, w))
  BY <1>2, <1>4
<1>6. SumOver(HeldOn(w, d)', Counting') <= SumOver(HeldOn(w, d)', Counting \cup {k})
      /\ SumOver(HeldOn(w, d)', Counting') \in Nat
  <2>1. IsFiniteSet(Counting \cup {k}) /\ Counting \cup {k} \subseteq Key
    BY FS_AddElement DEF InSums
  <2>2. SumOver(HeldOn(w, d)', Counting') <= SumOver(HeldOn(w, d)', Counting \cup {k})
    BY <1>1, <1>4, <2>1, SumSubset
  <2>. QED BY <2>2 DEF InSums
<1>7. SumOver(HeldOn(w, d)', Counting \cup {k}) = HeldOn(w, d)'[k] + SumOver(HeldOn(w, d)', Counting)
  <2>1. IsFiniteSet(Counting \cup {k}) /\ Counting \cup {k} \subseteq Key /\ (Counting \cup {k}) \ {k} = Counting
    BY <1>1, FS_AddElement DEF InSums
  <2>2. \A j \in Counting \cup {k} : HeldOn(w, d)'[j] \in Int
    BY <1>4, <2>1
  <2>3. SumOver(HeldOn(w, d)', Counting \cup {k})
          = HeldOn(w, d)'[k] + SumOver(HeldOn(w, d)', (Counting \cup {k}) \ {k})
    BY <2>1, <2>2, SumRemove
  <2>. QED BY <2>1, <2>3
<1>8. SumOver(HeldOn(w, d)', Counting) = SumOver(HeldOn(w, d), Counting)
  <2>1. \A j \in Counting : HeldOn(w, d)[j] \in Int /\ HeldOn(w, d)'[j] = HeldOn(w, d)[j]
    BY <1>1, <1>2 DEF InSums, HeldOn
  <2>. QED BY <2>1, SumCongruent DEF InSums
<1>9. /\ Committed(w, d) = SumOver(Need(d), Running(w)) + SumOver(HeldOn(w, d), Counting)
      /\ SumOver(Need(d), Running(w)) \in Nat /\ SumOver(HeldOn(w, d), Counting) \in Nat
  BY DEF InSums
<1>10. Capacity[w][d] \in Nat
  BY QuantitiesAreWellTyped DEF QuantitiesAreWellTyped, Vector, Dimension
<1>. QED BY <1>3, <1>4, <1>5, <1>6, <1>7, <1>8, <1>9, <1>10

\* Nothing runs and nothing is held at first.
LEMMA InitCapacity == Init => FinitelyMany /\ NoOvercommit
<1>. SUFFICES ASSUME Init PROVE FinitelyMany /\ NoOvercommit
  OBVIOUS
<1>1. FinitelyMany
  <2>1. {k \in Key : hold[k] # "none"} = {} /\ \A k \in Key : DOMAIN items[k] = {}
    BY DEF Init, NoItems
  <2>. QED BY <2>1, FS_EmptySet, QuantitiesAreWellTyped DEF Init, FinitelyMany, QuantitiesAreWellTyped
<1>2. InSums
  BY <1>1, InitType, CommittedInSums
<1>3. ASSUME NEW w \in Worker, NEW d \in Dimension PROVE Committed(w, d) <= Capacity[w][d]
  <2>1. Running(w) = {}
    BY ConstantsAreWellTyped DEF Init, Running, ConstantsAreWellTyped
  <2>2. Counting = {}
    BY DEF Init, Counting, Counts
  <2>3. Committed(w, d) = 0
    BY <1>2, <2>1, <2>2, SumEmpty DEF InSums
  <2>4. Capacity[w][d] \in Nat
    BY QuantitiesAreWellTyped DEF QuantitiesAreWellTyped, Vector, Dimension
  <2>. QED BY <2>3, <2>4
<1>. QED BY <1>1, <1>3 DEF NoOvercommit

\* A step adds one application and one hold at most, of applications there are.
LEMMA FiniteStep ==
  ASSUME CoreInvariant, FinitelyMany, [Next]_vars
  PROVE  FinitelyMany'
<1>. USE DEF holdVars, requestVars, stripeVars, ledgerVars, serverVars, webhookVars
<1>. DEFINE Few == /\ \E a : apps' \subseteq apps \cup {a}
                   /\ \E k : \A j \in Key \ {k} : hold[j] = "none" => hold'[j] = "none"
                   /\ \A k \in Key : items'[k] = items[k] \/ DOMAIN items'[k] \subseteq apps
<1>1. ASSUME Few PROVE FinitelyMany'
  <2>1. PICK a : apps' \subseteq apps \cup {a}
    BY <1>1
  <2>2. PICK k : \A j \in Key \ {k} : hold[j] = "none" => hold'[j] = "none"
    BY <1>1
  <2>3. {j \in Key : hold'[j] # "none"} \in SUBSET ({j \in Key : hold[j] # "none"} \cup {k})
    BY <2>2
  <2>4. IsFiniteSet(apps') /\ IsFiniteSet({j \in Key : hold'[j] # "none"})
    BY <2>1, <2>3, FS_AddElement, FS_Subset DEF FinitelyMany
  <2>5. \A j \in Key : IsFiniteSet(DOMAIN items'[j])
    BY <1>1, FS_Subset DEF FinitelyMany
  <2>. QED BY <2>4, <2>5 DEF FinitelyMany
<1>2. /\ TypeOK /\ hold \in [Key -> HoldState] /\ items \in [Key -> Assignment]
      /\ \A k \in Key : Swept[k] = "none" <=> hold[k] = "none"
      /\ Swept \in [Key -> HoldState]
  BY SweptStep, SweptType DEF CoreInvariant, TypeOK
<1>3. ASSUME UNCHANGED <<items, apps>>, \A j \in Key : hold[j] = "none" => hold'[j] = "none" PROVE Few
  <2>1. apps' \subseteq apps \cup {0}
    BY <1>3
  <2>. QED BY <1>3, <2>1
<1>4. ASSUME Quiet PROVE Few
  BY <1>3, <1>4 DEF Quiet
<1>5. ASSUME NEW k \in Key, AcquireCheckoutCapacityHold(k) PROVE Few
  <2>1. PICK asg \in Placement(AppsOf(ServerOf[k])) :
          hold' = [Swept EXCEPT ![k] = "active"] /\ items' = [items EXCEPT ![k] = asg] /\ UNCHANGED apps
    BY <1>5 DEF AcquireCheckoutCapacityHold
  <2>2. AppsOf(ServerOf[k]) \in SUBSET App /\ AppsOf(ServerOf[k]) \subseteq apps
    BY <1>2 DEF AppsOf, TypeOK
  <2>3. DOMAIN asg \subseteq apps
    BY <1>2, <2>1, <2>2, PlacementType
  <2>4. \A j \in Key : items'[j] = items[j] \/ DOMAIN items'[j] \subseteq apps
    BY <1>2, <2>1, <2>3
  <2>5. \A j \in Key \ {k} : hold[j] = "none" => hold'[j] = "none"
    BY <1>2, <2>1
  <2>6. apps' \subseteq apps \cup {0}
    BY <2>1
  <2>. QED BY <2>4, <2>5, <2>6
<1>6. ASSUME NEW k \in Key, ProcessPaidCheckout(k) PROVE Few
  <2>1. Swept[k] = "active" /\ hold' = [Swept EXCEPT ![k] = "consumed"] /\ UNCHANGED <<items, apps>>
    BY <1>6 DEF ProcessPaidCheckout, RecordPaidEvent
  <2>. QED BY <1>2, <1>3, <2>1
<1>7. ASSUME NEW k \in Key, ProcessLatePaidCheckout(k) \/ DeferLatePaidCheckout(k) PROVE Few
  BY <1>2, <1>3, <1>7 DEF ProcessLatePaidCheckout, DeferLatePaidCheckout, RecordPaidEvent
<1>8. ASSUME NEW k \in Key, NEW s, UpdateSubscriptionStatus(k, s) PROVE Few
  BY <1>3, <1>8 DEF UpdateSubscriptionStatus
<1>9. ASSUME NEW k \in Key,
             \/ AdvancePaidCheckoutCapacityRecovery(k) \/ RetryPaidCheckoutCapacityRecovery(k)
             \/ MarkPaidCheckoutCapacityCompensated(k) \/ CompensatePaidCapacity(k) \/ RefundSettles(k)
      PROVE  Few
  BY <1>3, <1>9 DEF AdvancePaidCheckoutCapacityRecovery, RetryPaidCheckoutCapacityRecovery,
                    MarkPaidCheckoutCapacityCompensated, CompensatePaidCapacity, RefundSettles
<1>10. ASSUME ApplySubscriptionReconciliation PROVE Few
  BY <1>3, <1>10 DEF ApplySubscriptionReconciliation
<1>11. ASSUME NEW a \in App, CreateApplicationClone(a) PROVE Few
  <2>1. apps' = apps \cup {a} /\ hold' = Swept /\ UNCHANGED items
    BY <1>11 DEF CreateApplicationClone
  <2>. QED BY <1>2, <2>1
<1>12. ASSUME Loud PROVE Few
  <2>. HIDE DEF Few
  <2>1. ASSUME NEW k \in Key, ActiveSubscriptionWebhook(k) PROVE Few
    BY <1>8, <2>1 DEF ActiveSubscriptionWebhook
  <2>2. ASSUME NEW k \in Key, NEW s \in ProviderStatus, InactiveSubscriptionWebhook(k, s) PROVE Few
    BY <1>8, <2>2 DEF InactiveSubscriptionWebhook
  <2>. QED BY <1>5, <1>6, <1>7, <1>9, <1>10, <1>11, <1>12, <2>1, <2>2 DEF Loud
<1>. HIDE DEF Few
<1>. QED BY <1>1, <1>2, <1>4, <1>12, StepKinds

\* Each step keeps, places, consumes or holds.
CapacityKind ==
  \/ Keeps
  \/ \E A \in SUBSET App : \E asg : IsFiniteSet(A) /\ Places(A, asg)
  \/ \E k \in Key : Consumes(k)
  \/ \E k \in Key, A \in SUBSET App : \E asg : IsFiniteSet(A) /\ Holds(k, A, asg)

\* Holds that count stop counting, unless one is made.
LEMMA CountingShrinks ==
  ASSUME lapsed \subseteq lapsed', NEW C, \A k \in Key \ C : hold'[k] = "active" => hold[k] = "active"
  PROVE  Counting' \subseteq Counting \cup C
  BY DEF Counting, Counts

\* Paid applications go where they were sent.
LEMMA PlaceRuns ==
  ASSUME apps \subseteq App, NEW asg, Place(asg), UNCHANGED apps
  PROVE  \A w \in Worker : Running(w)' \subseteq Running(w) \cup Part(asg, w)
  BY DEF Place, Running, Part

LEMMA StepCapacityKind ==
  ASSUME CoreInvariant, FinitelyMany, [Next]_vars
  PROVE  CapacityKind
<1>. USE DEF holdVars, requestVars, stripeVars, ledgerVars, serverVars, webhookVars
<1>1. /\ TypeOK /\ hold \in [Key -> HoldState] /\ items \in [Key -> Assignment]
      /\ placed \in [App -> Worker \cup {NoWorker}] /\ apps \subseteq App
      /\ \A k \in Key : Swept[k] = hold[k] \/ (hold[k] = "active" /\ Swept[k] = "expired")
      /\ Swept \in [Key -> HoldState]
  BY SweptStep, SweptType DEF CoreInvariant, TypeOK
<1>2. ASSUME UNCHANGED <<items, apps, placed>>, lapsed \subseteq lapsed',
             \A k \in Key : hold'[k] = "active" => hold[k] = "active"
      PROVE  CapacityKind
  <2>1. Counting' \subseteq Counting \cup {}
    BY <1>2, CountingShrinks
  <2>. QED BY <1>2, <2>1 DEF CapacityKind, Keeps, Running
<1>3. CASE Quiet
  BY <1>2, <1>3 DEF Quiet
<1>4. ASSUME NEW k \in Key, AcquireCheckoutCapacityHold(k) PROVE CapacityKind
  <2>1. PICK asg \in Placement(AppsOf(ServerOf[k])) :
          /\ hold' = [Swept EXCEPT ![k] = "active"] /\ items' = [items EXCEPT ![k] = asg]
          /\ UNCHANGED <<apps, placed, lapsed>> /\ hold[k] = "none"
    BY <1>4 DEF AcquireCheckoutCapacityHold
  <2>2. AppsOf(ServerOf[k]) \in SUBSET App /\ IsFiniteSet(AppsOf(ServerOf[k]))
    BY <1>1, FS_Subset DEF AppsOf, FinitelyMany
  <2>3. \A j \in Key \ {k} : hold'[j] = "active" => hold[j] = "active"
    BY <1>1, <2>1
  <2>4. Counting' \subseteq Counting \cup {k}
    BY <2>1, <2>3, CountingShrinks
  <2>5. k \notin Counting
    BY <2>1 DEF Counting, Counts
  <2>6. Holds(k, AppsOf(ServerOf[k]), asg)
    BY <2>1, <2>4, <2>5 DEF Holds
  <2>. QED BY <2>2, <2>6 DEF CapacityKind
<1>5. ASSUME NEW k \in Key, ProcessPaidCheckout(k) PROVE CapacityKind
  <2>1. /\ Swept[k] = "active" /\ hold' = [Swept EXCEPT ![k] = "consumed"]
        /\ Place(items[k]) /\ UNCHANGED <<items, apps, lapsed>>
    BY <1>5 DEF ProcessPaidCheckout, RecordPaidEvent, Provision
  <2>2. k \in Counting
    BY <2>1 DEF Swept, Counting, Counts
  <2>3. Counting' \subseteq Counting \ {k}
    <3>1. \A j \in Key \ {} : hold'[j] = "active" => hold[j] = "active"
      BY <1>1, <2>1
    <3>2. hold'[k] # "active"
      BY <1>1, <2>1
    <3>. QED BY <2>1, <3>1, <3>2, CountingShrinks DEF Counting, Counts
  <2>4. Consumes(k)
    BY <1>1, <2>1, <2>2, <2>3, PlaceRuns DEF Consumes
  <2>. QED BY <2>4 DEF CapacityKind
<1>6. ASSUME NEW k \in Key, NEW asg \in Placement(DOMAIN items[k]), Place(asg), UNCHANGED <<items, apps, lapsed>>,
             \A j \in Key : hold'[j] = "active" => hold[j] = "active"
      PROVE  CapacityKind
  <2>1. DOMAIN items[k] \in SUBSET App /\ IsFiniteSet(DOMAIN items[k])
    BY <1>1, ItemsType DEF FinitelyMany
  <2>2. Counting' \subseteq Counting \cup {}
    BY <1>6, CountingShrinks
  <2>3. Places(DOMAIN items[k], asg)
    BY <1>1, <1>6, <2>2, PlaceRuns DEF Places
  <2>. QED BY <2>1, <2>3 DEF CapacityKind
<1>7. ASSUME NEW k \in Key, ProcessLatePaidCheckout(k) PROVE CapacityKind
  <2>1. PICK asg \in Placement(DOMAIN items[k]) :
          Place(asg) /\ hold' = Swept /\ UNCHANGED <<items, apps, lapsed>>
    BY <1>7 DEF ProcessLatePaidCheckout, RecordPaidEvent, Provision
  <2>. QED BY <1>1, <1>6, <2>1
<1>8. ASSUME NEW k \in Key, RetryPaidCheckoutCapacityRecovery(k) PROVE CapacityKind
  <2>1. PICK asg \in Placement(DOMAIN items[k]) : Place(asg) /\ UNCHANGED <<hold, items, apps, lapsed>>
    BY <1>8 DEF RetryPaidCheckoutCapacityRecovery, Provision
  <2>. QED BY <1>6, <2>1
<1>9. ASSUME NEW k \in Key, DeferLatePaidCheckout(k) PROVE CapacityKind
  BY <1>1, <1>2, <1>9 DEF DeferLatePaidCheckout, RecordPaidEvent
<1>10. ASSUME NEW k \in Key, NEW s, UpdateSubscriptionStatus(k, s) PROVE CapacityKind
  BY <1>2, <1>10 DEF UpdateSubscriptionStatus
<1>11. ASSUME NEW k \in Key,
             \/ AdvancePaidCheckoutCapacityRecovery(k) \/ MarkPaidCheckoutCapacityCompensated(k)
             \/ CompensatePaidCapacity(k) \/ RefundSettles(k)
      PROVE  CapacityKind
  BY <1>2, <1>11 DEF AdvancePaidCheckoutCapacityRecovery, MarkPaidCheckoutCapacityCompensated,
                     CompensatePaidCapacity, RefundSettles
<1>12. ASSUME ApplySubscriptionReconciliation PROVE CapacityKind
  BY <1>2, <1>12 DEF ApplySubscriptionReconciliation
<1>13. ASSUME NEW a \in App, CreateApplicationClone(a) PROVE CapacityKind
  <2>1. /\ a \notin apps /\ apps' = apps \cup {a} /\ hold' = Swept /\ UNCHANGED <<items, lapsed>>
        /\ placed' = placed \/ \E asg \in Placement({a}) : Place(asg)
    BY <1>13 DEF CreateApplicationClone
  <2>2. Counting' \subseteq Counting \cup {}
    BY <1>1, <2>1, CountingShrinks
  <2>3. placed[a] = NoWorker
    BY <2>1 DEF CoreInvariant, PlacedExist
  <2>4. CASE placed' = placed
    <3>1. \A w \in Worker : Running(w)' \subseteq Running(w)
      BY <2>1, <2>3, <2>4, ConstantsAreWellTyped DEF Running, ConstantsAreWellTyped
    <3>. QED BY <2>1, <2>2, <3>1 DEF CapacityKind, Keeps
  <2>5. ASSUME NEW asg \in Placement({a}), Place(asg) PROVE CapacityKind
    <3>1. DOMAIN asg = {a}
      BY <1>1, PlacementType
    <3>2. \A w \in Worker : Running(w)' \subseteq Running(w) \cup Part(asg, w)
      BY <1>1, <2>1, <2>5, <3>1 DEF Place, Running, Part
    <3>3. Places({a}, asg) /\ IsFiniteSet({a}) /\ {a} \in SUBSET App
      BY <2>1, <2>2, <2>5, <3>2, FS_Singleton DEF Places
    <3>. QED BY <3>3 DEF CapacityKind
  <2>. QED BY <2>1, <2>4, <2>5
<1>14. CASE Loud
  <2>1. ASSUME NEW k \in Key, ActiveSubscriptionWebhook(k) PROVE CapacityKind
    BY <1>10, <2>1 DEF ActiveSubscriptionWebhook
  <2>2. ASSUME NEW k \in Key, NEW s \in ProviderStatus, InactiveSubscriptionWebhook(k, s) PROVE CapacityKind
    BY <1>10, <2>2 DEF InactiveSubscriptionWebhook
  <2>. QED BY <1>4, <1>5, <1>7, <1>8, <1>9, <1>11, <1>12, <1>13, <1>14, <2>1, <2>2 DEF Loud
<1>. QED BY <1>1, <1>3, <1>14, StepKinds

\* No step promises a worker more than it has.
LEMMA StepCapacity == CapacityInvariant /\ [Next]_vars => CapacityInvariant'
<1>. SUFFICES ASSUME CapacityInvariant, [Next]_vars PROVE CapacityInvariant'
  OBVIOUS
<1>1. CoreInvariant /\ FinitelyMany /\ NoOvercommit /\ TypeOK
  BY DEF CapacityInvariant, CoreInvariant
<1>2. CoreInvariant' /\ FinitelyMany' /\ TypeOK'
  <2>1. CoreInvariant'
    BY <1>1, StepCore
  <2>. QED BY <1>1, <2>1, FiniteStep DEF CoreInvariant
<1>3. InSums
  BY <1>1, CommittedInSums
<1>4. InSums'
  BY <1>2, CommittedInSums, PTL
<1>5. CapacityKind
  BY <1>1, StepCapacityKind
<1>6. NoOvercommit'
  BY <1>1, <1>3, <1>4, <1>5, KeepsCapacity, PlacesCapacity, ConsumesCapacity, HoldsCapacity DEF CapacityKind
<1>. QED BY <1>2, <1>6 DEF CapacityInvariant

-----------------------------------------------------------------------------
\* The capacity ledger is sound along every behaviour of any number of
\* checkouts: what runs and what is held is finite, and fits its worker.
THEOREM CapacitySafety == Spec => []CapacityInvariant
<1>1. Init => CapacityInvariant
  BY InitCore, InitCapacity DEF CapacityInvariant
<1>. QED BY <1>1, StepCapacity, PTL DEF Spec

\* No worker is promised twice: whatever the order of expiries, payments on
\* time and late, retries and clones, holds and placements stay within capacity.
THEOREM NeverOvercommitted == Spec => []NoOvercommit
<1>1. CapacityInvariant => NoOvercommit
  BY DEF CapacityInvariant
<1>. QED BY <1>1, CapacitySafety, PTL
=============================================================================
