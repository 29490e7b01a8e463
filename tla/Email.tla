------------------------------- MODULE Email -------------------------------
(***************************************************************************)
(* The email module: audiences, subscribers with their consent receipts    *)
(* and suppressions, and campaigns from draft through review, approval and *)
(* schedule to a dispatch plan and the provider's receipts.  A command     *)
(* runs in a transaction of the workspace; a repeated idempotency key      *)
(* changes nothing; a new one and a fresh approval are always to be had.   *)
(* Clocks of consents and events are the sender's, never in the future.    *)
(***************************************************************************)
EXTENDS Naturals, Sequences, FiniteSets

CONSTANTS
  Address, Event, Reason,   \* Reason: reasons of suppression
  Final,                    \* the reasons a reactivation is refused for
  Horizon, MaxAudiences, MaxSuppressions, MaxCampaigns, MaxDrafts, MaxPlans, MaxVersion

VARIABLE records   \* the module's records and the clock

audience    == records.audience
subscriber  == records.subscriber    \* by address
suppression == records.suppression
campaign    == records.campaign
draft       == records.draft         \* immutable campaign versions
review      == records.review
approval    == records.approval
schedule    == records.schedule
plan        == records.plan
receipt     == records.receipt       \* provider receipts
now         == records.now

None == 0
Unknown == [state |-> "unknown", audiences |-> {}, consent |-> 0]

Init == records =
  [audience |-> 0, subscriber |-> [a \in Address |-> Unknown], suppression |-> <<>>, campaign |-> <<>>, draft |-> <<>>,
   review |-> <<>>, approval |-> <<>>, schedule |-> <<>>, plan |-> <<>>, receipt |-> {}, now |-> 0]

Tick == now < Horizon /\ records' = [records EXCEPT !.now = @ + 1]

AudienceCreate == audience < MaxAudiences /\ records' = [records EXCEPT !.audience = @ + 1]

Consented(a, u, at) == [state |-> "active", audiences |-> subscriber[a].audiences \cup {u}, consent |-> at]

SubscriberOptIn(a, u, at) ==
  /\ at <= now /\ subscriber[a].state # "suppressed"
  /\ subscriber[a].state = "active" => at >= subscriber[a].consent
  /\ records' = [records EXCEPT !.subscriber[a] = Consented(a, u, at)]

SuppressionsOf(a) == {i \in DOMAIN suppression : suppression[i].of = a}
\* Those of the latest time; which of them comes first is up to their ids.
Latest(a) == {i \in SuppressionsOf(a) : \A j \in SuppressionsOf(a) : suppression[j].at <= suppression[i].at}

\* Mutant of Reconfirmed: the consent may be one given before the suppression.
ReconfirmedAnyTime(i, at) == suppression[i].reason \notin Final /\ at <= now

Reconfirmed(i, at) == suppression[i].reason \notin Final /\ at <= now /\ at > suppression[i].at

SubscriberReactivate(a, u, at) ==
  /\ subscriber[a].state = "suppressed"
  /\ \E i \in Latest(a) : Reconfirmed(i, at)
  /\ records' = [records EXCEPT !.subscriber[a] = Consented(a, u, at)]

\* A suppression may not be dated before the consent it ends; the same one
\* again changes nothing.
Suppressible(a, at) == subscriber[a].state # "unknown" /\ at <= now /\ at >= subscriber[a].consent
Suppress(recs, a, reason, at, source) ==
  LET s == [of |-> a, reason |-> reason, at |-> at, source |-> source] IN
    IF \E i \in DOMAIN suppression : suppression[i] = s THEN recs
    ELSE [recs EXCEPT !.suppression = Append(@, s), !.subscriber[a].state = "suppressed"]

SubscriberSuppress(a, reason, at) ==
  /\ Len(suppression) < MaxSuppressions /\ Suppressible(a, at)
  /\ records' = Suppress(records, a, reason, at, None)

CampaignCreate(u) ==
  /\ Len(campaign) < MaxCampaigns
  /\ records' = [records EXCEPT !.campaign = Append(@,
       [audience |-> u, state |-> "draft-empty", draft |-> None, review |-> None, approval |-> None, schedule |-> None, version |-> 1])]

\* A new version may be drafted in any state, and nothing of the last holds on.
CampaignVersionDraft(c, expected) ==
  /\ Len(draft) < MaxDrafts /\ campaign[c].version = expected
  /\ records' = [records EXCEPT
       !.draft = Append(@, c),
       !.campaign[c] = [@ EXCEPT !.state = "draft", !.draft = Len(draft) + 1, !.review = None, !.approval = None,
                                 !.schedule = None, !.version = expected + 1]]

\* The exact version and content of the command are the campaign's current ones.
Current(c, d, expected) == campaign[c].version = expected /\ campaign[c].draft = d

CampaignReview(c, d, decision, expected) ==
  /\ Current(c, d, expected) /\ campaign[c].state = "draft"
  /\ records' = [records EXCEPT
       !.review = Append(@, [draft |-> d, decision |-> decision]),
       !.campaign[c].state = IF decision = "approved-for-approval" THEN "reviewed" ELSE "changes-requested",
       !.campaign[c].review = Len(review) + 1, !.campaign[c].version = expected + 1]

CampaignApprove(c, d, r, expected) ==
  /\ Current(c, d, expected) /\ campaign[c].state = "reviewed" /\ campaign[c].review = r
  /\ review[r].draft = d /\ review[r].decision = "approved-for-approval"
  /\ records' = [records EXCEPT !.approval = Append(@, [draft |-> d, review |-> r]),
                                !.campaign[c].state = "approved", !.campaign[c].approval = Len(approval) + 1,
                                !.campaign[c].version = expected + 1]

CampaignSchedule(c, d, at, expected) ==
  /\ Current(c, d, expected) /\ campaign[c].state = "approved" /\ campaign[c].approval # None /\ at > now
  /\ records' = [records EXCEPT !.schedule = Append(@, [draft |-> d, approval |-> campaign[c].approval, at |-> at]),
                                !.campaign[c].state = "scheduled", !.campaign[c].schedule = Len(schedule) + 1,
                                !.campaign[c].version = expected + 1]

EffectivelySuppressed(a) ==
  \/ subscriber[a].state = "suppressed"
  \/ \E i \in Latest(a) : suppression[i].at >= subscriber[a].consent
Eligible(u) == {a \in Address : u \in subscriber[a].audiences /\ ~EffectivelySuppressed(a)}

DispatchPlanCreate(c, d, expected) ==
  /\ Len(plan) < MaxPlans
  /\ Current(c, d, expected) /\ campaign[c].state = "scheduled" /\ campaign[c].schedule # None
  /\ Eligible(campaign[c].audience) # {}
  /\ records' = [records EXCEPT
       !.plan = Append(@, [draft |-> d, schedule |-> campaign[c].schedule,
                           to |-> {[a |-> a, consent |-> subscriber[a].consent] : a \in Eligible(campaign[c].audience)}]),
       !.campaign[c].state = "dispatch-planned", !.campaign[c].version = expected + 1]

\* Accepted or delivered, or an event that suppresses.
ProviderReceiptIngest(p, a, event, type, at) ==
  /\ \E r \in plan[p].to : r.a = a
  /\ at <= now /\ event \notin receipt
  /\ IF type \in Reason
       THEN /\ Len(suppression) < MaxSuppressions /\ Suppressible(a, at)
            /\ records' = [Suppress(records, a, type, at, event) EXCEPT !.receipt = @ \cup {event}]
       ELSE records' = [records EXCEPT !.receipt = @ \cup {event}]

Next ==
  \/ Tick
  \/ AudienceCreate
  \/ \E u \in 1 .. audience :
       \/ CampaignCreate(u)
       \/ \E a \in Address, at \in 0 .. Horizon : SubscriberOptIn(a, u, at) \/ SubscriberReactivate(a, u, at)
  \/ \E a \in Address, reason \in Reason, at \in 0 .. Horizon : SubscriberSuppress(a, reason, at)
  \/ \E c \in DOMAIN campaign, v \in 1 .. MaxVersion :
       \/ CampaignVersionDraft(c, v)
       \/ \E d \in DOMAIN draft :
            \/ DispatchPlanCreate(c, d, v)
            \/ \E x \in {"approved-for-approval", "changes-requested"} : CampaignReview(c, d, x, v)
            \/ \E r \in DOMAIN review : CampaignApprove(c, d, r, v)
            \/ \E at \in 1 .. Horizon : CampaignSchedule(c, d, at, v)
  \/ \E p \in DOMAIN plan, a \in Address, e \in Event, t \in Reason \cup {"delivered"}, at \in 0 .. Horizon :
       ProviderReceiptIngest(p, a, e, t, at)

Spec == Init /\ [][Next]_records

-----------------------------------------------------------------------------
\* Whatever opt-ins, bounces and reactivations come late or dated back, an
\* active subscriber consented after every suppression it ever had, so the
\* state and the history never disagree on whom a plan may name; and every
\* plan is of a version that was itself reviewed, approved and scheduled.
MailIsConsented ==
  /\ \A a \in Address : subscriber[a].state = "active" =>
       \A i \in SuppressionsOf(a) : suppression[i].at < subscriber[a].consent
  /\ \A p \in DOMAIN plan :
       LET s == schedule[plan[p].schedule]  y == approval[s.approval] IN
         /\ plan[p].draft = s.draft /\ s.draft = y.draft /\ y.draft = review[y.review].draft
         /\ review[y.review].decision = "approved-for-approval"
         /\ \A q \in DOMAIN plan : plan[q].schedule = plan[p].schedule => p = q

-----------------------------------------------------------------------------
\* Why it holds.  Nobody is suppressed who was never subscribed, and an active
\* subscriber consented after all that was held against him.
SubscribersConsented ==
  \A a \in Address :
    /\ subscriber[a].state = "unknown" => SuppressionsOf(a) = {}
    /\ subscriber[a].state = "active" => \A i \in SuppressionsOf(a) : suppression[i].at < subscriber[a].consent

\* What was approved was reviewed to be approved, and of one version.
Approves(y, d) ==
  /\ y \in DOMAIN approval /\ approval[y].draft = d
  /\ review[approval[y].review].draft = d /\ review[approval[y].review].decision = "approved-for-approval"
\* A schedule is of an approved version.
Schedules(s, d) == s \in DOMAIN schedule /\ schedule[s].draft = d /\ Approves(schedule[s].approval, d)

\* A campaign past approval or schedule names the approval or the schedule of
\* its present version; no two share a schedule, and no plan has one that waits.
CampaignsApproved ==
  /\ \A c \in DOMAIN campaign :
       /\ campaign[c].approval # None => Approves(campaign[c].approval, campaign[c].draft)
       /\ campaign[c].schedule # None => Schedules(campaign[c].schedule, campaign[c].draft)
       /\ campaign[c].state = "scheduled" => \A p \in DOMAIN plan : plan[p].schedule # campaign[c].schedule
       /\ \A e \in DOMAIN campaign :
            campaign[c].schedule = campaign[e].schedule /\ campaign[c].schedule # None => c = e
  /\ \A p \in DOMAIN plan :
       /\ Schedules(plan[p].schedule, plan[p].draft)
       /\ \A q \in DOMAIN plan : plan[q].schedule = plan[p].schedule => p = q

MailInvariant ==
  /\ {"audience", "subscriber", "suppression", "campaign", "draft", "review", "approval", "schedule", "plan", "receipt", "now"}
       \subseteq DOMAIN records
  /\ now \in Nat /\ audience \in Nat /\ draft \in Seq(Nat)
  /\ subscriber \in [Address -> [state : {"unknown", "active", "suppressed"}, audiences : SUBSET Nat, consent : Nat]]
  /\ suppression \in Seq([of : Address, reason : Reason, at : Nat, source : Event \cup {None}])
  /\ campaign \in Seq([audience : Nat, state : {"draft-empty", "draft", "reviewed", "changes-requested", "approved", "scheduled", "dispatch-planned"},
                       draft : Nat, review : Nat, approval : Nat, schedule : Nat, version : Nat])
  /\ review \in Seq([draft : Nat, decision : {"approved-for-approval", "changes-requested"}])
  /\ approval \in Seq([draft : Nat, review : DOMAIN review])
  /\ schedule \in Seq([draft : Nat, approval : DOMAIN approval, at : Nat])
  /\ plan \in Seq([draft : Nat, schedule : DOMAIN schedule, to : SUBSET [a : Address, consent : Nat]])
  /\ SubscribersConsented /\ CampaignsApproved
=============================================================================
