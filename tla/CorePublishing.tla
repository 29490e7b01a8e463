---------------------------- MODULE CorePublishing ----------------------------
(***************************************************************************)
(* The links, automate, publish and knowledge modules of the core business *)
(* engine: what is drafted, reviewed by its content hash and published     *)
(* under a human approval that is spent once.  A command is one workspace  *)
(* transaction.                                                            *)
(*                                                                         *)
(* A record is its position in its list; a content hash is the content     *)
(* itself.  A high-risk command names an approval decision, and its        *)
(* receipt binds the decision.                                             *)
(***************************************************************************)
EXTENDS Naturals, Sequences, FiniteSets, Functions

CONSTANTS
  RouteKey, Content,
  Decision, Key,      \* ids of approval decisions and of idempotent requests
  Delivery,           \* ids of webhook deliveries
  MaxRoutes, MaxVersions, MaxDocuments, MaxUses

VARIABLE records      \* routes, destination versions, documents, their uses, events, receipts

NoVersion == 0
NoHash    == [of |-> "none"]
route     == records.route
version   == records.version
document  == records.document   \* workflow versions, campaigns, page revisions
use       == records.use        \* workflow runs, scheduled posts, deliveries of posts
event     == records.event
receipt   == records.receipt

Init == records = [route |-> <<>>, version |-> <<>>, document |-> <<>>, use |-> <<>>, event |-> {}, receipt |-> {}]

-----------------------------------------------------------------------------
\* Mutant of Fresh: a decision may approve any number of commands.
FreshKey(key, decision) == \A r \in receipt : r.key # key

\* A replayed key returns its first result, and a decision that some command
\* has spent is refused to every other; the receipt is saved with the command.
Fresh(key, decision) ==
  /\ \A r \in receipt : r.key # key
  /\ \A r \in receipt : r.decision # decision

Receipt(key, decision) == {[key |-> key, decision |-> decision]}

-----------------------------------------------------------------------------
\* The unique index over the routes that are not disabled.
KeyIsFree(key, except) ==
  \A r \in DOMAIN route \ except : route[r].key = key => route[r].state = "disabled"

RouteCreate(key) ==
  /\ Len(route) < MaxRoutes /\ KeyIsFree(key, {})
  /\ records' = [records EXCEPT !.route = Append(@, [key |-> key, state |-> "draft", active |-> NoVersion, hash |-> NoHash])]

HashOf(v) == [of |-> "version", route |-> version[v].route, content |-> version[v].content]

DestinationVersionCreate(r, content) ==
  /\ Len(version) < MaxVersions
  /\ records' = [records EXCEPT !.version = Append(@, [route |-> r, content |-> content, state |-> "draft"])]

\* Mutant of DestinationPublish: what the approver saw is not compared.
DestinationPublishUnread(r, v, hash, key, decision) ==
  /\ Fresh(key, decision) /\ KeyIsFree(route[r].key, {r})
  /\ records' = [records EXCEPT
       !.route[r].state = "active", !.route[r].active = v, !.route[r].hash = hash,
       !.version[v].state = "published", !.receipt = @ \cup Receipt(key, decision)]

\* A disabled route may be published again, unless its key is taken by then.
DestinationPublish(r, v, hash, key, decision) ==
  /\ Fresh(key, decision)
  /\ version[v].route = r /\ HashOf(v) = hash
  /\ KeyIsFree(route[r].key, {r})
  /\ records' = [records EXCEPT
       !.route[r].state = "active", !.route[r].active = v, !.route[r].hash = hash,
       !.version[v].state = "published", !.receipt = @ \cup Receipt(key, decision)]

RouteDisable(r, key, decision) ==
  /\ Fresh(key, decision)
  /\ records' = [records EXCEPT !.route[r].state = "disabled", !.route[r].active = NoVersion,
                                !.receipt = @ \cup Receipt(key, decision)]

LinksNext ==
  \/ \E k \in RouteKey : RouteCreate(k)
  \/ \E r \in DOMAIN route :
       \/ \E c \in Content : DestinationVersionCreate(r, c)
       \/ \E v \in DOMAIN version, w \in DOMAIN version, k \in Key, d \in Decision : DestinationPublish(r, v, HashOf(w), k, d)
       \/ \E k \in Key, d \in Decision : RouteDisable(r, k, d)

-----------------------------------------------------------------------------
\* Workflow versions, campaigns and page revisions: drafted, then approved by
\* the hash of what was drafted; nothing rewrites the content.
Draft(kind, content) ==
  /\ Len(document) < MaxDocuments
  /\ records' = [records EXCEPT !.document = Append(@, [kind |-> kind, content |-> content, state |-> "draft", approved |-> NoHash])]

WorkflowVersionCreate(content) == Draft("workflow-version", content)
CampaignDraft(content)         == Draft("campaign", content)
PageRevisionDraft(content)     == Draft("page-revision", content)

Contents(d) == [of |-> "document", content |-> document[d].content]

\* A version that is published already stays as it is.
WorkflowPublish(d, hash, key, decision) ==
  /\ Fresh(key, decision) /\ document[d].kind = "workflow-version" /\ Contents(d) = hash
  /\ records' = [records EXCEPT !.document[d].state = "published",
                                !.document[d].approved = IF document[d].state = "published" THEN @ ELSE hash,
                                !.receipt = @ \cup Receipt(key, decision)]

PageRevisionPublish(d, hash, key, decision) ==
  /\ Fresh(key, decision) /\ document[d].kind = "page-revision" /\ Contents(d) = hash
  /\ records' = [records EXCEPT !.document[d].state = "published", !.document[d].approved = hash,
                                !.receipt = @ \cup Receipt(key, decision)]

CampaignApprove(d, hash) ==
  /\ document[d].kind = "campaign" /\ Contents(d) = hash
  /\ records' = [records EXCEPT !.document[d].state = "approved", !.document[d].approved = hash]

WorkflowRunStart(d, key, decision) ==
  /\ Fresh(key, decision) /\ Len(use) < MaxUses
  /\ document[d].kind = "workflow-version" /\ document[d].state = "published"
  /\ records' = [records EXCEPT !.use = Append(@, [kind |-> "workflow-run", of |-> d, hash |-> Contents(d)]),
                                !.receipt = @ \cup Receipt(key, decision)]

PostSchedule(d, hash) ==
  /\ Len(use) < MaxUses
  /\ document[d].kind = "campaign" /\ document[d].state = "approved" /\ document[d].approved = hash
  /\ records' = [records EXCEPT !.use = Append(@, [kind |-> "scheduled-post", of |-> d, hash |-> hash])]

\* The post is not marked: another approval delivers it again.
PublicationDispatch(u, key, decision) ==
  /\ Fresh(key, decision) /\ Len(use) < MaxUses /\ use[u].kind = "scheduled-post"
  /\ records' = [records EXCEPT !.use = Append(@, [use[u] EXCEPT !.kind = "publication-delivery"]),
                                !.receipt = @ \cup Receipt(key, decision)]

\* A delivery id that comes again with the same body is the same event.
WebhookEventIngest(id, body) ==
  /\ \A e \in event : e.id # id
  /\ records' = [records EXCEPT !.event = @ \cup {[id |-> id, body |-> body]}]

PublishingNext ==
  \/ \E c \in Content : WorkflowVersionCreate(c) \/ CampaignDraft(c) \/ PageRevisionDraft(c)
  \/ \E d, e \in DOMAIN document :
       \/ CampaignApprove(d, Contents(e)) \/ PostSchedule(d, Contents(e))
       \/ \E k \in Key, a \in Decision :
            WorkflowPublish(d, Contents(e), k, a) \/ PageRevisionPublish(d, Contents(e), k, a) \/ WorkflowRunStart(d, k, a)
  \/ \E u \in DOMAIN use, k \in Key, a \in Decision : PublicationDispatch(u, k, a)
  \/ \E i \in Delivery, b \in Content : WebhookEventIngest(i, b)

Next == LinksNext \/ PublishingNext
Spec == Init /\ [][Next]_records

-----------------------------------------------------------------------------
\* An active route sends its visitors to a published version of its own whose
\* hash is the one approved; no two live routes have one key; what is run,
\* scheduled or delivered is what was approved; and no approval was spent twice,
\* by commands of whatever module.
WhatRunsWasApproved ==
  /\ \A r \in DOMAIN route : route[r].state = "active" =>
       /\ route[r].active # NoVersion /\ version[route[r].active].route = r
       /\ version[route[r].active].state = "published" /\ HashOf(route[r].active) = route[r].hash
  /\ \A r, s \in DOMAIN route : route[r].key = route[s].key /\ r # s => "disabled" \in {route[r].state, route[s].state}
  /\ \A u \in Range(use) : document[u.of].approved = u.hash /\ Contents(u.of) = u.hash
  /\ \A a, b \in receipt : a.decision = b.decision => a = b
=============================================================================
