----------------------------- MODULE SeoNotify ------------------------------
(***************************************************************************)
(* Two modules of the additive engine.  seo: configured sites, keyword     *)
(* series, rank checks under a daily ceiling, audits, content briefs and   *)
(* public reports; the origin of a series and the ceiling of a check are   *)
(* history: what was in force then.  notify: subscribers, topics,          *)
(* immutable event schemas, workflows bound to one schema version,         *)
(* preferences, and events that end in an inbox item or a suppression; an  *)
(* event key together with its version is one Event.  One command is one   *)
(* step; a replayed idempotency key changes nothing.                       *)
(***************************************************************************)
EXTENDS Naturals, Sequences, FiniteSets, FiniteSetsExt

CONSTANTS
  Site, Origin, Query, NoOrigin, Ceiling, Day,        \* of seo
  Subscriber, Topic, Event, Field, Workflow,          \* of notify
  Key,                                                \* idempotency keys of either
  MaxRecords

VARIABLE records   \* of the module that is used

-----------------------------------------------------------------------------
(* seo: sites, keywords, rank checks, audits, briefs, reports, and the day *)
site    == records.site
keyword == records.keyword
check   == records.check
brief   == records.brief

SeoInit == records =
  [site |-> [s \in Site |-> [origin |-> NoOrigin, ceiling |-> 0]],
   keyword |-> <<>>, check |-> <<>>, brief |-> <<>>, report |-> <<>>, audits |-> 0, day |-> 1]

Room == Len(keyword) + Len(check) + Len(brief) + Len(records.report) + records.audits < MaxRecords
Configured(s) == site[s].origin # NoOrigin
HasHistory(s) == \E k \in DOMAIN keyword : keyword[k].site = s

\* Mutant of SiteConfigure: the history of a site does not pin its origin.
SiteConfigureFreely(s, origin, ceiling) ==
  /\ \A t \in Site \ {s} : site[t].origin # origin
  /\ records' = [records EXCEPT !.site[s] = [origin |-> origin, ceiling |-> ceiling]]

SiteConfigure(s, origin, ceiling) ==
  /\ \A t \in Site \ {s} : site[t].origin # origin
  /\ site[s].origin \in {NoOrigin, origin} \/ ~HasHistory(s)
  /\ records' = [records EXCEPT !.site[s] = [origin |-> origin, ceiling |-> ceiling]]

\* A series is a query on a site; its country and device are part of the query here.
KeywordAdd(s, query) ==
  /\ Room /\ Configured(s)
  /\ \A k \in DOMAIN keyword : <<keyword[k].site, keyword[k].query>> # <<s, query>>
  /\ records' = [records EXCEPT !.keyword = Append(@, [site |-> s, query |-> query, origin |-> site[s].origin])]

UnitsUsed(s, day) == Cardinality({c \in DOMAIN check : check[c].site = s /\ check[c].day = day})

\* Mutant of RankRun: an off-by-one at the ceiling.
RankRunPastCeiling(k, key) ==
  /\ Room /\ \A c \in DOMAIN check : check[c].key # key
  /\ UnitsUsed(keyword[k].site, records.day) <= site[keyword[k].site].ceiling
  /\ records' = [records EXCEPT !.check =
       Append(@, [site |-> keyword[k].site, keyword |-> k, day |-> records.day, key |-> key,
                  ceiling |-> site[keyword[k].site].ceiling])]

\* One unit is reserved when a check is queued.
RankRun(k, key) ==
  /\ Room /\ \A c \in DOMAIN check : check[c].key # key
  /\ UnitsUsed(keyword[k].site, records.day) + 1 <= site[keyword[k].site].ceiling
  /\ records' = [records EXCEPT !.check =
       Append(@, [site |-> keyword[k].site, keyword |-> k, day |-> records.day, key |-> key,
                  ceiling |-> site[keyword[k].site].ceiling])]

AuditStart(s) ==
  /\ Room /\ Configured(s)
  /\ records' = [records EXCEPT !.audits = @ + 1]

\* Evidence belongs to the site; an empty set stands for the site's own record.
EvidenceOf(s) == {c \in DOMAIN check : check[c].site = s}

BriefCreate(k, evidence) ==
  /\ Room /\ evidence \subseteq EvidenceOf(keyword[k].site)
  /\ records' = [records EXCEPT !.brief = Append(@, [keyword |-> k, evidence |-> evidence, state |-> "draft"])]

BriefApprove(b) ==
  /\ brief[b].state = "draft"
  /\ records' = [records EXCEPT !.brief[b].state = "approved"]

\* A report keeps a snapshot of its evidence; it needs a verified custom domain.
ReportCreate(s, evidence) ==
  /\ Room /\ Configured(s) /\ evidence \subseteq EvidenceOf(s)
  /\ records' = [records EXCEPT !.report = Append(@, [site |-> s, evidence |-> evidence, state |-> "published"])]

ReportRevoke(n) ==
  /\ records.report[n].state = "published"
  /\ records' = [records EXCEPT !.report[n].state = "revoked"]

DayPasses == records.day < Day /\ records' = [records EXCEPT !.day = @ + 1]

SeoNext ==
  \/ \E s \in Site : \/ \E o \in Origin, c \in 1 .. Ceiling : SiteConfigure(s, o, c)
                     \/ \E q \in Query : KeywordAdd(s, q)
                     \/ AuditStart(s)
                     \/ \E e \in SUBSET DOMAIN check : ReportCreate(s, e)
  \/ \E k \in DOMAIN keyword : \/ \E key \in Key : RankRun(k, key)
                               \/ \E e \in SUBSET DOMAIN check : BriefCreate(k, e)
  \/ \E b \in DOMAIN brief : BriefApprove(b)
  \/ \E n \in DOMAIN records.report : ReportRevoke(n)
  \/ DayPasses

-----------------------------------------------------------------------------
(* notify: topics, schemas, workflows, and the log of preferences and      *)
(* accepted events                                                         *)
topic    == records.topic
schema   == records.schema
workflow == records.workflow
log      == records.log

None == [state |-> "none"]

NotifyInit == records =
  [subscriber |-> {}, topic |-> [t \in Topic |-> None], schema |-> [e \in Event |-> None],
   workflow |-> [w \in Workflow |-> [state |-> "draft", event |-> "none", topic |-> "none", variables |-> {}]],
   log |-> <<>>]

SubscriberUpsert(s) == records' = [records EXCEPT !.subscriber = @ \cup {s}]

\* A required topic defaults to enabled.
TopicCreate(t, required, enabled) ==
  /\ topic[t] = None /\ (required => enabled)
  /\ records' = [records EXCEPT !.topic[t] = [state |-> "active", required |-> required, enabled |-> enabled]]

\* A version is published once: other contents are refused.
SchemaPublish(e, declared, mandatory) ==
  /\ schema[e] = None /\ declared # {} /\ mandatory \subseteq declared
  /\ records' = [records EXCEPT !.schema[e] = [state |-> "published", declared |-> declared, required |-> mandatory]]

\* validateNotifyPayload: every field is declared and every required one is there.
ValidPayload(e, payload) == schema[e].required \subseteq payload /\ payload \subseteq schema[e].declared

\* A template names declared fields only.
ValidTemplate(e, variables) == variables \subseteq schema[e].declared

\* Mutant of WorkflowConfigure: a published workflow can be bound anew.
WorkflowRebind(w, e, t, variables) ==
  /\ schema[e] # None /\ topic[t] # None /\ ValidTemplate(e, variables)
  /\ records' = [records EXCEPT !.workflow[w] = [@ EXCEPT !.event = e, !.topic = t, !.variables = variables]]

WorkflowConfigure(w, e, t, variables) ==
  /\ workflow[w].state = "draft"
  /\ schema[e] # None /\ topic[t] # None /\ ValidTemplate(e, variables)
  /\ records' = [records EXCEPT !.workflow[w] = [@ EXCEPT !.event = e, !.topic = t, !.variables = variables]]

Bound(e) == {w \in Workflow : workflow[w].state = "published" /\ workflow[w].event = e}

WorkflowPublish(w) ==
  /\ workflow[w].state = "draft" /\ workflow[w].event # "none"
  /\ Bound(workflow[w].event) = {}
  /\ records' = [records EXCEPT !.workflow[w].state = "published"]

PreferenceSet(s, t, enabled) ==
  /\ Len(log) < MaxRecords
  /\ s \in records.subscriber /\ topic[t] # None /\ (topic[t].required => enabled)
  /\ records' = [records EXCEPT !.log = Append(@, [kind |-> "preference", subscriber |-> s, topic |-> t, enabled |-> enabled])]

\* The newest preference before position n, or the topic's default.
Decision(s, t, n) ==
  LET said == {p \in 1 .. (n - 1) : log[p].kind = "preference" /\ log[p].subscriber = s /\ log[p].topic = t}
  IN IF said = {} THEN topic[t].enabled ELSE log[Max(said)].enabled

Delivered(s, t, n) == topic[t].required \/ Decision(s, t, n)

\* Mutant of EventEmit: the oldest preference decides.
EventEmitByFirst(e, s, payload, key) ==
  LET said == {p \in DOMAIN log : log[p].kind = "preference" /\ log[p].subscriber = s} IN
  /\ Len(log) < MaxRecords
  /\ schema[e] # None /\ ValidPayload(e, payload) /\ s \in records.subscriber
  /\ \A n \in DOMAIN log : log[n].kind # "preference" => log[n].key # key
  /\ \E w \in Bound(e) : records' = [records EXCEPT !.log =
       Append(@, [kind |-> IF topic[workflow[w].topic].required \/ said = {} \/ log[Min(said)].enabled THEN "inbox" ELSE "suppressed",
                  subscriber |-> s, topic |-> workflow[w].topic, event |-> e, workflow |-> w, payload |-> payload, key |-> key])]

\* event-emit appends the event with its inbox item or its suppression.
EventEmit(e, s, payload, key) ==
  /\ Len(log) < MaxRecords
  /\ schema[e] # None /\ ValidPayload(e, payload) /\ s \in records.subscriber
  /\ \A n \in DOMAIN log : log[n].kind # "preference" => log[n].key # key
  /\ \E w \in Bound(e) : records' = [records EXCEPT !.log =
       Append(@, [kind |-> IF Delivered(s, workflow[w].topic, Len(log) + 1) THEN "inbox" ELSE "suppressed",
                  subscriber |-> s, topic |-> workflow[w].topic, event |-> e, workflow |-> w, payload |-> payload, key |-> key])]

NotifyNext ==
  \/ \E s \in Subscriber : SubscriberUpsert(s)
  \/ \E t \in Topic, r, d \in BOOLEAN : TopicCreate(t, r, d)
  \/ \E e \in Event, d, m \in SUBSET Field : SchemaPublish(e, d, m)
  \/ \E w \in Workflow : \/ \E e \in Event, t \in Topic, v \in SUBSET Field : WorkflowConfigure(w, e, t, v)
                         \/ WorkflowPublish(w)
  \/ \E s \in Subscriber : \/ \E t \in Topic, d \in BOOLEAN : PreferenceSet(s, t, d)
                           \/ \E e \in Event, p \in SUBSET Field, k \in Key : EventEmit(e, s, p, k)

-----------------------------------------------------------------------------
Init == SeoInit \/ NotifyInit
Next == \/ "site" \in DOMAIN records /\ SeoNext
        \/ "topic" \in DOMAIN records /\ NotifyNext
Spec == Init /\ [][Next]_records

\* The series of a site are about the origin the site has now, however often
\* it is configured, and no day of a site holds more reserved units than the
\* ceiling in force when the last of them was reserved, retries included.
HistoryIsOfOneOrigin ==
  /\ \A k \in DOMAIN keyword : keyword[k].origin = site[keyword[k].site].origin
  /\ \A c \in DOMAIN check :
       Cardinality({d \in 1 .. c : check[d].site = check[c].site /\ check[d].day = check[c].day}) <= check[c].ceiling

Events == {n \in DOMAIN log : log[n].kind # "preference"}

\* A subscriber who turned an optional topic off has no inbox item later than
\* that decision and earlier than the next, and one who did not has nothing
\* suppressed; every accepted event still conforms to the schema it was
\* accepted under and belongs to the workflow published for it, whose template
\* names declared fields; a key is accepted once.
PreferencesHonoured ==
  \A n \in Events :
    LET it == log[n] IN
    /\ it.kind = "inbox" <=> Delivered(it.subscriber, it.topic, n)
    /\ ValidPayload(it.event, it.payload)
    /\ Bound(it.event) = {it.workflow} /\ workflow[it.workflow].topic = it.topic
    /\ ValidTemplate(it.event, workflow[it.workflow].variables)
    /\ \A m \in Events : log[m].key = it.key => m = n

\* Why they are.  What a workflow is bound to exists, with the fields its
\* template names; one workflow is published for an event.
WorkflowsBound ==
  /\ \A w \in Workflow :
       /\ workflow[w].state \in {"draft", "published"}
       /\ workflow[w].event # "none" =>
            /\ workflow[w].event \in Event /\ workflow[w].topic \in Topic
            /\ schema[workflow[w].event] # None /\ topic[workflow[w].topic] # None
            /\ ValidTemplate(workflow[w].event, workflow[w].variables)
       /\ workflow[w].state = "published" => workflow[w].event # "none"
  /\ \A e \in Event : \A w, x \in Bound(e) : w = x

\* What the log says is of topics and schemas that exist.
NotifyInvariant ==
  /\ {"subscriber", "topic", "schema", "workflow", "log"} \subseteq DOMAIN records
  /\ DOMAIN topic = Topic /\ DOMAIN schema = Event /\ DOMAIN workflow = Workflow
  /\ \A w \in Workflow : {"state", "event", "topic", "variables"} \subseteq DOMAIN workflow[w]
  /\ \A t \in Topic : topic[t] # None => topic[t].required \in BOOLEAN /\ topic[t].enabled \in BOOLEAN
  /\ log \in Seq([kind : {"preference"}, subscriber : Subscriber, topic : Topic, enabled : BOOLEAN]
                 \cup [kind : {"inbox", "suppressed"}, subscriber : Subscriber, topic : Topic, event : Event,
                       workflow : Workflow, payload : SUBSET Field, key : Key])
  /\ \A n \in DOMAIN log : topic[log[n].topic] # None
  /\ \A n \in Events : schema[log[n].event] # None
  /\ WorkflowsBound /\ PreferencesHonoured
=============================================================================
