-------------------------- MODULE Agreement_proofs --------------------------
(***************************************************************************)
(* Nothing reaches or records a person who has not agreed to it, for any   *)
(* sites, visitors, addresses, subscribers, attendees and testimonials,    *)
(* however commands and requests interleave.  Each part is proved by       *)
(* itself: one module is enabled, and its commands are the only steps.     *)
(***************************************************************************)
EXTENDS Workspace, SumTheorems

-----------------------------------------------------------------------------
(* consent: sites, policies, receipts.                                     *)

Revision == [site : Site, version : Nat, state : {"draft", "approved", "published", "superseded"}, key : Key \cup {0}]
ReceiptFor(D) == [site : Site, revision : D, visitor : Visitor, key : Key \cup {0}, prior : Nat]

\* The policies of a site that are published.
LiveOf(revision, s) == {v \in {x \in DOMAIN revision : revision[x].site = s} : revision[v].state = "published"}

SiteFields(site) ==
  /\ DOMAIN site = Site
  /\ \A s \in Site : {"domain", "verified", "challenge", "evidence"} \subseteq DOMAIN site[s] /\ site[s].verified \in BOOLEAN

\* Sites are told apart by their domains and proved by their challenges.
Proved(site) ==
  \A s \in Site :
    /\ \A t \in Site \ {s} : site[s].domain = site[t].domain => site[s].domain = NoDomain
    /\ site[s].verified => site[s].domain # NoDomain /\ site[s].evidence = <<site[s].domain, site[s].challenge>>
OneLive(revision) ==
  \A v, w \in DOMAIN revision :
    revision[v].state = "published" /\ revision[w].state = "published" /\ revision[v].site = revision[w].site => v = w
LiveProved(site, revision) == \A s \in Site : LiveOf(revision, s) # {} => site[s].verified

Sites(site, revision) ==
  SiteFields(site) /\ revision \in Seq(Revision) /\ Proved(site) /\ OneLive(revision) /\ LiveProved(site, revision)

PolicyOf(revision, receipt, x) ==
  /\ x.revision \in DOMAIN revision /\ revision[x.revision].state \in {"published", "superseded"}
  /\ revision[x.revision].site = x.site
  /\ x.prior # 0 => /\ x.prior \in DOMAIN receipt
                    /\ receipt[x.prior].visitor = x.visitor /\ receipt[x.prior].site = x.site

KeysOnce(receipt) ==
  \A n, m \in DOMAIN receipt :
    receipt[m].key = receipt[n].key /\ receipt[m].site = receipt[n].site /\ receipt[n].key # 0 => m = n
Receipts(revision, receipt) ==
  /\ receipt \in Seq(ReceiptFor(DOMAIN revision))
  /\ \A n \in DOMAIN receipt : PolicyOf(revision, receipt, receipt[n]) /\ receipt[n].prior < n
  /\ KeysOnce(receipt)

Visits(revision, receipt, request) ==
  /\ DOMAIN request = VisitorRequest
  /\ \A r \in VisitorRequest : request[r].step # "idle" =>
       /\ PolicyOf(revision, receipt, request[r]) /\ request[r].key \in Key /\ request[r].visitor \in Visitor
       /\ request[r].prior \in Nat

HasConsent(r) == {"site", "revision", "receipt", "scans", "issued", "request"} \subseteq DOMAIN r

\* ConsentInvariant, of the lists it is about.
LEMMA ConsentForm ==
  Consent!ConsentInvariant
    <=> /\ HasConsent(records) /\ Sites(records.site, records.revision)
        /\ Receipts(records.revision, records.receipt)
        /\ Visits(records.revision, records.receipt, records.request)
  BY DEF Consent!ConsentInvariant, Consent!SitesProven, Consent!Names, Consent!WasPublished, Consent!Live, Consent!OfSite,
         Consent!site, Consent!revision, Consent!receipt, Consent!request, Consent!NoKey, Consent!NoReceipt,
         HasConsent, Sites, SiteFields, Proved, OneLive, LiveProved, LiveOf, Receipts, KeysOnce, PolicyOf, Visits, Revision, ReceiptFor

LEMMA ConsentFormNext ==
  Consent!ConsentInvariant'
    <=> /\ HasConsent(records') /\ Sites(records'.site, records'.revision)
        /\ Receipts(records'.revision, records'.receipt)
        /\ Visits(records'.revision, records'.receipt, records'.request)
  BY DEF Consent!ConsentInvariant, Consent!SitesProven, Consent!Names, Consent!WasPublished, Consent!Live, Consent!OfSite,
         Consent!site, Consent!revision, Consent!receipt, Consent!request, Consent!NoKey, Consent!NoReceipt,
         HasConsent, Sites, SiteFields, Proved, OneLive, LiveProved, LiveOf, Receipts, KeysOnce, PolicyOf, Visits, Revision, ReceiptFor

LEMMA ConsentInit == Consent!Init => Consent!ConsentInvariant
<1>. SUFFICES ASSUME Consent!Init PROVE Consent!ConsentInvariant
  OBVIOUS
<1>1. /\ HasConsent(records)
      /\ records.site = [s \in Site |-> [domain |-> NoDomain, verified |-> FALSE, challenge |-> 0, evidence |-> <<NoDomain, 0>>]]
      /\ records.revision = <<>> /\ records.receipt = <<>>
      /\ DOMAIN records.request = VisitorRequest /\ \A r \in VisitorRequest : records.request[r].step = "idle"
  BY DEF Consent!Init, Consent!Idle, Consent!NoKey, HasConsent
<1>2. Sites(records.site, records.revision)
  <2>1. /\ DOMAIN records.site = Site
        /\ \A s \in Site : /\ DOMAIN records.site[s] = {"domain", "verified", "challenge", "evidence"}
                          /\ records.site[s].domain = NoDomain /\ records.site[s].verified = FALSE
    BY <1>1
  <2>3. SiteFields(records.site) /\ Proved(records.site)
    BY <2>1 DEF SiteFields, Proved
  <2>2. records.revision \in Seq(Revision) /\ DOMAIN records.revision = {}
    BY <1>1
  <2>. QED BY <2>1, <2>2, <2>3 DEF Sites, OneLive, LiveProved, LiveOf
<1>3. Receipts(records.revision, records.receipt)
  BY <1>1 DEF Receipts, KeysOnce
<1>. QED BY <1>1, <1>2, <1>3, ConsentForm DEF Visits

\* Published policies are superseded, never withdrawn.
LEMMA PoliciesMove ==
  ASSUME NEW revision, NEW receipt, NEW request, Receipts(revision, receipt), Visits(revision, receipt, request),
         NEW new, DOMAIN revision \subseteq DOMAIN new,
         \A v \in DOMAIN revision : /\ new[v].site = revision[v].site
                                    /\ revision[v].state \in {"published", "superseded"} => new[v].state \in {"published", "superseded"}
  PROVE  Receipts(new, receipt) /\ Visits(new, receipt, request)
<1>1. \A x : PolicyOf(revision, receipt, x) => PolicyOf(new, receipt, x)
  BY DEF PolicyOf
<1>2. receipt \in Seq(ReceiptFor(DOMAIN new))
  <2>1. receipt \in Seq(ReceiptFor(DOMAIN revision)) /\ receipt \in [DOMAIN receipt -> ReceiptFor(DOMAIN revision)]
    BY ListType DEF Receipts
  <2>2. \A x \in ReceiptFor(DOMAIN revision) : x \in ReceiptFor(DOMAIN new)
    BY DEF ReceiptFor
  <2>3. receipt \in [DOMAIN receipt -> ReceiptFor(DOMAIN new)]
    BY <2>1, <2>2
  <2>. QED BY <2>1, <2>3, ListRetype
<1>. QED BY <1>1, <1>2 DEF Receipts, Visits

\* Another receipt, of a policy that was published, leaves the earlier ones.
LEMMA ReceiptAdded ==
  ASSUME NEW revision, NEW receipt, NEW request, Receipts(revision, receipt), Visits(revision, receipt, request),
         NEW x \in ReceiptFor(DOMAIN revision), PolicyOf(revision, receipt, x),
         x.key # 0 => \A n \in DOMAIN receipt : ~(receipt[n].key = x.key /\ receipt[n].site = x.site)
  PROVE  Receipts(revision, Append(receipt, x)) /\ Visits(revision, Append(receipt, x), request)
<1>. DEFINE T == ReceiptFor(DOMAIN revision)
            new == Append(receipt, x)
<1>1. /\ receipt \in Seq(T) /\ new \in Seq(T \cup {x}) /\ Len(receipt) \in Nat /\ DOMAIN receipt = 1 .. Len(receipt)
      /\ DOMAIN new = DOMAIN receipt \cup {Len(receipt) + 1} /\ new[Len(receipt) + 1] = x
      /\ \A n \in DOMAIN receipt : new[n] = receipt[n]
  BY ListAppend, ListType DEF Receipts
<1>2. \A y : PolicyOf(revision, receipt, y) => PolicyOf(revision, new, y)
  BY <1>1 DEF PolicyOf
<1>3. new \in Seq(T)
  <2>1. T \cup {x} = T
    OBVIOUS
  <2>. QED BY <1>1, <2>1
<1>4. KeysOnce(new)
  BY <1>1 DEF KeysOnce, Receipts
<1>5. ASSUME NEW n \in DOMAIN new PROVE PolicyOf(revision, new, new[n]) /\ new[n].prior < n
  <2>1. CASE n \in DOMAIN receipt
    BY <1>1, <1>2, <2>1 DEF Receipts
  <2>2. CASE n = Len(receipt) + 1
    <3>1. x.prior \in Nat /\ (x.prior = 0 \/ x.prior \in DOMAIN receipt)
      BY DEF PolicyOf, ReceiptFor
    <3>. QED BY <1>1, <1>2, <2>2, <3>1
  <2>. QED BY <1>1, <2>1, <2>2
<1>. HIDE DEF new
<1>6. Receipts(revision, new)
  BY <1>3, <1>4, <1>5 DEF Receipts
<1>7. Visits(revision, new, request)
  BY <1>2 DEF Visits
<1>. QED BY <1>6, <1>7 DEF new

LEMMA PriorReceipt ==
  ASSUME NEW T, NEW receipt \in Seq(T), NEW own \in SUBSET DOMAIN receipt
  PROVE  Max({0} \cup own) \in Nat /\ (Max({0} \cup own) = 0 \/ Max({0} \cup own) \in own)
<1>1. own \subseteq DOMAIN receipt /\ IsFiniteSet(DOMAIN receipt) /\ DOMAIN receipt \in SUBSET Nat
  BY ListType
<1>2. {0} \cup own \in SUBSET Nat /\ IsFiniteSet({0} \cup own) /\ {0} \cup own # {}
  <2>1. IsFiniteSet(own) /\ IsFiniteSet({0})
    BY <1>1, FS_Subset, FS_Singleton
  <2>2. IsFiniteSet({0} \cup own)
    BY <2>1, FS_Union
  <2>3. own \subseteq Nat
    BY <1>1
  <2>. QED BY <2>2, <2>3
<1>3. Max({0} \cup own) \in {0} \cup own
  BY <1>2, LargestExists
<1>4. Max({0} \cup own) \in Nat /\ (Max({0} \cup own) = 0 \/ Max({0} \cup own) \in own)
  BY <1>2, <1>3
<1>. QED BY <1>4

\* Sites are configured and proved anew; nothing else changes.
LEMMA SiteSteps ==
  ASSUME Consent!ConsentInvariant,
         \E s \in Site : (\E d \in Domain : Consent!SiteConfigure(s, d)) \/ Consent!DomainVerify(s) \/ Consent!ScanStart(s)
  PROVE  Consent!ConsentInvariant'
<1>. DEFINE site == records.site
            revision == records.revision
<1>1. /\ HasConsent(records) /\ Sites(site, revision) /\ Receipts(revision, records.receipt)
      /\ Visits(revision, records.receipt, records.request)
  BY ConsentForm
<1>2. SUFFICES /\ HasConsent(records') /\ Sites(records'.site, revision) /\ records'.revision = revision
               /\ records'.receipt = records.receipt /\ records'.request = records.request
  BY <1>1, ConsentFormNext
<1>3. PICK s \in Site : (\E d \in Domain : Consent!SiteConfigure(s, d)) \/ Consent!DomainVerify(s) \/ Consent!ScanStart(s)
  OBVIOUS
<1>4. ASSUME NEW d \in Domain, Consent!SiteConfigure(s, d)
      PROVE  /\ HasConsent(records') /\ Sites(records'.site, revision) /\ records'.revision = revision
             /\ records'.receipt = records.receipt /\ records'.request = records.request
  <2>. DEFINE keeps == site[s].domain = d /\ site[s].verified
  <2>1. /\ HasConsent(records') /\ records'.revision = revision
        /\ records'.receipt = records.receipt /\ records'.request = records.request
        /\ DOMAIN records'.site = DOMAIN site /\ \A t \in Site : t # s => records'.site[t] = site[t]
    BY <1>1, <1>4 DEF HasConsent, Sites, SiteFields, Consent!SiteConfigure, Consent!site
  <2>2. /\ DOMAIN records'.site[s] = DOMAIN site[s] /\ records'.site[s].evidence = site[s].evidence
        /\ records'.site[s].domain = d /\ records'.site[s].verified \in BOOLEAN
        /\ records'.site[s].verified <=> keeps
        /\ keeps => records'.site[s].challenge = site[s].challenge
    BY <1>1, <1>4 DEF HasConsent, Sites, SiteFields, Consent!SiteConfigure, Consent!site
  <2>3. /\ \A t \in Site \ {s} : site[t].domain # d
        /\ site[s].domain \in {NoDomain, d} \/ LiveOf(revision, s) = {}
    BY <1>4 DEF Consent!SiteConfigure, Consent!Live, Consent!OfSite, Consent!site, Consent!revision, LiveOf
  <2>4. Proved(records'.site)
    BY <1>1, <2>1, <2>2, <2>3 DEF Sites, Proved
  <2>5. LiveProved(records'.site, revision)
    BY <1>1, <2>1, <2>2, <2>3 DEF Sites, Proved, LiveProved
  <2>6. SiteFields(records'.site)
    BY <1>1, <2>1, <2>2 DEF Sites, SiteFields
  <2>. QED BY <1>1, <2>1, <2>4, <2>5, <2>6 DEF Sites
<1>5. ASSUME Consent!DomainVerify(s)
      PROVE  /\ HasConsent(records') /\ Sites(records'.site, revision) /\ records'.revision = revision
             /\ records'.receipt = records.receipt /\ records'.request = records.request
  <2>1. /\ HasConsent(records') /\ records'.revision = revision
        /\ records'.receipt = records.receipt /\ records'.request = records.request
        /\ DOMAIN records'.site = DOMAIN site /\ \A t \in Site : t # s => records'.site[t] = site[t]
    BY <1>1, <1>5 DEF HasConsent, Sites, SiteFields, Consent!DomainVerify, Consent!site
  <2>2. /\ DOMAIN records'.site[s] = DOMAIN site[s] /\ records'.site[s].evidence = <<site[s].domain, site[s].challenge>>
        /\ records'.site[s].domain = site[s].domain /\ records'.site[s].verified = TRUE
        /\ records'.site[s].challenge = site[s].challenge /\ site[s].domain # NoDomain
    BY <1>1, <1>5 DEF HasConsent, Sites, SiteFields, Consent!DomainVerify, Consent!site
  <2>4. Proved(records'.site)
    BY <1>1, <2>1, <2>2 DEF Sites, Proved
  <2>5. LiveProved(records'.site, revision)
    BY <1>1, <2>1, <2>2 DEF Sites, LiveProved
  <2>6. SiteFields(records'.site)
    BY <1>1, <2>1, <2>2 DEF Sites, SiteFields
  <2>. QED BY <1>1, <2>1, <2>4, <2>5, <2>6 DEF Sites
<1>6. ASSUME Consent!ScanStart(s)
      PROVE  /\ HasConsent(records') /\ Sites(records'.site, revision) /\ records'.revision = revision
             /\ records'.receipt = records.receipt /\ records'.request = records.request
  BY <1>1, <1>6 DEF HasConsent, Consent!ScanStart
<1>. QED BY <1>3, <1>4, <1>5, <1>6

\* A policy is drafted, approved or published.
LEMMA PolicySteps ==
  ASSUME Consent!ConsentInvariant,
         \/ \E s \in Site : Consent!PolicyDraft(s)
         \/ \E v \in DOMAIN Consent!revision : Consent!PolicyApprove(v) \/ \E k \in Key : Consent!PolicyPublish(v, k)
  PROVE  Consent!ConsentInvariant'
<1>. DEFINE site == records.site
            revision == records.revision
            new == records'.revision
<1>1. /\ HasConsent(records) /\ Sites(site, revision) /\ Receipts(revision, records.receipt)
      /\ Visits(revision, records.receipt, records.request)
  BY ConsentForm
<1>t. /\ revision \in Seq(Revision) /\ \A v \in DOMAIN revision : revision[v] \in Revision
      /\ DOMAIN revision = 1 .. Len(revision) /\ Len(revision) \in Nat
      /\ IsFiniteSet(DOMAIN revision)
  BY <1>1, ListType DEF Sites
<1>2. ASSUME HasConsent(records'), records'.site = site, records'.receipt = records.receipt, records'.request = records.request,
             DOMAIN revision \subseteq DOMAIN new,
             \A v \in DOMAIN revision :
               /\ new[v].site = revision[v].site
               /\ revision[v].state \in {"published", "superseded"} => new[v].state \in {"published", "superseded"},
             new \in Seq(Revision), OneLive(new), LiveProved(site, new)
      PROVE  Consent!ConsentInvariant'
  <2>1. Receipts(new, records.receipt) /\ Visits(new, records.receipt, records.request)
    BY <1>1, <1>2, PoliciesMove
  <2>2. Sites(site, new)
    BY <1>1, <1>2 DEF Sites
  <2>. QED BY <1>2, <2>1, <2>2, ConsentFormNext
<1>3. ASSUME NEW s \in Site, Consent!PolicyDraft(s) PROVE Consent!ConsentInvariant'
  <2>. DEFINE N == {revision[v].version : v \in {x \in DOMAIN revision : revision[x].site = s}}
              draft == [site |-> s, version |-> Max({0} \cup N) + 1, state |-> "draft", key |-> 0]
  <2>1. Max({0} \cup N) \in Nat
    <3>1. IsFiniteSet(N)
      <4>1. IsFiniteSet({x \in DOMAIN revision : revision[x].site = s})
        BY <1>t, FS_Subset
      <4>2. {[i \in DOMAIN revision |-> revision[i].version][v] : v \in {x \in DOMAIN revision : revision[x].site = s}} = N
        OBVIOUS
      <4>3. IsFiniteSet({[i \in DOMAIN revision |-> revision[i].version][v] : v \in {x \in DOMAIN revision : revision[x].site = s}})
        BY <4>1, FiniteImage
      <4>. QED BY <4>2, <4>3
    <3>2. N \subseteq Nat
      BY <1>t DEF Revision
    <3>. HIDE DEF N
    <3>3. IsFiniteSet({0} \cup N)
      BY <3>1, FS_Singleton, FS_Union
    <3>4. {0} \cup N \in SUBSET Nat
      BY <3>2
    <3>. QED BY <3>3, <3>4, LargestExists
  <2>2. draft \in Revision
    BY <2>1 DEF Revision
  <2>3. /\ HasConsent(records') /\ records'.site = site /\ records'.receipt = records.receipt
        /\ records'.request = records.request /\ new = Append(revision, draft)
    BY <1>1, <1>3 DEF HasConsent, Consent!PolicyDraft, Consent!OfSite, Consent!revision, Consent!NoKey, Consent!Max, Max
  <2>4. /\ DOMAIN new = DOMAIN revision \cup {Len(revision) + 1} /\ new[Len(revision) + 1] = draft
        /\ \A v \in DOMAIN revision : new[v] = revision[v]
        /\ new \in Seq(Revision)
    <3>. HIDE DEF draft
    <3>1. Revision \cup {draft} = Revision
      BY <2>2
    <3>. QED BY <1>t, <2>3, <3>1, ListAppend
  <2>5. \A v \in DOMAIN new : new[v].state = "published" => v \in DOMAIN revision
    BY <2>4
  <2>. HIDE DEF new, draft
  <2>6. OneLive(new)
    BY <1>1, <2>4, <2>5 DEF Sites, OneLive
  <2>7. LiveProved(site, new)
    BY <1>1, <2>4, <2>5 DEF Sites, LiveProved, LiveOf
  <2>. QED BY <1>2, <2>3, <2>4, <2>6, <2>7
<1>4. ASSUME NEW v \in DOMAIN revision, Consent!PolicyApprove(v) PROVE Consent!ConsentInvariant'
  <2>. DEFINE approved == [revision[v] EXCEPT !.state = "approved"]
  <2>1. /\ HasConsent(records') /\ records'.site = site /\ records'.receipt = records.receipt
        /\ records'.request = records.request /\ new = [revision EXCEPT ![v].state = "approved"] /\ revision[v].state = "draft"
    BY <1>1, <1>4 DEF HasConsent, Consent!PolicyApprove, Consent!revision
  <2>2. approved \in Revision
    BY <1>t DEF Revision
  <2>3. /\ new \in Seq(Revision) /\ DOMAIN new = DOMAIN revision
        /\ new[v] = approved /\ \A w \in DOMAIN revision : w # v => new[w] = revision[w]
    <3>1. OneChanged(new, revision, v, approved)
      BY <2>1 DEF OneChanged
    <3>. HIDE DEF approved, new
    <3>. QED BY <1>t, <2>2, <3>1, ListChange
  <2>4. approved.site = revision[v].site /\ approved.state = "approved"
    BY <1>t DEF Revision
  <2>. HIDE DEF new, approved
  <2>6. OneLive(new)
    BY <1>1, <2>3, <2>4 DEF Sites, OneLive
  <2>7. LiveProved(site, new)
    BY <1>1, <2>3, <2>4 DEF Sites, LiveProved, LiveOf
  <2>. QED BY <1>2, <2>1, <2>3, <2>4, <2>6, <2>7
<1>5. ASSUME NEW v \in DOMAIN revision, NEW k \in Key, Consent!PolicyPublish(v, k) PROVE Consent!ConsentInvariant'
  <2>. DEFINE live == LiveOf(revision, revision[v].site)
  <2>1. /\ HasConsent(records') /\ records'.site = site /\ records'.receipt = records.receipt
        /\ records'.request = records.request /\ revision[v].state = "approved" /\ site[revision[v].site].verified
    BY <1>1, <1>5 DEF HasConsent, Consent!PolicyPublish, Consent!revision, Consent!site
  <2>2. v \notin live
    BY <2>1 DEF LiveOf
  <2>3. new = [w \in DOMAIN revision |-> IF w = v THEN [revision[w] EXCEPT !.state = "published", !.key = k]
                                      ELSE IF w \in live THEN [revision[w] EXCEPT !.state = "superseded"] ELSE revision[w]]
    BY <1>1, <1>5, <2>2 DEF HasConsent, Consent!PolicyPublish, Consent!revision, Consent!Live, Consent!OfSite, LiveOf
  <2>. HIDE DEF new, live
  <2>4. DOMAIN new = DOMAIN revision
    BY <2>3
  <2>6. ASSUME NEW w \in DOMAIN revision
        PROVE  /\ new[w] \in Revision /\ new[w].site = revision[w].site
               /\ w = v => new[w].state = "published"
               /\ w # v /\ w \in live => new[w].state = "superseded"
               /\ w # v /\ w \notin live => new[w].state = revision[w].state
    <3>1. revision[w] \in Revision
      BY <1>t
    <3>2. CASE w = v
      BY <2>3, <3>1, <3>2 DEF Revision
    <3>3. CASE w # v /\ w \in live
      BY <2>3, <3>1, <3>3 DEF Revision
    <3>4. CASE w # v /\ w \notin live
      BY <2>3, <3>1, <3>4
    <3>. QED BY <3>2, <3>3, <3>4
  <2>7. new \in Seq(Revision)
    <3>1. new \in [DOMAIN revision -> Revision]
      BY <2>3, <2>6
    <3>. QED BY <1>t, <2>4, <3>1, ListRetype
  <2>l. \A w \in DOMAIN revision : w \in live <=> revision[w].site = revision[v].site /\ revision[w].state = "published"
    BY DEF live, LiveOf
  <2>8. \A w \in DOMAIN revision : new[w].state = "published" => w = v \/ (revision[w].state = "published" /\ revision[w].site # revision[v].site)
    BY <2>6, <2>l
  <2>9. \A w \in DOMAIN revision : revision[w].state \in {"published", "superseded"} => new[w].state \in {"published", "superseded"}
    BY <2>1, <2>6, <2>l
  <2>10. OneLive(new)
    BY <1>1, <2>4, <2>6, <2>8 DEF Sites, OneLive
  <2>11. LiveProved(site, new)
    BY <1>1, <2>1, <2>4, <2>6, <2>8 DEF Sites, LiveProved, LiveOf
  <2>. QED BY <1>2, <2>1, <2>4, <2>6, <2>7, <2>9, <2>10, <2>11
<1>. QED BY <1>3, <1>4, <1>5 DEF Consent!revision

\* A choice is recorded, or the public route takes a step towards it.
LEMMA ChoiceSteps ==
  ASSUME Consent!ConsentInvariant,
         \/ \E v \in DOMAIN Consent!revision, u \in Visitor :
              \/ Consent!ChoiceRecord(v, u)
              \/ \E r \in VisitorRequest, k \in Key : Consent!ChoiceReads(r, v, u, k)
         \/ \E r \in VisitorRequest : Consent!ChoiceReadsReceipts(r) \/ Consent!ChoiceAppends(r)
  PROVE  Consent!ConsentInvariant'
<1>. DEFINE site == records.site
            revision == records.revision
            receipt == records.receipt
            request == records.request
<1>1. /\ HasConsent(records) /\ Sites(site, revision) /\ Receipts(revision, receipt)
      /\ Visits(revision, receipt, request)
  BY ConsentForm
<1>t. /\ revision \in Seq(Revision) /\ \A v \in DOMAIN revision : revision[v] \in Revision
      /\ receipt \in Seq(ReceiptFor(DOMAIN revision)) /\ \A n \in DOMAIN receipt : receipt[n] \in ReceiptFor(DOMAIN revision)
      /\ DOMAIN receipt \in SUBSET Nat
  BY <1>1, ListType DEF Sites, Receipts
<1>2. ASSUME NEW x \in ReceiptFor(DOMAIN revision), PolicyOf(revision, receipt, x),
             x.key # 0 => \A n \in DOMAIN receipt : ~(receipt[n].key = x.key /\ receipt[n].site = x.site),
             HasConsent(records'), records'.site = site, records'.revision = revision,
             records'.receipt = Append(receipt, x), DOMAIN records'.request = VisitorRequest,
             \A r \in VisitorRequest : records'.request[r] = request[r] \/ records'.request[r].step = "idle"
      PROVE  Consent!ConsentInvariant'
  <2>1. Receipts(revision, Append(receipt, x)) /\ Visits(revision, Append(receipt, x), request)
    BY <1>1, <1>2, ReceiptAdded
  <2>2. Visits(revision, Append(receipt, x), records'.request)
    BY <1>2, <2>1 DEF Visits
  <2>. QED BY <1>1, <1>2, <2>1, <2>2, ConsentFormNext
<1>3. ASSUME NEW r \in VisitorRequest, HasConsent(records'), records'.site = site, records'.revision = revision,
             records'.receipt = receipt, DOMAIN records'.request = VisitorRequest,
             \A q \in VisitorRequest : q # r => records'.request[q] = request[q],
             records'.request[r].step # "idle" =>
                /\ PolicyOf(revision, receipt, records'.request[r]) /\ records'.request[r].key \in Key
                /\ records'.request[r].visitor \in Visitor /\ records'.request[r].prior \in Nat
      PROVE  Consent!ConsentInvariant'
  <2>1. Visits(revision, receipt, records'.request)
    BY <1>1, <1>3 DEF Visits
  <2>. QED BY <1>1, <1>3, <2>1, ConsentFormNext
<1>4. ASSUME NEW v \in DOMAIN revision, NEW u \in Visitor, Consent!ChoiceRecord(v, u) PROVE Consent!ConsentInvariant'
  <2>. DEFINE s == revision[v].site
              own == {n \in DOMAIN receipt : receipt[n].site = s /\ receipt[n].visitor = u /\ (receipt[n].key # 0) = FALSE}
              x == [site |-> s, revision |-> v, visitor |-> u, key |-> 0, prior |-> Max({0} \cup own)]
  <2>1. Max({0} \cup own) \in Nat /\ (Max({0} \cup own) = 0 \/ Max({0} \cup own) \in own)
    <3>1. own \in SUBSET DOMAIN receipt
      OBVIOUS
    <3>. HIDE DEF own
    <3>. QED BY <1>t, <3>1, PriorReceipt
  <2>2. /\ HasConsent(records') /\ records'.site = site /\ records'.revision = revision
        /\ records'.receipt = Append(receipt, x) /\ records'.request = request
    BY <1>1, <1>4 DEF HasConsent, Consent!ChoiceRecord, Consent!Appended, Consent!Latest, Consent!revision, Consent!receipt,
                      Consent!NoKey, Consent!NoReceipt, Consent!Max, Max
  <2>3. revision[v].state = "published"
    BY <1>4 DEF Consent!ChoiceRecord, Consent!Live, Consent!OfSite, Consent!revision
  <2>4. x \in ReceiptFor(DOMAIN revision)
    BY <1>t, <2>1 DEF ReceiptFor, Revision
  <2>5. PolicyOf(revision, receipt, x)
    BY <2>1, <2>3 DEF PolicyOf
  <2>6. x.key = 0
    OBVIOUS
  <2>. HIDE DEF x, own, s
  <2>. QED BY <1>1, <1>2, <2>2, <2>4, <2>5, <2>6 DEF Visits
<1>5. ASSUME NEW v \in DOMAIN revision, NEW u \in Visitor, NEW r \in VisitorRequest, NEW k \in Key, Consent!ChoiceReads(r, v, u, k)
      PROVE  Consent!ConsentInvariant'
  <2>. DEFINE x == [step |-> "policy", key |-> k, visitor |-> u, site |-> revision[v].site, revision |-> v, prior |-> 0]
  <2>1. /\ HasConsent(records') /\ records'.site = site /\ records'.revision = revision
        /\ records'.receipt = receipt /\ records'.request = [request EXCEPT ![r] = x] /\ revision[v].state = "published"
    BY <1>1, <1>5 DEF HasConsent, Consent!ChoiceReads, Consent!revision, Consent!request
  <2>2. /\ DOMAIN records'.request = VisitorRequest /\ records'.request[r] = x
        /\ \A q \in VisitorRequest : q # r => records'.request[q] = request[q]
    BY <1>1, <2>1 DEF Visits
  <2>3. PolicyOf(revision, receipt, x) /\ x.key \in Key /\ x.visitor \in Visitor /\ x.prior \in Nat
    BY <2>1 DEF PolicyOf
  <2>. HIDE DEF x
  <2>. QED BY <1>3, <2>1, <2>2, <2>3
<1>6. ASSUME NEW r \in VisitorRequest, Consent!ChoiceReadsReceipts(r) PROVE Consent!ConsentInvariant'
  <2>. DEFINE s == request[r].site
              u == request[r].visitor
              own == {n \in DOMAIN receipt : receipt[n].site = s /\ receipt[n].visitor = u /\ (receipt[n].key # 0) = TRUE}
              x == [request[r] EXCEPT !.step = "receipts", !.prior = Max({0} \cup own)]
              y == IF Consent!KeyUsed(r) THEN Consent!Idle ELSE x
  <2>1. Max({0} \cup own) \in Nat /\ (Max({0} \cup own) = 0 \/ Max({0} \cup own) \in own)
    <3>1. own \in SUBSET DOMAIN receipt
      OBVIOUS
    <3>. HIDE DEF own
    <3>. QED BY <1>t, <3>1, PriorReceipt
  <2>2. /\ HasConsent(records') /\ records'.site = site /\ records'.revision = revision
        /\ records'.receipt = receipt /\ records'.request = [request EXCEPT ![r] = y] /\ request[r].step = "policy"
    BY <1>1, <1>6 DEF HasConsent, Consent!ChoiceReadsReceipts, Consent!Latest, Consent!receipt, Consent!request,
                      Consent!NoKey, Consent!NoReceipt, Consent!Max, Max
  <2>3. PolicyOf(revision, receipt, request[r]) /\ request[r].key \in Key /\ request[r].visitor \in Visitor
    BY <1>1, <2>2 DEF Visits
  <2>4. Consent!Idle.step = "idle"
    BY DEF Consent!Idle
  <2>5. y.step # "idle" => PolicyOf(revision, receipt, y) /\ y.key \in Key /\ y.visitor \in Visitor /\ y.prior \in Nat
    <3>. SUFFICES ASSUME y = x PROVE PolicyOf(revision, receipt, y) /\ y.key \in Key /\ y.visitor \in Visitor /\ y.prior \in Nat
      BY <2>4
    <3>1. /\ x.site = s /\ x.visitor = u /\ x.revision = request[r].revision /\ x.key = request[r].key
          /\ x.prior = Max({0} \cup own)
      BY <2>2 DEF PolicyOf
    <3>2. PolicyOf(revision, receipt, x)
      <4>1. x.prior # 0 => x.prior \in own
        BY <2>1, <3>1
      <4>. HIDE DEF x
      <4>. QED BY <2>3, <3>1, <4>1 DEF PolicyOf
    <3>. QED BY <2>1, <2>3, <3>1, <3>2
  <2>. HIDE DEF y
  <2>6. /\ DOMAIN records'.request = VisitorRequest /\ records'.request[r] = y
        /\ \A q \in VisitorRequest : q # r => records'.request[q] = request[q]
    BY <1>1, <2>2 DEF Visits
  <2>. QED BY <1>3, <2>2, <2>5, <2>6
<1>7. ASSUME NEW r \in VisitorRequest, Consent!ChoiceAppends(r) PROVE Consent!ConsentInvariant'
  <2>. DEFINE q == request[r]
              x == [site |-> revision[q.revision].site, revision |-> q.revision, visitor |-> q.visitor, key |-> q.key, prior |-> q.prior]
  <2>1. /\ HasConsent(records') /\ records'.site = site /\ records'.revision = revision
        /\ records'.receipt = IF Consent!KeyUsed(r) THEN receipt ELSE Append(receipt, x)
        /\ records'.request = [request EXCEPT ![r] = Consent!Idle] /\ q.step = "receipts"
    BY <1>1, <1>7 DEF HasConsent, Consent!ChoiceAppends, Consent!Appended, Consent!receipt, Consent!request, Consent!revision
  <2>2. PolicyOf(revision, receipt, q) /\ q.key \in Key /\ q.visitor \in Visitor /\ q.prior \in Nat
    BY <1>1, <2>1 DEF Visits
  <2>3. Consent!Idle.step = "idle"
    BY DEF Consent!Idle
  <2>4. /\ DOMAIN records'.request = VisitorRequest /\ records'.request[r].step = "idle"
        /\ \A p \in VisitorRequest : p # r => records'.request[p] = request[p]
    BY <1>1, <2>1, <2>3 DEF Visits
  <2>5. CASE Consent!KeyUsed(r)
    BY <1>3, <2>1, <2>4, <2>5
  <2>6. CASE ~Consent!KeyUsed(r)
    <3>1. \A n \in DOMAIN receipt : ~(receipt[n].key = q.key /\ receipt[n].site = q.site)
      BY <2>6 DEF Consent!KeyUsed, Consent!receipt, Consent!request
    <3>2. x.site = q.site /\ x.key = q.key
      BY <2>2 DEF PolicyOf
    <3>3. x \in ReceiptFor(DOMAIN revision)
      BY <1>t, <2>2 DEF ReceiptFor, Revision, PolicyOf
    <3>4. PolicyOf(revision, receipt, x)
      BY <2>2 DEF PolicyOf
    <3>. HIDE DEF x
    <3>. QED BY <1>2, <2>1, <2>4, <2>6, <3>1, <3>2, <3>3, <3>4
  <2>. QED BY <2>5, <2>6
<1>. QED BY <1>4, <1>5, <1>6, <1>7 DEF Consent!revision

LEMMA ConsentStep ==
  ASSUME Consent!ConsentInvariant, Consent!Next
  PROVE  Consent!ConsentInvariant'
BY SiteSteps, PolicySteps, ChoiceSteps DEF Consent!Next

LEMMA ConsentKept ==
  ASSUME Consent!ConsentInvariant
  PROVE  Consent!PublishedIsProven /\ Consent!ReceiptsAreChained
<1>1. Consent!ReceiptsAreChained
  BY DEF Consent!ConsentInvariant, Consent!ReceiptsAreChained, Consent!Names, Consent!WasPublished
<1>2. ASSUME NEW s \in Site
      PROVE  /\ Consent!Cardinality(Consent!Live(s)) <= 1
             /\ Consent!Live(s) # {} => /\ Consent!site[s].verified
                                        /\ Consent!site[s].evidence = <<Consent!site[s].domain, Consent!site[s].challenge>>
             /\ \A t \in Site \ {s} : Consent!site[s].verified => Consent!site[t].domain # Consent!site[s].domain
  <2>1. Consent!SitesProven
    BY DEF Consent!ConsentInvariant
  <2>2. \A v, w \in Consent!Live(s) : v = w
    BY <2>1 DEF Consent!SitesProven, Consent!Live, Consent!OfSite
  <2>3. Cardinality(Consent!Live(s)) <= 1
    <3>1. CASE Consent!Live(s) = {}
      BY <3>1, FS_EmptySet
    <3>2. CASE Consent!Live(s) # {}
      <4>1. PICK v : Consent!Live(s) = {v}
        BY <2>2, <3>2
      <4>. QED BY <4>1, FS_Singleton
    <3>. QED BY <3>1, <3>2
  <2>4. Consent!Cardinality(Consent!Live(s)) = Cardinality(Consent!Live(s))
    BY DEF Consent!Cardinality, Cardinality
  <2>5. /\ Consent!Live(s) # {} => /\ Consent!site[s].verified
                                   /\ Consent!site[s].evidence = <<Consent!site[s].domain, Consent!site[s].challenge>>
        /\ \A t \in Site \ {s} : Consent!site[s].verified => Consent!site[t].domain # Consent!site[s].domain
    BY <2>1 DEF Consent!SitesProven
  <2>. QED BY <2>3, <2>4, <2>5
<1>. QED BY <1>1, <1>2 DEF Consent!PublishedIsProven

-----------------------------------------------------------------------------
(* email: subscribers and suppressions, campaigns up to their plans.       *)

SubscriberOf == [state : {"unknown", "active", "suppressed"}, audiences : SUBSET Nat, consent : Nat]
SuppressionOf == [of : Address, reason : Reason, at : Nat, source : MailEvent \cup {0}]
CampaignOf ==
  [audience : Nat, state : {"draft-empty", "draft", "reviewed", "changes-requested", "approved", "scheduled", "dispatch-planned"},
   draft : Nat, review : Nat, approval : Nat, schedule : Nat, version : Nat]
ReviewOf == [draft : Nat, decision : {"approved-for-approval", "changes-requested"}]
ApprovalOf(D) == [draft : Nat, review : D]
ScheduleOf(D) == [draft : Nat, approval : D, at : Nat]
PlanOf(D) == [draft : Nat, schedule : D, to : SUBSET [a : Address, consent : Nat]]

Subscribed(subscriber, suppression) ==
  /\ subscriber \in [Address -> SubscriberOf] /\ suppression \in Seq(SuppressionOf)
  /\ \A a \in Address, i \in DOMAIN suppression : suppression[i].of = a =>
       /\ subscriber[a].state # "unknown"
       /\ subscriber[a].state = "active" => suppression[i].at < subscriber[a].consent

ApprovesIn(review, approval, y, d) ==
  /\ y \in DOMAIN approval /\ approval[y].draft = d
  /\ review[approval[y].review].draft = d /\ review[approval[y].review].decision = "approved-for-approval"
SchedulesIn(review, approval, schedule, s, d) ==
  s \in DOMAIN schedule /\ schedule[s].draft = d /\ ApprovesIn(review, approval, schedule[s].approval, d)

MailTypes(campaign, review, approval, schedule, plan) ==
  /\ campaign \in Seq(CampaignOf) /\ review \in Seq(ReviewOf) /\ approval \in Seq(ApprovalOf(DOMAIN review))
  /\ schedule \in Seq(ScheduleOf(DOMAIN approval)) /\ plan \in Seq(PlanOf(DOMAIN schedule))

CampaignLinked(x, review, approval, schedule, plan) ==
  /\ x.approval # 0 => ApprovesIn(review, approval, x.approval, x.draft)
  /\ x.schedule # 0 => SchedulesIn(review, approval, schedule, x.schedule, x.draft)
  /\ x.state = "scheduled" => \A p \in DOMAIN plan : plan[p].schedule # x.schedule
PlansLinked(review, approval, schedule, plan) ==
  \A p \in DOMAIN plan :
    /\ SchedulesIn(review, approval, schedule, plan[p].schedule, plan[p].draft)
    /\ \A q \in DOMAIN plan : plan[q].schedule = plan[p].schedule => p = q

Linked(campaign, review, approval, schedule, plan) ==
  /\ MailTypes(campaign, review, approval, schedule, plan)
  /\ \A c \in DOMAIN campaign :
       /\ CampaignLinked(campaign[c], review, approval, schedule, plan)
       /\ \A e \in DOMAIN campaign :
            campaign[c].schedule = campaign[e].schedule /\ campaign[c].schedule # 0 => c = e
  /\ PlansLinked(review, approval, schedule, plan)

HasMail(r) ==
  {"audience", "subscriber", "suppression", "campaign", "draft", "review", "approval", "schedule", "plan", "receipt", "now"}
    \subseteq DOMAIN r

\* MailInvariant, of the lists it is about.
LEMMA MailForm ==
  Email!MailInvariant
    <=> /\ HasMail(records) /\ records.now \in Nat /\ records.audience \in Nat /\ records.draft \in Seq(Nat)
        /\ Subscribed(records.subscriber, records.suppression)
        /\ Linked(records.campaign, records.review, records.approval, records.schedule, records.plan)
<1>1. Subscribed(records.subscriber, records.suppression)
        <=> /\ records.subscriber \in [Address -> SubscriberOf] /\ records.suppression \in Seq(SuppressionOf)
            /\ Email!SubscribersConsented
  BY DEF Subscribed, Email!SubscribersConsented, Email!SuppressionsOf, Email!suppression, Email!subscriber
<1>2. Linked(records.campaign, records.review, records.approval, records.schedule, records.plan)
        <=> /\ MailTypes(records.campaign, records.review, records.approval, records.schedule, records.plan)
            /\ Email!CampaignsApproved
  BY DEF Linked, CampaignLinked, PlansLinked, ApprovesIn, SchedulesIn, Email!CampaignsApproved, Email!Approves, Email!Schedules,
         Email!campaign, Email!review, Email!approval, Email!schedule, Email!plan, Email!None
<1>. QED
  BY <1>1, <1>2 DEF Email!MailInvariant, HasMail, MailTypes, SubscriberOf, SuppressionOf, CampaignOf, ReviewOf, ApprovalOf, ScheduleOf,
         PlanOf, Email!campaign, Email!review, Email!approval, Email!schedule, Email!plan, Email!None,
         Email!now, Email!draft, Email!audience, Email!subscriber, Email!suppression

LEMMA MailFormNext ==
  Email!MailInvariant'
    <=> /\ HasMail(records') /\ records'.now \in Nat /\ records'.audience \in Nat /\ records'.draft \in Seq(Nat)
        /\ Subscribed(records'.subscriber, records'.suppression)
        /\ Linked(records'.campaign, records'.review, records'.approval, records'.schedule, records'.plan)
<1>1. Subscribed(records'.subscriber, records'.suppression)
        <=> /\ records'.subscriber \in [Address -> SubscriberOf] /\ records'.suppression \in Seq(SuppressionOf)
            /\ Email!SubscribersConsented'
  BY DEF Subscribed, Email!SubscribersConsented, Email!SuppressionsOf, Email!suppression, Email!subscriber
<1>2. Linked(records'.campaign, records'.review, records'.approval, records'.schedule, records'.plan)
        <=> /\ MailTypes(records'.campaign, records'.review, records'.approval, records'.schedule, records'.plan)
            /\ Email!CampaignsApproved'
  BY DEF Linked, CampaignLinked, PlansLinked, ApprovesIn, SchedulesIn, Email!CampaignsApproved, Email!Approves, Email!Schedules,
         Email!campaign, Email!review, Email!approval, Email!schedule, Email!plan, Email!None
<1>. QED
  BY <1>1, <1>2 DEF Email!MailInvariant, HasMail, MailTypes, SubscriberOf, SuppressionOf, CampaignOf, ReviewOf, ApprovalOf, ScheduleOf,
         PlanOf, Email!campaign, Email!review, Email!approval, Email!schedule, Email!plan, Email!None,
         Email!now, Email!draft, Email!audience, Email!subscriber, Email!suppression

LEMMA MailInit == Email!Init => Email!MailInvariant
<1>. SUFFICES ASSUME Email!Init PROVE Email!MailInvariant
  OBVIOUS
<1>1. /\ HasMail(records) /\ records.now = 0 /\ records.audience = 0
      /\ records.subscriber = [a \in Address |-> Email!Unknown] /\ records.suppression = <<>>
      /\ records.campaign = <<>> /\ records.draft = <<>> /\ records.review = <<>>
      /\ records.approval = <<>> /\ records.schedule = <<>> /\ records.plan = <<>>
  BY DEF Email!Init, HasMail
<1>2. Email!Unknown \in SubscriberOf
  BY DEF Email!Unknown, SubscriberOf
<1>3. Subscribed(records.subscriber, records.suppression)
  BY <1>1, <1>2 DEF Subscribed
<1>4. MailTypes(records.campaign, records.review, records.approval, records.schedule, records.plan)
  BY <1>1 DEF MailTypes
<1>5. Linked(records.campaign, records.review, records.approval, records.schedule, records.plan)
  BY <1>1, <1>4 DEF Linked, PlansLinked
<1>. QED BY <1>1, <1>3, <1>5, MailForm

\* A subscriber consents again, later than whatever is held against him.
LEMMA SubscriberConsents ==
  ASSUME NEW subscriber, NEW suppression, Subscribed(subscriber, suppression),
         NEW a \in Address, NEW v \in SubscriberOf, v.state = "active",
         \A i \in DOMAIN suppression : suppression[i].of = a => suppression[i].at < v.consent
  PROVE  Subscribed([subscriber EXCEPT ![a] = v], suppression)
BY DEF Subscribed

\* Or is suppressed.
LEMMA SubscriberSuppressed ==
  ASSUME NEW subscriber, NEW suppression, Subscribed(subscriber, suppression),
         NEW s \in SuppressionOf
  PROVE  Subscribed([subscriber EXCEPT ![s.of].state = "suppressed"], Append(suppression, s))
<1>. DEFINE new == [subscriber EXCEPT ![s.of].state = "suppressed"]
            list == Append(suppression, s)
<1>1. /\ Len(suppression) \in Nat /\ Len(suppression) + 1 \notin DOMAIN suppression
      /\ DOMAIN list = DOMAIN suppression \cup {Len(suppression) + 1} /\ list[Len(suppression) + 1] = s
      /\ \A i \in DOMAIN suppression : list[i] = suppression[i]
      /\ list \in Seq(SuppressionOf)
  <2>1. SuppressionOf \cup {s} = SuppressionOf
    OBVIOUS
  <2>. QED BY <2>1, ListAppend, ListType DEF Subscribed
<1>2. s.of \in Address
  BY DEF SuppressionOf
<1>3. /\ new \in [Address -> SubscriberOf] /\ new[s.of].state = "suppressed"
      /\ \A a \in Address \ {s.of} : new[a] = subscriber[a]
  BY <1>2 DEF Subscribed, SubscriberOf
<1>. HIDE DEF new, list
<1>4. ASSUME NEW a \in Address, NEW i \in DOMAIN list, list[i].of = a
      PROVE  new[a].state # "unknown" /\ (new[a].state = "active" => list[i].at < new[a].consent)
  BY <1>1, <1>3, <1>4 DEF Subscribed
<1>5. new \in [Address -> SubscriberOf] /\ list \in Seq(SuppressionOf)
  BY <1>1, <1>3
<1>6. Subscribed(new, list)
  BY <1>4, <1>5 DEF Subscribed
<1>. QED BY <1>6 DEF new, list

\* What a suppression of the present records is.
LEMMA Suppressing ==
  ASSUME Email!MailInvariant, NEW a \in Address, NEW reason \in Reason, NEW at \in 0 .. MailHorizon,
         NEW source \in MailEvent \cup {0}, Email!Suppressible(a, at),
         NEW new, new = Email!Suppress(records, a, reason, at, source)
  PROVE  /\ HasMail(new) /\ Subscribed(new.subscriber, new.suppression)
         /\ \A f \in {"now", "audience", "campaign", "draft", "review", "approval", "schedule", "plan"} : new[f] = records[f]
<1>. DEFINE s == [of |-> a, reason |-> reason, at |-> at, source |-> source]
<1>1. HasMail(records) /\ Subscribed(records.subscriber, records.suppression)
  BY MailForm
<1>2. at \in Nat
  BY AgreementAssumption
<1>3. s \in SuppressionOf /\ s.of = a
  BY <1>2 DEF SuppressionOf
<1>4. new = IF \E i \in DOMAIN records.suppression : records.suppression[i] = s THEN records
            ELSE [records EXCEPT !.suppression = Append(@, s), !.subscriber[a].state = "suppressed"]
  BY DEF Email!Suppress, Email!suppression
<1>. HIDE DEF s
<1>5. CASE new = records
  <2>1. /\ HasMail(new) /\ new.subscriber = records.subscriber /\ new.suppression = records.suppression
        /\ \A f \in {"now", "audience", "campaign", "draft", "review", "approval", "schedule", "plan"} : new[f] = records[f]
    BY <1>1, <1>5 DEF HasMail
  <2>2. Subscribed(new.subscriber, new.suppression)
    BY <1>1, <1>5
  <2>. QED BY <2>1, <2>2
<1>6. CASE new = [records EXCEPT !.suppression = Append(@, s), !.subscriber[a].state = "suppressed"]
  <2>1. /\ HasMail(new) /\ new.suppression = Append(records.suppression, s)
        /\ new.subscriber = [records.subscriber EXCEPT ![a].state = "suppressed"]
        /\ \A f \in {"now", "audience", "campaign", "draft", "review", "approval", "schedule", "plan"} : new[f] = records[f]
    BY <1>1, <1>6 DEF HasMail
  <2>2. new.subscriber = [records.subscriber EXCEPT ![s.of].state = "suppressed"]
    BY <1>3, <2>1
  <2>3. Subscribed([records.subscriber EXCEPT ![s.of].state = "suppressed"], Append(records.suppression, s))
    BY <1>1, <1>3, SubscriberSuppressed
  <2>4. Subscribed(new.subscriber, new.suppression)
    BY <2>1, <2>2, <2>3
  <2>. QED BY <2>1, <2>4
<1>. QED BY <1>4, <1>5, <1>6

\* Time, audiences, consents and suppressions.
LEMMA SubscriberSteps ==
  ASSUME Email!MailInvariant,
         \/ Email!Tick \/ Email!AudienceCreate
         \/ \E u \in 1 .. Email!audience, a \in Address, at \in 0 .. MailHorizon :
              Email!SubscriberOptIn(a, u, at) \/ Email!SubscriberReactivate(a, u, at)
         \/ \E a \in Address, reason \in Reason, at \in 0 .. MailHorizon : Email!SubscriberSuppress(a, reason, at)
         \/ \E p \in DOMAIN Email!plan, a \in Address, e \in MailEvent, t \in Reason \cup {"delivered"}, at \in 0 .. MailHorizon :
              Email!ProviderReceiptIngest(p, a, e, t, at)
  PROVE  Email!MailInvariant'
<1>. DEFINE subscriber == records.subscriber
            suppression == records.suppression
            Rest == {"now", "audience", "campaign", "draft", "review", "approval", "schedule", "plan"}
<1>1. /\ HasMail(records) /\ records.now \in Nat /\ records.audience \in Nat /\ records.draft \in Seq(Nat)
      /\ Subscribed(subscriber, suppression)
      /\ Linked(records.campaign, records.review, records.approval, records.schedule, records.plan)
  BY MailForm
<1>2. ASSUME HasMail(records'), Subscribed(records'.subscriber, records'.suppression),
             \A f \in {"campaign", "draft", "review", "approval", "schedule", "plan"} : records'[f] = records[f],
             records'.now \in Nat, records'.audience \in Nat
      PROVE  Email!MailInvariant'
  BY <1>1, <1>2, MailFormNext
<1>3. CASE Email!Tick \/ Email!AudienceCreate
  <2>1. /\ HasMail(records') /\ records'.subscriber = subscriber /\ records'.suppression = suppression
        /\ \A f \in {"campaign", "draft", "review", "approval", "schedule", "plan"} : records'[f] = records[f]
        /\ records'.now \in {records.now, records.now + 1} /\ records'.audience \in {records.audience, records.audience + 1}
    BY <1>1, <1>3 DEF HasMail, Email!Tick, Email!AudienceCreate, Email!now, Email!audience
  <2>. QED BY <1>1, <1>2, <2>1
<1>4. ASSUME NEW u \in 1 .. Email!audience, NEW a \in Address, NEW at \in 0 .. MailHorizon,
             Email!SubscriberOptIn(a, u, at) \/ Email!SubscriberReactivate(a, u, at)
      PROVE  Email!MailInvariant'
  <2>. DEFINE v == [state |-> "active", audiences |-> subscriber[a].audiences \cup {u}, consent |-> at]
  <2>1. at \in Nat /\ u \in Nat
    BY <1>1, AgreementAssumption DEF Email!audience
  <2>2. subscriber[a] \in SubscriberOf
    BY <1>1 DEF Subscribed
  <2>3. v \in SubscriberOf /\ v.state = "active" /\ v.consent = at
    BY <2>1, <2>2 DEF SubscriberOf
  <2>4. records' = [records EXCEPT !.subscriber[a] = v]
    BY <1>4 DEF Email!SubscriberOptIn, Email!SubscriberReactivate, Email!Consented, Email!subscriber
  <2>. HIDE DEF v
  <2>5. /\ HasMail(records') /\ records'.subscriber = [subscriber EXCEPT ![a] = v] /\ records'.suppression = suppression
        /\ \A f \in Rest : records'[f] = records[f]
    BY <1>1, <2>4 DEF HasMail
  <2>6. ASSUME NEW i \in DOMAIN suppression, suppression[i].of = a PROVE suppression[i].at < at
    <3>t. suppression[i].at \in Nat /\ subscriber[a].consent \in Nat
      <4>1. suppression[i] \in SuppressionOf
        BY <1>1, ListType DEF Subscribed
      <4>. QED BY <2>2, <4>1 DEF SubscriberOf, SuppressionOf
    <3>1. CASE Email!SubscriberOptIn(a, u, at)
      <4>1. subscriber[a].state # "suppressed" /\ (subscriber[a].state = "active" => at >= subscriber[a].consent)
        BY <3>1 DEF Email!SubscriberOptIn, Email!subscriber
      <4>2. subscriber[a].state # "unknown" /\ (subscriber[a].state = "active" => suppression[i].at < subscriber[a].consent)
        BY <1>1, <2>6 DEF Subscribed
      <4>3. subscriber[a].state = "active"
        BY <2>2, <4>1, <4>2 DEF SubscriberOf
      <4>. QED BY <2>1, <3>t, <4>1, <4>2, <4>3
    <3>2. CASE Email!SubscriberReactivate(a, u, at)
      <4>1. PICK j \in Email!Latest(a) : at > suppression[j].at
        BY <3>2 DEF Email!SubscriberReactivate, Email!Reconfirmed, Email!suppression
      <4>2. j \in DOMAIN suppression /\ suppression[i].at <= suppression[j].at
        BY <2>6, <4>1 DEF Email!Latest, Email!SuppressionsOf, Email!suppression
      <4>3. suppression[j].at \in Nat
        <5>1. suppression[j] \in SuppressionOf
          BY <1>1, <4>2, ListType DEF Subscribed
        <5>. QED BY <5>1 DEF SuppressionOf
      <4>. QED BY <2>1, <3>t, <4>1, <4>2, <4>3
    <3>. QED BY <1>4, <3>1, <3>2
  <2>7. Subscribed([subscriber EXCEPT ![a] = v], suppression)
    BY <1>1, <2>3, <2>6, SubscriberConsents
  <2>. QED BY <1>1, <1>2, <2>5, <2>7
<1>5. ASSUME NEW a \in Address, NEW reason \in Reason, NEW at \in 0 .. MailHorizon, Email!SubscriberSuppress(a, reason, at)
      PROVE  Email!MailInvariant'
  <2>1. Email!Suppressible(a, at) /\ records' = Email!Suppress(records, a, reason, at, 0)
    BY <1>5 DEF Email!SubscriberSuppress, Email!None
  <2>2. /\ HasMail(records') /\ Subscribed(records'.subscriber, records'.suppression)
        /\ \A f \in Rest : records'[f] = records[f]
    BY <2>1, Suppressing
  <2>. QED BY <1>1, <1>2, <2>2
<1>6. ASSUME NEW p \in DOMAIN Email!plan, NEW a \in Address, NEW e \in MailEvent, NEW t \in Reason \cup {"delivered"},
             NEW at \in 0 .. MailHorizon, Email!ProviderReceiptIngest(p, a, e, t, at)
      PROVE  Email!MailInvariant'
  <2>1. CASE t \in Reason
    <3>. DEFINE new == Email!Suppress(records, a, t, at, e)
    <3>1. Email!Suppressible(a, at) /\ records' = [new EXCEPT !.receipt = @ \cup {e}]
      BY <1>6, <2>1 DEF Email!ProviderReceiptIngest
    <3>2. /\ HasMail(new) /\ Subscribed(new.subscriber, new.suppression) /\ \A f \in Rest : new[f] = records[f]
      BY <2>1, <3>1, Suppressing
    <3>. HIDE DEF new
    <3>3. /\ HasMail(records') /\ records'.subscriber = new.subscriber /\ records'.suppression = new.suppression
          /\ \A f \in Rest : records'[f] = records[f]
      BY <3>1, <3>2 DEF HasMail
    <3>. QED BY <1>1, <1>2, <3>2, <3>3
  <2>2. CASE t \notin Reason
    <3>1. records' = [records EXCEPT !.receipt = @ \cup {e}]
      BY <1>6, <2>2 DEF Email!ProviderReceiptIngest
    <3>2. /\ HasMail(records') /\ records'.subscriber = subscriber /\ records'.suppression = suppression
          /\ \A f \in Rest : records'[f] = records[f]
      BY <1>1, <3>1 DEF HasMail
    <3>. QED BY <1>1, <1>2, <3>2
  <2>. QED BY <2>1, <2>2
<1>. QED BY <1>3, <1>4, <1>5, <1>6

\* Reviews, approvals and schedules are only added to.
LEMMA LinksGrow ==
  ASSUME NEW campaign, NEW review, NEW approval, NEW schedule, NEW plan, Linked(campaign, review, approval, schedule, plan),
         NEW reviews, NEW approvals, NEW schedules,
         Continues(reviews, review), Continues(approvals, approval), Continues(schedules, schedule),
         reviews \in Seq(ReviewOf), approvals \in Seq(ApprovalOf(DOMAIN reviews)),
         schedules \in Seq(ScheduleOf(DOMAIN approvals))
  PROVE  Linked(campaign, reviews, approvals, schedules, plan)
<1>t. /\ \A i \in DOMAIN approval : approval[i] \in ApprovalOf(DOMAIN review)
      /\ \A i \in DOMAIN schedule : schedule[i] \in ScheduleOf(DOMAIN approval)
      /\ \A i \in DOMAIN plan : plan[i] \in PlanOf(DOMAIN schedule)
      /\ plan \in [DOMAIN plan -> PlanOf(DOMAIN schedule)]
  <2>1. /\ approval \in Seq(ApprovalOf(DOMAIN review)) /\ schedule \in Seq(ScheduleOf(DOMAIN approval))
        /\ plan \in Seq(PlanOf(DOMAIN schedule))
    BY DEF Linked, MailTypes
  <2>. QED BY <2>1, ListType
<1>1. \A y, d : ApprovesIn(review, approval, y, d) => ApprovesIn(reviews, approvals, y, d)
  <2>1. \A i \in DOMAIN approval : approval[i].review \in DOMAIN review
    BY <1>t DEF ApprovalOf
  <2>. QED BY <2>1 DEF ApprovesIn, Continues
<1>2. \A s, d : SchedulesIn(review, approval, schedule, s, d) => SchedulesIn(reviews, approvals, schedules, s, d)
  BY <1>1 DEF SchedulesIn, Continues
<1>3. plan \in Seq(PlanOf(DOMAIN schedules))
  <2>1. \A x \in PlanOf(DOMAIN schedule) : x \in PlanOf(DOMAIN schedules)
    BY DEF PlanOf, Continues
  <2>2. plan \in [DOMAIN plan -> PlanOf(DOMAIN schedules)]
    BY <1>t, <2>1
  <2>3. plan \in Seq(PlanOf(DOMAIN schedule))
    BY DEF Linked, MailTypes
  <2>. QED BY <2>2, <2>3, ListRetype
<1>4. MailTypes(campaign, reviews, approvals, schedules, plan)
  BY <1>3 DEF Linked, MailTypes
<1>. QED BY <1>1, <1>2, <1>4 DEF Linked, CampaignLinked, PlansLinked

\* A campaign moves on.
LEMMA CampaignMoves ==
  ASSUME NEW campaign, NEW review, NEW approval, NEW schedule, NEW plan, Linked(campaign, review, approval, schedule, plan),
         NEW c \in DOMAIN campaign, NEW v \in CampaignOf, NEW new, OneChanged(new, campaign, c, v),
         CampaignLinked(v, review, approval, schedule, plan),
         \/ v.schedule \in {0, campaign[c].schedule}
         \/ \A e \in DOMAIN campaign : campaign[e].schedule # v.schedule
  PROVE  Linked(new, review, approval, schedule, plan)
<1>1. /\ new \in Seq(CampaignOf) /\ DOMAIN new = DOMAIN campaign /\ new[c] = v
      /\ \A e \in DOMAIN campaign : e # c => new[e] = campaign[e]
  BY ListChange DEF Linked, MailTypes
<1>2. MailTypes(new, review, approval, schedule, plan)
  BY <1>1 DEF Linked, MailTypes
<1>3. ASSUME NEW b \in DOMAIN new
      PROVE  /\ CampaignLinked(new[b], review, approval, schedule, plan)
             /\ \A e \in DOMAIN new : new[b].schedule = new[e].schedule /\ new[b].schedule # 0 => b = e
  BY <1>1, <1>3 DEF Linked
<1>. QED BY <1>2, <1>3 DEF Linked

LEMMA ApprovalsRetype ==
  ASSUME NEW D, NEW E, D \subseteq E
  PROVE  /\ \A s \in Seq(ApprovalOf(D)) : s \in Seq(ApprovalOf(E))
         /\ \A s \in Seq(ScheduleOf(D)) : s \in Seq(ScheduleOf(E))
<1>1. ASSUME NEW s \in Seq(ApprovalOf(D)) PROVE s \in Seq(ApprovalOf(E))
  <2>1. s \in [DOMAIN s -> ApprovalOf(D)]
    BY ListType
  <2>2. \A x \in ApprovalOf(D) : x \in ApprovalOf(E)
    BY DEF ApprovalOf
  <2>3. s \in [DOMAIN s -> ApprovalOf(E)]
    BY <2>1, <2>2
  <2>. QED BY <2>3, ListRetype
<1>2. ASSUME NEW s \in Seq(ScheduleOf(D)) PROVE s \in Seq(ScheduleOf(E))
  <2>1. s \in [DOMAIN s -> ScheduleOf(D)]
    BY ListType
  <2>2. \A x \in ScheduleOf(D) : x \in ScheduleOf(E)
    BY DEF ScheduleOf
  <2>3. s \in [DOMAIN s -> ScheduleOf(E)]
    BY <2>1, <2>2
  <2>. QED BY <2>3, ListRetype
<1>. QED BY <1>1, <1>2

\* Campaigns, from their creation to their plans.
LEMMA CampaignSteps ==
  ASSUME Email!MailInvariant,
         \/ \E u \in 1 .. Email!audience : Email!CampaignCreate(u)
         \/ \E c \in DOMAIN Email!campaign, v \in 1 .. MaxMailVersion :
              \/ Email!CampaignVersionDraft(c, v)
              \/ \E d \in DOMAIN Email!draft :
                   \/ Email!DispatchPlanCreate(c, d, v)
                   \/ \E x \in {"approved-for-approval", "changes-requested"} : Email!CampaignReview(c, d, x, v)
                   \/ \E r \in DOMAIN Email!review : Email!CampaignApprove(c, d, r, v)
                   \/ \E at \in 1 .. MailHorizon : Email!CampaignSchedule(c, d, at, v)
  PROVE  Email!MailInvariant'
<1>. DEFINE campaign == records.campaign
            review == records.review
            approval == records.approval
            schedule == records.schedule
            plan == records.plan
            States == {"draft-empty", "draft", "reviewed", "changes-requested", "approved", "scheduled", "dispatch-planned"}
<1>1. /\ HasMail(records) /\ records.now \in Nat /\ records.audience \in Nat /\ records.draft \in Seq(Nat)
      /\ Subscribed(records.subscriber, records.suppression) /\ Linked(campaign, review, approval, schedule, plan)
  BY MailForm
<1>t. /\ campaign \in Seq(CampaignOf) /\ review \in Seq(ReviewOf) /\ approval \in Seq(ApprovalOf(DOMAIN review))
      /\ schedule \in Seq(ScheduleOf(DOMAIN approval)) /\ plan \in Seq(PlanOf(DOMAIN schedule))
  BY <1>1 DEF Linked, MailTypes
<1>l. /\ Continues(review, review) /\ Continues(approval, approval) /\ Continues(schedule, schedule)
      /\ DOMAIN review \in SUBSET Nat /\ DOMAIN approval \in SUBSET Nat /\ DOMAIN schedule \in SUBSET Nat /\ 0 \notin DOMAIN schedule
  BY <1>t, ListType DEF Continues
<1>2. ASSUME HasMail(records'), records'.subscriber = records.subscriber, records'.suppression = records.suppression,
             records'.now = records.now, records'.audience = records.audience, records'.draft \in Seq(Nat),
             Linked(records'.campaign, records'.review, records'.approval, records'.schedule, records'.plan)
      PROVE  Email!MailInvariant'
  BY <1>1, <1>2, MailFormNext
<1>c. ASSUME NEW c \in DOMAIN campaign
      PROVE  /\ campaign[c] \in CampaignOf /\ CampaignLinked(campaign[c], review, approval, schedule, plan)
             /\ \A e \in DOMAIN campaign : campaign[c].schedule = campaign[e].schedule /\ campaign[c].schedule # 0 => c = e
  BY <1>1, <1>t, ListType DEF Linked
<1>3. ASSUME NEW u \in 1 .. Email!audience, Email!CampaignCreate(u) PROVE Email!MailInvariant'
  <2>. DEFINE x == [audience |-> u, state |-> "draft-empty", draft |-> 0, review |-> 0, approval |-> 0, schedule |-> 0, version |-> 1]
  <2>1. /\ HasMail(records') /\ records'.subscriber = records.subscriber /\ records'.suppression = records.suppression
        /\ records'.now = records.now /\ records'.audience = records.audience /\ records'.draft = records.draft
        /\ records'.campaign = Append(campaign, x) /\ records'.review = review /\ records'.approval = approval
        /\ records'.schedule = schedule /\ records'.plan = plan
    BY <1>1, <1>3 DEF HasMail, Email!CampaignCreate, Email!None
  <2>2. x \in CampaignOf /\ x.approval = 0 /\ x.schedule = 0 /\ x.state # "scheduled"
    BY <1>1 DEF CampaignOf, Email!audience
  <2>. HIDE DEF x
  <2>3. /\ Append(campaign, x) \in Seq(CampaignOf) /\ DOMAIN Append(campaign, x) = DOMAIN campaign \cup {Len(campaign) + 1}
        /\ Append(campaign, x)[Len(campaign) + 1] = x /\ \A c \in DOMAIN campaign : Append(campaign, x)[c] = campaign[c]
    BY <1>t, <2>2, ListContinued DEF Continues
  <2>4. CampaignLinked(x, review, approval, schedule, plan)
    BY <2>2 DEF CampaignLinked
  <2>5. Linked(Append(campaign, x), review, approval, schedule, plan)
    <3>. DEFINE new == Append(campaign, x)
    <3>. HIDE DEF new
    <3>1. MailTypes(new, review, approval, schedule, plan)
      BY <1>t, <2>3 DEF MailTypes, new
    <3>2. ASSUME NEW c \in DOMAIN new
          PROVE  /\ CampaignLinked(new[c], review, approval, schedule, plan)
                 /\ \A e \in DOMAIN new : new[c].schedule = new[e].schedule /\ new[c].schedule # 0 => c = e
      BY <1>c, <2>2, <2>3, <2>4, <3>2 DEF new
    <3>. QED BY <1>1, <3>1, <3>2 DEF Linked, new
  <2>. QED BY <1>1, <1>2, <2>1, <2>5
<1>m. ASSUME NEW c \in DOMAIN campaign PROVE c \in Nat
  BY <1>t, <1>m, ListType
<1>v. ASSUME NEW v \in 1 .. MaxMailVersion PROVE v + 1 \in Nat
  OBVIOUS
<1>4. ASSUME NEW c \in DOMAIN campaign, NEW v \in 1 .. MaxMailVersion, Email!CampaignVersionDraft(c, v) PROVE Email!MailInvariant'
  <2>. DEFINE x == [campaign[c] EXCEPT !.state = "draft", !.draft = Len(records.draft) + 1, !.review = 0, !.approval = 0,
                                       !.schedule = 0, !.version = v + 1]
  <2>1. /\ HasMail(records') /\ records'.subscriber = records.subscriber /\ records'.suppression = records.suppression
        /\ records'.now = records.now /\ records'.audience = records.audience /\ records'.draft = Append(records.draft, c)
        /\ records'.campaign = [campaign EXCEPT ![c] = x] /\ records'.review = review /\ records'.approval = approval
        /\ records'.schedule = schedule /\ records'.plan = plan
    BY <1>1, <1>4 DEF HasMail, Email!CampaignVersionDraft, Email!None, Email!draft
  <2>2. Len(records.draft) + 1 \in Nat /\ v + 1 \in Nat /\ Append(records.draft, c) \in Seq(Nat)
    BY <1>1, <1>m, ListContinued
  <2>3. x \in CampaignOf /\ x.approval = 0 /\ x.schedule = 0 /\ x.state # "scheduled"
    BY <1>c, <2>2 DEF CampaignOf
  <2>. HIDE DEF x
  <2>4. CampaignLinked(x, review, approval, schedule, plan)
    BY <2>3 DEF CampaignLinked
  <2>5. Linked([campaign EXCEPT ![c] = x], review, approval, schedule, plan)
    BY <1>1, <2>3, <2>4, OneChangedBy, CampaignMoves
  <2>. QED BY <1>2, <2>1, <2>2, <2>5
<1>5. ASSUME NEW c \in DOMAIN campaign, NEW v \in 1 .. MaxMailVersion, NEW d \in DOMAIN Email!draft,
             NEW decision \in {"approved-for-approval", "changes-requested"}, Email!CampaignReview(c, d, decision, v)
      PROVE  Email!MailInvariant'
  <2>. DEFINE y == [draft |-> d, decision |-> decision]
              reviews == Append(review, y)
              x == [campaign[c] EXCEPT !.state = IF decision = "approved-for-approval" THEN "reviewed" ELSE "changes-requested",
                                       !.review = Len(review) + 1, !.version = v + 1]
  <2>1. /\ HasMail(records') /\ records'.subscriber = records.subscriber /\ records'.suppression = records.suppression
        /\ records'.now = records.now /\ records'.audience = records.audience /\ records'.draft = records.draft
        /\ records'.campaign = [campaign EXCEPT ![c] = x] /\ records'.review = reviews /\ records'.approval = approval
        /\ records'.schedule = schedule /\ records'.plan = plan
    BY <1>1, <1>5 DEF HasMail, Email!CampaignReview, Email!review
  <2>2. d \in Nat /\ y \in ReviewOf
    BY <1>1, ListType DEF ReviewOf, Email!draft
  <2>3. /\ reviews \in Seq(ReviewOf) /\ Continues(reviews, review) /\ Len(review) \in Nat /\ DOMAIN review \subseteq DOMAIN reviews
    BY <1>t, <2>2, ListContinued
  <2>. HIDE DEF reviews
  <2>4. approval \in Seq(ApprovalOf(DOMAIN reviews))
    BY <1>t, <2>3, ApprovalsRetype
  <2>5. Linked(campaign, reviews, approval, schedule, plan)
    BY <1>1, <1>t, <1>l, <2>3, <2>4, LinksGrow
  <2>n. Len(review) + 1 \in Nat
    BY <2>3
  <2>6. x \in CampaignOf /\ x.approval = campaign[c].approval /\ x.schedule = campaign[c].schedule
        /\ x.draft = campaign[c].draft /\ x.state # "scheduled"
    BY <1>c, <1>v, <2>n DEF CampaignOf
  <2>. HIDE DEF x
  <2>7. CampaignLinked(x, reviews, approval, schedule, plan)
    BY <2>5, <2>6 DEF CampaignLinked, Linked
  <2>8. Linked([campaign EXCEPT ![c] = x], reviews, approval, schedule, plan)
    BY <2>5, <2>6, <2>7, OneChangedBy, CampaignMoves
  <2>. QED BY <1>1, <1>2, <2>1, <2>8
<1>6. ASSUME NEW c \in DOMAIN campaign, NEW v \in 1 .. MaxMailVersion, NEW d \in DOMAIN Email!draft,
             NEW r \in DOMAIN Email!review, Email!CampaignApprove(c, d, r, v)
      PROVE  Email!MailInvariant'
  <2>. DEFINE y == [draft |-> d, review |-> r]
              approvals == Append(approval, y)
              x == [campaign[c] EXCEPT !.state = "approved", !.approval = Len(approval) + 1, !.version = v + 1]
  <2>1. /\ HasMail(records') /\ records'.subscriber = records.subscriber /\ records'.suppression = records.suppression
        /\ records'.now = records.now /\ records'.audience = records.audience /\ records'.draft = records.draft
        /\ records'.campaign = [campaign EXCEPT ![c] = x] /\ records'.review = review /\ records'.approval = approvals
        /\ records'.schedule = schedule /\ records'.plan = plan
    BY <1>1, <1>6 DEF HasMail, Email!CampaignApprove, Email!approval
  <2>g. campaign[c].draft = d /\ review[r].draft = d /\ review[r].decision = "approved-for-approval"
    BY <1>6 DEF Email!CampaignApprove, Email!Current, Email!review, Email!campaign
  <2>2. d \in Nat /\ r \in DOMAIN review /\ y \in ApprovalOf(DOMAIN review) /\ y.draft = d /\ y.review = r
    BY <1>1, ListType DEF ApprovalOf, Email!draft, Email!review
  <2>. HIDE DEF y
  <2>3. /\ approvals \in Seq(ApprovalOf(DOMAIN review)) /\ Continues(approvals, approval) /\ Len(approval) \in Nat
        /\ DOMAIN approval \subseteq DOMAIN approvals /\ Len(approval) + 1 \in DOMAIN approvals /\ approvals[Len(approval) + 1] = y
    BY <1>t, <2>2, ListContinued
  <2>. HIDE DEF approvals
  <2>4. schedule \in Seq(ScheduleOf(DOMAIN approvals))
    BY <1>t, <2>3, ApprovalsRetype
  <2>5. Linked(campaign, review, approvals, schedule, plan)
    BY <1>1, <1>t, <1>l, <2>3, <2>4, LinksGrow
  <2>n. Len(approval) + 1 \in Nat
    BY <2>3
  <2>6. x \in CampaignOf /\ x.approval = Len(approval) + 1 /\ x.schedule = campaign[c].schedule
        /\ x.draft = d /\ x.state # "scheduled"
    BY <1>c, <1>v, <2>n, <2>g DEF CampaignOf
  <2>. HIDE DEF x
  <2>7. ApprovesIn(review, approvals, Len(approval) + 1, d)
    BY <2>2, <2>3, <2>g DEF ApprovesIn
  <2>8. CampaignLinked(x, review, approvals, schedule, plan)
    BY <2>5, <2>6, <2>7, <2>g DEF CampaignLinked, Linked
  <2>9. Linked([campaign EXCEPT ![c] = x], review, approvals, schedule, plan)
    BY <2>5, <2>6, <2>8, OneChangedBy, CampaignMoves
  <2>. QED BY <1>1, <1>2, <2>1, <2>9
<1>7. ASSUME NEW c \in DOMAIN campaign, NEW v \in 1 .. MaxMailVersion, NEW d \in DOMAIN Email!draft,
             NEW at \in 1 .. MailHorizon, Email!CampaignSchedule(c, d, at, v)
      PROVE  Email!MailInvariant'
  <2>. DEFINE y == [draft |-> d, approval |-> campaign[c].approval, at |-> at]
              schedules == Append(schedule, y)
              x == [campaign[c] EXCEPT !.state = "scheduled", !.schedule = Len(schedule) + 1, !.version = v + 1]
  <2>1. /\ HasMail(records') /\ records'.subscriber = records.subscriber /\ records'.suppression = records.suppression
        /\ records'.now = records.now /\ records'.audience = records.audience /\ records'.draft = records.draft
        /\ records'.campaign = [campaign EXCEPT ![c] = x] /\ records'.review = review /\ records'.approval = approval
        /\ records'.schedule = schedules /\ records'.plan = plan
    <3>1. records' = [records EXCEPT !.schedule = Append(@, y), !.campaign[c].state = "scheduled",
                                     !.campaign[c].schedule = Len(schedule) + 1, !.campaign[c].version = v + 1]
      BY <1>7 DEF Email!CampaignSchedule, Email!campaign, Email!schedule
    <3>. HIDE DEF y
    <3>. QED BY <1>1, <3>1 DEF HasMail
  <2>g. campaign[c].draft = d /\ campaign[c].approval # 0
    BY <1>7 DEF Email!CampaignSchedule, Email!Current, Email!campaign, Email!None
  <2>a. ApprovesIn(review, approval, campaign[c].approval, d)
    BY <1>c, <2>g DEF CampaignLinked
  <2>d. d \in Nat
    BY <1>1, ListType DEF Email!draft
  <2>2. at \in Nat /\ y \in ScheduleOf(DOMAIN approval) /\ y.draft = d /\ y.approval = campaign[c].approval
    BY <2>a, <2>d, AgreementAssumption DEF ScheduleOf, ApprovesIn
  <2>. HIDE DEF y
  <2>3. /\ schedules \in Seq(ScheduleOf(DOMAIN approval)) /\ Continues(schedules, schedule) /\ Len(schedule) \in Nat
        /\ Len(schedule) + 1 \notin DOMAIN schedule
        /\ Len(schedule) + 1 \in DOMAIN schedules /\ schedules[Len(schedule) + 1] = y
    BY <1>t, <2>2, ListContinued
  <2>. HIDE DEF schedules
  <2>5. Linked(campaign, review, approval, schedules, plan)
    BY <1>1, <1>t, <1>l, <2>3, LinksGrow
  <2>n. Len(schedule) + 1 \in Nat
    BY <2>3
  <2>6. x \in CampaignOf /\ x.approval = campaign[c].approval /\ x.schedule = Len(schedule) + 1 /\ x.draft = d
    BY <1>c, <1>v, <2>n, <2>g DEF CampaignOf
  <2>. HIDE DEF x
  <2>7. SchedulesIn(review, approval, schedules, Len(schedule) + 1, d)
    BY <2>2, <2>3, <2>a DEF SchedulesIn
  <2>p. ASSUME NEW p \in DOMAIN plan PROVE plan[p].schedule # Len(schedule) + 1
    <3>1. plan[p] \in PlanOf(DOMAIN schedule)
      BY <1>t, ListType
    <3>. QED BY <2>3, <3>1 DEF PlanOf
  <2>8. CampaignLinked(x, review, approval, schedules, plan)
    BY <2>6, <2>7, <2>a, <2>p DEF CampaignLinked
  <2>s. ASSUME NEW e \in DOMAIN campaign PROVE campaign[e].schedule # x.schedule
    <3>1. campaign[e].schedule # 0 => campaign[e].schedule \in DOMAIN schedule
      BY <1>c DEF CampaignLinked, SchedulesIn
    <3>. QED BY <2>3, <2>6, <3>1
  <2>9. Linked([campaign EXCEPT ![c] = x], review, approval, schedules, plan)
    BY <2>5, <2>6, <2>8, <2>s, OneChangedBy, CampaignMoves
  <2>. QED BY <1>1, <1>2, <2>1, <2>9
<1>8. ASSUME NEW c \in DOMAIN campaign, NEW v \in 1 .. MaxMailVersion, NEW d \in DOMAIN Email!draft,
             Email!DispatchPlanCreate(c, d, v)
      PROVE  Email!MailInvariant'
  <2>. DEFINE to == {[a |-> a, consent |-> records.subscriber[a].consent] : a \in Email!Eligible(campaign[c].audience)}
              y == [draft |-> d, schedule |-> campaign[c].schedule, to |-> to]
              plans == Append(plan, y)
              x == [campaign[c] EXCEPT !.state = "dispatch-planned", !.version = v + 1]
  <2>1. /\ HasMail(records') /\ records'.subscriber = records.subscriber /\ records'.suppression = records.suppression
        /\ records'.now = records.now /\ records'.audience = records.audience /\ records'.draft = records.draft
        /\ records'.campaign = [campaign EXCEPT ![c] = x] /\ records'.review = review /\ records'.approval = approval
        /\ records'.schedule = schedule /\ records'.plan = plans
    BY <1>1, <1>8 DEF HasMail, Email!DispatchPlanCreate, Email!campaign, Email!subscriber
  <2>g. campaign[c].draft = d /\ campaign[c].schedule # 0 /\ campaign[c].state = "scheduled"
    BY <1>8 DEF Email!DispatchPlanCreate, Email!Current, Email!campaign, Email!None
  <2>a. SchedulesIn(review, approval, schedule, campaign[c].schedule, d)
        /\ \A p \in DOMAIN plan : plan[p].schedule # campaign[c].schedule
    BY <1>c, <2>g DEF CampaignLinked
  <2>t. to \in SUBSET [a : Address, consent : Nat]
    <3>1. \A a \in Address : records.subscriber[a].consent \in Nat
      BY <1>1 DEF Subscribed, SubscriberOf
    <3>. QED BY <3>1 DEF Email!Eligible
  <2>. HIDE DEF to
  <2>2. d \in Nat /\ y \in PlanOf(DOMAIN schedule) /\ y.draft = d /\ y.schedule = campaign[c].schedule
    BY <1>1, <2>a, <2>t, ListType DEF PlanOf, Email!draft, SchedulesIn
  <2>. HIDE DEF y
  <2>3. /\ plans \in Seq(PlanOf(DOMAIN schedule)) /\ DOMAIN plans = DOMAIN plan \cup {Len(plan) + 1}
        /\ plans[Len(plan) + 1] = y /\ \A p \in DOMAIN plan : plans[p] = plan[p]
    <3>1. /\ Append(plan, y) \in Seq(PlanOf(DOMAIN schedule)) /\ Continues(Append(plan, y), plan)
          /\ DOMAIN Append(plan, y) = DOMAIN plan \cup {Len(plan) + 1} /\ Append(plan, y)[Len(plan) + 1] = y
      BY <1>t, <2>2, ListContinued
    <3>. QED BY <3>1 DEF Continues
  <2>. HIDE DEF plans
  <2>6. x \in CampaignOf /\ x.approval = campaign[c].approval /\ x.schedule = campaign[c].schedule /\ x.draft = campaign[c].draft
        /\ x.state = "dispatch-planned"
    BY <1>c, <1>v DEF CampaignOf
  <2>. HIDE DEF x
  <2>7. CampaignLinked(x, review, approval, schedule, plan)
    BY <1>c, <2>6 DEF CampaignLinked
  <2>. DEFINE new == [campaign EXCEPT ![c] = x]
  <2>8. Linked(new, review, approval, schedule, plan)
    BY <1>1, <2>6, <2>7, OneChangedBy, CampaignMoves
  <2>9. DOMAIN new = DOMAIN campaign /\ new[c] = x /\ \A e \in DOMAIN campaign : e # c => new[e] = campaign[e]
    OBVIOUS
  <2>. HIDE DEF new
  <2>10. MailTypes(new, review, approval, schedule, plans)
    BY <2>3, <2>8 DEF Linked, MailTypes
  <2>11. PlansLinked(review, approval, schedule, plans)
    BY <1>1, <2>2, <2>3, <2>a DEF Linked, PlansLinked
  <2>12. ASSUME NEW e \in DOMAIN new PROVE CampaignLinked(new[e], review, approval, schedule, plans)
    <3>1. CASE e = c
      BY <2>6, <2>7, <2>9, <3>1 DEF CampaignLinked
    <3>2. CASE e # c
      <4>1. new[e] = campaign[e] /\ CampaignLinked(campaign[e], review, approval, schedule, plan)
        BY <1>c, <2>9, <3>2
      <4>2. campaign[e].schedule # campaign[c].schedule
        BY <1>c, <2>9, <2>g, <3>2
      <4>. QED BY <2>2, <2>3, <4>1, <4>2 DEF CampaignLinked
    <3>. QED BY <3>1, <3>2
  <2>13. Linked(new, review, approval, schedule, plans)
    BY <2>8, <2>10, <2>11, <2>12 DEF Linked
  <2>. QED BY <1>1, <1>2, <2>1, <2>13 DEF new
<1>. QED BY <1>3, <1>4, <1>5, <1>6, <1>7, <1>8 DEF Email!campaign, Email!review

LEMMA MailStep ==
  ASSUME Email!MailInvariant, Email!Next
  PROVE  Email!MailInvariant'
BY SubscriberSteps, CampaignSteps DEF Email!Next

LEMMA MailKept ==
  ASSUME Email!MailInvariant
  PROVE  Email!MailIsConsented
<1>1. Email!SubscribersConsented /\ Email!CampaignsApproved
  BY DEF Email!MailInvariant
<1>2. \A a \in Address : Email!subscriber[a].state = "active" =>
        \A i \in Email!SuppressionsOf(a) : Email!suppression[i].at < Email!subscriber[a].consent
  BY <1>1 DEF Email!SubscribersConsented
<1>3. \A p \in DOMAIN Email!plan :
        /\ Email!Schedules(Email!plan[p].schedule, Email!plan[p].draft)
        /\ \A q \in DOMAIN Email!plan : Email!plan[q].schedule = Email!plan[p].schedule => p = q
  BY <1>1 DEF Email!CampaignsApproved
<1>. QED BY <1>2, <1>3 DEF Email!MailIsConsented, Email!Schedules, Email!Approves

-----------------------------------------------------------------------------
(* notify: topics, schemas and workflows, and the log of what was said.    *)

NoneYet == [state |-> "none"]
PreferenceOf == [kind : {"preference"}, subscriber : Subscriber, topic : Topic, enabled : BOOLEAN]
DeliveryOf == [kind : {"inbox", "suppressed"}, subscriber : Subscriber, topic : Topic, event : Event,
               workflow : Workflow, payload : SUBSET Field, key : Key]
LogEntry == PreferenceOf \cup DeliveryOf

\* The newest preference before position n decides.
SaidOf(log, s, t, n) == {p \in 1 .. (n - 1) : log[p].kind = "preference" /\ log[p].subscriber = s /\ log[p].topic = t}
DeliveredIn(topic, log, s, t, n) ==
  \/ topic[t].required
  \/ IF SaidOf(log, s, t, n) = {} THEN topic[t].enabled ELSE log[Max(SaidOf(log, s, t, n))].enabled

BoundOf(workflow, e) == {w \in Workflow : workflow[w].state = "published" /\ workflow[w].event = e}

TableTypes(topic, schema, workflow) ==
  /\ DOMAIN topic = Topic /\ DOMAIN schema = Event /\ DOMAIN workflow = Workflow
  /\ \A w \in Workflow : {"state", "event", "topic", "variables"} \subseteq DOMAIN workflow[w]
  /\ \A t \in Topic : topic[t] # NoneYet => topic[t].required \in BOOLEAN /\ topic[t].enabled \in BOOLEAN
WorkflowBound(topic, schema, x) ==
  /\ x.state \in {"draft", "published"}
  /\ x.event # "none" =>
       /\ x.event \in Event /\ x.topic \in Topic /\ schema[x.event] # NoneYet /\ topic[x.topic] # NoneYet
       /\ x.variables \subseteq schema[x.event].declared
  /\ x.state = "published" => x.event # "none"
Tables(topic, schema, workflow) ==
  /\ TableTypes(topic, schema, workflow)
  /\ \A w \in Workflow : WorkflowBound(topic, schema, workflow[w])
  /\ \A e \in Event : \A w, x \in BoundOf(workflow, e) : w = x

\* A delivery conforms to what it was accepted under.
Conforms(schema, workflow, it) ==
  /\ schema[it.event].required \subseteq it.payload /\ it.payload \subseteq schema[it.event].declared
  /\ BoundOf(workflow, it.event) = {it.workflow} /\ workflow[it.workflow].topic = it.topic
  /\ workflow[it.workflow].variables \subseteq schema[it.event].declared
Logged(topic, schema, workflow, log) ==
  \A n \in DOMAIN log :
    /\ topic[log[n].topic] # NoneYet
    /\ log[n].kind # "preference" =>
         /\ schema[log[n].event] # NoneYet
         /\ log[n].kind = "inbox" <=> DeliveredIn(topic, log, log[n].subscriber, log[n].topic, n)
         /\ Conforms(schema, workflow, log[n])
         /\ \A m \in DOMAIN log : log[m].kind # "preference" /\ log[m].key = log[n].key => m = n

HasNotify(r) == {"subscriber", "topic", "schema", "workflow", "log"} \subseteq DOMAIN r

\* NotifyInvariant, of the tables and the log.
LEMMA NotifyForm ==
  Notify!NotifyInvariant
    <=> /\ HasNotify(records) /\ Tables(records.topic, records.schema, records.workflow) /\ records.log \in Seq(LogEntry)
        /\ Logged(records.topic, records.schema, records.workflow, records.log)
<1>1. Notify!WorkflowsBound
        <=> /\ \A w \in Workflow : WorkflowBound(records.topic, records.schema, records.workflow[w])
            /\ \A e \in Event : \A w, x \in BoundOf(records.workflow, e) : w = x
  BY DEF Notify!WorkflowsBound, WorkflowBound, BoundOf, Notify!Bound, Notify!workflow, Notify!topic, Notify!schema, Notify!None,
         NoneYet, Notify!ValidTemplate
<1>2. \A s, t, n : Notify!Delivered(s, t, n) <=> DeliveredIn(records.topic, records.log, s, t, n)
  BY DEF Notify!Delivered, Notify!Decision, DeliveredIn, SaidOf, Notify!log, Notify!topic, Notify!Max, Max
<1>3. Notify!PreferencesHonoured
        <=> \A n \in DOMAIN records.log : records.log[n].kind # "preference" =>
              /\ records.log[n].kind = "inbox" <=> DeliveredIn(records.topic, records.log, records.log[n].subscriber, records.log[n].topic, n)
              /\ Conforms(records.schema, records.workflow, records.log[n])
              /\ \A m \in DOMAIN records.log : records.log[m].kind # "preference" /\ records.log[m].key = records.log[n].key => m = n
  BY <1>2 DEF Notify!PreferencesHonoured, Notify!Events, Conforms, BoundOf, Notify!Bound, Notify!workflow, Notify!log,
              Notify!schema, Notify!ValidPayload, Notify!ValidTemplate
<1>. QED
  BY <1>1, <1>3 DEF Notify!NotifyInvariant, HasNotify, Tables, TableTypes, Logged, LogEntry, PreferenceOf, DeliveryOf, Notify!Events,
         Notify!workflow, Notify!topic, Notify!schema, Notify!None, Notify!log, NoneYet
LEMMA NotifyFormNext ==
  Notify!NotifyInvariant'
    <=> /\ HasNotify(records') /\ Tables(records'.topic, records'.schema, records'.workflow) /\ records'.log \in Seq(LogEntry)
        /\ Logged(records'.topic, records'.schema, records'.workflow, records'.log)
<1>1. Notify!WorkflowsBound'
        <=> /\ \A w \in Workflow : WorkflowBound(records'.topic, records'.schema, records'.workflow[w])
            /\ \A e \in Event : \A w, x \in BoundOf(records'.workflow, e) : w = x
  BY DEF Notify!WorkflowsBound, WorkflowBound, BoundOf, Notify!Bound, Notify!workflow, Notify!topic, Notify!schema, Notify!None,
         NoneYet, Notify!ValidTemplate
<1>2. \A s, t, n : Notify!Delivered(s, t, n)' <=> DeliveredIn(records'.topic, records'.log, s, t, n)
  BY DEF Notify!Delivered, Notify!Decision, DeliveredIn, SaidOf, Notify!log, Notify!topic, Notify!Max, Max
<1>3. Notify!PreferencesHonoured'
        <=> \A n \in DOMAIN records'.log : records'.log[n].kind # "preference" =>
              /\ records'.log[n].kind = "inbox" <=> DeliveredIn(records'.topic, records'.log, records'.log[n].subscriber, records'.log[n].topic, n)
              /\ Conforms(records'.schema, records'.workflow, records'.log[n])
              /\ \A m \in DOMAIN records'.log : records'.log[m].kind # "preference" /\ records'.log[m].key = records'.log[n].key => m = n
  BY <1>2 DEF Notify!PreferencesHonoured, Notify!Events, Conforms, BoundOf, Notify!Bound, Notify!workflow, Notify!log,
              Notify!schema, Notify!ValidPayload, Notify!ValidTemplate
<1>. QED
  BY <1>1, <1>3 DEF Notify!NotifyInvariant, HasNotify, Tables, TableTypes, Logged, LogEntry, PreferenceOf, DeliveryOf, Notify!Events,
         Notify!workflow, Notify!topic, Notify!schema, Notify!None, Notify!log, NoneYet

LEMMA NotifyInitial == Notify!NotifyInit => Notify!NotifyInvariant
<1>. SUFFICES ASSUME Notify!NotifyInit PROVE Notify!NotifyInvariant
  OBVIOUS
<1>1. /\ HasNotify(records) /\ records.topic = [t \in Topic |-> NoneYet] /\ records.schema = [e \in Event |-> NoneYet]
      /\ DOMAIN records.workflow = Workflow
      /\ \A w \in Workflow : records.workflow[w] = [state |-> "draft", event |-> "none", topic |-> "none", variables |-> {}]
      /\ records.log = <<>>
  BY DEF Notify!NotifyInit, Notify!None, NoneYet, HasNotify
<1>2. TableTypes(records.topic, records.schema, records.workflow)
  BY <1>1 DEF TableTypes
<1>3. Tables(records.topic, records.schema, records.workflow)
  BY <1>1, <1>2 DEF Tables, WorkflowBound, BoundOf
<1>4. records.log \in Seq(LogEntry) /\ DOMAIN records.log = {}
  BY <1>1
<1>. QED BY <1>1, <1>3, <1>4, NotifyForm DEF Logged

\* The fields of what is in the log.
LEMMA LogFields ==
  ASSUME NEW log \in Seq(LogEntry), NEW n \in DOMAIN log
  PROVE  /\ n \in Nat /\ log[n] \in LogEntry /\ log[n].topic \in Topic
         /\ log[n].kind # "preference" => log[n].event \in Event /\ log[n].workflow \in Workflow
<1>1. log[n] \in LogEntry /\ n \in Nat
  BY ListType
<1>2. CASE log[n] \in PreferenceOf
  BY <1>1, <1>2 DEF PreferenceOf
<1>3. CASE log[n] \in DeliveryOf
  BY <1>1, <1>3 DEF DeliveryOf
<1>. QED BY <1>1, <1>2, <1>3 DEF LogEntry

\* What is found out about topics, schemas and workflows later leaves the log as it is.
LEMMA TablesMove ==
  ASSUME NEW topic, NEW schema, NEW workflow, NEW log \in Seq(LogEntry), Logged(topic, schema, workflow, log),
         NEW topics, NEW schemas, NEW workflows,
         \A t \in Topic : topic[t] # NoneYet => topics[t] = topic[t],
         \A e \in Event : schema[e] # NoneYet => schemas[e] = schema[e],
         \A n \in DOMAIN log : log[n].kind # "preference" =>
           /\ BoundOf(workflows, log[n].event) = BoundOf(workflow, log[n].event)
           /\ workflows[log[n].workflow] = workflow[log[n].workflow]
  PROVE  Logged(topics, schemas, workflows, log)
<1>. SUFFICES ASSUME NEW n \in DOMAIN log
     PROVE  /\ topics[log[n].topic] # NoneYet
            /\ log[n].kind # "preference" =>
                 /\ schemas[log[n].event] # NoneYet
                 /\ log[n].kind = "inbox" <=> DeliveredIn(topics, log, log[n].subscriber, log[n].topic, n)
                 /\ Conforms(schemas, workflows, log[n])
                 /\ \A m \in DOMAIN log : log[m].kind # "preference" /\ log[m].key = log[n].key => m = n
  BY DEF Logged
<1>1. topics[log[n].topic] = topic[log[n].topic] /\ topic[log[n].topic] # NoneYet
  BY LogFields DEF Logged
<1>2. CASE log[n].kind = "preference"
  BY <1>1, <1>2
<1>3. CASE log[n].kind # "preference"
  <2>1. schemas[log[n].event] = schema[log[n].event] /\ schema[log[n].event] # NoneYet
    BY <1>3, LogFields DEF Logged
  <2>2. DeliveredIn(topics, log, log[n].subscriber, log[n].topic, n) <=> DeliveredIn(topic, log, log[n].subscriber, log[n].topic, n)
    BY <1>1 DEF DeliveredIn
  <2>3. Conforms(schemas, workflows, log[n])
    <3>1. Conforms(schema, workflow, log[n])
      BY <1>3 DEF Logged
    <3>. QED BY <1>3, <2>1, <3>1 DEF Conforms
  <2>4. /\ log[n].kind = "inbox" <=> DeliveredIn(topic, log, log[n].subscriber, log[n].topic, n)
        /\ \A m \in DOMAIN log : log[m].kind # "preference" /\ log[m].key = log[n].key => m = n
    BY <1>3 DEF Logged
  <2>. QED BY <1>1, <2>1, <2>2, <2>3, <2>4
<1>. QED BY <1>2, <1>3

\* And so does what is said later.
LEMMA DeliveredBefore ==
  ASSUME NEW topic, NEW log \in Seq(LogEntry), NEW x, NEW n \in 1 .. Len(log) + 1, NEW s, NEW t
  PROVE  DeliveredIn(topic, Append(log, x), s, t, n) <=> DeliveredIn(topic, log, s, t, n)
<1>. DEFINE new == Append(log, x)
            said == SaidOf(log, s, t, n)
<1>1. /\ Len(log) \in Nat /\ DOMAIN log = 1 .. Len(log) /\ IsFiniteSet(DOMAIN log) /\ DOMAIN log \in SUBSET Nat
      /\ \A i \in DOMAIN log : new[i] = log[i]
  BY ListAppend, ListType
<1>. HIDE DEF new
<1>2. said \subseteq DOMAIN log
  BY <1>1 DEF SaidOf
<1>3. SaidOf(new, s, t, n) = said
  BY <1>1 DEF SaidOf
<1>4. said # {} => new[Max(said)].enabled = log[Max(said)].enabled
  <2>1. said # {} => Max(said) \in said
    <3>. HIDE DEF said
    <3>1. said \in SUBSET Nat /\ IsFiniteSet(said)
      BY <1>1, <1>2, FS_Subset
    <3>. QED BY <3>1, LargestExists
  <2>. QED BY <1>1, <1>2, <2>1
<1>. HIDE DEF said
<1>5. SaidOf(log, s, t, n) = said
  BY DEF said
<1>6. DeliveredIn(topic, new, s, t, n) <=> DeliveredIn(topic, log, s, t, n)
  BY <1>3, <1>4, <1>5 DEF DeliveredIn
<1>. QED BY <1>6 DEF new

LEMMA LogAppended ==
  ASSUME NEW topic, NEW schema, NEW workflow, NEW log \in Seq(LogEntry), Logged(topic, schema, workflow, log),
         NEW x \in LogEntry, topic[x.topic] # NoneYet,
         x.kind # "preference" =>
           /\ schema[x.event] # NoneYet
           /\ x.kind = "inbox" <=> DeliveredIn(topic, log, x.subscriber, x.topic, Len(log) + 1)
           /\ Conforms(schema, workflow, x)
           /\ \A m \in DOMAIN log : log[m].kind # "preference" => log[m].key # x.key
  PROVE  Append(log, x) \in Seq(LogEntry) /\ Logged(topic, schema, workflow, Append(log, x))
<1>. DEFINE new == Append(log, x)
<1>1. /\ Len(log) \in Nat /\ DOMAIN log = 1 .. Len(log) /\ DOMAIN new = DOMAIN log \cup {Len(log) + 1}
      /\ new[Len(log) + 1] = x /\ new \in Seq(LogEntry) /\ \A i \in DOMAIN log : new[i] = log[i]
  <2>1. LogEntry \cup {x} = LogEntry
    OBVIOUS
  <2>. QED BY <2>1, ListAppend, ListType
<1>2. \A n \in DOMAIN new : n \in 1 .. Len(log) + 1
  BY <1>1
<1>3. \A n \in DOMAIN new : \A s, t : DeliveredIn(topic, new, s, t, n) <=> DeliveredIn(topic, log, s, t, n)
  BY <1>2, DeliveredBefore
<1>. HIDE DEF new
<1>4. ASSUME NEW n \in DOMAIN new
      PROVE  /\ topic[new[n].topic] # NoneYet
             /\ new[n].kind # "preference" =>
                  /\ schema[new[n].event] # NoneYet
                  /\ new[n].kind = "inbox" <=> DeliveredIn(topic, new, new[n].subscriber, new[n].topic, n)
                  /\ Conforms(schema, workflow, new[n])
                  /\ \A m \in DOMAIN new : new[m].kind # "preference" /\ new[m].key = new[n].key => m = n
  <2>1. CASE n = Len(log) + 1
    <3>1. new[n] = x
      BY <1>1, <2>1
    <3>2. DeliveredIn(topic, new, x.subscriber, x.topic, n) <=> DeliveredIn(topic, log, x.subscriber, x.topic, Len(log) + 1)
      BY <1>3, <2>1
    <3>3. x.kind # "preference" => \A m \in DOMAIN new : new[m].kind # "preference" /\ new[m].key = x.key => m = n
      BY <1>1, <2>1
    <3>. QED BY <3>1, <3>2, <3>3
  <2>2. CASE n \in DOMAIN log
    <3>1. new[n] = log[n]
      BY <1>1, <2>2
    <3>2. DeliveredIn(topic, new, log[n].subscriber, log[n].topic, n) <=> DeliveredIn(topic, log, log[n].subscriber, log[n].topic, n)
      BY <1>3
    <3>3. log[n].kind # "preference" => \A m \in DOMAIN new : new[m].kind # "preference" /\ new[m].key = log[n].key => m = n
      BY <1>1, <2>2 DEF Logged
    <3>4. /\ topic[log[n].topic] # NoneYet
          /\ log[n].kind # "preference" =>
               /\ schema[log[n].event] # NoneYet
               /\ log[n].kind = "inbox" <=> DeliveredIn(topic, log, log[n].subscriber, log[n].topic, n)
               /\ Conforms(schema, workflow, log[n])
      BY <2>2 DEF Logged
    <3>. QED BY <3>1, <3>2, <3>3, <3>4
  <2>. QED BY <1>1, <2>1, <2>2
<1>5. Logged(topic, schema, workflow, new)
  BY <1>4 DEF Logged
<1>. QED BY <1>1, <1>5 DEF new

LEMMA TableSteps ==
  ASSUME Notify!NotifyInvariant,
         \/ \E s \in Subscriber : Notify!SubscriberUpsert(s)
         \/ \E t \in Topic, r, d \in BOOLEAN : Notify!TopicCreate(t, r, d)
         \/ \E e \in Event, d, m \in SUBSET Field : Notify!SchemaPublish(e, d, m)
         \/ \E w \in Workflow : \/ \E e \in Event, t \in Topic, v \in SUBSET Field : Notify!WorkflowConfigure(w, e, t, v)
                                \/ Notify!WorkflowPublish(w)
  PROVE  Notify!NotifyInvariant'
<1>. DEFINE topic == records.topic
            schema == records.schema
            workflow == records.workflow
            log == records.log
<1>1. HasNotify(records) /\ Tables(topic, schema, workflow) /\ log \in Seq(LogEntry) /\ Logged(topic, schema, workflow, log)
  BY NotifyForm
<1>t. /\ TableTypes(topic, schema, workflow) /\ \A w \in Workflow : WorkflowBound(topic, schema, workflow[w])
      /\ \A e \in Event : \A w, x \in BoundOf(workflow, e) : w = x
  BY <1>1 DEF Tables
<1>2. ASSUME NEW s \in Subscriber, Notify!SubscriberUpsert(s) PROVE Notify!NotifyInvariant'
  <2>1. /\ HasNotify(records') /\ records'.topic = topic /\ records'.schema = schema /\ records'.workflow = workflow
        /\ records'.log = log
    BY <1>1, <1>2 DEF Notify!SubscriberUpsert, HasNotify
  <2>. QED BY <1>1, <2>1, NotifyFormNext
<1>3. ASSUME NEW t \in Topic, NEW r \in BOOLEAN, NEW d \in BOOLEAN, Notify!TopicCreate(t, r, d) PROVE Notify!NotifyInvariant'
  <2>. DEFINE x == [state |-> "active", required |-> r, enabled |-> d]
              topics == [topic EXCEPT ![t] = x]
  <2>1. /\ HasNotify(records') /\ records'.topic = topics /\ records'.schema = schema /\ records'.workflow = workflow
        /\ records'.log = log /\ topic[t] = NoneYet
    BY <1>1, <1>3 DEF Notify!TopicCreate, HasNotify, Notify!topic, Notify!None, NoneYet
  <2>2. x # NoneYet /\ x.required \in BOOLEAN /\ x.enabled \in BOOLEAN
    <3>1. x.state # NoneYet.state
      BY DEF NoneYet
    <3>. QED BY <3>1
  <2>. HIDE DEF x
  <2>3. DOMAIN topics = Topic /\ topics[t] = x /\ \A s \in Topic : s # t => topics[s] = topic[s]
    BY <1>t DEF TableTypes
  <2>. HIDE DEF topics
  <2>4. TableTypes(topics, schema, workflow)
    BY <1>t, <2>2, <2>3 DEF TableTypes
  <2>5. \A w \in Workflow : WorkflowBound(topics, schema, workflow[w])
    BY <1>t, <2>2, <2>3 DEF WorkflowBound
  <2>6. Tables(topics, schema, workflow)
    BY <1>t, <2>4, <2>5 DEF Tables
  <2>7. Logged(topics, schema, workflow, log)
    BY <1>1, <2>1, <2>3, TablesMove
  <2>. QED BY <1>1, <2>1, <2>6, <2>7, NotifyFormNext
<1>4. ASSUME NEW e \in Event, NEW d \in SUBSET Field, NEW m \in SUBSET Field, Notify!SchemaPublish(e, d, m)
      PROVE  Notify!NotifyInvariant'
  <2>. DEFINE x == [state |-> "published", declared |-> d, required |-> m]
              schemas == [schema EXCEPT ![e] = x]
  <2>1. /\ HasNotify(records') /\ records'.topic = topic /\ records'.schema = schemas /\ records'.workflow = workflow
        /\ records'.log = log /\ schema[e] = NoneYet
    BY <1>1, <1>4 DEF Notify!SchemaPublish, HasNotify, Notify!schema, Notify!None, NoneYet
  <2>2. x # NoneYet
    <3>1. x.state # NoneYet.state
      BY DEF NoneYet
    <3>. QED BY <3>1
  <2>. HIDE DEF x
  <2>3. DOMAIN schemas = Event /\ schemas[e] = x /\ \A f \in Event : f # e => schemas[f] = schema[f]
    BY <1>t DEF TableTypes
  <2>. HIDE DEF schemas
  <2>4. TableTypes(topic, schemas, workflow)
    BY <1>t, <2>3 DEF TableTypes
  <2>5. \A w \in Workflow : WorkflowBound(topic, schemas, workflow[w])
    BY <1>t, <2>1, <2>2, <2>3 DEF WorkflowBound
  <2>6. Tables(topic, schemas, workflow)
    BY <1>t, <2>4, <2>5 DEF Tables
  <2>7. Logged(topic, schemas, workflow, log)
    BY <1>1, <2>1, <2>3, TablesMove
  <2>. QED BY <1>1, <2>1, <2>6, <2>7, NotifyFormNext
\* A workflow that is not published serves nothing yet.
<1>5. ASSUME NEW w \in Workflow, workflow[w].state = "draft", NEW workflows, DOMAIN workflows = Workflow,
             {"state", "event", "topic", "variables"} \subseteq DOMAIN workflows[w],
             \A x \in Workflow : x # w => workflows[x] = workflow[x],
             WorkflowBound(topic, schema, workflows[w]),
             workflows[w].state = "published" => BoundOf(workflow, workflows[w].event) = {}
      PROVE  Tables(topic, schema, workflows) /\ Logged(topic, schema, workflows, log)
  <2>1. TableTypes(topic, schema, workflows) /\ \A x \in Workflow : WorkflowBound(topic, schema, workflows[x])
    BY <1>t, <1>5 DEF TableTypes
  <2>2. ASSUME NEW e \in Event
        PROVE  \/ BoundOf(workflows, e) = BoundOf(workflow, e)
               \/ BoundOf(workflow, e) = {} /\ BoundOf(workflows, e) = {w}
    <3>1. CASE workflows[w].state = "published" /\ workflows[w].event = e
      BY <1>5, <3>1 DEF BoundOf
    <3>2. CASE ~(workflows[w].state = "published" /\ workflows[w].event = e)
      BY <1>5, <3>2 DEF BoundOf
    <3>. QED BY <3>1, <3>2
  <2>3. \A e \in Event : \A x, y \in BoundOf(workflows, e) : x = y
    BY <1>t, <2>2
  <2>4. ASSUME NEW n \in DOMAIN log, log[n].kind # "preference"
        PROVE  /\ BoundOf(workflows, log[n].event) = BoundOf(workflow, log[n].event)
               /\ workflows[log[n].workflow] = workflow[log[n].workflow]
    <3>1. log[n].event \in Event /\ BoundOf(workflow, log[n].event) = {log[n].workflow}
      BY <1>1, <2>4, LogFields DEF Logged, Conforms
    <3>2. log[n].workflow \in Workflow /\ log[n].workflow # w
      BY <1>5, <3>1 DEF BoundOf
    <3>. QED BY <1>5, <2>2, <3>1, <3>2
  <2>5. Logged(topic, schema, workflows, log)
    BY <1>1, <2>4, TablesMove
  <2>. QED BY <2>1, <2>3, <2>5 DEF Tables
<1>6. ASSUME NEW w \in Workflow, NEW e \in Event, NEW t \in Topic, NEW v \in SUBSET Field, Notify!WorkflowConfigure(w, e, t, v)
      PROVE  Notify!NotifyInvariant'
  <2>. DEFINE x == [workflow[w] EXCEPT !.event = e, !.topic = t, !.variables = v]
              workflows == [workflow EXCEPT ![w] = x]
  <2>1. /\ HasNotify(records') /\ records'.topic = topic /\ records'.schema = schema /\ records'.workflow = workflows
        /\ records'.log = log
    BY <1>1, <1>6 DEF Notify!WorkflowConfigure, HasNotify
  <2>2. /\ workflow[w].state = "draft" /\ schema[e] # NoneYet /\ topic[t] # NoneYet /\ v \subseteq schema[e].declared
    BY <1>6 DEF Notify!WorkflowConfigure, Notify!workflow, Notify!schema, Notify!topic, Notify!None, NoneYet, Notify!ValidTemplate
  <2>3. /\ x.state = "draft" /\ x.event = e /\ x.topic = t /\ x.variables = v
        /\ {"state", "event", "topic", "variables"} \subseteq DOMAIN x
    BY <1>t, <2>2 DEF TableTypes
  <2>. HIDE DEF x
  <2>4. DOMAIN workflows = Workflow /\ workflows[w] = x /\ \A y \in Workflow : y # w => workflows[y] = workflow[y]
    BY <1>t DEF TableTypes
  <2>. HIDE DEF workflows
  <2>5. WorkflowBound(topic, schema, x)
    BY <2>2, <2>3 DEF WorkflowBound
  <2>6. Tables(topic, schema, workflows) /\ Logged(topic, schema, workflows, log)
    BY <1>5, <2>2, <2>3, <2>4, <2>5
  <2>. QED BY <1>1, <2>1, <2>6, NotifyFormNext
<1>7. ASSUME NEW w \in Workflow, Notify!WorkflowPublish(w) PROVE Notify!NotifyInvariant'
  <2>. DEFINE x == [workflow[w] EXCEPT !.state = "published"]
              workflows == [workflow EXCEPT ![w] = x]
  <2>1. /\ HasNotify(records') /\ records'.topic = topic /\ records'.schema = schema /\ records'.workflow = workflows
        /\ records'.log = log
    BY <1>1, <1>7 DEF Notify!WorkflowPublish, HasNotify
  <2>2. workflow[w].state = "draft" /\ workflow[w].event # "none" /\ BoundOf(workflow, workflow[w].event) = {}
    BY <1>7 DEF Notify!WorkflowPublish, Notify!workflow, Notify!Bound, BoundOf
  <2>3. /\ x.state = "published" /\ x.event = workflow[w].event /\ x.topic = workflow[w].topic
        /\ x.variables = workflow[w].variables /\ {"state", "event", "topic", "variables"} \subseteq DOMAIN x
    BY <1>t DEF TableTypes
  <2>. HIDE DEF x
  <2>4. DOMAIN workflows = Workflow /\ workflows[w] = x /\ \A y \in Workflow : y # w => workflows[y] = workflow[y]
    BY <1>t DEF TableTypes
  <2>. HIDE DEF workflows
  <2>5. WorkflowBound(topic, schema, x)
    BY <1>t, <2>2, <2>3 DEF WorkflowBound
  <2>6. Tables(topic, schema, workflows) /\ Logged(topic, schema, workflows, log)
    BY <1>5, <2>2, <2>3, <2>4, <2>5
  <2>. QED BY <1>1, <2>1, <2>6, NotifyFormNext
<1>. QED BY <1>2, <1>3, <1>4, <1>6, <1>7

LEMMA LogSteps ==
  ASSUME Notify!NotifyInvariant,
         \E s \in Subscriber : \/ \E t \in Topic, d \in BOOLEAN : Notify!PreferenceSet(s, t, d)
                               \/ \E e \in Event, p \in SUBSET Field, k \in Key : Notify!EventEmit(e, s, p, k)
  PROVE  Notify!NotifyInvariant'
<1>. DEFINE topic == records.topic
            schema == records.schema
            workflow == records.workflow
            log == records.log
<1>1. HasNotify(records) /\ Tables(topic, schema, workflow) /\ log \in Seq(LogEntry) /\ Logged(topic, schema, workflow, log)
  BY NotifyForm
<1>2. ASSUME NEW x \in LogEntry, records' = [records EXCEPT !.log = Append(@, x)],
             Append(log, x) \in Seq(LogEntry) /\ Logged(topic, schema, workflow, Append(log, x))
      PROVE  Notify!NotifyInvariant'
  <2>1. /\ HasNotify(records') /\ records'.topic = topic /\ records'.schema = schema /\ records'.workflow = workflow
        /\ records'.log = Append(log, x)
    BY <1>1, <1>2 DEF HasNotify
  <2>. QED BY <1>1, <1>2, <2>1, NotifyFormNext
<1>3. ASSUME NEW s \in Subscriber, NEW t \in Topic, NEW d \in BOOLEAN, Notify!PreferenceSet(s, t, d) PROVE Notify!NotifyInvariant'
  <2>. DEFINE x == [kind |-> "preference", subscriber |-> s, topic |-> t, enabled |-> d]
  <2>1. records' = [records EXCEPT !.log = Append(@, x)] /\ topic[t] # NoneYet
    BY <1>3 DEF Notify!PreferenceSet, Notify!topic, Notify!None, NoneYet
  <2>2. x \in LogEntry /\ x.topic = t /\ x.kind = "preference"
    BY DEF LogEntry, PreferenceOf
  <2>. HIDE DEF x
  <2>3. Append(log, x) \in Seq(LogEntry) /\ Logged(topic, schema, workflow, Append(log, x))
    BY <1>1, <2>1, <2>2, LogAppended
  <2>. QED BY <1>2, <2>1, <2>2, <2>3
<1>4. ASSUME NEW s \in Subscriber, NEW e \in Event, NEW p \in SUBSET Field, NEW k \in Key, Notify!EventEmit(e, s, p, k)
      PROVE  Notify!NotifyInvariant'
  <2>1. PICK w \in Notify!Bound(e) : records' = [records EXCEPT !.log =
          Append(@, [kind |-> IF Notify!Delivered(s, Notify!workflow[w].topic, Len(Notify!log) + 1) THEN "inbox" ELSE "suppressed",
                     subscriber |-> s, topic |-> Notify!workflow[w].topic, event |-> e, workflow |-> w, payload |-> p, key |-> k])]
    BY <1>4 DEF Notify!EventEmit
  <2>. DEFINE t == workflow[w].topic
              x == [kind |-> IF DeliveredIn(topic, log, s, t, Len(log) + 1) THEN "inbox" ELSE "suppressed",
                    subscriber |-> s, topic |-> t, event |-> e, workflow |-> w, payload |-> p, key |-> k]
  <2>2. records' = [records EXCEPT !.log = Append(@, x)]
    <3>1. Notify!Delivered(s, t, Len(log) + 1) <=> DeliveredIn(topic, log, s, t, Len(log) + 1)
      BY DEF Notify!Delivered, Notify!Decision, DeliveredIn, SaidOf, Notify!log, Notify!topic, Notify!Max, Max
    <3>2. Notify!workflow[w].topic = t /\ Notify!log = log
      BY DEF Notify!workflow, Notify!log
    <3>. QED BY <2>1, <3>1, <3>2
  <2>3. /\ schema[e] # NoneYet /\ schema[e].required \subseteq p /\ p \subseteq schema[e].declared
        /\ \A n \in DOMAIN log : log[n].kind # "preference" => log[n].key # k
    BY <1>4 DEF Notify!EventEmit, Notify!schema, Notify!log, Notify!None, NoneYet, Notify!ValidPayload
  <2>4. w \in Workflow /\ w \in BoundOf(workflow, e) /\ workflow[w].state = "published" /\ workflow[w].event = e
    BY DEF Notify!Bound, BoundOf, Notify!workflow
  <2>5. t \in Topic /\ topic[t] # NoneYet /\ workflow[w].variables \subseteq schema[e].declared
    BY <1>1, <2>4 DEF Tables, WorkflowBound
  <2>6. BoundOf(workflow, e) = {w}
    BY <1>1, <2>4 DEF Tables
  <2>. HIDE DEF t
  <2>7. /\ x.kind # "preference"
        /\ x.kind = "inbox" <=> DeliveredIn(topic, log, x.subscriber, x.topic, Len(log) + 1)
        /\ x.subscriber = s /\ x.topic = t /\ x.event = e /\ x.workflow = w /\ x.payload = p /\ x.key = k
    OBVIOUS
  <2>8. x \in LogEntry
    BY <2>4, <2>5 DEF LogEntry, DeliveryOf
  <2>. HIDE DEF x
  <2>9. Conforms(schema, workflow, x)
    BY <2>3, <2>5, <2>6, <2>7 DEF Conforms, t
  <2>10. Append(log, x) \in Seq(LogEntry) /\ Logged(topic, schema, workflow, Append(log, x))
    BY <1>1, <2>3, <2>5, <2>7, <2>8, <2>9, LogAppended
  <2>. QED BY <1>2, <2>2, <2>8, <2>10
<1>. QED BY <1>3, <1>4

LEMMA NotifyStep ==
  ASSUME Notify!NotifyInvariant, Notify!NotifyNext
  PROVE  Notify!NotifyInvariant'
BY TableSteps, LogSteps DEF Notify!NotifyNext

LEMMA NotifyKept ==
  ASSUME Notify!NotifyInvariant
  PROVE  Notify!PreferencesHonoured
BY DEF Notify!NotifyInvariant

-----------------------------------------------------------------------------
(* live: who was let in, what was said before them, who consented.         *)

Everybody == Presenter \cup Attendee \cup {Creator}
GrantOf == [of : Presenter, expires : Nat]
AccessOf == [of : Attendee, kind : Kind, expires : Nat]
ConsentOf == [of : Everybody, granted : BOOLEAN, at : Nat]
MessageOf == [of : Attendee, state : {"visible", "hidden"}, version : Nat, present : SUBSET Everybody]
PromptOf(D) == [by : D, closes : Nat, present : SUBSET Everybody]
ResponseOf(P, A) == [prompt : P, access : A, at : Nat]

LiveLists(grant, access, consent, message, prompt, response) ==
  /\ grant \in Seq(GrantOf) /\ access \in Seq(AccessOf) /\ consent \in Seq(ConsentOf) /\ message \in Seq(MessageOf)
  /\ prompt \in Seq(PromptOf(DOMAIN grant)) /\ response \in Seq(ResponseOf(DOMAIN prompt, DOMAIN access))

LetIn(grant, access) == {Creator} \cup {grant[g].of : g \in DOMAIN grant} \cup {access[a].of : a \in DOMAIN access}
Answers(session, access, prompt, x) ==
  LET u == access[x.access].of IN
  u \in Presenter \/ session.visibility # "private" \/ u \in prompt[x.prompt].present
Admitted(session, grant, access, message, prompt, response) ==
  /\ session.participants = LetIn(grant, access)
  /\ \A m \in DOMAIN message : message[m].of \in session.participants /\ message[m].present \subseteq session.participants
  /\ \A p \in DOMAIN prompt : prompt[p].present \subseteq session.participants
  /\ \A r \in DOMAIN response : Answers(session, access, prompt, response[r])

SaidBy(consent, n, who) == {c \in 1 .. n : consent[c].of = who}
Recorded(session, consent) ==
  /\ session.snapshot \in Nat /\ session.snapshot <= Len(consent)
  /\ ConsentRequired /\ session.state # "scheduled" =>
       \A who \in session.recorded : \E c \in SaidBy(consent, session.snapshot, who) :
         consent[c].granted /\ \A d \in SaidBy(consent, session.snapshot, who) : consent[d].at <= consent[c].at

HasLive(r) ==
  /\ {"now", "session", "grant", "access", "consent", "message", "prompt", "response"} \subseteq DOMAIN r
  /\ {"state", "version", "recorded", "snapshot", "visibility", "participants"} \subseteq DOMAIN r.session /\ r.now \in Nat

\* LiveInvariant, of its lists.
LEMMA LiveForm ==
  LiveAssurance!LiveInvariant
    <=> /\ HasLive(records)
        /\ LiveLists(records.grant, records.access, records.consent, records.message, records.prompt, records.response)
        /\ Admitted(records.session, records.grant, records.access, records.message, records.prompt, records.response)
        /\ Recorded(records.session, records.consent)
BY DEF LiveAssurance!LiveInvariant, LiveAssurance!SessionNamesAdmitted, LiveAssurance!RecordedAsSnapshot, LiveAssurance!Snapshot,
       LiveAssurance!ReadsPrompt, LiveAssurance!Shared, LiveAssurance!now, LiveAssurance!session, LiveAssurance!grant,
       LiveAssurance!access, LiveAssurance!consent, LiveAssurance!message, LiveAssurance!prompt, LiveAssurance!response,
       HasLive, LiveLists, Admitted, LetIn, Answers, Recorded, SaidBy, Everybody, GrantOf, AccessOf, ConsentOf, MessageOf, PromptOf, ResponseOf
LEMMA LiveFormNext ==
  LiveAssurance!LiveInvariant'
    <=> /\ HasLive(records')
        /\ LiveLists(records'.grant, records'.access, records'.consent, records'.message, records'.prompt, records'.response)
        /\ Admitted(records'.session, records'.grant, records'.access, records'.message, records'.prompt, records'.response)
        /\ Recorded(records'.session, records'.consent)
BY DEF LiveAssurance!LiveInvariant, LiveAssurance!SessionNamesAdmitted, LiveAssurance!RecordedAsSnapshot, LiveAssurance!Snapshot,
       LiveAssurance!ReadsPrompt, LiveAssurance!Shared, LiveAssurance!now, LiveAssurance!session, LiveAssurance!grant,
       LiveAssurance!access, LiveAssurance!consent, LiveAssurance!message, LiveAssurance!prompt, LiveAssurance!response,
       HasLive, LiveLists, Admitted, LetIn, Answers, Recorded, SaidBy, Everybody, GrantOf, AccessOf, ConsentOf, MessageOf, PromptOf, ResponseOf

LEMMA LiveInitial == LiveAssurance!LiveInit => LiveAssurance!LiveInvariant
<1>. SUFFICES ASSUME NEW v \in Visibility,
        records = [now |-> 0, session |-> [state |-> "scheduled", version |-> 1, recorded |-> {}, snapshot |-> 0,
                                           visibility |-> v, participants |-> {Creator}],
                   grant |-> <<>>, access |-> <<>>, consent |-> <<>>, message |-> <<>>, prompt |-> <<>>, response |-> <<>>]
     PROVE  LiveAssurance!LiveInvariant
  BY DEF LiveAssurance!LiveInit
<1>1. /\ HasLive(records) /\ records.session.participants = {Creator} /\ records.session.state = "scheduled"
      /\ records.session.snapshot = 0 /\ records.grant = <<>> /\ records.access = <<>> /\ records.consent = <<>>
      /\ records.message = <<>> /\ records.prompt = <<>> /\ records.response = <<>>
  BY DEF HasLive
<1>2. LiveLists(records.grant, records.access, records.consent, records.message, records.prompt, records.response)
  BY <1>1 DEF LiveLists
<1>3. Admitted(records.session, records.grant, records.access, records.message, records.prompt, records.response)
  BY <1>1 DEF Admitted, LetIn
<1>4. Recorded(records.session, records.consent)
  BY <1>1 DEF Recorded
<1>. QED BY <1>1, <1>2, <1>3, <1>4, LiveForm

\* Grants, accesses and prompts are only added to.
LEMMA LiveRetype ==
  ASSUME NEW D, NEW E, D \subseteq E, NEW A, NEW B, A \subseteq B
  PROVE  /\ \A s \in Seq(PromptOf(D)) : s \in Seq(PromptOf(E))
         /\ \A s \in Seq(ResponseOf(D, A)) : s \in Seq(ResponseOf(E, B))
<1>1. ASSUME NEW T, NEW U, T \subseteq U, NEW s \in Seq(T) PROVE s \in Seq(U)
  <2>1. s \in [DOMAIN s -> U]
    BY <1>1, ListType
  <2>. QED BY <2>1, ListRetype
<1>2. PromptOf(D) \subseteq PromptOf(E)
  BY DEF PromptOf
<1>3. ResponseOf(D, A) \subseteq ResponseOf(E, B)
  BY DEF ResponseOf
<1>. QED BY <1>1, <1>2, <1>3

\* The tokens: more are let in.
LEMMA TokenSteps ==
  ASSUME LiveAssurance!LiveInvariant,
         \E t \in 1 .. LiveHorizon : \/ \E p \in Presenter : LiveAssurance!IssuePresenterGrant(p, t)
                                     \/ \E a \in Attendee, k \in Kind : LiveAssurance!IssueAttendeeAccess(a, k, t)
  PROVE  LiveAssurance!LiveInvariant'
<1>. DEFINE session == records.session
            grant == records.grant
            access == records.access
            consent == records.consent
            message == records.message
            prompt == records.prompt
            response == records.response
<1>1. /\ HasLive(records) /\ LiveLists(grant, access, consent, message, prompt, response)
      /\ Admitted(session, grant, access, message, prompt, response) /\ Recorded(session, consent)
  BY LiveForm
<1>t. /\ grant \in Seq(GrantOf) /\ access \in Seq(AccessOf) /\ prompt \in Seq(PromptOf(DOMAIN grant))
      /\ response \in Seq(ResponseOf(DOMAIN prompt, DOMAIN access))
      /\ \A r \in DOMAIN response : response[r] \in ResponseOf(DOMAIN prompt, DOMAIN access)
  BY <1>1, ListType DEF LiveLists
\* Somebody is let in.
<1>2. ASSUME NEW who, NEW grants, NEW accesses,
             LiveLists(grants, accesses, consent, message, prompt, response),
             LetIn(grants, accesses) = LetIn(grant, access) \cup {who},
             \A a \in DOMAIN access : accesses[a].of = access[a].of,
             HasLive(records'), records'.session = [session EXCEPT !.participants = @ \cup {who}], records'.grant = grants,
             records'.access = accesses, records'.consent = consent, records'.message = message, records'.prompt = prompt,
             records'.response = response
      PROVE  LiveAssurance!LiveInvariant'
  <2>. DEFINE new == [session EXCEPT !.participants = @ \cup {who}]
  <2>1. /\ new.participants = session.participants \cup {who} /\ new.visibility = session.visibility
        /\ new.state = session.state /\ new.recorded = session.recorded /\ new.snapshot = session.snapshot
    BY <1>1 DEF HasLive
  <2>. HIDE DEF new
  <2>2. Recorded(new, consent)
    BY <1>1, <2>1 DEF Recorded
  <2>3. \A r \in DOMAIN response : response[r].access \in DOMAIN access
    BY <1>t DEF ResponseOf
  <2>4. \A r \in DOMAIN response : Answers(new, accesses, prompt, response[r])
    BY <1>1, <1>2, <2>1, <2>3 DEF Admitted, Answers
  <2>5. Admitted(new, grants, accesses, message, prompt, response)
    BY <1>1, <1>2, <2>1, <2>4 DEF Admitted
  <2>6. records'.session = new
    BY <1>2 DEF new
  <2>. QED BY <1>2, <2>2, <2>5, <2>6, LiveFormNext
<1>3. ASSUME NEW t \in 1 .. LiveHorizon, NEW p \in Presenter, LiveAssurance!IssuePresenterGrant(p, t)
      PROVE  LiveAssurance!LiveInvariant'
  <2>. DEFINE x == [of |-> p, expires |-> t]
              new == Append(grant, x)
  <2>1. /\ HasLive(records') /\ records'.session = [session EXCEPT !.participants = @ \cup {p}] /\ records'.grant = new
        /\ records'.access = access /\ records'.consent = consent /\ records'.message = message /\ records'.prompt = prompt
        /\ records'.response = response
    BY <1>1, <1>3 DEF LiveAssurance!IssuePresenterGrant, HasLive
  <2>2. x \in GrantOf /\ x.of = p
    BY AgreementAssumption DEF GrantOf
  <2>. HIDE DEF x
  <2>3. /\ new \in Seq(GrantOf) /\ DOMAIN new = DOMAIN grant \cup {Len(grant) + 1} /\ new[Len(grant) + 1] = x
        /\ \A g \in DOMAIN grant : new[g] = grant[g]
    BY <1>t, <2>2, ListContinued DEF Continues
  <2>. HIDE DEF new
  <2>4. prompt \in Seq(PromptOf(DOMAIN new))
    BY <1>t, <2>3, LiveRetype
  <2>5. LiveLists(new, access, consent, message, prompt, response)
    BY <1>1, <2>3, <2>4 DEF LiveLists
  <2>6. LetIn(new, access) = LetIn(grant, access) \cup {p}
    BY <2>2, <2>3 DEF LetIn
  <2>. QED BY <1>2, <2>1, <2>5, <2>6
<1>4. ASSUME NEW t \in 1 .. LiveHorizon, NEW a \in Attendee, NEW k \in Kind, LiveAssurance!IssueAttendeeAccess(a, k, t)
      PROVE  LiveAssurance!LiveInvariant'
  <2>. DEFINE x == [of |-> a, kind |-> k, expires |-> t]
              new == Append(access, x)
  <2>1. /\ HasLive(records') /\ records'.session = [session EXCEPT !.participants = @ \cup {a}] /\ records'.grant = grant
        /\ records'.access = new /\ records'.consent = consent /\ records'.message = message /\ records'.prompt = prompt
        /\ records'.response = response
    BY <1>1, <1>4 DEF LiveAssurance!IssueAttendeeAccess, HasLive
  <2>2. x \in AccessOf /\ x.of = a
    BY AgreementAssumption DEF AccessOf
  <2>. HIDE DEF x
  <2>3. /\ new \in Seq(AccessOf) /\ DOMAIN new = DOMAIN access \cup {Len(access) + 1} /\ new[Len(access) + 1] = x
        /\ \A b \in DOMAIN access : new[b] = access[b]
    BY <1>t, <2>2, ListContinued DEF Continues
  <2>. HIDE DEF new
  <2>4. response \in Seq(ResponseOf(DOMAIN prompt, DOMAIN new))
    BY <1>t, <2>3, LiveRetype
  <2>5. LiveLists(grant, new, consent, message, prompt, response)
    BY <1>1, <2>3, <2>4 DEF LiveLists
  <2>6. LetIn(grant, new) = LetIn(grant, access) \cup {a}
    BY <2>2, <2>3 DEF LetIn
  <2>7. \A b \in DOMAIN access : new[b].of = access[b].of
    BY <2>3
  <2>. QED BY <1>2, <2>1, <2>5, <2>6, <2>7
<1>. QED BY <1>3, <1>4

\* The broadcast and the consents it is bound to.
LEMMA BroadcastSteps ==
  ASSUME LiveAssurance!LiveInvariant,
         \/ LiveAssurance!Tick
         \/ \E who \in Everybody, given \in BOOLEAN, t \in 0 .. LiveHorizon : LiveAssurance!RecordMediaConsent(who, given, t)
         \/ \E g \in DOMAIN LiveAssurance!grant, by \in Presenter, v \in 1 .. MaxLiveVersion :
              \/ LiveAssurance!StartBroadcast(g, by, v) \/ LiveAssurance!UpdateBroadcast(g, by, v)
              \/ LiveAssurance!EndBroadcast(g, by, v)
  PROVE  LiveAssurance!LiveInvariant'
<1>. DEFINE session == records.session
            grant == records.grant
            access == records.access
            consent == records.consent
            message == records.message
            prompt == records.prompt
            response == records.response
            Lists(r) == /\ r.grant = grant /\ r.access = access /\ r.message = message /\ r.prompt = prompt /\ r.response = response
<1>1. /\ HasLive(records) /\ LiveLists(grant, access, consent, message, prompt, response)
      /\ Admitted(session, grant, access, message, prompt, response) /\ Recorded(session, consent)
  BY LiveForm
<1>t. consent \in Seq(ConsentOf) /\ Len(consent) \in Nat /\ DOMAIN consent = 1 .. Len(consent)
  BY <1>1, ListType DEF LiveLists
<1>2. ASSUME HasLive(records'), Lists(records'), records'.consent = consent, Recorded(records'.session, consent),
             records'.session.participants = session.participants, records'.session.visibility = session.visibility
      PROVE  LiveAssurance!LiveInvariant'
  <2>1. Admitted(records'.session, grant, access, message, prompt, response)
    BY <1>1, <1>2 DEF Admitted, Answers
  <2>. QED BY <1>1, <1>2, <2>1, LiveFormNext
<1>3. CASE LiveAssurance!Tick
  <2>1. /\ HasLive(records') /\ Lists(records') /\ records'.consent = consent /\ records'.session = session
    BY <1>1, <1>3 DEF LiveAssurance!Tick, LiveAssurance!now, HasLive
  <2>. QED BY <1>1, <1>2, <2>1
<1>4. ASSUME NEW who \in Everybody, NEW given \in BOOLEAN, NEW t \in 0 .. LiveHorizon, LiveAssurance!RecordMediaConsent(who, given, t)
      PROVE  LiveAssurance!LiveInvariant'
  <2>. DEFINE x == [of |-> who, granted |-> given, at |-> t]
              new == Append(consent, x)
  <2>1. HasLive(records') /\ Lists(records') /\ records'.session = session /\ records'.consent = new
    BY <1>1, <1>4 DEF LiveAssurance!RecordMediaConsent, HasLive
  <2>2. x \in ConsentOf
    BY AgreementAssumption DEF ConsentOf
  <2>. HIDE DEF x
  <2>3. /\ new \in Seq(ConsentOf) /\ DOMAIN new = DOMAIN consent \cup {Len(consent) + 1}
        /\ \A c \in DOMAIN consent : new[c] = consent[c]
    BY <1>t, <2>2, ListContinued DEF Continues
  <2>4. Len(new) = Len(consent) + 1
    BY <1>t, <2>2
  <2>. HIDE DEF new
  <2>5. LiveLists(grant, access, new, message, prompt, response)
    BY <1>1, <2>3 DEF LiveLists
  <2>6. Recorded(session, new)
    <3>1. session.snapshot \in Nat /\ session.snapshot <= Len(consent)
      BY <1>1 DEF Recorded
    <3>2. \A u : SaidBy(new, session.snapshot, u) = SaidBy(consent, session.snapshot, u)
      BY <1>t, <2>3, <3>1 DEF SaidBy
    <3>3. \A u : \A c \in SaidBy(consent, session.snapshot, u) : new[c] = consent[c]
      BY <1>t, <2>3, <3>1 DEF SaidBy
    <3>4. session.snapshot <= Len(new)
      BY <1>t, <2>4, <3>1
    <3>. QED BY <1>1, <3>1, <3>2, <3>3, <3>4 DEF Recorded
  <2>. QED BY <1>1, <2>1, <2>5, <2>6, LiveFormNext
<1>5. ASSUME NEW g \in DOMAIN grant, NEW by \in Presenter, NEW v \in 1 .. MaxLiveVersion, LiveAssurance!StartBroadcast(g, by, v)
      PROVE  LiveAssurance!LiveInvariant'
  <2>. DEFINE new == records'.session
  <2>1. /\ HasLive(records') /\ Lists(records') /\ records'.consent = consent
        /\ new.participants = session.participants /\ new.visibility = session.visibility
        /\ new.recorded = LiveAssurance!Active /\ new.snapshot = Len(consent)
    BY <1>1, <1>5 DEF LiveAssurance!StartBroadcast, HasLive, LiveAssurance!session, LiveAssurance!consent
  <2>. HIDE DEF new
  <2>2. ConsentRequired => LiveAssurance!Active \subseteq LiveAssurance!Consenting
    BY <1>5 DEF LiveAssurance!StartBroadcast
  <2>3. ASSUME NEW who \in LiveAssurance!Consenting
        PROVE  \E c \in SaidBy(consent, Len(consent), who) :
                 consent[c].granted /\ \A d \in SaidBy(consent, Len(consent), who) : consent[d].at <= consent[c].at
    BY <1>t DEF LiveAssurance!Consenting, LiveAssurance!Latest, LiveAssurance!consent, SaidBy
  <2>4. Recorded(new, consent)
    <3>1. new.snapshot \in Nat /\ new.snapshot <= Len(consent)
      BY <1>t, <2>1
    <3>2. ASSUME ConsentRequired, NEW who \in new.recorded
          PROVE  \E c \in SaidBy(consent, new.snapshot, who) :
                   consent[c].granted /\ \A d \in SaidBy(consent, new.snapshot, who) : consent[d].at <= consent[c].at
      <4>1. who \in LiveAssurance!Consenting
        BY <2>1, <2>2, <3>2
      <4>2. \E c \in SaidBy(consent, Len(consent), who) :
              consent[c].granted /\ \A d \in SaidBy(consent, Len(consent), who) : consent[d].at <= consent[c].at
        BY <2>3, <4>1
      <4>3. new.snapshot = Len(consent)
        BY <2>1
      <4>. QED BY <4>2, <4>3
    <3>. QED BY <3>1, <3>2 DEF Recorded
  <2>. QED BY <1>2, <2>1, <2>4 DEF new
<1>6. ASSUME NEW g \in DOMAIN grant, NEW by \in Presenter, NEW v \in 1 .. MaxLiveVersion,
             LiveAssurance!UpdateBroadcast(g, by, v) \/ LiveAssurance!EndBroadcast(g, by, v)
      PROVE  LiveAssurance!LiveInvariant'
  <2>. DEFINE new == records'.session
  <2>1. /\ HasLive(records') /\ Lists(records') /\ records'.consent = consent
        /\ new.participants = session.participants /\ new.visibility = session.visibility
        /\ new.recorded = session.recorded /\ new.snapshot = session.snapshot /\ session.state = "live"
    <3>1. CASE LiveAssurance!UpdateBroadcast(g, by, v)
      BY <1>1, <3>1 DEF LiveAssurance!UpdateBroadcast, HasLive, LiveAssurance!session
    <3>2. CASE LiveAssurance!EndBroadcast(g, by, v)
      BY <1>1, <3>2 DEF LiveAssurance!EndBroadcast, HasLive, LiveAssurance!session
    <3>. QED BY <1>6, <3>1, <3>2
  <2>. HIDE DEF new
  <2>2. Recorded(new, consent)
    BY <1>1, <2>1 DEF Recorded
  <2>. QED BY <1>2, <2>1, <2>2 DEF new
<1>. QED BY <1>3, <1>4, <1>5, <1>6 DEF LiveAssurance!grant

\* What is said in it.
LEMMA RoomSteps ==
  ASSUME LiveAssurance!LiveInvariant,
         \/ \E g \in DOMAIN LiveAssurance!grant, by \in Presenter :
              \/ \E m \in DOMAIN LiveAssurance!message, s \in {"visible", "hidden"}, v \in 1 .. MaxLiveVersion :
                   LiveAssurance!ModerateChat(m, g, by, s, v)
              \/ \E t \in 0 .. LiveHorizon : LiveAssurance!OpenPrompt(g, by, t)
         \/ \E a \in DOMAIN LiveAssurance!access, by \in Attendee :
              LiveAssurance!SendChat(a, by) \/ \E p \in DOMAIN LiveAssurance!prompt : LiveAssurance!SubmitResponse(p, a, by)
  PROVE  LiveAssurance!LiveInvariant'
<1>. DEFINE session == records.session
            grant == records.grant
            access == records.access
            consent == records.consent
            message == records.message
            prompt == records.prompt
            response == records.response
            Others(r) == /\ r.session = session /\ r.grant = grant /\ r.access = access /\ r.consent = consent
<1>1. /\ HasLive(records) /\ LiveLists(grant, access, consent, message, prompt, response)
      /\ Admitted(session, grant, access, message, prompt, response) /\ Recorded(session, consent)
  BY LiveForm
<1>t. /\ grant \in Seq(GrantOf) /\ access \in Seq(AccessOf) /\ message \in Seq(MessageOf) /\ prompt \in Seq(PromptOf(DOMAIN grant))
      /\ response \in Seq(ResponseOf(DOMAIN prompt, DOMAIN access))
      /\ \A r \in DOMAIN response : response[r] \in ResponseOf(DOMAIN prompt, DOMAIN access)
      /\ \A g \in DOMAIN grant : grant[g] \in GrantOf
      /\ \A a \in DOMAIN access : access[a] \in AccessOf
      /\ \A m \in DOMAIN message : message[m] \in MessageOf
  BY <1>1, ListType DEF LiveLists
<1>p. session.participants \subseteq Everybody
  BY <1>1, <1>t DEF Admitted, LetIn, Everybody, GrantOf, AccessOf
<1>2. ASSUME NEW g \in DOMAIN grant, NEW by \in Presenter, NEW m \in DOMAIN message, NEW s \in {"visible", "hidden"},
             NEW v \in 1 .. MaxLiveVersion, LiveAssurance!ModerateChat(m, g, by, s, v)
      PROVE  LiveAssurance!LiveInvariant'
  <2>. DEFINE x == [message[m] EXCEPT !.state = s, !.version = v + 1]
              new == [message EXCEPT ![m] = x]
  <2>1. /\ HasLive(records') /\ Others(records') /\ records'.message = new /\ records'.prompt = prompt /\ records'.response = response
    BY <1>1, <1>2 DEF LiveAssurance!ModerateChat, HasLive
  <2>a. v + 1 \in Nat
    OBVIOUS
  <2>2. x \in MessageOf /\ x.of = message[m].of /\ x.present = message[m].present
    BY <1>t, <2>a DEF MessageOf
  <2>. HIDE DEF x
  <2>3. /\ new \in Seq(MessageOf) /\ DOMAIN new = DOMAIN message /\ new[m] = x
        /\ \A n \in DOMAIN message : n # m => new[n] = message[n]
    BY <1>t, <2>2, OneChangedBy, ListChange
  <2>. HIDE DEF new
  <2>4. LiveLists(grant, access, consent, new, prompt, response)
    BY <1>1, <2>3 DEF LiveLists
  <2>5. Admitted(session, grant, access, new, prompt, response)
    BY <1>1, <2>2, <2>3 DEF Admitted
  <2>. QED BY <1>1, <2>1, <2>4, <2>5, LiveFormNext
<1>3. ASSUME NEW g \in DOMAIN grant, NEW by \in Presenter, NEW t \in 0 .. LiveHorizon, LiveAssurance!OpenPrompt(g, by, t)
      PROVE  LiveAssurance!LiveInvariant'
  <2>. DEFINE x == [by |-> g, closes |-> t, present |-> session.participants]
              new == Append(prompt, x)
  <2>1. /\ HasLive(records') /\ Others(records') /\ records'.message = message /\ records'.prompt = new /\ records'.response = response
    BY <1>1, <1>3 DEF LiveAssurance!OpenPrompt, HasLive, LiveAssurance!Present, LiveAssurance!session
  <2>2. x \in PromptOf(DOMAIN grant) /\ x.present = session.participants
    BY <1>p, AgreementAssumption DEF PromptOf
  <2>. HIDE DEF x
  <2>3. /\ new \in Seq(PromptOf(DOMAIN grant)) /\ DOMAIN new = DOMAIN prompt \cup {Len(prompt) + 1} /\ new[Len(prompt) + 1] = x
        /\ \A p \in DOMAIN prompt : new[p] = prompt[p]
    BY <1>t, <2>2, ListContinued DEF Continues
  <2>. HIDE DEF new
  <2>4. response \in Seq(ResponseOf(DOMAIN new, DOMAIN access))
    BY <1>t, <2>3, LiveRetype
  <2>5. LiveLists(grant, access, consent, message, new, response)
    BY <1>1, <2>3, <2>4 DEF LiveLists
  <2>6. \A r \in DOMAIN response : response[r].prompt \in DOMAIN prompt
    BY <1>t DEF ResponseOf
  <2>7. Admitted(session, grant, access, message, new, response)
    BY <1>1, <2>2, <2>3, <2>6 DEF Admitted, Answers
  <2>. QED BY <1>1, <2>1, <2>5, <2>7, LiveFormNext
<1>4. ASSUME NEW a \in DOMAIN access, NEW by \in Attendee, LiveAssurance!SendChat(a, by) PROVE LiveAssurance!LiveInvariant'
  <2>. DEFINE x == [of |-> by, state |-> "visible", version |-> 1, present |-> session.participants]
              new == Append(message, x)
  <2>1. /\ HasLive(records') /\ Others(records') /\ records'.message = new /\ records'.prompt = prompt /\ records'.response = response
    BY <1>1, <1>4 DEF LiveAssurance!SendChat, HasLive, LiveAssurance!Present, LiveAssurance!session
  <2>2. access[a].of = by
    BY <1>4 DEF LiveAssurance!SendChat, LiveAssurance!May, LiveAssurance!access
  <2>3. by \in session.participants
    BY <1>1, <2>2 DEF Admitted, LetIn
  <2>4. x \in MessageOf /\ x.of = by /\ x.present = session.participants
    BY <1>p DEF MessageOf
  <2>. HIDE DEF x
  <2>5. /\ new \in Seq(MessageOf) /\ DOMAIN new = DOMAIN message \cup {Len(message) + 1} /\ new[Len(message) + 1] = x
        /\ \A m \in DOMAIN message : new[m] = message[m]
    BY <1>t, <2>4, ListContinued DEF Continues
  <2>. HIDE DEF new
  <2>6. LiveLists(grant, access, consent, new, prompt, response)
    BY <1>1, <2>5 DEF LiveLists
  <2>7. Admitted(session, grant, access, new, prompt, response)
    BY <1>1, <2>3, <2>4, <2>5 DEF Admitted
  <2>. QED BY <1>1, <2>1, <2>6, <2>7, LiveFormNext
<1>5. ASSUME NEW a \in DOMAIN access, NEW by \in Attendee, NEW p \in DOMAIN prompt, LiveAssurance!SubmitResponse(p, a, by)
      PROVE  LiveAssurance!LiveInvariant'
  <2>. DEFINE x == [prompt |-> p, access |-> a, at |-> records.now]
              new == Append(response, x)
  <2>1. /\ HasLive(records') /\ Others(records') /\ records'.message = message /\ records'.prompt = prompt /\ records'.response = new
    BY <1>1, <1>5 DEF LiveAssurance!SubmitResponse, HasLive, LiveAssurance!now
  <2>2. access[a].of = by /\ (by \in Presenter \/ session.visibility # "private" \/ by \in prompt[p].present)
    BY <1>5 DEF LiveAssurance!SubmitResponse, LiveAssurance!May, LiveAssurance!access, LiveAssurance!ReadsPrompt,
                LiveAssurance!Shared, LiveAssurance!session, LiveAssurance!prompt
  <2>3. x \in ResponseOf(DOMAIN prompt, DOMAIN access) /\ x.prompt = p /\ x.access = a
    BY <1>1 DEF ResponseOf, HasLive
  <2>. HIDE DEF x
  <2>4. /\ new \in Seq(ResponseOf(DOMAIN prompt, DOMAIN access)) /\ DOMAIN new = DOMAIN response \cup {Len(response) + 1}
        /\ new[Len(response) + 1] = x /\ \A r \in DOMAIN response : new[r] = response[r]
    BY <1>t, <2>3, ListContinued DEF Continues
  <2>. HIDE DEF new
  <2>5. LiveLists(grant, access, consent, message, prompt, new)
    BY <1>1, <2>4 DEF LiveLists
  <2>6. Answers(session, access, prompt, x)
    BY <2>2, <2>3 DEF Answers
  <2>7. Admitted(session, grant, access, message, prompt, new)
    BY <1>1, <2>4, <2>6 DEF Admitted
  <2>. QED BY <1>1, <2>1, <2>5, <2>7, LiveFormNext
<1>. QED BY <1>2, <1>3, <1>4, <1>5 DEF LiveAssurance!grant, LiveAssurance!message, LiveAssurance!access, LiveAssurance!prompt

LEMMA LiveStep ==
  ASSUME LiveAssurance!LiveInvariant, LiveAssurance!LiveNext
  PROVE  LiveAssurance!LiveInvariant'
BY TokenSteps, BroadcastSteps, RoomSteps DEF LiveAssurance!LiveNext, Everybody

LEMMA LiveKept ==
  ASSUME LiveAssurance!LiveInvariant
  PROVE  LiveAssurance!RecordedWithConsent
<1>. DEFINE session == records.session
            grant == records.grant
            access == records.access
            message == records.message
            prompt == records.prompt
            response == records.response
<1>1. /\ LiveLists(grant, access, records.consent, message, prompt, response)
      /\ Admitted(session, grant, access, message, prompt, response) /\ Recorded(session, records.consent)
  BY LiveForm
<1>2. ASSUME ~LiveAssurance!Shared, NEW u \in Everybody
      PROVE  /\ LiveAssurance!ReadsSession(u) <=>
                  (u \in Presenter \cup {Creator} \/ \E a \in DOMAIN LiveAssurance!access : LiveAssurance!access[a].of = u)
             /\ \/ \E m \in DOMAIN LiveAssurance!message : LiveAssurance!ReadsMessage(u, m)
                \/ \E p \in DOMAIN LiveAssurance!prompt : LiveAssurance!ReadsPrompt(u, p)
                => LiveAssurance!ReadsSession(u)
             /\ \A r \in DOMAIN LiveAssurance!response :
                  LiveAssurance!access[LiveAssurance!response[r].access].of = u => LiveAssurance!ReadsPrompt(u, LiveAssurance!response[r].prompt)
  <2>1. \A r \in DOMAIN response : access[response[r].access].of = u => LiveAssurance!ReadsPrompt(u, response[r].prompt)
    BY <1>1 DEF Admitted, Answers, LiveAssurance!ReadsPrompt, LiveAssurance!Shared, LiveAssurance!session, LiveAssurance!prompt
  <2>2. CASE u \in Presenter
    <3>1. LiveAssurance!ReadsSession(u)
      BY <2>2 DEF LiveAssurance!ReadsSession
    <3>. QED BY <2>1, <2>2, <3>1 DEF LiveAssurance!access, LiveAssurance!response
  <2>3. CASE u \notin Presenter
    <3>1. \A g \in DOMAIN grant : grant[g].of # u
      <4>1. \A g \in DOMAIN grant : grant[g] \in GrantOf
        BY <1>1, ListType DEF LiveLists
      <4>. QED BY <2>3, <4>1 DEF GrantOf
    <3>2. session.visibility = "private"
      BY <1>2 DEF LiveAssurance!Shared, LiveAssurance!session
    <3>3. LiveAssurance!ReadsSession(u) <=> u \in session.participants
      BY <1>2, <2>3 DEF LiveAssurance!ReadsSession, LiveAssurance!Present, LiveAssurance!session
    <3>4. u \in session.participants <=> (u = Creator \/ \E a \in DOMAIN access : access[a].of = u)
      BY <1>1, <3>1 DEF Admitted, LetIn
    <3>5. ASSUME NEW m \in DOMAIN message, LiveAssurance!ReadsMessage(u, m) PROVE u \in session.participants
      <4>1. u \in {message[m].of, Creator} \/ u \in message[m].present
        BY <1>2, <2>3, <3>5 DEF LiveAssurance!ReadsMessage, LiveAssurance!message
      <4>. QED BY <1>1, <3>4, <4>1 DEF Admitted
    <3>6. ASSUME NEW p \in DOMAIN prompt, LiveAssurance!ReadsPrompt(u, p) PROVE u \in session.participants
      BY <1>1, <1>2, <2>3, <3>6 DEF LiveAssurance!ReadsPrompt, LiveAssurance!prompt, Admitted
    <3>. QED BY <2>1, <2>3, <3>3, <3>4, <3>5, <3>6
             DEF LiveAssurance!access, LiveAssurance!message, LiveAssurance!prompt, LiveAssurance!response
  <2>. QED BY <2>2, <2>3
<1>3. LiveAssurance!RecordedAsSnapshot
  BY DEF LiveAssurance!LiveInvariant
<1>. QED BY <1>2, <1>3 DEF LiveAssurance!RecordedWithConsent, LiveAssurance!RecordedAsSnapshot, Everybody

-----------------------------------------------------------------------------
(* testimonials: requests and submissions, publications, widgets.          *)

RequestOf == [state : {"draft", "consumed"}, expires : Expiry]
SourceOf(D) == ({"reference"} \X Reference) \cup ({"request"} \X D)
TestimonialOf(D) ==
  [source : SourceOf(D), request : D \cup {0},
   state : {"pending-review", "reviewed", "redacted", "rejected", "published", "revoked"}, consent : {"granted", "revoked"}]
PublicationOf(D) == [testimonial : D, state : {"draft", "published", "revoked"}]
WidgetOf(D) == [key : WidgetKey, publications : SUBSET D, state : {"draft", "published", "superseded", "revoked-content"}]

Submitted(request, testimonial) ==
  /\ request \in Seq(RequestOf) /\ testimonial \in Seq(TestimonialOf(DOMAIN request))
  /\ \A t \in DOMAIN testimonial : /\ testimonial[t].state = "revoked" <=> testimonial[t].consent = "revoked"
                                   /\ testimonial[t].request # 0 => request[testimonial[t].request].state = "consumed"
  /\ \A q \in DOMAIN request, t, u \in DOMAIN testimonial :
       testimonial[t].request = q /\ testimonial[u].request = q => t = u /\ request[q].state = "consumed"
  /\ \A t, u \in DOMAIN testimonial :
       testimonial[t].source = testimonial[u].source /\ t # u => "revoked" \in {testimonial[t].state, testimonial[u].state}

Accepts(testimonial, publication) ==
  /\ publication \in Seq(PublicationOf(DOMAIN testimonial))
  /\ \A p \in DOMAIN publication :
       /\ testimonial[publication[p].testimonial].state # "pending-review"
       /\ publication[p].state = "published" => testimonial[publication[p].testimonial].state = "published"

Widgets(publication, widget) ==
  /\ widget \in Seq(WidgetOf(DOMAIN publication))
  /\ \A w \in DOMAIN widget : widget[w].state = "published" =>
       /\ \A p \in widget[w].publications : publication[p].state = "published"
       /\ \A v \in DOMAIN widget : widget[v].state = "published" /\ widget[v].key = widget[w].key => v = w

HasTestimonials(r) == {"now", "request", "testimonial", "publication", "widget"} \subseteq DOMAIN r

\* What a widget shows is of a testimonial that is published and consented.
LEMMA ShownOf ==
  ASSUME NEW request, NEW testimonial, NEW publication, NEW widget,
         Submitted(request, testimonial), Accepts(testimonial, publication), Widgets(publication, widget),
         NEW w \in DOMAIN widget, widget[w].state = "published", NEW p \in widget[w].publications
  PROVE  /\ publication[p].state = "published" /\ testimonial[publication[p].testimonial].state = "published"
         /\ testimonial[publication[p].testimonial].consent = "granted"
<1>1. widget[w] \in WidgetOf(DOMAIN publication)
  BY ListType DEF Widgets
<1>2. p \in DOMAIN publication /\ publication[p].state = "published"
  BY <1>1 DEF Widgets, WidgetOf
<1>3. publication[p] \in PublicationOf(DOMAIN testimonial)
  BY <1>2, ListType DEF Accepts
<1>4. /\ publication[p].testimonial \in DOMAIN testimonial
      /\ testimonial[publication[p].testimonial].state = "published"
  BY <1>2, <1>3 DEF Accepts, PublicationOf
<1>5. testimonial[publication[p].testimonial] \in TestimonialOf(DOMAIN request)
  BY <1>4, ListType DEF Submitted
<1>. QED BY <1>2, <1>4, <1>5 DEF Submitted, TestimonialOf

\* TestimonialsInvariant, of its lists.
LEMMA TestimonialsForm ==
  Growth!TestimonialsInvariant
    <=> /\ HasTestimonials(records) /\ Submitted(records.request, records.testimonial)
        /\ Accepts(records.testimonial, records.publication) /\ Widgets(records.publication, records.widget)
<1>1. ASSUME Submitted(records.request, records.testimonial), Accepts(records.testimonial, records.publication),
             Widgets(records.publication, records.widget)
      PROVE  \A w \in DOMAIN records.widget : records.widget[w].state = "published" =>
               \A p \in records.widget[w].publications :
                 /\ records.publication[p].state = "published"
                 /\ records.testimonial[records.publication[p].testimonial].state = "published"
                 /\ records.testimonial[records.publication[p].testimonial].consent = "granted"
  BY <1>1, ShownOf
<1>. QED
  BY <1>1 DEF Growth!TestimonialsInvariant, Growth!ShownIsConsented, Growth!Served, Growth!Consented, Growth!request, Growth!testimonial,
         Growth!publication, Growth!widget, Growth!None, HasTestimonials, Submitted, Accepts, Widgets, RequestOf, TestimonialOf,
         PublicationOf, WidgetOf, SourceOf
LEMMA TestimonialsFormNext ==
  Growth!TestimonialsInvariant'
    <=> /\ HasTestimonials(records') /\ Submitted(records'.request, records'.testimonial)
        /\ Accepts(records'.testimonial, records'.publication) /\ Widgets(records'.publication, records'.widget)
<1>1. ASSUME Submitted(records'.request, records'.testimonial), Accepts(records'.testimonial, records'.publication),
             Widgets(records'.publication, records'.widget)
      PROVE  \A w \in DOMAIN records'.widget : records'.widget[w].state = "published" =>
               \A p \in records'.widget[w].publications :
                 /\ records'.publication[p].state = "published"
                 /\ records'.testimonial[records'.publication[p].testimonial].state = "published"
                 /\ records'.testimonial[records'.publication[p].testimonial].consent = "granted"
  BY <1>1, ShownOf
<1>. QED
  BY <1>1 DEF Growth!TestimonialsInvariant, Growth!ShownIsConsented, Growth!Served, Growth!Consented, Growth!request, Growth!testimonial,
         Growth!publication, Growth!widget, Growth!None, HasTestimonials, Submitted, Accepts, Widgets, RequestOf, TestimonialOf,
         PublicationOf, WidgetOf, SourceOf

LEMMA TestimonialsInitial == Growth!TestimonialsInit => Growth!TestimonialsInvariant
<1>. SUFFICES ASSUME Growth!TestimonialsInit PROVE Growth!TestimonialsInvariant
  OBVIOUS
<1>1. /\ HasTestimonials(records) /\ records.request = <<>> /\ records.testimonial = <<>> /\ records.publication = <<>>
      /\ records.widget = <<>>
  BY DEF Growth!TestimonialsInit, HasTestimonials
<1>2. Submitted(records.request, records.testimonial)
  BY <1>1 DEF Submitted
<1>3. Accepts(records.testimonial, records.publication) /\ Widgets(records.publication, records.widget)
  BY <1>1 DEF Accepts, Widgets
<1>. QED BY <1>1, <1>2, <1>3, TestimonialsForm

\* What the lists are of may grow.
LEMMA TestimonialsRetype ==
  ASSUME NEW D, NEW E, D \subseteq E
  PROVE  /\ \A s \in Seq(TestimonialOf(D)) : s \in Seq(TestimonialOf(E))
         /\ \A s \in Seq(PublicationOf(D)) : s \in Seq(PublicationOf(E))
         /\ \A s \in Seq(WidgetOf(D)) : s \in Seq(WidgetOf(E))
<1>1. ASSUME NEW T, NEW U, T \subseteq U, NEW s \in Seq(T) PROVE s \in Seq(U)
  <2>1. s \in [DOMAIN s -> U]
    BY <1>1, ListType
  <2>. QED BY <2>1, ListRetype
<1>2. TestimonialOf(D) \subseteq TestimonialOf(E)
  BY DEF TestimonialOf, SourceOf
<1>3. PublicationOf(D) \subseteq PublicationOf(E)
  BY DEF PublicationOf
<1>4. WidgetOf(D) \subseteq WidgetOf(E)
  BY DEF WidgetOf
<1>. QED BY <1>1, <1>2, <1>3, <1>4

\* A submission, of a request that was open or of none.
LEMMA SubmissionAdded ==
  ASSUME NEW request, NEW testimonial, Submitted(request, testimonial),
         NEW q \in DOMAIN request \cup {0}, NEW source \in SourceOf(DOMAIN request),
         \A t \in DOMAIN testimonial : testimonial[t].source = source => testimonial[t].state = "revoked",
         q # 0 => request[q].state = "draft",
         NEW x, x = [source |-> source, request |-> q, state |-> "pending-review", consent |-> "granted"],
         NEW requests, requests = IF q = 0 THEN request ELSE [request EXCEPT ![q].state = "consumed"]
  PROVE  Submitted(requests, Append(testimonial, x))
<1>. DEFINE new == Append(testimonial, x)
<1>1. x \in TestimonialOf(DOMAIN request) /\ x.request = q /\ x.source = source /\ x.state = "pending-review" /\ x.consent = "granted"
  BY DEF TestimonialOf
<1>2. /\ request \in Seq(RequestOf) /\ testimonial \in Seq(TestimonialOf(DOMAIN request)) /\ 0 \notin DOMAIN request
      /\ \A p \in DOMAIN request : request[p] \in RequestOf
      /\ \A t \in DOMAIN testimonial : testimonial[t] \in TestimonialOf(DOMAIN request)
  BY ListType DEF Submitted
<1>3. /\ new \in Seq(TestimonialOf(DOMAIN request)) /\ DOMAIN new = DOMAIN testimonial \cup {Len(testimonial) + 1}
      /\ new[Len(testimonial) + 1] = x /\ \A t \in DOMAIN testimonial : new[t] = testimonial[t]
  BY <1>1, <1>2, ListContinued DEF Continues
<1>4. /\ requests \in Seq(RequestOf) /\ DOMAIN requests = DOMAIN request
      /\ \A p \in DOMAIN request : requests[p].state = IF p = q THEN "consumed" ELSE request[p].state
  <2>1. CASE q = 0
    BY <1>2, <2>1
  <2>2. CASE q # 0
    <3>. DEFINE v == [request[q] EXCEPT !.state = "consumed"]
    <3>1. q \in DOMAIN request /\ requests = [request EXCEPT ![q] = v]
      BY <2>2
    <3>2. v \in RequestOf /\ v.state = "consumed"
      BY <1>2, <3>1 DEF RequestOf
    <3>. HIDE DEF v
    <3>3. requests \in Seq(RequestOf)
      BY <1>2, <3>1, <3>2, OneChangedBy, ListChange
    <3>. QED BY <3>1, <3>2, <3>3
  <2>. QED BY <2>1, <2>2
<1>. HIDE DEF new
<1>5. ASSUME NEW t \in DOMAIN testimonial PROVE testimonial[t].request # q \/ q = 0
  BY <1>2 DEF Submitted
<1>6. ASSUME NEW t \in DOMAIN new
      PROVE  /\ new[t].state = "revoked" <=> new[t].consent = "revoked"
             /\ new[t].request # 0 => requests[new[t].request].state = "consumed"
  <2>1. CASE t = Len(testimonial) + 1
    BY <1>1, <1>3, <1>4, <2>1
  <2>2. CASE t \in DOMAIN testimonial
    <3>1. new[t] = testimonial[t] /\ testimonial[t] \in TestimonialOf(DOMAIN request)
      BY <1>2, <1>3, <2>2
    <3>2. testimonial[t].request # 0 => testimonial[t].request \in DOMAIN request /\ request[testimonial[t].request].state = "consumed"
      BY <2>2, <3>1 DEF Submitted, TestimonialOf
    <3>. QED BY <1>4, <2>2, <3>1, <3>2 DEF Submitted
  <2>. QED BY <1>3, <2>1, <2>2
<1>7. ASSUME NEW p \in DOMAIN requests, NEW t \in DOMAIN new, NEW u \in DOMAIN new, new[t].request = p, new[u].request = p
      PROVE  t = u /\ requests[p].state = "consumed"
  <2>1. requests[p].state = "consumed"
    BY <1>2, <1>4, <1>6, <1>7
  <2>2. t = u
    BY <1>1, <1>2, <1>3, <1>4, <1>5, <1>7 DEF Submitted
  <2>. QED BY <2>1, <2>2
<1>8. ASSUME NEW t \in DOMAIN new, NEW u \in DOMAIN new, new[t].source = new[u].source, t # u
      PROVE  "revoked" \in {new[t].state, new[u].state}
  BY <1>1, <1>3, <1>8 DEF Submitted
<1>9. Submitted(requests, new)
  BY <1>3, <1>4, <1>6, <1>7, <1>8 DEF Submitted
<1>. QED BY <1>9 DEF new

\* A testimonial that stays consented or is revoked altogether.
LEMMA TestimonialMoves ==
  ASSUME NEW request, NEW testimonial, Submitted(request, testimonial),
         NEW t \in DOMAIN testimonial, NEW v \in TestimonialOf(DOMAIN request), NEW new, OneChanged(new, testimonial, t, v),
         v.source = testimonial[t].source, v.request = testimonial[t].request,
         v.state = "revoked" <=> v.consent = "revoked", testimonial[t].state = "revoked" => v.state = "revoked"
  PROVE  Submitted(request, new) /\ DOMAIN new = DOMAIN testimonial
         /\ new[t] = v /\ \A u \in DOMAIN testimonial : u # t => new[u] = testimonial[u]
<1>1. /\ new \in Seq(TestimonialOf(DOMAIN request)) /\ DOMAIN new = DOMAIN testimonial /\ new[t] = v
      /\ \A u \in DOMAIN testimonial : u # t => new[u] = testimonial[u]
  BY ListChange DEF Submitted
<1>2. \A u \in DOMAIN testimonial : new[u].source = testimonial[u].source /\ new[u].request = testimonial[u].request
                                   /\ (testimonial[u].state = "revoked" => new[u].state = "revoked")
  BY <1>1
<1>3. ASSUME NEW u \in DOMAIN new
      PROVE  /\ new[u].state = "revoked" <=> new[u].consent = "revoked"
             /\ new[u].request # 0 => request[new[u].request].state = "consumed"
  BY <1>1, <1>2 DEF Submitted
<1>4. ASSUME NEW q \in DOMAIN request, NEW u \in DOMAIN new, NEW w \in DOMAIN new, new[u].request = q, new[w].request = q
      PROVE  u = w /\ request[q].state = "consumed"
  BY <1>1, <1>2, <1>4 DEF Submitted
<1>5. ASSUME NEW u \in DOMAIN new, NEW w \in DOMAIN new, new[u].source = new[w].source, u # w
      PROVE  "revoked" \in {new[u].state, new[w].state}
  BY <1>1, <1>2, <1>5 DEF Submitted
<1>6. request \in Seq(RequestOf)
  BY DEF Submitted
<1>7. Submitted(request, new)
  BY <1>1, <1>3, <1>4, <1>5, <1>6 DEF Submitted
<1>. QED BY <1>1, <1>7

\* Requests, submissions and decisions.
LEMMA SubmissionSteps ==
  ASSUME Growth!TestimonialsInvariant,
         \/ Growth!Tick
         \/ \E x \in Expiry : Growth!RequestDraft(x)
         \/ \E s \in {"reference"} \X Reference, q \in DOMAIN Growth!request \cup {0} : Growth!SubmissionRecord(s, q)
         \/ \E q \in DOMAIN Growth!request : Growth!SubmitTestimonial(q)
         \/ \E t \in DOMAIN Growth!testimonial, s \in {"reviewed", "redacted", "rejected"} : Growth!ModerationDecide(t, s)
  PROVE  Growth!TestimonialsInvariant'
<1>. DEFINE request == records.request
            testimonial == records.testimonial
            publication == records.publication
            widget == records.widget
<1>1. HasTestimonials(records) /\ Submitted(request, testimonial) /\ Accepts(testimonial, publication) /\ Widgets(publication, widget)
  BY TestimonialsForm
<1>t. /\ request \in Seq(RequestOf) /\ testimonial \in Seq(TestimonialOf(DOMAIN request))
      /\ publication \in Seq(PublicationOf(DOMAIN testimonial))
      /\ \A t \in DOMAIN testimonial : testimonial[t] \in TestimonialOf(DOMAIN request)
      /\ \A p \in DOMAIN publication : publication[p] \in PublicationOf(DOMAIN testimonial)
  BY <1>1, ListType DEF Submitted, Accepts
<1>2. CASE Growth!Tick
  <2>1. /\ HasTestimonials(records') /\ records'.request = request /\ records'.testimonial = testimonial
        /\ records'.publication = publication /\ records'.widget = widget
    BY <1>1, <1>2 DEF Growth!Tick, HasTestimonials
  <2>. QED BY <1>1, <2>1, TestimonialsFormNext
<1>3. ASSUME NEW e \in Expiry, Growth!RequestDraft(e) PROVE Growth!TestimonialsInvariant'
  <2>. DEFINE x == [state |-> "draft", expires |-> e]
              new == Append(request, x)
  <2>1. /\ HasTestimonials(records') /\ records'.request = new /\ records'.testimonial = testimonial
        /\ records'.publication = publication /\ records'.widget = widget
    BY <1>1, <1>3 DEF Growth!RequestDraft, HasTestimonials
  <2>2. x \in RequestOf
    BY DEF RequestOf
  <2>. HIDE DEF x
  <2>3. /\ new \in Seq(RequestOf) /\ DOMAIN request \subseteq DOMAIN new /\ 0 \notin DOMAIN request
        /\ \A q \in DOMAIN request : new[q] = request[q]
    BY <1>t, <2>2, ListContinued, ListType DEF Continues
  <2>. HIDE DEF new
  <2>4. testimonial \in Seq(TestimonialOf(DOMAIN new))
    BY <1>t, <2>3, TestimonialsRetype
  <2>5. \A t \in DOMAIN testimonial : testimonial[t].request = 0 \/ testimonial[t].request \in DOMAIN request
    BY <1>t DEF TestimonialOf
  <2>6. 0 \notin DOMAIN new
    BY <2>3, ListType
  <2>7. Submitted(new, testimonial)
    BY <1>1, <2>3, <2>4, <2>5, <2>6 DEF Submitted
  <2>. QED BY <1>1, <2>1, <2>7, TestimonialsFormNext
<1>4. ASSUME NEW q \in DOMAIN request \cup {0}, NEW source \in SourceOf(DOMAIN request), Growth!SubmissionRecord(source, q)
      PROVE  Growth!TestimonialsInvariant'
  <2>. DEFINE x == [source |-> source, request |-> q, state |-> "pending-review", consent |-> "granted"]
              new == Append(testimonial, x)
              requests == IF q = 0 THEN request ELSE [request EXCEPT ![q].state = "consumed"]
  <2>1. /\ HasTestimonials(records') /\ records'.request = requests /\ records'.testimonial = new
        /\ records'.publication = publication /\ records'.widget = widget
    BY <1>1, <1>4 DEF Growth!SubmissionRecord, HasTestimonials, Growth!None
  <2>2. /\ \A t \in DOMAIN testimonial : testimonial[t].source = source => testimonial[t].state = "revoked"
        /\ q # 0 => request[q].state = "draft"
    BY <1>4 DEF Growth!SubmissionRecord, Growth!Open, Growth!testimonial, Growth!request, Growth!None
  <2>3. Submitted(requests, new)
    <3>. HIDE DEF x
    <3>1. requests = IF q = 0 THEN request ELSE [request EXCEPT ![q].state = "consumed"]
      OBVIOUS
    <3>2. x = [source |-> source, request |-> q, state |-> "pending-review", consent |-> "granted"]
      BY DEF x
    <3>. HIDE DEF requests
    <3>. QED BY <1>1, <2>2, <3>1, <3>2, SubmissionAdded
  <2>4. x \in TestimonialOf(DOMAIN request)
    BY DEF TestimonialOf
  <2>. HIDE DEF x, requests
  <2>5. DOMAIN testimonial \subseteq DOMAIN new /\ \A t \in DOMAIN testimonial : new[t] = testimonial[t]
    BY <1>t, <2>4, ListContinued DEF Continues
  <2>. HIDE DEF new
  <2>6. publication \in Seq(PublicationOf(DOMAIN new))
    BY <1>t, <2>5, TestimonialsRetype
  <2>7. Accepts(new, publication)
    BY <1>1, <1>t, <2>5, <2>6 DEF Accepts, PublicationOf
  <2>. QED BY <1>1, <2>1, <2>3, <2>7, TestimonialsFormNext
<1>5. ASSUME NEW t \in DOMAIN testimonial, NEW s \in {"reviewed", "redacted", "rejected"}, Growth!ModerationDecide(t, s)
      PROVE  Growth!TestimonialsInvariant'
  <2>. DEFINE v == [testimonial[t] EXCEPT !.state = s]
              new == [testimonial EXCEPT ![t] = v]
  <2>1. /\ HasTestimonials(records') /\ records'.request = request /\ records'.testimonial = new
        /\ records'.publication = publication /\ records'.widget = widget
    BY <1>1, <1>5 DEF Growth!ModerationDecide, HasTestimonials
  <2>2. testimonial[t].state = "pending-review" /\ testimonial[t].consent = "granted"
    BY <1>5 DEF Growth!ModerationDecide, Growth!testimonial
  <2>3. /\ v \in TestimonialOf(DOMAIN request) /\ v.source = testimonial[t].source /\ v.request = testimonial[t].request
        /\ v.state = s /\ v.consent = "granted"
    BY <1>t, <2>2 DEF TestimonialOf
  <2>. HIDE DEF v
  <2>4. /\ Submitted(request, new) /\ DOMAIN new = DOMAIN testimonial /\ new[t] = v
        /\ \A u \in DOMAIN testimonial : u # t => new[u] = testimonial[u]
    BY <1>1, <2>2, <2>3, OneChangedBy, TestimonialMoves
  <2>. HIDE DEF new
  <2>5. \A p \in DOMAIN publication : publication[p].testimonial \in DOMAIN testimonial /\ publication[p].testimonial # t
    BY <1>1, <1>t, <2>2 DEF Accepts, PublicationOf
  <2>6. Accepts(new, publication)
    BY <1>1, <2>4, <2>5 DEF Accepts
  <2>. QED BY <1>1, <2>1, <2>4, <2>6, TestimonialsFormNext
<1>6. ASSUME NEW q \in DOMAIN request, Growth!SubmitTestimonial(q) PROVE Growth!TestimonialsInvariant'
  <2>1. Growth!SubmissionRecord(<<"request", q>>, q) /\ <<"request", q>> \in SourceOf(DOMAIN request)
    BY <1>6 DEF Growth!SubmitTestimonial, SourceOf
  <2>. QED BY <1>4, <2>1
<1>7. ASSUME NEW s \in {"reference"} \X Reference, NEW q \in DOMAIN request \cup {0}, Growth!SubmissionRecord(s, q)
      PROVE  Growth!TestimonialsInvariant'
  <2>1. s \in SourceOf(DOMAIN request)
    BY DEF SourceOf
  <2>. QED BY <1>4, <1>7, <2>1
<1>. QED BY <1>2, <1>3, <1>5, <1>6, <1>7 DEF Growth!request, Growth!testimonial

\* Publications and widgets, and the end of a consent.
LEMMA PublicationSteps ==
  ASSUME Growth!TestimonialsInvariant,
         \/ \E t \in DOMAIN Growth!testimonial : Growth!PublicationVersionCreate(t) \/ Growth!ConsentRevoke(t)
         \/ \E p \in DOMAIN Growth!publication : Growth!PublicationPublish(p)
         \/ \E k \in WidgetKey, P \in SUBSET DOMAIN Growth!publication : Growth!WidgetVersionCreate(k, P)
         \/ \E w \in DOMAIN Growth!widget : Growth!WidgetPublish(w)
  PROVE  Growth!TestimonialsInvariant'
<1>. DEFINE request == records.request
            testimonial == records.testimonial
            publication == records.publication
            widget == records.widget
<1>1. HasTestimonials(records) /\ Submitted(request, testimonial) /\ Accepts(testimonial, publication) /\ Widgets(publication, widget)
  BY TestimonialsForm
<1>t. /\ request \in Seq(RequestOf) /\ testimonial \in Seq(TestimonialOf(DOMAIN request))
      /\ publication \in Seq(PublicationOf(DOMAIN testimonial)) /\ widget \in Seq(WidgetOf(DOMAIN publication))
      /\ \A t \in DOMAIN testimonial : testimonial[t] \in TestimonialOf(DOMAIN request)
      /\ \A p \in DOMAIN publication : publication[p] \in PublicationOf(DOMAIN testimonial)
      /\ \A w \in DOMAIN widget : widget[w] \in WidgetOf(DOMAIN publication)
  BY <1>1, ListType DEF Submitted, Accepts, Widgets
<1>2. ASSUME NEW t \in DOMAIN testimonial, Growth!PublicationVersionCreate(t) PROVE Growth!TestimonialsInvariant'
  <2>. DEFINE x == [testimonial |-> t, state |-> "draft"]
              new == Append(publication, x)
  <2>1. /\ HasTestimonials(records') /\ records'.request = request /\ records'.testimonial = testimonial
        /\ records'.publication = new /\ records'.widget = widget
    BY <1>1, <1>2 DEF Growth!PublicationVersionCreate, HasTestimonials
  <2>2. testimonial[t].state # "pending-review"
    BY <1>2 DEF Growth!PublicationVersionCreate, Growth!Accepted, Growth!testimonial
  <2>3. x \in PublicationOf(DOMAIN testimonial) /\ x.testimonial = t /\ x.state = "draft"
    BY DEF PublicationOf
  <2>. HIDE DEF x
  <2>4. /\ new \in Seq(PublicationOf(DOMAIN testimonial)) /\ DOMAIN new = DOMAIN publication \cup {Len(publication) + 1}
        /\ new[Len(publication) + 1] = x /\ \A p \in DOMAIN publication : new[p] = publication[p]
    BY <1>t, <2>3, ListContinued DEF Continues
  <2>. HIDE DEF new
  <2>5. Accepts(testimonial, new)
    BY <1>1, <2>2, <2>3, <2>4 DEF Accepts
  <2>6. widget \in Seq(WidgetOf(DOMAIN new))
    BY <1>t, <2>4, TestimonialsRetype
  <2>7. \A w \in DOMAIN widget : widget[w].publications \subseteq DOMAIN publication
    BY <1>t DEF WidgetOf
  <2>8. Widgets(new, widget)
    BY <1>1, <2>4, <2>6, <2>7 DEF Widgets
  <2>. QED BY <1>1, <2>1, <2>5, <2>8, TestimonialsFormNext
<1>3. ASSUME NEW p \in DOMAIN publication, Growth!PublicationPublish(p) PROVE Growth!TestimonialsInvariant'
  <2>. DEFINE t == publication[p].testimonial
              v == [testimonial[t] EXCEPT !.state = "published"]
              x == [publication[p] EXCEPT !.state = "published"]
              testimonials == [testimonial EXCEPT ![t] = v]
              new == [publication EXCEPT ![p] = x]
  <2>1. /\ HasTestimonials(records') /\ records'.request = request /\ records'.testimonial = testimonials
        /\ records'.publication = new /\ records'.widget = widget
    BY <1>1, <1>3 DEF Growth!PublicationPublish, HasTestimonials, Growth!publication
  <2>2. testimonial[t].state \in {"reviewed", "redacted", "published"} /\ testimonial[t].consent = "granted"
    BY <1>3 DEF Growth!PublicationPublish, Growth!Consented, Growth!publication, Growth!testimonial
  <2>3. t \in DOMAIN testimonial /\ x \in PublicationOf(DOMAIN testimonial) /\ x.state = "published" /\ x.testimonial = t
    BY <1>t DEF PublicationOf
  <2>. HIDE DEF t
  <2>4. /\ v \in TestimonialOf(DOMAIN request) /\ v.source = testimonial[t].source /\ v.request = testimonial[t].request
        /\ v.state = "published" /\ v.consent = "granted"
    BY <1>t, <2>2, <2>3 DEF TestimonialOf
  <2>. HIDE DEF v, x
  <2>5. /\ Submitted(request, testimonials) /\ DOMAIN testimonials = DOMAIN testimonial /\ testimonials[t] = v
        /\ \A u \in DOMAIN testimonial : u # t => testimonials[u] = testimonial[u]
    BY <1>1, <2>2, <2>3, <2>4, OneChangedBy, TestimonialMoves
  <2>. HIDE DEF testimonials
  <2>6. /\ new \in Seq(PublicationOf(DOMAIN testimonial)) /\ DOMAIN new = DOMAIN publication /\ new[p] = x
        /\ \A n \in DOMAIN publication : n # p => new[n] = publication[n]
    BY <1>t, <2>3, OneChangedBy, ListChange
  <2>. HIDE DEF new
  <2>7. \A n \in DOMAIN publication : publication[n].testimonial \in DOMAIN testimonial
    BY <1>t DEF PublicationOf
  <2>8. Accepts(testimonials, new)
    BY <1>1, <2>3, <2>4, <2>5, <2>6, <2>7 DEF Accepts
  <2>9. \A w \in DOMAIN widget : widget[w].publications \subseteq DOMAIN publication
    BY <1>t DEF WidgetOf
  <2>10. Widgets(new, widget)
    BY <1>1, <2>3, <2>6, <2>9 DEF Widgets
  <2>. QED BY <2>1, <2>5, <2>8, <2>10, TestimonialsFormNext
<1>4. ASSUME NEW k \in WidgetKey, NEW P \in SUBSET DOMAIN publication, Growth!WidgetVersionCreate(k, P)
      PROVE  Growth!TestimonialsInvariant'
  <2>. DEFINE x == [key |-> k, publications |-> P, state |-> "draft"]
              new == Append(widget, x)
  <2>1. /\ HasTestimonials(records') /\ records'.request = request /\ records'.testimonial = testimonial
        /\ records'.publication = publication /\ records'.widget = new
    BY <1>1, <1>4 DEF Growth!WidgetVersionCreate, HasTestimonials
  <2>2. x \in WidgetOf(DOMAIN publication) /\ x.state = "draft"
    BY DEF WidgetOf
  <2>. HIDE DEF x
  <2>3. /\ new \in Seq(WidgetOf(DOMAIN publication)) /\ DOMAIN new = DOMAIN widget \cup {Len(widget) + 1}
        /\ new[Len(widget) + 1] = x /\ \A w \in DOMAIN widget : new[w] = widget[w]
    BY <1>t, <2>2, ListContinued DEF Continues
  <2>. HIDE DEF new
  <2>4. Widgets(publication, new)
    BY <1>1, <2>2, <2>3 DEF Widgets
  <2>. QED BY <1>1, <2>1, <2>4, TestimonialsFormNext
<1>5. ASSUME NEW w \in DOMAIN widget, Growth!WidgetPublish(w) PROVE Growth!TestimonialsInvariant'
  <2>. DEFINE to(v) == IF v = w THEN "published"
                       ELSE IF widget[v].state = "published" /\ widget[v].key = widget[w].key THEN "superseded" ELSE widget[v].state
              new == [v \in DOMAIN widget |-> [widget[v] EXCEPT !.state = to(v)]]
  <2>1. /\ HasTestimonials(records') /\ records'.request = request /\ records'.testimonial = testimonial
        /\ records'.publication = publication /\ records'.widget = new
    BY <1>1, <1>5 DEF Growth!WidgetPublish, HasTestimonials, Growth!widget
  <2>2. \A p \in widget[w].publications : publication[p].state = "published"
    BY <1>5 DEF Growth!WidgetPublish, Growth!Shows, Growth!widget, Growth!publication
  <2>3. ASSUME NEW v \in DOMAIN widget
        PROVE  /\ new[v] \in WidgetOf(DOMAIN publication) /\ new[v].key = widget[v].key
               /\ new[v].publications = widget[v].publications /\ new[v].state = to(v)
    <3>1. to(v) \in {"draft", "published", "superseded", "revoked-content"}
      BY <1>t DEF WidgetOf
    <3>. HIDE DEF to
    <3>. QED BY <1>t, <3>1 DEF WidgetOf
  <2>4. DOMAIN new = DOMAIN widget
    OBVIOUS
  <2>. HIDE DEF new
  <2>5. new \in Seq(WidgetOf(DOMAIN publication))
    <3>1. new = [v \in DOMAIN widget |-> new[v]]
      BY DEF new
    <3>2. new \in [DOMAIN widget -> WidgetOf(DOMAIN publication)]
      BY <2>3, <3>1
    <3>. QED BY <1>t, <2>4, <3>2, ListRetype
  <2>6. Widgets(publication, new)
    BY <1>1, <2>2, <2>3, <2>4, <2>5 DEF Widgets
  <2>. QED BY <1>1, <2>1, <2>6, TestimonialsFormNext
<1>6. ASSUME NEW t \in DOMAIN testimonial, Growth!ConsentRevoke(t) PROVE Growth!TestimonialsInvariant'
  <2>. DEFINE of == {p \in DOMAIN publication : publication[p].testimonial = t /\ publication[p].state # "revoked"}
              v == [testimonial[t] EXCEPT !.state = "revoked", !.consent = "revoked"]
              testimonials == [testimonial EXCEPT ![t] = v]
              new == [p \in DOMAIN publication |-> [publication[p] EXCEPT !.state = IF p \in of THEN "revoked" ELSE @]]
              widgets == [w \in DOMAIN widget |->
                            [widget[w] EXCEPT !.state = IF widget[w].publications \cap of # {} THEN "revoked-content" ELSE @]]
  <2>1. /\ HasTestimonials(records') /\ records'.request = request /\ records'.testimonial = testimonials
        /\ records'.publication = new /\ records'.widget = widgets
    BY <1>1, <1>6 DEF Growth!ConsentRevoke, HasTestimonials, Growth!OfTestimonial, Growth!publication, Growth!widget, Growth!testimonial
  <2>2. ASSUME NEW p \in DOMAIN publication
        PROVE  /\ new[p] \in PublicationOf(DOMAIN testimonial) /\ new[p].testimonial = publication[p].testimonial
               /\ new[p].state = IF p \in of THEN "revoked" ELSE publication[p].state
    <3>. HIDE DEF of
    <3>. QED BY <1>t DEF PublicationOf
  <2>3. ASSUME NEW w \in DOMAIN widget
        PROVE  /\ widgets[w] \in WidgetOf(DOMAIN publication) /\ widgets[w].key = widget[w].key
               /\ widgets[w].publications = widget[w].publications
               /\ widgets[w].state = IF widget[w].publications \cap of # {} THEN "revoked-content" ELSE widget[w].state
    <3>. HIDE DEF of
    <3>. QED BY <1>t DEF WidgetOf
  <2>4. DOMAIN new = DOMAIN publication /\ DOMAIN widgets = DOMAIN widget
    OBVIOUS
  <2>5. new \in Seq(PublicationOf(DOMAIN testimonial)) /\ widgets \in Seq(WidgetOf(DOMAIN publication))
    <3>1. new = [p \in DOMAIN publication |-> new[p]] /\ widgets = [w \in DOMAIN widget |-> widgets[w]]
      OBVIOUS
    <3>. HIDE DEF new, widgets
    <3>2. new \in [DOMAIN publication -> PublicationOf(DOMAIN testimonial)] /\ widgets \in [DOMAIN widget -> WidgetOf(DOMAIN publication)]
      BY <2>2, <2>3, <3>1
    <3>. QED BY <1>t, <2>4, <3>2, ListRetype
  <2>. HIDE DEF new, widgets
  <2>6. /\ v \in TestimonialOf(DOMAIN request) /\ v.source = testimonial[t].source /\ v.request = testimonial[t].request
        /\ v.state = "revoked" /\ v.consent = "revoked"
    BY <1>t DEF TestimonialOf
  <2>. HIDE DEF v
  <2>7. /\ Submitted(request, testimonials) /\ DOMAIN testimonials = DOMAIN testimonial /\ testimonials[t] = v
        /\ \A u \in DOMAIN testimonial : u # t => testimonials[u] = testimonial[u]
    BY <1>1, <2>6, OneChangedBy, TestimonialMoves
  <2>. HIDE DEF testimonials
  <2>8. ASSUME NEW p \in DOMAIN new
        PROVE  /\ testimonials[new[p].testimonial].state # "pending-review"
               /\ new[p].state = "published" => testimonials[new[p].testimonial].state = "published"
    <3>1. p \in DOMAIN publication /\ publication[p].testimonial \in DOMAIN testimonial
      BY <1>t, <2>4 DEF PublicationOf
    <3>2. CASE publication[p].testimonial = t
      BY <2>2, <2>6, <2>7, <3>1, <3>2
    <3>3. CASE publication[p].testimonial # t
      <4>1. new[p].testimonial = publication[p].testimonial /\ new[p].state = publication[p].state
        BY <2>2, <3>1, <3>3
      <4>2. testimonials[new[p].testimonial] = testimonial[publication[p].testimonial]
        BY <2>7, <3>1, <3>3, <4>1
      <4>. QED BY <1>1, <3>1, <4>1, <4>2 DEF Accepts
    <3>. QED BY <3>2, <3>3
  <2>9. Accepts(testimonials, new)
    BY <2>5, <2>7, <2>8 DEF Accepts
  <2>10. ASSUME NEW w \in DOMAIN widgets, widgets[w].state = "published"
         PROVE  /\ \A p \in widgets[w].publications : new[p].state = "published"
                /\ \A u \in DOMAIN widgets : widgets[u].state = "published" /\ widgets[u].key = widgets[w].key => u = w
    <3>1. w \in DOMAIN widget /\ widget[w].state = "published" /\ widget[w].publications \cap of = {}
      BY <2>3, <2>4, <2>10
    <3>2. widget[w].publications \subseteq DOMAIN publication
      BY <1>t, <3>1 DEF WidgetOf
    <3>3. \A p \in widget[w].publications : publication[p].state = "published"
      BY <1>1, <3>1 DEF Widgets
    <3>. HIDE DEF of
    <3>4. \A p \in widgets[w].publications : new[p].state = "published"
      BY <2>2, <2>3, <3>1, <3>2, <3>3
    <3>5. \A u \in DOMAIN widget : widgets[u].state = "published" => widget[u].state = "published"
      BY <2>3
    <3>6. \A u \in DOMAIN widget : widget[u].state = "published" /\ widget[u].key = widget[w].key => u = w
      BY <1>1, <3>1 DEF Widgets
    <3>. QED BY <2>3, <2>4, <3>1, <3>4, <3>5, <3>6
  <2>11. Widgets(new, widgets)
    BY <2>4, <2>5, <2>10 DEF Widgets
  <2>. QED BY <1>1, <2>1, <2>7, <2>9, <2>11, TestimonialsFormNext
<1>. QED BY <1>2, <1>3, <1>4, <1>5, <1>6 DEF Growth!testimonial, Growth!publication, Growth!widget

LEMMA TestimonialsStep ==
  ASSUME Growth!TestimonialsInvariant, Growth!TestimonialsNext
  PROVE  Growth!TestimonialsInvariant'
BY SubmissionSteps, PublicationSteps DEF Growth!TestimonialsNext, Growth!None

LEMMA TestimonialsKept ==
  ASSUME Growth!TestimonialsInvariant
  PROVE  Growth!ShownIsConsented
BY DEF Growth!TestimonialsInvariant

-----------------------------------------------------------------------------
(* The whole.                                                              *)

\* Every record of the five modules stays of its type and bound to the record
\* that agreed to it, for any number of each and whatever is interleaved.
THEOREM AgreementSafety == AgreementSpec => []AgreementInvariant
<1>1. AgreementInit => AgreementInvariant
  <2>. SUFFICES ASSUME NEW m \in Offered, enabled = {m},
                       \/ m = "consent"        /\ Consent!Init
                       \/ m = "email"          /\ Email!Init
                       \/ m = "notify"         /\ Notify!NotifyInit
                       \/ m = "live"           /\ LiveAssurance!LiveInit
                       \/ m = "testimonials"   /\ Growth!TestimonialsInit
                PROVE  AgreementInvariant
    BY DEF AgreementInit
  <2>. QED BY ConsentInit, MailInit, NotifyInitial, LiveInitial, TestimonialsInitial DEF AgreementInvariant, Has
<1>2. AgreementInvariant /\ [AgreementNext]_<<enabled, records>> => AgreementInvariant'
  <2>. SUFFICES ASSUME AgreementInvariant, [AgreementNext]_<<enabled, records>> PROVE AgreementInvariant'
    OBVIOUS
  <2>1. PICK m \in Offered : enabled = {m}
    BY DEF AgreementInvariant
  <2>2. CASE AgreementNext
    <3>1. enabled' = enabled
      BY <2>2 DEF AgreementNext
    <3>2. Has("consent") => Consent!ConsentInvariant'
      BY <2>1, <2>2, ConsentStep DEF AgreementInvariant, AgreementNext, Has
    <3>3. Has("email") => Email!MailInvariant'
      BY <2>1, <2>2, MailStep DEF AgreementInvariant, AgreementNext, Has
    <3>4. Has("notify") => Notify!NotifyInvariant'
      BY <2>1, <2>2, NotifyStep DEF AgreementInvariant, AgreementNext, Has
    <3>5. Has("live") => LiveAssurance!LiveInvariant'
      BY <2>1, <2>2, LiveStep DEF AgreementInvariant, AgreementNext, Has
    <3>6. Has("testimonials") => Growth!TestimonialsInvariant'
      BY <2>1, <2>2, TestimonialsStep DEF AgreementInvariant, AgreementNext, Has
    <3>. QED BY <2>1, <3>1, <3>2, <3>3, <3>4, <3>5, <3>6 DEF AgreementInvariant, Has
  <2>3. CASE UNCHANGED <<enabled, records>>
    <3>1. enabled' = enabled /\ records' = records
      BY <2>3
    <3>2. Has("consent") => Consent!ConsentInvariant'
      BY <3>1, ConsentForm, ConsentFormNext DEF AgreementInvariant
    <3>3. Has("email") => Email!MailInvariant'
      BY <3>1, MailForm, MailFormNext DEF AgreementInvariant
    <3>4. Has("notify") => Notify!NotifyInvariant'
      BY <3>1, NotifyForm, NotifyFormNext DEF AgreementInvariant
    <3>5. Has("live") => LiveAssurance!LiveInvariant'
      BY <3>1, LiveForm, LiveFormNext DEF AgreementInvariant
    <3>6. Has("testimonials") => Growth!TestimonialsInvariant'
      BY <3>1, TestimonialsForm, TestimonialsFormNext DEF AgreementInvariant
    <3>. QED BY <2>1, <3>1, <3>2, <3>3, <3>4, <3>5, <3>6 DEF AgreementInvariant, Has
  <2>. QED BY <2>2, <2>3
<1>. QED BY <1>1, <1>2, PTL DEF AgreementSpec

\* Nothing reaches, shows or records a person who has not agreed to it: mail,
\* notifications, recordings, testimonials on a public page, consent receipts
\* bound to a policy that was published.
THEOREM ReachedOnlyWithConsent == AgreementSpec => []OnlyWithConsent
<1>1. AgreementInvariant => OnlyWithConsent
  BY ConsentKept, MailKept, NotifyKept, LiveKept, TestimonialsKept DEF AgreementInvariant, OnlyWithConsent
<1>. QED BY <1>1, AgreementSafety, PTL
=============================================================================
