------------------------------- MODULE Consent -------------------------------
(***************************************************************************)
(* Consent sites, their domain proofs, policy revisions and receipts.      *)
(* The commands of the workspace are one step each (its lock is held); the *)
(* public route that records a visitor's choice reads the site, the policy *)
(* and the earlier receipts in transactions of their own, and only then    *)
(* appends: other steps come in between.                                   *)
(*                                                                         *)
(* A challenge is the number of the configuration that issued it.  Whether *)
(* a DNS lookup finds it is the environment's choice.  The contents of a   *)
(* policy never change, so its content hash is its identity.               *)
(***************************************************************************)
EXTENDS Naturals, Sequences, FiniteSets, FiniteSetsExt

CONSTANTS Site, Domain, Key, Visitor, Request, NoDomain,
          MaxChallenges, MaxRevisions, MaxReceipts, MaxScans

VARIABLE records  \* sites, revisions, receipts, scans, and the visitors' requests in progress

site     == records.site
revision == records.revision
receipt  == records.receipt
request  == records.request

NoKey == 0
NoReceipt == 0
Idle == [step |-> "idle", key |-> NoKey, visitor |-> NoKey, site |-> NoKey, revision |-> 0, prior |-> 0]

Init == records =
  [site |-> [s \in Site |-> [domain |-> NoDomain, verified |-> FALSE, challenge |-> 0, evidence |-> <<NoDomain, 0>>]],
   revision |-> <<>>, receipt |-> <<>>, scans |-> 0, issued |-> 0,
   request |-> [r \in Request |-> Idle]]

OfSite(s)  == {v \in DOMAIN revision : revision[v].site = s}
Live(s)    == {v \in OfSite(s) : revision[v].state = "published"}

\* Mutant of SiteConfigure: a published policy does not pin the domain.
SiteReconfigure(s, domain) ==
  /\ \A t \in Site \ {s} : site[t].domain # domain
  /\ LET keeps == site[s].domain = domain /\ site[s].verified IN
       /\ keeps \/ records.issued < MaxChallenges
       /\ records' = [records EXCEPT
            !.site[s].domain = domain, !.site[s].verified = keeps,
            !.site[s].challenge = IF keeps THEN @ ELSE records.issued + 1,
            !.issued = IF keeps THEN @ ELSE @ + 1]

\* site-configure: a proof survives only for the same domain, and a new
\* challenge is issued otherwise.
SiteConfigure(s, domain) ==
  /\ \A t \in Site \ {s} : site[t].domain # domain
  /\ site[s].domain \in {NoDomain, domain} \/ Live(s) = {}
  /\ LET keeps == site[s].domain = domain /\ site[s].verified IN
       /\ keeps \/ records.issued < MaxChallenges
       /\ records' = [records EXCEPT
            !.site[s].domain = domain, !.site[s].verified = keeps,
            !.site[s].challenge = IF keeps THEN @ ELSE records.issued + 1,
            !.issued = IF keeps THEN @ ELSE @ + 1]

\* domain-verify, when the TXT record holds the challenge.
DomainVerify(s) ==
  /\ site[s].domain # NoDomain
  /\ records' = [records EXCEPT !.site[s].verified = TRUE,
                                !.site[s].evidence = <<site[s].domain, site[s].challenge>>]

ScanStart(s) ==
  /\ site[s].domain # NoDomain /\ records.scans < MaxScans
  /\ records' = [records EXCEPT !.scans = @ + 1]

PolicyDraft(s) ==
  /\ site[s].domain # NoDomain /\ Len(revision) < MaxRevisions
  /\ records' = [records EXCEPT !.revision =
       Append(@, [site |-> s, version |-> Max({0} \cup {revision[v].version : v \in OfSite(s)}) + 1,
                  state |-> "draft", key |-> NoKey])]

PolicyApprove(v) ==
  /\ revision[v].state = "draft"
  /\ records' = [records EXCEPT !.revision[v].state = "approved"]

\* policy-publish supersedes whatever the site had published.
PolicyPublish(v, key) ==
  /\ \A w \in DOMAIN revision : revision[w].key # key
  /\ revision[v].state = "approved" /\ site[revision[v].site].verified
  /\ records' = [records EXCEPT !.revision =
       [w \in DOMAIN @ |-> CASE w = v -> [@[w] EXCEPT !.state = "published", !.key = key]
                             [] w \in Live(revision[v].site) -> [@[w] EXCEPT !.state = "superseded"]
                             [] OTHER -> @[w]]]

Appended(v, visitor, key, prior) ==
  Append(receipt, [site |-> revision[v].site, revision |-> v, visitor |-> visitor, key |-> key, prior |-> prior])

\* Receipts of operators (no key) and of the public route (a key) are chained
\* apart: they hash the visitor differently.
Latest(s, visitor, public) ==
  Max({NoReceipt} \cup {n \in DOMAIN receipt : /\ receipt[n].site = s /\ receipt[n].visitor = visitor
                                                 /\ (receipt[n].key # NoKey) = public})

\* choice-record, the operator's command.
ChoiceRecord(v, visitor) ==
  /\ Len(receipt) < MaxReceipts
  /\ v \in Live(revision[v].site)
  /\ records' = [records EXCEPT !.receipt =
       Appended(v, visitor, NoKey, Latest(revision[v].site, visitor, FALSE))]

\* The public route reads the site and then its published revision.
ChoiceReads(r, v, visitor, key) ==
  /\ request[r].step = "idle" /\ site[revision[v].site].verified /\ revision[v].state = "published"
  /\ records' = [records EXCEPT !.request[r] =
       [step |-> "policy", key |-> key, visitor |-> visitor, site |-> revision[v].site, revision |-> v, prior |-> 0]]

\* The route hashes a key together with its site.
KeyUsed(r) == \E n \in DOMAIN receipt :
  receipt[n].key = request[r].key /\ receipt[n].site = request[r].site

\* Mutant of ChoiceReadsReceipts: the prior receipt is looked up by visitor only.
ChoiceReadsAnyReceipt(r) ==
  /\ request[r].step = "policy"
  /\ records' = [records EXCEPT !.request[r] =
       IF KeyUsed(r) THEN Idle
       ELSE [request[r] EXCEPT !.step = "receipts", !.prior = Max({0} \cup DOMAIN receipt)]]

\* Then the receipts: a replay answers, anything else continues.
ChoiceReadsReceipts(r) ==
  /\ request[r].step = "policy"
  /\ records' = [records EXCEPT !.request[r] =
       IF KeyUsed(r) THEN Idle
       ELSE [request[r] EXCEPT !.step = "receipts", !.prior = Latest(request[r].site, request[r].visitor, TRUE)]]

\* And appends, unless the unique index on the key refuses a concurrent twin.
ChoiceAppends(r) ==
  /\ request[r].step = "receipts" /\ Len(receipt) < MaxReceipts
  /\ records' = [records EXCEPT
       !.receipt = IF KeyUsed(r) THEN @
                   ELSE Appended(request[r].revision, request[r].visitor, request[r].key, request[r].prior),
       !.request[r] = Idle]

Next ==
  \/ \E s \in Site : \/ \E d \in Domain : SiteConfigure(s, d)
                     \/ DomainVerify(s) \/ ScanStart(s) \/ PolicyDraft(s)
  \/ \E v \in DOMAIN revision :
       \/ PolicyApprove(v)
       \/ \E k \in Key : PolicyPublish(v, k)
       \/ \E u \in Visitor : ChoiceRecord(v, u) \/ \E r \in Request, k \in Key : ChoiceReads(r, v, u, k)
  \/ \E r \in Request : ChoiceReadsReceipts(r) \/ ChoiceAppends(r)

Spec == Init /\ [][Next]_records

-----------------------------------------------------------------------------
\* A site has one published policy at most, and while it has one, its domain
\* is proven by the challenge of its present configuration.  Two sites never
\* prove the same domain.
PublishedIsProven ==
  \A s \in Site : /\ Cardinality(Live(s)) <= 1
                  /\ Live(s) # {} => /\ site[s].verified
                                     /\ site[s].evidence = <<site[s].domain, site[s].challenge>>
                  /\ \A t \in Site \ {s} : site[s].verified => site[t].domain # site[s].domain

\* A receipt names a policy that was published, even one superseded between
\* the route's reads and its append, and the prior receipt it names is an
\* earlier one of the same visitor on the same site; a key has one receipt.
ReceiptsAreChained ==
  \A n \in DOMAIN receipt :
    LET prior == receipt[n].prior IN
    /\ revision[receipt[n].revision].state \in {"published", "superseded"}
    /\ prior # NoReceipt => /\ prior < n
                            /\ receipt[prior].visitor = receipt[n].visitor
                            /\ receipt[prior].site = receipt[n].site
    /\ \A m \in DOMAIN receipt : receipt[m].key = receipt[n].key /\ receipt[m].site = receipt[n].site
                                /\ receipt[n].key # NoKey => m = n

-----------------------------------------------------------------------------
\* Why both hold.  Two sites never name one domain; a verified site was
\* verified with its present challenge, and a site with a published policy, of
\* which there is one, is verified.
SitesProven ==
  /\ \A s \in Site :
       /\ \A t \in Site \ {s} : site[s].domain = site[t].domain => site[s].domain = NoDomain
       /\ site[s].verified => site[s].domain # NoDomain /\ site[s].evidence = <<site[s].domain, site[s].challenge>>
       /\ Live(s) # {} => site[s].verified
  /\ \A v, w \in DOMAIN revision :
       revision[v].state = "published" /\ revision[w].state = "published" /\ revision[v].site = revision[w].site => v = w

WasPublished(v) == v \in DOMAIN revision /\ revision[v].state \in {"published", "superseded"}

\* A receipt, and a request on its way to one, names a policy of its site that
\* was published, and an earlier receipt of its visitor on its site, or none.
Names(x) ==
  /\ WasPublished(x.revision) /\ revision[x.revision].site = x.site
  /\ x.prior # NoReceipt => /\ x.prior \in DOMAIN receipt
                            /\ receipt[x.prior].visitor = x.visitor /\ receipt[x.prior].site = x.site

ConsentInvariant ==
  /\ {"site", "revision", "receipt", "scans", "issued", "request"} \subseteq DOMAIN records
  /\ DOMAIN site = Site /\ DOMAIN request = Request
  /\ \A s \in Site : {"domain", "verified", "challenge", "evidence"} \subseteq DOMAIN site[s] /\ site[s].verified \in BOOLEAN
  /\ revision \in Seq([site : Site, version : Nat, state : {"draft", "approved", "published", "superseded"}, key : Key \cup {NoKey}])
  /\ receipt \in Seq([site : Site, revision : DOMAIN revision, visitor : Visitor, key : Key \cup {NoKey}, prior : Nat])
  /\ SitesProven
  /\ \A n \in DOMAIN receipt :
       /\ Names(receipt[n]) /\ receipt[n].prior < n
       /\ \A m \in DOMAIN receipt : receipt[m].key = receipt[n].key /\ receipt[m].site = receipt[n].site
                                   /\ receipt[n].key # NoKey => m = n
  /\ \A r \in Request : request[r].step # "idle" =>
       /\ Names(request[r]) /\ request[r].key \in Key /\ request[r].visitor \in Visitor
       /\ request[r].prior \in Nat
=============================================================================
