------------------------------- MODULE Esign -------------------------------
(***************************************************************************)
(* The e-signature module and its hosted signer page: immutable template   *)
(* versions and documents, envelopes that name both, signer sessions along *)
(* the route, completion and decline, voiding, reminders, certificates.    *)
(* A command runs in a transaction of the workspace, with a new key and a  *)
(* fresh approval, which are always to be had.  The hosted page reads      *)
(* first and decides in a transaction of its own later; the signer names   *)
(* the decision, the receipt remembers it, and an answer may be lost.  A   *)
(* route's signers are 1 .. n in order; a hash stands for fixed content.   *)
(***************************************************************************)
EXTENDS Naturals, Sequences, FiniteSets

CONSTANTS
  Field, Document, DecisionId,
  Horizon, MaxRoute, MaxTemplates, MaxEnvelopes, MaxSessions, MaxReminders, MaxVersion

VARIABLE records   \* the module's records, the clock and the page a signer has open

template    == records.template
document    == records.document
envelope    == records.envelope
session     == records.session
fact        == records.fact
reminder    == records.reminder
certificate == records.certificate
receipt     == records.receipt       \* of the decisions taken on the hosted page
lost        == records.lost          \* documents whose stored object is gone or replaced
page        == records.page
now         == records.now

Closed == [at |-> "closed"]

Init == records = [template |-> <<>>, document |-> {}, envelope |-> <<>>, session |-> <<>>, fact |-> {}, reminder |-> {},
                   certificate |-> <<>>, receipt |-> {}, lost |-> {}, page |-> Closed, now |-> 0]

Tick == now < Horizon /\ records' = [records EXCEPT !.now = @ + 1]

\* A version of a template: its route, the role each field is for and which
\* fields are required.  The version number is part of the hashed content, so
\* no two versions are ever refused as the same.
TemplateVersionCreate(n, role, required) ==
  /\ Len(template) < MaxTemplates
  /\ records' = [records EXCEPT !.template = Append(@, [route |-> n, role |-> role, required |-> required])]

DocumentRegister(d) ==
  /\ d \notin document
  /\ records' = [records EXCEPT !.document = @ \cup {d}]

EnvelopeDraft(t, d, expires) ==
  /\ Len(envelope) < MaxEnvelopes /\ d \in document /\ expires > now
  /\ records' = [records EXCEPT !.envelope = Append(@,
       [template |-> t, document |-> d, expires |-> expires, state |-> "draft", completed |-> {}, version |-> 1])]

EnvelopeDispatchPlan(e, expected) ==
  /\ envelope[e].version = expected /\ envelope[e].state = "draft" /\ envelope[e].expires > now
  /\ records' = [records EXCEPT !.envelope[e].state = "ready-for-manual-dispatch", !.envelope[e].version = expected + 1]

Route(e)    == 1 .. template[envelope[e].template].route
Active(e)   == envelope[e].state \in {"ready-for-manual-dispatch", "in-progress"}
Terminal(e) == envelope[e].state \in {"completed", "declined", "voided"}
Sessions(e) == {s \in DOMAIN session : session[s].envelope = e}
Open(e, g)  == {s \in Sessions(e) : session[s].signer = g /\ session[s].state = "active"}
Live(s)     == session[s].state = "active" /\ session[s].expires > now

\* Mutant of EarlierCompleted: the order of the route is not asked for.
EarlierUnasked(e, g) == g \in Route(e)

EarlierCompleted(e, g) == \A h \in 1 .. g - 1 : h \in envelope[e].completed

\* Issuing a session closes the signer's sessions that have run out.
SignerSessionIssue(e, g, expires, expected) ==
  /\ Len(session) < MaxSessions
  /\ Active(e) /\ envelope[e].version = expected
  /\ g \notin envelope[e].completed /\ EarlierCompleted(e, g)
  /\ expires > now /\ expires <= envelope[e].expires
  /\ \A s \in Open(e, g) : session[s].expires <= now
  /\ records' = [records EXCEPT
       !.session = Append([s \in DOMAIN @ |-> IF s \in Open(e, g) THEN [@[s] EXCEPT !.state = "expired", !.version = @ + 1] ELSE @[s]],
                          [envelope |-> e, signer |-> g, expires |-> expires, state |-> "active", version |-> 1]),
       !.envelope[e].state = "in-progress", !.envelope[e].version = expected + 1]

FieldsOf(e, g) == {f \in Field : template[envelope[e].template].role[f] = g}
Required(e, g) == FieldsOf(e, g) \cap template[envelope[e].template].required

\* What a completion asks, whoever sends it: the session named by its token is
\* the signer's and live, the versions are current, every required field and
\* no other signer's is there, and none was completed before.
CompletionStands(s, F, envelopeVersion, sessionVersion) ==
  LET e == session[s].envelope  g == session[s].signer IN
    /\ Active(e) /\ envelope[e].version = envelopeVersion
    /\ Live(s) /\ session[s].version = sessionVersion
    /\ Required(e, g) \subseteq F /\ F \subseteq FieldsOf(e, g)
    /\ \A c \in fact : c.envelope = e => c.field \notin F

AfterCompletion(s, F) ==
  LET e == session[s].envelope  done == envelope[e].completed \cup {session[s].signer} IN
    [records EXCEPT
       !.fact = @ \cup {[envelope |-> e, field |-> f, session |-> s] : f \in F},
       !.session[s].state = "completed", !.session[s].version = @ + 1,
       !.envelope[e].completed = done, !.envelope[e].version = @ + 1,
       !.envelope[e].state = IF Route(e) \subseteq done THEN "completed" ELSE "in-progress"]

FieldCompletionRecord(s, F, ev, sv) == CompletionStands(s, F, ev, sv) /\ records' = AfterCompletion(s, F)

DeclineStands(s, ev, sv) ==
  /\ Active(session[s].envelope) /\ envelope[session[s].envelope].version = ev
  /\ Live(s) /\ session[s].version = sv
AfterDecline(s) ==
  [records EXCEPT !.session[s].state = "declined", !.session[s].version = @ + 1,
                  !.envelope[session[s].envelope].state = "declined", !.envelope[session[s].envelope].version = @ + 1]
DeclineRecord(s, ev, sv) == DeclineStands(s, ev, sv) /\ records' = AfterDecline(s)

EnvelopeVoid(e, expected) ==
  /\ envelope[e].version = expected /\ ~Terminal(e)
  /\ records' = [records EXCEPT
       !.session = [s \in DOMAIN @ |-> IF s \in Sessions(e) /\ @[s].state = "active"
                                       THEN [@[s] EXCEPT !.state = "revoked", !.version = @ + 1] ELSE @[s]],
       !.envelope[e].state = "voided", !.envelope[e].version = expected + 1]

ReminderPlan(e, g, notBefore, expected) ==
  /\ Cardinality(reminder) < MaxReminders
  /\ Active(e) /\ envelope[e].version = expected /\ g \notin envelope[e].completed
  /\ notBefore >= now /\ notBefore < envelope[e].expires
  /\ records' = [records EXCEPT !.reminder = @ \cup {[envelope |-> e, signer |-> g, version |-> expected]}]

\* What the certificate says of an envelope, the format asked for not included.
Manifest(e) ==
  [envelope |-> e, state |-> envelope[e].state, version |-> envelope[e].version, sessions |-> {session[s] : s \in Sessions(e)},
   facts |-> {c \in fact : c.envelope = e}, reminders |-> {r \in reminder : r.envelope = e}]
CertificateExport(e, expected) ==
  /\ envelope[e].version = expected /\ Terminal(e)
  /\ \A c \in DOMAIN certificate : certificate[c] # Manifest(e)
  /\ records' = [records EXCEPT !.certificate = Append(@, Manifest(e))]

-----------------------------------------------------------------------------
(* The hosted page: what one signer's browser shows and has sent. *)
ObjectLost(d) == d \notin lost /\ records' = [records EXCEPT !.lost = @ \cup {d}]

\* The boundary a request for session s is answered within: the session and its
\* envelope are open, or the decision asked for was recorded already.
ActiveBoundary(s) ==
  LET e == envelope[session[s].envelope] IN Live(s) /\ e.state = "in-progress" /\ e.expires > now
TerminalReplay(s, decision) ==
  LET e == envelope[session[s].envelope].state IN
    \/ decision = "complete" /\ session[s].state = "completed" /\ e \in {"in-progress", "completed", "declined", "voided"}
    \/ decision = "decline" /\ session[s].state = "declined" /\ e = "declined"

\* The view: the versions the boundary hash covers.
HostedOpen(s) ==
  /\ page.at = "closed" /\ ActiveBoundary(s)
  /\ records' = [records EXCEPT !.page = [at |-> "open", session |-> s, ev |-> envelope[session[s].envelope].version,
                                          sv |-> session[s].version]]

\* What the signer sends: an explicit decision with an identifier of its own.
Facts   == SUBSET Field \ {{}}
Request == [decision : {"complete"}, id : DecisionId, facts : Facts] \cup [decision : {"decline"}, id : DecisionId, facts : {{}}]

\* A replay is not held to the versions, which the decision itself moved on.
ClientBoundary(s, ev, sv) ==
  /\ envelope[session[s].envelope].version = ev /\ session[s].version = sv

\* The exact registered object is still there to be loaded.
VerifiedPdf(s) == envelope[session[s].envelope].document \notin lost

\* The service checks a request against what it reads, and loads the document
\* again before a completion, ahead of the transaction that records it.
HostedDecide(r) ==
  /\ page.at = "open"
  /\ \/ TerminalReplay(page.session, r.decision)
     \/ /\ ActiveBoundary(page.session) /\ ClientBoundary(page.session, page.ev, page.sv)
        /\ r.decision = "complete" => VerifiedPdf(page.session)
  /\ records' = [records EXCEPT !.page = [at |-> "deciding", session |-> page.session, ev |-> page.ev, sv |-> page.sv, request |-> r]]

\* The key is made of the decision, the session and the identifier; what was
\* hashed with it is the whole request.
Receipt(p) == [session |-> p.session, request |-> p.request, ev |-> p.ev, sv |-> p.sv]

Unused(id) == \A c \in receipt : c.request.id # id

\* The signer is told what the receipt says, unless the answer is lost: then the
\* page still stands as it was sent from and the signer may try again.
Answered(recorded, arrives) ==
  [recorded EXCEPT !.page = IF arrives THEN [page EXCEPT !.at = "answered"]
                            ELSE [at |-> "open", session |-> page.session, ev |-> page.ev, sv |-> page.sv]]

HostedReplay(arrives) ==
  /\ page.at = "deciding" /\ Receipt(page) \in receipt
  /\ records' = Answered(records, arrives)

HostedComplete(arrives) ==
  /\ page.at = "deciding" /\ page.request.decision = "complete" /\ Unused(page.request.id)
  /\ CompletionStands(page.session, page.request.facts, page.ev, page.sv)
  /\ records' = Answered([AfterCompletion(page.session, page.request.facts) EXCEPT !.receipt = @ \cup {Receipt(page)}], arrives)
HostedDecline(arrives) ==
  /\ page.at = "deciding" /\ page.request.decision = "decline" /\ Unused(page.request.id)
  /\ DeclineStands(page.session, page.ev, page.sv)
  /\ records' = Answered([AfterDecline(page.session) EXCEPT !.receipt = @ \cup {Receipt(page)}], arrives)

\* Everything else that happens to a decision is one refusal for the signer: its
\* key was used for another request, its identifier by another decision, or
\* what it was checked against has changed since.
HostedConflict ==
  /\ page.at = "deciding" /\ Receipt(page) \notin receipt
  /\ \/ ~Unused(page.request.id)
     \/ page.request.decision = "complete" /\ ~CompletionStands(page.session, page.request.facts, page.ev, page.sv)
     \/ page.request.decision = "decline" /\ ~DeclineStands(page.session, page.ev, page.sv)
  /\ records' = Answered(records, FALSE)
HostedLeave == page.at \in {"open", "answered"} /\ records' = [records EXCEPT !.page = Closed]

HostedNext ==
  \/ \E s \in DOMAIN session : HostedOpen(s)
  \/ \E r \in Request : HostedDecide(r)
  \/ \E arrives \in BOOLEAN : HostedReplay(arrives) \/ HostedComplete(arrives) \/ HostedDecline(arrives)
  \/ HostedConflict
  \/ HostedLeave
  \/ \E d \in document : ObjectLost(d)

\* A client names a version that the record has or had.
Known(version) == 1 .. IF version > MaxVersion THEN MaxVersion ELSE version

Next ==
  \/ Tick
  \/ \E n \in 1 .. MaxRoute : \E role \in [Field -> 1 .. n], Q \in SUBSET Field : TemplateVersionCreate(n, role, Q)
  \/ \E d \in Document : DocumentRegister(d) \/ \E t \in DOMAIN template, x \in 1 .. Horizon : EnvelopeDraft(t, d, x)
  \/ \E e \in DOMAIN envelope : \E v \in Known(envelope[e].version) :
       \/ EnvelopeDispatchPlan(e, v)
       \/ EnvelopeVoid(e, v)
       \/ CertificateExport(e, v)
       \/ \E g \in Route(e), x \in 0 .. Horizon : SignerSessionIssue(e, g, x, v) \/ ReminderPlan(e, g, x, v)
  \/ \E s \in DOMAIN session : \E v \in Known(envelope[session[s].envelope].version), w \in Known(session[s].version) :
       DeclineRecord(s, v, w) \/ \E F \in SUBSET Field : FieldCompletionRecord(s, F, v, w)
  \/ HostedNext

Spec == Init /\ [][Next]_records

-----------------------------------------------------------------------------
\* Whatever sessions run out, are reissued, declined or voided while a signer
\* has the page open: signers complete in the order of the route, each through
\* one session of theirs with all their required fields; at most one session of
\* an envelope is open and it is the next signer's, none once the envelope is
\* done; and a finished envelope has one certificate, of how it ended.
SignedInOrder ==
  /\ \A e \in DOMAIN envelope :
       LET done == envelope[e].completed  open == {s \in Sessions(e) : session[s].state = "active"} IN
         /\ done = 1 .. Cardinality(done) /\ (envelope[e].state = "completed") = (done = Route(e))
         /\ Cardinality(open) <= 1 /\ (Terminal(e) => open = {})
         /\ \A s \in open : session[s].signer = Cardinality(done) + 1
         /\ \A g \in done : Cardinality({s \in Sessions(e) : session[s].signer = g /\ session[s].state = "completed"}) = 1
         /\ \A g \in Route(e) : \A f \in Required(e, g) : g \in done <=> \E c \in fact : c.envelope = e /\ c.field = f
  /\ \A c, d \in DOMAIN certificate : certificate[c].envelope = certificate[d].envelope => c = d
  /\ \A c \in fact : session[c.session].state = "completed" /\ session[c.session].envelope = c.envelope
  /\ \A c \in receipt :
       /\ session[c.session].state = (IF c.request.decision = "complete" THEN "completed" ELSE "declined")
       /\ c.request.facts = {f \in Field : \E k \in fact : k.session = c.session /\ k.field = f}
       /\ \A d \in receipt : c.session = d.session \/ c.request.id = d.request.id => c = d
  /\ page.at = "answered" => Receipt(page) \in receipt
=============================================================================
