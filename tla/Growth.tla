------------------------------- MODULE Growth -------------------------------
(***************************************************************************)
(* Three modules of the first-party growth engine.                         *)
(*                                                                         *)
(* Giveaways: one contest, its entrants and their referrals, fraud         *)
(* signals, eligibility decisions, and the draw from a frozen candidate    *)
(* snapshot.  A command that names an expected version is one that read    *)
(* the current one, any other is refused.                                  *)
(*                                                                         *)
(* Testimonials: collection requests that expire, submissions with a       *)
(* publication consent, the moderation decision, publication versions, and *)
(* widgets that show several of them.  The hosted form submits through the *)
(* same command with the source its request stands for.                    *)
(*                                                                         *)
(* Brand pages: pages with versioned link destinations, QR routes with     *)
(* versioned destinations, and what their public addresses resolve to.     *)
(***************************************************************************)
EXTENDS Naturals, Sequences, FiniteSets, FiniteSetsExt

CONSTANTS
  Horizon,
  Participant,        \* pseudonymous participant keys
  BonusCap,           \* the contest's referralBonusCap
  ClosesAt, MaxEntries, MaxSignals, MaxDecisions, MaxSnapshots,
  Source,             \* source references of submissions that no request asked for
  WidgetKey, Expiry, MaxRequests, MaxTestimonials, MaxPublications, MaxWidgets,
  Slug, LinkKey, MaxRoutes, MaxDestinations, MaxVersions

VARIABLE records   \* the clock and the records of the enabled one

now         == records.now
contest     == records.contest
entry       == records.entry
signal      == records.signal
snapshot    == records.snapshot
request     == records.request
testimonial == records.testimonial
publication == records.publication
widget      == records.widget
route       == records.route
destination == records.destination
version     == records.version

None == 0
AtLeast(floor, n) == IF n < floor THEN floor ELSE n
AtMost(ceiling, n) == IF n > ceiling THEN ceiling ELSE n

Tick == now < Horizon /\ records' = [records EXCEPT !.now = @ + 1]

-----------------------------------------------------------------------------
(* Giveaways.                                                              *)

GiveawayInit == records = [now |-> 0, contest |-> [state |-> "draft", snapshot |-> None, winner |-> None],
                           entry |-> <<>>, signal |-> <<>>, snapshot |-> <<>>]

ContestPublish ==
  /\ contest.state = "draft" /\ now < ClosesAt
  /\ records' = [records EXCEPT !.contest.state = "published"]

Referrers == {e \in DOMAIN entry : entry[e].state = "eligible"}

\* The referral code is a digest of the participant key, so a key that ever
\* entered, even one revoked since, is refused.
EntryRegister(key, referrer) ==
  /\ contest.state = "published" /\ contest.snapshot = None /\ now < ClosesAt
  /\ Len(entry) < MaxEntries
  /\ \A e \in DOMAIN entry : entry[e].key # key
  /\ LET entered == Append(entry, [key |-> key, referrer |-> referrer, state |-> "eligible", consent |-> "granted",
                                   weight |-> 1, decisions |-> 0])
     IN records' = [records EXCEPT !.entry =
          IF referrer = None \/ BonusCap = 0 THEN entered
          ELSE [entered EXCEPT ![referrer].weight = AtMost(1 + BonusCap, @ + 1)]]

\* What revoking does to the entry and to the weight of whoever referred it.
Revoked(e) ==
  LET gone == [entry EXCEPT ![e].state = "revoked", ![e].consent = "revoked", ![e].weight = 0]
  IN IF entry[e].referrer = None \/ contest.winner # None THEN gone
     ELSE [gone EXCEPT ![entry[e].referrer].weight = AtLeast(1, @ - 1)]

\* Mutant of EntryConsentRevoke: the frozen snapshot is left as it was.
EntryConsentRevokeLeavingSnapshot(e) ==
  /\ entry[e].state # "revoked"
  /\ records' = [records EXCEPT !.entry = Revoked(e)]

\* A frozen snapshot that was not drawn is invalidated, and the contest is
\* published again without one.
EntryConsentRevoke(e) ==
  /\ entry[e].state # "revoked"
  /\ records' =
       IF contest.snapshot # None /\ contest.winner = None
       THEN [records EXCEPT !.entry = Revoked(e), !.snapshot[contest.snapshot].state = "invalidated",
                            !.contest = [@ EXCEPT !.state = "published", !.snapshot = None]]
       ELSE [records EXCEPT !.entry = Revoked(e)]

FraudSignalRecord(e) ==
  /\ Len(signal) < MaxSignals
  /\ records' = [records EXCEPT !.signal = Append(@, [entry |-> e, reviewed |-> FALSE])]

\* The decision asks only that nothing is frozen: it also finds a revoked
\* entry eligible or excluded.
EligibilityDecide(e, decision, reviewed) ==
  /\ contest.snapshot = None /\ entry[e].decisions < MaxDecisions
  /\ \A s \in reviewed : signal[s].entry = e
  /\ records' = [records EXCEPT
       !.signal = [s \in DOMAIN signal |-> IF s \in reviewed THEN [signal[s] EXCEPT !.reviewed = TRUE] ELSE signal[s]],
       !.entry[e] = [@ EXCEPT !.state = decision, !.decisions = @ + 1,
                              !.weight = IF decision = "eligible" THEN AtLeast(1, @) ELSE 0]]

SignalsReviewed == \A s \in DOMAIN signal : signal[s].reviewed

\* What the digest of the candidates covers.
Candidates ==
  {[entry |-> e, weight |-> AtLeast(1, AtMost(1 + BonusCap, entry[e].weight)), decision |-> entry[e].decisions] :
     e \in {x \in DOMAIN entry : entry[x].state = "eligible" /\ entry[x].consent = "granted"}}

DrawSnapshotFreeze ==
  /\ contest.state = "published" /\ contest.snapshot = None /\ now >= ClosesAt
  /\ SignalsReviewed /\ Candidates # {}
  /\ Len(snapshot) < MaxSnapshots
  /\ records' = [records EXCEPT !.snapshot = Append(@, [state |-> "frozen", candidates |-> Candidates]),
                                !.contest.state = "draw-frozen", !.contest.snapshot = Len(snapshot) + 1]

\* Candidates in order hold as many tickets as they weigh.
Tickets(C) == MapThenSumSet(LAMBDA c : c.weight, C)
UpTo(c) == {d \in Candidates : d.entry <= c.entry}
SelectWinner(ticket) ==
  CHOOSE c \in Candidates : ticket < Tickets(UpTo(c)) /\ ticket >= Tickets(UpTo(c) \ {c})

\* The seed covers entropy published after the freeze: any ticket may be drawn.
WinnerDrawReveal(ticket) ==
  /\ contest.state = "draw-frozen" /\ contest.winner = None
  /\ SignalsReviewed /\ Candidates # {}
  /\ Candidates = snapshot[contest.snapshot].candidates
  /\ records' = [records EXCEPT !.contest.state = "drawn", !.contest.winner = SelectWinner(ticket).entry]

GiveawayNext ==
  \/ Tick
  \/ ContestPublish
  \/ \E p \in Participant, r \in Referrers \cup {None} : EntryRegister(p, r)
  \/ \E e \in DOMAIN entry :
       \/ EntryConsentRevoke(e)
       \/ FraudSignalRecord(e)
       \/ \E d \in {"eligible", "excluded"}, r \in SUBSET DOMAIN signal : EligibilityDecide(e, d, r)
  \/ DrawSnapshotFreeze
  \/ \E t \in 0 .. Tickets(Candidates) - 1 : WinnerDrawReveal(t)

GiveawaySpec == GiveawayInit /\ [][GiveawayNext]_records

(***************************************************************************)
(* While a draw is frozen, its snapshot is exactly the set of entrants who *)
(* may still win, each at the weight they still have; a winner was in the  *)
(* one snapshot that was never invalidated.  Entries, revocations,         *)
(* referral weights and decisions each touch a part of that.  A candidate  *)
(* wins with as many of the draws as he weighs.                            *)
(***************************************************************************)
DrawIsOfTheFrozen ==
  /\ contest.state = "draw-frozen" => snapshot[contest.snapshot] = [state |-> "frozen", candidates |-> Candidates]
  /\ contest.state = "draw-frozen" =>
       \A c \in Candidates : Cardinality({t \in 0 .. Tickets(Candidates) - 1 : SelectWinner(t) = c}) = c.weight
  /\ contest.winner # None =>
       /\ snapshot[contest.snapshot].state = "frozen"
       /\ \E c \in snapshot[contest.snapshot].candidates : c.entry = contest.winner
  /\ \A s \in DOMAIN snapshot : snapshot[s].state = "frozen" <=> s = contest.snapshot

-----------------------------------------------------------------------------
(* Testimonials.                                                           *)

TestimonialsInit == records = [now |-> 0, request |-> <<>>, testimonial |-> <<>>, publication |-> <<>>, widget |-> <<>>]

RequestDraft(expires) ==
  /\ Len(request) < MaxRequests /\ expires > now
  /\ records' = [records EXCEPT !.request = Append(@, [state |-> "draft", expires |-> expires])]

Open(q) == request[q].state = "draft" /\ request[q].expires > now

\* A source with a standing testimonial is refused; one whose testimonial was
\* revoked may submit again.
SubmissionRecord(source, q) ==
  /\ Len(testimonial) < MaxTestimonials
  /\ \A t \in DOMAIN testimonial : testimonial[t].source = source => testimonial[t].state = "revoked"
  /\ q # None => Open(q)
  /\ records' = [records EXCEPT
       !.testimonial = Append(@, [source |-> source, request |-> q, state |-> "pending-review", consent |-> "granted"]),
       !.request = IF q = None THEN @ ELSE [@ EXCEPT ![q].state = "consumed"]]

\* The hosted form derives the source from the request and its token.
SubmitTestimonial(q) == Open(q) /\ SubmissionRecord(<<"request", q>>, q)

ModerationDecide(t, state) ==
  /\ testimonial[t].state = "pending-review" /\ testimonial[t].consent = "granted"
  /\ records' = [records EXCEPT !.testimonial[t].state = state]

Accepted(t) == testimonial[t].state \in {"reviewed", "redacted"} /\ testimonial[t].consent = "granted"

PublicationVersionCreate(t) ==
  /\ Accepted(t) /\ Len(publication) < MaxPublications
  /\ records' = [records EXCEPT !.publication = Append(@, [testimonial |-> t, state |-> "draft"])]

Consented(p) == testimonial[publication[p].testimonial].consent = "granted"

PublicationPublish(p) ==
  /\ publication[p].state = "draft" /\ Consented(p)
  /\ testimonial[publication[p].testimonial].state \in {"reviewed", "redacted", "published"}
  /\ records' = [records EXCEPT !.publication[p].state = "published",
                                !.testimonial[publication[p].testimonial].state = "published"]

Shows(P) == \A p \in P : publication[p].state = "published" /\ Consented(p)

WidgetVersionCreate(key, P) ==
  /\ Len(widget) < MaxWidgets /\ P # {} /\ Shows(P)
  /\ records' = [records EXCEPT !.widget = Append(@, [key |-> key, publications |-> P, state |-> "draft"])]

WidgetPublish(w) ==
  /\ widget[w].state = "draft" /\ Shows(widget[w].publications)
  /\ records' = [records EXCEPT !.widget = [v \in DOMAIN widget |->
       [widget[v] EXCEPT !.state = IF v = w THEN "published"
                                   ELSE IF @ = "published" /\ widget[v].key = widget[w].key THEN "superseded" ELSE @]]]

OfTestimonial(t) == {p \in DOMAIN publication : publication[p].testimonial = t /\ publication[p].state # "revoked"}

\* Mutant of ConsentRevoke: the widgets that show the testimonial stay up.
ConsentRevokeLeavingWidgets(t) ==
  /\ testimonial[t].state # "revoked"
  /\ records' = [records EXCEPT
       !.testimonial[t] = [@ EXCEPT !.state = "revoked", !.consent = "revoked"],
       !.publication = [p \in DOMAIN publication |->
                          [publication[p] EXCEPT !.state = IF p \in OfTestimonial(t) THEN "revoked" ELSE @]]]

ConsentRevoke(t) ==
  /\ testimonial[t].state # "revoked"
  /\ records' = [records EXCEPT
       !.testimonial[t] = [@ EXCEPT !.state = "revoked", !.consent = "revoked"],
       !.publication = [p \in DOMAIN publication |->
                          [publication[p] EXCEPT !.state = IF p \in OfTestimonial(t) THEN "revoked" ELSE @]],
       !.widget = [w \in DOMAIN widget |->
                     [widget[w] EXCEPT !.state = IF widget[w].publications \cap OfTestimonial(t) # {}
                                                 THEN "revoked-content" ELSE @]]]

\* What an embed of the widget is answered with.
Served(w) == widget[w].state = "published"

TestimonialsNext ==
  \/ Tick
  \/ \E x \in Expiry : RequestDraft(x)
  \/ \E s \in Source, q \in DOMAIN request \cup {None} : SubmissionRecord(s, q)
  \/ \E q \in DOMAIN request : SubmitTestimonial(q)
  \/ \E t \in DOMAIN testimonial :
       \/ \E s \in {"reviewed", "redacted", "rejected"} : ModerationDecide(t, s)
       \/ PublicationVersionCreate(t)
       \/ ConsentRevoke(t)
  \/ \E p \in DOMAIN publication : PublicationPublish(p)
  \/ \E k \in WidgetKey, P \in SUBSET DOMAIN publication : WidgetVersionCreate(k, P)
  \/ \E w \in DOMAIN widget : WidgetPublish(w)

TestimonialsSpec == TestimonialsInit /\ [][TestimonialsNext]_records

(***************************************************************************)
(* What a widget shows is consented to and accepted: every publication in  *)
(* a served widget is published, of a testimonial whose author's consent   *)
(* stands; a key serves one version; a consumed request stands for one     *)
(* testimonial, and a source for one that is not revoked.                  *)
(***************************************************************************)
ShownIsConsented ==
  /\ \A w \in DOMAIN widget : Served(w) =>
       /\ \A p \in widget[w].publications :
            /\ publication[p].state = "published" /\ Consented(p)
            /\ testimonial[publication[p].testimonial].state = "published"
       /\ \A v \in DOMAIN widget : Served(v) /\ widget[v].key = widget[w].key => v = w
  /\ \A q \in DOMAIN request, t, u \in DOMAIN testimonial :
       testimonial[t].request = q /\ testimonial[u].request = q => t = u /\ request[q].state = "consumed"
  /\ \A t, u \in DOMAIN testimonial :
       testimonial[t].source = testimonial[u].source /\ t # u => "revoked" \in {testimonial[t].state, testimonial[u].state}

(***************************************************************************)
(* The inductive form: what is published is of a testimonial that is       *)
(* published and consented, a testimonial has a publication only after its *)
(* moderation, and one of a request is the one the request was consumed by.*)
(***************************************************************************)
TestimonialsInvariant ==
  /\ {"now", "request", "testimonial", "publication", "widget"} \subseteq DOMAIN records
  /\ request \in Seq([state : {"draft", "consumed"}, expires : Expiry])
  /\ testimonial \in Seq([source : Source \cup ({"request"} \X DOMAIN request), request : DOMAIN request \cup {None},
                          state : {"pending-review", "reviewed", "redacted", "rejected", "published", "revoked"},
                          consent : {"granted", "revoked"}])
  /\ publication \in Seq([testimonial : DOMAIN testimonial, state : {"draft", "published", "revoked"}])
  /\ widget \in Seq([key : WidgetKey, publications : SUBSET DOMAIN publication,
                     state : {"draft", "published", "superseded", "revoked-content"}])
  /\ \A t \in DOMAIN testimonial : /\ testimonial[t].state = "revoked" <=> testimonial[t].consent = "revoked"
                                   /\ testimonial[t].request # None => request[testimonial[t].request].state = "consumed"
  /\ \A p \in DOMAIN publication :
       /\ testimonial[publication[p].testimonial].state # "pending-review"
       /\ publication[p].state = "published" => testimonial[publication[p].testimonial].state = "published"
  /\ ShownIsConsented

-----------------------------------------------------------------------------
(* Brand pages.                                                            *)

BrandPagesInit == records = [route |-> <<>>, destination |-> <<>>, version |-> <<>>]

Create(kind, slug, state) ==
  /\ Len(route) < MaxRoutes
  /\ \A r \in DOMAIN route : route[r].kind = kind /\ route[r].slug = slug => route[r].state = "disabled"
  /\ records' = [records EXCEPT !.route = Append(@, [kind |-> kind, slug |-> slug, state |-> state, active |-> None])]

PageCreate(slug) == Create("page", slug, "private")
QrRouteCreate(slug) == Create("qr-route", slug, "inactive")

\* A link destination of a page; nothing disables one.
DestinationVersionCreate(r, key) ==
  /\ route[r].kind = "page" /\ route[r].state # "disabled" /\ Len(destination) < MaxDestinations
  /\ records' = [records EXCEPT !.destination = Append(@, [page |-> r, key |-> key])]

Drafted(r, links) ==
  /\ route[r].state # "disabled" /\ Len(version) < MaxVersions
  /\ records' = [records EXCEPT !.version = Append(@, [route |-> r, links |-> links, state |-> "draft"])]

PageVersionCreate(r, links) ==
  /\ route[r].kind = "page"
  /\ \A d \in links : destination[d].page = r
  /\ \A d, e \in links : destination[d].key = destination[e].key => d = e
  /\ Drafted(r, links)

QrDestinationVersionCreate(r) == route[r].kind = "qr-route" /\ Drafted(r, {})

\* Every other version of the route that was out is superseded.
OutInstead(v, out) ==
  [u \in DOMAIN version |->
     [version[u] EXCEPT !.state = IF u = v THEN out
                                  ELSE IF @ = out /\ version[u].route = version[v].route THEN "superseded" ELSE @]]

Publish(v, kind, out) ==
  LET r == version[v].route
  IN /\ version[v].state = "draft" /\ route[r].kind = kind /\ route[r].state # "disabled"
     /\ records' = [records EXCEPT !.version = OutInstead(v, out), !.route[r].state = out, !.route[r].active = v]

PageVersionPublish(v) == Publish(v, "page", "published")

\* Mutant of QrDestinationActivate: the route is not looked at.
QrDestinationActivateAnyway(v) ==
  /\ version[v].state = "draft" /\ route[version[v].route].kind = "qr-route"
  /\ records' = [records EXCEPT !.version = OutInstead(v, "active"), !.route[version[v].route].state = "active",
                                !.route[version[v].route].active = v]

QrDestinationActivate(v) == Publish(v, "qr-route", "active")

\* The versions of a disabled route keep their state.
RouteDisable(r) ==
  /\ route[r].state # "disabled"
  /\ records' = [records EXCEPT !.route[r] = [@ EXCEPT !.state = "disabled", !.active = None]]

\* What a public page address, and a public QR address, resolve to.
Matches(kind, slug, out) == {r \in DOMAIN route : route[r].kind = kind /\ route[r].slug = slug /\ route[r].state = out}

Resolved(kind, slug, out) ==
  IF Cardinality(Matches(kind, slug, out)) # 1 THEN None
  ELSE LET r == CHOOSE r \in Matches(kind, slug, out) : TRUE
           v == route[r].active
       IN IF v # None /\ version[v].state = out /\ version[v].route = r THEN v ELSE None

Page(slug) == Resolved("page", slug, "published")
Qr(slug)   == Resolved("qr-route", slug, "active")

BrandPagesNext ==
  \/ \E s \in Slug : PageCreate(s) \/ QrRouteCreate(s)
  \/ \E r \in DOMAIN route :
       \/ \E k \in LinkKey : DestinationVersionCreate(r, k)
       \/ \E links \in SUBSET DOMAIN destination : PageVersionCreate(r, links)
       \/ QrDestinationVersionCreate(r)
       \/ RouteDisable(r)
  \/ \E v \in DOMAIN version : PageVersionPublish(v) \/ QrDestinationActivate(v)

BrandPagesSpec == BrandPagesInit /\ [][BrandPagesNext]_records

(***************************************************************************)
(* A public address is never ambiguous and never dark by accident: a slug  *)
(* has at most one route of a kind that is not disabled, and the address   *)
(* of one that was published resolves to the last version put out there,   *)
(* the only version of that route in its public state.                     *)
(***************************************************************************)
AddressResolves ==
  \A r \in DOMAIN route :
    /\ \A q \in DOMAIN route :
         route[q].kind = route[r].kind /\ route[q].slug = route[r].slug /\ q # r =>
           "disabled" \in {route[q].state, route[r].state}
    /\ route[r].state \in {"published", "active"} =>
         LET v == Resolved(route[r].kind, route[r].slug, route[r].state)
         IN /\ v # None
            /\ {u \in DOMAIN version : version[u].route = r /\ version[u].state = route[r].state} = {v}
            /\ \A d \in version[v].links : destination[d].page = r
=============================================================================
