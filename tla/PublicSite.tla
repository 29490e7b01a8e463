----------------------------- MODULE PublicSite -----------------------------
(***************************************************************************)
(* The public pages of a workspace: the testimonials wall and its widgets, *)
(* brand pages and QR codes, the pages of a giveaway, short links, a       *)
(* knowledge library, a feedback board.  A request from a visitor reads    *)
(* the collections it needs one query at a time, without the workspace's   *)
(* lock, while members and other visitors change them by the commands of   *)
(* the engine; it is answered from what it has read.                       *)
(*                                                                         *)
(* view keeps, beside what the visitor has read, what was public at some   *)
(* moment of his request (ever) and at every moment of it (always).        *)
(***************************************************************************)
EXTENDS Integers, Sequences, FiniteSets, FiniteSetsExt, Relation, TLC

CONSTANTS
  Surface,       \* which public pages the workspace has
  ReceiptLimit,  \* how many of the newest receipts a request reads
  MaxRevisions, MaxSources, MaxPublished

VARIABLES records,   \* of the module behind the pages
          view       \* the pages, and the one visitor we follow

ClosesAt == 1     \* of the contest

Growth == INSTANCE Growth WITH
  Horizon <- 1, Participant <- {"p"}, BonusCap <- 1, ClosesAt <- ClosesAt, MaxEntries <- 1,
  MaxSignals <- 0, MaxDecisions <- 1, MaxSnapshots <- 2,
  Source <- {<<"direct", 1>>}, WidgetKey <- {"k"}, Expiry <- {1}, MaxRequests <- 1,
  MaxTestimonials <- 1, MaxPublications <- 1, MaxWidgets <- 1,
  Slug <- {"s"}, LinkKey <- {"k"}, MaxRoutes <- 1, MaxDestinations <- 1, MaxVersions <- 2
Links == INSTANCE CorePublishing WITH
  RouteKey <- {<<"h", "s">>, <<"g", "s">>}, Content <- {"c"}, Decision <- {1, 2}, Key <- {1, 2}, Delivery <- {},
  MaxRoutes <- 2, MaxVersions <- 2, MaxDocuments <- 0, MaxUses <- 0
Board == INSTANCE CoreWork WITH
  Project <- {}, Voter <- {"u"}, Terminal <- 0, Limited <- {}, Limit <- 1, MaxItems <- 0,
  MaxRequests <- 2, MaxEntries <- 0,
  Delivery <- {}, Assignee <- {}, ExternalKey <- {}, Domain <- {}, Decision <- {},
  MaxConversations <- 0, MaxMessages <- 0, MaxOpportunities <- 0, MaxVersion <- 0

Idle     == <<>>
surface == view.surface
query   == view.query    \* what is asked for, Idle between requests
seen    == view.seen     \* the collections read so far
since   == view.since    \* receipts saved since that of the contest's publication

-----------------------------------------------------------------------------
(* A knowledge library: revisions, each of an earlier one or of none, and  *)
(* the sources linked to them.                                             *)
NoParent == 0

LibraryInit == \E access \in {"public", "workspace"} :
  records = [access |-> access, revision |-> <<>>, source |-> <<>>, published |-> 0]

PageRevisionDraft(parent) ==
  /\ Len(records.revision) < MaxRevisions
  /\ records' = [records EXCEPT !.revision = Append(@, [parent |-> parent, state |-> "draft", at |-> 0])]

\* Publishing a published revision again makes it the newest.
PageRevisionPublish(r) ==
  /\ records.published < MaxPublished
  /\ records' = [records EXCEPT !.revision[r].state = "published", !.revision[r].at = records.published + 1,
                                !.published = @ + 1]

SourceLink(r) ==
  /\ Len(records.source) < MaxSources
  /\ records' = [records EXCEPT !.source = Append(@, r)]

LibraryNext ==
  \/ \E p \in DOMAIN records.revision \cup {NoParent} : PageRevisionDraft(p)
  \/ \E r \in DOMAIN records.revision : PageRevisionPublish(r) \/ SourceLink(r)

-----------------------------------------------------------------------------
(* What an answer shows, from the collections S it was read into.          *)

\* A publication on the wall.
ValidatePublication(S, p) ==
  LET t == S.publication[p].testimonial
  IN /\ S.publication[p].state = "published"
     /\ {t} \subseteq DOMAIN S.testimonial \cap DOMAIN S.consent \cap DOMAIN S.decision
     /\ S.testimonial[t] # "revoked"
     /\ S.consent[t] = "granted"
     /\ S.decision[t] \notin {"pending-review", "rejected"}

Testimonials(S) == {p \in DOMAIN S.publication : ValidatePublication(S, p)}

\* A widget is shown whole or not at all.
Widget(S, w) ==
  IF /\ w \in DOMAIN S.widget /\ S.widget[w].state = "published"
     /\ \A p \in S.widget[w].publications : p \in DOMAIN S.publication /\ ValidatePublication(S, p)
  THEN {w} ELSE {}

\* The request a testimonial is submitted to.
CollectionRequest(S, q) == q \in DOMAIN S.request /\ S.request[q].expires > records.now

ResolvePage(S, r, v) ==
  /\ S.route[r].kind = "page" /\ S.route[r].state = "published" /\ S.route[r].active = v
  /\ S.version[v].state = "published" /\ S.version[v].route = r
  /\ \A d \in S.version[v].links : d \in DOMAIN S.destination /\ S.destination[d].page = r

Out(S, kind, slug, state) ==
  {r \in DOMAIN S.route : S.route[r].kind = kind /\ S.route[r].slug = slug /\ S.route[r].state = state}

Page(S, slug) ==
  {v \in DOMAIN S.version : Cardinality(Out(S, "page", slug, "published")) = 1 /\
     \E r \in Out(S, "page", slug, "published") : ResolvePage(S, r, v)}

PageByWorkspaceId(S, v) ==
  IF v \in DOMAIN S.version /\ S.version[v].route \in DOMAIN S.route /\ ResolvePage(S, S.version[v].route, v)
  THEN {v} ELSE {}

Pages(S) == UNION {Page(S, S.route[r].slug) : r \in DOMAIN S.route}

Qr(S, slug) ==
  {v \in DOMAIN S.version : Cardinality(Out(S, "qr-route", slug, "active")) = 1 /\
     \E r \in Out(S, "qr-route", slug, "active") :
       S.route[r].active = v /\ S.version[v].state = "active" /\ S.version[v].route = r}

\* The state a contest is shown in.  Its publication must be among the
\* receipts, and the proof among the proofs that were read.
PublicContest(S, clock) ==
  IF S.contest = "draft" \/ ~ S.receipt THEN {}
  ELSE IF S.contest = "drawn"
       THEN {<<"drawn", w>> : w \in {S.proof} \ {0}}
       ELSE IF S.contest = "draw-frozen" THEN {<<"draw-pending">>}
       ELSE IF clock < ClosesAt THEN {<<"open">>} ELSE {<<"closed">>}

OpenApprovedContest(S, clock) == S.contest = "published" /\ S.receipt /\ clock < ClosesAt

ContestsBySlug(S) == {x \in {<<"open">>} : OpenApprovedContest(S, records.now)}

\* A short link.  At the platform's own address any hostname's route answers,
\* if only one does.
RouteKitDestination(S, host, slug) ==
  LET candidates == {r \in DOMAIN S.route : S.route[r].state = "active" /\ S.route[r].key[2] = slug
                                              /\ (host # "any" => S.route[r].key[1] = host)}
  IN {v \in DOMAIN S.version \cap S.receipt :
        /\ Cardinality(candidates) = 1
        /\ \E r \in candidates : S.route[r].active = v /\ S.version[v].route = r
        /\ S.version[v].state = "published"}

PublicLibrary(S) == S.access = "public"

PublishedRevision(S, r) == S.revision[r].state = "published"
ValidRevisions(S) == {r \in DOMAIN S.revision : PublishedRevision(S, r)}

\* The first of a revision's ancestors whose parent is not published.
ResolveRoots(S) ==
  LET root[r \in DOMAIN S.revision] ==
        IF S.revision[r].parent \in ValidRevisions(S) THEN root[S.revision[r].parent] ELSE r
  IN root

Latest(S, r) ==
  CHOOSE l \in ValidRevisions(S) :
    /\ ResolveRoots(S)[l] = ResolveRoots(S)[r]
    /\ \A o \in ValidRevisions(S) : ResolveRoots(S)[o] = ResolveRoots(S)[r] => S.revision[o].at <= S.revision[l].at

Snapshot(S) == {r \in ValidRevisions(S) : PublicLibrary(S) /\ Latest(S, r) = r}

PublicSource(S, s, r) == S.source[s] = r

PageView(S, r) ==
  IF PublicLibrary(S) /\ r \in ValidRevisions(S)
  THEN {<<"revision", r>>, <<"latest", Latest(S, r)>>}
       \cup {<<"source", s>> : s \in {x \in DOMAIN S.source : PublicSource(S, x, r)}}
  ELSE {}

\* A request of the board that has not been merged into another.
PublicRequest(S, r) == S.request[r].state # "merged"

BoardSnapshot(S) == {<<r, S.request[r].state>> : r \in {q \in DOMAIN S.request : PublicRequest(S, q)}}

-----------------------------------------------------------------------------
\* What a request can be for: the routes of each surface.
WallQueries    == {<<"testimonials">>} \cup {<<"widget", w>> : w \in DOMAIN records.widget}
CollectQueries == {<<"submit", q>> : q \in DOMAIN records.request}
PageQueries    == {<<"page", "s">>, <<"pages">>, <<"qr", "s">>} \cup {<<"embed", v>> : v \in DOMAIN records.version}
OutQueries     == {<<"out", v, d>> : v \in DOMAIN records.version, d \in DOMAIN records.destination}
ContestQueries == {<<"contest">>}
EntryQueries   == {<<"contests">>, <<"enter", "p">>}
LinkQueries    == {<<"link", h, "s">> : h \in {"h", "any"}}
LibraryQueries == {<<"library">>} \cup {<<"page", r>> : r \in DOMAIN records.revision}
BoardQueries   == {<<"board">>}

Queries ==
  CASE surface = "wall"    -> WallQueries \cup CollectQueries
    [] surface = "brand"   -> PageQueries \cup OutQueries
    [] surface = "contest" -> ContestQueries \cup EntryQueries
    [] surface = "links"   -> LinkQueries
    [] surface = "library" -> LibraryQueries
    [] surface = "board"   -> BoardQueries

\* The collections it reads: those of one stage in any order, the stages one
\* after the other.
Stages(q) ==
  CASE q[1] = "contest" -> <<{"contest", "receipt", "proof"}>>
    [] q[1] \in {"contests", "enter"} -> <<{"contest", "receipt"}>>
    [] q[1] = "testimonials" -> <<{"publication", "testimonial", "consent", "decision"}>>
    [] q[1] = "widget" -> <<{"widget"}, {"publication", "testimonial", "consent", "decision"}>>
    [] q[1] = "submit" -> <<{"request"}>>
    [] q[1] = "page" /\ surface = "brand" -> <<{"route"}, {"version"}, {"destination"}>>
    [] q[1] \in {"embed", "out"} -> <<{"version"}, {"route"}, {"destination"}>>
    [] q[1] = "pages" -> <<{"route", "version"}, {"destination"}>>
    [] q[1] = "qr"    -> <<{"route"}, {"version"}>>
    [] q[1] = "link"  -> <<{"route", "version", "receipt"}>>
    [] q[1] = "library" -> <<{"access"}, {"revision"}>>
    [] q[1] = "page" /\ surface = "library" -> <<{"access"}, {"revision"}, {"source"}>>
    [] q[1] = "board" -> <<{"request"}>>

Stage == IF query = Idle THEN <<>> ELSE Stages(query)

\* The receipt of a publication is saved with it; a contest's may have been
\* pushed out of those that are read by the receipts saved since.
Collection(c) ==
  CASE c \in {"testimonial", "decision"} -> [t \in DOMAIN records.testimonial |-> records.testimonial[t].state]
    [] c = "consent" -> [t \in DOMAIN records.testimonial |-> records.testimonial[t].consent]
    [] c = "receipt" -> IF surface = "links" THEN {v \in DOMAIN records.version : records.version[v].state = "published"}
                        ELSE records.contest.state # "draft" /\ since < ReceiptLimit
    [] c = "proof"   -> records.contest.winner
    [] c = "contest" -> records.contest.state
    [] OTHER -> records[c]

Answer(q, S) ==
  CASE q[1] = "testimonials" -> Testimonials(S)
    [] q[1] = "widget"  -> Widget(S, q[2])
    [] q[1] = "page"    -> IF surface = "brand" THEN Page(S, q[2]) ELSE PageView(S, q[2])
    [] q[1] = "embed"   -> PageByWorkspaceId(S, q[2])
    [] q[1] = "out"     -> {v \in PageByWorkspaceId(S, q[2]) : q[3] \in S.version[v].links}
    [] q[1] = "pages"   -> Pages(S)
    [] q[1] = "qr"      -> Qr(S, q[2])
    [] q[1] = "contest" -> PublicContest(S, view.clock)
    [] q[1] = "contests" -> ContestsBySlug(S)
    [] q[1] = "link"    -> RouteKitDestination(S, q[2], q[3])
    [] q[1] = "library" -> Snapshot(S)
    [] q[1] = "board"   -> BoardSnapshot(S)
    [] q[1] \in {"submit", "enter"} -> {}

-----------------------------------------------------------------------------
(* What is public while the records are R, as the engines promise it.      *)
Live(R, kind, slug, state) ==
  {R.route[r].active : r \in {x \in DOMAIN R.route : R.route[x].kind = kind /\ R.route[x].slug = slug /\ R.route[x].state = state}}

\* Two revisions belong to one page when published revisions connect them.
Public(R) == {r \in DOMAIN R.revision : R.revision[r].state = "published"}
OnePage(R) == ReflexiveTransitiveClosure(
  [a, b \in Public(R) |-> R.revision[a].parent = b \/ R.revision[b].parent = a], Public(R))
Newest(R, r) ==
  {l \in Public(R) : OnePage(R)[r, l] /\ \A o \in Public(R) : OnePage(R)[r, o] => R.revision[o].at <= R.revision[l].at}

Truth(q, R) ==
  CASE q[1] = "testimonials" ->
         {p \in DOMAIN R.publication : R.publication[p].state = "published"
                                        /\ R.testimonial[R.publication[p].testimonial].consent = "granted"}
    [] q[1] = "widget" -> {w \in {q[2]} : R.widget[w].state = "published"}
    [] q[1] = "page" /\ surface = "brand" -> Live(R, "page", q[2], "published")
    [] q[1] = "pages" -> Live(R, "page", "s", "published")
    [] q[1] = "embed" -> {v \in {q[2]} : v \in Live(R, "page", "s", "published")}
    [] q[1] = "out"   -> {v \in {q[2]} : v \in Live(R, "page", "s", "published") /\ q[3] \in R.version[v].links}
    [] q[1] = "qr"    -> Live(R, "qr-route", q[2], "active")
    [] q[1] = "contest" ->
         (CASE R.contest.state = "draft"      -> {}
           [] R.contest.state = "published"   -> {IF R.now < ClosesAt THEN <<"open">> ELSE <<"closed">>}
           [] R.contest.state = "draw-frozen" -> {<<"draw-pending">>}
           [] R.contest.state = "drawn"       -> {<<"drawn", R.contest.winner>>})
    [] q[1] = "contests" -> {x \in {<<"open">>} : R.contest.state = "published" /\ R.now < ClosesAt}
    [] q[1] = "link"  ->
         LET live == {r \in DOMAIN R.route : R.route[r].state = "active" /\ (q[2] # "any" => R.route[r].key[1] = q[2])}
         IN IF Cardinality(live) = 1 THEN {R.route[r].active : r \in live} ELSE {}
    [] q[1] = "library" -> IF R.access = "public" THEN UNION {Newest(R, r) : r \in Public(R)} ELSE {}
    [] q[1] = "page" /\ surface = "library" ->
         IF R.access = "public" /\ q[2] \in Public(R)
         THEN {<<"revision", q[2]>>} \cup {<<"latest", l>> : l \in Newest(R, q[2])}
              \cup {<<"source", s>> : s \in {x \in DOMAIN R.source : R.source[x] = q[2]}}
         ELSE {}
    [] q[1] = "board" -> {<<r, R.request[r].state>> : r \in {x \in DOMAIN R.request : R.request[x].state # "merged"}}
    [] q[1] \in {"submit", "enter"} -> {}

-----------------------------------------------------------------------------
Blank == [query |-> Idle, seen |-> <<>>, clock |-> 0, ever |-> {}, always |-> {}]

Init == \E s \in Surface :
  /\ \/ s = "wall"    /\ Growth!TestimonialsInit
     \/ s = "brand"   /\ Growth!BrandPagesInit
     \/ s = "contest" /\ Growth!GiveawayInit
     \/ s = "links"   /\ Links!Init
     \/ s = "library" /\ LibraryInit
     \/ s = "board"   /\ Board!Init
  /\ \E p \in IF s = "board" THEN {"public", "members"} ELSE {"public"} :
       view = [surface |-> s, policy |-> p, since |-> 0] @@ Blank

\* A request arrives, and makes its first query; the clock is read as it does.
Ask(q, c) ==
  /\ query = Idle /\ c \in Stages(q)[1]
  /\ view' = [view EXCEPT !.query = q, !.seen = c :> Collection(c),
                          !.ever = Truth(q, records), !.always = Truth(q, records),
                          !.clock = IF surface = "contest" THEN records.now ELSE 0]
  /\ UNCHANGED records

Left == {i \in DOMAIN Stage : ~ (Stage[i] \subseteq DOMAIN seen)}
Complete == query # Idle /\ Left = {}

ReadCollection(c) ==
  /\ Left # {} /\ c \in Stage[Min(Left)] \ DOMAIN seen
  /\ view' = [view EXCEPT !.seen = (c :> Collection(c)) @@ @]
  /\ UNCHANGED records

\* The answer is sent, or the visitor goes away.
Leave == query # Idle /\ view' = Blank @@ view /\ UNCHANGED records

\* What a commit does to the request that is being read: it is of one moment.
\* Every command leaves a receipt.
Seen(v) ==
  [v EXCEPT
     !.since = IF surface = "contest" /\ records.contest.state # "draft" /\ records'.now = records.now /\ @ < ReceiptLimit
               THEN @ + 1 ELSE @,
     !.ever = IF v.query = Idle THEN {} ELSE @ \cup Truth(v.query, records'),
     !.always = IF v.query = Idle THEN {} ELSE @ \cap Truth(v.query, records')]

\* The members' commands, and those of visitors that need no earlier look.  A
\* page is answered with what the last of its queries returns; a command that a
\* visitor asks for may find that others came first.
Command ==
  /\ Complete => query[1] \in {"submit", "enter"}
  /\ \/ surface = "wall"    /\ Growth!TestimonialsNext
     \/ surface = "brand"   /\ Growth!BrandPagesNext
     \/ surface = "contest" /\ Growth!GiveawayNext
     \/ surface = "links"   /\ Links!LinksNext
     \/ surface = "library" /\ LibraryNext
     \/ surface = "board"   /\ Board!FeedbackNext
  /\ view' = Seen(view)

\* A vote is cast, and counted, in one transaction with the look at the board.
SubmitVote(r, v, d) ==
  /\ view.policy = "public" /\ PublicRequest(records, r)
  /\ Board!VoteCast(r, v, d)
  /\ view' = Seen(view)

SubmitRequest == Board!RequestSubmit /\ view' = Seen(view)

\* An entry through the hosted form, and a testimonial through the page of its
\* request: refused by what was read, or else decided by the command.
EnterGiveaway(referrer) ==
  /\ Complete /\ OpenApprovedContest(seen, records.now)
  /\ Growth!EntryRegister(query[2], referrer)
  /\ view' = Seen(Blank @@ view)

SubmitTestimonial(q) ==
  /\ Complete /\ CollectionRequest(seen, q)
  /\ Growth!SubmitTestimonial(q)
  /\ view' = Seen(Blank @@ view)

Next ==
  \/ \E q \in Queries : \E c \in Stages(q)[1] : Ask(q, c)
  \/ \E c \in UNION {Stage[i] : i \in DOMAIN Stage} : ReadCollection(c)
  \/ Leave
  \/ Command
  \/ surface = "board" /\ SubmitRequest
  \/ surface = "board" /\ \E r \in DOMAIN records.request, d \in {"up", "withdraw"} : SubmitVote(r, "u", d)
  \/ query # Idle /\ query[1] = "enter" /\ \E e \in Growth!Referrers \cup {0} : EnterGiveaway(e)
  \/ query # Idle /\ query[1] = "submit" /\ SubmitTestimonial(query[2])

Spec == Init /\ [][Next]_<<records, view>>

-----------------------------------------------------------------------------
(***************************************************************************)
(* Whatever commits while a request is read, a visitor is shown only what  *)
(* was public at some moment of it, and all that was public throughout:    *)
(* nothing withdrawn before he asked, no page that belongs to an unpublished *)
(* version, and no page missing because another was published meanwhile.   *)
(* A contest's page needs its publication among the newest receipts.       *)
(***************************************************************************)
ReadersSeeWhatIsPublic == Complete =>
  LET shown == Answer(query, seen)
  IN shown \subseteq view.ever /\ (since < ReceiptLimit => view.always \subseteq shown)
=============================================================================
