------------------------------ MODULE Schedule ------------------------------
(***************************************************************************)
(* The schedule module: hosts, schedule revisions with their availability, *)
(* event releases on a published revision, and bookings, which members and *)
(* the public portal make, move and cancel.  Every command runs in a       *)
(* transaction of the workspace, so the in-process lock of a host adds     *)
(* nothing to it.  A visitor's booking page lists the free slots once,     *)
(* again only when it is told that its slot is gone, and sends one         *)
(* idempotency key however often he tries; a member's repeated key changes *)
(* nothing, a new one is always to be had.  Time is counted in the smallest slot, a revision  *)
(* has one window, and a content hash stands for fields nothing rewrites.  *)
(***************************************************************************)
EXTENDS Naturals, Sequences, FiniteSets

CONSTANTS
  Slug, Duration, Horizon,
  Page,      \* open booking pages, each with the key it was given
  MaxHosts, MaxRevisions, MaxReleases, MaxBookings, MaxVersion

VARIABLE records   \* hosts, revisions, releases, bookings, their events, and pages

host     == records.host
revision == records.revision
release  == records.release
booking  == records.booking
log      == records.log
page     == records.page

NoBooking == 0
NoPage    == 0
Window == {w \in [from : 0 .. Horizon, to : 0 .. Horizon] : w.from < w.to}

NotOpened == [release |-> 0, slots |-> {}, loading |-> FALSE, booked |-> NoBooking]
Init == records = [host |-> 0, revision |-> <<>>, release |-> <<>>, booking |-> <<>>, log |-> {},
                   page |-> [p \in Page |-> NotOpened]]

HostCreate == host < MaxHosts /\ records' = [records EXCEPT !.host = @ + 1]

ScheduleDraft(hosts, window) ==
  /\ Len(revision) < MaxRevisions /\ hosts # {}
  /\ records' = [records EXCEPT !.revision = Append(@, [hosts |-> hosts, window |-> window, state |-> "draft"])]

SchedulePublish(r) ==
  /\ revision[r].state = "draft"
  /\ records' = [records EXCEPT !.revision[r].state = "published"]

EventDraft(slug, r, hosts, duration) ==
  /\ Len(release) < MaxReleases
  /\ revision[r].state = "published" /\ hosts # {} /\ hosts \subseteq revision[r].hosts
  /\ \A e \in DOMAIN release : release[e].slug # slug
  /\ records' = [records EXCEPT !.release =
       Append(@, [slug |-> slug, revision |-> r, hosts |-> hosts, duration |-> duration, state |-> "draft"])]

EventPublish(e) ==
  /\ release[e].state = "draft"
  /\ records' = [records EXCEPT !.release[e].state = "published"]

WindowOf(e) == revision[release[e].revision].window
Allows(e, i)  == i.from >= WindowOf(e).from /\ i.to <= WindowOf(e).to
Aligned(e, i) == (i.from - WindowOf(e).from) % release[e].duration = 0

Overlap(a, b) == a.from < b.to /\ b.from < a.to
Active == {b \in DOMAIN booking : booking[b].state = "confirmed"}

\* Mutant of Free: only bookings of the same release are compared.
FreeInRelease(h, e, i, except) ==
  \A b \in Active \ {except} : booking[b].host = h /\ booking[b].release = e => ~Overlap(booking[b].at, i)

\* A host is free of every release's bookings, whichever of them is asked for.
Free(h, e, i, except) == \A b \in Active \ {except} : booking[b].host = h => ~Overlap(booking[b].at, i)

New(e, h, i, predecessor, p) ==
  [release |-> e, host |-> h, at |-> i, state |-> "confirmed", version |-> 1, predecessor |-> predecessor, page |-> p]

Fits(e, i) == i.to - i.from = release[e].duration /\ Allows(e, i) /\ Aligned(e, i)

Booked(e, h, i, p) ==
  [records EXCEPT !.booking = Append(@, New(e, h, i, NoBooking, p)),
                  !.log = @ \cup {[of |-> Len(booking) + 1, type |-> "created"]}]

BookingCreate(e, h, i) ==
  /\ Len(booking) < MaxBookings
  /\ release[e].state = "published" /\ h \in release[e].hosts
  /\ Fits(e, i) /\ Free(h, e, i, NoBooking)
  /\ records' = Booked(e, h, i, NoPage)

\* The replacement must lie in the window; neither the duration nor the slot
\* grid of the release is asked of it.
BookingReschedule(b, i, expected) ==
  /\ Len(booking) < MaxBookings
  /\ booking[b].state = "confirmed" /\ booking[b].version = expected
  /\ Allows(booking[b].release, i) /\ Free(booking[b].host, booking[b].release, i, b)
  /\ records' = [records EXCEPT
       !.booking = Append([@ EXCEPT ![b].state = "rescheduled", ![b].version = expected + 1],
                          New(booking[b].release, booking[b].host, i, b, NoPage)),
       !.log = @ \cup {[of |-> b, type |-> "rescheduled"]}]

BookingCancel(b, expected) ==
  /\ booking[b].state = "confirmed" /\ booking[b].version = expected
  /\ records' = [records EXCEPT !.booking[b].state = "canceled", !.booking[b].version = expected + 1,
                                !.log = @ \cup {[of |-> b, type |-> "canceled"]}]

OpenBookingPage(p, e) ==
  /\ page[p] = NotOpened /\ release[e].state = "published"
  /\ records' = [records EXCEPT !.page[p] = [NotOpened EXCEPT !.release = e, !.loading = TRUE]]

\* Nothing is held for the visitor; an answer that is lost leaves no slots.
Slots(e) == {s \in [host : release[e].hosts, at : Window] : Fits(e, s.at) /\ Free(s.host, e, s.at, NoBooking)}
LoadSlots(p, arrives) ==
  /\ page[p].loading
  /\ records' = [records EXCEPT !.page[p].slots = IF arrives THEN Slots(page[p].release) ELSE {},
                                !.page[p].loading = FALSE]

Chooses(p, s) == ~page[p].loading /\ page[p].booked = NoBooking /\ s \in page[p].slots
Of(p) == {b \in DOMAIN booking : booking[b].page = p}

\* The visitor confirms a slot that was listed; the answer may be lost.
Confirm(p, s, arrives) ==
  /\ Chooses(p, s) /\ Of(p) = {}
  /\ Len(booking) < MaxBookings /\ Free(s.host, page[p].release, s.at, NoBooking)
  /\ records' = [Booked(page[p].release, s.host, s.at, p) EXCEPT
       !.page[p].booked = IF arrives THEN Len(booking) + 1 ELSE NoBooking]

\* The booking his key made is answered again, whatever became of it since;
\* asked for another slot, the key is refused and nothing changes.
ConfirmAgain(p, s) ==
  /\ Chooses(p, s)
  /\ \E b \in Of(p) :
       /\ booking[b].host = s.host /\ booking[b].at = s.at
       /\ records' = [records EXCEPT !.page[p].booked = b]

\* A slot that is gone is refused, and the page lists the slots anew.
SlotTaken(p, s) ==
  /\ Chooses(p, s) /\ Of(p) = {}
  /\ ~Free(s.host, page[p].release, s.at, NoBooking)
  /\ records' = [records EXCEPT !.page[p].slots = {}, !.page[p].loading = TRUE]

Next ==
  \/ HostCreate
  \/ \E H \in SUBSET (1 .. host), w \in Window : ScheduleDraft(H, w)
  \/ \E r \in DOMAIN revision :
       \/ SchedulePublish(r)
       \/ \E s \in Slug, H \in SUBSET (1 .. host), d \in Duration : EventDraft(s, r, H, d)
  \/ \E e \in DOMAIN release :
       \/ EventPublish(e)
       \/ \E h \in 1 .. host, i \in Window : BookingCreate(e, h, i)
  \/ \E p \in Page :
       \/ \E e \in DOMAIN release : OpenBookingPage(p, e)
       \/ \E arrives \in BOOLEAN : LoadSlots(p, arrives) \/ \E s \in page[p].slots : Confirm(p, s, arrives)
       \/ \E s \in page[p].slots : ConfirmAgain(p, s) \/ SlotTaken(p, s)
  \/ \E b \in DOMAIN booking, v \in 1 .. MaxVersion : BookingCancel(b, v) \/ \E i \in Window : BookingReschedule(b, i, v)

Spec == Init /\ [][Next]_records

-----------------------------------------------------------------------------
Successors(b) == {c \in DOMAIN booking : booking[c].predecessor = b}

\* Whatever releases share a host and however bookings are moved, no host has
\* two standing bookings at one time, a booking that was moved has exactly one
\* successor, with the host and the release it had, and what happened to a
\* booking is what the append-only log says.
HostsAreNotDoubleBooked ==
  /\ \A b, c \in Active : b # c /\ booking[b].host = booking[c].host => ~Overlap(booking[b].at, booking[c].at)
  /\ \A b \in DOMAIN booking :
       /\ Cardinality(Successors(b)) = IF booking[b].state = "rescheduled" THEN 1 ELSE 0
       /\ \A c \in Successors(b) : booking[c].host = booking[b].host /\ booking[c].release = booking[b].release
       /\ booking[b].state # "confirmed" => [of |-> b, type |-> booking[b].state] \in log
\* A visitor's page books once, at a slot it listed, however its answers are
\* lost and its slots taken: his key stands for at most one booking, the one he
\* is told of, and he is sent to choose again only while he has none.
VisitorsBookOnce ==
  \A p \in Page :
    /\ Cardinality(Of(p)) <= 1
    /\ page[p].loading => Of(p) = {}
    /\ page[p].booked # NoBooking => Of(p) = {page[p].booked}
    /\ \A b \in Of(p) :
         /\ booking[b].release = page[p].release
         /\ [host |-> booking[b].host, at |-> booking[b].at] \in page[p].slots
         /\ Fits(booking[b].release, booking[b].at)
\* Why they hold.  What refers to something refers to what there is, a booking
\* follows an older one, and what a page listed fits the release it is for.
ScheduleInvariant ==
  /\ {"host", "revision", "release", "booking", "log", "page"} \subseteq DOMAIN records
  /\ host \in Nat
  /\ revision \in Seq([hosts : SUBSET Nat, window : Window, state : {"draft", "published"}])
  /\ release \in Seq([slug : Slug, revision : DOMAIN revision, hosts : SUBSET Nat, duration : Duration, state : {"draft", "published"}])
  /\ booking \in Seq([release : DOMAIN release, host : Nat, at : Window, state : {"confirmed", "rescheduled", "canceled"},
                      version : Nat, predecessor : Nat, page : Page \cup {NoPage}])
  /\ page \in [Page -> [release : Nat, slots : SUBSET [host : Nat, at : Window], loading : BOOLEAN, booked : Nat]]
  /\ \A b \in DOMAIN booking : booking[b].predecessor < b
  /\ \A p \in Page :
       /\ page[p].loading \/ page[p].slots # {} => page[p].release \in DOMAIN release
       /\ \A s \in page[p].slots : Fits(page[p].release, s.at)
  /\ HostsAreNotDoubleBooked /\ VisitorsBookOnce
=============================================================================
