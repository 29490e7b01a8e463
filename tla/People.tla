------------------------------- MODULE People -------------------------------
(***************************************************************************)
(* The people module of the extended business engine and the membership of *)
(* the workspace it closes: profiles bound to members, onboarding,         *)
(* policies and acknowledgements, leave, attendance and its corrections,   *)
(* reviews, access revocations and offboarding.  Every command is one      *)
(* transaction; the clock is past every interval the instance names, but   *)
(* revocations and offboardings have clocks of their own.  A command finds *)
(* only the records its caller may read; the owner reads them all.         *)
(***************************************************************************)
EXTENDS Naturals, Sequences, FiniteSets, FiniteSetsExt

CONSTANTS
  Owner, Employee,     \* the owner, who runs administrative commands, and the others
  Interval, Receipt, PolicyKey, Cycle, Privacy,
  Horizon, MaxRecords, MaxEach

VARIABLE records   \* membership and the records of the module

member     == records.member
profile    == records.profile
onboarding == records.onboarding
policy     == records.policy
ack        == records.ack
leave      == records.leave
decision   == records.decision
attendance == records.attendance
correction == records.correction
review     == records.review
submission == records.submission
revocation == records.revocation
offboarded == records.offboarded

Lists == {"profile", "onboarding", "policy", "ack", "leave", "decision", "attendance", "correction",
          "review", "submission", "revocation", "offboarded"}

Init == records = [f \in Lists \cup {"member"} |-> IF f = "member" THEN {Owner} \cup Employee ELSE <<>>]

\* The instance holds MaxRecords records at most, and MaxEach of one type.
Room(list) == /\ MapThenSumSet(LAMBDA f : Len(records[f]), Lists) < MaxRecords
              /\ Len(records[list]) < MaxEach

\* Who may read what is kept about the person of profile p: the person and
\* those the record names, and the manager where the profile lets managers in.
\* A profile's manager and privacy never change, so the copies on its records
\* are what it says.
Manages(u, p)          == profile[p].privacy = "manager-and-person" /\ profile[p].manager = u
ReadsProfile(u, p)     == u = Owner \/ u = profile[p].of \/ Manages(u, p)
ReadsAbout(u, p, named) == u \in member /\ (ReadsProfile(u, p) \/ u \in named)
ReadsReview(u, r)      == ReadsAbout(u, review[r].profile, {review[r].reviewer})
ReadsSubmission(u, s)  == ReadsAbout(u, review[submission[s].review].profile, {review[submission[s].review].reviewer, submission[s].by})

CreateProfile(person, manager, privacy) ==
  /\ Room("profile") /\ {person, manager} \subseteq member
  /\ \A p \in DOMAIN profile : profile[p].of # person
  /\ records' = [records EXCEPT !.profile =
       Append(@, [of |-> person, manager |-> manager, privacy |-> privacy, state |-> "active", version |-> 1])]

StartOnboarding(p) ==
  /\ Room("onboarding") /\ profile[p].state = "active"
  /\ records' = [records EXCEPT !.onboarding = Append(@, p)]

PublishPolicy(key) ==
  /\ Room("policy")
  /\ records' = [records EXCEPT !.policy =
       Append(@, [key |-> key, revision |-> Cardinality({q \in DOMAIN policy : policy[q].key = key}) + 1])]

\* Any published revision may be acknowledged, the last one or not.
AcknowledgePolicy(p, q, receipt) ==
  /\ Room("ack") /\ profile[p].of \in member
  /\ \A a \in DOMAIN ack : ~(ack[a].of = profile[p].of /\ ack[a].receipt = receipt)
  /\ records' = [records EXCEPT !.ack = Append(@, [of |-> profile[p].of, policy |-> q, receipt |-> receipt])]

RequestLeave(p, receipt) ==
  /\ Room("leave") /\ profile[p].state = "active" /\ profile[p].of \in member
  /\ \A l \in DOMAIN leave : ~(leave[l].of = profile[p].of /\ leave[l].receipt = receipt)
  /\ records' = [records EXCEPT !.leave = Append(@, [of |-> profile[p].of, receipt |-> receipt, state |-> "pending"])]

Deciding(l, verdict, receipt) ==
  [records EXCEPT !.leave[l].state = verdict,
                  !.decision = Append(@, [leave |-> l, verdict |-> verdict, receipt |-> receipt])]

\* Mutant of DecideLeave: only the decision's receipt is compared.
DecideLeaveAgain(l, verdict, receipt) ==
  /\ Room("decision") /\ \A d \in DOMAIN decision : decision[d].receipt # receipt
  /\ records' = Deciding(l, verdict, receipt)

DecideLeave(l, verdict, receipt) ==
  /\ Room("decision") /\ leave[l].state = "pending"
  /\ \A d \in DOMAIN decision : decision[d].receipt # receipt
  /\ records' = Deciding(l, verdict, receipt)

RecordAttendance(p, interval, receipt) ==
  /\ Room("attendance")
  /\ \A a \in DOMAIN attendance : ~(attendance[a].of = profile[p].of /\ attendance[a].receipt = receipt)
  /\ records' = [records EXCEPT !.attendance =
       Append(@, [of |-> profile[p].of, receipt |-> receipt, interval |-> interval, version |-> 1])]

CorrectAttendance(a, interval, expected, receipt) ==
  /\ Room("correction") /\ attendance[a].version = expected
  /\ \A c \in DOMAIN correction : correction[c].receipt # receipt
  /\ records' = [records EXCEPT
       !.correction = Append(@, [attendance |-> a, from |-> attendance[a].interval, to |-> interval, receipt |-> receipt]),
       !.attendance[a].interval = interval, !.attendance[a].version = expected + 1]

OpenReview(p, cycle, reviewer) ==
  /\ Room("review") /\ reviewer \in member
  /\ \A r \in DOMAIN review : ~(review[r].profile = p /\ review[r].cycle = cycle)
  /\ records' = [records EXCEPT !.review =
       Append(@, [profile |-> p, cycle |-> cycle, reviewer |-> reviewer, state |-> "open"])]

\* A receipt is looked for among the submissions the reviewer may read, so two
\* reviewers may name the same one.
SubmitReview(r, by, receipt) ==
  /\ Room("submission") /\ by \in member /\ ReadsReview(by, r)
  /\ review[r].state = "open" /\ review[r].reviewer = by
  /\ \A s \in DOMAIN submission : ReadsSubmission(by, s) => submission[s].receipt # receipt
  /\ records' = [records EXCEPT !.review[r].state = "submitted",
                   !.submission = Append(@, [review |-> r, by |-> by, receipt |-> receipt])]

RecordAccessRevocation(p, at, receipt) ==
  /\ Room("revocation")
  /\ \A v \in DOMAIN revocation : revocation[v].receipt # receipt
  /\ records' = [records EXCEPT !.revocation = Append(@, [profile |-> p, at |-> at, receipt |-> receipt])]

\* The profile, the receipt and the membership change together.
Offboard(p, at, receipts) ==
  /\ Room("offboarded") /\ profile[p].state = "active"
  /\ receipts # {} /\ \A v \in receipts : revocation[v].profile = p /\ revocation[v].at <= at
  /\ profile[p].of \in member \ {Owner}
  /\ records' = [records EXCEPT !.profile[p].state = "offboarded", !.profile[p].version = @ + 1,
                   !.offboarded = Append(@, [profile |-> p, at |-> at, receipts |-> receipts]),
                   !.member = @ \ {profile[p].of}]

\* The workspace's own members route.  A member removed here keeps an active
\* profile that nobody can offboard unless the person is added again.
RemoveMember(person) ==
  person \in member \ {Owner} /\ records' = [records EXCEPT !.member = @ \ {person}]
AddMember(person) ==
  person \notin member /\ records' = [records EXCEPT !.member = @ \cup {person}]

Next ==
  \/ \E e \in Employee : RemoveMember(e) \/ AddMember(e) \/ \E m \in member, w \in Privacy : CreateProfile(e, m, w)
  \/ \E k \in PolicyKey : PublishPolicy(k)
  \/ \E p \in DOMAIN profile :
       \/ StartOnboarding(p)
       \/ \E n \in Receipt :
            \/ RequestLeave(p, n)
            \/ \E q \in DOMAIN policy : AcknowledgePolicy(p, q, n)
            \/ \E i \in Interval : RecordAttendance(p, i, n)
            \/ \E t \in 0 .. Horizon : RecordAccessRevocation(p, t, n)
       \/ \E c \in Cycle, m \in member : OpenReview(p, c, m)
       \/ \E t \in 0 .. Horizon, V \in SUBSET DOMAIN revocation : Offboard(p, t, V)
  \/ \E n \in Receipt :
       \/ \E l \in DOMAIN leave, v \in {"approved", "denied"} : DecideLeave(l, v, n)
       \/ \E a \in DOMAIN attendance, i \in Interval, v \in 1 .. MaxEach + 1 : CorrectAttendance(a, i, v, n)
       \/ \E r \in DOMAIN review, m \in member : SubmitReview(r, m, n)

Spec == Init /\ [][Next]_records

-----------------------------------------------------------------------------
CorrectionsOf(a) == {c \in DOMAIN correction : correction[c].attendance = a}

\* A decision about a person is made once and can be traced: a leave that is
\* no longer pending has exactly one decision, which says what it says; the
\* corrections of an attendance form one chain from what was recorded to what
\* it now says, with a version each; a submitted review has one submission, by
\* its reviewer; and a profile is offboarded by one receipt, which names
\* revocations of that profile no later than itself.
DecidedOnce ==
  /\ \A l \in DOMAIN leave :
       {decision[d].verdict : d \in {e \in DOMAIN decision : decision[e].leave = l}}
         = IF leave[l].state = "pending" THEN {} ELSE {leave[l].state}
  /\ \A l \in DOMAIN leave : Cardinality({d \in DOMAIN decision : decision[d].leave = l}) <= 1
  /\ \A a \in DOMAIN attendance : LET chain == CorrectionsOf(a) IN
       /\ attendance[a].version = Cardinality(chain) + 1
       /\ chain # {} => correction[Max(chain)].to = attendance[a].interval
       /\ \A c, d \in chain : (c < d /\ \A e \in chain : e <= c \/ e >= d) => correction[c].to = correction[d].from
  /\ \A r \in DOMAIN review :
       LET sent == {s \in DOMAIN submission : submission[s].review = r} IN
       /\ (sent # {}) <=> (review[r].state = "submitted")
       /\ Cardinality(sent) <= 1 /\ \A s \in sent : submission[s].by = review[r].reviewer
       /\ \A s \in sent, u \in {Owner} \cup Employee : ReadsSubmission(u, s) =>
            ReadsReview(u, r) /\ (ReadsProfile(u, review[r].profile) \/ submission[s].by = u)
  /\ \A p \in DOMAIN profile :
       LET closing == {o \in DOMAIN offboarded : offboarded[o].profile = p} IN
       /\ Cardinality(closing) = IF profile[p].state = "offboarded" THEN 1 ELSE 0
       /\ \A o \in closing : \E v \in offboarded[o].receipts : revocation[v].profile = p /\ revocation[v].at <= offboarded[o].at
\* The inductive form: what is kept of a person refers to what there is.
PeopleInvariant ==
  /\ Lists \cup {"member"} \subseteq DOMAIN records
  /\ member \subseteq {Owner} \cup Employee
  /\ profile \in Seq([of : Employee, manager : {Owner} \cup Employee, privacy : Privacy, state : {"active", "offboarded"}, version : Nat])
  /\ leave \in Seq([of : Employee, receipt : Receipt, state : {"pending", "approved", "denied"}])
  /\ decision \in Seq([leave : DOMAIN leave, verdict : {"approved", "denied"}, receipt : Receipt])
  /\ attendance \in Seq([of : Employee, receipt : Receipt, interval : Interval, version : Nat])
  /\ correction \in Seq([attendance : DOMAIN attendance, from : Interval, to : Interval, receipt : Receipt])
  /\ review \in Seq([profile : DOMAIN profile, cycle : Cycle, reviewer : {Owner} \cup Employee, state : {"open", "submitted"}])
  /\ submission \in Seq([review : DOMAIN review, by : {Owner} \cup Employee, receipt : Receipt])
  /\ revocation \in Seq([profile : DOMAIN profile, at : Nat, receipt : Receipt])
  /\ offboarded \in Seq([profile : DOMAIN profile, at : Nat, receipts : SUBSET DOMAIN revocation])
  /\ DecidedOnce
=============================================================================
