------------------------------ MODULE Audience ------------------------------
(***************************************************************************)
(* The additive business engine: the meetings, learning and community      *)
(* modules, and the tables and insights modules, which everybody in the    *)
(* workspace reads.  A meeting, a course or a space has members, and its   *)
(* records carry a copy of who they are, which decides who may read them.  *)
(* A command is one workspace transaction, and it computes from the        *)
(* records its actor may read: nothing else is loaded.                     *)
(*                                                                         *)
(* A record is its position in its list.  "shared" stands for the          *)
(* visibilities every member of the workspace reads, "private" for those   *)
(* only named members read.                                                *)
(***************************************************************************)
EXTENDS Naturals, Sequences, FiniteSets

CONSTANTS
  User,        \* the people there are
  Admin,       \* the owner and the administrators of the workspace, never removed
  NoUser,      \* a participant from outside
  Privacy,     \* {"shared", "private"} or one of them
  FieldKey, Value, Absent,   \* of the fields of a table
  MaxParents, MaxChildren, MaxFields, MaxRows, MaxVersion, MaxFrozen

VARIABLE records

user   == records.user    \* the current members of the workspace
parent == records.parent  \* meetings, courses or spaces
child  == records.child   \* what belongs to them

field  == records.field   \* of one base
row    == records.row     \* what each write of it left, oldest first
frozen == records.frozen  \* the rows a snapshot of a dashboard binds

Init == records = [user |-> User, parent |-> <<>>, child |-> <<>>, field |-> <<>>, row |-> <<>>, frozen |-> <<>>]

-----------------------------------------------------------------------------
\* Removing a member of the workspace leaves the records as they are.
RemoveWorkspaceMember(u) ==
  /\ u \in user \ Admin
  /\ records' = [records EXCEPT !.user = @ \ {u}]

AddWorkspaceMember(u) ==
  /\ u \notin user
  /\ records' = [records EXCEPT !.user = @ \cup {u}]

Shared(p) == parent[p].privacy = "shared"

ReadsParent(a, p) == a \in Admin \/ Shared(p) \/ a = parent[p].by \/ a \in parent[p].refs

\* Enrollments, attempts and credentials are their learner's, whatever the
\* visibility of the course; what was hidden is its author's.
Personal  == {"enrollment", "attempt", "credential"}
Withdrawn == {"hidden", "withdrawn"}

Reads(a, c) ==
  LET r == child[c] IN
  \/ a \in Admin
  \/ a \in {parent[r.of].by, r.by, r.who}
  \/ r.kind \notin Personal /\ r.state \notin Withdrawn /\ (Shared(r.of) \/ a \in r.refs)

Loaded(a, p) == {c \in DOMAIN child : child[c].of = p /\ Reads(a, c)}

Membership == {"participant", "enrollment", "member"}

\* The members of p, as far as the actor can see.
MemberRefs(a, p) == {child[c].who : c \in {c \in Loaded(a, p) : child[c].kind \in Membership}} \ {NoUser}

\* A member who has left the workspace makes every command on p throw.
Trusted(a, p) == ReadsParent(a, p) /\ MemberRefs(a, p) \subseteq user

Create(privacy, a) ==
  /\ Len(parent) < MaxParents /\ a \in user
  /\ records' = [records EXCEPT !.parent = Append(@, [privacy |-> privacy, by |-> a, refs |-> {}])]

Record(p, kind, a, who, refs) ==
  [of |-> p, kind |-> kind, by |-> a, who |-> who, refs |-> refs, under |-> 0, state |-> "active"]

\* A record of p that belongs to another one of its records, or to none (0).
AddUnder(under, state, p, kind, a, who) ==
  /\ Len(child) < MaxChildren
  /\ records' = [records EXCEPT !.child =
       Append(@, [Record(p, kind, a, who, MemberRefs(a, p)) EXCEPT !.under = under, !.state = state])]

Add(p, kind, a, who) == AddUnder(0, "active", p, kind, a, who)

\* Mutant of Join: what was written before the member came keeps its readers.
JoinFromNowOn(p, kind, a, who) ==
  LET refs == (MemberRefs(a, p) \cup {who}) \ {NoUser} IN
  /\ Len(child) < MaxChildren
  /\ records' = [records EXCEPT !.parent[p].refs = refs,
                                !.child = Append(@, Record(p, kind, a, who, refs))]

\* A new member is copied to the parent and to the records the actor has loaded.
Join(p, kind, a, who) ==
  LET refs == (MemberRefs(a, p) \cup {who}) \ {NoUser} IN
  /\ Len(child) < MaxChildren
  /\ records' = [records EXCEPT
       !.parent[p].refs = refs,
       !.child = Append([c \in DOMAIN @ |-> IF c \in Loaded(a, p) THEN [@[c] EXCEPT !.refs = refs] ELSE @[c]],
                        Record(p, kind, a, who, refs))]

-----------------------------------------------------------------------------
MeetingBoundary(a, p) ==
  Trusted(a, p) /\ (Shared(p) \/ a \in Admin \/ a = parent[p].by \/ a \in MemberRefs(a, p))

MeetingCreate(a, privacy) == Create(privacy, a)

ParticipantAdd(a, p, u) == MeetingBoundary(a, p) /\ u \in user \cup {NoUser} /\ Join(p, "participant", a, u)

TranscriptAppend(a, p) == MeetingBoundary(a, p) /\ Add(p, "transcript", a, NoUser)

\* Decisions and action items have an owner among the members of the workspace.
DecisionRecord(a, p, owner)   == MeetingBoundary(a, p) /\ owner \in user /\ Add(p, "decision", a, owner)

TranscriptRedact(a, c) ==
  /\ a \in Admin /\ child[c].kind = "transcript" /\ MeetingBoundary(a, child[c].of)
  /\ records' = [records EXCEPT !.child[c].state = "redacted", !.child[c].refs = MemberRefs(a, child[c].of)]

MeetingsNext ==
  \E a \in user :
    \/ \E v \in Privacy : MeetingCreate(a, v)
    \/ \E p \in DOMAIN parent :
         \/ TranscriptAppend(a, p)
         \/ \E u \in User \cup {NoUser} : ParticipantAdd(a, p, u) \/ DecisionRecord(a, p, u)
    \/ \E c \in DOMAIN child : TranscriptRedact(a, c)

-----------------------------------------------------------------------------
CourseBoundary(a, p) == Trusted(a, p) /\ (Shared(p) \/ a \in Admin \/ a = parent[p].by)

LearnerBoundary(a, p, learner) == Trusted(a, p) /\ (Shared(p) \/ a \in Admin \/ a \in {parent[p].by, learner})

CourseCreate(a, privacy) == Create(privacy, a)

\* Lessons and rubrics alike.
LessonCreate(a, p) == CourseBoundary(a, p) /\ Add(p, "lesson", a, NoUser)

Enrolled(a, p, u) == \E c \in Loaded(a, p) : child[c].kind = "enrollment" /\ child[c].who = u

LearnerEnroll(a, p, u) == CourseBoundary(a, p) /\ u \in user /\ ~ Enrolled(a, p, u) /\ Join(p, "enrollment", a, u)

\* An attempt reaches the passing score of its rubric, or does not.
AttemptRecord(a, e, result) ==
  /\ child[e].kind = "enrollment" /\ Reads(a, e) /\ LearnerBoundary(a, child[e].of, child[e].who)
  /\ AddUnder(e, result, child[e].of, "attempt", a, child[e].who)

\* Mutant of CredentialIssue: whatever the attempt, its learner is credited.
CredentialIssueOnAnyAttempt(a, t) ==
  /\ a \in Admin /\ child[t].kind = "attempt" /\ Trusted(a, child[t].of)
  /\ ~ \E c \in Loaded(a, child[t].of) : child[c].kind = "credential" /\ child[c].under = child[t].under
  /\ AddUnder(child[t].under, "issued", child[t].of, "credential", a, child[t].who)

CredentialIssue(a, t) ==
  /\ a \in Admin /\ child[t].kind = "attempt" /\ child[t].state = "passed" /\ Trusted(a, child[t].of)
  /\ ~ \E c \in Loaded(a, child[t].of) : child[c].kind = "credential" /\ child[c].under = child[t].under
  /\ AddUnder(child[t].under, "issued", child[t].of, "credential", a, child[t].who)

LearningNext ==
  \E a \in user :
    \/ \E v \in Privacy : CourseCreate(a, v)
    \/ \E p \in DOMAIN parent : LessonCreate(a, p) \/ \E u \in User : LearnerEnroll(a, p, u)
    \/ \E c \in DOMAIN child : CredentialIssue(a, c) \/ \E r \in {"passed", "failed"} : AttemptRecord(a, c, r)

-----------------------------------------------------------------------------
\* Only a private space asks for its own members.
SpaceBoundary(a, p) == Trusted(a, p) /\ (Shared(p) \/ a \in MemberRefs(a, p))

SpaceCreate(a, privacy) == Create(privacy, a)

IsMember(a, p, u) == \E c \in Loaded(a, p) : child[c].kind = "member" /\ child[c].who = u

MemberAdd(a, p, u) ==
  a \in Admin /\ Trusted(a, p) /\ u \in user /\ ~ IsMember(a, p, u) /\ Join(p, "member", a, u)

PostCreate(a, p) == SpaceBoundary(a, p) /\ IsMember(a, p, a) /\ Add(p, "post", a, a)

\* A reply, or the first reaction of a member to a post.
Answer(a, post, kind, state) ==
  /\ child[post].kind = "post" /\ Reads(a, post)
  /\ SpaceBoundary(a, child[post].of) /\ IsMember(a, child[post].of, a)
  /\ AddUnder(post, state, child[post].of, kind, a, a)

ReplyCreate(a, post) == Answer(a, post, "reply", "active")

Reactions(a, post) == {c \in Loaded(a, child[post].of) : child[c].kind = "reaction" /\ child[c].under = post /\ child[c].who = a}

ReactionRecord(a, post, state) ==
  \/ Reactions(a, post) = {} /\ Answer(a, post, "reaction", state)
  \/ \E c \in Reactions(a, post) :
       /\ Reads(a, post) /\ SpaceBoundary(a, child[post].of) /\ IsMember(a, child[post].of, a)
       /\ records' = [records EXCEPT !.child[c].state = state, !.child[c].refs = MemberRefs(a, child[post].of)]

PostHide(a, post) ==
  /\ a \in Admin /\ child[post].kind = "post" /\ SpaceBoundary(a, child[post].of)
  /\ records' = [records EXCEPT !.child[post].state = "hidden", !.child[post].refs = MemberRefs(a, child[post].of)]

AnnouncementPublish(a, p) == a \in Admin /\ SpaceBoundary(a, p) /\ Add(p, "announcement", a, NoUser)

CommunityNext ==
  \E a \in user :
    \/ \E v \in Privacy : SpaceCreate(a, v)
    \/ \E p \in DOMAIN parent :
         PostCreate(a, p) \/ AnnouncementPublish(a, p) \/ \E u \in User : MemberAdd(a, p, u)
    \/ \E c \in DOMAIN child :
         ReplyCreate(a, c) \/ PostHide(a, c) \/ \E s \in {"active", "withdrawn"} : ReactionRecord(a, c, s)

-----------------------------------------------------------------------------
\* Fields are only ever added; rows that are there need not have them.
FieldAdd(key, required) ==
  /\ Len(field) < MaxFields
  /\ \A f \in DOMAIN field : field[f].key # key
  /\ records' = [records EXCEPT !.field = Append(@, [key |-> key, required |-> required])]

Values == [FieldKey -> Value \cup {Absent}]
ValidRow(values) ==
  /\ \A k \in FieldKey : values[k] # Absent => \E f \in DOMAIN field : field[f].key = k
  /\ \A f \in DOMAIN field : field[f].required => values[field[f].key] # Absent

Written(values) == [values |-> values, fields |-> Len(field)]

\* One row, or a batch whose preview hash the caller repeats: all or none.
RowsCreate(batch) ==
  /\ Len(row) + Len(batch) <= MaxRows
  /\ \A i \in DOMAIN batch : ValidRow(batch[i])
  /\ records' = [records EXCEPT !.row = @ \o [i \in DOMAIN batch |-> <<Written(batch[i])>>]]
RowCreate(values)   == RowsCreate(<<values>>)
ImportApply(batch)  == batch # <<>> /\ RowsCreate(batch)

\* A patch sets values and takes none away.
Patched(values, patch) == [k \in FieldKey |-> IF patch[k] = Absent THEN values[k] ELSE patch[k]]
RowUpdate(r, patch, expected) ==
  LET values == Patched(row[r][Len(row[r])].values, patch) IN
  /\ Len(row[r]) = expected /\ expected < MaxVersion
  /\ ValidRow(values)
  /\ records' = [records EXCEPT !.row[r] = Append(@, Written(values))]

\* A snapshot names the version of each row it rests on.
SnapshotFreeze(evidence) ==
  /\ Len(frozen) < MaxFrozen /\ evidence # {}
  /\ records' = [records EXCEPT !.frozen =
       Append(@, {[row |-> r, version |-> Len(row[r]), values |-> row[r][Len(row[r])].values] : r \in evidence})]

TablesNext ==
  \/ \E k \in FieldKey, required \in BOOLEAN : FieldAdd(k, required)
  \/ \E v \in Values : RowCreate(v) \/ \E w \in Values : ImportApply(<<v, w>>)
  \/ \E r \in DOMAIN row, patch \in Values, version \in 1 .. MaxVersion : RowUpdate(r, patch, version)
  \/ \E S \in SUBSET DOMAIN row : SnapshotFreeze(S)

MembershipNext == \E u \in User : RemoveWorkspaceMember(u) \/ AddWorkspaceMember(u)

-----------------------------------------------------------------------------
Members(p) == {child[c].who : c \in {c \in DOMAIN child : child[c].of = p /\ child[c].kind \in Membership}} \ {NoUser}

\* Whoever adds whom, and in whatever order members come and records are
\* written, every private record carries the readers its parent has, which are
\* the members of the parent: nobody added later is kept from what was written
\* before, and nobody reads what its parent does not show.
MembersReadAll == \A p \in DOMAIN parent : ~ Shared(p) =>
  /\ parent[p].refs = Members(p)
  /\ \A c \in DOMAIN child : child[c].of = p /\ child[c].kind \notin Personal => child[c].refs = Members(p)

\* A credential rests on a passed attempt, and one enrollment earns one.
CredentialsAreEarned == \A c \in DOMAIN child : child[c].kind = "credential" =>
  /\ \E t \in DOMAIN child : child[t].kind = "attempt" /\ child[t].state = "passed" /\ child[t].under = child[c].under
  /\ \A d \in DOMAIN child : child[d].kind = "credential" /\ child[d].under = child[c].under => d = c

\* However fields are added between the writes of rows and batches, a row holds
\* values of registered fields only, has every field that was required when it
\* was last written, and loses no value by an update; what a snapshot rests on
\* is still what that version of the row was.
RowsKeepTheirSchema ==
  /\ \A r \in DOMAIN row : \A v \in DOMAIN row[r] :
       LET w == row[r][v] IN
       /\ \A k \in FieldKey : w.values[k] # Absent => \E f \in 1 .. w.fields : field[f].key = k
       /\ \A f \in 1 .. w.fields : field[f].required => w.values[field[f].key] # Absent
       /\ v > 1 => \A k \in FieldKey : row[r][v - 1].values[k] # Absent => w.values[k] # Absent
  /\ \A s \in DOMAIN frozen : \A b \in frozen[s] : row[b.row][b.version].values = b.values

\* "This learner is already enrolled in the course": false in the code, where a
\* member does not load the enrollments others have made.
EnrolledOnce ==
  LET enrollments == {c \in DOMAIN child : child[c].kind = "enrollment"} IN
  \A c, d \in enrollments : child[c].of = child[d].of /\ child[c].who = child[d].who => c = d
=============================================================================
