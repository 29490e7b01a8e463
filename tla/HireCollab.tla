---------------------------- MODULE HireCollab ------------------------------
(***************************************************************************)
(* Two modules of one engine.  hire: a job goes from draft over approval   *)
(* to publication, people apply to the published version, applications     *)
(* move between the stages of the pipeline they are bound to, interviews   *)
(* get scorecards, and reviews are recorded against a version.  Nothing    *)
(* here closes an application, so the states that refuse work are never    *)
(* reached.  collab: one document (or canvas) whose head moves by          *)
(* operations that name the version they were made against, by restoring   *)
(* an earlier revision, and by accepting the patch of a completed AI       *)
(* proposal; named revisions and pinned shares and exports hang from       *)
(* revisions.                                                              *)
(***************************************************************************)
EXTENDS Naturals, Sequences, SequencesExt

CONSTANTS
  Stage,              \* stages of the pipeline; FirstStage is where one starts
  FirstStage, PublishKey, Interviewer, Horizon,
  MaxJobs, MaxApplications, MaxTransitions, MaxInterviews, MaxDecisions,
  Item, Value,        \* block or element identifiers, and what one may hold
  OperationId,        \* chosen by the client; a patch gets a fresh one
  Anywhere,           \* the null anchor of a move
  MaxRevisions, MaxItems, MaxProposals, MaxPinned

VARIABLE records   \* of the module that is used

-----------------------------------------------------------------------------
(* hire: the clock, the hiring records, and the previews callers hold      *)
now         == records.now
job         == records.job
application == records.application
event       == records.event
preview     == records.preview
interview   == records.interview
scorecard   == records.scorecard
decision    == records.decision

HireInit == records = [now |-> 0, job |-> <<>>, application |-> <<>>, event |-> <<>>, preview |-> {},
                   interview |-> <<>>, scorecard |-> {}, decision |-> <<>>]

Tick == now < Horizon /\ records' = [records EXCEPT !.now = @ + 1]

JobDraft ==
  /\ Len(job) < MaxJobs
  /\ records' = [records EXCEPT !.job = Append(@, [state |-> "draft", key |-> "none"])]

JobApprove(j) == job[j].state = "draft" /\ records' = [records EXCEPT !.job[j].state = "approved"]

\* A key that published one job before publishes no other.
JobPublish(j, key) ==
  /\ \A i \in DOMAIN job : job[i].key # key
  /\ job[j].state = "approved"
  /\ records' = [records EXCEPT !.job[j] = [state |-> "published", key |-> key]]

ApplicationSubmit(j) ==
  /\ job[j].state = "published" /\ Len(application) < MaxApplications
  /\ records' = [records EXCEPT
       !.application = Append(@, [job |-> j, stage |-> FirstStage, version |-> 1]),
       !.event = Append(@, [application |-> Len(application) + 1, from |-> "submitted", to |-> FirstStage, version |-> 1])]

TransitionSnapshot(a, to) ==
  [application |-> a, from |-> application[a].stage, to |-> to, version |-> application[a].version]

TransitionPreview(a, to) ==
  /\ application[a].stage # to
  /\ records' = [records EXCEPT !.preview = @ \cup {TransitionSnapshot(a, to)}]

Transitioning(p) ==
  [records EXCEPT !.event = Append(@, [application |-> p.application, from |-> p.from, to |-> p.to, version |-> p.version + 1]),
                  !.application[p.application] = [@ EXCEPT !.stage = p.to, !.version = p.version + 1]]

\* Mutant of TransitionApply: the stage is what the preview saw, whatever happened since.
TransitionApplyOnStage(p) ==
  /\ p.version < MaxTransitions /\ application[p.application].stage = p.from
  /\ records' = Transitioning(p)

TransitionApply(p) ==
  /\ p.version < MaxTransitions /\ application[p.application].stage # p.to
  /\ p = TransitionSnapshot(p.application, p.to)
  /\ records' = Transitioning(p)

InterviewSchedule(a, at) ==
  /\ at > now /\ Len(interview) < MaxInterviews
  /\ records' = [records EXCEPT !.interview = Append(@, [application |-> a, at |-> at])]

\* The interviewer is a name in the input, and the interview need not have taken place.
ScorecardSubmit(i, who) ==
  /\ <<i, who>> \notin scorecard
  /\ records' = [records EXCEPT !.scorecard = @ \cup {<<i, who>>}]

DecisionRecord(a, version) ==
  /\ application[a].version = version /\ Len(decision) < MaxDecisions
  /\ records' = [records EXCEPT !.decision =
       Append(@, [application |-> a, version |-> version, stage |-> application[a].stage])]

HireNext ==
  \/ Tick
  \/ JobDraft
  \/ \E j \in DOMAIN job : \/ JobApprove(j) \/ ApplicationSubmit(j)
                           \/ \E k \in PublishKey : JobPublish(j, k)
  \/ \E a \in DOMAIN application :
       \/ \E s \in Stage : TransitionPreview(a, s)
       \/ \E t \in 1 .. Horizon : InterviewSchedule(a, t)
       \/ \E v \in 1 .. MaxTransitions : DecisionRecord(a, v)
  \/ \E p \in preview : TransitionApply(p)
  \/ \E i \in DOMAIN interview, w \in Interviewer : ScorecardSubmit(i, w)

-----------------------------------------------------------------------------
(* collab: the head, its revisions, the operations and proposals, the pins *)
head      == records.head       \* version, snapshot, current revision
revision  == records.revision
operation == records.operation
proposal  == records.proposal   \* AI proposals the workers completed
pinned    == records.pinned     \* share links and export jobs

CollabInit == \E items \in {<<>>} \cup {<<[id |-> i, value |-> v]>> : i \in Item, v \in Value} :
  records = [head |-> [version |-> 1, snapshot |-> items, revision |-> 1],
             revision |-> <<[version |-> 1, snapshot |-> items, parents |-> {}, state |-> "active"]>>,
             operation |-> <<>>, proposal |-> <<>>, pinned |-> <<>>]

Positions(items, id) == {i \in DOMAIN items : items[i].id = id}
Position(items, id) == CHOOSE i \in Positions(items, id) : TRUE

Upserted(items, item) ==
  IF Positions(items, item.id) = {} THEN Append(items, item) ELSE [items EXCEPT ![Position(items, item.id)] = item]

Removed(items, id) == RemoveAt(items, Position(items, id))

\* The anchor is looked for once the moving item has been taken out.
Moved(items, id, after) ==
  LET moving == items[Position(items, id)]
      rest == Removed(items, id)
  IN IF after = Anywhere THEN <<moving>> \o rest ELSE InsertAt(rest, Position(rest, after) + 1, moving)

Operations == [op : {"upsert"}, item : [id : Item, value : Value]] \cup [op : {"remove"}, id : Item]
              \cup [op : {"move"}, id : Item, after : Item \cup {Anywhere}]

\* An operation on an item, or after an anchor, that is not there is refused.
Applicable(items, o) ==
  /\ o.op # "upsert" => Positions(items, o.id) # {}
  /\ o.op = "move" /\ o.after # Anywhere => o.after # o.id /\ Positions(items, o.after) # {}

ApplyOperation(items, o) ==
  IF o.op = "upsert" THEN Upserted(items, o.item)
  ELSE IF o.op = "remove" THEN Removed(items, o.id) ELSE Moved(items, o.id, o.after)

Seen(id) == {k \in DOMAIN operation : operation[k].id = id}

\* The next head after an operation made against a version.
Applying(id, base, o) ==
  LET items == ApplyOperation(head.snapshot, o)
      next == base + 1
  IN [records EXCEPT
        !.operation = Append(@, [id |-> id, base |-> base, o |-> o, revision |-> Len(revision) + 1]),
        !.revision = Append(@, [version |-> next, snapshot |-> items, parents |-> {head.revision}, state |-> "active"]),
        !.head = [version |-> next, snapshot |-> items, revision |-> Len(revision) + 1]]

\* Mutant of OperationApply: an operation on an older version is applied to the head.
OperationApplyUnrebased(id, base, o) ==
  /\ Seen(id) = {} /\ Len(revision) < MaxRevisions /\ Applicable(head.snapshot, o)
  /\ records' = Applying(id, base, o)

\* The same operation sent again gets the revision it made; an id used for
\* anything else, or a stale base version, is refused.
OperationApply(id, base, o) ==
  /\ Seen(id) = {} /\ head.version = base
  /\ Len(revision) < MaxRevisions /\ Applicable(head.snapshot, o)
  /\ records' = Applying(id, base, o)

\* A worker completes a proposal made from the revision that was the head when it was asked for.
ProposalCompleted(source, o) ==
  /\ Len(proposal) < MaxProposals /\ revision[source].state = "active"
  /\ records' = [records EXCEPT !.proposal = Append(@, [source |-> source, o |-> o, accepted |-> FALSE])]

PatchApply(p) ==
  /\ ~proposal[p].accepted
  /\ head.revision = proposal[p].source /\ revision[proposal[p].source].version = head.version
  /\ Len(revision) < MaxRevisions /\ Applicable(head.snapshot, proposal[p].o)
  /\ records' = [Applying(<<"patch", p>>, head.version, proposal[p].o) EXCEPT !.proposal[p].accepted = TRUE]

\* A named revision copies the head without moving it.
RevisionCreate ==
  /\ Len(revision) < MaxRevisions
  /\ records' = [records EXCEPT !.revision =
       Append(@, [version |-> head.version, snapshot |-> head.snapshot, parents |-> {head.revision}, state |-> "named"])]

RevisionRestore(r) ==
  /\ Len(revision) < MaxRevisions
  /\ records' = [records EXCEPT
       !.revision = Append(@, [version |-> head.version + 1, snapshot |-> revision[r].snapshot,
                               parents |-> {head.revision, r}, state |-> "active"]),
       !.head = [version |-> head.version + 1, snapshot |-> revision[r].snapshot, revision |-> Len(revision) + 1]]

\* A share link or an export job: what it pinned is never updated.
Pin(r) ==
  /\ Len(pinned) < MaxPinned
  /\ records' = [records EXCEPT !.pinned = Append(@, [revision |-> r, snapshot |-> revision[r].snapshot])]
ShareCreate(r) == Pin(r)
ExportCreate(r) == Pin(r)

CollabNext ==
  \/ \E o \in {x \in Operations : x.op = "upsert" => Len(head.snapshot) < MaxItems} :
       \/ \E id \in OperationId, b \in 1 .. head.version : OperationApply(id, b, o)
       \/ \E r \in DOMAIN revision : ProposalCompleted(r, o)
  \/ \E p \in DOMAIN proposal : PatchApply(p)
  \/ RevisionCreate
  \/ \E r \in DOMAIN revision : RevisionRestore(r) \/ ShareCreate(r) \/ ExportCreate(r)

-----------------------------------------------------------------------------
Init == HireInit \/ CollabInit
Next == \/ "job" \in DOMAIN records /\ HireNext
        \/ "head" \in DOMAIN records /\ CollabNext
Spec == Init /\ [][Next]_records

OfApplication(a) == SelectSeq(event, LAMBDA e : e.application = a)

(***************************************************************************)
(* The events of an application are its history: each starts in the stage  *)
(* the one before it ended in, their versions count up by one, the last is *)
(* where the application stands; a decision names a version at which the   *)
(* application really was in the stage the reviewer saw.                   *)
(***************************************************************************)
EventsAreTheHistory ==
  /\ \A a \in DOMAIN application :
       LET h == OfApplication(a)
       IN /\ \A i \in DOMAIN h : h[i].version = i /\ (i > 1 => h[i].from = h[i - 1].to)
          /\ h[Len(h)].to = application[a].stage /\ Len(h) = application[a].version
          /\ job[application[a].job].state = "published"
  /\ \A d \in DOMAIN decision : OfApplication(decision[d].application)[decision[d].version].to = decision[d].stage

(***************************************************************************)
(* The history explains the document: the versions of the active revisions *)
(* are 1, 2, 3, ..., the last one is the head, every operation's revision  *)
(* is what that operation makes of its parent, no operation counts twice,  *)
(* and a pinned copy is still the content of the revision it names.        *)
(***************************************************************************)
HistoryReplays ==
  LET active == {r \in DOMAIN revision : revision[r].state = "active"}
  IN /\ {revision[r].version : r \in active} = 1 .. head.version
     /\ \A r, s \in active : r < s => revision[r].version < revision[s].version
     /\ revision[head.revision].snapshot = head.snapshot /\ revision[head.revision].version = head.version
     /\ \A k \in DOMAIN operation :
          LET made == revision[operation[k].revision]
              parent == revision[CHOOSE r \in made.parents : TRUE]
          IN /\ parent.version = operation[k].base
             /\ made.snapshot = ApplyOperation(parent.snapshot, operation[k].o)
             /\ Seen(operation[k].id) = {k}
     /\ \A i, j \in DOMAIN head.snapshot : head.snapshot[i].id = head.snapshot[j].id => i = j
     /\ \A n \in DOMAIN pinned : pinned[n].snapshot = revision[pinned[n].revision].snapshot
=============================================================================
