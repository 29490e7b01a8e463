----------------------------- MODULE SuiteStore ------------------------------
(***************************************************************************)
(* How the records of a workspace are written.  A request reads who asks   *)
(* and the workspace's plan, waits for the workspace's lock, and writes;   *)
(* a command holds the lock over several writes and takes them all back    *)
(* when one fails.  Plans, members and modules change without the lock.    *)
(* In PostgreSQL an open transaction's writes are its own; the in-memory   *)
(* store lets them be seen and restores a snapshot of everything.  Plan n  *)
(* allows RecordLimit[n] records and StorageLimit[n] units of retained     *)
(* objects; plan 0 allows none.  Titles and payloads are left out.         *)
(***************************************************************************)
EXTENDS Integers, Sequences, FiniteSets, FiniteSetsExt, SequencesExt

CONSTANTS
  Backend,                    \* "postgres", "memory"
  Owner, Other, Visitor,      \* who asks; the role of Other changes
  Role,                       \* the roles Other may have, "none" once removed
  Request,
  RecordLimit, StorageLimit,  \* by plan
  Size,                       \* units of a new record's object, 0 if it has none
  MaxRecords, MaxVersion

VARIABLE records

backend == records.backend
plan    == records.plan
role    == records.role
enabled == records.enabled  \* the module the records are of
rec     == records.rec      \* oldest first; open while its command may fail
request == records.request
\* For the properties: the writes that were answered with success.
acked   == records.acked

Plan == DOMAIN RecordLimit
Idle == [at |-> "idle"]
NoWrites == [creates |-> 0, updates |-> 0]

Init == \E b \in Backend, p \in Plan :
  records = [backend |-> b, plan |-> p, role |-> [a \in {Owner, Other, Visitor} |-> IF a = Owner THEN "owner" ELSE "none"],
             enabled |-> FALSE, rec |-> <<>>, request |-> [r \in Request |-> Idle], acked |-> NoWrites]

-----------------------------------------------------------------------------
\* What changes without the lock.  A request under way remembers the best plan
\* it could have read.
AddWorkspaceMember(r) ==
  /\ role[Other] = "none" /\ r # "none"
  /\ records' = [records EXCEPT !.role[Other] = r]

RemoveWorkspaceMember ==
  /\ role[Other] # "none"
  /\ records' = [records EXCEPT !.role[Other] = "none"]

EnableModule ==
  /\ plan > 0 /\ ~enabled
  /\ records' = [records EXCEPT !.enabled = TRUE]

UnderWay(r) == request[r].at # "idle"
Remembering(p) ==
  [r \in Request |-> IF UnderWay(r) THEN [request[r] EXCEPT !.best = IF p > @ THEN p ELSE @] ELSE Idle]

SetWorkspacePlan(p) ==
  /\ p # plan
  /\ records' = [records EXCEPT !.plan = p, !.request = Remembering(p)]

-----------------------------------------------------------------------------
CanWriteRole(r) == r \in {"owner", "admin", "member"}

\* A request's own records: those it has written in an open transaction too.
Seen(r) == IF request[r].at = "in" /\ backend = "postgres" THEN request[r].draft ELSE rec

Units(s) == MapThenSumSet(LAMBDA i : s[i].size, DOMAIN s)

\* Nobody writes while a command holds the workspace's lock.
Free == \A r \in Request : request[r].at # "in"

\* A request with what it read before it waits for the lock: who asks, with
\* which role, of a workspace with which plan.
Wait(r, actor, operation) ==
  /\ request[r].at = "idle"
  /\ records' = [records EXCEPT !.request[r] =
       [at |-> "waiting", operation |-> operation, actor |-> actor, plan |-> plan, best |-> plan,
        role |-> role[actor], draft |-> <<>>, undo |-> Idle, writes |-> NoWrites]]

\* Somebody without a membership has a workspace of his own.
WithUserWorkspace(r, actor, operation) ==
  /\ actor # Visitor /\ role[actor] # "none"
  /\ operation \in {"createRecord", "updateRecord"} /\ backend = "postgres" => CanWriteRole(role[actor])
  /\ operation = "createRecord" /\ backend = "postgres" => plan > 0 /\ enabled
  /\ Wait(r, actor, operation)

\* A visitor reaches a workspace that has a plan.
WithPublicWorkspace(r, operation) ==
  /\ plan > 0
  /\ operation = "createPublicRecord" => enabled
  /\ Wait(r, Visitor, operation)

\* A single write has the lock and is a transaction of its own.
Turn(r, operation) == request[r].at = "waiting" /\ request[r].operation = operation /\ Free

HasRoom(s, size, p) == Len(s) < RecordLimit[p] /\ Units(s) + size <= StorageLimit[p]

\* A retained object's record never changes, and a workspace over its storage
\* changes nothing.
Changeable(s, i, p) == i \in DOMAIN s /\ s[i].size = 0 /\ s[i].version < MaxVersion /\ Units(s) <= StorageLimit[p]

New(r, size) == [size |-> size, version |-> 1, open |-> request[r].at = "in", best |-> request[r].best]
Append1(r, size) ==
  /\ Len(rec) < MaxRecords
  /\ records' = [records EXCEPT !.rec = Append(@, New(r, size)), !.request[r] = Idle, !.acked.creates = @ + 1]
Change1(r, i) ==
  records' = [records EXCEPT !.rec[i].version = @ + 1, !.request[r] = Idle, !.acked.updates = @ + 1]

\* PostgreSQL goes by the plan and the role the request read before it waited.
CreateRecord(r, size) ==
  /\ backend = "postgres" /\ Turn(r, "createRecord")
  /\ HasRoom(rec, size, request[r].plan) /\ Append1(r, size)
CreatePublicRecord(r, size) ==
  /\ backend = "postgres" /\ Turn(r, "createPublicRecord")
  /\ HasRoom(rec, size, request[r].plan) /\ Append1(r, size)
UpdateRecord(r, i) ==
  /\ backend = "postgres" /\ Turn(r, "updateRecord")
  /\ request[r].plan > 0 /\ Changeable(rec, i, request[r].plan) /\ Change1(r, i)
UpdatePublicWorkflowRecord(r, i) ==
  /\ backend = "postgres" /\ Turn(r, "updatePublicWorkflowRecord")
  /\ enabled /\ Changeable(rec, i, request[r].plan) /\ Change1(r, i)

\* The in-memory store goes by what they are in its turn.
MayCreate(r) == CanWriteRole(role[request[r].actor]) /\ enabled /\ plan > 0
MayUpdate(r) == CanWriteRole(role[request[r].actor]) /\ plan > 0
CreateRecordInMemory(r, size) ==
  /\ backend = "memory" /\ Turn(r, "createRecord")
  /\ MayCreate(r) /\ HasRoom(rec, size, plan) /\ Append1(r, size)
CreatePublicRecordInMemory(r, size) ==
  /\ backend = "memory" /\ Turn(r, "createPublicRecord")
  /\ HasRoom(rec, size, plan) /\ Append1(r, size)
UpdateRecordInMemory(r, i) ==
  /\ backend = "memory" /\ Turn(r, "updateRecord")
  /\ MayUpdate(r) /\ Changeable(rec, i, plan) /\ Change1(r, i)
UpdatePublicWorkflowRecordInMemory(r, i) ==
  /\ backend = "memory" /\ Turn(r, "updatePublicWorkflowRecord")
  /\ enabled /\ plan > 0 /\ Changeable(rec, i, plan) /\ Change1(r, i)

\* A refused write, a record that is not there, a client that gives up.
Refuse(r) ==
  /\ request[r].at = "waiting" /\ Free
  /\ records' = [records EXCEPT !.request[r] = Idle]

-----------------------------------------------------------------------------
RunInWorkspaceTransaction(r) ==
  /\ backend = "postgres" /\ Turn(r, "command")
  /\ records' = [records EXCEPT !.request[r] = [@ EXCEPT !.at = "in", !.draft = rec]]

RunInWorkspaceTransactionInMemory(r) ==
  /\ backend = "memory" /\ Turn(r, "command")
  /\ records' = [records EXCEPT !.request[r].at = "in",
       !.request[r].undo = [rec |-> rec, plan |-> plan, role |-> role, enabled |-> enabled]]

\* A step of a command reads the role and the plan again.
Write(r, changed, kind) ==
  records' = IF backend = "postgres"
    THEN [records EXCEPT !.request[r].draft = changed, !.request[r].writes[kind] = @ + 1]
    ELSE [records EXCEPT !.rec = changed, !.request[r].writes[kind] = @ + 1]

CommandCreates(r, size) ==
  /\ request[r].at = "in" /\ Len(Seen(r)) < MaxRecords
  /\ MayCreate(r) /\ HasRoom(Seen(r), size, plan)
  /\ Write(r, Append(Seen(r), New(r, size)), "creates")

CommandUpdates(r, i) ==
  /\ request[r].at = "in" /\ MayUpdate(r) /\ Changeable(Seen(r), i, plan)
  /\ Write(r, [Seen(r) EXCEPT ![i].version = @ + 1], "updates")

Commit(r) ==
  /\ request[r].at = "in"
  /\ records' = [records EXCEPT
       !.rec = [i \in DOMAIN Seen(r) |-> [Seen(r)[i] EXCEPT !.open = FALSE]],
       !.request[r] = Idle,
       !.acked = [creates |-> @.creates + request[r].writes.creates, updates |-> @.updates + request[r].writes.updates]]

\* An error of any step.
Rollback(r) ==
  /\ backend = "postgres" /\ request[r].at = "in"
  /\ records' = [records EXCEPT !.request[r] = Idle]

\* It takes back what others did meanwhile to the plan, the members and the
\* modules as well.
RollbackInMemory(r) ==
  /\ backend = "memory" /\ request[r].at = "in"
  /\ LET undo == request[r].undo IN
     records' = [records EXCEPT !.rec = undo.rec, !.plan = undo.plan, !.role = undo.role, !.enabled = undo.enabled,
                   !.request = [Remembering(undo.plan) EXCEPT ![r] = Idle]]

Starts(r) ==
  \/ \E a \in {Owner, Other}, o \in {"createRecord", "updateRecord", "command"} : WithUserWorkspace(r, a, o)
  \/ \E o \in {"createPublicRecord", "updatePublicWorkflowRecord"} : WithPublicWorkspace(r, o)
  \/ RunInWorkspaceTransaction(r) \/ RunInWorkspaceTransactionInMemory(r)
Creates(r, size) ==
  \/ CreateRecord(r, size) \/ CreatePublicRecord(r, size)
  \/ CreateRecordInMemory(r, size) \/ CreatePublicRecordInMemory(r, size)
  \/ CommandCreates(r, size)
Updates(r, i) ==
  \/ UpdateRecord(r, i) \/ UpdatePublicWorkflowRecord(r, i)
  \/ UpdateRecordInMemory(r, i) \/ UpdatePublicWorkflowRecordInMemory(r, i)
  \/ CommandUpdates(r, i)

Next ==
  \/ \E r \in Role : AddWorkspaceMember(r)
  \/ RemoveWorkspaceMember
  \/ EnableModule
  \/ \E p \in Plan : SetWorkspacePlan(p)
  \/ \E r \in Request : Starts(r) \/ Refuse(r) \/ Commit(r) \/ Rollback(r) \/ RollbackInMemory(r)
  \/ \E r \in Request, size \in Size : Creates(r, size)
  \/ \E r \in Request, i \in 1 .. MaxRecords : Updates(r, i)

Spec == Init /\ [][Next]_records

-----------------------------------------------------------------------------
\* However requests race with each other and with changes of the plan: when a
\* record was created it had room under the best plan its request could have
\* seen, also in storage.
HadRoom(s) ==
  \A i \in DOMAIN s :
    /\ i <= RecordLimit[s[i].best]
    /\ s[i].size > 0 => Units(SubSeq(s, 1, i)) <= StorageLimit[s[i].best]
CreatedWithinQuota == HadRoom(rec)

\* What was answered with success stays, a failed command leaves nothing, and
\* no two writers overwrite each other: between commands the records are those
\* that were acknowledged.
AcknowledgedStays ==
  Free =>
    /\ \A i \in DOMAIN rec : ~rec[i].open
    /\ Len(rec) = acked.creates
    /\ MapThenSumSet(LAMBDA i : rec[i].version - 1, DOMAIN rec) = acked.updates
\* Why it had.  A request's best plan is no worse than the one it read, and no
\* worse than the present one; and what a command wrote, or would restore, had
\* room as well.
Listed(s) == s \in Seq([size : Nat, version : Nat, open : BOOLEAN, best : Plan]) /\ HadRoom(s)
StoreInvariant ==
  /\ {"backend", "plan", "role", "enabled", "rec", "request", "acked"} \subseteq DOMAIN records
  /\ backend \in {"postgres", "memory"} /\ plan \in Plan /\ Listed(rec)
  /\ DOMAIN request = Request
  /\ \A r \in Request : UnderWay(r) =>
       /\ {"at", "plan", "best", "draft", "undo", "writes"} \subseteq DOMAIN request[r]
       /\ request[r].best \in Plan /\ request[r].plan \in Plan
       /\ plan <= request[r].best /\ request[r].plan <= request[r].best
       /\ request[r].at = "in" =>
            /\ backend = "postgres" => Listed(request[r].draft)
            /\ backend = "memory" =>
                 {"rec", "plan"} \subseteq DOMAIN request[r].undo /\ request[r].undo.plan \in Plan /\ Listed(request[r].undo.rec)
=============================================================================
