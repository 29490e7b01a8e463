----------------------------- MODULE RecordPages -----------------------------
(***************************************************************************)
(* A person pages through the records of a module while others write them. *)
(* A page names where the next one starts: the time and the id of the last *)
(* record listed.  A person who does not manage the workspace sees what    *)
(* the records let him see, so his page scans on until it is full.  Time   *)
(* has the database's precision; a record that is read carries it in       *)
(* milliseconds.  The in-memory store keeps milliseconds and lists in one  *)
(* scan; other readers ask for the newest records in one call.  A record's *)
(* contents are left out but for who may read it, filters as well.         *)
(***************************************************************************)
EXTENDS Integers, Sequences, FiniteSets, SequencesExt

CONSTANTS
  Id,            \* the ids records may get
  Class,         \* "shared", "managers", or "person": who may read a record
  Role,          \* the roles the reader may have, "none" once he is removed
  Precision,     \* clock readings in a millisecond
  PageLimit, ScanLimit,
  ListLimit,     \* of a listing that is one call
  Horizon

VARIABLE records

rec  == records.rec    \* the stored records
role == records.role   \* the reader's role
now  == records.now
page == records.page   \* the listing: cursor, scan, records of the page read so far, records listed
\* For the properties: the records nobody has touched and the reader could read
\* since the listing began, and those that have shared a millisecond.
steady  == records.steady
crowded == records.crowded

Start == [now |-> Horizon + 1, id |-> 0]
NoPage == [at |-> "none", kind |-> "page", role |-> "none", cursor |-> Start, scan |-> Start, read |-> <<>>, listed |-> <<>>]

Init == \E r \in Role \ {"none"} :
  records = [rec |-> {}, role |-> r, now |-> 0, page |-> NoPage, steady |-> {}, crowded |-> {}]

-----------------------------------------------------------------------------
Manages == page.role \in {"owner", "admin"}

\* Managers read everything, others what is shared or names them; audits,
\* receipts and what is protected stay hidden.
CanReadSuiteRecord(r, class) ==
  \/ r \in {"owner", "admin"}
  \/ r \in {"member", "viewer"} /\ class \in {"shared", "person"}

Millis(t) == t - (t % Precision)

\* Newest first, and the larger id of one time first.
Before(a, b) == a.now > b.now \/ (a.now = b.now /\ a.id > b.id)
AfterCursor(a, cursor) == Before(cursor, a)

\* The rows of one query of the scan.
Rows(cursor, limit) ==
  LET order == SetToSortSeq({row \in rec : AfterCursor(row, cursor)}, Before)
  IN SubSeq(order, 1, IF Len(order) < limit THEN Len(order) ELSE limit)

ReadableIds(r) == {row.id : row \in {row \in rec : CanReadSuiteRecord(r, row.class)}}
Crowds(rows) ==
  {row.id : row \in {row \in rows : \E other \in rows : row # other /\ Millis(row.now) = Millis(other.now)}}

\* Rows that replace those with their ids.  The time of a write is when its
\* transaction began, which may have waited for the workspace's lock since.
Stored(written) ==
  LET ids == {row.id : row \in written}
      rows == {row \in rec : row.id \notin ids} \cup written
  IN records' = [records EXCEPT !.rec = rows, !.steady = @ \ ids, !.crowded = @ \cup Crowds(rows)]

CreateRecord(ids, class, began) ==
  /\ ids \cap {row.id : row \in rec} = {}
  /\ Stored({[id |-> id, now |-> began, class |-> class] : id \in ids})

\* Who may read it stays as it is.
UpdateRecord(row, began) == Stored({[row EXCEPT !.now = began]})

ChangeRole(r) == r # role /\ records' = [records EXCEPT !.role = r, !.steady = @ \cap ReadableIds(r)]

Tick == now < Horizon /\ records' = [records EXCEPT !.now = @ + 1]

-----------------------------------------------------------------------------
\* The first page, or the one a cursor names: the reader's role is read once.
Asked(kind) ==
  records' = [records EXCEPT
    !.page = IF role = "none" THEN [NoPage EXCEPT !.at = "refused"]
             ELSE [@ EXCEPT !.at = "scan", !.kind = kind, !.role = role, !.scan = page.cursor],
    !.steady = IF page.at = "more" THEN @ ELSE ReadableIds(role)]
AskForPage == page.at \in {"none", "more"} /\ Asked("page")
AskForRecords == page.at = "none" /\ Asked("records")

\* What is left of a row once it is a record: its time in milliseconds.
AsRead(row) == [now |-> Millis(row.now), id |-> row.id]

\* A page that is full, one record over, ends with a cursor; one that is not
\* ends the listing.
Paged(visible) ==
  LET full == Len(visible) > PageLimit
      shown == IF full THEN SubSeq(visible, 1, PageLimit) ELSE visible
  IN [page EXCEPT !.at = IF full THEN "more" ELSE "done", !.cursor = IF full THEN Last(shown) ELSE Start,
                  !.scan = Start, !.read = <<>>, !.listed = @ \o [n \in DOMAIN shown |-> shown[n].id]]

\* One query of PostgreSQL: a manager's is the page, another's is one of a loop
\* whose statements may each see other records.
Queried(limit, isFull(_), result(_)) ==
  LET rows == Rows(page.scan, limit)
      readable == SelectSeq(rows, LAMBDA row : CanReadSuiteRecord(page.role, row.class))
      visible == page.read \o [n \in DOMAIN readable |-> AsRead(readable[n])]
      ended == Manages \/ Len(rows) < limit \/ isFull(visible)
  IN records' = [records EXCEPT !.page =
       IF ended THEN result(visible) ELSE [@ EXCEPT !.read = visible, !.scan = AsRead(Last(rows))]]

ListRecordPage ==
  /\ page.at = "scan" /\ page.kind = "page" /\ Precision > 1
  /\ Queried(IF Manages THEN PageLimit + 1 ELSE ScanLimit, LAMBDA visible : Len(visible) > PageLimit, Paged)

\* The newest records in one call.
Listed(visible) ==
  [page EXCEPT !.at = "done", !.scan = Start, !.read = <<>>,
     !.listed = [n \in 1 .. (IF Len(visible) < ListLimit THEN Len(visible) ELSE ListLimit) |-> visible[n].id]]
ListRecords ==
  /\ page.at = "scan" /\ page.kind = "records" /\ Precision > 1
  /\ Queried(IF Manages THEN ListLimit ELSE ScanLimit, LAMBDA visible : Len(visible) >= ListLimit, Listed)

\* The in-memory store sorts what is readable and after the cursor.
Readable == SelectSeq(Rows(page.scan, Cardinality(rec)), LAMBDA row : CanReadSuiteRecord(page.role, row.class))
ListRecordPageInMemory ==
  /\ page.at = "scan" /\ page.kind = "page" /\ Precision = 1
  /\ records' = [records EXCEPT !.page = Paged(Readable)]
ListRecordsInMemory ==
  /\ page.at = "scan" /\ page.kind = "records" /\ Precision = 1
  /\ records' = [records EXCEPT !.page = Listed(Readable)]

Next ==
  \/ \E ids \in {ids \in SUBSET Id : Cardinality(ids) \in {1, 2}} : \E class \in Class, began \in {now, now - 1} \cap Nat : CreateRecord(ids, class, began)
  \/ \E row \in rec, began \in {now, now - 1} \cap Nat : UpdateRecord(row, began)
  \/ \E r \in Role : ChangeRole(r)
  \/ Tick
  \/ AskForPage \/ AskForRecords
  \/ ListRecordPage \/ ListRecords
  \/ ListRecordPageInMemory \/ ListRecordsInMemory

Spec == Init /\ [][Next]_records

-----------------------------------------------------------------------------
TimesListed(id) == Cardinality({n \in DOMAIN page.listed : page.listed[n] = id})

\* However others write and the reader's role changes while he pages: a record
\* that nobody touched and that he could read all along is listed exactly once.
EachListedOnce(ids) ==
  \A id \in ids \cap steady :
    /\ TimesListed(id) <= 1
    /\ page.at = "done" => TimesListed(id) = 1

\* As the code keeps it: for records that never shared a millisecond.
AloneListedOnce == EachListedOnce(Id \ crowded)

\* As the tests have it: for all records.
AllListedOnce == EachListedOnce(Id)
=============================================================================
