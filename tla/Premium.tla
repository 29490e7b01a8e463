------------------------------ MODULE Premium ------------------------------
(***************************************************************************)
(* The premium engine.  Operations: items and orders, invoices drawn from  *)
(* an order, payments against an invoice, journals that balance; prices    *)
(* are read when the order is made and copied from there.  Projects:       *)
(* issues with dependencies and a state machine, cycles committed from a   *)
(* snapshot of issues.  Drive: files with versions, retention, shares and  *)
(* deletion.  Issue and file records carry a version number every update   *)
(* advances.                                                               *)
(***************************************************************************)
EXTENDS Naturals, Sequences, FiniteSets, FiniteSetsExt

CONSTANTS
  Sku, Price, Quantity, Amount, Period,
  MaxOrders, MaxInvoices, MaxPayments, MaxJournals,
  ProjectKey, Points, CapacityPoints, Horizon, Until,
  MaxIssues, MaxCycles, MaxVersion, MaxFiles, MaxShares

VARIABLE records   \* the clock, the ledger's, the projects' and the drive's records

item    == records.item
order   == records.order
invoice == records.invoice
payment == records.payment
journal == records.journal
now     == records.now
project == records.project
issue   == records.issue
cycle   == records.cycle
file    == records.file
share   == records.share
stored  == records.stored    \* immutable file versions

Init == records = [item |-> {}, order |-> <<>>, invoice |-> <<>>, payment |-> <<>>, journal |-> <<>>,
                   now |-> 0, project |-> {}, issue |-> <<>>, cycle |-> <<>>,
                   file |-> <<>>, stored |-> <<>>, share |-> <<>>]

-----------------------------------------------------------------------------
Total(f(_), S) == MapThenSumSet(f, S)

ItemCreate(sku, price) ==
  /\ \A i \in item : i.sku # sku
  /\ records' = [records EXCEPT !.item = @ \cup {[sku |-> sku, price |-> price]}]

OrderCreate(i, quantity) ==
  /\ Len(order) < MaxOrders
  /\ records' = [records EXCEPT !.order = Append(@, [total |-> quantity * i.price])]

\* An order may be drawn on more than once.
InvoiceDraft(o) ==
  /\ Len(invoice) < MaxInvoices
  /\ records' = [records EXCEPT !.invoice =
       Append(@, [order |-> o, total |-> order[o].total, balance |-> order[o].total, state |-> "draft"])]

InvoiceIssue(i) == invoice[i].state = "draft" /\ records' = [records EXCEPT !.invoice[i].state = "open"]

Paying(i, amount) ==
  LET rest == invoice[i].balance - amount
  IN [records EXCEPT !.payment = Append(@, [invoice |-> i, amount |-> amount]),
                     !.invoice[i] = [@ EXCEPT !.balance = rest, !.state = IF rest = 0 THEN "paid" ELSE "open"]]

\* Mutant of PaymentRecord: compared with the total rather than with what is left.
PaymentRecordOfTotal(i, amount) ==
  /\ invoice[i].state = "open" /\ amount <= invoice[i].total /\ Len(payment) < MaxPayments
  /\ records' = [Paying(i, amount) EXCEPT !.invoice[i].balance =
       IF amount > invoice[i].balance THEN 0 ELSE invoice[i].balance - amount]

PaymentRecord(i, amount) ==
  /\ invoice[i].state = "open" /\ amount <= invoice[i].balance /\ Len(payment) < MaxPayments
  /\ records' = Paying(i, amount)

\* A journal line has either a debit or a credit, and the two sides agree.
JournalPost(period, entries) ==
  /\ Cardinality(entries) >= 2 /\ \A e \in entries : (e.debit = 0) # (e.credit = 0)
  /\ Total(LAMBDA e : e.debit, entries) = Total(LAMBDA e : e.credit, entries)
  /\ records' = [records EXCEPT !.journal = Append(@, [period |-> period, entries |-> entries])]

Lines == [account : 1 .. 2, debit : Amount \cup {0}, credit : Amount \cup {0}]

OperationsNext ==
  \/ \E s \in Sku, p \in Price : ItemCreate(s, p)
  \/ \E i \in item, q \in Quantity : OrderCreate(i, q)
  \/ \E o \in DOMAIN order : InvoiceDraft(o)
  \/ \E i \in DOMAIN invoice : InvoiceIssue(i) \/ \E a \in Amount : PaymentRecord(i, a)
  \/ /\ Len(journal) < MaxJournals
     /\ \E p \in Period, a, b, c \in Lines : JournalPost(p, {a, b, c})

-----------------------------------------------------------------------------
Tick == now < Horizon /\ records' = [records EXCEPT !.now = @ + 1]

ProjectCreate(key) == key \notin project /\ records' = [records EXCEPT !.project = @ \cup {key}]

IssueCreate(p, points) ==
  /\ p \in project /\ Len(issue) < MaxIssues
  /\ records' = [records EXCEPT !.issue =
       Append(@, [project |-> p, points |-> points, state |-> "backlog", needs |-> {}, version |-> 1])]

\* What i depends on: after as many steps as there are issues, all of it.
Reaches(i) ==
  LET reached[n \in 0 .. Len(issue)] ==
        IF n = 0 THEN {i} ELSE reached[n - 1] \cup UNION {issue[j].needs : j \in reached[n - 1]}
  IN  reached[Len(issue)]

Depending(i, d) == [records EXCEPT !.issue[i] = [@ EXCEPT !.needs = @ \cup {d}, !.version = @ + 1]]
MayLink(i, d) == i # d /\ issue[i].project = issue[d].project /\ d \notin issue[i].needs /\ issue[i].version < MaxVersion

\* Mutant of DependencyLink: only the direct dependency back is looked at.
DependencyLinkUnlessMutual(i, d) == MayLink(i, d) /\ i \notin issue[d].needs /\ records' = Depending(i, d)

DependencyLink(i, d) == MayLink(i, d) /\ i \notin Reaches(d) /\ records' = Depending(i, d)

StateTransitions == [backlog |-> {"ready"}, ready |-> {"active"}, active |-> {"blocked", "done"},
                     blocked |-> {"active"}, done |-> {}]

IssueTransition(i, to) ==
  /\ to \in StateTransitions[issue[i].state] /\ issue[i].version < MaxVersion
  /\ records' = [records EXCEPT !.issue[i] = [@ EXCEPT !.state = to, !.version = @ + 1]]

Snapshot(i) == [issue |-> i, version |-> issue[i].version, points |-> issue[i].points, state |-> issue[i].state]

CycleDraft(p, I) ==
  /\ Len(cycle) < MaxCycles /\ I # {}
  /\ \A i \in I : issue[i].project = p /\ issue[i].state # "done"
  /\ MapThenSumSet(LAMBDA i : issue[i].points, I) <= CapacityPoints
  /\ records' = [records EXCEPT !.cycle = Append(@, [project |-> p, snapshot |-> {Snapshot(i) : i \in I}, state |-> "draft"])]

CycleCommit(c) ==
  /\ cycle[c].state = "draft" /\ \A s \in cycle[c].snapshot : s = Snapshot(s.issue)
  /\ records' = [records EXCEPT !.cycle[c].state = "active"]

ProjectsNext ==
  \/ \E p \in ProjectKey : \/ ProjectCreate(p)
                           \/ \E n \in Points : IssueCreate(p, n)
                           \/ \E I \in SUBSET DOMAIN issue : CycleDraft(p, I)
  \/ \E i \in DOMAIN issue : \/ \E d \in DOMAIN issue : DependencyLink(i, d)
                             \/ \E s \in DOMAIN StateTransitions : IssueTransition(i, s)
  \/ \E c \in DOMAIN cycle : CycleCommit(c)

FileRegister ==
  /\ Len(file) < MaxFiles
  /\ records' = [records EXCEPT
       !.file = Append(@, [state |-> "available", number |-> 1, version |-> 1, retention |-> 0, hold |-> FALSE]),
       !.stored = Append(@, [file |-> Len(file) + 1, number |-> 1])]

Touchable(f) == file[f].version < MaxVersion

FileVersionAdd(f) ==
  /\ file[f].state = "available" /\ Touchable(f)
  /\ records' = [records EXCEPT !.file[f] = [@ EXCEPT !.number = @ + 1, !.version = @ + 1],
                                !.stored = Append(@, [file |-> f, number |-> file[f].number + 1])]

\* What a share was previewed with is what it is made with: the file's version is in the plan.
ShareCreate(f, expires) ==
  /\ file[f].state = "available" /\ expires > now /\ Len(share) < MaxShares
  /\ records' = [records EXCEPT !.share = Append(@, [file |-> f, version |-> file[f].version, number |-> file[f].number])]

\* A window may be set again, to an earlier time too, and on a deleted file.
RetentionSet(f, until, hold) ==
  /\ Touchable(f)
  /\ records' = [records EXCEPT !.file[f] = [@ EXCEPT !.retention = until, !.hold = hold, !.version = @ + 1]]

FileDelete(f) ==
  /\ ~file[f].hold /\ file[f].retention <= now /\ Touchable(f)
  /\ records' = [records EXCEPT !.file[f] = [@ EXCEPT !.state = "deleted", !.version = @ + 1]]

DriveNext ==
  \/ Tick
  \/ FileRegister
  \/ \E f \in DOMAIN file :
       \/ FileVersionAdd(f)
       \/ \E x \in Until : ShareCreate(f, x)
       \/ \E x \in Until, h \in BOOLEAN : RetentionSet(f, x, h)
       \/ FileDelete(f)

Next == OperationsNext \/ ProjectsNext \/ DriveNext
Spec == Init /\ [][Next]_records

(***************************************************************************)
(* What was linked and stored stays consistent: no issue waits for itself, *)
(* through any chain of dependencies; a file's stored versions are 1 to    *)
(* the number it shows, each once, and a share names one of them.          *)
(***************************************************************************)
WorkIsConsistent ==
  /\ \A i \in DOMAIN issue : \A d \in issue[i].needs : i \notin Reaches(d)
  /\ \A f \in DOMAIN file :
       LET of == {n \in DOMAIN stored : stored[n].file = f}
       IN {stored[n].number : n \in of} = 1 .. file[f].number /\ Cardinality(of) = file[f].number
  /\ \A n \in DOMAIN share : share[n].number <= file[share[n].file].number /\ share[n].version <= file[share[n].file].version

(***************************************************************************)
(* The ledger adds up: what an invoice still owes and what was paid on it  *)
(* are its order's total, only an issued one was paid on, and it is paid   *)
(* exactly when something was due and nothing is left.                     *)
(***************************************************************************)
LedgerAddsUp ==
  /\ \A i \in DOMAIN invoice :
       LET paid == {p \in DOMAIN payment : payment[p].invoice = i}
       IN /\ invoice[i].total = order[invoice[i].order].total
          /\ invoice[i].balance + Total(LAMBDA p : payment[p].amount, paid) = invoice[i].total
          /\ invoice[i].state = "draft" => paid = {}
          /\ invoice[i].state = "paid" <=> invoice[i].balance = 0 /\ paid # {}
  /\ \A n \in DOMAIN journal : Total(LAMBDA e : e.debit, journal[n].entries) > 0

Draws    == [order : DOMAIN order, total : Nat, balance : Nat, state : {"draft", "open", "paid"}]
Payments == [invoice : DOMAIN invoice, amount : Amount]
Journals == [period : Period, entries : SUBSET Lines]

\* The inductive form of LedgerAddsUp: of its records.
LedgerInvariant ==
  /\ {"item", "order", "invoice", "payment", "journal"} \subseteq DOMAIN records
  /\ item \in SUBSET [sku : Sku, price : Price] /\ order \in Seq([total : Nat])
  /\ invoice \in Seq(Draws) /\ payment \in Seq(Payments) /\ journal \in Seq(Journals)
  /\ LedgerAddsUp
=============================================================================
