------------------------------- MODULE Finance -------------------------------
(***************************************************************************)
(* The finance commands of the suite engine: time entries, invoices made   *)
(* from them and payments against invoices.  A command runs in a workspace *)
(* transaction under the workspace's lock, so it is one step; a replayed   *)
(* idempotency key returns what was stored and changes nothing.            *)
(*                                                                         *)
(* A record is its position in its list.  One client and one currency; a   *)
(* content hash stands for fields nothing rewrites, so comparing it is     *)
(* comparing the record itself.                                            *)
(***************************************************************************)
EXTENDS Naturals, Sequences, FiniteSets, FiniteSetsExt

CONSTANTS
  Contributor, Project, Key,
  Horizon,       \* time is 0 .. Horizon, a unit is SlotMinutes
  SlotMinutes, Rate, Year, Amount,
  MaxEntries, MaxInvoices

VARIABLE records  \* entries, invoices and payments

NoInvoice == 0
NoKey     == 0
entry     == records.entry
invoice   == records.invoice
payment   == records.payment

Init == records = [entry |-> <<>>, invoice |-> <<>>, payment |-> <<>>]

Overlap(a, b) == a.from < b.to /\ a.to > b.from

TimeCreate(new) ==
  /\ Len(entry) < MaxEntries /\ new.from < new.to
  /\ \A e \in DOMAIN entry : entry[e].by = new.by => ~Overlap(new, entry[e])
  /\ records' = [records EXCEPT !.entry =
       Append(@, [by |-> new.by, from |-> new.from, to |-> new.to, project |-> new.project,
                  rate |-> new.rate, state |-> "draft", invoice |-> NoInvoice])]

TimeSubmit(e) ==
  /\ entry[e].state = "draft"
  /\ records' = [records EXCEPT !.entry[e].state = "submitted"]

TimeApprove(e) ==
  /\ entry[e].state = "submitted"
  /\ records' = [records EXCEPT !.entry[e].state = "approved"]

\* Minutes at an hourly rate, each line rounded half up.
LineTotal(e) == ((entry[e].to - entry[e].from) * SlotMinutes * entry[e].rate + 30) \div 60
InvoiceTotal(sources) == MapThenSumSet(LineTotal, sources)

Billable(e) == entry[e].state = "approved" /\ entry[e].invoice = NoInvoice

\* A preview stores its lines and totals; it reserves none of its sources.
InvoicePreview(project, sources, year) ==
  /\ Len(invoice) < MaxInvoices
  /\ sources # {} /\ \A e \in sources : Billable(e) /\ entry[e].project = project
  /\ records' = [records EXCEPT !.invoice =
       Append(@, [state |-> "draft", sources |-> sources, total |-> InvoiceTotal(sources),
                  balance |-> InvoiceTotal(sources), paid |-> 0,
                  year |-> year, sequence |-> 0, key |-> NoKey])]

NextSequence(year) ==
  Max({0} \cup {invoice[i].sequence : i \in {j \in DOMAIN invoice : invoice[j].sequence > 0 /\ invoice[j].year = year}}) + 1

\* Mutant of InvoiceIssue: the sources are not read again.
InvoiceIssueAsPreviewed(i, key) ==
  /\ \A j \in DOMAIN invoice : invoice[j].key # key
  /\ invoice[i].state = "draft"
  /\ records' = [records EXCEPT
       !.entry = [e \in DOMAIN @ |-> IF e \in invoice[i].sources
                                     THEN [@[e] EXCEPT !.state = "invoiced", !.invoice = i] ELSE @[e]],
       !.invoice[i].state = "issued", !.invoice[i].key = key,
       !.invoice[i].sequence = NextSequence(invoice[i].year)]

InvoiceIssue(i, key) ==
  /\ \A j \in DOMAIN invoice : invoice[j].key # key
  /\ invoice[i].state = "draft"
  /\ \A e \in invoice[i].sources : Billable(e)
  /\ records' = [records EXCEPT
       !.entry = [e \in DOMAIN @ |-> IF e \in invoice[i].sources
                                     THEN [@[e] EXCEPT !.state = "invoiced", !.invoice = i] ELSE @[e]],
       !.invoice[i].state = "issued", !.invoice[i].key = key,
       !.invoice[i].sequence = NextSequence(invoice[i].year)]

PaymentRecord(i, amount, key) ==
  /\ \A p \in DOMAIN payment : payment[p].key # key
  /\ invoice[i].state \in {"issued", "partially_paid"} /\ amount <= invoice[i].balance
  /\ records' = [records EXCEPT
       !.payment = Append(@, [invoice |-> i, amount |-> amount, key |-> key]),
       !.invoice[i].paid = @ + amount, !.invoice[i].balance = @ - amount,
       !.invoice[i].state = IF amount = invoice[i].balance THEN "paid" ELSE "partially_paid"]

Next ==
  \/ \E new \in [by : Contributor, from : 0 .. Horizon, to : 0 .. Horizon, project : Project, rate : Rate] :
       TimeCreate(new)
  \/ \E e \in DOMAIN entry : TimeSubmit(e) \/ TimeApprove(e)
  \/ \E p \in Project, s \in SUBSET DOMAIN entry, y \in Year : InvoicePreview(p, s, y)
  \/ \E i \in DOMAIN invoice, k \in Key : InvoiceIssue(i, k) \/ \E a \in Amount : PaymentRecord(i, a, k)

Spec == Init /\ [][Next]_records

-----------------------------------------------------------------------------
Issued == {i \in DOMAIN invoice : invoice[i].state # "draft"}
PaidTowards(i) == MapThenSumSet(LAMBDA p : payment[p].amount, {p \in DOMAIN payment : payment[p].invoice = i})

\* However often the same work is previewed, an hour of a contributor is billed
\* on one issued invoice at most, the payments of an invoice add up to what it
\* says is paid, what is paid and what is owed add up to its total, and the
\* invoices of a year are numbered from 1 without a gap or a repetition.
BooksBalance ==
  /\ \A e \in DOMAIN entry : \A i \in DOMAIN invoice :
       (i \in Issued /\ e \in invoice[i].sources) <=> (entry[e].state = "invoiced" /\ entry[e].invoice = i)
  /\ \A i \in Issued : /\ invoice[i].paid = PaidTowards(i)
                       /\ invoice[i].paid + invoice[i].balance = InvoiceTotal(invoice[i].sources)
                       /\ invoice[i].state = "paid" => invoice[i].balance = 0
  /\ \A y \in Year : LET numbered == {i \in Issued : invoice[i].year = y} IN
       {invoice[i].sequence : i \in numbered} = 1 .. Cardinality(numbered)

Entry   == [by : Contributor, from : 0 .. Horizon, to : 0 .. Horizon, project : Project, rate : Rate,
            state : {"draft", "submitted", "approved", "invoiced"}, invoice : Nat]
Invoice == [state : {"draft", "issued", "partially_paid", "paid"}, sources : SUBSET DOMAIN entry,
            total : Nat, balance : Nat, paid : Nat, year : Year, sequence : Nat, key : Key \cup {NoKey}]
Payment == [invoice : Issued, amount : Amount, key : Key]

\* The inductive form of BooksBalance: an entry ends after it starts, invoices
\* keep the total of their entries, and nothing is paid on or numbered before
\* it is issued.
BooksInvariant ==
  /\ {"entry", "invoice", "payment"} \subseteq DOMAIN records
  /\ entry \in Seq(Entry) /\ invoice \in Seq(Invoice) /\ payment \in Seq(Payment)
  /\ \A e \in DOMAIN entry : entry[e].from < entry[e].to
  /\ \A e \in DOMAIN entry : entry[e].state = "invoiced" => entry[e].invoice \in DOMAIN invoice
  /\ \A i \in DOMAIN invoice :
       /\ invoice[i].total = InvoiceTotal(invoice[i].sources)
       /\ i \notin Issued => invoice[i].balance = invoice[i].total /\ invoice[i].paid = 0 /\ invoice[i].sequence = 0
  /\ BooksBalance
=============================================================================
