------------------------------ MODULE Metering ------------------------------
(***************************************************************************)
(* The metering module of the extended business engine: attested usage     *)
(* events, aggregates frozen over a period, plans and subscriptions,       *)
(* credits, and invoices that are drafted, finalized and paid.  One        *)
(* subject and one currency; the clock is past every time the instance     *)
(* names.  A record is its position in its list, and a content hash stands *)
(* for fields nothing rewrites.                                            *)
(***************************************************************************)
EXTENDS Integers, Sequences, FiniteSets, FiniteSetsExt

CONSTANTS
  Aggregation,        \* a subset of {"sum", "count", "maximum"}
  Source, Quantity, Unit, Base, Amount, Receipt,
  Horizon,            \* periods lie within 0 .. Horizon
  MaxMeters, MaxAggregates, MaxInvoices, MaxCredits

VARIABLE records   \* meters, usage, plans, subscriptions, credits and invoices

meter        == records.meter
usage        == records.usage
aggregate    == records.aggregate
plan         == records.plan
subscription == records.subscription
credit       == records.credit
invoice      == records.invoice
application  == records.application
payment      == records.payment

Init == records = [meter |-> <<>>, usage |-> <<>>, aggregate |-> <<>>, plan |-> <<>>, subscription |-> <<>>,
                   credit |-> <<>>, invoice |-> <<>>, application |-> {}, payment |-> <<>>]

Period == {p \in [from : 0 .. Horizon, to : 0 .. Horizon] : p.from < p.to}

CreateMeter(kind) ==
  /\ Len(meter) < MaxMeters
  /\ records' = [records EXCEPT !.meter = Append(@, kind)]

IngestEvent(m, source, at, quantity) ==
  /\ \A e \in DOMAIN usage : usage[e].source # source
  /\ records' = [records EXCEPT !.usage = Append(@, [meter |-> m, source |-> source, at |-> at, quantity |-> quantity])]

MeterQuantity(m, events) ==
  CASE meter[m] = "count"   -> Cardinality(events)
    [] meter[m] = "maximum" -> Max({usage[e].quantity : e \in events})
    [] meter[m] = "sum"     -> MapThenSumSet(LAMBDA e : usage[e].quantity, events)

Within(m, p) == {e \in DOMAIN usage : usage[e].meter = m /\ usage[e].at >= p.from /\ usage[e].at < p.to}

\* An aggregate that equals a frozen one in every field is that one.  A late
\* event makes another aggregate of the same period.
AggregateUsage(m, p) ==
  LET frozen == [meter |-> m, period |-> p, events |-> Within(m, p), quantity |-> MeterQuantity(m, Within(m, p))] IN
  /\ Len(aggregate) < MaxAggregates /\ Within(m, p) # {}
  /\ \A a \in DOMAIN aggregate : aggregate[a] # frozen
  /\ records' = [records EXCEPT !.aggregate = Append(@, frozen)]

PublishPlan(m, base, unit) ==
  /\ Len(plan) < MaxMeters
  /\ records' = [records EXCEPT !.plan = Append(@, [meter |-> m, base |-> base, unit |-> unit])]

CreateSubscription(p) ==
  /\ Len(subscription) < MaxMeters
  /\ records' = [records EXCEPT !.subscription = Append(@, p)]

GrantCredit(s, amount, receipt) ==
  /\ Len(credit) < MaxCredits
  /\ \A c \in DOMAIN credit : credit[c].receipt # receipt
  /\ records' = [records EXCEPT !.credit =
       Append(@, [subscription |-> s, amount |-> amount, remaining |-> amount, receipt |-> receipt])]

Overlap(p, q) == p.from < q.to /\ q.from < p.to
Charge(p, aggregates) == plan[p].base + plan[p].unit * MapThenSumSet(LAMBDA a : aggregate[a].quantity, aggregates)

\* The oldest credits first, each as far as the charge still goes; nothing is
\* taken from a credit until the invoice is final.
Allocations(s, charge) ==
  LET open   == {c \in DOMAIN credit : credit[c].subscription = s /\ credit[c].remaining > 0}
      before(c) == MapThenSumSet(LAMBDA d : credit[d].remaining, {d \in open : d < c})
  IN  [c \in {d \in open : before(d) < charge} |-> Min({credit[c].remaining, charge - before(c)})]

AllocatedOf(allocations) == MapThenSumSet(LAMBDA c : allocations[c], DOMAIN allocations)

DraftInvoice(s, aggregates, p) ==
  LET charge == Charge(subscription[s], aggregates)
      taken  == Allocations(s, charge)
  IN
  /\ Len(invoice) < MaxInvoices /\ aggregates # {}
  /\ \A a \in aggregates : /\ aggregate[a].meter = plan[subscription[s]].meter
                           /\ aggregate[a].period.from >= p.from /\ aggregate[a].period.to <= p.to
  /\ \A a, b \in aggregates : a # b => ~Overlap(aggregate[a].period, aggregate[b].period)
  /\ \A i \in DOMAIN invoice : ~(invoice[i].subscription = s /\ invoice[i].period = p)
  /\ records' = [records EXCEPT !.invoice =
       Append(@, [subscription |-> s, period |-> p, aggregates |-> aggregates, subtotal |-> charge,
                  allocations |-> taken, total |-> charge - AllocatedOf(taken), state |-> "draft"])]

Without(grant, used) == [grant EXCEPT !.remaining = @ - used]

Finalizing(i) ==
  LET taken == invoice[i].allocations IN
  [records EXCEPT
     !.invoice[i].state = "final",
     !.credit = [c \in DOMAIN credit |-> IF c \in DOMAIN taken THEN Without(credit[c], taken[c]) ELSE credit[c]],
     !.application = @ \cup {[credit |-> c, invoice |-> i, amount |-> taken[c]] : c \in DOMAIN taken}]

\* Mutant of FinalizeInvoice: the credits are not read again.
FinalizeInvoiceAsDrafted(i) == invoice[i].state = "draft" /\ records' = Finalizing(i)

\* Credits another invoice has used since leave this draft unfinishable, and
\* its period taken.
FinalizeInvoice(i) ==
  /\ invoice[i].state = "draft"
  /\ \A c \in DOMAIN invoice[i].allocations : credit[c].remaining >= invoice[i].allocations[c]
  /\ records' = Finalizing(i)

RecordPayment(i, receipt) ==
  /\ invoice[i].state = "final"
  /\ \A p \in DOMAIN payment : payment[p].receipt # receipt
  /\ records' = [records EXCEPT !.invoice[i].state = "paid",
                   !.payment = Append(@, [invoice |-> i, receipt |-> receipt, amount |-> invoice[i].total])]

Next ==
  \/ \E k \in Aggregation : CreateMeter(k)
  \/ \E m \in DOMAIN meter :
       \/ \E s \in Source, t \in 0 .. Horizon - 1, q \in Quantity : IngestEvent(m, s, t, q)
       \/ \E p \in Period : AggregateUsage(m, p)
       \/ \E b \in Base, u \in Unit : PublishPlan(m, b, u)
  \/ \E p \in DOMAIN plan : CreateSubscription(p)
  \/ \E s \in DOMAIN subscription :
       \/ \E a \in Amount, r \in Receipt : GrantCredit(s, a, r)
       \/ \E S \in SUBSET DOMAIN aggregate, p \in Period : DraftInvoice(s, S, p)
  \/ \E i \in DOMAIN invoice : FinalizeInvoice(i) \/ \E r \in Receipt : RecordPayment(i, r)

Spec == Init /\ [][Next]_records

-----------------------------------------------------------------------------
Applied(S) == MapThenSumSet(LAMBDA a : a.amount, S)

\* However drafts and finalizations of invoices interleave, a credit is never
\* used beyond its amount and what is left of it is its amount less what was
\* applied; and a final invoice asks for its charge less exactly the credits
\* applied to it, and is paid once, in full.
CreditsAddUp ==
  /\ \A c \in DOMAIN credit :
       /\ credit[c].remaining >= 0
       /\ credit[c].remaining = credit[c].amount - Applied({a \in application : a.credit = c})
  /\ \A i \in DOMAIN invoice : invoice[i].state # "draft" =>
       /\ invoice[i].total = invoice[i].subtotal - Applied({a \in application : a.invoice = i})
       /\ invoice[i].total >= 0
       /\ {payment[p].amount : p \in {q \in DOMAIN payment : payment[q].invoice = i}}
            = IF invoice[i].state = "paid" THEN {invoice[i].total} ELSE {}

\* No usage event is charged on two invoices that are final.  The code does
\* not keep this: periods that differ may hold the same aggregate.
UsageChargedOnce ==
  \A i, j \in DOMAIN invoice : i # j /\ invoice[i].state # "draft" /\ invoice[j].state # "draft" =>
    UNION {aggregate[a].events : a \in invoice[i].aggregates}
      \cap UNION {aggregate[a].events : a \in invoice[j].aggregates} = {}

Usage     == [meter : Nat, source : Source, at : 0 .. Horizon, quantity : Quantity]
Aggregate == [meter : Nat, period : Period, events : SUBSET Nat, quantity : Nat]
Plan      == [meter : Nat, base : Base, unit : Unit]
Granted   == [subscription : Nat, amount : Amount, remaining : Nat, receipt : Receipt]
Bill      == [subscription : Nat, period : Period, aggregates : SUBSET Nat, subtotal : Nat, total : Nat,
              allocations : {invoice[i].allocations : i \in DOMAIN invoice}, state : {"draft", "final", "paid"}]
Applying  == [credit : DOMAIN credit, invoice : {i \in DOMAIN invoice : invoice[i].state # "draft"}, amount : Nat]
Paying    == [invoice : DOMAIN invoice, receipt : Receipt, amount : Nat]

\* The inductive form of CreditsAddUp: an invoice asks for what its charge
\* leaves of the credits it names, draft or not, and payments are of paid ones.
CreditsInvariant ==
  /\ {"meter", "usage", "aggregate", "plan", "subscription", "credit", "invoice", "application", "payment"}
       \subseteq DOMAIN records
  /\ meter \in Seq(Aggregation) /\ usage \in Seq(Usage) /\ aggregate \in Seq(Aggregate)
  /\ plan \in Seq(Plan) /\ subscription \in Seq(DOMAIN plan)
  /\ credit \in Seq(Granted) /\ invoice \in Seq(Bill) /\ payment \in Seq(Paying)
  /\ application \in SUBSET Applying /\ IsFiniteSet(application)
  /\ \A i \in DOMAIN invoice :
       /\ invoice[i].allocations \in [DOMAIN invoice[i].allocations -> Nat]
       /\ DOMAIN invoice[i].allocations \subseteq DOMAIN credit
       /\ invoice[i].total + AllocatedOf(invoice[i].allocations) = invoice[i].subtotal
  /\ \A p \in DOMAIN payment : invoice[payment[p].invoice].state = "paid"
  /\ CreditsAddUp
=============================================================================
