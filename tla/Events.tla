------------------------------- MODULE Events -------------------------------
(***************************************************************************)
(* The events module of the extended business engine: one event, its       *)
(* ticket types, reservations that expire, checkouts, verified payment and *)
(* refund receipts, tickets and check-ins.  Every command is one           *)
(* transaction of the workspace; the clock moves between them.  An outside *)
(* receipt is accepted once its attestation is verified, which is the      *)
(* environment's choice to present it.                                     *)
(***************************************************************************)
EXTENDS Naturals, Sequences, FiniteSets, FiniteSetsExt

CONSTANTS
  Receipt,              \* receipt numbers of the payment provider, used again for refunds
  Quantity, Price, Amount, Capacity,
  Horizon, SalesEnd, StartsAt,
  MaxTypes, MaxReservations, MaxRequests, MaxVersion

VARIABLE records   \* the clock, the event and what is sold of it

now         == records.now
event       == records.event
type        == records.type
reservation == records.reservation
checkout    == records.checkout
payment     == records.payment
ticket      == records.ticket
request     == records.request
refund      == records.refund

Init == records = [now |-> 0, event |-> [state |-> "draft", version |-> 1], type |-> <<>>, reservation |-> <<>>,
                   checkout |-> <<>>, payment |-> <<>>, ticket |-> <<>>, request |-> <<>>, refund |-> <<>>]

Tick == now < Horizon /\ records' = [records EXCEPT !.now = @ + 1]

\* The release names the version that was read; the hash covers the version.
PublishRelease(expected) ==
  /\ event.version = expected /\ expected < MaxVersion
  /\ records' = [records EXCEPT !.event = [state |-> "published", version |-> expected + 1]]

Sum(f(_), S) == MapThenSumSet(f, S)

\* Types may still be defined after the event is published.
DefineTicketType(quantity, price) ==
  /\ Len(type) < MaxTypes
  /\ Sum(LAMBDA t : type[t].quantity, DOMAIN type) + quantity <= Capacity
  /\ records' = [records EXCEPT !.type = Append(@, [quantity |-> quantity, price |-> price])]

Live(r) == reservation[r].state = "reserved" /\ reservation[r].expires > now
Committed(t) == {r \in DOMAIN reservation : reservation[r].type = t /\ (reservation[r].state = "paid" \/ Live(r))}

ReserveTickets(t, quantity, expires) ==
  /\ Len(reservation) < MaxReservations
  /\ event.state = "published" /\ now < SalesEnd
  /\ expires > now /\ expires <= StartsAt
  /\ Sum(LAMBDA r : reservation[r].quantity, Committed(t)) + quantity <= type[t].quantity
  /\ records' = [records EXCEPT !.reservation =
       Append(@, [type |-> t, quantity |-> quantity, expires |-> expires, state |-> "reserved"])]

PriceOf(r) == type[reservation[r].type].price

CreateCheckout(r) ==
  /\ Live(r)
  /\ \A c \in DOMAIN checkout : checkout[c].reservation # r
  /\ records' = [records EXCEPT !.checkout =
       Append(@, [reservation |-> r, amount |-> PriceOf(r) * reservation[r].quantity, state |-> "pending"])]

Paying(c, receipt) ==
  [records EXCEPT !.payment = Append(@, [reservation |-> checkout[c].reservation, receipt |-> receipt, amount |-> checkout[c].amount]),
                  !.checkout[c].state = "paid",
                  !.reservation[checkout[c].reservation].state = "paid"]

Unrecorded(c, receipt) ==
  \A p \in DOMAIN payment : payment[p].reservation # checkout[c].reservation /\ payment[p].receipt # receipt

\* Mutant of RecordPayment: a receipt is taken whenever it comes.
RecordPaymentLate(c, receipt) ==
  /\ checkout[c].state = "pending" /\ reservation[checkout[c].reservation].state = "reserved"
  /\ Unrecorded(c, receipt) /\ records' = Paying(c, receipt)

\* A receipt that comes after the reservation lapsed is refused, and the money
\* the provider took is recorded nowhere.
RecordPayment(c, receipt) ==
  /\ checkout[c].state = "pending" /\ Live(checkout[c].reservation)
  /\ Unrecorded(c, receipt) /\ records' = Paying(c, receipt)

IssueTicket(p, ordinal) ==
  LET r == payment[p].reservation IN
  /\ reservation[r].state = "paid" /\ ordinal <= reservation[r].quantity
  /\ \A t \in DOMAIN ticket : ~(ticket[t].reservation = r /\ ticket[t].ordinal = ordinal)
  /\ records' = [records EXCEPT !.ticket =
       Append(@, [reservation |-> r, payment |-> p, ordinal |-> ordinal, state |-> "issued"])]

\* Any number of requests may wait for one ticket, for any amount.
RequestRefund(t, amount) ==
  /\ Len(request) < MaxRequests
  /\ ticket[t].state \in {"issued", "checked-in"}
  /\ records' = [records EXCEPT !.request = Append(@, [ticket |-> t, amount |-> amount, state |-> "pending"])]

Refunding(q, receipt) ==
  [records EXCEPT !.refund = Append(@, [ticket |-> request[q].ticket, receipt |-> receipt, amount |-> request[q].amount]),
                  !.ticket[request[q].ticket].state = "refunded",
                  !.request[q].state = "completed"]

Refundable(q, receipt) ==
  /\ request[q].state = "pending"
  /\ request[q].amount <= PriceOf(ticket[request[q].ticket].reservation)
  /\ \A f \in DOMAIN refund : refund[f].receipt # receipt

\* Mutant of RecordRefund: only the request is read, not its ticket.
RecordRefundOfRequest(q, receipt) == Refundable(q, receipt) /\ records' = Refunding(q, receipt)

RecordRefund(q, receipt) ==
  /\ Refundable(q, receipt) /\ ticket[request[q].ticket].state # "refunded"
  /\ records' = Refunding(q, receipt)

CheckIn(t) == ticket[t].state = "issued" /\ records' = [records EXCEPT !.ticket[t].state = "checked-in"]

Next ==
  \/ Tick
  \/ \E v \in 1 .. MaxVersion : PublishRelease(v)
  \/ \E q \in Quantity, p \in Price : DefineTicketType(q, p)
  \/ \E t \in DOMAIN type, q \in Quantity, e \in 1 .. Horizon : ReserveTickets(t, q, e)
  \/ \E r \in DOMAIN reservation : CreateCheckout(r)
  \/ \E c \in DOMAIN checkout, n \in Receipt : RecordPayment(c, n)
  \/ \E p \in DOMAIN payment, o \in 1 .. Capacity : IssueTicket(p, o)
  \/ \E t \in DOMAIN ticket : CheckIn(t) \/ \E a \in Amount : RequestRefund(t, a)
  \/ \E q \in DOMAIN request, n \in Receipt : RecordRefund(q, n)

Spec == Init /\ [][Next]_records

-----------------------------------------------------------------------------
TicketsOf(t) == {k \in DOMAIN ticket : reservation[ticket[k].reservation].type = t}
Refunds(k)   == {f \in DOMAIN refund : refund[f].ticket = k}

\* What is sold of a ticket type, in live reservations and in tickets out at
\* the doors, never exceeds its quantity, nor all types the event's capacity,
\* however reservations lapse and receipts come; and a ticket is given back at
\* most once, for no more than it cost, and is refunded exactly when a refund
\* receipt says so.
NothingSoldTwice ==
  /\ Sum(LAMBDA t : type[t].quantity, DOMAIN type) <= Capacity
  /\ \A t \in DOMAIN type :
       /\ Sum(LAMBDA r : reservation[r].quantity, Committed(t)) <= type[t].quantity
       /\ Cardinality(TicketsOf(t)) <= type[t].quantity
  /\ \A k \in DOMAIN ticket :
       /\ Cardinality(Refunds(k)) = IF ticket[k].state = "refunded" THEN 1 ELSE 0
       /\ Sum(LAMBDA f : refund[f].amount, Refunds(k)) <= PriceOf(ticket[k].reservation)
\* Why they do not.  A ticket is one of those its reservation paid for, and
\* there is one for each of them.
EventsInvariant ==
  /\ {"now", "event", "type", "reservation", "checkout", "payment", "ticket", "request", "refund"} \subseteq DOMAIN records
  /\ now \in Nat
  /\ type \in Seq([quantity : Quantity, price : Price])
  /\ reservation \in Seq([type : DOMAIN type, quantity : Quantity, expires : Nat, state : {"reserved", "paid"}])
  /\ checkout \in Seq([reservation : DOMAIN reservation, amount : Nat, state : {"pending", "paid"}])
  /\ payment \in Seq([reservation : DOMAIN reservation, receipt : Receipt, amount : Nat])
  /\ ticket \in Seq([reservation : DOMAIN reservation, payment : DOMAIN payment, ordinal : Nat, state : {"issued", "checked-in", "refunded"}])
  /\ request \in Seq([ticket : DOMAIN ticket, amount : Amount, state : {"pending", "completed"}])
  /\ refund \in Seq([ticket : DOMAIN ticket, receipt : Receipt, amount : Amount])
  /\ \A k \in DOMAIN ticket :
       /\ reservation[ticket[k].reservation].state = "paid"
       /\ ticket[k].ordinal \in 1 .. reservation[ticket[k].reservation].quantity
       /\ \A l \in DOMAIN ticket :
            ticket[k].reservation = ticket[l].reservation /\ ticket[k].ordinal = ticket[l].ordinal => k = l
  /\ NothingSoldTwice
=============================================================================
