-------------------------- MODULE Counting_proofs --------------------------
(***************************************************************************)
(* What a workspace keeps adds up, for any contributors, rates, years,     *)
(* plans, prices and amounts; and what there is once it gives out once,    *)
(* for any seats, windows, people, commands and quotas; however commands   *)
(* interleave.  Each part is proved by itself: one module is enabled, and  *)
(* its commands are the only steps.                                        *)
(*                                                                         *)
(* An engine's part is read as an invariant of its lists (BooksForm,       *)
(* EventsForm and so on), and each command is followed through the lists   *)
(* it writes.                                                              *)
(***************************************************************************)
EXTENDS Workspace, SumTheorems

-----------------------------------------------------------------------------
(* Sums over payments and over the lines of a journal.                     *)

PaidSum(pay, S) == MapThenSumSet(LAMBDA p : pay[p].amount, S)
PaidOn(pay, i)  == {p \in DOMAIN pay : pay[p].invoice = i}
Debits(S)       == MapThenSumSet(LAMBDA e : e.debit, S)
Credits(S)      == MapThenSumSet(LAMBDA e : e.credit, S)

LEMMA PaidSumIsSum ==
  ASSUME NEW pay, NEW S, NEW f, \A p \in S : f[p] = pay[p].amount
  PROVE  PaidSum(pay, S) = SumOver(f, S)
<1>. DEFINE Mine(g)  == [s \in SUBSET S |-> IF s = {} THEN 0 ELSE pay[Picked(s)].amount + g[s \ {Picked(s)}]]
            Yours(g) == [s \in SUBSET S |-> IF s = {} THEN 0 ELSE f[Picked(s)] + g[s \ {Picked(s)}]]
<1>1. \A s \in SUBSET S : s # {} => Picked(s) \in S
  BY DEF Picked
<1>2. \A g : Mine(g) = Yours(g)
  BY <1>1
<1>3. PaidSum(pay, S) = (CHOOSE g : g = Mine(g))[S]
  BY DEF PaidSum, MapThenSumSet, MapThenFoldSet, Picked
<1>4. SumOver(f, S) = (CHOOSE g : g = Yours(g))[S]
  BY DEF SumOver, MapThenSumSet, MapThenFoldSet, Picked
<1>. HIDE DEF Mine, Yours
<1>. QED BY <1>2, <1>3, <1>4

LEMMA DebitsIsSum ==
  ASSUME NEW S, NEW f, \A e \in S : f[e] = e.debit
  PROVE  Debits(S) = SumOver(f, S)
<1>. DEFINE Mine(g)  == [s \in SUBSET S |-> IF s = {} THEN 0 ELSE Picked(s).debit + g[s \ {Picked(s)}]]
            Yours(g) == [s \in SUBSET S |-> IF s = {} THEN 0 ELSE f[Picked(s)] + g[s \ {Picked(s)}]]
<1>1. \A s \in SUBSET S : s # {} => Picked(s) \in S
  BY DEF Picked
<1>2. \A g : Mine(g) = Yours(g)
  BY <1>1
<1>3. Debits(S) = (CHOOSE g : g = Mine(g))[S]
  BY DEF Debits, MapThenSumSet, MapThenFoldSet, Picked
<1>4. SumOver(f, S) = (CHOOSE g : g = Yours(g))[S]
  BY DEF SumOver, MapThenSumSet, MapThenFoldSet, Picked
<1>. HIDE DEF Mine, Yours
<1>. QED BY <1>2, <1>3, <1>4

LEMMA CreditsIsSum ==
  ASSUME NEW S, NEW f, \A e \in S : f[e] = e.credit
  PROVE  Credits(S) = SumOver(f, S)
<1>. DEFINE Mine(g)  == [s \in SUBSET S |-> IF s = {} THEN 0 ELSE Picked(s).credit + g[s \ {Picked(s)}]]
            Yours(g) == [s \in SUBSET S |-> IF s = {} THEN 0 ELSE f[Picked(s)] + g[s \ {Picked(s)}]]
<1>1. \A s \in SUBSET S : s # {} => Picked(s) \in S
  BY DEF Picked
<1>2. \A g : Mine(g) = Yours(g)
  BY <1>1
<1>3. Credits(S) = (CHOOSE g : g = Mine(g))[S]
  BY DEF Credits, MapThenSumSet, MapThenFoldSet, Picked
<1>4. SumOver(f, S) = (CHOOSE g : g = Yours(g))[S]
  BY DEF SumOver, MapThenSumSet, MapThenFoldSet, Picked
<1>. HIDE DEF Mine, Yours
<1>. QED BY <1>2, <1>3, <1>4

\* A sum is nothing exactly when each of its numbers is.
LEMMA SumZero ==
  ASSUME NEW S, IsFiniteSet(S), NEW f, \A x \in S : f[x] \in Nat
  PROVE  SumOver(f, S) = 0 <=> \A x \in S : f[x] = 0
<1>. DEFINE zero == [x \in S |-> 0]
<1>1. ASSUME NEW x \in S PROVE f[x] <= SumOver(f, S)
  <2>1. \A y \in S : f[y] \in Int
    OBVIOUS
  <2>2. SumOver(f, S) = f[x] + SumOver(f, S \ {x})
    BY <2>1, SumRemove
  <2>3. IsFiniteSet(S \ {x}) /\ \A y \in S \ {x} : f[y] \in Nat
    BY FS_Subset
  <2>4. SumOver(f, S \ {x}) \in Nat
    BY <2>3, SumNat
  <2>. QED BY <2>2, <2>4
<1>2. SumOver(f, S) \in Nat
  BY SumNat
<1>3. ASSUME \A x \in S : f[x] = 0 PROVE SumOver(f, S) = 0
  <2>. DEFINE Bad == {T \in SUBSET S : SumOver(f, T) # 0}
  <2>1. SUFFICES ASSUME Bad # {} PROVE FALSE
    OBVIOUS
  <2>2. PICK T \in Bad : \A y \in T : T \ {y} \notin Bad
    <3>1. Bad \in SUBSET SUBSET S
      OBVIOUS
    <3>. HIDE DEF Bad
    <3>. QED BY <2>1, <3>1, MinimalSet
  <2>3. PICK y \in T : TRUE
    BY SumEmpty
  <2>4. IsFiniteSet(T) /\ (\A x \in T : f[x] \in Int) /\ SumOver(f, T \ {y}) = 0 /\ f[y] = 0 /\ SumOver(f, T) # 0
    BY <1>3, <2>2, <2>3, FS_Subset
  <2>. HIDE DEF Bad
  <2>5. SumOver(f, T) = f[y] + SumOver(f, T \ {y})
    BY <2>4, SumRemove
  <2>. QED BY <2>4, <2>5
<1>. QED BY <1>1, <1>2, <1>3

\* A payment more is a payment more of its invoice.
LEMMA PaymentAdded ==
  ASSUME NEW T, \A x \in T : x.amount \in Nat, NEW pay \in Seq(T), NEW x, x.amount \in Nat
  PROVE  \A i : /\ PaidSum(pay, PaidOn(pay, i)) \in Nat
                /\ PaidSum(Append(pay, x), PaidOn(Append(pay, x), i))
                     = PaidSum(pay, PaidOn(pay, i)) + IF x.invoice = i THEN x.amount ELSE 0
                /\ PaidOn(Append(pay, x), i) = PaidOn(pay, i) \cup IF x.invoice = i THEN {Len(pay) + 1} ELSE {}
<1>. SUFFICES ASSUME NEW i
              PROVE  /\ PaidSum(pay, PaidOn(pay, i)) \in Nat
                     /\ PaidSum(Append(pay, x), PaidOn(Append(pay, x), i))
                          = PaidSum(pay, PaidOn(pay, i)) + IF x.invoice = i THEN x.amount ELSE 0
                     /\ PaidOn(Append(pay, x), i) = PaidOn(pay, i) \cup IF x.invoice = i THEN {Len(pay) + 1} ELSE {}
  OBVIOUS
<1>. DEFINE new == Append(pay, x)
            n   == Len(pay) + 1
            f   == [p \in DOMAIN new |-> new[p].amount]
            P   == PaidOn(pay, i)
            Q   == PaidOn(new, i)
<1>1. /\ DOMAIN new = DOMAIN pay \cup {n} /\ (\A p \in DOMAIN pay : new[p] = pay[p]) /\ new[n] = x
  BY ListAppend
<1>2. IsFiniteSet(DOMAIN pay) /\ n \notin DOMAIN pay /\ \A p \in DOMAIN pay : pay[p] \in T
  BY ListType
<1>. HIDE DEF new, n
<1>3. P \in SUBSET DOMAIN pay /\ IsFiniteSet(P) /\ Q = P \cup IF x.invoice = i THEN {n} ELSE {}
  BY <1>1, <1>2, FS_Subset DEF PaidOn
<1>. HIDE DEF P, Q
<1>4. (\A p \in P : f[p] = pay[p].amount /\ f[p] \in Nat /\ f[p] \in Int) /\ f[n] = x.amount
  BY <1>1, <1>2, <1>3
<1>5. \A p \in Q : f[p] = new[p].amount
  BY <1>1, <1>3
<1>. HIDE DEF f
<1>6. PaidSum(pay, P) = SumOver(f, P) /\ PaidSum(new, Q) = SumOver(f, Q) /\ SumOver(f, P) \in Nat
  BY <1>3, <1>4, <1>5, PaidSumIsSum, SumNat
<1>7. CASE x.invoice = i
  <2>1. Q = P \cup {n} /\ n \notin P /\ IsFiniteSet(Q) /\ n \in Q /\ Q \ {n} = P
    BY <1>2, <1>3, <1>7, FS_AddElement
  <2>2. \A p \in Q : f[p] \in Int
    BY <1>4, <2>1
  <2>3. SumOver(f, Q) = f[n] + SumOver(f, Q \ {n})
    BY <2>1, <2>2, SumRemove
  <2>4. SumOver(f, Q) = SumOver(f, P) + x.amount
    <3>1. SumOver(f, Q) = x.amount + SumOver(f, P)
      BY <1>4, <2>1, <2>3
    <3>2. \A a, b \in Nat : a + b = b + a
      OBVIOUS
    <3>. QED BY <1>6, <3>1, <3>2
  <2>5. PaidSum(new, Q) = PaidSum(pay, P) + IF x.invoice = i THEN x.amount ELSE 0
    BY <1>6, <1>7, <2>4
  <2>6. PaidSum(pay, P) \in Nat
    BY <1>6
  <2>. QED BY <1>3, <2>5, <2>6 DEF new, n, P, Q
<1>8. CASE x.invoice # i
  BY <1>3, <1>6, <1>8 DEF new, n, P, Q
<1>. QED BY <1>7, <1>8

-----------------------------------------------------------------------------
(* The ledger of the premium engine.                                       *)

Draw(order)        == [order : DOMAIN order, total : Nat, balance : Nat, state : {"draft", "open", "paid"}]
PaymentOf(invoice) == [invoice : DOMAIN invoice, amount : Amount]
Journal            == [period : LedgerPeriod, entries : SUBSET Premium!Lines]

Settled(order, invoice, payment, i) ==
  /\ invoice[i].total = order[invoice[i].order].total
  /\ invoice[i].balance + PaidSum(payment, PaidOn(payment, i)) = invoice[i].total
  /\ invoice[i].state = "draft" => PaidOn(payment, i) = {}
  /\ invoice[i].state = "paid" <=> invoice[i].balance = 0 /\ PaidOn(payment, i) # {}

\* LedgerInvariant, of the lists it is about.
Ledger(item, order, invoice, payment, journal) ==
  /\ item \in SUBSET [sku : Sku, price : Price] /\ order \in Seq([total : Nat])
  /\ invoice \in Seq(Draw(order)) /\ payment \in Seq(PaymentOf(invoice)) /\ journal \in Seq(Journal)
  /\ \A i \in DOMAIN invoice : Settled(order, invoice, payment, i)
  /\ \A n \in DOMAIN journal : Debits(journal[n].entries) > 0

HasLedger(r) == {"item", "order", "invoice", "payment", "journal"} \subseteq DOMAIN r

LEMMA LedgerForm ==
  Premium!LedgerInvariant
    <=> HasLedger(records) /\ Ledger(records.item, records.order, records.invoice, records.payment, records.journal)
  BY DEF Premium!LedgerInvariant, Premium!LedgerAddsUp, Ledger, HasLedger, Settled, Draw, PaymentOf, Journal,
         Premium!Draws, Premium!Payments, Premium!Journals, Premium!item, Premium!order, Premium!invoice,
         Premium!payment, Premium!journal, Premium!Total, PaidSum, PaidOn, Debits,
         Premium!MapThenSumSet, MapThenSumSet, Premium!MapThenFoldSet, MapThenFoldSet

LEMMA LedgerFormNext ==
  Premium!LedgerInvariant'
    <=> HasLedger(records') /\ Ledger(records'.item, records'.order, records'.invoice, records'.payment, records'.journal)
  BY DEF Premium!LedgerInvariant, Premium!LedgerAddsUp, Ledger, HasLedger, Settled, Draw, PaymentOf, Journal,
         Premium!Draws, Premium!Payments, Premium!Journals, Premium!item, Premium!order, Premium!invoice,
         Premium!payment, Premium!journal, Premium!Total, PaidSum, PaidOn, Debits,
         Premium!MapThenSumSet, MapThenSumSet, Premium!MapThenFoldSet, MapThenFoldSet

\* A payment of what an open invoice still asks for, or of less.
LEMMA LedgerPaid ==
  ASSUME NEW item, NEW order, NEW invoice, NEW payment, NEW journal, Ledger(item, order, invoice, payment, journal),
         NEW i \in DOMAIN invoice, invoice[i].state = "open", NEW a \in Amount, a <= invoice[i].balance,
         NEW new, new = [invoice EXCEPT ![i] = [@ EXCEPT !.balance = invoice[i].balance - a,
                           !.state = IF invoice[i].balance - a = 0 THEN "paid" ELSE "open"]]
  PROVE  Ledger(item, order, new, Append(payment, [invoice |-> i, amount |-> a]), journal)
<1>. DEFINE x == [invoice |-> i, amount |-> a]
            more == Append(payment, x)
            T == PaymentOf(invoice)
<1>1. invoice \in Seq(Draw(order)) /\ payment \in Seq(T) /\ a \in Nat /\ Amount \subseteq Nat
  BY MoneyAssumption DEF Ledger
<1>2. invoice \in [DOMAIN invoice -> Draw(order)] /\ payment \in [DOMAIN payment -> T]
  BY <1>1, ListType
<1>3. invoice[i] \in Draw(order) /\ invoice[i].balance \in Nat
  BY <1>2 DEF Draw
<1>4. /\ new \in [DOMAIN invoice -> Draw(order)] /\ DOMAIN new = DOMAIN invoice
      /\ \A j \in DOMAIN invoice : j # i => new[j] = invoice[j]
      /\ new[i].balance = invoice[i].balance - a /\ new[i].total = invoice[i].total /\ new[i].order = invoice[i].order
      /\ new[i].state = IF invoice[i].balance - a = 0 THEN "paid" ELSE "open"
  <2>. DEFINE rest == invoice[i].balance - a
              st   == IF rest = 0 THEN "paid" ELSE "open"
              v    == [invoice[i] EXCEPT !.balance = rest, !.state = st]
  <2>1. rest \in Nat /\ st \in {"draft", "open", "paid"}
    BY <1>1, <1>3
  <2>2. new = [invoice EXCEPT ![i] = v]
    OBVIOUS
  <2>. HIDE DEF rest, st
  <2>3. v \in Draw(order) /\ v.balance = rest /\ v.state = st /\ v.total = invoice[i].total /\ v.order = invoice[i].order
    BY <1>3, <2>1 DEF Draw
  <2>. HIDE DEF v
  <2>4. /\ new \in [DOMAIN invoice -> Draw(order)] /\ DOMAIN new = DOMAIN invoice
        /\ \A j \in DOMAIN invoice : j # i => new[j] = invoice[j]
        /\ new[i] = v
    BY <1>2, <2>2, <2>3
  <2>. QED BY <2>3, <2>4 DEF rest, st
<1>5. new \in Seq(Draw(order))
  BY <1>1, <1>4, ListRetype
<1>6. x \in T /\ x.amount = a /\ x.invoice = i /\ more \in Seq(T)
  BY <1>1, AppendProperties DEF PaymentOf
<1>7. more \in Seq(PaymentOf(new))
  BY <1>4, <1>6 DEF PaymentOf
<1>8. \A j : /\ PaidSum(payment, PaidOn(payment, j)) \in Nat
             /\ PaidSum(more, PaidOn(more, j)) = PaidSum(payment, PaidOn(payment, j)) + IF x.invoice = j THEN x.amount ELSE 0
             /\ PaidOn(more, j) = PaidOn(payment, j) \cup IF x.invoice = j THEN {Len(payment) + 1} ELSE {}
  <2>1. \A y \in T : y.amount \in Nat
    BY <1>1 DEF PaymentOf
  <2>2. x.amount \in Nat
    BY <1>1, <1>6
  <2>. HIDE DEF x, T
  <2>. QED BY <1>1, <2>1, <2>2, PaymentAdded
<1>. HIDE DEF x, more, T
<1>9. ASSUME NEW j \in DOMAIN new PROVE Settled(order, new, more, j)
  <2>1. Settled(order, invoice, payment, j) /\ j \in DOMAIN invoice
    BY <1>4, <1>9 DEF Ledger
  <2>2. CASE j = i
    <3>1. /\ PaidOn(more, i) # {}
          /\ PaidSum(more, PaidOn(more, i)) = PaidSum(payment, PaidOn(payment, i)) + a
      BY <1>6, <1>8
    <3>2. invoice[i].balance + PaidSum(payment, PaidOn(payment, i)) = invoice[i].total
      BY <2>1, <2>2 DEF Settled
    <3>3. new[i].balance + PaidSum(more, PaidOn(more, i)) = invoice[i].total
      BY <1>1, <1>3, <1>4, <1>8, <3>1, <3>2
    <3>. QED BY <1>4, <2>1, <2>2, <3>1, <3>3 DEF Settled
  <2>3. CASE j # i
    <3>1. x.invoice # j
      BY <1>6, <2>3
    <3>2. PaidOn(more, j) = PaidOn(payment, j) \cup {}
      BY <1>8, <3>1
    <3>3. PaidSum(more, PaidOn(more, j)) = PaidSum(payment, PaidOn(payment, j)) + 0
      BY <1>8, <3>1
    <3>4. PaidOn(more, j) = PaidOn(payment, j) /\ PaidSum(more, PaidOn(more, j)) = PaidSum(payment, PaidOn(payment, j))
      BY <1>8, <3>2, <3>3
    <3>. QED BY <1>4, <2>1, <2>3, <3>4 DEF Settled
  <2>. QED BY <2>2, <2>3
<1>10. Ledger(item, order, new, more, journal)
  BY <1>5, <1>7, <1>9 DEF Ledger
<1>. QED BY <1>10 DEF more, x

\* An invoice that is issued.
LEMMA LedgerIssued ==
  ASSUME NEW item, NEW order, NEW invoice, NEW payment, NEW journal, Ledger(item, order, invoice, payment, journal),
         NEW i \in DOMAIN invoice, invoice[i].state = "draft",
         NEW new, new = [invoice EXCEPT ![i].state = "open"]
  PROVE  Ledger(item, order, new, payment, journal)
<1>1. invoice \in Seq(Draw(order)) /\ invoice \in [DOMAIN invoice -> Draw(order)]
  BY ListType DEF Ledger
<1>2. /\ new \in [DOMAIN invoice -> Draw(order)] /\ DOMAIN new = DOMAIN invoice
      /\ \A j \in DOMAIN invoice : j # i => new[j] = invoice[j]
      /\ new[i].balance = invoice[i].balance /\ new[i].total = invoice[i].total /\ new[i].order = invoice[i].order
      /\ new[i].state = "open"
  BY <1>1 DEF Draw
<1>3. new \in Seq(Draw(order)) /\ PaymentOf(new) = PaymentOf(invoice)
  BY <1>1, <1>2, ListRetype DEF PaymentOf
<1>4. ASSUME NEW j \in DOMAIN new PROVE Settled(order, new, payment, j)
  <2>1. Settled(order, invoice, payment, j)
    BY <1>2, <1>4 DEF Ledger
  <2>. QED BY <1>2, <1>4, <2>1 DEF Settled
<1>. QED BY <1>3, <1>4 DEF Ledger

\* An invoice drawn from an order.
LEMMA LedgerDrafted ==
  ASSUME NEW item, NEW order, NEW invoice, NEW payment, NEW journal, Ledger(item, order, invoice, payment, journal),
         NEW o \in DOMAIN order,
         NEW x, x = [order |-> o, total |-> order[o].total, balance |-> order[o].total, state |-> "draft"]
  PROVE  Ledger(item, order, Append(invoice, x), payment, journal)
<1>. DEFINE new == Append(invoice, x)
            n   == Len(invoice) + 1
<1>1. /\ order \in [DOMAIN order -> [total : Nat]] /\ invoice \in Seq(Draw(order))
      /\ payment \in Seq(PaymentOf(invoice))
  BY ListType DEF Ledger
<1>2. x \in Draw(order) /\ x.order = o /\ x.total = order[o].total /\ x.balance = x.total /\ x.balance \in Nat /\ x.state = "draft"
  BY <1>1 DEF Draw
<1>3. /\ DOMAIN new = DOMAIN invoice \cup {n} /\ (\A i \in DOMAIN invoice : new[i] = invoice[i]) /\ new[n] = x
      /\ new \in Seq(Draw(order)) /\ n \notin DOMAIN invoice
  BY <1>1, <1>2, ListAppend, ListType, AppendProperties
<1>. HIDE DEF new, n
<1>4. payment \in Seq(PaymentOf(new)) /\ payment \in [DOMAIN payment -> PaymentOf(invoice)]
  <2>1. PaymentOf(invoice) \subseteq PaymentOf(new)
    BY <1>3 DEF PaymentOf
  <2>. QED BY <1>1, <2>1, SeqMonotonic, ListType
<1>5. PaidOn(payment, n) = {} /\ PaidSum(payment, PaidOn(payment, n)) = 0
  <2>1. \A p \in DOMAIN payment : payment[p].invoice \in DOMAIN invoice
    BY <1>4 DEF PaymentOf
  <2>2. PaidOn(payment, n) = {}
    BY <1>3, <2>1 DEF PaidOn
  <2>3. PaidSum(payment, {}) = SumOver(<<>>, {})
    BY PaidSumIsSum
  <2>. QED BY <2>2, <2>3, SumEmpty
<1>6. ASSUME NEW j \in DOMAIN new PROVE Settled(order, new, payment, j)
  <2>1. CASE j = n
    <3>1. new[j] = x /\ PaidOn(payment, j) = {} /\ PaidSum(payment, PaidOn(payment, j)) = 0
      BY <1>3, <1>5, <2>1
    <3>2. x.balance + 0 = x.total
      BY <1>2
    <3>. QED BY <1>2, <3>1, <3>2 DEF Settled
  <2>2. CASE j # n
    BY <1>3, <1>6, <2>2 DEF Settled, Ledger
  <2>. QED BY <2>1, <2>2
<1>7. Ledger(item, order, new, payment, journal)
  BY <1>3, <1>4, <1>6 DEF Ledger
<1>. QED BY <1>7 DEF new

\* Lines with one side each, whose sides agree, are not all nothing.
LEMMA JournalBalances ==
  ASSUME NEW E \in SUBSET Premium!Lines, IsFiniteSet(E), E # {},
         \A e \in E : (e.debit = 0) # (e.credit = 0), Debits(E) = Credits(E)
  PROVE  Debits(E) > 0
<1>. DEFINE f == [e \in E |-> e.debit]
            g == [e \in E |-> e.credit]
<1>1. \A e \in E : e.debit \in Nat /\ e.credit \in Nat
  <2>1. Amount \cup {0} \subseteq Nat
    BY MoneyAssumption
  <2>2. \A e \in Premium!Lines : e.debit \in Amount \cup {0} /\ e.credit \in Amount \cup {0}
    BY DEF Premium!Lines
  <2>. QED BY <2>1, <2>2
<1>2. (\A e \in E : f[e] = e.debit /\ f[e] \in Nat) /\ (\A e \in E : g[e] = e.credit /\ g[e] \in Nat)
  BY <1>1
<1>. HIDE DEF f, g
<1>3. /\ Debits(E) = SumOver(f, E) /\ SumOver(f, E) \in Nat /\ (SumOver(f, E) = 0 <=> \A e \in E : f[e] = 0)
      /\ Credits(E) = SumOver(g, E) /\ (SumOver(g, E) = 0 <=> \A e \in E : g[e] = 0)
  BY <1>2, DebitsIsSum, CreditsIsSum, SumNat, SumZero
<1>4. ASSUME Debits(E) = 0 PROVE FALSE
  <2>1. PICK e \in E : TRUE
    OBVIOUS
  <2>2. f[e] = 0 /\ g[e] = 0
    BY <1>3, <1>4, <2>1
  <2>. QED BY <1>2, <2>1, <2>2
<1>. QED BY <1>3, <1>4

\* A journal, an item or an order more.
LEMMA LedgerPosted ==
  ASSUME NEW item, NEW order, NEW invoice, NEW payment, NEW journal, Ledger(item, order, invoice, payment, journal),
         NEW p \in LedgerPeriod, NEW E \in SUBSET Premium!Lines, Debits(E) > 0
  PROVE  Ledger(item, order, invoice, payment, Append(journal, [period |-> p, entries |-> E]))
<1>. DEFINE x   == [period |-> p, entries |-> E]
            new == Append(journal, x)
<1>1. x \in Journal /\ x.entries = E /\ journal \in Seq(Journal)
  BY DEF Journal, Ledger
<1>2. /\ new \in Seq(Journal) /\ DOMAIN new = DOMAIN journal \cup {Len(journal) + 1}
      /\ (\A n \in DOMAIN journal : new[n] = journal[n]) /\ new[Len(journal) + 1] = x
  BY <1>1, ListAppend, AppendProperties
<1>. HIDE DEF x, new
<1>3. \A n \in DOMAIN new : Debits(new[n].entries) > 0
  BY <1>1, <1>2 DEF Ledger
<1>4. Ledger(item, order, invoice, payment, new)
  BY <1>2, <1>3 DEF Ledger
<1>. QED BY <1>4 DEF new, x

LEMMA LedgerOffered ==
  ASSUME NEW item, NEW order, NEW invoice, NEW payment, NEW journal, Ledger(item, order, invoice, payment, journal)
  PROVE  /\ \A s \in Sku, p \in Price : Ledger(item \cup {[sku |-> s, price |-> p]}, order, invoice, payment, journal)
         /\ \A i \in item, q \in Quantity : Ledger(item, Append(order, [total |-> q * i.price]), invoice, payment, journal)
<1>1. ASSUME NEW s \in Sku, NEW p \in Price
      PROVE  Ledger(item \cup {[sku |-> s, price |-> p]}, order, invoice, payment, journal)
  <2>1. item \cup {[sku |-> s, price |-> p]} \in SUBSET [sku : Sku, price : Price]
    BY DEF Ledger
  <2>. QED BY <2>1 DEF Ledger
<1>2. ASSUME NEW i \in item, NEW q \in Quantity
      PROVE  Ledger(item, Append(order, [total |-> q * i.price]), invoice, payment, journal)
  <2>. DEFINE x   == [total |-> q * i.price]
              new == Append(order, x)
  <2>1. i \in [sku : Sku, price : Price] /\ order \in Seq([total : Nat])
    BY DEF Ledger
  <2>2. i.price \in Nat /\ q \in Nat
    BY <2>1, MoneyAssumption
  <2>3. \A a, b \in Nat : a * b \in Nat
    OBVIOUS
  <2>4. x \in [total : Nat]
    BY <2>2, <2>3
  <2>. HIDE DEF x
  <2>5. new \in Seq([total : Nat]) /\ DOMAIN order \subseteq DOMAIN new /\ \A o \in DOMAIN order : new[o] = order[o]
    BY <2>1, <2>4, ListAppend, AppendProperties
  <2>. HIDE DEF new
  <2>6. invoice \in Seq(Draw(new)) /\ invoice \in [DOMAIN invoice -> Draw(order)]
    <3>1. Draw(order) \subseteq Draw(new)
      BY <2>5 DEF Draw
    <3>2. invoice \in Seq(Draw(order))
      BY DEF Ledger
    <3>. QED BY <3>1, <3>2, SeqMonotonic, ListType
  <2>7. ASSUME NEW j \in DOMAIN invoice PROVE Settled(new, invoice, payment, j)
    <3>1. invoice[j].order \in DOMAIN order
      BY <2>6 DEF Draw
    <3>. QED BY <2>5, <3>1 DEF Ledger, Settled
  <2>8. Ledger(item, new, invoice, payment, journal)
    BY <2>5, <2>6, <2>7 DEF Ledger
  <2>. QED BY <2>8 DEF new, x
<1>. QED BY <1>1, <1>2

LEMMA LedgerInit == Premium!Init => Premium!LedgerInvariant
<1>. SUFFICES ASSUME Premium!Init PROVE Premium!LedgerInvariant
  OBVIOUS
<1>1. /\ HasLedger(records) /\ records.item = {} /\ records.order = <<>> /\ records.invoice = <<>>
      /\ records.payment = <<>> /\ records.journal = <<>>
  BY DEF Premium!Init, HasLedger
<1>2. Ledger({}, <<>>, <<>>, <<>>, <<>>)
  BY DEF Ledger
<1>. QED BY <1>1, <1>2, LedgerForm

LEMMA LedgerStep ==
  ASSUME Premium!LedgerInvariant, Premium!OperationsNext
  PROVE  Premium!LedgerInvariant'
<1>. DEFINE L(r) == HasLedger(r) /\ Ledger(r.item, r.order, r.invoice, r.payment, r.journal)
<1>1. L(records)
  BY LedgerForm
<1>. SUFFICES L(records')
  BY LedgerFormNext
<1>2. ASSUME NEW s \in Sku, NEW p \in Price, Premium!ItemCreate(s, p) PROVE L(records')
  <2>1. /\ HasLedger(records') /\ records'.item = records.item \cup {[sku |-> s, price |-> p]} /\ records'.order = records.order
        /\ records'.invoice = records.invoice /\ records'.payment = records.payment /\ records'.journal = records.journal
    BY <1>1, <1>2 DEF Premium!ItemCreate, HasLedger
  <2>. QED BY <1>1, <2>1, LedgerOffered
<1>3. ASSUME NEW i \in Premium!item, NEW q \in Quantity, Premium!OrderCreate(i, q) PROVE L(records')
  <2>1. /\ HasLedger(records') /\ records'.order = Append(records.order, [total |-> q * i.price]) /\ records'.item = records.item
        /\ records'.invoice = records.invoice /\ records'.payment = records.payment /\ records'.journal = records.journal
    BY <1>1, <1>3 DEF Premium!OrderCreate, HasLedger
  <2>. QED BY <1>1, <2>1, LedgerOffered DEF Premium!item
<1>4. ASSUME NEW o \in DOMAIN Premium!order, Premium!InvoiceDraft(o) PROVE L(records')
  <2>. DEFINE x == [order |-> o, total |-> records.order[o].total, balance |-> records.order[o].total, state |-> "draft"]
  <2>1. /\ HasLedger(records') /\ records'.invoice = Append(records.invoice, x) /\ records'.item = records.item
        /\ records'.order = records.order /\ records'.payment = records.payment /\ records'.journal = records.journal
    BY <1>1, <1>4 DEF Premium!InvoiceDraft, Premium!order, HasLedger
  <2>. QED BY <1>1, <2>1, LedgerDrafted DEF Premium!order
<1>5. ASSUME NEW i \in DOMAIN Premium!invoice, Premium!InvoiceIssue(i) PROVE L(records')
  <2>1. /\ HasLedger(records') /\ records'.invoice = [records.invoice EXCEPT ![i].state = "open"] /\ records'.item = records.item
        /\ records'.order = records.order /\ records'.payment = records.payment /\ records'.journal = records.journal
    BY <1>1, <1>5 DEF Premium!InvoiceIssue, HasLedger
  <2>2. records.invoice[i].state = "draft"
    BY <1>5 DEF Premium!InvoiceIssue, Premium!invoice
  <2>. QED BY <1>1, <2>1, <2>2, LedgerIssued DEF Premium!invoice
<1>6. ASSUME NEW i \in DOMAIN Premium!invoice, NEW a \in Amount, Premium!PaymentRecord(i, a) PROVE L(records')
  <2>. DEFINE new == [records.invoice EXCEPT ![i] = [@ EXCEPT !.balance = records.invoice[i].balance - a,
                        !.state = IF records.invoice[i].balance - a = 0 THEN "paid" ELSE "open"]]
  <2>1. /\ HasLedger(records') /\ records'.invoice = new /\ records'.payment = Append(records.payment, [invoice |-> i, amount |-> a])
        /\ records'.item = records.item /\ records'.order = records.order /\ records'.journal = records.journal
    BY <1>1, <1>6 DEF Premium!PaymentRecord, Premium!Paying, Premium!invoice, HasLedger
  <2>2. records.invoice[i].state = "open" /\ a <= records.invoice[i].balance
    BY <1>6 DEF Premium!PaymentRecord, Premium!invoice
  <2>3. i \in DOMAIN records.invoice /\ Ledger(records.item, records.order, records.invoice, records.payment, records.journal)
    BY <1>1 DEF Premium!invoice
  <2>4. Ledger(records.item, records.order, new, Append(records.payment, [invoice |-> i, amount |-> a]), records.journal)
    BY <2>2, <2>3, LedgerPaid
  <2>. HIDE DEF new
  <2>. QED BY <2>1, <2>4
<1>7. ASSUME NEW p \in LedgerPeriod, NEW a \in Premium!Lines, NEW b \in Premium!Lines, NEW c \in Premium!Lines,
             Premium!JournalPost(p, {a, b, c})
      PROVE  L(records')
  <2>. DEFINE E == {a, b, c}
  <2>1. /\ HasLedger(records') /\ records'.journal = Append(records.journal, [period |-> p, entries |-> E])
        /\ records'.item = records.item /\ records'.order = records.order /\ records'.invoice = records.invoice
        /\ records'.payment = records.payment
    BY <1>1, <1>7 DEF Premium!JournalPost, HasLedger
  <2>2. E \in SUBSET Premium!Lines /\ E # {} /\ IsFiniteSet(E)
    <3>1. IsFiniteSet({a}) /\ IsFiniteSet({b}) /\ IsFiniteSet({c})
      BY FS_Singleton
    <3>2. IsFiniteSet({a} \cup {b} \cup {c})
      BY <3>1, FS_Union
    <3>3. {a} \cup {b} \cup {c} = {a, b, c}
      OBVIOUS
    <3>. QED BY <3>2, <3>3
  <2>3. \A e \in E : (e.debit = 0) # (e.credit = 0)
    BY <1>7 DEF Premium!JournalPost
  <2>4. Debits(E) = Credits(E)
    BY <1>7 DEF Premium!JournalPost, Premium!Total, Debits, Credits, Premium!MapThenSumSet, MapThenSumSet,
                Premium!MapThenFoldSet, MapThenFoldSet
  <2>. HIDE DEF E
  <2>5. Debits(E) > 0
    BY <2>2, <2>3, <2>4, JournalBalances
  <2>. QED BY <1>1, <2>1, <2>2, <2>5, LedgerPosted
<1>. HIDE DEF L
<1>. QED BY <1>2, <1>3, <1>4, <1>5, <1>6, <1>7 DEF Premium!OperationsNext

-----------------------------------------------------------------------------
(* The books of the finance module.                                        *)

LineOf(v) == ((v.to - v.from) * SlotMinutes * v.rate + 30) \div 60
TotalOf(entry, S) == MapThenSumSet(LAMBDA e : LineOf(entry[e]), S)

TimeEntry == [by : Contributor, from : 0 .. Horizon, to : 0 .. Horizon, project : Project, rate : Rate,
              state : {"draft", "submitted", "approved", "invoiced"}, invoice : Nat]
Bill(entry) == [state : {"draft", "issued", "partially_paid", "paid"}, sources : SUBSET DOMAIN entry,
                total : Nat, balance : Nat, paid : Nat, year : Year, sequence : Nat, key : Key \cup {0}]
IssuedOf(invoice) == {i \in DOMAIN invoice : invoice[i].state # "draft"}
PaidFor(invoice)  == [invoice : IssuedOf(invoice), amount : Amount, key : Key]

Totalled(entry, invoice, i) ==
  /\ invoice[i].total = TotalOf(entry, invoice[i].sources)
  /\ i \notin IssuedOf(invoice) => invoice[i].balance = invoice[i].total /\ invoice[i].paid = 0 /\ invoice[i].sequence = 0
BilledOnce(entry, invoice, e, i) ==
  (i \in IssuedOf(invoice) /\ e \in invoice[i].sources) <=> (entry[e].state = "invoiced" /\ entry[e].invoice = i)
Owed(entry, invoice, payment, i) ==
  /\ invoice[i].paid = PaidSum(payment, PaidOn(payment, i))
  /\ invoice[i].paid + invoice[i].balance = TotalOf(entry, invoice[i].sources)
  /\ invoice[i].state = "paid" => invoice[i].balance = 0
InYear(invoice, y)   == {i \in IssuedOf(invoice) : invoice[i].year = y}
Numbered(invoice, y) == {invoice[i].sequence : i \in InYear(invoice, y)} = 1 .. Cardinality(InYear(invoice, y))

\* BooksInvariant, of the lists it is about.
BookTypes(entry, invoice, payment) ==
  /\ entry \in Seq(TimeEntry) /\ invoice \in Seq(Bill(entry)) /\ payment \in Seq(PaidFor(invoice))
  /\ \A e \in DOMAIN entry : entry[e].from < entry[e].to
  /\ \A e \in DOMAIN entry : entry[e].state = "invoiced" => entry[e].invoice \in DOMAIN invoice
Books(entry, invoice, payment) ==
  /\ BookTypes(entry, invoice, payment)
  /\ \A i \in DOMAIN invoice : Totalled(entry, invoice, i)
  /\ \A e \in DOMAIN entry : \A i \in DOMAIN invoice : BilledOnce(entry, invoice, e, i)
  /\ \A i \in IssuedOf(invoice) : Owed(entry, invoice, payment, i)
  /\ \A y \in Year : Numbered(invoice, y)

HasBooks(r) == {"entry", "invoice", "payment"} \subseteq DOMAIN r

LEMMA BooksForm ==
  Finance!BooksInvariant <=> HasBooks(records) /\ Books(records.entry, records.invoice, records.payment)
  BY DEF Finance!BooksInvariant, Finance!BooksBalance, Books, BookTypes, HasBooks, Totalled, BilledOnce, Owed, InYear, Numbered,
         TimeEntry, Bill, IssuedOf, PaidFor, PaidSum, PaidOn, TotalOf, LineOf,
         Finance!Entry, Finance!Invoice, Finance!Payment, Finance!Issued, Finance!NoKey, Finance!PaidTowards,
         Finance!InvoiceTotal, Finance!LineTotal, Finance!entry, Finance!invoice, Finance!payment,
         Finance!MapThenSumSet, MapThenSumSet, Finance!MapThenFoldSet, MapThenFoldSet,
         Finance!Cardinality, Cardinality

LEMMA BooksFormNext ==
  Finance!BooksInvariant' <=> HasBooks(records') /\ Books(records'.entry, records'.invoice, records'.payment)
  BY DEF Finance!BooksInvariant, Finance!BooksBalance, Books, BookTypes, HasBooks, Totalled, BilledOnce, Owed, InYear, Numbered,
         TimeEntry, Bill, IssuedOf, PaidFor, PaidSum, PaidOn, TotalOf, LineOf,
         Finance!Entry, Finance!Invoice, Finance!Payment, Finance!Issued, Finance!NoKey, Finance!PaidTowards,
         Finance!InvoiceTotal, Finance!LineTotal, Finance!entry, Finance!invoice, Finance!payment,
         Finance!MapThenSumSet, MapThenSumSet, Finance!MapThenFoldSet, MapThenFoldSet,
         Finance!Cardinality, Cardinality

\* A total is of the hours and rates of its entries and of nothing else.
LEMMA TotalStays ==
  ASSUME NEW entry, NEW new, NEW S,
         \A e \in S : new[e].from = entry[e].from /\ new[e].to = entry[e].to /\ new[e].rate = entry[e].rate
  PROVE  TotalOf(new, S) = TotalOf(entry, S)
<1>. DEFINE Mine(g)  == [s \in SUBSET S |-> IF s = {} THEN 0 ELSE LineOf(entry[Picked(s)]) + g[s \ {Picked(s)}]]
            Yours(g) == [s \in SUBSET S |-> IF s = {} THEN 0 ELSE LineOf(new[Picked(s)]) + g[s \ {Picked(s)}]]
<1>1. \A s \in SUBSET S : s # {} => Picked(s) \in S
  BY DEF Picked
<1>2. \A e \in S : LineOf(new[e]) = LineOf(entry[e])
  BY DEF LineOf
<1>3. \A g : Mine(g) = Yours(g)
  BY <1>1, <1>2
<1>4. TotalOf(entry, S) = (CHOOSE g : g = Mine(g))[S]
  BY DEF TotalOf, MapThenSumSet, MapThenFoldSet, Picked
<1>5. TotalOf(new, S) = (CHOOSE g : g = Yours(g))[S]
  BY DEF TotalOf, MapThenSumSet, MapThenFoldSet, Picked
<1>. HIDE DEF Mine, Yours
<1>. QED BY <1>3, <1>4, <1>5

\* It is a number.
LEMMA LineNat == ASSUME NEW v \in TimeEntry, v.from < v.to PROVE LineOf(v) \in Nat
<1>. DEFINE u == v.to - v.from
            w == u * SlotMinutes
            t == w * v.rate
<1>1. v.from \in 0 .. Horizon /\ v.to \in 0 .. Horizon /\ v.rate \in Rate
  BY DEF TimeEntry
<1>2. Horizon \in Nat /\ SlotMinutes \in Nat /\ Rate \subseteq Nat
  BY MoneyAssumption
<1>3. u \in Nat /\ v.rate \in Nat
  <2>1. \A a, b, h \in Nat : a \in 0 .. h /\ b \in 0 .. h /\ a < b => b - a \in Nat
    OBVIOUS
  <2>2. 0 .. Horizon \subseteq Nat
    BY <1>2
  <2>. QED BY <1>1, <1>2, <2>1, <2>2
<1>4. \A a, b \in Nat : a * b \in Nat
  OBVIOUS
<1>. HIDE DEF u
<1>5. w \in Nat
  BY <1>2, <1>3, <1>4
<1>. HIDE DEF w
<1>6. t \in Nat
  BY <1>3, <1>4, <1>5
<1>. HIDE DEF t
<1>7. (t + 30) \div 60 \in Nat
  BY <1>6
<1>8. LineOf(v) = (t + 30) \div 60
  BY DEF LineOf, t, w, u
<1>. QED BY <1>7, <1>8

LEMMA TotalNat ==
  ASSUME NEW entry \in Seq(TimeEntry), \A e \in DOMAIN entry : entry[e].from < entry[e].to,
         NEW S \in SUBSET DOMAIN entry
  PROVE  TotalOf(entry, S) \in Nat
<1>. DEFINE f == [e \in S |-> LineOf(entry[e])]
            Mine(g)  == [s \in SUBSET S |-> IF s = {} THEN 0 ELSE LineOf(entry[Picked(s)]) + g[s \ {Picked(s)}]]
            Yours(g) == [s \in SUBSET S |-> IF s = {} THEN 0 ELSE f[Picked(s)] + g[s \ {Picked(s)}]]
<1>1. \A s \in SUBSET S : s # {} => Picked(s) \in S
  BY DEF Picked
<1>2. \A g : Mine(g) = Yours(g)
  BY <1>1
<1>3. TotalOf(entry, S) = (CHOOSE g : g = Mine(g))[S]
  BY DEF TotalOf, MapThenSumSet, MapThenFoldSet, Picked
<1>4. SumOver(f, S) = (CHOOSE g : g = Yours(g))[S]
  BY DEF SumOver, MapThenSumSet, MapThenFoldSet, Picked
<1>5. TotalOf(entry, S) = SumOver(f, S)
  <2>. HIDE DEF Mine, Yours, f
  <2>. QED BY <1>2, <1>3, <1>4
<1>6. IsFiniteSet(S) /\ entry \in [DOMAIN entry -> TimeEntry]
  BY ListType, FS_Subset
<1>7. ASSUME NEW e \in S PROVE f[e] \in Nat
  BY <1>6, LineNat
<1>. HIDE DEF f
<1>. QED BY <1>5, <1>6, <1>7, SumNat

\* A time entry more.
LEMMA BooksRecorded ==
  ASSUME NEW entry, NEW invoice, NEW payment, Books(entry, invoice, payment),
         NEW x \in TimeEntry, x.from < x.to, x.state = "draft"
  PROVE  Books(Append(entry, x), invoice, payment)
<1>. DEFINE new == Append(entry, x)
            n   == Len(entry) + 1
<1>1. entry \in Seq(TimeEntry) /\ invoice \in Seq(Bill(entry)) /\ payment \in Seq(PaidFor(invoice))
  BY DEF Books, BookTypes
<1>2. /\ new \in Seq(TimeEntry) /\ DOMAIN new = DOMAIN entry \cup {n} /\ n \notin DOMAIN entry
      /\ (\A e \in DOMAIN entry : new[e] = entry[e]) /\ new[n] = x
  BY <1>1, ListAppend, ListType, AppendProperties
<1>. HIDE DEF new, n
<1>3. invoice \in Seq(Bill(new)) /\ \A i \in DOMAIN invoice : invoice[i].sources \in SUBSET DOMAIN entry
  <2>1. Bill(entry) \subseteq Bill(new)
    BY <1>2 DEF Bill
  <2>2. invoice \in [DOMAIN invoice -> Bill(entry)]
    BY <1>1, ListType
  <2>3. \A i \in DOMAIN invoice : invoice[i].sources \in SUBSET DOMAIN entry
    BY <2>2 DEF Bill
  <2>. QED BY <1>1, <2>1, <2>3, SeqMonotonic
<1>4. BookTypes(new, invoice, payment)
  BY <1>1, <1>2, <1>3 DEF Books, BookTypes
<1>5. ASSUME NEW i \in DOMAIN invoice PROVE TotalOf(new, invoice[i].sources) = TotalOf(entry, invoice[i].sources)
  <2>1. \A e \in invoice[i].sources : new[e] = entry[e]
    BY <1>2, <1>3
  <2>. QED BY <2>1, TotalStays
<1>6. \A i \in DOMAIN invoice : Totalled(new, invoice, i)
  BY <1>5 DEF Books, Totalled
<1>7. ASSUME NEW e \in DOMAIN new, NEW i \in DOMAIN invoice PROVE BilledOnce(new, invoice, e, i)
  <2>1. CASE e = n
    <3>1. new[e].state = "draft" /\ e \notin invoice[i].sources
      BY <1>2, <1>3, <2>1
    <3>. QED BY <3>1 DEF BilledOnce
  <2>2. CASE e # n
    BY <1>2, <1>7, <2>2 DEF Books, BilledOnce
  <2>. QED BY <2>1, <2>2
<1>8. \A i \in IssuedOf(invoice) : Owed(new, invoice, payment, i)
  BY <1>5 DEF Books, Owed, IssuedOf
<1>9. Books(new, invoice, payment)
  BY <1>4, <1>6, <1>7, <1>8 DEF Books
<1>. QED BY <1>9 DEF new

\* A time entry submitted or approved.
Marked(new, entry, e, st) == new = [entry EXCEPT ![e].state = st]

LEMMA BooksReviewed ==
  ASSUME NEW entry, NEW invoice, NEW payment, Books(entry, invoice, payment),
         NEW e \in DOMAIN entry, entry[e].state # "invoiced", NEW st \in {"submitted", "approved"},
         NEW new, Marked(new, entry, e, st)
  PROVE  Books(new, invoice, payment)
<1>1. entry \in Seq(TimeEntry) /\ invoice \in Seq(Bill(entry)) /\ payment \in Seq(PaidFor(invoice))
  BY DEF Books, BookTypes
<1>2. entry \in [DOMAIN entry -> TimeEntry]
  BY <1>1, ListType
<1>3. /\ DOMAIN new = DOMAIN entry /\ new \in [DOMAIN entry -> TimeEntry] /\ new[e].state = st
      /\ \A d \in DOMAIN entry : /\ new[d].from = entry[d].from /\ new[d].to = entry[d].to /\ new[d].rate = entry[d].rate
                                 /\ d # e => new[d] = entry[d]
  BY <1>2 DEF TimeEntry, Marked
<1>4. new \in Seq(TimeEntry) /\ Bill(new) = Bill(entry)
  BY <1>1, <1>3, ListRetype DEF Bill
<1>5. BookTypes(new, invoice, payment)
  BY <1>1, <1>3, <1>4 DEF Books, BookTypes
<1>6. ASSUME NEW i \in DOMAIN invoice PROVE TotalOf(new, invoice[i].sources) = TotalOf(entry, invoice[i].sources)
  <2>1. invoice \in [DOMAIN invoice -> Bill(entry)]
    BY <1>1, ListType
  <2>2. invoice[i].sources \in SUBSET DOMAIN entry
    BY <2>1 DEF Bill
  <2>3. \A d \in invoice[i].sources : new[d].from = entry[d].from /\ new[d].to = entry[d].to /\ new[d].rate = entry[d].rate
    BY <1>3, <2>2
  <2>. QED BY <2>3, TotalStays
<1>7. \A i \in DOMAIN invoice : Totalled(new, invoice, i)
  BY <1>6 DEF Books, Totalled
<1>8. ASSUME NEW d \in DOMAIN new, NEW i \in DOMAIN invoice PROVE BilledOnce(new, invoice, d, i)
  <2>1. BilledOnce(entry, invoice, d, i) /\ d \in DOMAIN entry
    BY <1>3 DEF Books
  <2>2. CASE d = e
    BY <1>3, <2>1, <2>2 DEF BilledOnce
  <2>3. CASE d # e
    BY <1>3, <2>1, <2>3 DEF BilledOnce
  <2>. QED BY <2>2, <2>3
<1>9. \A i \in IssuedOf(invoice) : Owed(new, invoice, payment, i)
  BY <1>6 DEF Books, Owed, IssuedOf
<1>. QED BY <1>5, <1>7, <1>8, <1>9 DEF Books

\* An invoice previewed.
Preview(entry, S, y) == [state |-> "draft", sources |-> S, total |-> TotalOf(entry, S), balance |-> TotalOf(entry, S),
                         paid |-> 0, year |-> y, sequence |-> 0, key |-> 0]

LEMMA BooksPreviewed ==
  ASSUME NEW entry, NEW invoice, NEW payment, Books(entry, invoice, payment),
         NEW S \in SUBSET DOMAIN entry, NEW y \in Year
  PROVE  Books(entry, Append(invoice, Preview(entry, S, y)), payment)
<1>. DEFINE x   == Preview(entry, S, y)
            new == Append(invoice, x)
            n   == Len(invoice) + 1
<1>1. entry \in Seq(TimeEntry) /\ invoice \in Seq(Bill(entry)) /\ payment \in Seq(PaidFor(invoice))
  BY DEF Books, BookTypes
<1>0. /\ \A e \in DOMAIN entry : entry[e].from < entry[e].to
      /\ \A e \in DOMAIN entry : entry[e].state = "invoiced" => entry[e].invoice \in DOMAIN invoice
  BY DEF Books, BookTypes
<1>2. TotalOf(entry, S) \in Nat
  <2>1. \A e \in DOMAIN entry : entry[e].from < entry[e].to
    BY <1>0
  <2>. QED BY <1>1, <2>1, TotalNat
<1>3. /\ x \in Bill(entry) /\ x.state = "draft" /\ x.sources = S /\ x.total = TotalOf(entry, S) /\ x.balance = x.total
      /\ x.paid = 0 /\ x.sequence = 0
  BY <1>2 DEF Bill, Preview
<1>. HIDE DEF x
<1>4. /\ new \in Seq(Bill(entry)) /\ DOMAIN new = DOMAIN invoice \cup {n} /\ n \notin DOMAIN invoice
      /\ (\A i \in DOMAIN invoice : new[i] = invoice[i]) /\ new[n] = x
  BY <1>1, <1>3, ListAppend, ListType, AppendProperties
<1>. HIDE DEF new, n
<1>5. IssuedOf(new) = IssuedOf(invoice) /\ n \notin IssuedOf(new) /\ IssuedOf(invoice) \subseteq DOMAIN invoice
  BY <1>3, <1>4 DEF IssuedOf
<1>6. BookTypes(entry, new, payment)
  BY <1>1, <1>4, <1>5 DEF Books, BookTypes, PaidFor
<1>7. ASSUME NEW i \in DOMAIN new PROVE Totalled(entry, new, i)
  <2>1. CASE i = n
    BY <1>3, <1>4, <1>5, <2>1 DEF Totalled
  <2>2. CASE i # n
    BY <1>4, <1>5, <1>7, <2>2 DEF Books, Totalled
  <2>. QED BY <2>1, <2>2
<1>8. ASSUME NEW e \in DOMAIN entry, NEW i \in DOMAIN new PROVE BilledOnce(entry, new, e, i)
  <2>1. CASE i = n
    <3>1. ~(entry[e].state = "invoiced" /\ entry[e].invoice = n)
      BY <1>0, <1>4
    <3>. QED BY <1>5, <2>1, <3>1 DEF BilledOnce
  <2>2. CASE i # n
    BY <1>4, <1>5, <1>8, <2>2 DEF Books, BilledOnce
  <2>. QED BY <2>1, <2>2
<1>9. \A i \in IssuedOf(new) : Owed(entry, new, payment, i)
  BY <1>4, <1>5 DEF Books, Owed
<1>10. ASSUME NEW z \in Year PROVE Numbered(new, z)
  <2>1. InYear(new, z) = InYear(invoice, z)
    BY <1>4, <1>5 DEF InYear
  <2>2. {new[i].sequence : i \in InYear(new, z)} = {invoice[i].sequence : i \in InYear(invoice, z)}
    BY <1>4, <1>5, <2>1 DEF InYear
  <2>. QED BY <2>1, <2>2 DEF Books, Numbered
<1>11. Books(entry, new, payment)
  BY <1>6, <1>7, <1>8, <1>9, <1>10 DEF Books
<1>. QED BY <1>11 DEF new, x

\* A payment towards an invoice.
Towards(v, a) == [v EXCEPT !.paid = @ + a, !.balance = @ - a, !.state = IF a = v.balance THEN "paid" ELSE "partially_paid"]

LEMMA BooksPaid ==
  ASSUME NEW entry, NEW invoice, NEW payment, Books(entry, invoice, payment),
         NEW i \in IssuedOf(invoice), NEW a \in Amount, a <= invoice[i].balance, NEW k \in Key,
         NEW new, OneChanged(new, invoice, i, Towards(invoice[i], a))
  PROVE  Books(entry, new, Append(payment, [invoice |-> i, amount |-> a, key |-> k]))
<1>. DEFINE x == [invoice |-> i, amount |-> a, key |-> k]
            more == Append(payment, x)
            T == PaidFor(invoice)
            v == Towards(invoice[i], a)
<1>1. /\ entry \in Seq(TimeEntry) /\ invoice \in Seq(Bill(entry)) /\ payment \in Seq(T)
      /\ a \in Nat /\ Amount \subseteq Nat /\ i \in DOMAIN invoice
  BY MoneyAssumption DEF Books, BookTypes, IssuedOf
<1>2. /\ invoice \in [DOMAIN invoice -> Bill(entry)] /\ invoice[i] \in Bill(entry)
      /\ invoice[i].balance \in Nat /\ invoice[i].paid \in Nat
  <2>1. invoice \in [DOMAIN invoice -> Bill(entry)] /\ invoice[i] \in Bill(entry)
    BY <1>1, ListType
  <2>. QED BY <2>1 DEF Bill
<1>3. /\ v \in Bill(entry) /\ v.paid = invoice[i].paid + a /\ v.balance = invoice[i].balance - a
      /\ v.state # "draft" /\ (v.state = "paid" => v.balance = 0)
      /\ v.sources = invoice[i].sources /\ v.total = invoice[i].total /\ v.year = invoice[i].year
      /\ v.sequence = invoice[i].sequence
  <2>. DEFINE st == IF a = invoice[i].balance THEN "paid" ELSE "partially_paid"
              more_paid == invoice[i].paid + a
              rest == invoice[i].balance - a
  <2>1. /\ st \in {"draft", "issued", "partially_paid", "paid"} /\ st # "draft" /\ (st = "paid" => rest = 0)
        /\ more_paid \in Nat /\ rest \in Nat
    BY <1>1, <1>2
  <2>2. v = [invoice[i] EXCEPT !.paid = more_paid, !.balance = rest, !.state = st]
    BY DEF Towards
  <2>. HIDE DEF st, more_paid, rest, v
  <2>3. v \in Bill(entry) /\ v.paid = more_paid /\ v.balance = rest /\ v.state = st
        /\ v.sources = invoice[i].sources /\ v.total = invoice[i].total /\ v.year = invoice[i].year
        /\ v.sequence = invoice[i].sequence
    BY <1>2, <2>1, <2>2 DEF Bill
  <2>. QED BY <2>1, <2>3 DEF more_paid, rest
<1>4. /\ DOMAIN new = DOMAIN invoice /\ new[i] = v /\ new \in Seq(Bill(entry))
      /\ \A j \in DOMAIN invoice : j # i => new[j] = invoice[j]
  <2>. HIDE DEF v
  <2>1. OneChanged(new, invoice, i, v)
    BY DEF v
  <2>. QED BY <1>1, <1>3, <2>1, ListChange
<1>. HIDE DEF v
<1>5. \A j \in DOMAIN invoice : /\ new[j].sources = invoice[j].sources /\ new[j].total = invoice[j].total
                               /\ new[j].year = invoice[j].year /\ new[j].sequence = invoice[j].sequence
                               /\ (new[j].state = "draft" <=> invoice[j].state = "draft")
  BY <1>3, <1>4 DEF IssuedOf
<1>7. IssuedOf(new) = IssuedOf(invoice)
  BY <1>4, <1>5 DEF IssuedOf
<1>8. x \in T /\ x.amount = a /\ x.invoice = i /\ more \in Seq(T) /\ T = PaidFor(new)
  <2>1. x \in T /\ x.amount = a /\ x.invoice = i /\ T = PaidFor(new)
    BY <1>7 DEF PaidFor
  <2>. HIDE DEF x, T
  <2>. QED BY <1>1, <2>1, AppendProperties
<1>9. \A j : /\ PaidSum(payment, PaidOn(payment, j)) \in Nat
             /\ PaidSum(more, PaidOn(more, j)) = PaidSum(payment, PaidOn(payment, j)) + IF x.invoice = j THEN x.amount ELSE 0
  <2>1. \A z \in T : z.amount \in Nat
    BY <1>1 DEF PaidFor
  <2>2. x.amount \in Nat
    BY <1>1, <1>8
  <2>. HIDE DEF x, T
  <2>. QED BY <1>1, <2>1, <2>2, PaymentAdded
<1>10. BookTypes(entry, new, more)
  BY <1>1, <1>4, <1>8 DEF Books, BookTypes
<1>. HIDE DEF x, more, T
<1>11. ASSUME NEW j \in DOMAIN new PROVE Totalled(entry, new, j)
  <2>1. Totalled(entry, invoice, j) /\ j \in DOMAIN invoice
    BY <1>4 DEF Books
  <2>2. CASE j = i
    BY <1>5, <1>7, <2>1, <2>2 DEF Totalled
  <2>3. CASE j # i
    BY <1>4, <1>7, <2>1, <2>3 DEF Totalled
  <2>. QED BY <2>2, <2>3
<1>12. \A e \in DOMAIN entry : \A j \in DOMAIN new : BilledOnce(entry, new, e, j)
  BY <1>4, <1>5, <1>7 DEF Books, BilledOnce
<1>13. ASSUME NEW j \in IssuedOf(new) PROVE Owed(entry, new, more, j)
  <2>1. Owed(entry, invoice, payment, j) /\ j \in DOMAIN invoice
    BY <1>7 DEF Books, IssuedOf
  <2>2. CASE j = i
    <3>1. PaidSum(more, PaidOn(more, i)) = PaidSum(payment, PaidOn(payment, i)) + a
      BY <1>8, <1>9
    <3>2. v.paid = PaidSum(more, PaidOn(more, i)) /\ v.paid + v.balance = invoice[i].paid + invoice[i].balance
      BY <1>1, <1>2, <1>3, <2>1, <2>2, <3>1 DEF Owed
    <3>. QED BY <1>3, <1>4, <2>1, <2>2, <3>2 DEF Owed
  <2>3. CASE j # i
    <3>1. PaidSum(more, PaidOn(more, j)) = PaidSum(payment, PaidOn(payment, j)) + 0
      BY <1>8, <1>9, <2>3
    <3>2. PaidSum(more, PaidOn(more, j)) = PaidSum(payment, PaidOn(payment, j))
      BY <1>9, <3>1
    <3>. QED BY <1>4, <2>1, <2>3, <3>2 DEF Owed
  <2>. QED BY <2>2, <2>3
<1>14. ASSUME NEW z \in Year PROVE Numbered(new, z)
  <2>1. InYear(new, z) = InYear(invoice, z) /\ InYear(invoice, z) \subseteq DOMAIN invoice
    BY <1>5, <1>7 DEF InYear, IssuedOf
  <2>2. {new[j].sequence : j \in InYear(new, z)} = {invoice[j].sequence : j \in InYear(invoice, z)}
    BY <1>5, <2>1
  <2>. QED BY <2>1, <2>2 DEF Books, Numbered
<1>15. Books(entry, new, more)
  BY <1>10, <1>11, <1>12, <1>13, <1>14 DEF Books
<1>. QED BY <1>15 DEF more, x

\* The number after the last is the first that is free.
LEMMA NextNumber ==
  ASSUME NEW entry, NEW invoice, NEW payment, Books(entry, invoice, payment), NEW y \in Year
  PROVE  /\ Cardinality(InYear(invoice, y)) \in Nat /\ IsFiniteSet(InYear(invoice, y))
         /\ Max({0} \cup {invoice[i].sequence : i \in {j \in DOMAIN invoice : invoice[j].sequence > 0 /\ invoice[j].year = y}})
              = Cardinality(InYear(invoice, y))
<1>. DEFINE n == Cardinality(InYear(invoice, y))
            W == {j \in DOMAIN invoice : invoice[j].sequence > 0 /\ invoice[j].year = y}
            N == {0} \cup {invoice[i].sequence : i \in W}
<1>1. invoice \in Seq(Bill(entry)) /\ IsFiniteSet(DOMAIN invoice) /\ invoice \in [DOMAIN invoice -> Bill(entry)]
  BY ListType DEF Books, BookTypes
<1>2. InYear(invoice, y) \subseteq DOMAIN invoice /\ IsFiniteSet(InYear(invoice, y))
  <2>1. InYear(invoice, y) \subseteq DOMAIN invoice
    BY DEF InYear, IssuedOf
  <2>. QED BY <1>1, <2>1, FS_Subset
<1>3. n \in Nat
  BY <1>2, FS_CardinalityType
<1>4. {invoice[i].sequence : i \in InYear(invoice, y)} = 1 .. n
  BY DEF Books, Numbered
<1>5. W = InYear(invoice, y)
  <2>1. ASSUME NEW j \in W PROVE j \in InYear(invoice, y)
    <3>1. j \in DOMAIN invoice /\ invoice[j].sequence # 0 /\ invoice[j].year = y
      BY <2>1
    <3>2. j \in IssuedOf(invoice)
      BY <3>1 DEF Books, Totalled
    <3>. QED BY <3>1, <3>2 DEF InYear
  <2>2. ASSUME NEW j \in InYear(invoice, y) PROVE j \in W
    <3>1. j \in DOMAIN invoice /\ invoice[j].year = y
      BY <2>2 DEF InYear, IssuedOf
    <3>2. invoice[j].sequence \in 1 .. n
      BY <1>4, <2>2
    <3>3. invoice[j].sequence > 0
      BY <1>3, <3>2
    <3>. QED BY <3>1, <3>3
  <2>. QED BY <2>1, <2>2
<1>6. N = 0 .. n
  <2>1. N = {0} \cup 1 .. n
    BY <1>4, <1>5
  <2>. QED BY <1>3, <2>1
<1>7. Max(N) = n
  <2>. HIDE DEF N, n
  <2>1. n \in N /\ \A m \in N : n >= m
    BY <1>3, <1>6
  <2>2. \A m \in N : (\A l \in N : m >= l) => m = n
    BY <1>3, <1>6
  <2>. QED BY <2>1, <2>2 DEF Max
<1>. QED BY <1>2, <1>3, <1>7

\* An invoice issued: its entries, none of them billed, are billed on it.
Marking(new, entry, S, i) ==
  new = [e \in DOMAIN entry |-> IF e \in S THEN [entry[e] EXCEPT !.state = "invoiced", !.invoice = i] ELSE entry[e]]
IssuedAs(v, k, n) == [v EXCEPT !.state = "issued", !.key = k, !.sequence = n]

LEMMA BooksIssued ==
  ASSUME NEW entry, NEW invoice, NEW payment, Books(entry, invoice, payment),
         NEW i \in DOMAIN invoice, invoice[i].state = "draft", NEW k \in Key,
         \A e \in invoice[i].sources : entry[e].state = "approved",
         NEW marked, Marking(marked, entry, invoice[i].sources, i),
         NEW new, OneChanged(new, invoice, i, IssuedAs(invoice[i], k, Cardinality(InYear(invoice, invoice[i].year)) + 1))
  PROVE  Books(marked, new, payment)
<1>. DEFINE y == invoice[i].year
            n == Cardinality(InYear(invoice, y)) + 1
            v == IssuedAs(invoice[i], k, n)
            S == invoice[i].sources
<1>1. /\ entry \in Seq(TimeEntry) /\ invoice \in Seq(Bill(entry)) /\ payment \in Seq(PaidFor(invoice))
      /\ \A e \in DOMAIN entry : entry[e].from < entry[e].to
  BY DEF Books, BookTypes
<1>2. /\ invoice \in [DOMAIN invoice -> Bill(entry)] /\ entry \in [DOMAIN entry -> TimeEntry] /\ DOMAIN invoice \subseteq Nat
      /\ DOMAIN entry \in SUBSET Nat
  BY <1>1, ListType
<1>3. invoice[i] \in Bill(entry) /\ S \in SUBSET DOMAIN entry /\ y \in Year
  BY <1>2 DEF Bill
<1>4. Cardinality(InYear(invoice, y)) \in Nat /\ IsFiniteSet(InYear(invoice, y)) /\ n \in Nat
  <2>1. Cardinality(InYear(invoice, y)) \in Nat /\ IsFiniteSet(InYear(invoice, y))
    <3>. HIDE DEF y, n, v, S
    <3>. QED BY <1>3, NextNumber
  <2>. QED BY <2>1
<1>5. /\ v \in Bill(entry) /\ v.state = "issued" /\ v.sequence = n /\ v.year = y /\ v.sources = S
      /\ v.total = invoice[i].total /\ v.balance = invoice[i].balance /\ v.paid = invoice[i].paid
  <2>. HIDE DEF n
  <2>. QED BY <1>3, <1>4 DEF Bill, IssuedAs
<1>6. /\ new \in Seq(Bill(entry)) /\ DOMAIN new = DOMAIN invoice /\ new[i] = v
      /\ \A j \in DOMAIN invoice : j # i => new[j] = invoice[j]
  <2>1. OneChanged(new, invoice, i, v)
    OBVIOUS
  <2>. HIDE DEF v
  <2>. QED BY <1>1, <1>5, <2>1, ListChange
<1>7. /\ DOMAIN marked = DOMAIN entry
      /\ marked \in [DOMAIN entry -> TimeEntry]
      /\ \A e \in DOMAIN entry : /\ marked[e].from = entry[e].from /\ marked[e].to = entry[e].to /\ marked[e].rate = entry[e].rate
                                 /\ e \in S => marked[e].state = "invoiced" /\ marked[e].invoice = i
                                 /\ e \notin S => marked[e] = entry[e]
  <2>. HIDE DEF S
  <2>1. DOMAIN marked = DOMAIN entry
    BY DEF Marking, S
  <2>2. \A e \in S : e \in DOMAIN entry => marked[e] = [entry[e] EXCEPT !.state = "invoiced", !.invoice = i]
    BY DEF Marking, S
  <2>3. \A e \in DOMAIN entry \ S : marked[e] = entry[e]
    BY DEF Marking, S
  <2>4. ASSUME NEW e \in DOMAIN entry
        PROVE  /\ marked[e] \in TimeEntry
               /\ marked[e].from = entry[e].from /\ marked[e].to = entry[e].to /\ marked[e].rate = entry[e].rate
               /\ e \in S => marked[e].state = "invoiced" /\ marked[e].invoice = i
               /\ e \notin S => marked[e] = entry[e]
    <3>1. CASE e \in S
      <4>1. entry[e] \in TimeEntry /\ i \in Nat /\ marked[e] = [entry[e] EXCEPT !.state = "invoiced", !.invoice = i]
        BY <1>2, <2>2, <3>1
      <4>. QED BY <3>1, <4>1 DEF TimeEntry
    <3>2. CASE e \notin S
      BY <1>2, <2>3, <3>2
    <3>. QED BY <3>1, <3>2
  <2>5. marked = [e \in DOMAIN entry |-> marked[e]]
    BY DEF Marking
  <2>. QED BY <2>1, <2>4, <2>5
<1>. HIDE DEF S, v, n, y
<1>8. marked \in Seq(TimeEntry) /\ Bill(marked) = Bill(entry)
  BY <1>1, <1>7, ListRetype DEF Bill
<1>9. IssuedOf(new) = IssuedOf(invoice) \cup {i} /\ i \notin IssuedOf(invoice) /\ IssuedOf(invoice) \subseteq DOMAIN invoice
  BY <1>5, <1>6 DEF IssuedOf
<1>10. payment \in Seq(PaidFor(new)) /\ payment \in [DOMAIN payment -> PaidFor(invoice)]
  <2>1. PaidFor(invoice) \subseteq PaidFor(new)
    BY <1>9 DEF PaidFor
  <2>. QED BY <1>1, <2>1, SeqMonotonic, ListType
<1>11. BookTypes(marked, new, payment)
  <2>1. \A e \in DOMAIN marked : marked[e].from < marked[e].to
    BY <1>1, <1>7
  <2>2. \A e \in DOMAIN marked : marked[e].state = "invoiced" => marked[e].invoice \in DOMAIN new
    BY <1>6, <1>7 DEF Books, BookTypes
  <2>. QED BY <1>6, <1>8, <1>10, <2>1, <2>2 DEF BookTypes
<1>12. ASSUME NEW j \in DOMAIN new
       PROVE  new[j].sources = invoice[j].sources /\ TotalOf(marked, new[j].sources) = TotalOf(entry, invoice[j].sources)
  <2>1. new[j].sources = invoice[j].sources
    BY <1>5, <1>6 DEF S
  <2>2. invoice[j].sources \in SUBSET DOMAIN entry
    BY <1>2, <1>6 DEF Bill
  <2>3. \A e \in invoice[j].sources : marked[e].from = entry[e].from /\ marked[e].to = entry[e].to /\ marked[e].rate = entry[e].rate
    BY <1>7, <2>2
  <2>4. TotalOf(marked, invoice[j].sources) = TotalOf(entry, invoice[j].sources)
    BY <2>3, TotalStays
  <2>. QED BY <2>1, <2>4
<1>13. ASSUME NEW j \in DOMAIN new PROVE Totalled(marked, new, j)
  <2>1. Totalled(entry, invoice, j)
    BY <1>6 DEF Books
  <2>2. CASE j = i
    BY <1>5, <1>6, <1>9, <1>12, <2>1, <2>2 DEF Totalled
  <2>3. CASE j # i
    BY <1>6, <1>9, <1>12, <2>1, <2>3 DEF Totalled
  <2>. QED BY <2>2, <2>3
<1>14. ASSUME NEW e \in DOMAIN marked, NEW j \in DOMAIN new PROVE BilledOnce(marked, new, e, j)
  <2>1. BilledOnce(entry, invoice, e, j) /\ BilledOnce(entry, invoice, e, i) /\ e \in DOMAIN entry /\ j \in DOMAIN invoice
    BY <1>6, <1>7 DEF Books
  <2>2. CASE e \in S
    <3>1. entry[e].state # "invoiced" /\ marked[e].state = "invoiced" /\ marked[e].invoice = i
      BY <1>7, <2>1, <2>2 DEF S
    <3>. QED BY <1>5, <1>6, <1>9, <2>1, <2>2, <3>1 DEF BilledOnce
  <2>3. CASE e \notin S
    BY <1>5, <1>6, <1>7, <1>9, <2>1, <2>3 DEF BilledOnce
  <2>. QED BY <2>2, <2>3
<1>15. ASSUME NEW j \in IssuedOf(new) PROVE Owed(marked, new, payment, j)
  <2>1. CASE j = i
    <3>1. PaidOn(payment, i) = {} /\ PaidSum(payment, PaidOn(payment, i)) = 0
      <4>1. \A p \in DOMAIN payment : payment[p].invoice \in IssuedOf(invoice)
        BY <1>10 DEF PaidFor
      <4>2. PaidOn(payment, i) = {}
        BY <1>9, <4>1 DEF PaidOn
      <4>3. PaidSum(payment, {}) = SumOver(<<>>, {})
        BY PaidSumIsSum
      <4>. QED BY <4>2, <4>3, SumEmpty
    <3>2. invoice[i].paid = 0 /\ invoice[i].balance = TotalOf(entry, S) /\ invoice[i].balance \in Nat
      <4>1. Totalled(entry, invoice, i)
        BY DEF Books
      <4>2. invoice[i].balance \in Nat
        BY <1>3 DEF Bill
      <4>. QED BY <1>9, <4>1, <4>2 DEF Totalled, S
    <3>3. invoice[i].paid + invoice[i].balance = TotalOf(entry, S)
      BY <3>2
    <3>. QED BY <1>5, <1>6, <1>12, <2>1, <3>1, <3>2, <3>3 DEF Owed, S
  <2>2. CASE j # i
    <3>1. new[j] = invoice[j] /\ Owed(entry, invoice, payment, j) /\ j \in DOMAIN new
      BY <1>6, <1>9, <2>2 DEF Books
    <3>. QED BY <1>12, <3>1 DEF Owed
  <2>. QED BY <2>1, <2>2
<1>16. ASSUME NEW z \in Year PROVE Numbered(new, z)
  <2>1. CASE z = y
    <3>1. InYear(new, y) = InYear(invoice, y) \cup {i} /\ i \notin InYear(invoice, y) /\ InYear(invoice, y) \subseteq DOMAIN invoice
      BY <1>5, <1>6, <1>9 DEF InYear
    <3>2. Cardinality(InYear(new, y)) = n
      BY <1>4, <3>1, FS_AddElement DEF n
    <3>3. {new[j].sequence : j \in InYear(new, y)} = {invoice[j].sequence : j \in InYear(invoice, y)} \cup {n}
      BY <1>5, <1>6, <3>1
    <3>4. {invoice[j].sequence : j \in InYear(invoice, y)} = 1 .. (n - 1)
      <4>1. Cardinality(InYear(invoice, y)) = n - 1
        BY <1>4 DEF n
      <4>. QED BY <1>3, <4>1 DEF Books, Numbered
    <3>5. 1 .. (n - 1) \cup {n} = 1 .. n
      BY <1>4 DEF n
    <3>. QED BY <2>1, <3>2, <3>3, <3>4, <3>5 DEF Numbered
  <2>2. CASE z # y
    <3>1. InYear(new, z) = InYear(invoice, z) /\ InYear(invoice, z) \subseteq DOMAIN invoice /\ i \notin InYear(invoice, z)
      BY <1>5, <1>6, <1>9, <2>2 DEF InYear
    <3>2. {new[j].sequence : j \in InYear(new, z)} = {invoice[j].sequence : j \in InYear(invoice, z)}
      BY <1>6, <3>1
    <3>. QED BY <3>1, <3>2 DEF Books, Numbered
  <2>. QED BY <2>1, <2>2
<1>. QED BY <1>11, <1>13, <1>14, <1>15, <1>16 DEF Books

LEMMA BooksInit == Finance!Init => Finance!BooksInvariant
<1>. SUFFICES ASSUME Finance!Init PROVE Finance!BooksInvariant
  OBVIOUS
<1>1. HasBooks(records) /\ records.entry = <<>> /\ records.invoice = <<>> /\ records.payment = <<>>
  BY DEF Finance!Init, HasBooks
<1>2. BookTypes(<<>>, <<>>, <<>>) /\ IssuedOf(<<>>) = {}
  BY DEF BookTypes, IssuedOf
<1>3. ASSUME NEW y \in Year PROVE Numbered(<<>>, y)
  <2>1. InYear(<<>>, y) = {} /\ Cardinality({}) = 0
    BY <1>2, FS_EmptySet DEF InYear
  <2>. QED BY <2>1 DEF Numbered
<1>4. Books(<<>>, <<>>, <<>>)
  BY <1>2, <1>3 DEF Books
<1>. QED BY <1>1, <1>4, BooksForm

LEMMA BooksStep ==
  ASSUME Finance!BooksInvariant, Finance!Next
  PROVE  Finance!BooksInvariant'
<1>. DEFINE B(r) == HasBooks(r) /\ Books(r.entry, r.invoice, r.payment)
<1>1. B(records)
  BY BooksForm
<1>. SUFFICES B(records')
  BY BooksFormNext
<1>t. /\ records.entry \in Seq(TimeEntry) /\ records.invoice \in Seq(Bill(records.entry))
      /\ records.invoice \in [DOMAIN records.invoice -> Bill(records.entry)]
  <2>1. records.entry \in Seq(TimeEntry) /\ records.invoice \in Seq(Bill(records.entry))
    BY <1>1 DEF Books, BookTypes
  <2>. QED BY <2>1, ListType
<1>2. ASSUME NEW new \in [by : Contributor, from : 0 .. Horizon, to : 0 .. Horizon, project : Project, rate : Rate],
             Finance!TimeCreate(new)
      PROVE  B(records')
  <2>. DEFINE x == [by |-> new.by, from |-> new.from, to |-> new.to, project |-> new.project,
                    rate |-> new.rate, state |-> "draft", invoice |-> 0]
  <2>1. /\ HasBooks(records') /\ records'.entry = Append(records.entry, x)
        /\ records'.invoice = records.invoice /\ records'.payment = records.payment
    BY <1>1, <1>2 DEF Finance!TimeCreate, Finance!NoInvoice, HasBooks
  <2>2. new.from < new.to
    BY <1>2 DEF Finance!TimeCreate
  <2>3. x \in TimeEntry /\ x.from < x.to /\ x.state = "draft"
    BY <2>2 DEF TimeEntry
  <2>. HIDE DEF x
  <2>. QED BY <1>1, <2>1, <2>3, BooksRecorded
<1>3. ASSUME NEW e \in DOMAIN Finance!entry, Finance!TimeSubmit(e) \/ Finance!TimeApprove(e) PROVE B(records')
  <2>1. PICK st \in {"submitted", "approved"} :
          /\ records.entry[e].state # "invoiced"
          /\ records' = [records EXCEPT !.entry[e].state = st]
    BY <1>3 DEF Finance!TimeSubmit, Finance!TimeApprove, Finance!entry
  <2>2. /\ HasBooks(records') /\ records'.entry = [records.entry EXCEPT ![e].state = st]
        /\ records'.invoice = records.invoice /\ records'.payment = records.payment
    BY <1>1, <2>1 DEF HasBooks
  <2>3. Marked(records'.entry, records.entry, e, st) /\ e \in DOMAIN records.entry
    BY <2>2 DEF Marked, Finance!entry
  <2>4. Books(records'.entry, records.invoice, records.payment)
    BY <1>1, <2>1, <2>3, BooksReviewed
  <2>. QED BY <2>2, <2>4
<1>4. ASSUME NEW p \in Project, NEW S \in SUBSET DOMAIN Finance!entry, NEW y \in Year, Finance!InvoicePreview(p, S, y)
      PROVE  B(records')
  <2>1. Finance!InvoiceTotal(S) = TotalOf(records.entry, S)
    BY DEF Finance!InvoiceTotal, Finance!LineTotal, Finance!entry, TotalOf, LineOf,
           Finance!MapThenSumSet, MapThenSumSet, Finance!MapThenFoldSet, MapThenFoldSet
  <2>2. /\ HasBooks(records') /\ records'.invoice = Append(records.invoice, Preview(records.entry, S, y))
        /\ records'.entry = records.entry /\ records'.payment = records.payment
    BY <1>1, <1>4, <2>1 DEF Finance!InvoicePreview, Finance!NoKey, Preview, HasBooks
  <2>3. Books(records.entry, Append(records.invoice, Preview(records.entry, S, y)), records.payment)
    BY <1>1, BooksPreviewed DEF Finance!entry
  <2>. QED BY <2>2, <2>3
<1>5. ASSUME NEW i \in DOMAIN Finance!invoice, NEW k \in Key, Finance!InvoiceIssue(i, k) PROVE B(records')
  <2>. DEFINE n == Cardinality(InYear(records.invoice, records.invoice[i].year)) + 1
              v == records.invoice[i]
  <2>1. /\ i \in DOMAIN records.invoice /\ v.state = "draft" /\ v \in Bill(records.entry)
        /\ \A e \in v.sources : records.entry[e].state = "approved"
    BY <1>t, <1>5 DEF Finance!InvoiceIssue, Finance!Billable, Finance!invoice, Finance!entry
  <2>2. v.year \in Year
    BY <2>1 DEF Bill
  <2>3. Finance!NextSequence(v.year) = n
    <3>1. Finance!NextSequence(v.year)
            = Max({0} \cup {records.invoice[j].sequence :
                              j \in {l \in DOMAIN records.invoice : records.invoice[l].sequence > 0 /\ records.invoice[l].year = v.year}}) + 1
      BY DEF Finance!NextSequence, Finance!Max, Max, Finance!invoice
    <3>. QED BY <1>1, <2>2, <3>1, NextNumber
  <2>. HIDE DEF n
  <2>4. /\ HasBooks(records') /\ Marking(records'.entry, records.entry, v.sources, i)
        /\ records'.payment = records.payment
        /\ records'.invoice = [records.invoice EXCEPT ![i].state = "issued", ![i].key = k, ![i].sequence = n]
    BY <1>1, <1>5, <2>3 DEF Finance!InvoiceIssue, Finance!invoice, Marking, HasBooks
  <2>5. OneChanged(records'.invoice, records.invoice, i, IssuedAs(v, k, n))
    BY <1>t, <2>1, <2>4 DEF OneChanged, IssuedAs
  <2>6. Books(records'.entry, records'.invoice, records.payment)
    BY <1>1, <2>1, <2>4, <2>5, BooksIssued DEF n
  <2>. QED BY <2>4, <2>6
<1>6. ASSUME NEW i \in DOMAIN Finance!invoice, NEW a \in Amount, NEW k \in Key, Finance!PaymentRecord(i, a, k)
      PROVE  B(records')
  <2>. DEFINE v == records.invoice[i]
  <2>1. i \in IssuedOf(records.invoice) /\ a <= v.balance
    BY <1>6 DEF Finance!PaymentRecord, Finance!invoice, IssuedOf
  <2>2. /\ HasBooks(records') /\ records'.entry = records.entry
        /\ records'.payment = Append(records.payment, [invoice |-> i, amount |-> a, key |-> k])
        /\ records'.invoice = [records.invoice EXCEPT ![i].paid = @ + a, ![i].balance = @ - a,
                                 ![i].state = IF a = v.balance THEN "paid" ELSE "partially_paid"]
    BY <1>1, <1>6 DEF Finance!PaymentRecord, Finance!invoice, HasBooks
  <2>3. OneChanged(records'.invoice, records.invoice, i, Towards(v, a))
    BY <1>t, <2>1, <2>2 DEF OneChanged, Towards, IssuedOf
  <2>4. Books(records.entry, records'.invoice, Append(records.payment, [invoice |-> i, amount |-> a, key |-> k]))
    BY <1>1, <2>1, <2>3, BooksPaid
  <2>. QED BY <2>2, <2>4
<1>. HIDE DEF B
<1>. QED BY <1>2, <1>3, <1>4, <1>5, <1>6 DEF Finance!Next

-----------------------------------------------------------------------------
(* The credits of metered subscriptions.                                   *)

MeteredUsage     == [meter : Nat, source : Source, at : 0 .. Horizon, quantity : Quantity]
MeteredAggregate == [meter : Nat, period : Metering!Period, events : SUBSET Nat, quantity : Nat]
MeteredPlan      == [meter : Nat, base : Base, unit : Unit]
GrantedCredit    == [subscription : Nat, amount : Credit, remaining : Nat, receipt : PaymentReceipt]
AllocationsOf(invoice) == {invoice[i].allocations : i \in DOMAIN invoice}
MeteredBill(A)   == [subscription : Nat, period : Metering!Period, aggregates : SUBSET Nat, subtotal : Nat, total : Nat,
                     allocations : A, state : {"draft", "final", "paid"}]
ApplicationTo(credit, invoice) == [credit : DOMAIN credit, invoice : IssuedOf(invoice), amount : Nat]
ReceiptFor(invoice) == [invoice : DOMAIN invoice, receipt : PaymentReceipt, amount : Nat]

AppliedSum(S)        == MapThenSumSet(LAMBDA a : a.amount, S)
RemainingSum(lst, S) == MapThenSumSet(LAMBDA d : lst[d].remaining, S)
QuantitySum(lst, S)  == MapThenSumSet(LAMBDA e : lst[e].quantity, S)

Prices(meter, usage, aggregate, plan, subscription) ==
  /\ meter \in Seq(Aggregation) /\ usage \in Seq(MeteredUsage) /\ aggregate \in Seq(MeteredAggregate)
  /\ plan \in Seq(MeteredPlan) /\ subscription \in Seq(DOMAIN plan)

Allocating(credit, v) ==
  /\ v.allocations \in [DOMAIN v.allocations -> Nat] /\ DOMAIN v.allocations \subseteq DOMAIN credit
  /\ v.total + SumOver(v.allocations, DOMAIN v.allocations) = v.subtotal
Balanced(credit, application, c) ==
  /\ credit[c].remaining >= 0
  /\ credit[c].remaining = credit[c].amount - AppliedSum({a \in application : a.credit = c})
Collected(invoice, application, payment, i) ==
  /\ invoice[i].total = invoice[i].subtotal - AppliedSum({a \in application : a.invoice = i})
  /\ invoice[i].total >= 0
  /\ {payment[p].amount : p \in PaidOn(payment, i)} = IF invoice[i].state = "paid" THEN {invoice[i].total} ELSE {}

CreditTypes(credit, invoice, application, payment) ==
  /\ credit \in Seq(GrantedCredit) /\ invoice \in Seq(MeteredBill(AllocationsOf(invoice)))
  /\ payment \in Seq(ReceiptFor(invoice))
  /\ application \in SUBSET ApplicationTo(credit, invoice) /\ IsFiniteSet(application)
CreditBooks(credit, invoice, application, payment) ==
  /\ CreditTypes(credit, invoice, application, payment)
  /\ \A i \in DOMAIN invoice : Allocating(credit, invoice[i])
  /\ \A p \in DOMAIN payment : invoice[payment[p].invoice].state = "paid"
  /\ \A c \in DOMAIN credit : Balanced(credit, application, c)
  /\ \A i \in DOMAIN invoice : invoice[i].state # "draft" => Collected(invoice, application, payment, i)

HasCredits(r) ==
  {"meter", "usage", "aggregate", "plan", "subscription", "credit", "invoice", "application", "payment"} \subseteq DOMAIN r

\* CreditsInvariant, of the lists it is about.
LEMMA CreditsForm ==
  Metering!CreditsInvariant
    <=> /\ HasCredits(records)
        /\ Prices(records.meter, records.usage, records.aggregate, records.plan, records.subscription)
        /\ CreditBooks(records.credit, records.invoice, records.application, records.payment)
  BY DEF Metering!CreditsInvariant, Metering!CreditsAddUp, HasCredits, Prices, CreditBooks, CreditTypes, Allocating, Balanced, Collected,
         MeteredUsage, MeteredAggregate, MeteredPlan, GrantedCredit, AllocationsOf, MeteredBill, ApplicationTo, ReceiptFor, IssuedOf,
         AppliedSum, PaidOn, SumOver, Metering!Usage, Metering!Aggregate, Metering!Plan, Metering!Granted, Metering!Bill,
         Metering!Applying, Metering!Paying, Metering!Applied, Metering!AllocatedOf,
         Metering!meter, Metering!usage, Metering!aggregate, Metering!plan, Metering!subscription, Metering!credit,
         Metering!invoice, Metering!application, Metering!payment,
         Metering!MapThenSumSet, MapThenSumSet, Metering!MapThenFoldSet, MapThenFoldSet, Metering!IsFiniteSet, IsFiniteSet

LEMMA CreditsFormNext ==
  Metering!CreditsInvariant'
    <=> /\ HasCredits(records')
        /\ Prices(records'.meter, records'.usage, records'.aggregate, records'.plan, records'.subscription)
        /\ CreditBooks(records'.credit, records'.invoice, records'.application, records'.payment)
  BY DEF Metering!CreditsInvariant, Metering!CreditsAddUp, HasCredits, Prices, CreditBooks, CreditTypes, Allocating, Balanced, Collected,
         MeteredUsage, MeteredAggregate, MeteredPlan, GrantedCredit, AllocationsOf, MeteredBill, ApplicationTo, ReceiptFor, IssuedOf,
         AppliedSum, PaidOn, SumOver, Metering!Usage, Metering!Aggregate, Metering!Plan, Metering!Granted, Metering!Bill,
         Metering!Applying, Metering!Paying, Metering!Applied, Metering!AllocatedOf,
         Metering!meter, Metering!usage, Metering!aggregate, Metering!plan, Metering!subscription, Metering!credit,
         Metering!invoice, Metering!application, Metering!payment,
         Metering!MapThenSumSet, MapThenSumSet, Metering!MapThenFoldSet, MapThenFoldSet, Metering!IsFiniteSet, IsFiniteSet

LEMMA AppliedIsSum ==
  ASSUME NEW S, NEW f, \A a \in S : f[a] = a.amount
  PROVE  AppliedSum(S) = SumOver(f, S)
<1>. DEFINE Mine(g)  == [s \in SUBSET S |-> IF s = {} THEN 0 ELSE Picked(s).amount + g[s \ {Picked(s)}]]
            Yours(g) == [s \in SUBSET S |-> IF s = {} THEN 0 ELSE f[Picked(s)] + g[s \ {Picked(s)}]]
<1>1. \A s \in SUBSET S : s # {} => Picked(s) \in S
  BY DEF Picked
<1>2. \A g : Mine(g) = Yours(g)
  BY <1>1
<1>3. AppliedSum(S) = (CHOOSE g : g = Mine(g))[S]
  BY DEF AppliedSum, MapThenSumSet, MapThenFoldSet, Picked
<1>4. SumOver(f, S) = (CHOOSE g : g = Yours(g))[S]
  BY DEF SumOver, MapThenSumSet, MapThenFoldSet, Picked
<1>. HIDE DEF Mine, Yours
<1>. QED BY <1>2, <1>3, <1>4

LEMMA RemainingIsSum ==
  ASSUME NEW lst, NEW S, NEW f, \A d \in S : f[d] = lst[d].remaining
  PROVE  RemainingSum(lst, S) = SumOver(f, S)
<1>. DEFINE Mine(g)  == [s \in SUBSET S |-> IF s = {} THEN 0 ELSE lst[Picked(s)].remaining + g[s \ {Picked(s)}]]
            Yours(g) == [s \in SUBSET S |-> IF s = {} THEN 0 ELSE f[Picked(s)] + g[s \ {Picked(s)}]]
<1>1. \A s \in SUBSET S : s # {} => Picked(s) \in S
  BY DEF Picked
<1>2. \A g : Mine(g) = Yours(g)
  BY <1>1
<1>3. RemainingSum(lst, S) = (CHOOSE g : g = Mine(g))[S]
  BY DEF RemainingSum, MapThenSumSet, MapThenFoldSet, Picked
<1>4. SumOver(f, S) = (CHOOSE g : g = Yours(g))[S]
  BY DEF SumOver, MapThenSumSet, MapThenFoldSet, Picked
<1>. HIDE DEF Mine, Yours
<1>. QED BY <1>2, <1>3, <1>4

LEMMA QuantityIsSum ==
  ASSUME NEW lst, NEW S, NEW f, \A e \in S : f[e] = lst[e].quantity
  PROVE  QuantitySum(lst, S) = SumOver(f, S)
<1>. DEFINE Mine(g)  == [s \in SUBSET S |-> IF s = {} THEN 0 ELSE lst[Picked(s)].quantity + g[s \ {Picked(s)}]]
            Yours(g) == [s \in SUBSET S |-> IF s = {} THEN 0 ELSE f[Picked(s)] + g[s \ {Picked(s)}]]
<1>1. \A s \in SUBSET S : s # {} => Picked(s) \in S
  BY DEF Picked
<1>2. \A g : Mine(g) = Yours(g)
  BY <1>1
<1>3. QuantitySum(lst, S) = (CHOOSE g : g = Mine(g))[S]
  BY DEF QuantitySum, MapThenSumSet, MapThenFoldSet, Picked
<1>4. SumOver(f, S) = (CHOOSE g : g = Yours(g))[S]
  BY DEF SumOver, MapThenSumSet, MapThenFoldSet, Picked
<1>. HIDE DEF Mine, Yours
<1>. QED BY <1>2, <1>3, <1>4

\* Sums grow with what they add up.
LEMMA SumMonotone ==
  ASSUME NEW S, IsFiniteSet(S), NEW f, NEW g, \A x \in S : f[x] \in Nat /\ g[x] \in Nat /\ f[x] <= g[x]
  PROVE  SumOver(f, S) <= SumOver(g, S)
<1>. DEFINE Bad == {T \in SUBSET S : ~(SumOver(f, T) <= SumOver(g, T))}
<1>1. SUFFICES ASSUME Bad # {} PROVE FALSE
  OBVIOUS
<1>2. PICK T \in Bad : \A y \in T : T \ {y} \notin Bad
  <2>1. Bad \in SUBSET SUBSET S
    OBVIOUS
  <2>. HIDE DEF Bad
  <2>. QED BY <1>1, <2>1, MinimalSet
<1>3. PICK y \in T : TRUE
  <2>1. SumOver(f, {}) <= SumOver(g, {})
    BY SumEmpty
  <2>. QED BY <1>2, <2>1
<1>4. /\ IsFiniteSet(T) /\ (\A x \in T : f[x] \in Int) /\ (\A x \in T : g[x] \in Int)
      /\ SumOver(f, T \ {y}) <= SumOver(g, T \ {y}) /\ f[y] <= g[y] /\ f[y] \in Int /\ g[y] \in Int
      /\ ~(SumOver(f, T) <= SumOver(g, T))
  BY <1>2, <1>3, FS_Subset
<1>. HIDE DEF Bad
<1>5. SumOver(f, T) = f[y] + SumOver(f, T \ {y}) /\ SumOver(f, T \ {y}) \in Int
  BY <1>3, <1>4, SumRemove
<1>6. SumOver(g, T) = g[y] + SumOver(g, T \ {y}) /\ SumOver(g, T \ {y}) \in Int
  BY <1>3, <1>4, SumRemove
<1>. QED BY <1>4, <1>5, <1>6

\* What is taken of the oldest credits first never exceeds the charge.
Before(R, open, c) == SumOver(R, {d \in open : d < c})
Taken(R, open, charge) ==
  [c \in {d \in open : Before(R, open, d) < charge} |-> Min({R[c], charge - Before(R, open, c)})]

LEMMA TakenWithinCharge ==
  ASSUME NEW open \in SUBSET Nat, IsFiniteSet(open), NEW R, \A c \in open : R[c] \in Nat, NEW charge \in Nat
  PROVE  /\ DOMAIN Taken(R, open, charge) \subseteq open
         /\ Taken(R, open, charge) \in [DOMAIN Taken(R, open, charge) -> Nat]
         /\ SumOver(Taken(R, open, charge), DOMAIN Taken(R, open, charge)) \in 0 .. charge
<1>. DEFINE t == Taken(R, open, charge)
            D == DOMAIN t
<1>1. D = {d \in open : Before(R, open, d) < charge} /\ \A c \in D : t[c] = Min({R[c], charge - Before(R, open, c)})
  BY DEF Taken
<1>2. IsFiniteSet(D) /\ D \subseteq open
  BY <1>1, FS_Subset
<1>3. ASSUME NEW c \in open PROVE Before(R, open, c) \in Nat
  <2>. DEFINE S == {d \in open : d < c}
  <2>1. IsFiniteSet(S) /\ \A d \in S : R[d] \in Nat
    BY FS_Subset
  <2>. HIDE DEF S
  <2>2. SumOver(R, S) \in Nat
    BY <2>1, SumNat
  <2>. QED BY <2>2 DEF Before, S
<1>4. ASSUME NEW c \in D
      PROVE  t[c] \in Nat /\ t[c] <= R[c] /\ t[c] + Before(R, open, c) <= charge /\ R[c] \in Nat /\ c \in Nat
  <2>. DEFINE rest == charge - Before(R, open, c)
  <2>1. c \in open /\ R[c] \in Nat /\ Before(R, open, c) \in Nat /\ Before(R, open, c) < charge
    BY <1>1, <1>2, <1>3
  <2>2. rest \in Nat /\ rest + Before(R, open, c) = charge
    BY <2>1
  <2>. HIDE DEF rest
  <2>3. t[c] = Min({R[c], rest})
    BY <1>1 DEF rest
  <2>4. \A a, b \in Nat : Min({a, b}) \in {a, b} /\ Min({a, b}) <= a /\ Min({a, b}) <= b
    <3>. SUFFICES ASSUME NEW a \in Nat, NEW b \in Nat
                  PROVE  Min({a, b}) \in {a, b} /\ Min({a, b}) <= a /\ Min({a, b}) <= b
      OBVIOUS
    <3>1. \E m \in {a, b} : \A n \in {a, b} : m <= n
      OBVIOUS
    <3>. QED BY <3>1 DEF Min
  <2>. HIDE DEF t, D
  <2>5. t[c] \in Nat /\ t[c] <= R[c] /\ t[c] <= rest
    BY <2>1, <2>2, <2>3, <2>4
  <2>. QED BY <2>1, <2>2, <2>5
<1>5. t \in [D -> Nat]
  BY <1>4 DEF Taken
<1>. HIDE DEF t, D
<1>6. SumOver(t, D) \in Nat
  BY <1>2, <1>4, SumNat
<1>7. SumOver(t, D) <= charge
  <2>1. CASE D = {}
    BY <2>1, SumEmpty
  <2>2. CASE D # {}
    <3>. DEFINE m == Max(D)
    <3>1. m \in D /\ \A d \in D : d <= m
      <4>1. D \in SUBSET Nat
        BY <1>4
      <4>2. Max(D) \in D /\ \A d \in D : Max(D) >= d
        BY <1>2, <2>2, <4>1, LargestExists
      <4>. QED BY <4>1, <4>2
    <3>. HIDE DEF m
    <3>. DEFINE S == {d \in open : d < m}
    <3>2. D \ {m} \in SUBSET S /\ IsFiniteSet(S) /\ IsFiniteSet(D \ {m}) /\ \A d \in S : R[d] \in Nat
      <4>1. ASSUME NEW d \in D \ {m} PROVE d \in S
        <5>1. d \in D /\ d # m /\ d \in Nat /\ m \in Nat /\ d <= m /\ d \in open
          BY <1>2, <1>4, <3>1
        <5>. QED BY <5>1
      <4>. QED BY <1>2, <4>1, FS_Subset
    <3>3. SumOver(t, D) = t[m] + SumOver(t, D \ {m}) /\ SumOver(t, D \ {m}) \in Int
      <4>1. \A x \in D : t[x] \in Int
        BY <1>4
      <4>. QED BY <1>2, <3>1, <4>1, SumRemove
    <3>4. SumOver(t, D \ {m}) <= SumOver(R, D \ {m}) /\ SumOver(R, D \ {m}) \in Nat
      <4>1. \A x \in D \ {m} : t[x] \in Nat /\ R[x] \in Nat /\ t[x] <= R[x]
        BY <1>4
      <4>. QED BY <3>2, <4>1, SumMonotone, SumNat
    <3>. HIDE DEF S
    <3>5. SumOver(R, D \ {m}) <= SumOver(R, S) /\ SumOver(R, S) \in Nat
      BY <3>2, SumSubset, SumNat
    <3>6. SumOver(R, S) = Before(R, open, m)
      BY DEF Before, S
    <3>7. t[m] \in Nat /\ t[m] + Before(R, open, m) <= charge
      BY <1>4, <3>1
    <3>. QED BY <3>3, <3>4, <3>5, <3>6, <3>7
  <2>. QED BY <2>1, <2>2
<1>8. SumOver(t, D) \in 0 .. charge
  BY <1>6, <1>7
<1>. QED BY <1>2, <1>5, <1>8 DEF t, D

\* What a meter reads in some of its events is a number.
Measured(meter, usage, m, events) ==
  CASE meter[m] = "count"   -> Cardinality(events)
    [] meter[m] = "maximum" -> Max({usage[e].quantity : e \in events})
    [] meter[m] = "sum"     -> QuantitySum(usage, events)

LEMMA MeasuredIsNumber ==
  ASSUME NEW meter \in Seq(Aggregation), NEW usage \in Seq(MeteredUsage), NEW m \in DOMAIN meter,
         NEW events \in SUBSET DOMAIN usage, events # {}
  PROVE  Measured(meter, usage, m, events) \in Nat
<1>1. meter[m] \in {"sum", "count", "maximum"}
  <2>1. meter \in [DOMAIN meter -> Aggregation]
    BY ListType
  <2>. QED BY <2>1, MoneyAssumption
<1>2. IsFiniteSet(events) /\ \A e \in events : usage[e].quantity \in Nat
  <2>1. usage \in [DOMAIN usage -> MeteredUsage] /\ IsFiniteSet(DOMAIN usage)
    BY ListType
  <2>2. ASSUME NEW e \in events PROVE usage[e].quantity \in Nat
    <3>1. usage[e] \in MeteredUsage
      BY <2>1
    <3>. QED BY <3>1, MoneyAssumption DEF MeteredUsage
  <2>. QED BY <2>1, <2>2, FS_Subset
<1>3. Cardinality(events) \in Nat
  BY <1>2, FS_CardinalityType
<1>4. Max({usage[e].quantity : e \in events}) \in Nat
  <2>. DEFINE N == {usage[e].quantity : e \in events}
  <2>1. N \in SUBSET Nat /\ N # {}
    BY <1>2
  <2>2. IsFiniteSet(N)
    <3>1. [e \in events |-> usage[e].quantity] \in Surjection(events, N)
      BY DEF Surjection
    <3>. HIDE DEF N
    <3>. QED BY <1>2, <3>1, FS_Surjection
  <2>. HIDE DEF N
  <2>3. Max(N) \in Nat
    BY <2>1, <2>2, LargestExists
  <2>. QED BY <2>3 DEF N
<1>5. QuantitySum(usage, events) \in Nat
  <2>. DEFINE f == [e \in events |-> usage[e].quantity]
  <2>1. \A e \in events : f[e] = usage[e].quantity /\ f[e] \in Nat
    BY <1>2
  <2>. HIDE DEF f
  <2>. QED BY <1>2, <2>1, QuantityIsSum, SumNat
<1>. QED BY <1>1, <1>3, <1>4, <1>5 DEF Measured

\* The meters, events, aggregates, plans and subscriptions.
LEMMA PricesStep ==
  ASSUME Metering!CreditsInvariant,
         \/ \E k \in Aggregation : Metering!CreateMeter(k)
         \/ \E m \in DOMAIN Metering!meter :
              \/ \E s \in Source, t \in 0 .. Horizon - 1, q \in Quantity : Metering!IngestEvent(m, s, t, q)
              \/ \E p \in Metering!Period : Metering!AggregateUsage(m, p)
              \/ \E b \in Base, u \in Unit : Metering!PublishPlan(m, b, u)
         \/ \E p \in DOMAIN Metering!plan : Metering!CreateSubscription(p)
  PROVE  Metering!CreditsInvariant'
<1>. DEFINE P(r) == Prices(r.meter, r.usage, r.aggregate, r.plan, r.subscription)
            B(r) == CreditBooks(r.credit, r.invoice, r.application, r.payment)
<1>1. HasCredits(records) /\ P(records) /\ B(records)
  BY CreditsForm
<1>t. /\ records.meter \in Seq(Aggregation) /\ records.usage \in Seq(MeteredUsage)
      /\ records.aggregate \in Seq(MeteredAggregate) /\ records.plan \in Seq(MeteredPlan)
      /\ records.subscription \in Seq(DOMAIN records.plan) /\ DOMAIN records.meter \subseteq Nat
  BY <1>1, ListType DEF Prices
<1>. SUFFICES HasCredits(records') /\ P(records') /\ B(records')
  BY CreditsFormNext
<1>2. ASSUME NEW k \in Aggregation, Metering!CreateMeter(k) PROVE HasCredits(records') /\ P(records') /\ B(records')
  <2>1. /\ HasCredits(records') /\ records'.meter = Append(records.meter, k)
        /\ records'.usage = records.usage /\ records'.aggregate = records.aggregate
        /\ records'.plan = records.plan /\ records'.subscription = records.subscription
        /\ records'.credit = records.credit /\ records'.invoice = records.invoice
        /\ records'.application = records.application /\ records'.payment = records.payment
    BY <1>1, <1>2 DEF Metering!CreateMeter, Metering!meter, HasCredits
  <2>2. Append(records.meter, k) \in Seq(Aggregation)
    BY <1>t, AppendProperties
  <2>3. Prices(Append(records.meter, k), records.usage, records.aggregate, records.plan, records.subscription)
    BY <1>t, <2>2 DEF Prices
  <2>. QED BY <1>1, <2>1, <2>3
<1>3. ASSUME NEW m \in DOMAIN Metering!meter, NEW s \in Source, NEW t \in 0 .. Horizon - 1, NEW q \in Quantity,
             Metering!IngestEvent(m, s, t, q)
      PROVE  HasCredits(records') /\ P(records') /\ B(records')
  <2>. DEFINE x == [meter |-> m, source |-> s, at |-> t, quantity |-> q]
  <2>1. /\ HasCredits(records') /\ records'.usage = Append(records.usage, x)
        /\ records'.meter = records.meter /\ records'.aggregate = records.aggregate
        /\ records'.plan = records.plan /\ records'.subscription = records.subscription
        /\ records'.credit = records.credit /\ records'.invoice = records.invoice
        /\ records'.application = records.application /\ records'.payment = records.payment
    BY <1>1, <1>3 DEF Metering!IngestEvent, Metering!usage, HasCredits
  <2>2. m \in Nat /\ t \in 0 .. Horizon
    BY <1>t, MoneyAssumption DEF Metering!meter
  <2>3. x \in MeteredUsage
    BY <2>2 DEF MeteredUsage
  <2>. HIDE DEF x
  <2>4. Append(records.usage, x) \in Seq(MeteredUsage)
    BY <1>t, <2>3, AppendProperties
  <2>5. Prices(records.meter, Append(records.usage, x), records.aggregate, records.plan, records.subscription)
    BY <1>t, <2>4 DEF Prices
  <2>. QED BY <1>1, <2>1, <2>5
<1>4. ASSUME NEW m \in DOMAIN Metering!meter, NEW p \in Metering!Period, Metering!AggregateUsage(m, p)
      PROVE  HasCredits(records') /\ P(records') /\ B(records')
  <2>. DEFINE events == Metering!Within(m, p)
              x == [meter |-> m, period |-> p, events |-> events, quantity |-> Measured(records.meter, records.usage, m, events)]
  <2>1. Metering!MeterQuantity(m, events) = Measured(records.meter, records.usage, m, events)
    <3>. HIDE DEF events
    <3>. QED BY DEF Metering!MeterQuantity, Measured, QuantitySum, Metering!meter, Metering!usage, Metering!Max, Max,
           Metering!Cardinality, Cardinality, Metering!MapThenSumSet, MapThenSumSet, Metering!MapThenFoldSet, MapThenFoldSet
  <2>2. /\ events # {} /\ events \subseteq DOMAIN records.usage /\ m \in DOMAIN records.meter /\ m \in Nat
    BY <1>t, <1>4 DEF Metering!AggregateUsage, Metering!Within, Metering!usage, Metering!meter
  <2>3. events \in SUBSET Nat
    <3>1. DOMAIN records.usage \subseteq Nat
      BY <1>t, ListType
    <3>. QED BY <2>2, <3>1
  <2>4. /\ HasCredits(records') /\ records'.aggregate = Append(records.aggregate, x)
        /\ records'.meter = records.meter /\ records'.usage = records.usage
        /\ records'.plan = records.plan /\ records'.subscription = records.subscription
        /\ records'.credit = records.credit /\ records'.invoice = records.invoice
        /\ records'.application = records.application /\ records'.payment = records.payment
    BY <1>1, <1>4, <2>1 DEF Metering!AggregateUsage, Metering!aggregate, HasCredits
  <2>. HIDE DEF events
  <2>5. Measured(records.meter, records.usage, m, events) \in Nat
    BY <1>t, <2>2, MeasuredIsNumber
  <2>6. x \in MeteredAggregate
    BY <2>2, <2>3, <2>5 DEF MeteredAggregate
  <2>. HIDE DEF x
  <2>7. Append(records.aggregate, x) \in Seq(MeteredAggregate)
    BY <1>t, <2>6, AppendProperties
  <2>8. Prices(records.meter, records.usage, Append(records.aggregate, x), records.plan, records.subscription)
    BY <1>t, <2>7 DEF Prices
  <2>. QED BY <1>1, <2>4, <2>8
<1>5. ASSUME NEW m \in DOMAIN Metering!meter, NEW b \in Base, NEW u \in Unit, Metering!PublishPlan(m, b, u)
      PROVE  HasCredits(records') /\ P(records') /\ B(records')
  <2>. DEFINE x == [meter |-> m, base |-> b, unit |-> u]
              new == Append(records.plan, x)
  <2>1. /\ HasCredits(records') /\ records'.plan = new
        /\ records'.meter = records.meter /\ records'.usage = records.usage /\ records'.aggregate = records.aggregate
        /\ records'.subscription = records.subscription
        /\ records'.credit = records.credit /\ records'.invoice = records.invoice
        /\ records'.application = records.application /\ records'.payment = records.payment
    BY <1>1, <1>5 DEF Metering!PublishPlan, Metering!plan, HasCredits
  <2>2. x \in MeteredPlan
    BY <1>t DEF MeteredPlan, Metering!meter
  <2>. HIDE DEF x
  <2>3. new \in Seq(MeteredPlan) /\ DOMAIN records.plan \subseteq DOMAIN new
    BY <1>t, <2>2, AppendProperties, ListAppend
  <2>. HIDE DEF new
  <2>4. records.subscription \in Seq(DOMAIN new)
    <3>1. records.subscription \in [DOMAIN records.subscription -> DOMAIN new]
      BY <1>t, <2>3, ListType
    <3>. QED BY <1>t, <3>1, ListRetype
  <2>5. Prices(records.meter, records.usage, records.aggregate, new, records.subscription)
    BY <1>t, <2>3, <2>4 DEF Prices
  <2>. QED BY <1>1, <2>1, <2>5
<1>6. ASSUME NEW p \in DOMAIN Metering!plan, Metering!CreateSubscription(p)
      PROVE  HasCredits(records') /\ P(records') /\ B(records')
  <2>1. /\ HasCredits(records') /\ records'.subscription = Append(records.subscription, p)
        /\ records'.meter = records.meter /\ records'.usage = records.usage
        /\ records'.aggregate = records.aggregate /\ records'.plan = records.plan
        /\ records'.credit = records.credit /\ records'.invoice = records.invoice
        /\ records'.application = records.application /\ records'.payment = records.payment
    BY <1>1, <1>6 DEF Metering!CreateSubscription, Metering!subscription, HasCredits
  <2>2. Append(records.subscription, p) \in Seq(DOMAIN records.plan)
    BY <1>t, AppendProperties DEF Metering!plan
  <2>3. Prices(records.meter, records.usage, records.aggregate, records.plan, Append(records.subscription, p))
    BY <1>t, <2>2 DEF Prices
  <2>. QED BY <1>1, <2>1, <2>3
<1>. HIDE DEF P, B
<1>. QED BY <1>2, <1>3, <1>4, <1>5, <1>6

-----------------------------------------------------------------------------
(* What is applied of credits, and asked for by bills.                     *)

AppliedTo(application, c) == {a \in application : a.credit = c}
AppliedBy(application, i) == {a \in application : a.invoice = i}

\* One application more.
LEMMA AppliedAdded ==
  ASSUME NEW S, IsFiniteSet(S), \A a \in S : a.amount \in Nat, NEW x, x.amount \in Nat, x \notin S
  PROVE  AppliedSum(S \cup {x}) = AppliedSum(S) + x.amount /\ AppliedSum(S) \in Nat
<1>. DEFINE f == [a \in S \cup {x} |-> a.amount]
            Q == S \cup {x}
<1>1. (\A a \in Q : f[a] = a.amount /\ f[a] \in Nat /\ f[a] \in Int) /\ f[x] = x.amount
  OBVIOUS
<1>2. IsFiniteSet(Q) /\ x \in Q /\ Q \ {x} = S /\ S \subseteq Q
  BY FS_AddElement
<1>. HIDE DEF f, Q
<1>3. AppliedSum(Q) = SumOver(f, Q) /\ AppliedSum(S) = SumOver(f, S)
  BY <1>1, <1>2, AppliedIsSum
<1>4. SumOver(f, Q) = f[x] + SumOver(f, S)
  BY <1>1, <1>2, SumRemove
<1>5. SumOver(f, S) \in Nat
  BY <1>1, <1>2, SumNat
<1>6. AppliedSum(Q) = AppliedSum(S) + x.amount
  <2>1. \A a, b \in Nat : a + b = b + a
    OBVIOUS
  <2>. QED BY <1>1, <1>3, <1>4, <1>5, <2>1
<1>. QED BY <1>3, <1>5, <1>6 DEF Q

LEMMA AppliedNone == AppliedSum({}) = 0
<1>1. AppliedSum({}) = SumOver([a \in {} |-> 0], {})
  BY AppliedIsSum
<1>. QED BY <1>1, SumEmpty

\* What an invoice applies is what it had allocated.
Application(t, i, c)  == [credit |-> c, invoice |-> i, amount |-> t[c]]
Applications(t, i, S) == {Application(t, i, c) : c \in S}

LEMMA AppliedIsAllocated ==
  ASSUME NEW D, IsFiniteSet(D), NEW t \in [D -> Nat], NEW i
  PROVE  AppliedSum(Applications(t, i, D)) = SumOver(t, D) /\ IsFiniteSet(Applications(t, i, D))
<1>. DEFINE Bad == {T \in SUBSET D : ~(AppliedSum(Applications(t, i, T)) = SumOver(t, T) /\ IsFiniteSet(Applications(t, i, T)))}
<1>1. SUFFICES ASSUME Bad # {} PROVE FALSE
  OBVIOUS
<1>2. PICK T \in Bad : \A y \in T : T \ {y} \notin Bad
  <2>1. Bad \in SUBSET SUBSET D
    OBVIOUS
  <2>. HIDE DEF Bad
  <2>. QED BY <1>1, <2>1, MinimalSet
<1>3. PICK y \in T : TRUE
  <2>1. Applications(t, i, {}) = {}
    BY DEF Applications
  <2>. QED BY <1>2, <2>1, AppliedNone, SumEmpty, FS_EmptySet
<1>. DEFINE S == T \ {y}
            A == Applications(t, i, S)
            x == Application(t, i, y)
<1>4. /\ AppliedSum(A) = SumOver(t, S) /\ IsFiniteSet(A) /\ IsFiniteSet(T) /\ y \in D /\ S \subseteq D /\ T \subseteq D
      /\ ~(AppliedSum(Applications(t, i, T)) = SumOver(t, T) /\ IsFiniteSet(Applications(t, i, T)))
  BY <1>2, <1>3, FS_Subset
<1>. HIDE DEF Bad
<1>5. Applications(t, i, T) = A \cup {x}
  <2>1. T = S \cup {y}
    BY <1>3
  <2>. HIDE DEF S
  <2>2. \A z : (\E c \in S \cup {y} : z = Application(t, i, c)) <=> (\E c \in S : z = Application(t, i, c)) \/ z = Application(t, i, y)
    OBVIOUS
  <2>3. Applications(t, i, S \cup {y}) = Applications(t, i, S) \cup {Application(t, i, y)}
    BY <2>2 DEF Applications
  <2>. QED BY <2>1, <2>3
<1>6. x \notin A /\ x.amount = t[y] /\ t[y] \in Nat /\ \A a \in A : a.amount \in Nat
  <2>1. \A c : Application(t, i, c).credit = c /\ Application(t, i, c).amount = t[c]
    BY DEF Application
  <2>2. y \notin S /\ \A c \in S : t[c] \in Nat
    BY <1>4
  <2>3. \A a \in A : \E c \in S : a = Application(t, i, c)
    BY DEF Applications
  <2>. HIDE DEF S, A
  <2>. QED BY <1>4, <2>1, <2>2, <2>3
<1>7. SumOver(t, T) = t[y] + SumOver(t, S) /\ SumOver(t, S) \in Int
  <2>1. \A c \in T : t[c] \in Int
    BY <1>4
  <2>. QED BY <1>3, <1>4, <2>1, SumRemove
<1>. HIDE DEF A, x, S
<1>8. AppliedSum(A \cup {x}) = AppliedSum(A) + x.amount
  BY <1>4, <1>6, AppliedAdded
<1>9. IsFiniteSet(A \cup {x})
  BY <1>4, FS_AddElement
<1>. QED BY <1>4, <1>5, <1>6, <1>7, <1>8, <1>9

\* A credit granted is whole, and applied to nothing yet.
LEMMA CreditGranted ==
  ASSUME NEW credit, NEW invoice, NEW application, NEW payment, CreditBooks(credit, invoice, application, payment),
         NEW x \in GrantedCredit, x.remaining = x.amount
  PROVE  CreditBooks(Append(credit, x), invoice, application, payment)
<1>. DEFINE new == Append(credit, x)
            n   == Len(credit) + 1
<1>1. CreditTypes(credit, invoice, application, payment) /\ credit \in Seq(GrantedCredit)
  BY DEF CreditBooks, CreditTypes
<1>2. /\ DOMAIN new = DOMAIN credit \cup {n} /\ (\A c \in DOMAIN credit : new[c] = credit[c]) /\ new[n] = x
      /\ n \notin DOMAIN credit /\ new \in Seq(GrantedCredit)
  BY <1>1, ListAppend, ListType, AppendProperties
<1>. HIDE DEF new, n
<1>3. ApplicationTo(credit, invoice) \subseteq ApplicationTo(new, invoice)
  BY <1>2 DEF ApplicationTo
<1>4. CreditTypes(new, invoice, application, payment)
  BY <1>1, <1>2, <1>3 DEF CreditTypes
<1>5. \A i \in DOMAIN invoice : Allocating(new, invoice[i])
  BY <1>2 DEF CreditBooks, Allocating
<1>6. ASSUME NEW c \in DOMAIN credit PROVE Balanced(new, application, c)
  <2>1. Balanced(credit, application, c) /\ new[c] = credit[c]
    BY <1>2, <1>6 DEF CreditBooks
  <2>. QED BY <2>1 DEF Balanced
<1>7. Balanced(new, application, n)
  <2>1. {a \in application : a.credit = n} = {}
    BY <1>1, <1>2 DEF CreditTypes, ApplicationTo
  <2>2. x.remaining \in Nat /\ x.remaining >= 0 /\ x.remaining = x.amount - 0
    BY DEF GrantedCredit
  <2>3. AppliedSum({a \in application : a.credit = n}) = 0
    BY <2>1, AppliedNone
  <2>. QED BY <1>2, <2>2, <2>3 DEF Balanced
<1>8. \A c \in DOMAIN new : Balanced(new, application, c)
  BY <1>2, <1>6, <1>7
<1>9. CreditBooks(new, invoice, application, payment)
  BY <1>4, <1>5, <1>8 DEF CreditBooks
<1>. QED BY <1>9 DEF new

\* A draft, of credits it takes nothing from yet.
LEMMA CreditDrafted ==
  ASSUME NEW credit, NEW invoice, NEW application, NEW payment, CreditBooks(credit, invoice, application, payment),
         NEW v, v \in MeteredBill({v.allocations}), v.state = "draft", Allocating(credit, v)
  PROVE  CreditBooks(credit, Append(invoice, v), application, payment)
<1>. DEFINE A   == AllocationsOf(invoice)
            new == Append(invoice, v)
            B   == AllocationsOf(new)
            n   == Len(invoice) + 1
<1>1. CreditTypes(credit, invoice, application, payment) /\ invoice \in Seq(MeteredBill(A))
  BY DEF CreditBooks, CreditTypes
<1>2. /\ DOMAIN new = DOMAIN invoice \cup {n} /\ (\A i \in DOMAIN invoice : new[i] = invoice[i]) /\ new[n] = v
      /\ n \notin DOMAIN invoice /\ new \in Seq(MeteredBill(A) \cup {v})
      /\ \A i \in DOMAIN invoice : invoice[i] \in MeteredBill(A)
  BY <1>1, ListAppend, ListType
<1>. HIDE DEF new, n
<1>3. A \subseteq B /\ v.allocations \in B
  BY <1>2 DEF AllocationsOf
<1>. HIDE DEF A, B
<1>4. new \in Seq(MeteredBill(B))
  <2>1. MeteredBill(A) \subseteq MeteredBill(B) /\ v \in MeteredBill(B)
    BY <1>3 DEF MeteredBill
  <2>2. DOMAIN new = DOMAIN new /\ new \in [DOMAIN new -> MeteredBill(A) \cup {v}]
    BY <1>2, ListType
  <2>3. new \in [DOMAIN new -> MeteredBill(B)]
    BY <2>1, <2>2
  <2>. QED BY <1>2, <2>3, ListRetype
<1>5. IssuedOf(new) = IssuedOf(invoice)
  BY <1>2 DEF IssuedOf
<1>6. payment \in Seq(ReceiptFor(new))
  <2>1. payment \in Seq(ReceiptFor(invoice))
    BY <1>1 DEF CreditTypes
  <2>2. ReceiptFor(invoice) \subseteq ReceiptFor(new)
    BY <1>2 DEF ReceiptFor
  <2>3. payment \in [DOMAIN payment -> ReceiptFor(new)]
    <3>1. payment \in [DOMAIN payment -> ReceiptFor(invoice)]
      BY <2>1, ListType
    <3>. QED BY <2>2, <3>1
  <2>. QED BY <2>1, <2>3, ListRetype
<1>7. CreditTypes(credit, new, application, payment)
  BY <1>1, <1>4, <1>5, <1>6 DEF CreditTypes, ApplicationTo, B
<1>8. \A i \in DOMAIN new : Allocating(credit, new[i])
  BY <1>2 DEF CreditBooks
<1>9. ASSUME NEW p \in DOMAIN payment PROVE new[payment[p].invoice].state = "paid"
  <2>1. payment[p].invoice \in DOMAIN invoice
    <3>1. payment \in [DOMAIN payment -> ReceiptFor(invoice)]
      BY <1>1, ListType DEF CreditTypes
    <3>. QED BY <1>9, <3>1 DEF ReceiptFor
  <2>. QED BY <1>2, <1>9, <2>1 DEF CreditBooks
<1>10. ASSUME NEW i \in DOMAIN new, new[i].state # "draft" PROVE Collected(new, application, payment, i)
  <2>1. i \in DOMAIN invoice /\ new[i] = invoice[i]
    BY <1>2, <1>10
  <2>2. Collected(invoice, application, payment, i)
    BY <1>10, <2>1 DEF CreditBooks
  <2>. QED BY <2>1, <2>2 DEF Collected
<1>11. CreditBooks(credit, new, application, payment)
  BY <1>7, <1>8, <1>9, <1>10 DEF CreditBooks
<1>. QED BY <1>11 DEF new

\* A payment, of all that a final invoice asks for.
BillAs(v, st) == [v EXCEPT !.state = st]

\* An invoice in another state has the allocations it had.
LEMMA BillRestated ==
  ASSUME NEW invoice, invoice \in Seq(MeteredBill(AllocationsOf(invoice))), NEW i \in DOMAIN invoice,
         NEW st \in {"draft", "final", "paid"}, NEW new, OneChanged(new, invoice, i, BillAs(invoice[i], st))
  PROVE  /\ new \in Seq(MeteredBill(AllocationsOf(new))) /\ DOMAIN new = DOMAIN invoice
         /\ \A j \in DOMAIN invoice : j # i => new[j] = invoice[j]
         /\ \A j \in DOMAIN invoice : /\ new[j].allocations = invoice[j].allocations /\ new[j].total = invoice[j].total
                                      /\ new[j].subtotal = invoice[j].subtotal
         /\ new[i].state = st
<1>. DEFINE A == AllocationsOf(invoice)
            v == BillAs(invoice[i], st)
<1>1. invoice[i] \in MeteredBill(A)
  BY ListType
<1>2. /\ v \in MeteredBill(A) /\ v.state = st /\ v.allocations = invoice[i].allocations
      /\ v.total = invoice[i].total /\ v.subtotal = invoice[i].subtotal
  BY <1>1 DEF MeteredBill, BillAs
<1>. HIDE DEF v, A
<1>3. /\ new \in Seq(MeteredBill(A)) /\ DOMAIN new = DOMAIN invoice
      /\ new[i] = v /\ \A j \in DOMAIN invoice : j # i => new[j] = invoice[j]
  BY <1>2, ListChange DEF v, A
<1>4. \A j \in DOMAIN invoice : /\ new[j].allocations = invoice[j].allocations /\ new[j].total = invoice[j].total
                                /\ new[j].subtotal = invoice[j].subtotal
  BY <1>2, <1>3
<1>5. AllocationsOf(new) = A
  BY <1>3, <1>4 DEF AllocationsOf, A
<1>. QED BY <1>2, <1>3, <1>4, <1>5

LEMMA CreditPaid ==
  ASSUME NEW credit, NEW invoice, NEW application, NEW payment, CreditBooks(credit, invoice, application, payment),
         NEW i \in DOMAIN invoice, invoice[i].state = "final", NEW receipt \in PaymentReceipt,
         NEW new, OneChanged(new, invoice, i, BillAs(invoice[i], "paid"))
  PROVE  CreditBooks(credit, new, application, Append(payment, [invoice |-> i, receipt |-> receipt, amount |-> invoice[i].total]))
<1>. DEFINE A    == AllocationsOf(invoice)
            x    == [invoice |-> i, receipt |-> receipt, amount |-> invoice[i].total]
            more == Append(payment, x)
            n    == Len(payment) + 1
<1>1. CreditTypes(credit, invoice, application, payment) /\ invoice \in Seq(MeteredBill(A))
  BY DEF CreditBooks, CreditTypes
<1>2. /\ new \in Seq(MeteredBill(AllocationsOf(new))) /\ DOMAIN new = DOMAIN invoice
      /\ \A j \in DOMAIN invoice : j # i => new[j] = invoice[j]
      /\ \A j \in DOMAIN invoice : /\ new[j].allocations = invoice[j].allocations /\ new[j].total = invoice[j].total
                                   /\ new[j].subtotal = invoice[j].subtotal
      /\ new[i].state = "paid"
  BY <1>1, BillRestated
<1>3. payment \in Seq(ReceiptFor(invoice)) /\ ReceiptFor(new) = ReceiptFor(invoice)
  BY <1>1, <1>2 DEF CreditTypes, ReceiptFor
<1>4. /\ DOMAIN more = DOMAIN payment \cup {n} /\ (\A p \in DOMAIN payment : more[p] = payment[p]) /\ more[n] = x
      /\ n \notin DOMAIN payment /\ \A p \in DOMAIN payment : payment[p] \in ReceiptFor(invoice)
  BY <1>3, ListAppend, ListType
<1>5. more \in Seq(ReceiptFor(new))
  <2>1. invoice[i] \in MeteredBill(A)
    BY <1>1, ListType
  <2>2. x \in ReceiptFor(new)
    BY <1>2, <2>1 DEF ReceiptFor, MeteredBill
  <2>. HIDE DEF x
  <2>. QED BY <1>3, <2>2, AppendProperties
<1>6. x.invoice = i /\ x.amount = invoice[i].total
  OBVIOUS
<1>. HIDE DEF x, more, n, A
<1>7. IssuedOf(new) = IssuedOf(invoice)
  BY <1>2 DEF IssuedOf
<1>8. CreditTypes(credit, new, application, more)
  BY <1>1, <1>2, <1>5, <1>7 DEF CreditTypes, ApplicationTo
<1>9. ASSUME NEW j \in DOMAIN new PROVE Allocating(credit, new[j])
  <2>1. Allocating(credit, invoice[j])
    BY <1>2, <1>9 DEF CreditBooks
  <2>. QED BY <1>2, <1>9, <2>1 DEF Allocating
<1>10. ASSUME NEW p \in DOMAIN more PROVE new[more[p].invoice].state = "paid"
  <2>1. CASE p = n
    BY <1>2, <1>4, <1>6, <2>1
  <2>2. CASE p \in DOMAIN payment
    <3>1. payment[p].invoice \in DOMAIN invoice /\ invoice[payment[p].invoice].state = "paid"
      BY <1>4, <2>2 DEF CreditBooks, ReceiptFor
    <3>. QED BY <1>2, <1>4, <2>2, <3>1
  <2>. QED BY <1>4, <1>10, <2>1, <2>2
<1>11. ASSUME NEW j \in DOMAIN new, new[j].state # "draft" PROVE Collected(new, application, more, j)
  <2>1. CASE j = i
    <3>1. Collected(invoice, application, payment, i)
      BY DEF CreditBooks
    <3>2. PaidOn(payment, i) = {}
      BY DEF CreditBooks, PaidOn
    <3>3. PaidOn(more, i) = {n}
      BY <1>4, <1>6, <3>2 DEF PaidOn
    <3>4. {more[p].amount : p \in PaidOn(more, i)} = {new[i].total}
      BY <1>2, <1>4, <1>6, <3>3
    <3>. QED BY <1>2, <2>1, <3>1, <3>4 DEF Collected
  <2>2. CASE j # i
    <3>1. new[j] = invoice[j] /\ j \in DOMAIN invoice
      BY <1>2, <1>11, <2>2
    <3>2. Collected(invoice, application, payment, j)
      BY <1>11, <3>1 DEF CreditBooks
    <3>3. PaidOn(more, j) = PaidOn(payment, j) /\ \A p \in PaidOn(payment, j) : more[p] = payment[p]
      BY <1>4, <1>6, <2>2 DEF PaidOn
    <3>4. {more[p].amount : p \in PaidOn(more, j)} = {payment[p].amount : p \in PaidOn(payment, j)}
      BY <3>3
    <3>. QED BY <3>1, <3>2, <3>4 DEF Collected
  <2>. QED BY <2>1, <2>2
<1>12. CreditBooks(credit, new, application, more)
  BY <1>8, <1>9, <1>10, <1>11 DEF CreditBooks
<1>. QED BY <1>12 DEF more, x

\* A final invoice takes from each credit what it had allocated of it.
Using(new, credit, t) ==
  new = [c \in DOMAIN credit |-> IF c \in DOMAIN t THEN [credit[c] EXCEPT !.remaining = @ - t[c]] ELSE credit[c]]

LEMMA CreditsUsed ==
  ASSUME NEW credit \in Seq(GrantedCredit), NEW t, t \in [DOMAIN t -> Nat],
         DOMAIN t \subseteq DOMAIN credit, \A c \in DOMAIN t : credit[c].remaining >= t[c],
         NEW new, Using(new, credit, t)
  PROVE  /\ new \in Seq(GrantedCredit) /\ DOMAIN new = DOMAIN credit
         /\ \A c \in DOMAIN credit : /\ new[c].amount = credit[c].amount /\ credit[c].amount \in Nat
                                     /\ credit[c].remaining \in Nat /\ new[c].remaining \in Nat
         /\ \A c \in DOMAIN t : new[c].remaining = credit[c].remaining - t[c]
         /\ \A c \in DOMAIN credit : c \notin DOMAIN t => new[c] = credit[c]
<1>1. \A c \in DOMAIN credit : credit[c] \in GrantedCredit
  BY ListType
<1>2. DOMAIN new = DOMAIN credit /\ \A c \in DOMAIN credit : c \notin DOMAIN t => new[c] = credit[c]
  BY DEF Using
<1>3. ASSUME NEW c \in DOMAIN t
      PROVE  new[c] \in GrantedCredit /\ new[c].remaining = credit[c].remaining - t[c] /\ new[c].amount = credit[c].amount
  <2>. DEFINE rest == credit[c].remaining - t[c]
  <2>1. credit[c] \in GrantedCredit /\ c \in DOMAIN credit
    BY <1>1
  <2>2. rest \in Nat
    BY <2>1 DEF GrantedCredit
  <2>3. new[c] = [credit[c] EXCEPT !.remaining = rest]
    BY <2>1 DEF Using
  <2>. HIDE DEF rest
  <2>4. new[c] \in GrantedCredit /\ new[c].remaining = rest /\ new[c].amount = credit[c].amount
    BY <2>1, <2>2, <2>3 DEF GrantedCredit
  <2>. QED BY <2>4 DEF rest
<1>4. \A c \in DOMAIN credit : new[c] \in GrantedCredit /\ new[c].amount = credit[c].amount
  BY <1>1, <1>2, <1>3
<1>5. \A c \in DOMAIN credit : credit[c].amount \in Nat /\ credit[c].remaining \in Nat /\ new[c].remaining \in Nat
  BY <1>1, <1>4, MoneyAssumption DEF GrantedCredit
<1>6. new \in [DOMAIN credit -> GrantedCredit]
  BY <1>2, <1>4 DEF Using
<1>7. new \in Seq(GrantedCredit)
  BY <1>2, <1>6, ListRetype
<1>. QED BY <1>2, <1>3, <1>4, <1>5, <1>7

AllocatedBy(t, invoice, i) == t = invoice[i].allocations

LEMMA CreditFinalized ==
  ASSUME NEW credit, NEW invoice, NEW application, NEW payment, CreditBooks(credit, invoice, application, payment),
         NEW i \in DOMAIN invoice, invoice[i].state = "draft", NEW t, AllocatedBy(t, invoice, i),
         \A c \in DOMAIN t : credit[c].remaining >= t[c],
         NEW used, Using(used, credit, t),
         NEW new, OneChanged(new, invoice, i, BillAs(invoice[i], "final"))
  PROVE  CreditBooks(used, new, application \cup Applications(t, i, DOMAIN t), payment)
<1>. DEFINE D   == DOMAIN t
            app == Applications(t, i, D)
            all == application \cup app
<1>1. /\ CreditTypes(credit, invoice, application, payment) /\ invoice \in Seq(MeteredBill(AllocationsOf(invoice)))
      /\ credit \in Seq(GrantedCredit) /\ payment \in Seq(ReceiptFor(invoice))
      /\ application \in SUBSET ApplicationTo(credit, invoice) /\ IsFiniteSet(application)
  BY DEF CreditBooks, CreditTypes
<1>2. /\ new \in Seq(MeteredBill(AllocationsOf(new))) /\ DOMAIN new = DOMAIN invoice
      /\ \A j \in DOMAIN invoice : j # i => new[j] = invoice[j]
      /\ \A j \in DOMAIN invoice : /\ new[j].allocations = invoice[j].allocations /\ new[j].total = invoice[j].total
                                   /\ new[j].subtotal = invoice[j].subtotal
      /\ new[i].state = "final"
  BY <1>1, BillRestated
<1>3. Allocating(credit, invoice[i])
  BY DEF CreditBooks
<1>4. /\ t \in [D -> Nat] /\ D \subseteq DOMAIN credit /\ IsFiniteSet(D)
      /\ invoice[i].total + SumOver(t, D) = invoice[i].subtotal
  <2>1. t \in [D -> Nat] /\ D \subseteq DOMAIN credit /\ invoice[i].total + SumOver(t, D) = invoice[i].subtotal
    BY <1>3 DEF Allocating, AllocatedBy
  <2>2. IsFiniteSet(DOMAIN credit)
    BY <1>1, ListType
  <2>. QED BY <2>1, <2>2, FS_Subset
<1>5. /\ used \in Seq(GrantedCredit) /\ DOMAIN used = DOMAIN credit
      /\ \A c \in DOMAIN credit : /\ used[c].amount = credit[c].amount /\ credit[c].amount \in Nat
                                  /\ credit[c].remaining \in Nat /\ used[c].remaining \in Nat
      /\ \A c \in DOMAIN t : used[c].remaining = credit[c].remaining - t[c]
      /\ \A c \in DOMAIN credit : c \notin DOMAIN t => used[c] = credit[c]
  BY <1>1, <1>4, CreditsUsed
<1>6. \A c : /\ Application(t, i, c).credit = c /\ Application(t, i, c).invoice = i /\ Application(t, i, c).amount = t[c]
             /\ Application(t, i, c) = [credit |-> c, invoice |-> i, amount |-> t[c]]
  BY DEF Application
<1>7. /\ \A a \in app : \E c \in D : a = Application(t, i, c)
      /\ \A c \in D : Application(t, i, c) \in app
  BY DEF Applications
<1>8. AppliedSum(app) = SumOver(t, D) /\ IsFiniteSet(app)
  BY <1>4, AppliedIsAllocated
<1>9. IsFiniteSet(all)
  BY <1>1, <1>8, FS_Union
<1>10. IssuedOf(new) = IssuedOf(invoice) \cup {i} /\ i \notin IssuedOf(invoice)
  BY <1>2 DEF IssuedOf
<1>. HIDE DEF D, app
<1>11. application \subseteq ApplicationTo(used, new) /\ app \subseteq ApplicationTo(used, new)
  <2>1. application \subseteq ApplicationTo(used, new)
    BY <1>1, <1>5, <1>10 DEF ApplicationTo
  <2>2. ASSUME NEW c \in D PROVE Application(t, i, c) \in ApplicationTo(used, new)
    <3>1. c \in DOMAIN used /\ i \in IssuedOf(new) /\ t[c] \in Nat
      BY <1>4, <1>5, <1>10, <2>2
    <3>. QED BY <3>1 DEF ApplicationTo, Application
  <2>. QED BY <1>7, <2>1, <2>2
<1>12. \A a \in application : a.credit \in DOMAIN credit /\ a.invoice # i /\ a.amount \in Nat
  BY <1>1, <1>10 DEF ApplicationTo
<1>13. CreditTypes(used, new, all, payment)
  <2>1. ReceiptFor(new) = ReceiptFor(invoice)
    BY <1>2 DEF ReceiptFor
  <2>. QED BY <1>1, <1>2, <1>5, <1>9, <1>11, <2>1 DEF CreditTypes
<1>14. ASSUME NEW j \in DOMAIN new PROVE Allocating(used, new[j])
  <2>1. Allocating(credit, invoice[j])
    BY <1>2, <1>14 DEF CreditBooks
  <2>. QED BY <1>2, <1>5, <1>14, <2>1 DEF Allocating
<1>15. ASSUME NEW p \in DOMAIN payment PROVE new[payment[p].invoice].state = "paid"
  <2>1. payment[p].invoice \in DOMAIN invoice /\ invoice[payment[p].invoice].state = "paid"
    <3>1. payment[p] \in ReceiptFor(invoice)
      BY <1>1, <1>15, ListType
    <3>. QED BY <1>15, <3>1 DEF ReceiptFor, CreditBooks
  <2>. QED BY <1>2, <2>1
<1>16. ASSUME NEW c \in DOMAIN used PROVE Balanced(used, all, c)
  <2>. DEFINE old == {a \in application : a.credit = c}
  <2>1. Balanced(credit, application, c) /\ c \in DOMAIN credit
    BY <1>5, <1>16 DEF CreditBooks
  <2>2. credit[c].remaining = credit[c].amount - AppliedSum(old)
    BY <2>1 DEF Balanced
  <2>3. CASE c \notin D
    <3>1. {a \in all : a.credit = c} = old
      BY <1>6, <1>7, <2>3
    <3>2. used[c] = credit[c]
      BY <1>5, <2>1, <2>3 DEF D
    <3>. QED BY <2>1, <3>1, <3>2 DEF Balanced
  <2>4. CASE c \in D
    <3>. DEFINE x == Application(t, i, c)
    <3>1. {a \in all : a.credit = c} = old \cup {x}
      BY <1>6, <1>7, <2>4
    <3>2. x \notin old /\ x.amount = t[c] /\ t[c] \in Nat
      BY <1>4, <1>6, <1>12, <2>4
    <3>3. IsFiniteSet(old) /\ \A a \in old : a.amount \in Nat
      BY <1>1, <1>12, FS_Subset
    <3>. HIDE DEF x, old
    <3>4. AppliedSum(old \cup {x}) = AppliedSum(old) + t[c] /\ AppliedSum(old) \in Nat
      BY <3>2, <3>3, AppliedAdded
    <3>5. used[c].remaining = credit[c].remaining - t[c]
      BY <1>5, <2>4 DEF D
    <3>6. used[c].amount \in Nat /\ used[c].remaining \in Nat /\ used[c].amount = credit[c].amount
      BY <1>5, <2>1
    <3>7. used[c].remaining = used[c].amount - (AppliedSum(old) + t[c])
      BY <2>2, <3>2, <3>4, <3>5, <3>6
    <3>8. AppliedSum({a \in all : a.credit = c}) = AppliedSum(old) + t[c]
      BY <3>1, <3>4
    <3>. QED BY <3>6, <3>7, <3>8 DEF Balanced
  <2>. QED BY <2>3, <2>4
<1>17. ASSUME NEW j \in DOMAIN new, new[j].state # "draft" PROVE Collected(new, all, payment, j)
  <2>1. CASE j = i
    <3>1. {a \in all : a.invoice = i} = app
      BY <1>6, <1>7, <1>12
    <3>2. invoice[i].total \in Nat /\ invoice[i].subtotal \in Nat
      <4>1. invoice[i] \in MeteredBill(AllocationsOf(invoice))
        BY <1>1, ListType
      <4>. QED BY <4>1 DEF MeteredBill
    <3>3. SumOver(t, D) \in Nat
      BY <1>4, SumNat
    <3>4. new[i].total = new[i].subtotal - AppliedSum({a \in all : a.invoice = i}) /\ new[i].total >= 0
      <4>1. AppliedSum({a \in all : a.invoice = i}) = SumOver(t, D)
        BY <1>8, <3>1
      <4>2. new[i].total = invoice[i].total /\ new[i].subtotal = invoice[i].subtotal
        BY <1>2
      <4>3. invoice[i].total = invoice[i].subtotal - SumOver(t, D) /\ invoice[i].total >= 0
        BY <1>4, <3>2, <3>3
      <4>. QED BY <4>1, <4>2, <4>3
    <3>5. PaidOn(payment, i) = {}
      BY DEF CreditBooks, PaidOn
    <3>6. {payment[p].amount : p \in PaidOn(payment, i)} = {}
      BY <3>5
    <3>. QED BY <1>2, <2>1, <3>4, <3>6 DEF Collected
  <2>2. CASE j # i
    <3>1. new[j] = invoice[j] /\ j \in DOMAIN invoice
      BY <1>2, <1>17, <2>2
    <3>2. Collected(invoice, application, payment, j)
      BY <1>17, <3>1 DEF CreditBooks
    <3>3. {a \in all : a.invoice = j} = {a \in application : a.invoice = j}
      BY <1>6, <1>7, <2>2
    <3>. QED BY <3>1, <3>2, <3>3 DEF Collected
  <2>. QED BY <2>1, <2>2
<1>18. CreditBooks(used, new, all, payment)
  BY <1>13, <1>14, <1>15, <1>16, <1>17 DEF CreditBooks
<1>. QED BY <1>18 DEF all, app, D

LEMMA CreditsInit == Metering!Init => Metering!CreditsInvariant
<1>. SUFFICES ASSUME Metering!Init PROVE Metering!CreditsInvariant
  OBVIOUS
<1>1. /\ HasCredits(records) /\ records.meter = <<>> /\ records.usage = <<>> /\ records.aggregate = <<>>
      /\ records.plan = <<>> /\ records.subscription = <<>> /\ records.credit = <<>> /\ records.invoice = <<>>
      /\ records.application = {} /\ records.payment = <<>>
  BY DEF Metering!Init, HasCredits
<1>2. Prices(<<>>, <<>>, <<>>, <<>>, <<>>)
  BY DEF Prices
<1>3. CreditTypes(<<>>, <<>>, {}, <<>>)
  BY FS_EmptySet DEF CreditTypes
<1>4. CreditBooks(<<>>, <<>>, {}, <<>>)
  BY <1>3 DEF CreditBooks
<1>. QED BY <1>1, <1>2, <1>4, CreditsForm

\* The credits an invoice allocates, within its charge.
Open(credit, s)    == {c \in DOMAIN credit : credit[c].subscription = s /\ credit[c].remaining > 0}
RemainingOf(credit) == [c \in DOMAIN credit |-> credit[c].remaining]

LEMMA AllocationsTaken ==
  ASSUME NEW s, NEW charge
  PROVE  Metering!Allocations(s, charge) = Taken(RemainingOf(records.credit), Open(records.credit, s), charge)
<1>. DEFINE credit == records.credit
            open   == Open(credit, s)
            R      == RemainingOf(credit)
            sum(c) == RemainingSum(credit, {d \in open : d < c})
<1>1. Metering!Allocations(s, charge) = [c \in {d \in open : sum(d) < charge} |-> Min({credit[c].remaining, charge - sum(c)})]
  BY DEF Metering!Allocations, Metering!credit, Open, RemainingSum, Metering!Min, Min,
         Metering!MapThenSumSet, MapThenSumSet, Metering!MapThenFoldSet, MapThenFoldSet
<1>2. open \subseteq DOMAIN credit /\ \A c \in DOMAIN credit : R[c] = credit[c].remaining
  BY DEF Open, RemainingOf
<1>3. \A c : sum(c) = Before(R, open, c)
  <2>. SUFFICES ASSUME NEW c PROVE sum(c) = Before(R, open, c)
    OBVIOUS
  <2>. DEFINE S == {d \in open : d < c}
  <2>1. \A d \in S : R[d] = credit[d].remaining
    BY <1>2
  <2>. HIDE DEF S, R, open, credit
  <2>2. RemainingSum(credit, S) = SumOver(R, S)
    BY <2>1, RemainingIsSum
  <2>. QED BY <2>2 DEF S, Before
<1>. HIDE DEF sum, R, open, credit
<1>4. {d \in open : sum(d) < charge} = {d \in open : Before(R, open, d) < charge}
  BY <1>3
<1>5. \A c \in open : Min({credit[c].remaining, charge - sum(c)}) = Min({R[c], charge - Before(R, open, c)})
  BY <1>2, <1>3
<1>6. Metering!Allocations(s, charge) = Taken(R, open, charge)
  BY <1>1, <1>4, <1>5 DEF Taken
<1>. QED BY <1>6 DEF R, open, credit

LEMMA CreditsStep ==
  ASSUME Metering!CreditsInvariant, Metering!Next
  PROVE  Metering!CreditsInvariant'
<1>. DEFINE P(r) == Prices(r.meter, r.usage, r.aggregate, r.plan, r.subscription)
            B(r) == CreditBooks(r.credit, r.invoice, r.application, r.payment)
            credit == records.credit
            invoice == records.invoice
<1>1. HasCredits(records) /\ P(records) /\ B(records)
  BY CreditsForm
<1>t. /\ records.aggregate \in Seq(MeteredAggregate) /\ records.plan \in Seq(MeteredPlan)
      /\ records.subscription \in Seq(DOMAIN records.plan) /\ DOMAIN records.subscription \subseteq Nat
      /\ credit \in Seq(GrantedCredit) /\ invoice \in Seq(MeteredBill(AllocationsOf(invoice)))
  BY <1>1, ListType DEF Prices, CreditBooks, CreditTypes
<1>2. ASSUME NEW s \in DOMAIN Metering!subscription, NEW a \in Credit, NEW r \in PaymentReceipt, Metering!GrantCredit(s, a, r)
      PROVE  Metering!CreditsInvariant'
  <2>. DEFINE x == [subscription |-> s, amount |-> a, remaining |-> a, receipt |-> r]
  <2>1. /\ HasCredits(records') /\ records'.credit = Append(credit, x)
        /\ records'.meter = records.meter /\ records'.usage = records.usage
        /\ records'.aggregate = records.aggregate /\ records'.plan = records.plan
        /\ records'.subscription = records.subscription /\ records'.invoice = invoice
        /\ records'.application = records.application /\ records'.payment = records.payment
    BY <1>1, <1>2 DEF Metering!GrantCredit, Metering!credit, HasCredits
  <2>2. s \in Nat /\ a \in Nat
    BY <1>t, MoneyAssumption DEF Metering!subscription
  <2>3. x \in GrantedCredit /\ x.remaining = x.amount
    BY <2>2 DEF GrantedCredit
  <2>. HIDE DEF x
  <2>4. CreditBooks(Append(credit, x), invoice, records.application, records.payment)
    BY <1>1, <2>3, CreditGranted
  <2>. HIDE DEF credit, invoice
  <2>. QED BY <1>1, <2>1, <2>4, CreditsFormNext
<1>3. ASSUME NEW s \in DOMAIN Metering!subscription, NEW S \in SUBSET DOMAIN Metering!aggregate,
             NEW p \in Metering!Period, Metering!DraftInvoice(s, S, p)
      PROVE  Metering!CreditsInvariant'
  <2>. DEFINE charge == Metering!Charge(Metering!subscription[s], S)
              taken  == Metering!Allocations(s, charge)
              v == [subscription |-> s, period |-> p, aggregates |-> S, subtotal |-> charge,
                    allocations |-> taken, total |-> charge - Metering!AllocatedOf(taken), state |-> "draft"]
  <2>1. /\ HasCredits(records') /\ records'.invoice = Append(invoice, v)
        /\ records'.meter = records.meter /\ records'.usage = records.usage
        /\ records'.aggregate = records.aggregate /\ records'.plan = records.plan
        /\ records'.subscription = records.subscription /\ records'.credit = credit
        /\ records'.application = records.application /\ records'.payment = records.payment
    BY <1>1, <1>3 DEF Metering!DraftInvoice, Metering!invoice, HasCredits
  <2>2. charge \in Nat
    <3>. DEFINE k == records.subscription[s]
                f == [a \in S |-> records.aggregate[a].quantity]
    <3>1. /\ S \subseteq DOMAIN records.aggregate /\ IsFiniteSet(S) /\ s \in DOMAIN records.subscription
          /\ k \in DOMAIN records.plan /\ records.plan[k] \in MeteredPlan
          /\ \A a \in S : records.aggregate[a] \in MeteredAggregate
      <4>1. S \subseteq DOMAIN records.aggregate /\ s \in DOMAIN records.subscription
        BY DEF Metering!aggregate, Metering!subscription
      <4>2. IsFiniteSet(DOMAIN records.aggregate) /\ \A a \in DOMAIN records.aggregate : records.aggregate[a] \in MeteredAggregate
        BY <1>t, ListType
      <4>3. k \in DOMAIN records.plan
        BY <1>t, <4>1, ListType
      <4>4. records.plan[k] \in MeteredPlan
        BY <1>t, <4>3, ListType
      <4>. QED BY <4>1, <4>2, <4>3, <4>4, FS_Subset
    <3>2. (\A a \in S : f[a] = records.aggregate[a].quantity /\ f[a] \in Nat)
          /\ records.plan[k].base \in Nat /\ records.plan[k].unit \in Nat
      BY <3>1, MoneyAssumption DEF MeteredAggregate, MeteredPlan
    <3>3. charge = records.plan[k].base + records.plan[k].unit * QuantitySum(records.aggregate, S)
      BY DEF Metering!Charge, Metering!plan, Metering!aggregate, Metering!subscription, QuantitySum,
             Metering!MapThenSumSet, MapThenSumSet, Metering!MapThenFoldSet, MapThenFoldSet
    <3>. HIDE DEF f, k, charge
    <3>4. QuantitySum(records.aggregate, S) \in Nat
      BY <3>1, <3>2, QuantityIsSum, SumNat
    <3>5. \A b, u, q \in Nat : b + u * q \in Nat
      OBVIOUS
    <3>. QED BY <3>2, <3>3, <3>4, <3>5
  <2>. HIDE DEF charge
  <2>3. /\ DOMAIN taken \subseteq DOMAIN credit /\ taken \in [DOMAIN taken -> Nat]
        /\ SumOver(taken, DOMAIN taken) \in 0 .. charge
    <3>. DEFINE open == Open(credit, s)
                R == RemainingOf(credit)
    <3>1. open \subseteq DOMAIN credit /\ DOMAIN credit \in SUBSET Nat /\ IsFiniteSet(DOMAIN credit)
      BY <1>t, ListType DEF Open
    <3>2. open \in SUBSET Nat /\ IsFiniteSet(open)
      BY <3>1, FS_Subset
    <3>3. \A c \in open : R[c] \in Nat
      <4>1. \A c \in DOMAIN credit : credit[c] \in GrantedCredit
        BY <1>t, ListType
      <4>. QED BY <3>1, <4>1 DEF RemainingOf, GrantedCredit
    <3>4. taken = Taken(R, open, charge)
      BY AllocationsTaken
    <3>. HIDE DEF open, R, taken, credit
    <3>5. /\ DOMAIN Taken(R, open, charge) \subseteq open
          /\ Taken(R, open, charge) \in [DOMAIN Taken(R, open, charge) -> Nat]
          /\ SumOver(Taken(R, open, charge), DOMAIN Taken(R, open, charge)) \in 0 .. charge
      BY <2>2, <3>2, <3>3, TakenWithinCharge
    <3>. QED BY <3>1, <3>4, <3>5
  <2>4. Metering!AllocatedOf(taken) = SumOver(taken, DOMAIN taken)
    <3>. HIDE DEF taken
    <3>. QED BY DEF Metering!AllocatedOf, SumOver, Metering!MapThenSumSet, MapThenSumSet, Metering!MapThenFoldSet, MapThenFoldSet
  <2>5. s \in Nat /\ S \in SUBSET Nat
    <3>1. DOMAIN records.aggregate \in SUBSET Nat
      BY <1>t, ListType
    <3>. QED BY <1>t, <3>1 DEF Metering!subscription, Metering!aggregate
  <2>. HIDE DEF taken
  <2>6. charge - Metering!AllocatedOf(taken) \in Nat /\ charge - Metering!AllocatedOf(taken) + SumOver(taken, DOMAIN taken) = charge
    BY <2>2, <2>3, <2>4
  <2>7. v \in MeteredBill({v.allocations}) /\ v.state = "draft"
    BY <2>2, <2>5, <2>6 DEF MeteredBill
  <2>8. Allocating(credit, v)
    BY <2>3, <2>6 DEF Allocating
  <2>. HIDE DEF v, credit, invoice
  <2>9. CreditBooks(credit, Append(invoice, v), records.application, records.payment)
    BY <1>1, <2>7, <2>8, CreditDrafted DEF credit, invoice
  <2>. QED BY <1>1, <2>1, <2>9, CreditsFormNext
<1>4. ASSUME NEW i \in DOMAIN Metering!invoice, Metering!FinalizeInvoice(i)
      PROVE  Metering!CreditsInvariant'
  <2>. DEFINE t == invoice[i].allocations
              D == DOMAIN t
  <2>1. /\ i \in DOMAIN invoice /\ invoice[i].state = "draft" /\ \A c \in DOMAIN t : credit[c].remaining >= t[c]
    BY <1>4 DEF Metering!FinalizeInvoice, Metering!invoice, Metering!credit
  <2>2. /\ HasCredits(records')
        /\ records'.meter = records.meter /\ records'.usage = records.usage
        /\ records'.aggregate = records.aggregate /\ records'.plan = records.plan
        /\ records'.subscription = records.subscription /\ records'.payment = records.payment
        /\ records'.invoice = [invoice EXCEPT ![i].state = "final"]
        /\ records'.credit = [c \in DOMAIN credit |-> IF c \in D THEN [credit[c] EXCEPT !.remaining = @ - t[c]] ELSE credit[c]]
        /\ records'.application = records.application \cup {[credit |-> c, invoice |-> i, amount |-> t[c]] : c \in D}
    <3>. DEFINE X == [c \in DOMAIN credit |-> IF c \in D THEN [credit[c] EXCEPT !.remaining = @ - t[c]] ELSE credit[c]]
                Y == records.application \cup {[credit |-> c, invoice |-> i, amount |-> t[c]] : c \in D}
    <3>1. records' = [records EXCEPT !.invoice[i].state = "final", !.credit = X, !.application = Y]
      BY <1>4 DEF Metering!FinalizeInvoice, Metering!Finalizing, Metering!Without, Metering!invoice, Metering!credit, Metering!application
    <3>. HIDE DEF X, Y, t, D
    <3>2. /\ HasCredits(records')
          /\ records'.meter = records.meter /\ records'.usage = records.usage
          /\ records'.aggregate = records.aggregate /\ records'.plan = records.plan
          /\ records'.subscription = records.subscription /\ records'.payment = records.payment
          /\ records'.invoice = [invoice EXCEPT ![i].state = "final"]
          /\ records'.credit = X /\ records'.application = Y
      BY <1>1, <3>1 DEF HasCredits
    <3>. QED BY <3>2 DEF X, Y
  <2>3. OneChanged(records'.invoice, invoice, i, BillAs(invoice[i], "final"))
    BY <2>1, <2>2 DEF OneChanged, BillAs
  <2>4. Using(records'.credit, credit, t)
    BY <2>2 DEF Using
  <2>5. records'.application = records.application \cup Applications(t, i, D)
    BY <2>2 DEF Applications, Application
  <2>6. AllocatedBy(t, invoice, i)
    BY DEF AllocatedBy
  <2>. HIDE DEF t, D, credit, invoice
  <2>7. CreditBooks(records'.credit, records'.invoice, records.application \cup Applications(t, i, DOMAIN t), records.payment)
    BY <1>1, <2>1, <2>3, <2>4, <2>6, CreditFinalized DEF credit, invoice
  <2>8. B(records')
    BY <2>2, <2>5, <2>7 DEF D
  <2>. QED BY <1>1, <2>2, <2>8, CreditsFormNext
<1>5. ASSUME NEW i \in DOMAIN Metering!invoice, NEW r \in PaymentReceipt, Metering!RecordPayment(i, r)
      PROVE  Metering!CreditsInvariant'
  <2>. DEFINE x == [invoice |-> i, receipt |-> r, amount |-> invoice[i].total]
  <2>1. i \in DOMAIN invoice /\ invoice[i].state = "final"
    BY <1>5 DEF Metering!RecordPayment, Metering!invoice
  <2>2. /\ HasCredits(records')
        /\ records'.meter = records.meter /\ records'.usage = records.usage
        /\ records'.aggregate = records.aggregate /\ records'.plan = records.plan
        /\ records'.subscription = records.subscription /\ records'.credit = credit
        /\ records'.application = records.application
        /\ records'.invoice = [invoice EXCEPT ![i].state = "paid"]
        /\ records'.payment = Append(records.payment, x)
    BY <1>1, <1>5 DEF Metering!RecordPayment, Metering!invoice, HasCredits
  <2>3. OneChanged(records'.invoice, invoice, i, BillAs(invoice[i], "paid"))
    BY <2>1, <2>2 DEF OneChanged, BillAs
  <2>4. CreditBooks(credit, records'.invoice, records.application, Append(records.payment, x))
    BY <1>1, <2>1, <2>3, CreditPaid
  <2>. HIDE DEF x, credit, invoice
  <2>. QED BY <1>1, <2>2, <2>4, CreditsFormNext
<1>. HIDE DEF P, B
<1>6. CASE \/ \E k \in Aggregation : Metering!CreateMeter(k)
           \/ \E m \in DOMAIN Metering!meter :
                \/ \E s \in Source, t \in 0 .. Horizon - 1, q \in Quantity : Metering!IngestEvent(m, s, t, q)
                \/ \E p \in Metering!Period : Metering!AggregateUsage(m, p)
                \/ \E b \in Base, u \in Unit : Metering!PublishPlan(m, b, u)
           \/ \E p \in DOMAIN Metering!plan : Metering!CreateSubscription(p)
  BY <1>6, PricesStep
<1>. QED BY <1>2, <1>3, <1>4, <1>5, <1>6 DEF Metering!Next

-----------------------------------------------------------------------------
\* The books of the enabled module are of the right shape and add up, after
\* any commands.
THEOREM MoneySafety == MoneySpec => []MoneyInvariant
<1>1. MoneyInit => MoneyInvariant
  <2>. SUFFICES ASSUME NEW m \in Offered, enabled = {m},
                       \/ m = "finance"    /\ Finance!Init
                       \/ m = "metering"   /\ Metering!Init
                       \/ m = "operations" /\ Premium!Init
                PROVE  MoneyInvariant
    BY DEF MoneyInit
  <2>. QED BY BooksInit, CreditsInit, LedgerInit DEF MoneyInvariant, Has
<1>2. MoneyInvariant /\ [MoneyNext]_<<enabled, records>> => MoneyInvariant'
  <2>. SUFFICES ASSUME MoneyInvariant, [MoneyNext]_<<enabled, records>> PROVE MoneyInvariant'
    OBVIOUS
  <2>1. PICK m \in Offered : enabled = {m}
    BY DEF MoneyInvariant
  <2>2. CASE MoneyNext
    <3>1. enabled' = enabled
      BY <2>2 DEF MoneyNext
    <3>2. Has("finance") => Finance!BooksInvariant'
      BY <2>1, <2>2, BooksStep DEF MoneyInvariant, MoneyNext, Has
    <3>3. Has("metering") => Metering!CreditsInvariant'
      BY <2>1, <2>2, CreditsStep DEF MoneyInvariant, MoneyNext, Has
    <3>4. Has("operations") => Premium!LedgerInvariant'
      BY <2>1, <2>2, LedgerStep DEF MoneyInvariant, MoneyNext, Has
    <3>. QED BY <2>1, <3>1, <3>2, <3>3, <3>4 DEF MoneyInvariant, Has
  <2>3. CASE UNCHANGED <<enabled, records>>
    <3>1. enabled' = enabled /\ records' = records
      BY <2>3
    <3>2. Has("finance") => Finance!BooksInvariant'
      BY <3>1, BooksForm, BooksFormNext DEF MoneyInvariant
    <3>3. Has("metering") => Metering!CreditsInvariant'
      BY <3>1, CreditsForm, CreditsFormNext DEF MoneyInvariant
    <3>4. Has("operations") => Premium!LedgerInvariant'
      BY <3>1, LedgerForm, LedgerFormNext DEF MoneyInvariant
    <3>. QED BY <2>1, <3>1, <3>2, <3>3, <3>4 DEF MoneyInvariant, Has
  <2>. QED BY <2>2, <2>3
<1>. QED BY <1>1, <1>2, PTL DEF MoneySpec

\* Every sum the money-keeping modules hand out is the sum of what they keep,
\* for all rates, prices, plans, credits and amounts: no time entry is billed
\* twice, no invoice overpaid, no credit spent twice.
THEOREM MoneyAlwaysAddsUp == MoneySpec => []MoneyAddsUp
<1>1. MoneyInvariant => MoneyAddsUp
  BY DEF MoneyInvariant, MoneyAddsUp, Finance!BooksInvariant, Metering!CreditsInvariant, Premium!LedgerInvariant
<1>. QED BY <1>1, MoneySafety, PTL

-----------------------------------------------------------------------------
(* commands: receipts, approvals, effects.                                 *)

RoleOf     == Role \cup {"owner", "none"}
DecisionOf == HumanDecision \cup {NoDecision}
CommandOf  == [engine : UNION Engines, kind : {"plain", "risky", "ai"}, key : CommandKey, actor : {Owner, Other},
               dry : BOOLEAN, given : DecisionOf, at : Nat]
EffectOf   == [engine : UNION Engines, kind : {"plain", "risky", "ai"}, key : CommandKey, by : RoleOf,
               decision : DecisionOf, age : Int, version : Nat]
CommandReceiptOf == [request : CommandOf, made : Nat, decision : DecisionOf, version : Nat]

KeyOf(x) == <<x.engine, x.kind, x.key>>
IsGated(x) == x.kind = "risky" \/ (x.kind = "ai" /\ x.engine \in {"additive", "premium"})

HasCommands(r) ==
  /\ {"engines", "role", "receipt", "effect", "answer", "now"} \subseteq DOMAIN r
  /\ r.now \in Nat /\ r.engines \subseteq UNION Engines /\ r.role \in [{Owner, Other} -> RoleOf]

\* What was done left a receipt, once for a key and once for a decision.
Receipted(receipt, x, i) == \E q \in receipt : q.made = i /\ q.decision = x.decision /\ KeyOf(q.request) = KeyOf(x)
DoneOnce(effect) ==
  \A i, j \in DOMAIN effect : i # j =>
    KeyOf(effect[i]) # KeyOf(effect[j]) /\ (effect[i].decision = effect[j].decision => effect[i].decision = NoDecision)
WasApproved(x) == IsGated(x) => x.decision # NoDecision /\ x.by \in {"admin", "owner"} /\ x.age <= FreshFor
Done(receipt, effect) ==
  /\ effect \in Seq(EffectOf) /\ receipt \subseteq CommandReceiptOf /\ DoneOnce(effect)
  /\ \A i \in DOMAIN effect : WasApproved(effect[i]) /\ Receipted(receipt, effect[i], i)
AnswerOf(a, q) == a.request = q.request /\ a.made = q.made /\ (a.request.engine \in {"extended", "additive"} => a = q)
Answered(receipt, answer) == \A a \in answer : \E q \in receipt : AnswerOf(a, q)

\* CommandsInvariant, of its lists.
LEMMA CommandsForm ==
  Commands!CommandsInvariant
    <=> HasCommands(records) /\ Done(records.receipt, records.effect) /\ Answered(records.receipt, records.answer)
BY DEF Commands!CommandsInvariant, Commands!EachCommandOnce, Commands!Gated, Commands!engines, Commands!role,
       Commands!receipt, Commands!effect, Commands!answer, Commands!now, HasCommands, Done, DoneOnce, WasApproved,
       Receipted, Answered, AnswerOf, KeyOf, IsGated, RoleOf, DecisionOf, CommandOf, EffectOf, CommandReceiptOf
LEMMA CommandsFormNext ==
  Commands!CommandsInvariant'
    <=> HasCommands(records') /\ Done(records'.receipt, records'.effect) /\ Answered(records'.receipt, records'.answer)
BY DEF Commands!CommandsInvariant, Commands!EachCommandOnce, Commands!Gated, Commands!engines, Commands!role,
       Commands!receipt, Commands!effect, Commands!answer, Commands!now, HasCommands, Done, DoneOnce, WasApproved,
       Receipted, Answered, AnswerOf, KeyOf, IsGated, RoleOf, DecisionOf, CommandOf, EffectOf, CommandReceiptOf

LEMMA CommandsInit == Commands!Init => Commands!CommandsInvariant
<1>. SUFFICES ASSUME NEW e \in Engines,
        records = [engines |-> e, role |-> [a \in {Owner, Other} |-> IF a = Owner THEN "owner" ELSE "none"],
                   receipt |-> {}, effect |-> <<>>, answer |-> {}, now |-> 0]
     PROVE  Commands!CommandsInvariant
  BY DEF Commands!Init
<1>1. /\ records.engines = e /\ records.receipt = {} /\ records.effect = <<>> /\ records.answer = {} /\ records.now = 0
      /\ records.role = [a \in {Owner, Other} |-> IF a = Owner THEN "owner" ELSE "none"] /\ DOMAIN records = {"engines", "role", "receipt", "effect", "answer", "now"}
  OBVIOUS
<1>2. records.role \in [{Owner, Other} -> RoleOf]
  BY <1>1 DEF RoleOf
<1>3. HasCommands(records)
  BY <1>1, <1>2 DEF HasCommands
<1>4. Done(records.receipt, records.effect) /\ Answered(records.receipt, records.answer)
  BY <1>1 DEF Done, DoneOnce, Answered
<1>. QED BY <1>3, <1>4, CommandsForm

\* What an engine lets a command do.
Repeats(q, a) == records' = [records EXCEPT !.answer = {a}] /\ AnswerOf(a, q)
Leaves(c, q) ==
  /\ Commands!ReceiptOf(c) = {}
  /\ records' = [records EXCEPT !.receipt = @ \cup {q}, !.answer = {q},
       !.effect = IF q.made = 0 THEN @ ELSE
         Append(@, [engine |-> c.engine, kind |-> c.kind, key |-> c.key, by |-> records.role[c.actor], decision |-> q.decision,
                    age |-> records.now - c.at, version |-> 1])]
Shown(c) == [request |-> c, made |-> 0, decision |-> NoDecision, version |-> 0]
Made(c, d) == [request |-> c, made |-> Len(records.effect) + 1, decision |-> d, version |-> 1]
Backed(c, d) ==
  /\ d \in {NoDecision, c.given} /\ (d # NoDecision => \A q \in records.receipt : q.decision # d)
  /\ IsGated(c) => d # NoDecision /\ records.role[c.actor] \in {"admin", "owner"} /\ records.now - c.at <= FreshFor

LEMMA EngineRuns ==
  ASSUME Commands!CommandsInvariant, NEW c \in CommandOf, Commands!ExecuteSuiteAction(c)
  PROVE  \/ \E q \in records.receipt : \E a : Repeats(q, a)
         \/ Leaves(c, Shown(c))
         \/ \E d \in DecisionOf : Backed(c, d) /\ Leaves(c, Made(c, d))
<1>1. /\ records.now \in Nat /\ FreshFor \in Nat /\ c.at \in Nat
      /\ c.given \in DecisionOf /\ NoDecision \in DecisionOf
  BY OnceAssumption, CommandsForm DEF HasCommands, CommandOf, DecisionOf
\* A retry.
<1>2. ASSUME NEW q \in Commands!ReceiptOf(c), records' = [records EXCEPT !.answer = {Commands!Today(q)}], q.request = c,
             c.engine \notin {"extended", "additive"}
      PROVE  q \in records.receipt /\ Repeats(q, Commands!Today(q))
  <2>1. q \in records.receipt /\ q \in CommandReceiptOf
    BY CommandsForm DEF Commands!ReceiptOf, Commands!receipt, Done
  <2>2. Commands!Today(q).request = q.request /\ Commands!Today(q).made = q.made
    BY <2>1 DEF Commands!Today, CommandReceiptOf
  <2>. QED BY <1>2, <2>1, <2>2 DEF Repeats, AnswerOf
<1>3. ASSUME NEW q \in Commands!ReceiptOf(c), records' = [records EXCEPT !.answer = {q}]
      PROVE  q \in records.receipt /\ Repeats(q, q)
  BY <1>3 DEF Commands!ReceiptOf, Commands!receipt, Repeats, AnswerOf
\* What is done, with and without an approval.
<1>4. ASSUME Commands!Preview(c) PROVE Leaves(c, Shown(c))
  BY <1>4 DEF Commands!Preview, Commands!Commit, Commands!now, Commands!role, Leaves, Shown
<1>5. ASSUME NEW d, Commands!Do(c, d) PROVE Leaves(c, Made(c, d))
  BY <1>5 DEF Commands!Do, Commands!Commit, Commands!now, Commands!role, Commands!effect, Leaves, Made
<1>6. ASSUME Commands!Strict(c) \/ Commands!Lenient(c) PROVE c.given # NoDecision /\ records.now - c.at <= FreshFor
  BY <1>1, <1>6 DEF Commands!Strict, Commands!Lenient, Commands!now
<1>7. ASSUME NEW gated \in BOOLEAN, NEW approval \in BOOLEAN, Commands!Run(c, gated, approval),
             gated => Commands!Manages(c), IsGated(c) => gated,
             approval => (Commands!Strict(c) \/ Commands!Lenient(c)) /\ Commands!DecisionUnused(c)
      PROVE  \/ Leaves(c, Shown(c))
             \/ \E d \in DecisionOf : Backed(c, d) /\ Leaves(c, Made(c, d))
  <2>1. CASE ~gated /\ Commands!Do(c, NoDecision)
    BY <1>1, <1>5, <1>7, <2>1 DEF Backed
  <2>2. CASE gated /\ c.dry /\ Commands!Preview(c)
    BY <1>4, <2>2
  <2>3. CASE gated /\ ~c.dry /\ approval /\ Commands!Do(c, c.given)
    BY <1>1, <1>5, <1>6, <1>7, <2>3 DEF Backed, Commands!DecisionUnused, Commands!receipt, Commands!Manages, Commands!role
  <2>. QED BY <1>7, <2>1, <2>2, <2>3 DEF Commands!Run
<1>. DEFINE Fine == \/ \E q \in records.receipt : \E a : Repeats(q, a)
                    \/ Leaves(c, Shown(c))
                    \/ \E d \in DecisionOf : Backed(c, d) /\ Leaves(c, Made(c, d))
<1>core. CASE c.engine = "core" /\ Commands!ExecuteCoreBusinessAction(c)
  <2>1. CASE Commands!CoreReplay(c)
    BY <1>2, <1>core, <2>1 DEF Commands!CoreReplay, Commands!Replay
  <2>2. CASE Commands!Run(c, c.kind = "risky", Commands!CoreApproval(c))
    BY <1>7, <1>core, <2>2 DEF Commands!ExecuteCoreBusinessAction, Commands!CoreAuthorizes, Commands!CoreApproval, IsGated, CommandOf
  <2>. QED BY <1>core, <2>1, <2>2 DEF Commands!ExecuteCoreBusinessAction
<1>growth. CASE c.engine = "growth" /\ Commands!ExecuteFirstPartyGrowthAction(c)
  <2>1. CASE Commands!GrowthReplay(c)
    BY <1>2, <1>growth, <2>1 DEF Commands!GrowthReplay, Commands!Replay
  <2>2. CASE Commands!Run(c, c.kind = "risky", Commands!GrowthApproval(c))
    BY <1>7, <1>growth, <2>2 DEF Commands!ExecuteFirstPartyGrowthAction, Commands!GrowthAuthorizes, Commands!GrowthApproval, IsGated, CommandOf
  <2>. QED BY <1>growth, <2>1, <2>2 DEF Commands!ExecuteFirstPartyGrowthAction
<1>esign. CASE c.engine = "esign" /\ Commands!ExecuteEsignAction(c)
  <2>1. CASE Commands!EsignReplay(c)
    BY <1>2, <1>esign, <2>1 DEF Commands!EsignReplay, Commands!Replay
  <2>2. CASE Commands!Run(c, c.kind = "risky", Commands!EsignApproval(c))
    BY <1>7, <1>esign, <2>2 DEF Commands!ExecuteEsignAction, Commands!EsignAuthorizes, Commands!EsignApproval, IsGated, CommandOf
  <2>. QED BY <1>esign, <2>1, <2>2 DEF Commands!ExecuteEsignAction
<1>email. CASE c.engine = "email" /\ Commands!ExecuteEmailAction(c)
  <2>1. CASE Commands!EmailReplay(c)
    BY <1>2, <1>email, <2>1 DEF Commands!EmailReplay, Commands!Replay
  <2>2. CASE Commands!Run(c, c.kind = "risky", Commands!EmailApproval(c))
    BY <1>7, <1>email, <2>2 DEF Commands!ExecuteEmailAction, Commands!EmailAuthorizes, Commands!EmailApproval, IsGated, CommandOf
  <2>. QED BY <1>email, <2>1, <2>2 DEF Commands!ExecuteEmailAction
<1>premium. CASE c.engine = "premium" /\ Commands!ExecutePremiumBusinessAction(c)
  <2>1. CASE Commands!PremiumReplay(c)
    BY <1>2, <1>premium, <2>1 DEF Commands!PremiumReplay, Commands!Replay
  <2>2. CASE Commands!Run(c, c.kind # "plain", Commands!PremiumApproval(c))
    BY <1>7, <1>premium, <2>2 DEF Commands!ExecutePremiumBusinessAction, Commands!PremiumAuthorizes, Commands!PremiumApproval, IsGated, CommandOf
  <2>. QED BY <1>premium, <2>1, <2>2 DEF Commands!ExecutePremiumBusinessAction
<1>extended. CASE c.engine = "extended" /\ Commands!ExecuteExtendedBusinessAction(c)
  <2>1. CASE Commands!ExtendedReplay(c)
    BY <1>3, <2>1 DEF Commands!ExtendedReplay, Commands!Replay, Commands!Stored
  <2>2. CASE Commands!Run(c, c.kind = "risky", Commands!ExtendedApproval(c))
    BY <1>7, <1>extended, <2>2 DEF Commands!ExecuteExtendedBusinessAction, Commands!ExtendedAuthorizes, Commands!ExtendedApproval, IsGated, CommandOf
  <2>. QED BY <1>extended, <2>1, <2>2 DEF Commands!ExecuteExtendedBusinessAction
<1>additive. CASE c.engine = "additive" /\ Commands!ExecuteAdditiveBusinessAction(c)
  <2>1. CASE Commands!AdditiveReplay(c)
    BY <1>3, <2>1 DEF Commands!AdditiveReplay, Commands!Replay, Commands!Stored
  <2>2. CASE Commands!Run(c, c.kind # "plain", Commands!AdditiveApproval(c))
    BY <1>7, <1>additive, <2>2 DEF Commands!ExecuteAdditiveBusinessAction, Commands!AdditiveAuthorizes, Commands!AdditiveApproval, IsGated, CommandOf
  <2>. QED BY <1>additive, <2>1, <2>2 DEF Commands!ExecuteAdditiveBusinessAction
<1>. QED BY <1>core, <1>growth, <1>esign, <1>email, <1>premium, <1>extended, <1>additive DEF Commands!ExecuteSuiteAction

\* An effect more, with its receipt.
LEMMA EffectAdded ==
  ASSUME NEW receipt, NEW effect, Done(receipt, effect),
         NEW x \in EffectOf, NEW q \in CommandReceiptOf, Receipted({q}, x, Len(effect) + 1), WasApproved(x),
         \A p \in receipt : KeyOf(p.request) # KeyOf(x) /\ (x.decision # NoDecision => p.decision # x.decision)
  PROVE  Done(receipt \cup {q}, Append(effect, x))
<1>. DEFINE new == Append(effect, x)
            n   == Len(effect) + 1
<1>1. effect \in Seq(EffectOf)
  BY DEF Done
<1>2. /\ new \in Seq(EffectOf) /\ DOMAIN new = DOMAIN effect \cup {n} /\ new[n] = x /\ n \notin DOMAIN effect
      /\ \A i \in DOMAIN effect : new[i] = effect[i]
  BY <1>1, ListContinued DEF Continues
<1>. HIDE DEF new, n
<1>3. Receipted(receipt \cup {q}, x, n)
  BY DEF Receipted, n
<1>4. \A i \in DOMAIN effect : Receipted(receipt \cup {q}, effect[i], i)
  BY DEF Done, Receipted
<1>5. \A i \in DOMAIN effect : KeyOf(effect[i]) # KeyOf(x) /\ (effect[i].decision = x.decision => x.decision = NoDecision)
  <2>. TAKE i \in DOMAIN effect
  <2>1. PICK p \in receipt : p.decision = effect[i].decision /\ KeyOf(p.request) = KeyOf(effect[i])
    BY DEF Done, Receipted
  <2>. QED BY <2>1
<1>6. DoneOnce(new)
  BY <1>2, <1>5 DEF Done, DoneOnce
<1>7. \A i \in DOMAIN new : WasApproved(new[i]) /\ Receipted(receipt \cup {q}, new[i], i)
  BY <1>2, <1>3, <1>4 DEF Done
<1>. QED BY <1>2, <1>6, <1>7 DEF Done, new

\* A command of an engine.
LEMMA CommandRun ==
  ASSUME Commands!CommandsInvariant, NEW c \in Commands!Request, Commands!ExecuteSuiteAction(c)
  PROVE  Commands!CommandsInvariant'
<1>. DEFINE receipt == records.receipt
            effect == records.effect
<1>1. HasCommands(records) /\ Done(receipt, effect) /\ Answered(receipt, records.answer)
  BY CommandsForm
<1>2. c \in CommandOf
  <2>1. ASSUME NEW kinds \in SUBSET {"plain", "risky", "ai"}, NEW dry \in SUBSET BOOLEAN, NEW given \in SUBSET DecisionOf,
               NEW at \in SUBSET Nat, c \in Commands!Asking(kinds, dry, given, at)
        PROVE  c \in CommandOf
    BY <1>1, <2>1 DEF Commands!Asking, Commands!engines, CommandOf, HasCommands
  <2>2. /\ {"plain"} \in SUBSET {"plain", "risky", "ai"} /\ {"risky", "ai"} \in SUBSET {"plain", "risky", "ai"}
        /\ {FALSE} \in SUBSET BOOLEAN /\ BOOLEAN \in SUBSET BOOLEAN
        /\ {NoDecision} \in SUBSET DecisionOf /\ HumanDecision \in SUBSET DecisionOf
        /\ {0} \in SUBSET Nat /\ (0 .. CommandHorizon + 1) \in SUBSET Nat
    BY OnceAssumption DEF DecisionOf
  <2>. QED BY <2>1, <2>2 DEF Commands!Request
<1>3. ASSUME NEW q, Leaves(c, q) PROVE HasCommands(records')
  <2>1. /\ records'.now = records.now /\ records'.engines = records.engines /\ records'.role = records.role
        /\ DOMAIN records' = DOMAIN records
    BY <1>1, <1>3 DEF Leaves, HasCommands
  <2>. QED BY <1>1, <2>1 DEF HasCommands
<1>4. Commands!ReceiptOf(c) = {} => \A p \in receipt : KeyOf(p.request) # KeyOf(c)
  BY DEF Commands!ReceiptOf, Commands!receipt, KeyOf
<1>5. CASE \E q \in records.receipt : \E a : Repeats(q, a)
  <2>0. PICK q \in receipt : \E a : Repeats(q, a)
    BY <1>5
  <2>1. PICK a : Repeats(q, a)
    BY <2>0
  <2>2. HasCommands(records') /\ records'.receipt = receipt /\ records'.effect = effect /\ records'.answer = {a}
    BY <1>1, <2>1 DEF Repeats, HasCommands
  <2>3. Answered(receipt, {a})
    BY <2>1 DEF Repeats, Answered
  <2>. QED BY <1>1, <2>2, <2>3, CommandsFormNext
<1>6. CASE Leaves(c, Shown(c))
  <2>1. /\ records'.receipt = receipt \cup {Shown(c)} /\ records'.answer = {Shown(c)} /\ records'.effect = effect
        /\ Shown(c) \in CommandReceiptOf
    BY <1>1, <1>2, <1>6 DEF Leaves, Shown, HasCommands, CommandReceiptOf, DecisionOf
  <2>2. Answered(receipt \cup {Shown(c)}, {Shown(c)})
    BY DEF Answered, AnswerOf
  <2>3. Done(receipt \cup {Shown(c)}, effect)
    BY <1>1, <2>1 DEF Done, Receipted
  <2>. QED BY <1>3, <1>6, <2>1, <2>2, <2>3, CommandsFormNext
<1>7. ASSUME NEW d \in DecisionOf, Backed(c, d), Leaves(c, Made(c, d)) PROVE Commands!CommandsInvariant'
  <2>. DEFINE q == Made(c, d)
              x == [engine |-> c.engine, kind |-> c.kind, key |-> c.key, by |-> records.role[c.actor], decision |-> d,
                    age |-> records.now - c.at, version |-> 1]
  <2>1. Len(effect) \in Nat /\ Len(effect) + 1 # 0 /\ Len(effect) + 1 \in Nat
    BY <1>1, ListType DEF Done
  <2>2. q \in CommandReceiptOf /\ q.made = Len(effect) + 1 /\ q.decision = d /\ q.request = c
    BY <1>2, <1>7, <2>1 DEF Made, CommandReceiptOf
  <2>3. records'.receipt = receipt \cup {q} /\ records'.answer = {q} /\ records'.effect = Append(effect, x)
    BY <1>1, <1>7, <2>1, <2>2 DEF Leaves, HasCommands
  <2>. HIDE DEF q
  <2>4. c.actor \in {Owner, Other} /\ records.role[c.actor] \in RoleOf /\ records.now - c.at \in Int
    BY <1>1, <1>2 DEF CommandOf, HasCommands
  <2>5. x \in EffectOf
    BY <1>2, <2>4 DEF EffectOf, CommandOf
  <2>6. WasApproved(x) /\ KeyOf(x) = KeyOf(c) /\ x.decision = d
    BY <1>7 DEF WasApproved, Backed, IsGated, KeyOf
  <2>. HIDE DEF x
  <2>7. Receipted({q}, x, Len(effect) + 1)
    BY <2>2, <2>6 DEF Receipted
  <2>8. \A p \in receipt : KeyOf(p.request) # KeyOf(x) /\ (x.decision # NoDecision => p.decision # x.decision)
    BY <1>4, <1>7, <2>6 DEF Leaves, Backed
  <2>9. Done(receipt \cup {q}, Append(effect, x))
    BY <1>1, <2>2, <2>5, <2>6, <2>7, <2>8, EffectAdded
  <2>10. Answered(receipt \cup {q}, {q})
    BY DEF Answered, AnswerOf
  <2>. QED BY <1>3, <1>7, <2>3, <2>9, <2>10, CommandsFormNext DEF q
<1>. QED BY <1>2, <1>5, <1>6, <1>7, EngineRuns

\* Clocks, roles and later revisions.
LEMMA CommandsAside ==
  ASSUME Commands!CommandsInvariant,
         \/ Commands!Tick
         \/ \E r \in Role : Commands!AddWorkspaceMember(r)
         \/ Commands!RemoveWorkspaceMember
         \/ \E i \in DOMAIN Commands!effect : Commands!Revise(i)
  PROVE  Commands!CommandsInvariant'
<1>. DEFINE receipt == records.receipt
            effect == records.effect
            answer == records.answer
<1>1. HasCommands(records) /\ Done(receipt, effect) /\ Answered(receipt, answer)
  BY CommandsForm
<1>2. CASE Commands!Tick
  <2>1. /\ records'.receipt = receipt /\ records'.effect = effect /\ records'.answer = answer /\ HasCommands(records')
    BY <1>1, <1>2 DEF Commands!Tick, Commands!now, HasCommands
  <2>. QED BY <1>1, <2>1, CommandsFormNext
<1>3. CASE (\E r \in Role : Commands!AddWorkspaceMember(r)) \/ Commands!RemoveWorkspaceMember
  <2>1. PICK r \in RoleOf : records' = [records EXCEPT !.role[Other] = r]
    BY <1>3 DEF Commands!AddWorkspaceMember, Commands!RemoveWorkspaceMember, RoleOf
  <2>2. [records.role EXCEPT ![Other] = r] \in [{Owner, Other} -> RoleOf]
    BY <1>1 DEF HasCommands
  <2>3. /\ records'.receipt = receipt /\ records'.effect = effect /\ records'.answer = answer /\ HasCommands(records')
    BY <1>1, <2>1, <2>2 DEF HasCommands
  <2>. QED BY <1>1, <2>3, CommandsFormNext
<1>4. ASSUME NEW i \in DOMAIN effect, Commands!Revise(i) PROVE Commands!CommandsInvariant'
  <2>. DEFINE x == [effect[i] EXCEPT !.version = @ + 1]
              new == [effect EXCEPT ![i] = x]
  <2>1. effect[i] \in EffectOf
    BY <1>1, ListType DEF Done
  <2>2. /\ x \in EffectOf /\ KeyOf(x) = KeyOf(effect[i]) /\ x.decision = effect[i].decision
        /\ (WasApproved(effect[i]) => WasApproved(x))
    BY <2>1 DEF EffectOf, KeyOf, WasApproved, IsGated
  <2>3. HasCommands(records') /\ records'.receipt = receipt /\ records'.effect = new /\ records'.answer = answer
    BY <1>1, <1>4 DEF Commands!Revise, Commands!effect, HasCommands
  <2>. HIDE DEF x
  <2>4. /\ new \in Seq(EffectOf) /\ DOMAIN new = DOMAIN effect /\ new[i] = x
        /\ \A j \in DOMAIN effect : j # i => new[j] = effect[j]
    BY <1>1, <2>2, ListChange, OneChangedBy DEF Done
  <2>. HIDE DEF new
  <2>5. DoneOnce(new)
    BY <1>1, <2>2, <2>4 DEF Done, DoneOnce
  <2>6. \A j \in DOMAIN new : WasApproved(new[j]) /\ Receipted(receipt, new[j], j)
    BY <1>1, <2>2, <2>4 DEF Done, Receipted
  <2>7. Done(receipt, new)
    BY <1>1, <2>4, <2>5, <2>6 DEF Done
  <2>. QED BY <1>1, <2>3, <2>7, CommandsFormNext
<1>. QED BY <1>2, <1>3, <1>4 DEF Commands!effect

LEMMA CommandsStep ==
  ASSUME Commands!CommandsInvariant, Commands!Next
  PROVE  Commands!CommandsInvariant'
BY CommandRun, CommandsAside DEF Commands!Next

LEMMA CommandsKept ==
  ASSUME Commands!CommandsInvariant
  PROVE  Commands!EachCommandOnce
BY DEF Commands!CommandsInvariant

-----------------------------------------------------------------------------
(* schedule: releases, bookings, pages.                                    *)

RevisionAt   == [hosts : SUBSET Nat, window : Schedule!Window, state : {"draft", "published"}]
ReleaseAt(D) == [slug : Slug, revision : D, hosts : SUBSET Nat, duration : Duration, state : {"draft", "published"}]
BookingAt(D) == [release : D, host : Nat, at : Schedule!Window, state : {"confirmed", "rescheduled", "canceled"},
                 version : Nat, predecessor : Nat, page : BookingPage \cup {0}]
PageAt       == [release : Nat, slots : SUBSET [host : Nat, at : Schedule!Window], loading : BOOLEAN, booked : Nat]

HasSchedule(r) == {"host", "revision", "release", "booking", "log", "page"} \subseteq DOMAIN r /\ r.host \in Nat

Catalogue(revision, release) == revision \in Seq(RevisionAt) /\ release \in Seq(ReleaseAt(DOMAIN revision))
WindowIn(revision, release, e) == revision[release[e].revision].window
FitsIn(w, d, i) == i.to - i.from = d /\ (i.from >= w.from /\ i.to <= w.to) /\ (i.from - w.from) % d = 0
FitsThe(revision, release, e, i) == FitsIn(WindowIn(revision, release, e), release[e].duration, i)

Overlaps(a, b) == a.from < b.to /\ b.from < a.to
Stands(booking) == {b \in DOMAIN booking : booking[b].state = "confirmed"}
After(booking, b) == {c \in DOMAIN booking : booking[c].predecessor = b}
NoClash(booking) ==
  \A b, c \in Stands(booking) : b # c /\ booking[b].host = booking[c].host => ~Overlaps(booking[b].at, booking[c].at)
Moved(booking) ==
  \A b \in DOMAIN booking :
    /\ Cardinality(After(booking, b)) = IF booking[b].state = "rescheduled" THEN 1 ELSE 0
    /\ \A c \in After(booking, b) : booking[c].host = booking[b].host /\ booking[c].release = booking[b].release
Logged(booking, log) ==
  \A b \in DOMAIN booking : booking[b].state # "confirmed" => [of |-> b, type |-> booking[b].state] \in log
InOrder(booking) == \A b \in DOMAIN booking : booking[b].predecessor < b
Bookings(D, booking, log) ==
  booking \in Seq(BookingAt(D)) /\ InOrder(booking) /\ NoClash(booking) /\ Moved(booking) /\ Logged(booking, log)

OfPage(booking, p) == {b \in DOMAIN booking : booking[b].page = p}
PageKept(revision, release, booking, x, p) ==
  /\ x.loading \/ x.slots # {} => x.release \in DOMAIN release
  /\ \A s \in x.slots : FitsThe(revision, release, x.release, s.at)
  /\ \A b, c \in OfPage(booking, p) : b = c
  /\ x.loading => OfPage(booking, p) = {}
  /\ x.booked # 0 => OfPage(booking, p) = {x.booked}
  /\ \A b \in OfPage(booking, p) :
       /\ booking[b].release = x.release
       /\ [host |-> booking[b].host, at |-> booking[b].at] \in x.slots
Pages(revision, release, booking, page) ==
  page \in [BookingPage -> PageAt] /\ \A p \in BookingPage : PageKept(revision, release, booking, page[p], p)

ScheduleKept(r) ==
  /\ HasSchedule(r) /\ Catalogue(r.revision, r.release) /\ Bookings(DOMAIN r.release, r.booking, r.log)
  /\ Pages(r.revision, r.release, r.booking, r.page)

\* ScheduleInvariant, of its lists.
LEMMA ScheduleForm == Schedule!ScheduleInvariant <=> ScheduleKept(records)
<1>. DEFINE Of(p) == {b \in DOMAIN records.booking : records.booking[b].page = p}
            Listing(p) ==
              /\ records.page[p].loading \/ records.page[p].slots # {} => records.page[p].release \in DOMAIN records.release
              /\ \A s \in records.page[p].slots : FitsThe(records.revision, records.release, records.page[p].release, s.at)
            Booked(p) ==
              /\ Cardinality(Of(p)) <= 1
              /\ records.page[p].loading => Of(p) = {}
              /\ records.page[p].booked # 0 => Of(p) = {records.page[p].booked}
              /\ \A b \in Of(p) :
                   /\ records.booking[b].release = records.page[p].release
                   /\ [host |-> records.booking[b].host, at |-> records.booking[b].at] \in records.page[p].slots
                   /\ FitsThe(records.revision, records.release, records.booking[b].release, records.booking[b].at)
            Was == /\ HasSchedule(records) /\ Catalogue(records.revision, records.release)
                   /\ records.booking \in Seq(BookingAt(DOMAIN records.release)) /\ InOrder(records.booking)
                   /\ NoClash(records.booking) /\ Moved(records.booking) /\ Logged(records.booking, records.log)
                   /\ records.page \in [BookingPage -> PageAt]
                   /\ (\A p \in BookingPage : Listing(p)) /\ (\A p \in BookingPage : Booked(p))
<1>1. Schedule!ScheduleInvariant <=> Was
  <2>1. Schedule!HostsAreNotDoubleBooked
          <=> NoClash(records.booking) /\ Moved(records.booking) /\ Logged(records.booking, records.log)
    BY DEF Schedule!HostsAreNotDoubleBooked, Schedule!booking, Schedule!log, Schedule!Active, Schedule!Overlap,
           Schedule!Successors, Schedule!Cardinality, Cardinality, NoClash, Moved, Logged, Overlaps, Stands, After
  <2>2. \A e, i : Schedule!Fits(e, i) <=> FitsThe(records.revision, records.release, e, i)
    BY DEF Schedule!Fits, Schedule!Allows, Schedule!Aligned, Schedule!WindowOf, Schedule!revision, Schedule!release,
           FitsThe, FitsIn, WindowIn
  <2>3. \A p : Schedule!Of(p) = Of(p)
    BY DEF Schedule!Of, Schedule!booking
  <2>. HIDE DEF Of
  <2>4. Schedule!VisitorsBookOnce
          <=> \A p \in BookingPage : Booked(p)
    BY <2>2, <2>3 DEF Schedule!VisitorsBookOnce, Schedule!booking, Schedule!page, Schedule!NoBooking, Schedule!Cardinality, Cardinality
  <2>. QED BY <2>1, <2>2, <2>4 DEF Schedule!ScheduleInvariant, Schedule!host, Schedule!revision, Schedule!release,
         Schedule!booking, Schedule!log, Schedule!page, Schedule!NoPage, HasSchedule, Catalogue, RevisionAt, ReleaseAt,
         BookingAt, PageAt, InOrder
<1>2. ASSUME records.booking \in Seq(BookingAt(DOMAIN records.release))
      PROVE  \A p : Of(p) = OfPage(records.booking, p) /\ (Cardinality(Of(p)) <= 1 <=> \A b, c \in Of(p) : b = c)
  <2>. TAKE p
  <2>1. IsFiniteSet(Of(p))
    BY <1>2, ListType, FS_Subset
  <2>. HIDE DEF Of
  <2>2. Cardinality(Of(p)) <= 1 <=> \A b, c \in Of(p) : b = c
    BY <2>1, AtMostOne
  <2>. QED BY <2>2 DEF Of, OfPage
<1>. HIDE DEF Of
<1>3. Was <=> ScheduleKept(records)
  <2>1. CASE records.booking \in Seq(BookingAt(DOMAIN records.release))
    <3>1. ASSUME NEW p \in BookingPage
          PROVE  Listing(p) /\ Booked(p)
                   <=> PageKept(records.revision, records.release, records.booking, records.page[p], p)
      <4>1. /\ Of(p) = OfPage(records.booking, p)
            /\ Cardinality(Of(p)) <= 1 <=> \A b, c \in OfPage(records.booking, p) : b = c
        BY <1>2, <2>1
      <4>2. ASSUME Listing(p), NEW b, records.booking[b].release = records.page[p].release,
                   [host |-> records.booking[b].host, at |-> records.booking[b].at] \in records.page[p].slots
            PROVE  FitsThe(records.revision, records.release, records.booking[b].release, records.booking[b].at)
        <5>. DEFINE slot == [host |-> records.booking[b].host, at |-> records.booking[b].at]
        <5>1. slot.at = records.booking[b].at
          OBVIOUS
        <5>. QED BY <4>2, <5>1
      <4>. QED BY <4>1, <4>2 DEF PageKept
    <3>. HIDE DEF Listing, Booked
    <3>2. (\A p \in BookingPage : Listing(p)) /\ (\A p \in BookingPage : Booked(p))
            <=> \A p \in BookingPage : PageKept(records.revision, records.release, records.booking, records.page[p], p)
      BY <3>1
    <3>. QED BY <3>2, <2>1 DEF ScheduleKept, Bookings, Pages
  <2>2. CASE ~(records.booking \in Seq(BookingAt(DOMAIN records.release)))
    BY <2>2 DEF ScheduleKept, Bookings
  <2>. QED BY <2>1, <2>2
<1>. QED BY <1>1, <1>3
LEMMA ScheduleFormNext == Schedule!ScheduleInvariant' <=> ScheduleKept(records')
<1>1. Schedule!ScheduleInvariant' <=> ScheduleKept(records)'
  BY ScheduleForm, PTL
<1>2. ScheduleKept(records)' <=> ScheduleKept(records')
  OBVIOUS
<1>. QED BY <1>1, <1>2
LEMMA ScheduleInit == Schedule!Init => Schedule!ScheduleInvariant
<1>. SUFFICES ASSUME records = [host |-> 0, revision |-> <<>>, release |-> <<>>, booking |-> <<>>, log |-> {},
                                page |-> [p \in BookingPage |-> Schedule!NotOpened]]
              PROVE  ScheduleKept(records)
  BY ScheduleForm DEF Schedule!Init
<1>. DEFINE new == [release |-> 0, slots |-> {}, loading |-> FALSE, booked |-> 0]
<1>1. /\ HasSchedule(records) /\ records.revision = <<>> /\ records.release = <<>> /\ records.booking = <<>>
      /\ records.page = [p \in BookingPage |-> new]
  BY DEF HasSchedule, Schedule!NotOpened, Schedule!NoBooking
<1>2. Catalogue(<<>>, <<>>) /\ Bookings(DOMAIN <<>>, <<>>, records.log)
  BY DEF Catalogue, Bookings, InOrder, NoClash, Moved, Logged, Stands
<1>3. new \in PageAt /\ \A p : PageKept(<<>>, <<>>, <<>>, new, p)
  BY DEF PageAt, PageKept, OfPage
<1>. HIDE DEF new
<1>4. Pages(<<>>, <<>>, <<>>, [p \in BookingPage |-> new])
  BY <1>3 DEF Pages
<1>. QED BY <1>1, <1>2, <1>4 DEF ScheduleKept

\* What a booking rests on does not change while it is added to.
SameSlots(revisions, releases, revision, release) ==
  /\ DOMAIN release \subseteq DOMAIN releases
  /\ \A e \in DOMAIN release :
       /\ releases[e].duration = release[e].duration
       /\ WindowIn(revisions, releases, e) = WindowIn(revision, release, e)

LEMMA CatalogueGrows ==
  ASSUME ScheduleKept(records), NEW revisions, NEW releases, Catalogue(revisions, releases),
         SameSlots(revisions, releases, records.revision, records.release),
         HasSchedule(records'), records'.revision = revisions, records'.release = releases,
         records'.booking = records.booking, records'.log = records.log, records'.page = records.page
  PROVE  Schedule!ScheduleInvariant'
<1>. DEFINE revision == records.revision
            release == records.release
            booking == records.booking
            page == records.page
<1>1. Bookings(DOMAIN releases, booking, records.log)
  <2>1. booking \in Seq(BookingAt(DOMAIN release)) /\ booking \in [DOMAIN booking -> BookingAt(DOMAIN release)]
    BY ListType DEF ScheduleKept, Bookings
  <2>2. BookingAt(DOMAIN release) \subseteq BookingAt(DOMAIN releases)
    BY DEF BookingAt, SameSlots
  <2>3. booking \in [DOMAIN booking -> BookingAt(DOMAIN releases)]
    BY <2>1, <2>2
  <2>4. booking \in Seq(BookingAt(DOMAIN releases))
    BY <2>1, <2>3, ListRetype
  <2>. QED BY <2>4 DEF ScheduleKept, Bookings
<1>2. ASSUME NEW p \in BookingPage PROVE PageKept(revisions, releases, booking, page[p], p)
  <2>1. PageKept(revision, release, booking, page[p], p)
    BY DEF ScheduleKept, Pages
  <2>2. \A s \in page[p].slots : FitsThe(revisions, releases, page[p].release, s.at)
    BY <2>1 DEF PageKept, SameSlots, FitsThe
  <2>. QED BY <2>1, <2>2 DEF PageKept, SameSlots
<1>3. Pages(revisions, releases, booking, page)
  BY <1>2 DEF ScheduleKept, Pages
<1>. QED BY <1>1, <1>3, ScheduleFormNext DEF ScheduleKept

\* Hosts, revisions and releases.
LEMMA CatalogueSteps ==
  ASSUME Schedule!ScheduleInvariant,
         \/ Schedule!HostCreate
         \/ \E H \in SUBSET (1 .. records.host), w \in Schedule!Window : Schedule!ScheduleDraft(H, w)
         \/ \E r \in DOMAIN records.revision : Schedule!SchedulePublish(r)
         \/ \E r \in DOMAIN records.revision, s \in Slug, H \in SUBSET (1 .. records.host), d \in Duration : Schedule!EventDraft(s, r, H, d)
         \/ \E e \in DOMAIN records.release : Schedule!EventPublish(e)
  PROVE  Schedule!ScheduleInvariant'
<1>. DEFINE revision == records.revision
            release == records.release
<1>1. ScheduleKept(records) /\ HasSchedule(records) /\ Catalogue(revision, release)
  BY ScheduleForm DEF ScheduleKept
<1>2. /\ revision \in Seq(RevisionAt) /\ release \in Seq(ReleaseAt(DOMAIN revision))
      /\ \A r \in DOMAIN revision : revision[r] \in RevisionAt
      /\ \A e \in DOMAIN release : release[e] \in ReleaseAt(DOMAIN revision) /\ release[e].revision \in DOMAIN revision
  <2>1. revision \in Seq(RevisionAt) /\ release \in Seq(ReleaseAt(DOMAIN revision))
    BY <1>1 DEF Catalogue
  <2>2. \A e \in DOMAIN release : release[e] \in ReleaseAt(DOMAIN revision)
    BY <2>1, ListType
  <2>. QED BY <2>1, <2>2, ListType DEF ReleaseAt
<1>3. \A H \in SUBSET (1 .. records.host) : H \in SUBSET Nat
  BY <1>1 DEF HasSchedule
<1>4. CASE Schedule!HostCreate
  <2>1. records.host + 1 \in Nat
    BY <1>1 DEF HasSchedule
  <2>2. /\ HasSchedule(records') /\ records'.revision = revision /\ records'.release = release
        /\ records'.booking = records.booking /\ records'.log = records.log /\ records'.page = records.page
    BY <1>1, <1>4, <2>1 DEF Schedule!HostCreate, Schedule!host, HasSchedule
  <2>. QED BY <1>1, <2>2, CatalogueGrows DEF SameSlots
<1>5. ASSUME NEW H \in SUBSET (1 .. records.host), NEW w \in Schedule!Window, Schedule!ScheduleDraft(H, w)
      PROVE  Schedule!ScheduleInvariant'
  <2>. DEFINE x == [hosts |-> H, window |-> w, state |-> "draft"]
              new == Append(revision, x)
  <2>1. x \in RevisionAt
    BY <1>3 DEF RevisionAt
  <2>2. /\ HasSchedule(records') /\ records'.revision = new /\ records'.release = release
        /\ records'.booking = records.booking /\ records'.log = records.log /\ records'.page = records.page
    BY <1>1, <1>5 DEF Schedule!ScheduleDraft, HasSchedule
  <2>. HIDE DEF x
  <2>3. new \in Seq(RevisionAt) /\ Continues(new, revision)
    BY <1>2, <2>1, ListContinued
  <2>. HIDE DEF new
  <2>4. release \in Seq(ReleaseAt(DOMAIN new))
    <3>1. ReleaseAt(DOMAIN revision) \subseteq ReleaseAt(DOMAIN new)
      BY <2>3 DEF ReleaseAt, Continues
    <3>2. release \in [DOMAIN release -> ReleaseAt(DOMAIN new)]
      BY <1>2, <3>1, ListType
    <3>. QED BY <1>2, <3>2, ListRetype
  <2>5. Catalogue(new, release) /\ SameSlots(new, release, revision, release)
    BY <1>2, <2>3, <2>4 DEF Catalogue, SameSlots, WindowIn, Continues
  <2>. QED BY <1>1, <2>2, <2>5, CatalogueGrows
<1>6. ASSUME NEW r \in DOMAIN revision, Schedule!SchedulePublish(r)
      PROVE  Schedule!ScheduleInvariant'
  <2>. DEFINE x == [revision[r] EXCEPT !.state = "published"]
              new == [revision EXCEPT ![r] = x]
  <2>1. x \in RevisionAt /\ x.window = revision[r].window
    BY <1>2 DEF RevisionAt
  <2>2. /\ HasSchedule(records') /\ records'.revision = new /\ records'.release = release
        /\ records'.booking = records.booking /\ records'.log = records.log /\ records'.page = records.page
    BY <1>1, <1>6 DEF Schedule!SchedulePublish, Schedule!revision, HasSchedule
  <2>. HIDE DEF x
  <2>3. /\ new \in Seq(RevisionAt) /\ DOMAIN new = DOMAIN revision /\ new[r] = x
        /\ \A q \in DOMAIN revision : q # r => new[q] = revision[q]
    BY <1>2, <2>1, ListChange, OneChangedBy
  <2>. HIDE DEF new
  <2>5. Catalogue(new, release) /\ SameSlots(new, release, revision, release)
    BY <1>2, <2>1, <2>3 DEF Catalogue, SameSlots, WindowIn
  <2>. QED BY <1>1, <2>2, <2>5, CatalogueGrows
<1>7. ASSUME NEW r \in DOMAIN revision, NEW s \in Slug, NEW H \in SUBSET (1 .. records.host), NEW d \in Duration,
             Schedule!EventDraft(s, r, H, d)
      PROVE  Schedule!ScheduleInvariant'
  <2>. DEFINE x == [slug |-> s, revision |-> r, hosts |-> H, duration |-> d, state |-> "draft"]
              new == Append(release, x)
  <2>1. x \in ReleaseAt(DOMAIN revision)
    BY <1>3 DEF ReleaseAt
  <2>2. /\ HasSchedule(records') /\ records'.revision = revision /\ records'.release = new
        /\ records'.booking = records.booking /\ records'.log = records.log /\ records'.page = records.page
    BY <1>1, <1>7 DEF Schedule!EventDraft, HasSchedule
  <2>. HIDE DEF x
  <2>3. new \in Seq(ReleaseAt(DOMAIN revision)) /\ Continues(new, release)
    BY <1>2, <2>1, ListContinued
  <2>. HIDE DEF new
  <2>5. Catalogue(revision, new) /\ SameSlots(revision, new, revision, release)
    BY <1>2, <2>3 DEF Catalogue, SameSlots, WindowIn, Continues
  <2>. QED BY <1>1, <2>2, <2>5, CatalogueGrows
<1>8. ASSUME NEW e \in DOMAIN release, Schedule!EventPublish(e)
      PROVE  Schedule!ScheduleInvariant'
  <2>. DEFINE x == [release[e] EXCEPT !.state = "published"]
              new == [release EXCEPT ![e] = x]
  <2>1. x \in ReleaseAt(DOMAIN revision) /\ x.revision = release[e].revision /\ x.duration = release[e].duration
    BY <1>2 DEF ReleaseAt
  <2>2. /\ HasSchedule(records') /\ records'.revision = revision /\ records'.release = new
        /\ records'.booking = records.booking /\ records'.log = records.log /\ records'.page = records.page
    BY <1>1, <1>8 DEF Schedule!EventPublish, Schedule!release, HasSchedule
  <2>. HIDE DEF x
  <2>3. /\ new \in Seq(ReleaseAt(DOMAIN revision)) /\ DOMAIN new = DOMAIN release /\ new[e] = x
        /\ \A f \in DOMAIN release : f # e => new[f] = release[f]
    BY <1>2, <2>1, ListChange, OneChangedBy
  <2>. HIDE DEF new
  <2>5. Catalogue(revision, new) /\ SameSlots(revision, new, revision, release)
    BY <1>2, <2>1, <2>3 DEF Catalogue, SameSlots, WindowIn
  <2>. QED BY <1>1, <2>2, <2>5, CatalogueGrows
<1>. QED BY <1>4, <1>5, <1>6, <1>7, <1>8

LEMMA BookingFields ==
  ASSUME NEW D, NEW x \in BookingAt(D)
  PROVE  x.release \in D /\ x.host \in Nat /\ x.at \in Schedule!Window /\ x.predecessor \in Nat /\ x.page \in BookingPage \cup {0}
BY DEF BookingAt

LEMMA BookingListed ==
  ASSUME NEW D, NEW booking \in Seq(BookingAt(D)), NEW b \in DOMAIN booking
  PROVE  /\ booking[b] \in BookingAt(D)
         /\ booking[b].release \in D /\ booking[b].host \in Nat /\ booking[b].at \in Schedule!Window
         /\ booking[b].predecessor \in Nat /\ booking[b].page \in BookingPage \cup {0}
<1>1. booking[b] \in BookingAt(D)
  BY ListType
<1>. QED BY <1>1, BookingFields

\* A booking more, of a free host.
LEMMA BookingAdded ==
  ASSUME NEW D, NEW booking, NEW log, Bookings(D, booking, log), NEW y,
         NEW x \in BookingAt(D), x.state = "confirmed", x.predecessor = 0,
         \A b \in Stands(booking) : booking[b].host = x.host => ~Overlaps(booking[b].at, x.at)
  PROVE  Bookings(D, Append(booking, x), log \cup {y})
<1>. DEFINE new == Append(booking, x)
            n   == Len(booking) + 1
<1>1. /\ new \in Seq(BookingAt(D)) /\ DOMAIN new = DOMAIN booking \cup {n} /\ new[n] = x /\ n \notin DOMAIN booking
      /\ \A b \in DOMAIN booking : new[b] = booking[b]
      /\ n \in Nat \ {0} /\ \A b \in DOMAIN booking : b \in Nat /\ b > 0 /\ b < n
  BY ListContinued, ListType DEF Bookings, Continues
<1>. HIDE DEF new, n
<1>2. x.at \in Schedule!Window /\ \A b \in DOMAIN booking : booking[b].at \in Schedule!Window
  BY BookingListed, BookingFields DEF Bookings
<1>3. \A i, j \in Schedule!Window : Overlaps(i, j) <=> Overlaps(j, i)
  BY DEF Overlaps
<1>4. Stands(new) = Stands(booking) \cup {n}
  BY <1>1 DEF Stands
<1>5. NoClash(new)
  <2>1. \A b, c \in Stands(booking) : b # c /\ booking[b].host = booking[c].host => ~Overlaps(booking[b].at, booking[c].at)
    BY DEF Bookings, NoClash
  <2>2. \A b \in Stands(booking) : b \in DOMAIN booking /\ new[b] = booking[b]
    BY <1>1 DEF Stands
  <2>3. \A b \in Stands(booking) : new[b].host = x.host => ~Overlaps(new[b].at, x.at) /\ ~Overlaps(x.at, new[b].at)
    BY <1>2, <1>3, <2>2
  <2>. QED BY <1>1, <1>4, <2>1, <2>2, <2>3 DEF NoClash
<1>6. InOrder(new)
  BY <1>1 DEF Bookings, InOrder
<1>7. \A b \in DOMAIN booking : After(new, b) = After(booking, b)
  BY <1>1 DEF After
<1>8. After(new, n) = {}
  <2>1. \A b \in DOMAIN booking : booking[b].predecessor < b /\ booking[b].predecessor \in Nat
    BY BookingListed DEF Bookings, InOrder
  <2>. QED BY <1>1, <2>1 DEF After
<1>9. Moved(new)
  <2>1. Cardinality({}) = 0 /\ x.state # "rescheduled"
    BY FS_EmptySet
  <2>2. ASSUME NEW b \in DOMAIN booking
        PROVE  /\ Cardinality(After(new, b)) = IF new[b].state = "rescheduled" THEN 1 ELSE 0
               /\ \A c \in After(new, b) : new[c].host = new[b].host /\ new[c].release = new[b].release
    <3>1. \A c \in After(booking, b) : c \in DOMAIN booking
      BY DEF After
    <3>. QED BY <1>1, <1>7, <3>1 DEF Bookings, Moved
  <2>. QED BY <1>1, <1>8, <2>1, <2>2 DEF Moved
<1>10. Logged(new, log \cup {y})
  BY <1>1 DEF Bookings, Logged
<1>. QED BY <1>1, <1>5, <1>6, <1>9, <1>10 DEF Bookings, new

SameBooking(v, x) == v.release = x.release /\ v.host = x.host /\ v.at = x.at /\ v.predecessor = x.predecessor /\ v.page = x.page

\* A standing booking is withdrawn.
LEMMA BookingWithdrawn ==
  ASSUME NEW D, NEW booking, NEW log, Bookings(D, booking, log), NEW b \in DOMAIN booking, booking[b].state = "confirmed",
         NEW v \in BookingAt(D), v.state = "canceled", SameBooking(v, booking[b]),
         NEW new, OneChanged(new, booking, b, v)
  PROVE  Bookings(D, new, log \cup {[of |-> b, type |-> "canceled"]})
<1>1. /\ new \in Seq(BookingAt(D)) /\ DOMAIN new = DOMAIN booking /\ new[b] = v
      /\ \A c \in DOMAIN booking : c # b => new[c] = booking[c]
  BY ListChange DEF Bookings
<1>2. \A c \in DOMAIN booking : SameBooking(new[c], booking[c])
  BY <1>1 DEF SameBooking
<1>3. Stands(new) = Stands(booking) \ {b}
  BY <1>1 DEF Stands
<1>4. NoClash(new)
  BY <1>1, <1>3 DEF Bookings, NoClash, Stands
<1>5. InOrder(new)
  BY <1>1, <1>2 DEF Bookings, InOrder, SameBooking
<1>6. \A c \in DOMAIN booking : After(new, c) = After(booking, c)
  BY <1>1, <1>2 DEF After, SameBooking
<1>7. \A c \in DOMAIN booking : new[c].state = "rescheduled" <=> booking[c].state = "rescheduled"
  BY <1>1
<1>8. Moved(new)
  <2>1. \A c, d : d \in After(booking, c) => d \in DOMAIN booking
    BY DEF After
  <2>. QED BY <1>1, <1>2, <1>6, <1>7, <2>1 DEF Bookings, Moved, SameBooking
<1>9. Logged(new, log \cup {[of |-> b, type |-> "canceled"]})
  BY <1>1 DEF Bookings, Logged
<1>. QED BY <1>1, <1>4, <1>5, <1>8, <1>9 DEF Bookings

\* A standing booking is moved: another takes its place.
LEMMA BookingMoved ==
  ASSUME NEW D, NEW booking, NEW log, Bookings(D, booking, log), NEW b \in DOMAIN booking, booking[b].state = "confirmed",
         NEW v \in BookingAt(D), v.state = "rescheduled", SameBooking(v, booking[b]),
         NEW mid, OneChanged(mid, booking, b, v),
         NEW x \in BookingAt(D), x.state = "confirmed", x.predecessor = b,
         x.host = booking[b].host, x.release = booking[b].release,
         \A c \in Stands(booking) \ {b} : booking[c].host = x.host => ~Overlaps(booking[c].at, x.at)
  PROVE  Bookings(D, Append(mid, x), log \cup {[of |-> b, type |-> "rescheduled"]})
<1>. DEFINE new == Append(mid, x)
            n   == Len(mid) + 1
<1>1. /\ mid \in Seq(BookingAt(D)) /\ DOMAIN mid = DOMAIN booking /\ mid[b] = v
      /\ \A c \in DOMAIN booking : c # b => mid[c] = booking[c]
  BY ListChange DEF Bookings
<1>2. /\ new \in Seq(BookingAt(D)) /\ DOMAIN new = DOMAIN booking \cup {n} /\ new[n] = x /\ n \notin DOMAIN booking
      /\ \A c \in DOMAIN booking : new[c] = mid[c]
      /\ n \in Nat /\ \A c \in DOMAIN booking : c \in Nat /\ c < n
  BY <1>1, ListContinued, ListType DEF Continues
<1>. HIDE DEF new, n
<1>3. /\ \A c \in DOMAIN booking : SameBooking(new[c], booking[c])
      /\ \A c \in DOMAIN booking : c # b => new[c] = booking[c]
      /\ new[b] = v
  BY <1>1, <1>2 DEF SameBooking
<1>4. x.at \in Schedule!Window /\ \A c \in DOMAIN booking : booking[c].at \in Schedule!Window
  BY BookingListed, BookingFields DEF Bookings
<1>5. \A i, j \in Schedule!Window : Overlaps(i, j) <=> Overlaps(j, i)
  BY DEF Overlaps
<1>6. Stands(new) = (Stands(booking) \ {b}) \cup {n}
  BY <1>2, <1>3 DEF Stands
<1>7. NoClash(new)
  <2>1. \A c, d \in Stands(booking) : c # d /\ booking[c].host = booking[d].host => ~Overlaps(booking[c].at, booking[d].at)
    BY DEF Bookings, NoClash
  <2>2. \A c \in Stands(booking) \ {b} : c \in DOMAIN booking /\ new[c] = booking[c]
    BY <1>3 DEF Stands
  <2>3. \A c \in Stands(booking) \ {b} : new[c].host = x.host => ~Overlaps(new[c].at, x.at) /\ ~Overlaps(x.at, new[c].at)
    BY <1>4, <1>5, <2>2
  <2>. QED BY <1>2, <1>6, <2>1, <2>2, <2>3 DEF NoClash
<1>8. InOrder(new)
  BY <1>2, <1>3 DEF Bookings, InOrder, SameBooking
<1>9. /\ \A c \in DOMAIN booking : c # b => After(new, c) = After(booking, c)
      /\ After(new, b) = After(booking, b) \cup {n}
  BY <1>2, <1>3 DEF After, SameBooking
<1>10. After(new, n) = {}
  <2>1. \A c \in DOMAIN booking : booking[c].predecessor < c /\ booking[c].predecessor \in Nat
    BY BookingListed DEF Bookings, InOrder
  <2>. QED BY <1>2, <1>3, <2>1 DEF After, SameBooking
<1>11. After(booking, b) = {}
  <2>1. Cardinality(After(booking, b)) = 0
    BY DEF Bookings, Moved
  <2>2. IsFiniteSet(After(booking, b))
    BY ListType, FS_Subset DEF Bookings, After
  <2>. QED BY <2>1, <2>2, FS_EmptySet
<1>12. Moved(new)
  <2>1. Cardinality({}) = 0 /\ x.state # "rescheduled" /\ Cardinality({n}) = 1
    BY FS_EmptySet, FS_Singleton
  <2>2. ASSUME NEW c \in DOMAIN booking, c # b
        PROVE  /\ Cardinality(After(new, c)) = IF new[c].state = "rescheduled" THEN 1 ELSE 0
               /\ \A d \in After(new, c) : new[d].host = new[c].host /\ new[d].release = new[c].release
    <3>1. \A d \in After(booking, c) : d \in DOMAIN booking
      BY DEF After
    <3>. QED BY <1>3, <1>9, <2>2, <3>1 DEF Bookings, Moved, SameBooking
  <2>3. /\ Cardinality(After(new, b)) = IF new[b].state = "rescheduled" THEN 1 ELSE 0
        /\ \A d \in After(new, b) : new[d].host = new[b].host /\ new[d].release = new[b].release
    <3>1. After(new, b) = {n}
      BY <1>9, <1>11
    <3>. QED BY <1>2, <1>3, <2>1, <3>1 DEF SameBooking
  <2>4. /\ Cardinality(After(new, n)) = IF new[n].state = "rescheduled" THEN 1 ELSE 0
        /\ \A d \in After(new, n) : new[d].host = new[n].host /\ new[d].release = new[n].release
    BY <1>2, <1>10, <2>1
  <2>5. \A c \in DOMAIN new : c = n \/ c = b \/ (c \in DOMAIN booking /\ c # b)
    BY <1>2
  <2>. QED BY <2>2, <2>3, <2>4, <2>5 DEF Moved
<1>13. Logged(new, log \cup {[of |-> b, type |-> "rescheduled"]})
  BY <1>2, <1>3 DEF Bookings, Logged
<1>. QED BY <1>2, <1>7, <1>8, <1>12, <1>13 DEF Bookings, new

\* Bookings that are no page's leave the pages as they are.
LEMMA PagesStay ==
  ASSUME NEW revision, NEW release, NEW booking, NEW page, Pages(revision, release, booking, page),
         NEW new, DOMAIN booking \subseteq DOMAIN new,
         \A b \in DOMAIN booking : SameBooking(new[b], booking[b]),
         \A b \in DOMAIN new \ DOMAIN booking : new[b].page = 0
  PROVE  Pages(revision, release, new, page)
<1>. SUFFICES ASSUME NEW p \in BookingPage PROVE PageKept(revision, release, new, page[p], p)
  BY DEF Pages
<1>1. PageKept(revision, release, booking, page[p], p) /\ p # 0
  BY OnceAssumption DEF Pages
<1>2. OfPage(new, p) = OfPage(booking, p)
  BY <1>1 DEF OfPage, SameBooking
<1>3. \A b \in OfPage(booking, p) : b \in DOMAIN booking
  BY DEF OfPage
<1>. QED BY <1>1, <1>2, <1>3 DEF PageKept, SameBooking

LEMMA FreeHost ==
  ASSUME NEW h, NEW e, NEW i, NEW except
  PROVE  Schedule!Free(h, e, i, except)
           <=> \A b \in Stands(records.booking) \ {except} :
                 records.booking[b].host = h => ~Overlaps(records.booking[b].at, i)
BY DEF Schedule!Free, Schedule!Active, Schedule!Overlap, Schedule!booking, Stands, Overlaps

\* Bookings made by members.
LEMMA BookingSteps ==
  ASSUME Schedule!ScheduleInvariant,
         \/ \E e \in DOMAIN records.release, h \in 1 .. records.host, i \in Schedule!Window : Schedule!BookingCreate(e, h, i)
         \/ \E b \in DOMAIN records.booking, w \in 1 .. MaxBookingVersion :
              Schedule!BookingCancel(b, w) \/ \E i \in Schedule!Window : Schedule!BookingReschedule(b, i, w)
  PROVE  Schedule!ScheduleInvariant'
<1>. DEFINE revision == records.revision
            release == records.release
            booking == records.booking
            page == records.page
            log == records.log
            D == DOMAIN release
<1>1. /\ ScheduleKept(records) /\ HasSchedule(records) /\ Catalogue(revision, release)
      /\ Bookings(D, booking, log) /\ Pages(revision, release, booking, page)
  BY ScheduleForm DEF ScheduleKept
<1>2. booking \in Seq(BookingAt(D)) /\ DOMAIN booking \subseteq Nat /\ 0 \notin DOMAIN booking /\ Len(booking) \in Nat
  BY <1>1, ListType DEF Bookings
\* What a step has to show.
<1>3. ASSUME NEW new, NEW entry, Bookings(D, new, log \cup {entry}),
             DOMAIN booking \subseteq DOMAIN new,
             \A b \in DOMAIN booking : SameBooking(new[b], booking[b]),
             \A b \in DOMAIN new \ DOMAIN booking : new[b].page = 0,
             HasSchedule(records'), records'.revision = revision, records'.release = release,
             records'.booking = new, records'.log = log \cup {entry}, records'.page = page
      PROVE  Schedule!ScheduleInvariant'
  <2>1. Pages(revision, release, new, page)
    BY <1>1, <1>3, PagesStay
  <2>. QED BY <1>1, <1>3, <2>1, ScheduleFormNext DEF ScheduleKept
<1>4. ASSUME NEW e \in D, NEW h \in 1 .. records.host, NEW i \in Schedule!Window, Schedule!BookingCreate(e, h, i)
      PROVE  Schedule!ScheduleInvariant'
  <2>. DEFINE x == [release |-> e, host |-> h, at |-> i, state |-> "confirmed", version |-> 1, predecessor |-> 0, page |-> 0]
              new == Append(booking, x)
              entry == [of |-> Len(booking) + 1, type |-> "created"]
  <2>1. x \in BookingAt(D) /\ x.state = "confirmed" /\ x.predecessor = 0 /\ x.page = 0 /\ x.host = h /\ x.at = i
    BY <1>1 DEF BookingAt, HasSchedule
  <2>2. \A b \in Stands(booking) : booking[b].host = h => ~Overlaps(booking[b].at, i)
    BY <1>2, <1>4, FreeHost DEF Schedule!BookingCreate, Schedule!NoBooking, Stands
  <2>3. /\ HasSchedule(records') /\ records'.revision = revision /\ records'.release = release
        /\ records'.booking = new /\ records'.log = log \cup {entry} /\ records'.page = page
    BY <1>1, <1>4 DEF Schedule!BookingCreate, Schedule!Booked, Schedule!New, Schedule!NoBooking, Schedule!NoPage, Schedule!booking,
                      HasSchedule
  <2>. HIDE DEF x, entry
  <2>4. Bookings(D, new, log \cup {entry})
    BY <1>1, <2>1, <2>2, BookingAdded
  <2>5. /\ DOMAIN new = DOMAIN booking \cup {Len(booking) + 1} /\ new[Len(booking) + 1] = x
        /\ \A b \in DOMAIN booking : new[b] = booking[b]
    BY <1>2, <2>1, ListContinued DEF Continues
  <2>6. \A b \in DOMAIN booking : SameBooking(new[b], booking[b])
    BY <2>5 DEF SameBooking
  <2>. HIDE DEF new
  <2>7. \A b \in DOMAIN new \ DOMAIN booking : new[b].page = 0
    BY <2>1, <2>5
  <2>. QED BY <1>3, <2>3, <2>4, <2>5, <2>6, <2>7
<1>5. ASSUME NEW b \in DOMAIN booking, NEW w \in 1 .. MaxBookingVersion, Schedule!BookingCancel(b, w)
      PROVE  Schedule!ScheduleInvariant'
  <2>. DEFINE v == [booking[b] EXCEPT !.state = "canceled", !.version = w + 1]
              new == [booking EXCEPT ![b] = v]
              entry == [of |-> b, type |-> "canceled"]
  <2>1. booking[b] \in BookingAt(D) /\ booking[b].state = "confirmed"
    BY <1>2, <1>5, BookingListed DEF Schedule!BookingCancel, Schedule!booking
  <2>v. w = booking[b].version /\ w \in Nat /\ w + 1 \in Nat
    <3>1. w = booking[b].version
      BY <1>5 DEF Schedule!BookingCancel, Schedule!booking
    <3>2. w \in Nat
      BY <2>1, <3>1 DEF BookingAt
    <3>. QED BY <3>1, <3>2
  <2>2. v \in BookingAt(D) /\ v.state = "canceled" /\ SameBooking(v, booking[b])
    BY <2>1, <2>v DEF BookingAt, SameBooking
  <2>3. /\ HasSchedule(records') /\ records'.revision = revision /\ records'.release = release
        /\ records'.booking = new /\ records'.log = log \cup {entry} /\ records'.page = page
    BY <1>1, <1>2, <1>5 DEF Schedule!BookingCancel, Schedule!booking, HasSchedule
  <2>. HIDE DEF v
  <2>4. OneChanged(new, booking, b, v)
    BY OneChangedBy
  <2>. HIDE DEF new
  <2>5. Bookings(D, new, log \cup {entry})
    BY <1>1, <2>1, <2>2, <2>4, BookingWithdrawn
  <2>6. DOMAIN new = DOMAIN booking /\ new[b] = v /\ \A c \in DOMAIN booking : c # b => new[c] = booking[c]
    BY <1>2, <2>2, <2>4, ListChange
  <2>7. \A c \in DOMAIN booking : SameBooking(new[c], booking[c])
    BY <2>2, <2>6 DEF SameBooking
  <2>8. \A c \in DOMAIN new \ DOMAIN booking : new[c].page = 0
    BY <2>6
  <2>. QED BY <1>3, <2>3, <2>5, <2>6, <2>7, <2>8
<1>6. ASSUME NEW b \in DOMAIN booking, NEW w \in 1 .. MaxBookingVersion, NEW i \in Schedule!Window,
             Schedule!BookingReschedule(b, i, w)
      PROVE  Schedule!ScheduleInvariant'
  <2>. DEFINE v == [booking[b] EXCEPT !.state = "rescheduled", !.version = w + 1]
              mid == [booking EXCEPT ![b] = v]
              x == [release |-> booking[b].release, host |-> booking[b].host, at |-> i, state |-> "confirmed", version |-> 1,
                    predecessor |-> b, page |-> 0]
              new == Append(mid, x)
              entry == [of |-> b, type |-> "rescheduled"]
  <2>1. /\ booking[b] \in BookingAt(D) /\ booking[b].state = "confirmed" /\ b \in Nat
        /\ booking[b].release \in D /\ booking[b].host \in Nat
    BY <1>2, <1>6, BookingListed DEF Schedule!BookingReschedule, Schedule!booking
  <2>v. w = booking[b].version /\ w \in Nat /\ w + 1 \in Nat
    <3>1. w = booking[b].version
      BY <1>6 DEF Schedule!BookingReschedule, Schedule!booking
    <3>2. w \in Nat
      BY <2>1, <3>1 DEF BookingAt
    <3>. QED BY <3>1, <3>2
  <2>2. v \in BookingAt(D) /\ v.state = "rescheduled" /\ SameBooking(v, booking[b])
    BY <2>1, <2>v DEF BookingAt, SameBooking
  <2>3. x \in BookingAt(D) /\ x.state = "confirmed" /\ x.predecessor = b /\ x.page = 0 /\ x.host = booking[b].host /\ x.at = i
        /\ x.release = booking[b].release
    BY <2>1 DEF BookingAt
  <2>4. \A c \in Stands(booking) \ {b} : booking[c].host = x.host => ~Overlaps(booking[c].at, x.at)
    BY <1>6, <2>3, FreeHost DEF Schedule!BookingReschedule, Schedule!booking
  <2>5. /\ HasSchedule(records') /\ records'.revision = revision /\ records'.release = release
        /\ records'.booking = new /\ records'.log = log \cup {entry} /\ records'.page = page
    BY <1>1, <1>2, <1>6 DEF Schedule!BookingReschedule, Schedule!New, Schedule!NoPage, Schedule!booking, HasSchedule
  <2>. HIDE DEF v, x
  <2>6. OneChanged(mid, booking, b, v)
    BY OneChangedBy
  <2>. HIDE DEF mid
  <2>7. Bookings(D, new, log \cup {entry})
    BY <1>1, <2>1, <2>2, <2>3, <2>4, <2>6, BookingMoved
  <2>8. /\ mid \in Seq(BookingAt(D)) /\ DOMAIN mid = DOMAIN booking /\ mid[b] = v
        /\ \A c \in DOMAIN booking : c # b => mid[c] = booking[c]
    BY <1>2, <2>2, <2>6, ListChange
  <2>9. /\ DOMAIN new = DOMAIN booking \cup {Len(mid) + 1} /\ new[Len(mid) + 1] = x
        /\ \A c \in DOMAIN booking : new[c] = mid[c]
    BY <2>3, <2>8, ListContinued DEF Continues
  <2>. HIDE DEF new
  <2>10. \A c \in DOMAIN booking : SameBooking(new[c], booking[c])
    BY <2>2, <2>8, <2>9 DEF SameBooking
  <2>11. \A c \in DOMAIN new \ DOMAIN booking : new[c].page = 0
    BY <2>3, <2>9
  <2>. QED BY <1>3, <2>5, <2>7, <2>9, <2>10, <2>11
<1>. QED BY <1>4, <1>5, <1>6

\* What booking pages do.
LEMMA PageSteps ==
  ASSUME Schedule!ScheduleInvariant, NEW p \in BookingPage,
         \/ \E e \in DOMAIN records.release : Schedule!OpenBookingPage(p, e)
         \/ \E arrives \in BOOLEAN : \/ Schedule!LoadSlots(p, arrives)
                                     \/ \E s \in records.page[p].slots : Schedule!Confirm(p, s, arrives)
         \/ \E s \in records.page[p].slots : Schedule!ConfirmAgain(p, s) \/ Schedule!SlotTaken(p, s)
  PROVE  Schedule!ScheduleInvariant'
<1>. DEFINE revision == records.revision
            release == records.release
            booking == records.booking
            page == records.page
            log == records.log
            D == DOMAIN release
            old == page[p]
<1>1. /\ ScheduleKept(records) /\ HasSchedule(records) /\ Catalogue(revision, release)
      /\ Bookings(D, booking, log) /\ Pages(revision, release, booking, page)
  BY ScheduleForm DEF ScheduleKept
<1>2. /\ booking \in Seq(BookingAt(D)) /\ DOMAIN booking \subseteq Nat /\ 0 \notin DOMAIN booking /\ Len(booking) \in Nat
      /\ Len(booking) + 1 \in Nat /\ Len(booking) + 1 # 0
  BY <1>1, ListType DEF Bookings
<1>3. /\ page \in [BookingPage -> PageAt] /\ old \in PageAt /\ PageKept(revision, release, booking, old, p) /\ p # 0
  BY <1>1, OnceAssumption DEF Pages
<1>4. OfPage(booking, p) \subseteq DOMAIN booking
  BY DEF OfPage
\* A page alone changes.
<1>5. ASSUME NEW x \in PageAt, PageKept(revision, release, booking, x, p), records' = [records EXCEPT !.page[p] = x]
      PROVE  Schedule!ScheduleInvariant'
  <2>. DEFINE new == [page EXCEPT ![p] = x]
  <2>1. /\ HasSchedule(records') /\ records'.revision = revision /\ records'.release = release
        /\ records'.booking = booking /\ records'.log = log /\ records'.page = new
    BY <1>1, <1>5 DEF HasSchedule
  <2>2. new \in [BookingPage -> PageAt] /\ new[p] = x /\ \A q \in BookingPage : q # p => new[q] = page[q]
    BY <1>3, <1>5
  <2>. HIDE DEF new
  <2>3. Pages(revision, release, booking, new)
    BY <1>1, <1>5, <2>2 DEF Pages
  <2>. QED BY <1>1, <2>1, <2>3, ScheduleFormNext DEF ScheduleKept
<1>6. ASSUME NEW e \in D, Schedule!OpenBookingPage(p, e) PROVE Schedule!ScheduleInvariant'
  <2>. DEFINE x == [Schedule!NotOpened EXCEPT !.release = e, !.loading = TRUE]
  <2>1. old.slots = {} /\ records' = [records EXCEPT !.page[p] = x] /\ e \in Nat
    <3>1. D \subseteq Nat
      BY <1>1, ListType DEF Catalogue
    <3>2. old = Schedule!NotOpened /\ records' = [records EXCEPT !.page[p] = x]
      BY <1>6 DEF Schedule!OpenBookingPage, Schedule!page
    <3>. QED BY <3>1, <3>2 DEF Schedule!NotOpened
  <2>2. OfPage(booking, p) = {}
    BY <1>3, <2>1 DEF PageKept
  <2>3. x \in PageAt /\ x.release = e /\ x.slots = {} /\ x.booked = 0
    BY <2>1 DEF PageAt, Schedule!NotOpened, Schedule!NoBooking
  <2>. HIDE DEF x
  <2>4. PageKept(revision, release, booking, x, p)
    BY <2>2, <2>3 DEF PageKept
  <2>. QED BY <1>5, <2>1, <2>3, <2>4
<1>7. ASSUME NEW arrives \in BOOLEAN, Schedule!LoadSlots(p, arrives) PROVE Schedule!ScheduleInvariant'
  <2>. DEFINE S == IF arrives THEN Schedule!Slots(old.release) ELSE {}
              x == [old EXCEPT !.slots = S, !.loading = FALSE]
  <2>1. old.loading /\ records' = [records EXCEPT !.page[p] = x]
    BY <1>1, <1>3, <1>7 DEF Schedule!LoadSlots, Schedule!page, HasSchedule, PageAt
  <2>2. OfPage(booking, p) = {} /\ old.release \in D
    BY <1>3, <2>1 DEF PageKept
  <2>3. release[old.release].hosts \subseteq Nat
    <3>1. release[old.release] \in ReleaseAt(DOMAIN revision)
      BY <1>1, <2>2, ListType DEF Catalogue
    <3>. QED BY <3>1 DEF ReleaseAt
  <2>4. \A s \in S : s \in [host : Nat, at : Schedule!Window] /\ FitsThe(revision, release, old.release, s.at)
    BY <2>3 DEF Schedule!Slots, Schedule!release, Schedule!revision, Schedule!Fits, Schedule!Allows, Schedule!Aligned,
                Schedule!WindowOf, FitsThe, FitsIn, WindowIn
  <2>. HIDE DEF S
  <2>5. x \in PageAt /\ x.release = old.release /\ x.slots = S /\ x.loading = FALSE /\ x.booked = old.booked
    BY <1>3, <2>4 DEF PageAt
  <2>. HIDE DEF x
  <2>6. PageKept(revision, release, booking, x, p)
    BY <1>3, <2>2, <2>4, <2>5 DEF PageKept
  <2>. QED BY <1>5, <2>1, <2>5, <2>6
<1>8. ASSUME NEW s \in old.slots, Schedule!ConfirmAgain(p, s) PROVE Schedule!ScheduleInvariant'
  <2>1. PICK b \in OfPage(booking, p) : records' = [records EXCEPT !.page[p].booked = b]
    BY <1>8 DEF Schedule!ConfirmAgain, Schedule!Of, Schedule!booking, OfPage
  <2>. DEFINE x == [old EXCEPT !.booked = b]
  <2>2. records' = [records EXCEPT !.page[p] = x] /\ b \in Nat /\ b # 0
    BY <1>1, <1>2, <1>3, <1>4, <2>1 DEF HasSchedule
  <2>3. x \in PageAt /\ x.release = old.release /\ x.slots = old.slots /\ x.loading = old.loading /\ x.booked = b
    BY <1>3, <2>2 DEF PageAt
  <2>. HIDE DEF x
  <2>4. OfPage(booking, p) = {b}
    BY <1>3, <2>1 DEF PageKept
  <2>5. PageKept(revision, release, booking, x, p)
    BY <1>3, <2>3, <2>4 DEF PageKept
  <2>. QED BY <1>5, <2>2, <2>3, <2>5
<1>9. ASSUME NEW s \in old.slots, Schedule!SlotTaken(p, s) PROVE Schedule!ScheduleInvariant'
  <2>. DEFINE x == [old EXCEPT !.slots = {}, !.loading = TRUE]
  <2>1. OfPage(booking, p) = {} /\ old.booked = 0 /\ records' = [records EXCEPT !.page[p] = x] /\ old.release \in D
    BY <1>1, <1>3, <1>9 DEF Schedule!SlotTaken, Schedule!Chooses, Schedule!Of, Schedule!booking, Schedule!page,
       Schedule!NoBooking, OfPage, HasSchedule, PageAt, PageKept
  <2>2. x \in PageAt /\ x.release = old.release /\ x.slots = {} /\ x.loading = TRUE /\ x.booked = 0
    BY <1>3, <2>1 DEF PageAt
  <2>. HIDE DEF x
  <2>3. PageKept(revision, release, booking, x, p)
    BY <2>1, <2>2 DEF PageKept
  <2>. QED BY <1>5, <2>1, <2>2, <2>3
<1>10. ASSUME NEW s \in old.slots, NEW arrives \in BOOLEAN, Schedule!Confirm(p, s, arrives) PROVE Schedule!ScheduleInvariant'
  <2>. DEFINE n == Len(booking) + 1
              x == [release |-> old.release, host |-> s.host, at |-> s.at, state |-> "confirmed", version |-> 1,
                    predecessor |-> 0, page |-> p]
              new == Append(booking, x)
              entry == [of |-> n, type |-> "created"]
              y == [old EXCEPT !.booked = IF arrives THEN n ELSE 0]
              pages == [page EXCEPT ![p] = y]
  <2>1. OfPage(booking, p) = {} /\ ~old.loading /\ old.release \in D
    BY <1>3, <1>10 DEF Schedule!Confirm, Schedule!Chooses, Schedule!Of, Schedule!booking, Schedule!page, OfPage, PageKept
  <2>2. s \in [host : Nat, at : Schedule!Window] /\ s = [host |-> s.host, at |-> s.at]
    BY <1>3, <1>10 DEF PageAt
  <2>3. /\ x \in BookingAt(D) /\ x.state = "confirmed" /\ x.predecessor = 0 /\ x.page = p /\ x.host = s.host /\ x.at = s.at
        /\ x.release = old.release
    BY <2>1, <2>2 DEF BookingAt
  <2>4. \A b \in Stands(booking) : booking[b].host = x.host => ~Overlaps(booking[b].at, x.at)
    BY <1>2, <1>10, <2>3, FreeHost DEF Schedule!Confirm, Schedule!NoBooking, Stands
  <2>5. /\ HasSchedule(records') /\ records'.revision = revision /\ records'.release = release
        /\ records'.booking = new /\ records'.log = log \cup {entry} /\ records'.page = pages
    BY <1>1, <1>3, <1>10 DEF Schedule!Confirm, Schedule!Booked, Schedule!New, Schedule!NoBooking, Schedule!booking, Schedule!page,
                      HasSchedule, PageAt
  <2>6. y \in PageAt /\ y.release = old.release /\ y.slots = old.slots /\ y.loading = old.loading /\ y.booked \in {0, n}
    BY <1>2, <1>3 DEF PageAt
  <2>. HIDE DEF x, y, entry
  <2>7. Bookings(D, new, log \cup {entry})
    BY <1>1, <2>3, <2>4, BookingAdded
  <2>8. /\ DOMAIN new = DOMAIN booking \cup {n} /\ new[n] = x /\ n \notin DOMAIN booking
        /\ \A b \in DOMAIN booking : new[b] = booking[b]
    BY <1>2, <2>3, ListContinued DEF Continues
  <2>9. pages \in [BookingPage -> PageAt] /\ pages[p] = y /\ \A q \in BookingPage : q # p => pages[q] = page[q]
    BY <1>3, <2>6
  <2>. HIDE DEF new, pages, n
  <2>10. OfPage(new, p) = {n} /\ \A q : q # p => OfPage(new, q) = OfPage(booking, q)
    BY <2>1, <2>3, <2>8 DEF OfPage
  <2>11. PageKept(revision, release, new, pages[p], p)
    <3>1. \A t \in old.slots : FitsThe(revision, release, old.release, t.at)
      BY <1>3 DEF PageKept
    <3>2. new[n].release = y.release /\ [host |-> new[n].host, at |-> new[n].at] \in y.slots
      BY <1>10, <2>2, <2>3, <2>6, <2>8
    <3>. QED BY <2>1, <2>6, <2>9, <2>10, <3>1, <3>2 DEF PageKept
  <2>12. ASSUME NEW q \in BookingPage, q # p PROVE PageKept(revision, release, new, pages[q], q)
    <3>1. PageKept(revision, release, booking, page[q], q) /\ pages[q] = page[q] /\ OfPage(new, q) = OfPage(booking, q)
      BY <1>1, <2>9, <2>10, <2>12 DEF Pages
    <3>2. \A b \in OfPage(booking, q) : new[b] = booking[b]
      BY <2>8 DEF OfPage
    <3>. QED BY <3>1, <3>2 DEF PageKept
  <2>13. Pages(revision, release, new, pages)
    BY <2>9, <2>11, <2>12 DEF Pages
  <2>. QED BY <1>1, <2>5, <2>7, <2>13, ScheduleFormNext DEF ScheduleKept
<1>. QED BY <1>6, <1>7, <1>8, <1>9, <1>10

LEMMA ScheduleStep ==
  ASSUME Schedule!ScheduleInvariant, Schedule!Next
  PROVE  Schedule!ScheduleInvariant'
<1>1. CASE \/ Schedule!HostCreate
           \/ \E H \in SUBSET (1 .. records.host), w \in Schedule!Window : Schedule!ScheduleDraft(H, w)
           \/ \E r \in DOMAIN records.revision : Schedule!SchedulePublish(r)
           \/ \E r \in DOMAIN records.revision, s \in Slug, H \in SUBSET (1 .. records.host), d \in Duration : Schedule!EventDraft(s, r, H, d)
           \/ \E e \in DOMAIN records.release : Schedule!EventPublish(e)
  BY <1>1, CatalogueSteps
<1>2. CASE \/ \E e \in DOMAIN records.release, h \in 1 .. records.host, i \in Schedule!Window : Schedule!BookingCreate(e, h, i)
           \/ \E b \in DOMAIN records.booking, w \in 1 .. MaxBookingVersion :
                Schedule!BookingCancel(b, w) \/ \E i \in Schedule!Window : Schedule!BookingReschedule(b, i, w)
  BY <1>2, BookingSteps
<1>3. CASE \E p \in BookingPage :
             \/ \E e \in DOMAIN records.release : Schedule!OpenBookingPage(p, e)
             \/ \E arrives \in BOOLEAN : \/ Schedule!LoadSlots(p, arrives)
                                         \/ \E s \in records.page[p].slots : Schedule!Confirm(p, s, arrives)
             \/ \E s \in records.page[p].slots : Schedule!ConfirmAgain(p, s) \/ Schedule!SlotTaken(p, s)
  BY <1>3, PageSteps
<1>. QED BY <1>1, <1>2, <1>3 DEF Schedule!Next, Schedule!host, Schedule!revision, Schedule!release, Schedule!booking, Schedule!page

LEMMA ScheduleKeeps ==
  ASSUME Schedule!ScheduleInvariant
  PROVE  Schedule!HostsAreNotDoubleBooked /\ Schedule!VisitorsBookOnce
BY DEF Schedule!ScheduleInvariant

-----------------------------------------------------------------------------
(* people: leave, attendance, reviews, profiles.                           *)

Persons == {Owner} \cup Employee
LeaveOf          == [of : Employee, receipt : ProviderReceipt, state : {"pending", "approved", "denied"}]
LeaveDecision(D) == [leave : D, verdict : {"approved", "denied"}, receipt : ProviderReceipt]
AttendanceOf     == [of : Employee, receipt : ProviderReceipt, interval : Interval, version : Nat]
CorrectionAt(D)  == [attendance : D, from : Interval, to : Interval, receipt : ProviderReceipt]
ReviewAt(D)      == [profile : D, cycle : Cycle, reviewer : Persons, state : {"open", "submitted"}]
SubmissionAt(D)  == [review : D, by : Persons, receipt : ProviderReceipt]
ProfileOf        == [of : Employee, manager : Persons, privacy : Privacy, state : {"active", "offboarded"}, version : Nat]
RevocationAt(D)  == [profile : D, at : Nat, receipt : ProviderReceipt]
ClosingAt(D, E)  == [profile : D, at : Nat, receipts : SUBSET E]

HasPeople(r) == People!Lists \cup {"member"} \subseteq DOMAIN r /\ r.member \subseteq Persons

DecisionsOn(decision, l) == {d \in DOMAIN decision : decision[d].leave = l}
LeaveKept(leave, decision) ==
  /\ leave \in Seq(LeaveOf) /\ decision \in Seq(LeaveDecision(DOMAIN leave))
  /\ \A l \in DOMAIN leave :
       IF leave[l].state = "pending" THEN DecisionsOn(decision, l) = {}
       ELSE \E d : DecisionsOn(decision, l) = {d} /\ decision[d].verdict = leave[l].state

ChainOf(correction, a) == {c \in DOMAIN correction : correction[c].attendance = a}
ChainKept(correction, a, x) ==
  LET chain == ChainOf(correction, a) IN
  /\ x.version = Cardinality(chain) + 1
  /\ \A c \in chain : (\A e \in chain : e <= c) => correction[c].to = x.interval
  /\ \A c, d \in chain : (c < d /\ \A e \in chain : e <= c \/ e >= d) => correction[c].to = correction[d].from
AttendanceKept(attendance, correction) ==
  /\ attendance \in Seq(AttendanceOf) /\ correction \in Seq(CorrectionAt(DOMAIN attendance))
  /\ \A a \in DOMAIN attendance : ChainKept(correction, a, attendance[a])

SentFor(submission, r) == {s \in DOMAIN submission : submission[s].review = r}
ReviewKept(D, review, submission) ==
  /\ review \in Seq(ReviewAt(D)) /\ submission \in Seq(SubmissionAt(DOMAIN review))
  /\ \A r \in DOMAIN review :
       IF review[r].state = "submitted" THEN \E s : SentFor(submission, r) = {s} /\ submission[s].by = review[r].reviewer
       ELSE SentFor(submission, r) = {}

ClosingOf(offboarded, p) == {o \in DOMAIN offboarded : offboarded[o].profile = p}
Grounded(revocation, p, x) == \E v \in x.receipts : revocation[v].profile = p /\ revocation[v].at <= x.at
ProfileKept(profile, revocation, offboarded) ==
  /\ profile \in Seq(ProfileOf) /\ revocation \in Seq(RevocationAt(DOMAIN profile))
  /\ offboarded \in Seq(ClosingAt(DOMAIN profile, DOMAIN revocation))
  /\ \A p \in DOMAIN profile :
       IF profile[p].state = "offboarded" THEN \E o : ClosingOf(offboarded, p) = {o} /\ Grounded(revocation, p, offboarded[o])
       ELSE ClosingOf(offboarded, p) = {}

PeopleKept(r) ==
  /\ HasPeople(r) /\ LeaveKept(r.leave, r.decision) /\ AttendanceKept(r.attendance, r.correction)
  /\ ReviewKept(DOMAIN r.profile, r.review, r.submission) /\ ProfileKept(r.profile, r.revocation, r.offboarded)

LEMMA LeaveForm ==
  ASSUME NEW leave \in Seq(LeaveOf), NEW decision \in Seq(LeaveDecision(DOMAIN leave)), NEW l \in DOMAIN leave
  PROVE  (IF leave[l].state = "pending" THEN DecisionsOn(decision, l) = {}
          ELSE \E d : DecisionsOn(decision, l) = {d} /\ decision[d].verdict = leave[l].state)
         <=> /\ {decision[d].verdict : d \in DecisionsOn(decision, l)}
                  = IF leave[l].state = "pending" THEN {} ELSE {leave[l].state}
             /\ Cardinality(DecisionsOn(decision, l)) <= 1
<1>. DEFINE S == DecisionsOn(decision, l)
<1>1. IsFiniteSet(S)
  BY ListType, FS_Subset DEF DecisionsOn
<1>. HIDE DEF S
<1>2. (Cardinality(S) <= 1 <=> \A x, y \in S : x = y) /\ Cardinality({}) = 0
  BY <1>1, AtMostOne, FS_EmptySet
<1>3. S = {} <=> {decision[d].verdict : d \in S} = {}
  OBVIOUS
<1>4. ASSUME NEW d, S = {d} PROVE {decision[e].verdict : e \in S} = {decision[d].verdict}
  BY <1>4
<1>5. CASE leave[l].state = "pending"
  BY <1>2, <1>3, <1>5 DEF S
<1>6. CASE leave[l].state # "pending"
  <2>1. ASSUME NEW d, S = {d}, decision[d].verdict = leave[l].state
        PROVE  {decision[e].verdict : e \in S} = {leave[l].state} /\ Cardinality(S) <= 1
    <3>1. \A x, y \in S : x = y
      BY <2>1
    <3>. QED BY <1>2, <1>4, <2>1, <3>1
  <2>2. ASSUME {decision[e].verdict : e \in S} = {leave[l].state}, Cardinality(S) <= 1
        PROVE  \E d : S = {d} /\ decision[d].verdict = leave[l].state
    <3>1. PICK d \in S : decision[d].verdict = leave[l].state
      BY <2>2
    <3>2. S = {d}
      BY <1>2, <2>2, <3>1
    <3>. QED BY <3>1, <3>2
  <2>3. (\E d : S = {d} /\ decision[d].verdict = leave[l].state)
        <=> {decision[e].verdict : e \in S} = {leave[l].state} /\ Cardinality(S) <= 1
    BY <2>1, <2>2
  <2>. QED BY <1>6, <2>3 DEF S
<1>. QED BY <1>5, <1>6

LEMMA ChainForm ==
  ASSUME NEW D, NEW correction \in Seq(CorrectionAt(D)), NEW a, NEW x
  PROVE  (\A c \in ChainOf(correction, a) : (\A e \in ChainOf(correction, a) : e <= c) => correction[c].to = x)
         <=> (ChainOf(correction, a) # {} => correction[Max(ChainOf(correction, a))].to = x)
<1>. DEFINE y == ChainOf(correction, a)
<1>1. y \in SUBSET Nat /\ IsFiniteSet(y)
  BY ListType, FS_Subset DEF ChainOf
<1>. HIDE DEF y
<1>2. y # {} => Max(y) \in y /\ \A n \in y : Max(y) >= n
  BY <1>1, LargestExists
<1>3. ASSUME NEW c \in y, \A e \in y : e <= c PROVE c = Max(y)
  <2>1. Max(y) \in y /\ Max(y) >= c /\ Max(y) \in Nat /\ c \in Nat
    BY <1>1, <1>2
  <2>2. Max(y) <= c
    BY <1>3, <2>1
  <2>. QED BY <2>1, <2>2
<1>4. y # {} => \A e \in y : e <= Max(y)
  BY <1>1, <1>2
<1>5. (\A c \in y : (\A e \in y : e <= c) => correction[c].to = x) <=> (y # {} => correction[Max(y)].to = x)
  BY <1>2, <1>3, <1>4
<1>. QED BY <1>5 DEF y

LEMMA ReviewForm ==
  ASSUME NEW D, NEW review \in Seq(ReviewAt(D)), NEW submission \in Seq(SubmissionAt(DOMAIN review)), NEW r \in DOMAIN review
  PROVE  (IF review[r].state = "submitted" THEN \E s : SentFor(submission, r) = {s} /\ submission[s].by = review[r].reviewer
          ELSE SentFor(submission, r) = {})
         <=> LET sent == SentFor(submission, r) IN
             /\ (sent # {}) <=> (review[r].state = "submitted")
             /\ Cardinality(sent) <= 1 /\ \A s \in sent : submission[s].by = review[r].reviewer
<1>. DEFINE S == SentFor(submission, r)
<1>1. IsFiniteSet(S)
  BY ListType, FS_Subset DEF SentFor
<1>. HIDE DEF S
<1>2. (Cardinality(S) <= 1 <=> \A x, y \in S : x = y)
  BY <1>1, AtMostOne
<1>3. Cardinality(S) <= 1 /\ S # {} <=> \E s : S = {s}
  <2>1. ASSUME NEW s \in S, \A x, y \in S : x = y PROVE S = {s}
    BY <2>1
  <2>. QED BY <1>2, <2>1
<1>. QED BY <1>2, <1>3 DEF S

LEMMA ProfileForm ==
  ASSUME NEW profile \in Seq(ProfileOf), NEW revocation, NEW E, NEW offboarded \in Seq(ClosingAt(DOMAIN profile, E)),
         NEW p \in DOMAIN profile
  PROVE  (IF profile[p].state = "offboarded" THEN \E o : ClosingOf(offboarded, p) = {o} /\ Grounded(revocation, p, offboarded[o])
          ELSE ClosingOf(offboarded, p) = {})
         <=> LET closing == ClosingOf(offboarded, p) IN
             /\ Cardinality(closing) = IF profile[p].state = "offboarded" THEN 1 ELSE 0
             /\ \A o \in closing : Grounded(revocation, p, offboarded[o])
<1>. DEFINE S == ClosingOf(offboarded, p)
<1>1. IsFiniteSet(S)
  BY ListType, FS_Subset DEF ClosingOf
<1>. HIDE DEF S
<1>2. (Cardinality(S) = 0 <=> S = {}) /\ (Cardinality(S) = 1 <=> \E x : S = {x})
  BY <1>1, AtMostOne
<1>. QED BY <1>2 DEF S

\* PeopleInvariant, of its lists.
LEMMA PeopleForm == People!PeopleInvariant <=> PeopleKept(records)
<1>. DEFINE leave == records.leave
            decision == records.decision
            attendance == records.attendance
            correction == records.correction
            review == records.review
            submission == records.submission
            profile == records.profile
            revocation == records.revocation
            offboarded == records.offboarded
            Types == /\ HasPeople(records) /\ profile \in Seq(ProfileOf) /\ leave \in Seq(LeaveOf)
                     /\ decision \in Seq(LeaveDecision(DOMAIN leave)) /\ attendance \in Seq(AttendanceOf)
                     /\ correction \in Seq(CorrectionAt(DOMAIN attendance)) /\ review \in Seq(ReviewAt(DOMAIN profile))
                     /\ submission \in Seq(SubmissionAt(DOMAIN review)) /\ revocation \in Seq(RevocationAt(DOMAIN profile))
                     /\ offboarded \in Seq(ClosingAt(DOMAIN profile, DOMAIN revocation))
            Decided1 == \A l \in DOMAIN leave :
                          {decision[d].verdict : d \in DecisionsOn(decision, l)} = IF leave[l].state = "pending" THEN {} ELSE {leave[l].state}
            Decided2 == \A l \in DOMAIN leave : Cardinality(DecisionsOn(decision, l)) <= 1
            Chained == \A a \in DOMAIN attendance : LET chain == ChainOf(correction, a) IN
                         /\ attendance[a].version = Cardinality(chain) + 1
                         /\ chain # {} => correction[Max(chain)].to = attendance[a].interval
                         /\ \A c, d \in chain : (c < d /\ \A e \in chain : e <= c \/ e >= d) => correction[c].to = correction[d].from
            Sent == \A r \in DOMAIN review : LET sent == SentFor(submission, r) IN
                      /\ (sent # {}) <=> (review[r].state = "submitted")
                      /\ Cardinality(sent) <= 1 /\ \A s \in sent : submission[s].by = review[r].reviewer
            Closings == \A p \in DOMAIN profile : LET closing == ClosingOf(offboarded, p) IN
                        /\ Cardinality(closing) = IF profile[p].state = "offboarded" THEN 1 ELSE 0
                        /\ \A o \in closing : Grounded(revocation, p, offboarded[o])
<1>1. People!PeopleInvariant <=> Types /\ People!DecidedOnce
  BY DEF People!PeopleInvariant, People!member, People!profile, People!leave, People!decision, People!attendance, People!correction,
         People!review, People!submission, People!revocation, People!offboarded, HasPeople, Persons, LeaveOf, LeaveDecision,
         AttendanceOf, CorrectionAt, ReviewAt, SubmissionAt, ProfileOf, RevocationAt, ClosingAt
<1>2. People!DecidedOnce <=> Decided1 /\ Decided2 /\ Chained /\ Sent /\ Closings
  <2>1. (\A l \in DOMAIN leave :
          {decision[d].verdict : d \in {e \in DOMAIN decision : decision[e].leave = l}}
            = IF leave[l].state = "pending" THEN {} ELSE {leave[l].state}) <=> Decided1
    BY DEF DecisionsOn
  <2>2. (\A l \in DOMAIN leave : People!Cardinality({d \in DOMAIN decision : decision[d].leave = l}) <= 1) <=> Decided2
    BY DEF DecisionsOn, People!Cardinality, Cardinality
  <2>3. (\A a \in DOMAIN attendance : LET chain == {c \in DOMAIN correction : correction[c].attendance = a} IN
                         /\ attendance[a].version = People!Cardinality(chain) + 1
                         /\ chain # {} => correction[People!Max(chain)].to = attendance[a].interval
                         /\ \A c, d \in chain : (c < d /\ \A e \in chain : e <= c \/ e >= d) => correction[c].to = correction[d].from)
        <=> Chained
    BY DEF ChainOf, People!Cardinality, Cardinality, People!Max, Max
  <2>4. (\A r \in DOMAIN review :
           LET sent == {s \in DOMAIN submission : submission[s].review = r} IN
           /\ (sent # {}) <=> (review[r].state = "submitted")
           /\ People!Cardinality(sent) <= 1 /\ \A s \in sent : submission[s].by = review[r].reviewer
           /\ \A s \in sent, u \in {Owner} \cup Employee : People!ReadsSubmission(u, s) =>
                People!ReadsReview(u, r) /\ (People!ReadsProfile(u, review[r].profile) \/ submission[s].by = u)) <=> Sent
    <3>1. ASSUME NEW r \in DOMAIN review, NEW s \in SentFor(submission, r), submission[s].by = review[r].reviewer, NEW u,
                 People!ReadsSubmission(u, s)
          PROVE  People!ReadsReview(u, r) /\ (People!ReadsProfile(u, review[r].profile) \/ submission[s].by = u)
      BY <3>1 DEF People!ReadsSubmission, People!ReadsReview, People!ReadsAbout, People!submission, People!review, SentFor
    <3>. QED BY <3>1 DEF SentFor, People!Cardinality, Cardinality
  <2>5. (\A p \in DOMAIN profile :
           LET closing == {o \in DOMAIN offboarded : offboarded[o].profile = p} IN
           /\ People!Cardinality(closing) = IF profile[p].state = "offboarded" THEN 1 ELSE 0
           /\ \A o \in closing : \E v \in offboarded[o].receipts : revocation[v].profile = p /\ revocation[v].at <= offboarded[o].at)
        <=> Closings
    BY DEF ClosingOf, Grounded, People!Cardinality, Cardinality
  <2>. HIDE DEF Decided1, Decided2, Chained, Sent, Closings
  <2>. QED BY <2>1, <2>2, <2>3, <2>4, <2>5 DEF People!DecidedOnce, People!CorrectionsOf, People!profile, People!leave, People!decision,
         People!attendance, People!correction, People!review, People!submission, People!revocation, People!offboarded
<1>3. ASSUME Types
      PROVE  /\ Decided1 /\ Decided2 <=> LeaveKept(leave, decision)
             /\ Chained <=> AttendanceKept(attendance, correction)
             /\ Sent <=> ReviewKept(DOMAIN profile, review, submission)
             /\ Closings <=> ProfileKept(profile, revocation, offboarded)
  <2>1. Decided1 /\ Decided2 <=> LeaveKept(leave, decision)
    BY <1>3, LeaveForm DEF LeaveKept
  <2>2. Chained <=> AttendanceKept(attendance, correction)
    <3>1. ASSUME NEW a \in DOMAIN attendance
          PROVE  ChainKept(correction, a, attendance[a])
                 <=> LET chain == ChainOf(correction, a) IN
                     /\ attendance[a].version = Cardinality(chain) + 1
                     /\ chain # {} => correction[Max(chain)].to = attendance[a].interval
                     /\ \A c, d \in chain : (c < d /\ \A e \in chain : e <= c \/ e >= d) => correction[c].to = correction[d].from
      BY <1>3, ChainForm DEF ChainKept
    <3>. QED BY <1>3, <3>1 DEF AttendanceKept
  <2>3. Sent <=> ReviewKept(DOMAIN profile, review, submission)
    BY <1>3, ReviewForm DEF ReviewKept
  <2>4. Closings <=> ProfileKept(profile, revocation, offboarded)
    BY <1>3, ProfileForm DEF ProfileKept
  <2>. QED BY <2>1, <2>2, <2>3, <2>4
<1>4. PeopleKept(records) => Types
  BY DEF PeopleKept, LeaveKept, AttendanceKept, ReviewKept, ProfileKept
<1>5. Types => HasPeople(records)
  OBVIOUS
<1>. HIDE DEF Types, Decided1, Decided2, Chained, Sent, Closings
<1>. QED BY <1>1, <1>2, <1>3, <1>4, <1>5 DEF PeopleKept

LEMMA PeopleFormNext == People!PeopleInvariant' <=> PeopleKept(records')
<1>1. People!PeopleInvariant' <=> PeopleKept(records)'
  BY PeopleForm, PTL
<1>2. PeopleKept(records)' <=> PeopleKept(records')
  OBVIOUS
<1>. QED BY <1>1, <1>2

LEMMA PeopleInit == People!Init => People!PeopleInvariant
<1>. SUFFICES ASSUME People!Init PROVE PeopleKept(records)
  BY PeopleForm
<1>1. /\ DOMAIN records = People!Lists \cup {"member"} /\ records.member = Persons
      /\ \A f \in People!Lists : records[f] = <<>>
  BY DEF People!Init, Persons, People!Lists
<1>2. /\ records.leave = <<>> /\ records.decision = <<>> /\ records.attendance = <<>> /\ records.correction = <<>>
      /\ records.review = <<>> /\ records.submission = <<>> /\ records.profile = <<>> /\ records.revocation = <<>>
      /\ records.offboarded = <<>>
  BY <1>1 DEF People!Lists
<1>3. /\ LeaveKept(<<>>, <<>>) /\ AttendanceKept(<<>>, <<>>) /\ ReviewKept(DOMAIN <<>>, <<>>, <<>>) /\ ProfileKept(<<>>, <<>>, <<>>)
  BY DEF LeaveKept, AttendanceKept, ReviewKept, ProfileKept
<1>. QED BY <1>1, <1>2, <1>3 DEF PeopleKept, HasPeople

\* Lists that a step leaves alone.
Untouched(F) == \A f \in F : records'[f] = records[f]
LeaveLists      == {"leave", "decision"}
AttendanceLists == {"attendance", "correction"}
ReviewLists     == {"review", "submission"}
ProfileLists    == {"profile", "revocation", "offboarded"}

\* Members, onboarding, policies.
LEMMA MemberSteps ==
  ASSUME People!PeopleInvariant,
         \/ \E e \in Employee : People!RemoveMember(e) \/ People!AddMember(e)
         \/ \E k \in PolicyKey : People!PublishPolicy(k)
         \/ \E p \in DOMAIN records.profile :
              People!StartOnboarding(p) \/ \E n \in ProviderReceipt, q \in DOMAIN records.policy : People!AcknowledgePolicy(p, q, n)
  PROVE  People!PeopleInvariant'
<1>1. PeopleKept(records) /\ HasPeople(records)
  BY PeopleForm DEF PeopleKept
<1>2. HasPeople(records') /\ Untouched(LeaveLists \cup AttendanceLists \cup ReviewLists \cup ProfileLists)
  <2>1. CASE \E e \in Employee : People!RemoveMember(e)
    BY <1>1, <2>1 DEF People!RemoveMember, People!member, HasPeople, People!Lists, Persons, Untouched, LeaveLists, AttendanceLists, ReviewLists, ProfileLists
  <2>2. CASE \E e \in Employee : People!AddMember(e)
    BY <1>1, <2>2 DEF People!AddMember, People!member, HasPeople, People!Lists, Persons, Untouched, LeaveLists, AttendanceLists, ReviewLists, ProfileLists
  <2>3. CASE \E k \in PolicyKey : People!PublishPolicy(k)
    BY <1>1, <2>3 DEF People!PublishPolicy, HasPeople, People!Lists, Persons, Untouched, LeaveLists, AttendanceLists, ReviewLists, ProfileLists
  <2>4. CASE \E p \in DOMAIN records.profile : People!StartOnboarding(p)
    BY <1>1, <2>4 DEF People!StartOnboarding, HasPeople, People!Lists, Persons, Untouched, LeaveLists, AttendanceLists, ReviewLists, ProfileLists
  <2>5. CASE \E p \in DOMAIN records.profile, n \in ProviderReceipt, q \in DOMAIN records.policy : People!AcknowledgePolicy(p, q, n)
    BY <1>1, <2>5 DEF People!AcknowledgePolicy, HasPeople, People!Lists, Persons, Untouched, LeaveLists, AttendanceLists, ReviewLists, ProfileLists
  <2>. QED BY <2>1, <2>2, <2>3, <2>4, <2>5
<1>3. PeopleKept(records')
  BY <1>1, <1>2 DEF PeopleKept, Untouched, LeaveLists, AttendanceLists, ReviewLists, ProfileLists
<1>. QED BY <1>3, PeopleFormNext

\* Leave and what is decided of it.
LEMMA LeaveSteps ==
  ASSUME People!PeopleInvariant,
         \/ \E p \in DOMAIN records.profile, n \in ProviderReceipt : People!RequestLeave(p, n)
         \/ \E n \in ProviderReceipt, l \in DOMAIN records.leave, v \in {"approved", "denied"} : People!DecideLeave(l, v, n)
  PROVE  People!PeopleInvariant'
<1>. DEFINE leave == records.leave
            decision == records.decision
            Rest == AttendanceLists \cup ReviewLists \cup ProfileLists
<1>1. PeopleKept(records) /\ HasPeople(records)
  BY PeopleForm DEF PeopleKept
<1>2. /\ LeaveKept(leave, decision) /\ leave \in Seq(LeaveOf) /\ decision \in Seq(LeaveDecision(DOMAIN leave))
      /\ \A l \in DOMAIN leave : leave[l] \in LeaveOf
      /\ \A d \in DOMAIN decision : decision[d].leave \in DOMAIN leave
  <2>1. LeaveKept(leave, decision) /\ leave \in Seq(LeaveOf) /\ decision \in Seq(LeaveDecision(DOMAIN leave))
    BY <1>1 DEF PeopleKept, LeaveKept
  <2>2. \A d \in DOMAIN decision : decision[d] \in LeaveDecision(DOMAIN leave)
    BY <2>1, ListType
  <2>. QED BY <2>1, <2>2, ListType DEF LeaveDecision
<1>3. ASSUME HasPeople(records'), Untouched(Rest), LeaveKept(records'.leave, records'.decision)
      PROVE  People!PeopleInvariant'
  <2>1. PeopleKept(records')
    BY <1>1, <1>3 DEF PeopleKept, Untouched, AttendanceLists, ReviewLists, ProfileLists
  <2>. QED BY <2>1, PeopleFormNext
<1>4. ASSUME NEW p \in DOMAIN records.profile, NEW n \in ProviderReceipt, People!RequestLeave(p, n)
      PROVE  People!PeopleInvariant'
  <2>. DEFINE x == [of |-> records.profile[p].of, receipt |-> n, state |-> "pending"]
              new == Append(leave, x)
  <2>1. records.profile[p] \in ProfileOf
    BY <1>1, ListType DEF PeopleKept, ProfileKept
  <2>2. x \in LeaveOf /\ x.state = "pending"
    BY <2>1 DEF ProfileOf, LeaveOf
  <2>3. HasPeople(records') /\ Untouched(Rest) /\ records'.leave = new /\ records'.decision = decision
    BY <1>1, <1>4 DEF People!RequestLeave, People!profile, HasPeople, People!Lists, Untouched, AttendanceLists, ReviewLists, ProfileLists
  <2>. HIDE DEF x
  <2>4. /\ new \in Seq(LeaveOf) /\ DOMAIN new = DOMAIN leave \cup {Len(leave) + 1} /\ new[Len(leave) + 1] = x
        /\ Len(leave) + 1 \notin DOMAIN leave /\ \A l \in DOMAIN leave : new[l] = leave[l]
    BY <1>2, <2>2, ListContinued DEF Continues
  <2>. HIDE DEF new
  <2>5. decision \in Seq(LeaveDecision(DOMAIN new))
    <3>1. LeaveDecision(DOMAIN leave) \subseteq LeaveDecision(DOMAIN new)
      BY <2>4 DEF LeaveDecision
    <3>2. decision \in [DOMAIN decision -> LeaveDecision(DOMAIN new)]
      BY <1>2, <3>1, ListType
    <3>. QED BY <1>2, <3>2, ListRetype
  <2>6. DecisionsOn(decision, Len(leave) + 1) = {}
    BY <1>2, <2>4 DEF DecisionsOn
  <2>7. LeaveKept(new, decision)
    BY <1>2, <2>2, <2>4, <2>5, <2>6 DEF LeaveKept
  <2>. QED BY <1>3, <2>3, <2>7
<1>5. ASSUME NEW l \in DOMAIN leave, NEW v \in {"approved", "denied"}, NEW n \in ProviderReceipt, People!DecideLeave(l, v, n)
      PROVE  People!PeopleInvariant'
  <2>. DEFINE x == [leave[l] EXCEPT !.state = v]
              y == [leave |-> l, verdict |-> v, receipt |-> n]
              new == [leave EXCEPT ![l] = x]
              more == Append(decision, y)
              d == Len(decision) + 1
  <2>1. x \in LeaveOf /\ x.state = v /\ y \in LeaveDecision(DOMAIN leave) /\ y.leave = l /\ y.verdict = v
    BY <1>2 DEF LeaveOf, LeaveDecision
  <2>2. /\ HasPeople(records') /\ Untouched(Rest) /\ records'.leave = new /\ records'.decision = more
        /\ leave[l].state = "pending"
    BY <1>1, <1>5 DEF People!DecideLeave, People!Deciding, People!leave, HasPeople, People!Lists, Untouched, AttendanceLists, ReviewLists, ProfileLists
  <2>. HIDE DEF x, y
  <2>3. /\ new \in Seq(LeaveOf) /\ DOMAIN new = DOMAIN leave /\ new[l] = x
        /\ \A k \in DOMAIN leave : k # l => new[k] = leave[k]
    BY <1>2, <2>1, ListChange, OneChangedBy
  <2>4. /\ more \in Seq(LeaveDecision(DOMAIN leave)) /\ DOMAIN more = DOMAIN decision \cup {d} /\ more[d] = y
        /\ \A e \in DOMAIN decision : more[e] = decision[e]
    BY <1>2, <2>1, ListContinued DEF Continues
  <2>. HIDE DEF new, more, d
  <2>5. DecisionsOn(more, l) = DecisionsOn(decision, l) \cup {d} /\ \A k : k # l => DecisionsOn(more, k) = DecisionsOn(decision, k)
    BY <2>1, <2>4 DEF DecisionsOn
  <2>6. DecisionsOn(decision, l) = {}
    BY <1>2, <2>2 DEF LeaveKept
  <2>7. ASSUME NEW k \in DOMAIN new
        PROVE  IF new[k].state = "pending" THEN DecisionsOn(more, k) = {}
               ELSE \E e : DecisionsOn(more, k) = {e} /\ more[e].verdict = new[k].state
    <3>1. CASE k = l
      BY <2>1, <2>3, <2>4, <2>5, <2>6, <3>1
    <3>2. CASE k # l
      <4>1. \A e : DecisionsOn(decision, k) = {e} => e \in DOMAIN decision
        BY DEF DecisionsOn
      <4>. QED BY <1>2, <2>3, <2>4, <2>5, <3>2, <4>1 DEF LeaveKept
    <3>. QED BY <3>1, <3>2
  <2>8. LeaveKept(new, more)
    BY <2>3, <2>4, <2>7 DEF LeaveKept
  <2>. QED BY <1>3, <2>2, <2>8
<1>. QED BY <1>4, <1>5

\* Attendance and its corrections.
LEMMA AttendanceSteps ==
  ASSUME People!PeopleInvariant,
         \/ \E p \in DOMAIN records.profile, n \in ProviderReceipt, i \in Interval : People!RecordAttendance(p, i, n)
         \/ \E n \in ProviderReceipt, a \in DOMAIN records.attendance, i \in Interval, v \in 1 .. MaxEach + 1 : People!CorrectAttendance(a, i, v, n)
  PROVE  People!PeopleInvariant'
<1>. DEFINE attendance == records.attendance
            correction == records.correction
            Rest == LeaveLists \cup ReviewLists \cup ProfileLists
            D == DOMAIN attendance
<1>1. PeopleKept(records) /\ HasPeople(records)
  BY PeopleForm DEF PeopleKept
<1>2. /\ attendance \in Seq(AttendanceOf) /\ correction \in Seq(CorrectionAt(D))
      /\ \A a \in D : attendance[a] \in AttendanceOf /\ ChainKept(correction, a, attendance[a])
      /\ \A c \in DOMAIN correction : correction[c].attendance \in D
  <2>1. attendance \in Seq(AttendanceOf) /\ correction \in Seq(CorrectionAt(D)) /\ \A a \in D : ChainKept(correction, a, attendance[a])
    BY <1>1 DEF PeopleKept, AttendanceKept
  <2>2. \A c \in DOMAIN correction : correction[c] \in CorrectionAt(D)
    BY <2>1, ListType
  <2>. QED BY <2>1, <2>2, ListType DEF CorrectionAt
<1>3. ASSUME HasPeople(records'), Untouched(Rest), AttendanceKept(records'.attendance, records'.correction)
      PROVE  People!PeopleInvariant'
  <2>1. PeopleKept(records')
    BY <1>1, <1>3 DEF PeopleKept, Untouched, LeaveLists, ReviewLists, ProfileLists
  <2>. QED BY <2>1, PeopleFormNext
<1>4. ASSUME NEW p \in DOMAIN records.profile, NEW n \in ProviderReceipt, NEW i \in Interval, People!RecordAttendance(p, i, n)
      PROVE  People!PeopleInvariant'
  <2>. DEFINE x == [of |-> records.profile[p].of, receipt |-> n, interval |-> i, version |-> 1]
              new == Append(attendance, x)
              m == Len(attendance) + 1
  <2>1. records.profile[p] \in ProfileOf
    BY <1>1, ListType DEF PeopleKept, ProfileKept
  <2>2. x \in AttendanceOf /\ x.version = 1
    BY <2>1 DEF ProfileOf, AttendanceOf
  <2>3. HasPeople(records') /\ Untouched(Rest) /\ records'.attendance = new /\ records'.correction = correction
    BY <1>1, <1>4 DEF People!RecordAttendance, People!profile, HasPeople, People!Lists, Untouched, LeaveLists, ReviewLists, ProfileLists
  <2>. HIDE DEF x
  <2>4. /\ new \in Seq(AttendanceOf) /\ DOMAIN new = D \cup {m} /\ new[m] = x
        /\ m \notin D /\ \A a \in D : new[a] = attendance[a]
    BY <1>2, <2>2, ListContinued DEF Continues
  <2>. HIDE DEF new, m
  <2>5. correction \in Seq(CorrectionAt(DOMAIN new))
    <3>1. CorrectionAt(D) \subseteq CorrectionAt(DOMAIN new)
      BY <2>4 DEF CorrectionAt
    <3>2. correction \in [DOMAIN correction -> CorrectionAt(DOMAIN new)]
      BY <1>2, <3>1, ListType
    <3>. QED BY <1>2, <3>2, ListRetype
  <2>6. ChainOf(correction, m) = {} /\ Cardinality({}) = 0
    BY <1>2, <2>4, FS_EmptySet DEF ChainOf
  <2>7. ChainKept(correction, m, x)
    BY <2>2, <2>6 DEF ChainKept
  <2>8. AttendanceKept(new, correction)
    BY <1>2, <2>4, <2>5, <2>7 DEF AttendanceKept
  <2>. QED BY <1>3, <2>3, <2>8
<1>5. ASSUME NEW a \in D, NEW n \in ProviderReceipt, NEW i \in Interval, NEW v \in 1 .. MaxEach + 1, People!CorrectAttendance(a, i, v, n)
      PROVE  People!PeopleInvariant'
  <2>. DEFINE x == [attendance[a] EXCEPT !.interval = i, !.version = v + 1]
              y == [attendance |-> a, from |-> attendance[a].interval, to |-> i, receipt |-> n]
              new == [attendance EXCEPT ![a] = x]
              more == Append(correction, y)
              m == Len(correction) + 1
              C == ChainOf(correction, a)
  <2>1. v = attendance[a].version /\ v \in Nat /\ v + 1 \in Nat
    <3>1. v = attendance[a].version
      BY <1>5 DEF People!CorrectAttendance, People!attendance
    <3>2. v \in Nat
      BY <1>2, <3>1 DEF AttendanceOf
    <3>. QED BY <3>1, <3>2
  <2>2. /\ x \in AttendanceOf /\ x.interval = i /\ x.version = v + 1
        /\ y \in CorrectionAt(D) /\ y.attendance = a /\ y.from = attendance[a].interval /\ y.to = i
    BY <1>2, <2>1 DEF AttendanceOf, CorrectionAt
  <2>3. HasPeople(records') /\ Untouched(Rest) /\ records'.attendance = new /\ records'.correction = more
    BY <1>1, <1>2, <1>5 DEF People!CorrectAttendance, People!attendance, HasPeople, People!Lists, Untouched, LeaveLists, ReviewLists, ProfileLists
  <2>. HIDE DEF x, y
  <2>4. /\ new \in Seq(AttendanceOf) /\ DOMAIN new = D /\ new[a] = x /\ \A b \in D : b # a => new[b] = attendance[b]
    BY <1>2, <2>2, ListChange, OneChangedBy
  <2>5. /\ more \in Seq(CorrectionAt(D)) /\ DOMAIN more = DOMAIN correction \cup {m} /\ more[m] = y
        /\ \A c \in DOMAIN correction : more[c] = correction[c]
        /\ m \in Nat /\ m \notin DOMAIN correction /\ \A c \in DOMAIN correction : c \in Nat /\ c < m
    BY <1>2, <2>2, ListContinued, ListType DEF Continues
  <2>. HIDE DEF new, more, m
  <2>6. ChainOf(more, a) = C \cup {m} /\ \A b : b # a => ChainOf(more, b) = ChainOf(correction, b)
    BY <2>2, <2>5 DEF ChainOf
  <2>7. C \subseteq DOMAIN correction /\ IsFiniteSet(C) /\ m \notin C /\ \A c \in C : c \in Nat /\ c < m /\ more[c] = correction[c]
    <3>1. C \subseteq DOMAIN correction /\ IsFiniteSet(C)
      BY <1>2, ListType, FS_Subset DEF ChainOf
    <3>. QED BY <2>5, <3>1
  <2>8. /\ v = Cardinality(C) + 1
        /\ \A c \in C : (\A e \in C : e <= c) => correction[c].to = attendance[a].interval
        /\ \A c, d \in C : (c < d /\ \A e \in C : e <= c \/ e >= d) => correction[c].to = correction[d].from
    BY <1>2, <2>1 DEF ChainKept
  <2>. HIDE DEF C
  <2>9. Cardinality(C \cup {m}) = Cardinality(C) + 1
    BY <2>7, FS_AddElement
  <2>10. ASSUME NEW c \in C \cup {m}, \A e \in C \cup {m} : e <= c PROVE more[c].to = i
    <3>1. c = m
      BY <2>5, <2>7, <2>10
    <3>. QED BY <2>2, <2>5, <3>1
  <2>11. ASSUME NEW c \in C \cup {m}, NEW d \in C \cup {m}, c < d, \A e \in C \cup {m} : e <= c \/ e >= d
         PROVE  more[c].to = more[d].from
    <3>1. c \in C
      BY <2>5, <2>7, <2>11
    <3>2. CASE d \in C
      BY <2>7, <2>8, <2>11, <3>1, <3>2
    <3>3. CASE d = m
      <4>1. \A e \in C : e <= c
        BY <2>5, <2>7, <2>11, <3>3
      <4>. QED BY <2>2, <2>5, <2>7, <2>8, <3>1, <3>3, <4>1
    <3>. QED BY <3>2, <3>3
  <2>12. ChainKept(more, a, x)
    BY <2>2, <2>6, <2>8, <2>9, <2>10, <2>11 DEF ChainKept
  <2>13. ASSUME NEW b \in D, b # a PROVE ChainKept(more, b, attendance[b])
    <3>1. ChainOf(more, b) = ChainOf(correction, b) /\ ChainKept(correction, b, attendance[b])
      BY <1>2, <2>6, <2>13
    <3>2. \A c \in ChainOf(correction, b) : more[c] = correction[c]
      BY <2>5 DEF ChainOf
    <3>. QED BY <3>1, <3>2 DEF ChainKept
  <2>14. AttendanceKept(new, more)
    BY <2>4, <2>5, <2>12, <2>13 DEF AttendanceKept
  <2>. QED BY <1>3, <2>3, <2>14
<1>. QED BY <1>4, <1>5

\* Reviews and their submissions.
LEMMA ReviewSteps ==
  ASSUME People!PeopleInvariant,
         \/ \E p \in DOMAIN records.profile, c \in Cycle, m \in records.member : People!OpenReview(p, c, m)
         \/ \E n \in ProviderReceipt, r \in DOMAIN records.review, m \in records.member : People!SubmitReview(r, m, n)
  PROVE  People!PeopleInvariant'
<1>. DEFINE review == records.review
            submission == records.submission
            Rest == LeaveLists \cup AttendanceLists \cup ProfileLists
            D == DOMAIN records.profile
<1>1. PeopleKept(records) /\ HasPeople(records) /\ records.member \subseteq Persons
  BY PeopleForm DEF PeopleKept, HasPeople
<1>2. /\ ReviewKept(D, review, submission) /\ review \in Seq(ReviewAt(D)) /\ submission \in Seq(SubmissionAt(DOMAIN review))
      /\ \A r \in DOMAIN review : review[r] \in ReviewAt(D)
      /\ \A s \in DOMAIN submission : submission[s].review \in DOMAIN review
  <2>1. ReviewKept(D, review, submission) /\ review \in Seq(ReviewAt(D)) /\ submission \in Seq(SubmissionAt(DOMAIN review))
    BY <1>1 DEF PeopleKept, ReviewKept
  <2>2. \A s \in DOMAIN submission : submission[s] \in SubmissionAt(DOMAIN review)
    BY <2>1, ListType
  <2>. QED BY <2>1, <2>2, ListType DEF SubmissionAt
<1>3. ASSUME HasPeople(records'), Untouched(Rest), ReviewKept(D, records'.review, records'.submission)
      PROVE  People!PeopleInvariant'
  <2>1. PeopleKept(records')
    BY <1>1, <1>3 DEF PeopleKept, Untouched, LeaveLists, AttendanceLists, ProfileLists
  <2>. QED BY <2>1, PeopleFormNext
<1>4. ASSUME NEW p \in D, NEW c \in Cycle, NEW m \in records.member, People!OpenReview(p, c, m)
      PROVE  People!PeopleInvariant'
  <2>. DEFINE x == [profile |-> p, cycle |-> c, reviewer |-> m, state |-> "open"]
              new == Append(review, x)
              n == Len(review) + 1
  <2>1. x \in ReviewAt(D) /\ x.state = "open"
    BY <1>1 DEF ReviewAt
  <2>2. HasPeople(records') /\ Untouched(Rest) /\ records'.review = new /\ records'.submission = submission
    BY <1>1, <1>4 DEF People!OpenReview, HasPeople, People!Lists, Untouched, LeaveLists, AttendanceLists, ProfileLists
  <2>. HIDE DEF x
  <2>3. /\ new \in Seq(ReviewAt(D)) /\ DOMAIN new = DOMAIN review \cup {n} /\ new[n] = x
        /\ n \notin DOMAIN review /\ \A r \in DOMAIN review : new[r] = review[r]
    BY <1>2, <2>1, ListContinued DEF Continues
  <2>. HIDE DEF new, n
  <2>4. submission \in Seq(SubmissionAt(DOMAIN new))
    <3>1. SubmissionAt(DOMAIN review) \subseteq SubmissionAt(DOMAIN new)
      BY <2>3 DEF SubmissionAt
    <3>2. submission \in [DOMAIN submission -> SubmissionAt(DOMAIN new)]
      BY <1>2, <3>1, ListType
    <3>. QED BY <1>2, <3>2, ListRetype
  <2>5. SentFor(submission, n) = {}
    BY <1>2, <2>3 DEF SentFor
  <2>6. ReviewKept(D, new, submission)
    BY <1>2, <2>1, <2>3, <2>4, <2>5 DEF ReviewKept
  <2>. QED BY <1>3, <2>2, <2>6
<1>5. ASSUME NEW n \in ProviderReceipt, NEW r \in DOMAIN review, NEW m \in records.member, People!SubmitReview(r, m, n)
      PROVE  People!PeopleInvariant'
  <2>. DEFINE x == [review[r] EXCEPT !.state = "submitted"]
              y == [review |-> r, by |-> m, receipt |-> n]
              new == [review EXCEPT ![r] = x]
              more == Append(submission, y)
              d == Len(submission) + 1
  <2>1. /\ x \in ReviewAt(D) /\ x.state = "submitted" /\ x.reviewer = review[r].reviewer
        /\ y \in SubmissionAt(DOMAIN review) /\ y.review = r /\ y.by = m
    BY <1>1, <1>2 DEF ReviewAt, SubmissionAt
  <2>2. /\ HasPeople(records') /\ Untouched(Rest) /\ records'.review = new /\ records'.submission = more
        /\ review[r].state = "open" /\ review[r].reviewer = m
    BY <1>1, <1>5 DEF People!SubmitReview, People!review, HasPeople, People!Lists, Untouched, LeaveLists, AttendanceLists, ProfileLists
  <2>. HIDE DEF x, y
  <2>3. /\ new \in Seq(ReviewAt(D)) /\ DOMAIN new = DOMAIN review /\ new[r] = x
        /\ \A q \in DOMAIN review : q # r => new[q] = review[q]
    BY <1>2, <2>1, ListChange, OneChangedBy
  <2>4. /\ more \in Seq(SubmissionAt(DOMAIN review)) /\ DOMAIN more = DOMAIN submission \cup {d} /\ more[d] = y
        /\ \A e \in DOMAIN submission : more[e] = submission[e]
    BY <1>2, <2>1, ListContinued DEF Continues
  <2>. HIDE DEF new, more, d
  <2>5. SentFor(more, r) = SentFor(submission, r) \cup {d} /\ \A q : q # r => SentFor(more, q) = SentFor(submission, q)
    BY <2>1, <2>4 DEF SentFor
  <2>6. SentFor(submission, r) = {}
    BY <1>2, <2>2 DEF ReviewKept
  <2>7. ASSUME NEW q \in DOMAIN new
        PROVE  IF new[q].state = "submitted" THEN \E s : SentFor(more, q) = {s} /\ more[s].by = new[q].reviewer
               ELSE SentFor(more, q) = {}
    <3>1. CASE q = r
      BY <2>1, <2>2, <2>3, <2>4, <2>5, <2>6, <3>1
    <3>2. CASE q # r
      <4>1. \A s : SentFor(submission, q) = {s} => s \in DOMAIN submission
        BY DEF SentFor
      <4>. QED BY <1>2, <2>3, <2>4, <2>5, <3>2, <4>1 DEF ReviewKept
    <3>. QED BY <3>1, <3>2
  <2>8. ReviewKept(D, new, more)
    BY <2>3, <2>4, <2>7 DEF ReviewKept
  <2>. QED BY <1>3, <2>2, <2>8
<1>. QED BY <1>4, <1>5

\* Profiles, revocations and who has left.
LEMMA ProfileSteps ==
  ASSUME People!PeopleInvariant,
         \/ \E e \in Employee, m \in records.member, w \in Privacy : People!CreateProfile(e, m, w)
         \/ \E p \in DOMAIN records.profile, n \in ProviderReceipt, t \in 0 .. PeopleHorizon : People!RecordAccessRevocation(p, t, n)
         \/ \E p \in DOMAIN records.profile, t \in 0 .. PeopleHorizon, V \in SUBSET DOMAIN records.revocation : People!Offboard(p, t, V)
  PROVE  People!PeopleInvariant'
<1>. DEFINE profile == records.profile
            revocation == records.revocation
            offboarded == records.offboarded
            review == records.review
            Rest == LeaveLists \cup AttendanceLists \cup ReviewLists
            D == DOMAIN profile
            E == DOMAIN revocation
<1>1. PeopleKept(records) /\ HasPeople(records) /\ records.member \subseteq Persons
  BY PeopleForm DEF PeopleKept, HasPeople
<1>2. /\ profile \in Seq(ProfileOf) /\ revocation \in Seq(RevocationAt(D)) /\ offboarded \in Seq(ClosingAt(D, E))
      /\ \A p \in D : profile[p] \in ProfileOf
      /\ \A p \in D : IF profile[p].state = "offboarded"
                      THEN \E o : ClosingOf(offboarded, p) = {o} /\ Grounded(revocation, p, offboarded[o])
                      ELSE ClosingOf(offboarded, p) = {}
      /\ \A o \in DOMAIN offboarded : offboarded[o] \in ClosingAt(D, E) /\ offboarded[o].profile \in D /\ offboarded[o].receipts \subseteq E
  <2>1. ProfileKept(profile, revocation, offboarded)
    BY <1>1 DEF PeopleKept
  <2>2. profile \in Seq(ProfileOf) /\ offboarded \in Seq(ClosingAt(D, E))
    BY <2>1 DEF ProfileKept
  <2>3. \A o \in DOMAIN offboarded : offboarded[o] \in ClosingAt(D, E)
    BY <2>2, ListType
  <2>4. \A o \in DOMAIN offboarded : offboarded[o].profile \in D /\ offboarded[o].receipts \subseteq E
    BY <2>3 DEF ClosingAt
  <2>. QED BY <2>1, <2>2, <2>3, <2>4, ListType DEF ProfileKept
<1>3. review \in Seq(ReviewAt(D)) /\ \A E2 : D \subseteq E2 => review \in Seq(ReviewAt(E2))
  <2>1. review \in Seq(ReviewAt(D)) /\ review \in [DOMAIN review -> ReviewAt(D)]
    BY <1>1, ListType DEF PeopleKept, ReviewKept
  <2>2. ASSUME NEW E2, D \subseteq E2 PROVE review \in Seq(ReviewAt(E2))
    <3>1. ReviewAt(D) \subseteq ReviewAt(E2)
      BY <2>2 DEF ReviewAt
    <3>2. review \in [DOMAIN review -> ReviewAt(E2)]
      BY <2>1, <3>1
    <3>. QED BY <2>1, <3>2, ListRetype
  <2>. QED BY <2>1, <2>2
<1>4. ASSUME HasPeople(records'), Untouched(Rest), ProfileKept(records'.profile, records'.revocation, records'.offboarded),
             D \subseteq DOMAIN records'.profile
      PROVE  People!PeopleInvariant'
  <2>1. ReviewKept(DOMAIN records'.profile, review, records.submission)
    BY <1>1, <1>3, <1>4 DEF PeopleKept, ReviewKept
  <2>2. PeopleKept(records')
    BY <1>1, <1>4, <2>1 DEF PeopleKept, Untouched, LeaveLists, AttendanceLists, ReviewLists
  <2>. QED BY <2>2, PeopleFormNext
<1>5. ASSUME NEW e \in Employee, NEW m \in records.member, NEW w \in Privacy, People!CreateProfile(e, m, w)
      PROVE  People!PeopleInvariant'
  <2>. DEFINE x == [of |-> e, manager |-> m, privacy |-> w, state |-> "active", version |-> 1]
              new == Append(profile, x)
              n == Len(profile) + 1
  <2>1. x \in ProfileOf /\ x.state = "active"
    BY <1>1 DEF ProfileOf
  <2>2. HasPeople(records') /\ Untouched(Rest) /\ records'.profile = new /\ records'.revocation = revocation /\ records'.offboarded = offboarded
    BY <1>1, <1>5 DEF People!CreateProfile, HasPeople, People!Lists, Untouched, LeaveLists, AttendanceLists, ReviewLists
  <2>. HIDE DEF x
  <2>3. /\ new \in Seq(ProfileOf) /\ DOMAIN new = D \cup {n} /\ new[n] = x /\ n \notin D /\ \A p \in D : new[p] = profile[p]
    BY <1>2, <2>1, ListContinued DEF Continues
  <2>. HIDE DEF new, n
  <2>4. revocation \in Seq(RevocationAt(DOMAIN new))
    <3>1. RevocationAt(D) \subseteq RevocationAt(DOMAIN new)
      BY <2>3 DEF RevocationAt
    <3>2. revocation \in [E -> RevocationAt(DOMAIN new)]
      BY <1>2, <3>1, ListType
    <3>. QED BY <1>2, <3>2, ListRetype
  <2>5. offboarded \in Seq(ClosingAt(DOMAIN new, E))
    <3>1. ClosingAt(D, E) \subseteq ClosingAt(DOMAIN new, E)
      BY <2>3 DEF ClosingAt
    <3>2. offboarded \in [DOMAIN offboarded -> ClosingAt(DOMAIN new, E)]
      BY <1>2, <3>1, ListType
    <3>. QED BY <1>2, <3>2, ListRetype
  <2>6. ClosingOf(offboarded, n) = {}
    BY <1>2, <2>3 DEF ClosingOf
  <2>7. ProfileKept(new, revocation, offboarded)
    BY <1>2, <2>1, <2>3, <2>4, <2>5, <2>6 DEF ProfileKept
  <2>. QED BY <1>4, <2>2, <2>3, <2>7
<1>6. ASSUME NEW p \in D, NEW n \in ProviderReceipt, NEW t \in 0 .. PeopleHorizon, People!RecordAccessRevocation(p, t, n)
      PROVE  People!PeopleInvariant'
  <2>. DEFINE x == [profile |-> p, at |-> t, receipt |-> n]
              new == Append(revocation, x)
  <2>1. x \in RevocationAt(D)
    BY OnceAssumption DEF RevocationAt
  <2>2. HasPeople(records') /\ Untouched(Rest) /\ records'.profile = profile /\ records'.revocation = new /\ records'.offboarded = offboarded
    BY <1>1, <1>6 DEF People!RecordAccessRevocation, HasPeople, People!Lists, Untouched, LeaveLists, AttendanceLists, ReviewLists
  <2>. HIDE DEF x
  <2>3. /\ new \in Seq(RevocationAt(D)) /\ E \subseteq DOMAIN new /\ \A v \in E : new[v] = revocation[v]
    BY <1>2, <2>1, ListContinued DEF Continues
  <2>. HIDE DEF new
  <2>4. offboarded \in Seq(ClosingAt(D, DOMAIN new))
    <3>1. ClosingAt(D, E) \subseteq ClosingAt(D, DOMAIN new)
      BY <2>3 DEF ClosingAt
    <3>2. offboarded \in [DOMAIN offboarded -> ClosingAt(D, DOMAIN new)]
      BY <1>2, <3>1, ListType
    <3>. QED BY <1>2, <3>2, ListRetype
  <2>5. ASSUME NEW q \in D, NEW o, ClosingOf(offboarded, q) = {o}, Grounded(revocation, q, offboarded[o])
        PROVE  Grounded(new, q, offboarded[o])
    <3>1. o \in DOMAIN offboarded
      BY <2>5 DEF ClosingOf
    <3>. QED BY <1>2, <2>3, <2>5, <3>1 DEF Grounded
  <2>6. ProfileKept(profile, new, offboarded)
    BY <1>2, <2>3, <2>4, <2>5 DEF ProfileKept
  <2>. QED BY <1>4, <2>2, <2>6
<1>7. ASSUME NEW p \in D, NEW t \in 0 .. PeopleHorizon, NEW V \in SUBSET E, People!Offboard(p, t, V)
      PROVE  People!PeopleInvariant'
  <2>. DEFINE x == [profile[p] EXCEPT !.state = "offboarded", !.version = @ + 1]
              y == [profile |-> p, at |-> t, receipts |-> V]
              new == [profile EXCEPT ![p] = x]
              more == Append(offboarded, y)
              d == Len(offboarded) + 1
  <2>1. /\ x \in ProfileOf /\ x.state = "offboarded"
        /\ y \in ClosingAt(D, E) /\ y.profile = p /\ y.receipts = V /\ y.at = t
    <3>1. profile[p] \in ProfileOf
      BY <1>2, ListType
    <3>2. profile[p].version + 1 \in Nat
      BY <3>1 DEF ProfileOf
    <3>3. x \in ProfileOf /\ x.state = "offboarded"
      BY <3>1, <3>2 DEF ProfileOf
    <3>4. t \in Nat
      BY OnceAssumption
    <3>5. y \in ClosingAt(D, E)
      BY <3>4 DEF ClosingAt
    <3>. QED BY <3>3, <3>5
  <2>2. /\ HasPeople(records') /\ Untouched(Rest) /\ records'.profile = new /\ records'.revocation = revocation
        /\ records'.offboarded = more
    BY <1>1, <1>2, <1>7 DEF People!Offboard, People!profile, People!member, HasPeople, People!Lists, Untouched, LeaveLists, AttendanceLists, ReviewLists
  <2>3. profile[p].state = "active" /\ V # {} /\ \A v \in V : revocation[v].profile = p /\ revocation[v].at <= t
    BY <1>7 DEF People!Offboard, People!profile, People!revocation
  <2>. HIDE DEF x, y
  <2>4. Grounded(revocation, p, y)
    BY <2>1, <2>3 DEF Grounded
  <2>5. /\ new \in Seq(ProfileOf) /\ DOMAIN new = D /\ new[p] = x
        /\ \A q \in D : q # p => new[q] = profile[q]
    BY <1>2, <2>1, ListChange, OneChangedBy
  <2>6. /\ more \in Seq(ClosingAt(D, E)) /\ DOMAIN more = DOMAIN offboarded \cup {d} /\ more[d] = y
        /\ \A e \in DOMAIN offboarded : more[e] = offboarded[e]
    BY <1>2, <2>1, ListContinued DEF Continues
  <2>. HIDE DEF new, more, d
  <2>7. ClosingOf(more, p) = ClosingOf(offboarded, p) \cup {d} /\ \A q : q # p => ClosingOf(more, q) = ClosingOf(offboarded, q)
    BY <2>1, <2>6 DEF ClosingOf
  <2>8. ClosingOf(offboarded, p) = {}
    BY <1>2, <2>3
  <2>9. ASSUME NEW q \in D
        PROVE  IF new[q].state = "offboarded" THEN \E o : ClosingOf(more, q) = {o} /\ Grounded(revocation, q, more[o])
               ELSE ClosingOf(more, q) = {}
    <3>1. CASE q = p
      BY <2>1, <2>4, <2>5, <2>6, <2>7, <2>8, <3>1
    <3>2. CASE q # p
      <4>1. \A o : ClosingOf(offboarded, q) = {o} => o \in DOMAIN offboarded
        BY DEF ClosingOf
      <4>. QED BY <1>2, <2>5, <2>6, <2>7, <3>2, <4>1
    <3>. QED BY <3>1, <3>2
  <2>10. ProfileKept(new, revocation, more)
    BY <1>2, <2>5, <2>6, <2>9 DEF ProfileKept
  <2>. QED BY <1>4, <2>2, <2>5, <2>10
<1>. QED BY <1>5, <1>6, <1>7

LEMMA PeopleStep ==
  ASSUME People!PeopleInvariant, People!Next
  PROVE  People!PeopleInvariant'
<1>1. CASE \/ \E e \in Employee : People!RemoveMember(e) \/ People!AddMember(e)
           \/ \E k \in PolicyKey : People!PublishPolicy(k)
           \/ \E p \in DOMAIN records.profile :
                People!StartOnboarding(p) \/ \E n \in ProviderReceipt, q \in DOMAIN records.policy : People!AcknowledgePolicy(p, q, n)
  BY <1>1, MemberSteps
<1>2. CASE \/ \E p \in DOMAIN records.profile, n \in ProviderReceipt : People!RequestLeave(p, n)
           \/ \E n \in ProviderReceipt, l \in DOMAIN records.leave, v \in {"approved", "denied"} : People!DecideLeave(l, v, n)
  BY <1>2, LeaveSteps
<1>3. CASE \/ \E p \in DOMAIN records.profile, n \in ProviderReceipt, i \in Interval : People!RecordAttendance(p, i, n)
           \/ \E n \in ProviderReceipt, a \in DOMAIN records.attendance, i \in Interval, v \in 1 .. MaxEach + 1 : People!CorrectAttendance(a, i, v, n)
  BY <1>3, AttendanceSteps
<1>4. CASE \/ \E p \in DOMAIN records.profile, c \in Cycle, m \in records.member : People!OpenReview(p, c, m)
           \/ \E n \in ProviderReceipt, r \in DOMAIN records.review, m \in records.member : People!SubmitReview(r, m, n)
  BY <1>4, ReviewSteps
<1>5. CASE \/ \E e \in Employee, m \in records.member, w \in Privacy : People!CreateProfile(e, m, w)
           \/ \E p \in DOMAIN records.profile, n \in ProviderReceipt, t \in 0 .. PeopleHorizon : People!RecordAccessRevocation(p, t, n)
           \/ \E p \in DOMAIN records.profile, t \in 0 .. PeopleHorizon, V \in SUBSET DOMAIN records.revocation : People!Offboard(p, t, V)
  BY <1>5, ProfileSteps
<1>. QED BY <1>1, <1>2, <1>3, <1>4, <1>5 DEF People!Next, People!member, People!profile, People!policy, People!leave,
            People!attendance, People!review, People!revocation

LEMMA PeopleKeeps ==
  ASSUME People!PeopleInvariant
  PROVE  People!DecidedOnce
BY DEF People!PeopleInvariant

-----------------------------------------------------------------------------
(* events: types, reservations, tickets, refunds.                          *)

SeatType         == [quantity : SeatQuantity, price : SeatPrice]
SeatsHeld(D)     == [type : D, quantity : SeatQuantity, expires : Nat, state : {"reserved", "paid"}]
SeatCheckout(D)  == [reservation : D, amount : Nat, state : {"pending", "paid"}]
SeatPayment(D)   == [reservation : D, receipt : ProviderReceipt, amount : Nat]
TicketOf(D, P)   == [reservation : D, payment : P, ordinal : Nat, state : {"issued", "checked-in", "refunded"}]
RefundAsked(D)   == [ticket : D, amount : Refund, state : {"pending", "completed"}]
RefundPaid(D)    == [ticket : D, receipt : ProviderReceipt, amount : Refund]

EventLists   == {"type", "reservation", "checkout", "payment", "ticket", "request", "refund"}
HasEvents(r) == {"now", "event"} \cup EventLists \subseteq DOMAIN r

SeatsOf(lst)                    == [i \in DOMAIN lst |-> lst[i].quantity]
Holding(reservation, now, r)    == reservation[r].state = "paid" \/ (reservation[r].state = "reserved" /\ reservation[r].expires > now)
TakenFrom(reservation, now, t)  == {r \in DOMAIN reservation : reservation[r].type = t /\ Holding(reservation, now, r)}
TicketsFor(reservation, ticket, t) == {k \in DOMAIN ticket : reservation[ticket[k].reservation].type = t}
GivenBack(refund, k)            == {f \in DOMAIN refund : refund[f].ticket = k}
CostOf(type, reservation, x)    == type[reservation[x.reservation].type].price

TypesKept(type) == type \in Seq(SeatType) /\ QuantitySum(type, DOMAIN type) <= Seats
HoldsKept(type, reservation, now) ==
  /\ now \in Nat /\ reservation \in Seq(SeatsHeld(DOMAIN type))
  /\ \A t \in DOMAIN type : QuantitySum(reservation, TakenFrom(reservation, now, t)) <= type[t].quantity
Bought(reservation, x) == reservation[x.reservation].state = "paid" /\ x.ordinal \in 1 .. reservation[x.reservation].quantity
TicketsKept(reservation, checkout, payment, ticket) ==
  /\ checkout \in Seq(SeatCheckout(DOMAIN reservation)) /\ payment \in Seq(SeatPayment(DOMAIN reservation))
  /\ ticket \in Seq(TicketOf(DOMAIN reservation, DOMAIN payment))
  /\ \A k \in DOMAIN ticket : Bought(reservation, ticket[k])
  /\ \A k, l \in DOMAIN ticket :
       ticket[k].reservation = ticket[l].reservation /\ ticket[k].ordinal = ticket[l].ordinal => k = l
BackOnce(refund, k, x, cost) ==
  IF x.state = "refunded" THEN \E f : GivenBack(refund, k) = {f} /\ refund[f].amount <= cost ELSE GivenBack(refund, k) = {}
RefundsKept(type, reservation, ticket, request, refund) ==
  /\ request \in Seq(RefundAsked(DOMAIN ticket)) /\ refund \in Seq(RefundPaid(DOMAIN ticket))
  /\ \A k \in DOMAIN ticket : BackOnce(refund, k, ticket[k], CostOf(type, reservation, ticket[k]))

EventsKept(r) ==
  /\ HasEvents(r) /\ TypesKept(r.type) /\ HoldsKept(r.type, r.reservation, r.now)
  /\ TicketsKept(r.reservation, r.checkout, r.payment, r.ticket)
  /\ RefundsKept(r.type, r.reservation, r.ticket, r.request, r.refund)

\* Seats taken are what their reservations hold.
LEMMA TakenIsSum ==
  ASSUME NEW D, NEW reservation \in Seq(SeatsHeld(D)), NEW S \in SUBSET DOMAIN reservation
  PROVE  /\ QuantitySum(reservation, S) = SumOver(SeatsOf(reservation), S)
         /\ IsFiniteSet(S) /\ \A r \in S : SeatsOf(reservation)[r] = reservation[r].quantity /\ SeatsOf(reservation)[r] \in Nat
<1>1. IsFiniteSet(S) /\ \A r \in DOMAIN reservation : reservation[r] \in SeatsHeld(D)
  BY ListType, FS_Subset
<1>2. \A r \in S : SeatsOf(reservation)[r] = reservation[r].quantity /\ SeatsOf(reservation)[r] \in Nat
  BY <1>1, OnceAssumption DEF SeatsOf, SeatsHeld
<1>. QED BY <1>1, <1>2, QuantityIsSum

\* There are no more tickets of a type than it has seats.
LEMMA TicketsAreHeld ==
  ASSUME NEW type, TypesKept(type), NEW reservation, NEW now, HoldsKept(type, reservation, now),
         NEW checkout, NEW payment, NEW ticket, TicketsKept(reservation, checkout, payment, ticket), NEW t \in DOMAIN type
  PROVE  Cardinality(TicketsFor(reservation, ticket, t)) <= type[t].quantity
<1>. DEFINE S == TicketsFor(reservation, ticket, t)
            R == TakenFrom(reservation, now, t)
            m == [k \in DOMAIN ticket |-> ticket[k].reservation]
            o == [k \in DOMAIN ticket |-> ticket[k].ordinal]
            q == SeatsOf(reservation)
<1>1. reservation \in Seq(SeatsHeld(DOMAIN type)) /\ QuantitySum(reservation, R) <= type[t].quantity /\ R \in SUBSET DOMAIN reservation
  BY DEF HoldsKept, TakenFrom
<1>2. QuantitySum(reservation, R) = SumOver(q, R) /\ IsFiniteSet(R) /\ \A r \in R : q[r] = reservation[r].quantity /\ q[r] \in Nat
  <2>. HIDE DEF R, q
  <2>. QED BY <1>1, TakenIsSum DEF q
<1>3. ticket \in Seq(TicketOf(DOMAIN reservation, DOMAIN payment))
  BY DEF TicketsKept
<1>4. S \in SUBSET DOMAIN ticket /\ IsFiniteSet(DOMAIN ticket) /\ \A k \in DOMAIN ticket : ticket[k].reservation \in DOMAIN reservation
  <2>1. IsFiniteSet(DOMAIN ticket) /\ \A k \in DOMAIN ticket : ticket[k] \in TicketOf(DOMAIN reservation, DOMAIN payment)
    BY <1>3, ListType
  <2>. QED BY <2>1 DEF TicketsFor, TicketOf
<1>5. \A k \in S : m[k] \in R /\ o[k] \in 1 .. q[m[k]]
  <2>1. ASSUME NEW k \in S PROVE m[k] \in R /\ o[k] \in 1 .. reservation[m[k]].quantity
    BY <1>4 DEF TicketsFor, TakenFrom, Holding, TicketsKept, Bought
  <2>. QED BY <1>2, <2>1
<1>6. \A k, l \in S : m[k] = m[l] /\ o[k] = o[l] => k = l
  BY <1>4 DEF TicketsKept
<1>7. IsFiniteSet(S)
  BY <1>4, FS_Subset
<1>. HIDE DEF S, R, m, o, q
<1>8. Cardinality(S) <= SumOver(q, R)
  BY <1>2, <1>5, <1>6, <1>7, FibresCount
<1>9. Cardinality(S) \in Nat /\ SumOver(q, R) \in Nat
  BY <1>2, <1>7, FS_CardinalityType, SumNat
<1>10. type[t].quantity \in Nat
  <2>1. type[t] \in SeatType
    BY ListType DEF TypesKept
  <2>. QED BY <2>1, OnceAssumption DEF SeatType
<1>. QED BY <1>1, <1>2, <1>8, <1>9, <1>10 DEF S

LEMMA BackForm ==
  ASSUME NEW D, NEW refund \in Seq(RefundPaid(D)), NEW k, NEW x, NEW cost \in Nat
  PROVE  BackOnce(refund, k, x, cost)
         <=> /\ Cardinality(GivenBack(refund, k)) = IF x.state = "refunded" THEN 1 ELSE 0
             /\ PaidSum(refund, GivenBack(refund, k)) <= cost
<1>. DEFINE S == GivenBack(refund, k)
            f == [e \in DOMAIN refund |-> refund[e].amount]
<1>1. S \in SUBSET DOMAIN refund /\ IsFiniteSet(S)
  BY ListType, FS_Subset DEF GivenBack
<1>2. \A e \in DOMAIN refund : f[e] = refund[e].amount /\ f[e] \in Nat
  <2>1. \A e \in DOMAIN refund : refund[e] \in RefundPaid(D)
    BY ListType
  <2>. QED BY <2>1, OnceAssumption DEF RefundPaid
<1>. HIDE DEF S, f
<1>3. PaidSum(refund, S) = SumOver(f, S)
  BY <1>1, <1>2, PaidSumIsSum
<1>4. S = {} => SumOver(f, S) = 0
  BY SumEmpty
<1>5. ASSUME NEW e, S = {e} PROVE SumOver(f, S) = refund[e].amount
  <2>1. S \ {e} = {} /\ e \in S /\ (\A y \in S : f[y] \in Int) /\ f[e] = refund[e].amount
    BY <1>1, <1>2, <1>5
  <2>2. SumOver(f, S) = f[e] + SumOver(f, {})
    BY <1>1, <2>1, SumRemove
  <2>. QED BY <1>2, <2>1, <2>2, SumEmpty
<1>6. (Cardinality(S) = 0 <=> S = {}) /\ (Cardinality(S) = 1 <=> \E e : S = {e})
  BY <1>1, AtMostOne
<1>7. CASE x.state = "refunded"
  <2>1. BackOnce(refund, k, x, cost) <=> \E e : S = {e} /\ refund[e].amount <= cost
    BY <1>7 DEF BackOnce, S
  <2>2. (\E e : S = {e} /\ refund[e].amount <= cost) <=> (\E e : S = {e}) /\ SumOver(f, S) <= cost
    BY <1>5
  <2>. QED BY <1>3, <1>6, <1>7, <2>1, <2>2 DEF S
<1>8. CASE x.state # "refunded"
  <2>1. BackOnce(refund, k, x, cost) <=> S = {}
    BY <1>8 DEF BackOnce, S
  <2>. QED BY <1>3, <1>4, <1>6, <1>8, <2>1 DEF S
<1>. QED BY <1>7, <1>8

\* EventsInvariant, of its lists.
LEMMA EventsForm == Events!EventsInvariant <=> EventsKept(records)
<1>. DEFINE type == records.type
            reservation == records.reservation
            ticket == records.ticket
            refund == records.refund
            Kinds == /\ HasEvents(records) /\ records.now \in Nat
                     /\ type \in Seq(SeatType) /\ reservation \in Seq(SeatsHeld(DOMAIN type))
                     /\ records.checkout \in Seq(SeatCheckout(DOMAIN reservation))
                     /\ records.payment \in Seq(SeatPayment(DOMAIN reservation))
                     /\ ticket \in Seq(TicketOf(DOMAIN reservation, DOMAIN records.payment))
                     /\ records.request \in Seq(RefundAsked(DOMAIN ticket)) /\ refund \in Seq(RefundPaid(DOMAIN ticket))
            Sold == /\ QuantitySum(type, DOMAIN type) <= Seats
                    /\ \A t \in DOMAIN type :
                         /\ QuantitySum(reservation, TakenFrom(reservation, records.now, t)) <= type[t].quantity
                         /\ Cardinality(TicketsFor(reservation, ticket, t)) <= type[t].quantity
                    /\ \A k \in DOMAIN ticket :
                         /\ Cardinality(GivenBack(refund, k)) = IF ticket[k].state = "refunded" THEN 1 ELSE 0
                         /\ PaidSum(refund, GivenBack(refund, k)) <= CostOf(type, reservation, ticket[k])
            Out == \A k \in DOMAIN ticket :
                     /\ Bought(reservation, ticket[k])
                     /\ \A l \in DOMAIN ticket :
                          ticket[k].reservation = ticket[l].reservation /\ ticket[k].ordinal = ticket[l].ordinal => k = l
<1>1. Events!NothingSoldTwice <=> Sold
  <2>1. \A t : Events!Committed(t) = TakenFrom(reservation, records.now, t)
    BY DEF Events!Committed, Events!Live, Events!reservation, Events!now, TakenFrom, Holding
  <2>2. \A t : Events!TicketsOf(t) = TicketsFor(reservation, ticket, t)
    BY DEF Events!TicketsOf, Events!ticket, Events!reservation, TicketsFor
  <2>3. \A k : Events!Refunds(k) = GivenBack(refund, k)
    BY DEF Events!Refunds, Events!refund, GivenBack
  <2>4. \A k : Events!PriceOf(ticket[k].reservation) = CostOf(type, reservation, ticket[k])
    BY DEF Events!PriceOf, Events!type, Events!reservation, CostOf
  <2>5. /\ \A S : Events!Sum(LAMBDA t : Events!type[t].quantity, S) = QuantitySum(type, S)
        /\ \A S : Events!Sum(LAMBDA r : Events!reservation[r].quantity, S) = QuantitySum(reservation, S)
        /\ \A S : Events!Sum(LAMBDA f : Events!refund[f].amount, S) = PaidSum(refund, S)
    BY DEF Events!Sum, Events!type, Events!reservation, Events!refund, QuantitySum, PaidSum,
           Events!MapThenSumSet, MapThenSumSet, Events!MapThenFoldSet, MapThenFoldSet
  <2>6. \A S : Events!Cardinality(S) = Cardinality(S)
    BY DEF Events!Cardinality, Cardinality
  <2>7. Events!NothingSoldTwice
          <=> /\ Events!Sum(LAMBDA t : Events!type[t].quantity, DOMAIN type) <= Seats
              /\ \A t \in DOMAIN type :
                   /\ Events!Sum(LAMBDA r : Events!reservation[r].quantity, Events!Committed(t)) <= type[t].quantity
                   /\ Events!Cardinality(Events!TicketsOf(t)) <= type[t].quantity
              /\ \A k \in DOMAIN ticket :
                   /\ Events!Cardinality(Events!Refunds(k)) = IF ticket[k].state = "refunded" THEN 1 ELSE 0
                   /\ Events!Sum(LAMBDA f : Events!refund[f].amount, Events!Refunds(k)) <= Events!PriceOf(ticket[k].reservation)
    BY DEF Events!NothingSoldTwice, Events!type, Events!ticket
  <2>. QED BY <2>1, <2>2, <2>3, <2>4, <2>5, <2>6, <2>7
<1>2. Events!EventsInvariant <=> Kinds /\ Out /\ Sold
  BY <1>1 DEF Events!EventsInvariant, Events!now, Events!type, Events!reservation, Events!checkout, Events!payment, Events!ticket,
     Events!request, Events!refund, HasEvents, EventLists, SeatType, SeatsHeld, SeatCheckout, SeatPayment, TicketOf, RefundAsked,
     RefundPaid, Bought
<1>3. ASSUME Kinds, NEW k \in DOMAIN ticket
      PROVE  BackOnce(refund, k, ticket[k], CostOf(type, reservation, ticket[k]))
             <=> /\ Cardinality(GivenBack(refund, k)) = IF ticket[k].state = "refunded" THEN 1 ELSE 0
                 /\ PaidSum(refund, GivenBack(refund, k)) <= CostOf(type, reservation, ticket[k])
  <2>1. ticket[k].reservation \in DOMAIN reservation
    <3>1. ticket[k] \in TicketOf(DOMAIN reservation, DOMAIN records.payment)
      BY <1>3, ListType
    <3>. QED BY <3>1 DEF TicketOf
  <2>2. reservation[ticket[k].reservation].type \in DOMAIN type
    <3>1. reservation[ticket[k].reservation] \in SeatsHeld(DOMAIN type)
      BY <1>3, <2>1, ListType
    <3>. QED BY <3>1 DEF SeatsHeld
  <2>3. CostOf(type, reservation, ticket[k]) \in Nat
    <3>1. type[reservation[ticket[k].reservation].type] \in SeatType
      BY <1>3, <2>2, ListType
    <3>. QED BY <3>1, OnceAssumption DEF SeatType, CostOf
  <2>. QED BY <1>3, <2>3, BackForm
<1>4. Kinds /\ Out /\ Sold => EventsKept(records)
  BY <1>3 DEF EventsKept, TypesKept, HoldsKept, TicketsKept, RefundsKept
<1>5. ASSUME EventsKept(records) PROVE Kinds /\ Out /\ Sold
  <2>1. Kinds /\ Out
    BY <1>5 DEF EventsKept, TypesKept, HoldsKept, TicketsKept, RefundsKept
  <2>2. \A t \in DOMAIN type : Cardinality(TicketsFor(reservation, ticket, t)) <= type[t].quantity
    BY <1>5, TicketsAreHeld DEF EventsKept
  <2>. QED BY <1>3, <1>5, <2>1, <2>2 DEF EventsKept, TypesKept, HoldsKept, RefundsKept
<1>. QED BY <1>2, <1>4, <1>5

LEMMA EventsFormNext == Events!EventsInvariant' <=> EventsKept(records')
<1>1. Events!EventsInvariant' <=> EventsKept(records)'
  BY EventsForm, PTL
<1>2. EventsKept(records)' <=> EventsKept(records')
  OBVIOUS
<1>. QED BY <1>1, <1>2

LEMMA EventsInit == Events!Init => Events!EventsInvariant
<1>. SUFFICES ASSUME Events!Init PROVE EventsKept(records)
  BY EventsForm
<1>1. /\ HasEvents(records) /\ records.now = 0 /\ records.type = <<>> /\ records.reservation = <<>> /\ records.checkout = <<>>
      /\ records.payment = <<>> /\ records.ticket = <<>> /\ records.request = <<>> /\ records.refund = <<>>
  BY DEF Events!Init, HasEvents, EventLists
<1>2. DOMAIN <<>> = {} /\ \A T : <<>> \in Seq(T)
  OBVIOUS
<1>3. QuantitySum(<<>>, {}) = 0
  BY QuantityIsSum, SumEmpty
<1>4. TypesKept(<<>>)
  BY <1>2, <1>3, OnceAssumption DEF TypesKept
<1>5. HoldsKept(<<>>, <<>>, 0)
  BY <1>2 DEF HoldsKept
<1>6. TicketsKept(<<>>, <<>>, <<>>, <<>>) /\ RefundsKept(<<>>, <<>>, <<>>, <<>>, <<>>)
  BY <1>2 DEF TicketsKept, RefundsKept
<1>. QED BY <1>1, <1>4, <1>5, <1>6 DEF EventsKept

\* What the events' lists hold.
LEMMA EventsListed ==
  ASSUME EventsKept(records)
  PROVE  /\ records.type \in Seq(SeatType) /\ records.reservation \in Seq(SeatsHeld(DOMAIN records.type))
         /\ records.checkout \in Seq(SeatCheckout(DOMAIN records.reservation))
         /\ records.payment \in Seq(SeatPayment(DOMAIN records.reservation))
         /\ records.ticket \in Seq(TicketOf(DOMAIN records.reservation, DOMAIN records.payment))
         /\ records.request \in Seq(RefundAsked(DOMAIN records.ticket))
         /\ records.refund \in Seq(RefundPaid(DOMAIN records.ticket)) /\ records.now \in Nat
         /\ \A t \in DOMAIN records.type : records.type[t].quantity \in Nat /\ records.type[t].price \in Nat
         /\ \A r \in DOMAIN records.reservation :
              /\ records.reservation[r] \in SeatsHeld(DOMAIN records.type) /\ records.reservation[r].type \in DOMAIN records.type
              /\ records.reservation[r].quantity \in Nat /\ records.reservation[r].state \in {"reserved", "paid"}
         /\ \A c \in DOMAIN records.checkout :
              records.checkout[c] \in SeatCheckout(DOMAIN records.reservation) /\ records.checkout[c].reservation \in DOMAIN records.reservation
         /\ \A p \in DOMAIN records.payment : records.payment[p].reservation \in DOMAIN records.reservation
         /\ \A k \in DOMAIN records.ticket :
              /\ records.ticket[k] \in TicketOf(DOMAIN records.reservation, DOMAIN records.payment)
              /\ records.ticket[k].reservation \in DOMAIN records.reservation
         /\ \A q \in DOMAIN records.request :
              /\ records.request[q] \in RefundAsked(DOMAIN records.ticket) /\ records.request[q].ticket \in DOMAIN records.ticket
              /\ records.request[q].amount \in Refund
<1>1. /\ records.type \in Seq(SeatType) /\ records.reservation \in Seq(SeatsHeld(DOMAIN records.type))
      /\ records.checkout \in Seq(SeatCheckout(DOMAIN records.reservation))
      /\ records.payment \in Seq(SeatPayment(DOMAIN records.reservation))
      /\ records.ticket \in Seq(TicketOf(DOMAIN records.reservation, DOMAIN records.payment))
      /\ records.request \in Seq(RefundAsked(DOMAIN records.ticket))
      /\ records.refund \in Seq(RefundPaid(DOMAIN records.ticket)) /\ records.now \in Nat
  BY DEF EventsKept, TypesKept, HoldsKept, TicketsKept, RefundsKept
<1>2. \A t \in DOMAIN records.type : records.type[t] \in SeatType
  BY <1>1, ListType
<1>3. \A r \in DOMAIN records.reservation : records.reservation[r] \in SeatsHeld(DOMAIN records.type)
  BY <1>1, ListType
<1>4. \A c \in DOMAIN records.checkout : records.checkout[c] \in SeatCheckout(DOMAIN records.reservation)
  BY <1>1, ListType
<1>5. \A p \in DOMAIN records.payment : records.payment[p] \in SeatPayment(DOMAIN records.reservation)
  BY <1>1, ListType
<1>6. \A k \in DOMAIN records.ticket : records.ticket[k] \in TicketOf(DOMAIN records.reservation, DOMAIN records.payment)
  BY <1>1, ListType
<1>7. \A q \in DOMAIN records.request : records.request[q] \in RefundAsked(DOMAIN records.ticket)
  BY <1>1, ListType
<1>8. \A t \in DOMAIN records.type : records.type[t].quantity \in Nat /\ records.type[t].price \in Nat
  BY <1>2, OnceAssumption DEF SeatType
<1>9. \A r \in DOMAIN records.reservation :
        /\ records.reservation[r].type \in DOMAIN records.type
        /\ records.reservation[r].quantity \in Nat /\ records.reservation[r].state \in {"reserved", "paid"}
  BY <1>3, OnceAssumption DEF SeatsHeld
<1>10. /\ \A c \in DOMAIN records.checkout : records.checkout[c].reservation \in DOMAIN records.reservation
       /\ \A p \in DOMAIN records.payment : records.payment[p].reservation \in DOMAIN records.reservation
       /\ \A k \in DOMAIN records.ticket : records.ticket[k].reservation \in DOMAIN records.reservation
       /\ \A q \in DOMAIN records.request : records.request[q].ticket \in DOMAIN records.ticket /\ records.request[q].amount \in Refund
  BY <1>4, <1>5, <1>6, <1>7 DEF SeatCheckout, SeatPayment, TicketOf, RefundAsked
<1>. QED BY <1>1, <1>3, <1>4, <1>6, <1>7, <1>8, <1>9, <1>10

\* Where no reservation holds seats that did not.
LEMMA HoldsLapse ==
  ASSUME NEW type, \A t \in DOMAIN type : type[t].quantity \in Nat,
         NEW old, NEW now, HoldsKept(type, old, now), NEW later \in Nat,
         NEW new \in Seq(SeatsHeld(DOMAIN type)), DOMAIN new = DOMAIN old,
         \A r \in DOMAIN old : new[r].type = old[r].type /\ new[r].quantity = old[r].quantity,
         \A r \in DOMAIN old : Holding(new, later, r) => Holding(old, now, r)
  PROVE  HoldsKept(type, new, later)
<1>1. SUFFICES ASSUME NEW t \in DOMAIN type
               PROVE  QuantitySum(new, TakenFrom(new, later, t)) <= type[t].quantity
  BY DEF HoldsKept
<1>. DEFINE S == TakenFrom(old, now, t)
            T == TakenFrom(new, later, t)
            f == SeatsOf(old)
            g == SeatsOf(new)
<1>2. old \in Seq(SeatsHeld(DOMAIN type)) /\ QuantitySum(old, S) <= type[t].quantity
  BY DEF HoldsKept
<1>3. S \in SUBSET DOMAIN old /\ T \in SUBSET S /\ T \in SUBSET DOMAIN new
  BY DEF TakenFrom
<1>. HIDE DEF S, T
<1>4. QuantitySum(old, S) = SumOver(f, S) /\ IsFiniteSet(S) /\ \A r \in S : f[r] = old[r].quantity /\ f[r] \in Nat
  BY <1>2, <1>3, TakenIsSum
<1>5. QuantitySum(new, T) = SumOver(g, T) /\ IsFiniteSet(T) /\ \A r \in T : g[r] = new[r].quantity /\ g[r] \in Nat
  BY <1>3, TakenIsSum
<1>. HIDE DEF f, g
<1>6. SumOver(g, T) = SumOver(f, T)
  <2>1. \A r \in T : g[r] \in Int /\ g[r] = f[r]
    BY <1>3, <1>4, <1>5
  <2>. QED BY <1>5, <2>1, SumCongruent
<1>7. SumOver(f, T) <= SumOver(f, S)
  BY <1>3, <1>4, SumSubset
<1>8. SumOver(f, T) \in Nat /\ SumOver(f, S) \in Nat
  BY <1>3, <1>4, <1>5, SumNat
<1>. QED BY <1>2, <1>4, <1>5, <1>6, <1>7, <1>8 DEF T

\* One reservation more, for which there were seats.
LEMMA HoldsAdd ==
  ASSUME NEW type, \A t \in DOMAIN type : type[t].quantity \in Nat,
         NEW old, NEW now, HoldsKept(type, old, now), NEW x \in SeatsHeld(DOMAIN type),
         QuantitySum(old, TakenFrom(old, now, x.type)) + x.quantity <= type[x.type].quantity
  PROVE  HoldsKept(type, Append(old, x), now)
<1>. DEFINE new == Append(old, x)
            n == Len(old) + 1
<1>1. old \in Seq(SeatsHeld(DOMAIN type)) /\ now \in Nat
  BY DEF HoldsKept
<1>2. /\ new \in Seq(SeatsHeld(DOMAIN type)) /\ DOMAIN new = DOMAIN old \cup {n} /\ new[n] = x /\ n \notin DOMAIN old
      /\ \A r \in DOMAIN old : new[r] = old[r]
  BY <1>1, ListContinued DEF Continues
<1>. HIDE DEF new, n
<1>3. x.quantity \in Nat /\ x.type \in DOMAIN type
  BY OnceAssumption DEF SeatsHeld
<1>4. ASSUME NEW t \in DOMAIN type PROVE QuantitySum(new, TakenFrom(new, now, t)) <= type[t].quantity
  <2>. DEFINE S == TakenFrom(old, now, t)
              T == TakenFrom(new, now, t)
              f == SeatsOf(old)
              g == SeatsOf(new)
  <2>1. S \in SUBSET DOMAIN old /\ S \in SUBSET DOMAIN new /\ n \notin S /\ T \in SUBSET DOMAIN new
    BY <1>2 DEF TakenFrom
  <2>2. T = S \/ (x.type = t /\ T = S \cup {n})
    BY <1>2 DEF TakenFrom, Holding
  <2>3. QuantitySum(old, S) <= type[t].quantity /\ (x.type = t => QuantitySum(old, S) + x.quantity <= type[t].quantity)
    BY DEF HoldsKept
  <2>. HIDE DEF S, T
  <2>4. QuantitySum(old, S) = SumOver(f, S) /\ IsFiniteSet(S) /\ \A r \in S : f[r] = old[r].quantity /\ f[r] \in Nat
    BY <1>1, <2>1, TakenIsSum
  <2>5. QuantitySum(new, T) = SumOver(g, T) /\ IsFiniteSet(T) /\ \A r \in T : g[r] = new[r].quantity /\ g[r] \in Nat
    BY <1>2, <2>1, TakenIsSum
  <2>6. QuantitySum(new, S) = SumOver(g, S) /\ \A r \in S : g[r] = new[r].quantity /\ g[r] \in Nat
    BY <1>2, <2>1, TakenIsSum
  <2>. HIDE DEF f, g
  <2>7. SumOver(g, S) = SumOver(f, S) /\ SumOver(f, S) \in Nat
    <3>1. \A r \in S : f[r] \in Int /\ f[r] = g[r]
      BY <1>2, <2>1, <2>4, <2>6
    <3>2. SumOver(f, S) = SumOver(g, S)
      BY <2>4, <3>1, SumCongruent
    <3>. QED BY <2>4, <3>2, SumNat
  <2>8. CASE T = S
    BY <2>3, <2>4, <2>5, <2>7, <2>8 DEF T
  <2>9. CASE x.type = t /\ T = S \cup {n}
    <3>1. n \in T /\ T \ {n} = S /\ g[n] = x.quantity /\ \A r \in T : g[r] \in Int
      BY <1>2, <2>1, <2>5, <2>9
    <3>2. SumOver(g, T) = x.quantity + SumOver(g, S)
      BY <2>5, <3>1, SumRemove
    <3>. QED BY <1>3, <2>3, <2>4, <2>5, <2>7, <2>9, <3>2 DEF T
  <2>. QED BY <2>2, <2>8, <2>9
<1>. QED BY <1>1, <1>2, <1>4 DEF HoldsKept, new

\* One ticket type more, with none of its seats taken.
LEMMA TypesAdd ==
  ASSUME NEW old, TypesKept(old), NEW x \in SeatType, QuantitySum(old, DOMAIN old) + x.quantity <= Seats,
         NEW reservation, NEW now, HoldsKept(old, reservation, now)
  PROVE  TypesKept(Append(old, x)) /\ HoldsKept(Append(old, x), reservation, now)
<1>. DEFINE new == Append(old, x)
            n == Len(old) + 1
            D == DOMAIN old
            f == SeatsOf(old)
            g == SeatsOf(new)
<1>1. old \in Seq(SeatType) /\ IsFiniteSet(D) /\ \A t \in D : old[t] \in SeatType
  BY ListType DEF TypesKept
<1>2. /\ new \in Seq(SeatType) /\ DOMAIN new = D \cup {n} /\ new[n] = x /\ n \notin D /\ \A t \in D : new[t] = old[t]
  BY <1>1, ListContinued DEF Continues
<1>. HIDE DEF new, n
<1>3. x.quantity \in Nat /\ \A t \in D : old[t].quantity \in Nat
  BY <1>1, OnceAssumption DEF SeatType
<1>4. TypesKept(new)
  <2>1. /\ \A t \in D : f[t] = old[t].quantity /\ f[t] \in Nat /\ g[t] = f[t]
        /\ g[n] = x.quantity /\ \A t \in DOMAIN new : g[t] = new[t].quantity /\ g[t] \in Int
    BY <1>2, <1>3 DEF SeatsOf
  <2>. HIDE DEF f, g
  <2>2. QuantitySum(old, D) = SumOver(f, D) /\ SumOver(f, D) = SumOver(g, D) /\ SumOver(f, D) \in Nat
    <3>1. QuantitySum(old, D) = SumOver(f, D)
      BY <2>1, QuantityIsSum
    <3>2. \A t \in D : f[t] \in Int /\ f[t] = g[t]
      BY <2>1
    <3>3. SumOver(f, D) = SumOver(g, D)
      BY <1>1, <3>2, SumCongruent
    <3>. QED BY <1>1, <2>1, <3>1, <3>3, SumNat
  <2>3. QuantitySum(new, DOMAIN new) = SumOver(g, DOMAIN new)
    BY <2>1, QuantityIsSum
  <2>4. SumOver(g, DOMAIN new) = x.quantity + SumOver(g, D)
    <3>1. IsFiniteSet(DOMAIN new) /\ n \in DOMAIN new /\ DOMAIN new \ {n} = D
      BY <1>1, <1>2, FS_AddElement
    <3>. QED BY <2>1, <3>1, SumRemove
  <2>. QED BY <1>2, <1>3, <2>2, <2>3, <2>4 DEF TypesKept
<1>5. HoldsKept(new, reservation, now)
  <2>1. reservation \in Seq(SeatsHeld(DOMAIN new))
    <3>1. SeatsHeld(D) \subseteq SeatsHeld(DOMAIN new)
      BY <1>2 DEF SeatsHeld
    <3>. QED BY <3>1, ListWidens DEF HoldsKept
  <2>2. QuantitySum(reservation, TakenFrom(reservation, now, n)) <= new[n].quantity
    <3>1. \A r \in DOMAIN reservation : reservation[r] \in SeatsHeld(D)
      BY ListType DEF HoldsKept
    <3>2. TakenFrom(reservation, now, n) = {}
      BY <1>2, <3>1 DEF TakenFrom, SeatsHeld
    <3>3. QuantitySum(reservation, {}) = 0
      BY QuantityIsSum, SumEmpty
    <3>. QED BY <1>2, <1>3, <3>2, <3>3
  <2>. QED BY <1>2, <2>1, <2>2 DEF HoldsKept
<1>. QED BY <1>4, <1>5 DEF new

\* Costs are what they were.
LEMMA RefundsStay ==
  ASSUME NEW type, NEW old, NEW ticket, NEW request, NEW refund, RefundsKept(type, old, ticket, request, refund),
         NEW types, NEW new, \A k \in DOMAIN ticket : CostOf(types, new, ticket[k]) = CostOf(type, old, ticket[k])
  PROVE  RefundsKept(types, new, ticket, request, refund)
BY DEF RefundsKept

\* Tickets of a list of reservations that goes on with another.
LEMMA TicketsStay ==
  ASSUME NEW old, NEW checkout, NEW payment, NEW ticket, TicketsKept(old, checkout, payment, ticket),
         NEW new, DOMAIN old \subseteq DOMAIN new,
         \A r \in DOMAIN old : new[r].quantity = old[r].quantity /\ (old[r].state = "paid" => new[r].state = "paid")
  PROVE  TicketsKept(new, checkout, payment, ticket)
<1>. DEFINE C == DOMAIN old
            D == DOMAIN new
            P == DOMAIN payment
<1>1. SeatCheckout(C) \subseteq SeatCheckout(D) /\ SeatPayment(C) \subseteq SeatPayment(D) /\ TicketOf(C, P) \subseteq TicketOf(D, P)
  BY DEF SeatCheckout, SeatPayment, TicketOf
<1>2. checkout \in Seq(SeatCheckout(C)) /\ payment \in Seq(SeatPayment(C)) /\ ticket \in Seq(TicketOf(C, P))
  BY DEF TicketsKept
<1>3. \A k \in DOMAIN ticket : ticket[k].reservation \in C
  <2>1. \A k \in DOMAIN ticket : ticket[k] \in TicketOf(C, P)
    BY <1>2, ListType
  <2>. QED BY <2>1 DEF TicketOf
<1>. HIDE DEF C, D, P
<1>4. checkout \in Seq(SeatCheckout(D)) /\ payment \in Seq(SeatPayment(D)) /\ ticket \in Seq(TicketOf(D, P))
  BY <1>1, <1>2, ListWidens
<1>5. \A k \in DOMAIN ticket : Bought(new, ticket[k])
  BY <1>3 DEF TicketsKept, Bought, C
<1>. QED BY <1>4, <1>5 DEF TicketsKept, D, P

\* The clock, the release and the ticket types.
LEMMA ClockSteps ==
  ASSUME Events!EventsInvariant,
         \/ Events!Tick
         \/ \E v \in 1 .. MaxEventVersion : Events!PublishRelease(v)
         \/ \E q \in SeatQuantity, p \in SeatPrice : Events!DefineTicketType(q, p)
  PROVE  Events!EventsInvariant'
<1>. DEFINE type == records.type
            reservation == records.reservation
            ticket == records.ticket
<1>1. EventsKept(records) /\ HasEvents(records) /\ TypesKept(type) /\ HoldsKept(type, reservation, records.now)
  BY EventsForm DEF EventsKept
<1>2. CASE Events!Tick
  <2>1. /\ HasEvents(records') /\ \A f \in EventLists : records'[f] = records[f]
        /\ records'.now = records.now + 1
    BY <1>1, <1>2 DEF Events!Tick, Events!now, HasEvents, EventLists
  <2>2. /\ records.now \in Nat /\ records.now + 1 \in Nat /\ reservation \in Seq(SeatsHeld(DOMAIN type))
        /\ \A t \in DOMAIN type : type[t].quantity \in Nat
    BY <1>1, EventsListed
  <2>3. \A r \in DOMAIN reservation : Holding(reservation, records.now + 1, r) => Holding(reservation, records.now, r)
    <3>1. \A r \in DOMAIN reservation : reservation[r].expires \in Nat
      BY <1>1, EventsListed DEF SeatsHeld
    <3>. QED BY <2>2, <3>1 DEF Holding
  <2>4. HoldsKept(type, reservation, records.now + 1)
    BY <1>1, <2>2, <2>3, HoldsLapse
  <2>5. EventsKept(records')
    BY <1>1, <2>1, <2>4 DEF EventsKept, EventLists
  <2>. QED BY <2>5, EventsFormNext
<1>3. ASSUME NEW v, Events!PublishRelease(v) PROVE Events!EventsInvariant'
  <2>1. /\ HasEvents(records') /\ \A f \in EventLists : records'[f] = records[f]
        /\ records'.now = records.now
    BY <1>1, <1>3 DEF Events!PublishRelease, HasEvents, EventLists
  <2>2. EventsKept(records')
    BY <1>1, <2>1 DEF EventsKept, EventLists
  <2>. QED BY <2>2, EventsFormNext
<1>4. ASSUME NEW q \in SeatQuantity, NEW p \in SeatPrice, Events!DefineTicketType(q, p) PROVE Events!EventsInvariant'
  <2>. DEFINE x == [quantity |-> q, price |-> p]
              new == Append(type, x)
  <2>1. /\ HasEvents(records') /\ \A f \in EventLists \ {"type"} : records'[f] = records[f]
        /\ records'.now = records.now /\ records'.type = new
    BY <1>1, <1>4 DEF Events!DefineTicketType, HasEvents, EventLists
  <2>2. QuantitySum(type, DOMAIN type) + q <= Seats
    <3>1. Events!Sum(LAMBDA t : Events!type[t].quantity, DOMAIN type) = QuantitySum(type, DOMAIN type)
      BY DEF Events!Sum, Events!type, QuantitySum, Events!MapThenSumSet, MapThenSumSet, Events!MapThenFoldSet, MapThenFoldSet
    <3>2. Events!Sum(LAMBDA t : Events!type[t].quantity, DOMAIN type) + q <= Seats
      BY <1>4 DEF Events!DefineTicketType, Events!type
    <3>. QED BY <3>1, <3>2
  <2>3. x \in SeatType /\ x.quantity = q
    BY DEF SeatType
  <2>. HIDE DEF x
  <2>4. type \in Seq(SeatType) /\ \A t \in DOMAIN type : new[t] = type[t]
    BY <1>1, <2>3, ListContinued DEF TypesKept, Continues
  <2>. HIDE DEF new
  <2>5. TypesKept(new) /\ HoldsKept(new, reservation, records.now)
    BY <1>1, <2>2, <2>3, TypesAdd DEF new
  <2>6. \A k \in DOMAIN ticket : CostOf(new, reservation, ticket[k]) = CostOf(type, reservation, ticket[k])
    <3>1. \A k \in DOMAIN ticket : ticket[k].reservation \in DOMAIN reservation
      BY <1>1, EventsListed
    <3>2. \A r \in DOMAIN reservation : reservation[r].type \in DOMAIN type
      BY <1>1, EventsListed
    <3>. QED BY <2>4, <3>1, <3>2 DEF CostOf
  <2>7. RefundsKept(new, reservation, ticket, records.request, records.refund)
    BY <1>1, <2>6, RefundsStay DEF EventsKept
  <2>8. EventsKept(records')
    BY <1>1, <2>1, <2>5, <2>7 DEF EventsKept, EventLists
  <2>. QED BY <2>8, EventsFormNext
<1>. QED BY <1>2, <1>3, <1>4

\* Reservations, checkouts and payments.
LEMMA HoldSteps ==
  ASSUME Events!EventsInvariant,
         \/ \E t \in DOMAIN records.type, q \in SeatQuantity, e \in 1 .. EventHorizon : Events!ReserveTickets(t, q, e)
         \/ \E r \in DOMAIN records.reservation : Events!CreateCheckout(r)
         \/ \E c \in DOMAIN records.checkout, n \in ProviderReceipt : Events!RecordPayment(c, n)
  PROVE  Events!EventsInvariant'
<1>. DEFINE type == records.type
            reservation == records.reservation
            checkout == records.checkout
            payment == records.payment
            ticket == records.ticket
<1>1. /\ EventsKept(records) /\ HasEvents(records) /\ TypesKept(type) /\ HoldsKept(type, reservation, records.now)
      /\ TicketsKept(reservation, checkout, payment, ticket)
      /\ RefundsKept(type, reservation, ticket, records.request, records.refund)
  BY EventsForm DEF EventsKept
<1>2. /\ reservation \in Seq(SeatsHeld(DOMAIN type))
      /\ \A t \in DOMAIN type : type[t].quantity \in Nat /\ type[t].price \in Nat
      /\ \A r \in DOMAIN reservation :
           /\ reservation[r] \in SeatsHeld(DOMAIN type) /\ reservation[r].type \in DOMAIN type
           /\ reservation[r].quantity \in Nat /\ reservation[r].state \in {"reserved", "paid"}
      /\ \A k \in DOMAIN ticket : ticket[k].reservation \in DOMAIN reservation
  BY <1>1, EventsListed
<1>3. ASSUME NEW t \in DOMAIN type, NEW q \in SeatQuantity, NEW e \in 1 .. EventHorizon, Events!ReserveTickets(t, q, e)
      PROVE  Events!EventsInvariant'
  <2>. DEFINE x == [type |-> t, quantity |-> q, expires |-> e, state |-> "reserved"]
              new == Append(reservation, x)
  <2>1. /\ HasEvents(records') /\ \A f \in EventLists \ {"reservation"} : records'[f] = records[f]
        /\ records'.now = records.now /\ records'.reservation = new
    BY <1>1, <1>3 DEF Events!ReserveTickets, HasEvents, EventLists
  <2>2. QuantitySum(reservation, TakenFrom(reservation, records.now, t)) + q <= type[t].quantity
    <3>1. \A S : Events!Sum(LAMBDA r : Events!reservation[r].quantity, S) = QuantitySum(reservation, S)
      BY DEF Events!Sum, Events!reservation, QuantitySum, Events!MapThenSumSet, MapThenSumSet, Events!MapThenFoldSet, MapThenFoldSet
    <3>2. Events!Committed(t) = TakenFrom(reservation, records.now, t)
      BY DEF Events!Committed, Events!Live, Events!reservation, Events!now, TakenFrom, Holding
    <3>3. Events!Sum(LAMBDA r : Events!reservation[r].quantity, Events!Committed(t)) + q <= type[t].quantity
      BY <1>3 DEF Events!ReserveTickets, Events!type
    <3>. QED BY <3>1, <3>2, <3>3
  <2>3. x \in SeatsHeld(DOMAIN type) /\ x.quantity = q /\ x.type = t
    BY OnceAssumption DEF SeatsHeld
  <2>. HIDE DEF x
  <2>4. HoldsKept(type, new, records.now)
    BY <1>1, <1>2, <2>2, <2>3, HoldsAdd
  <2>5. DOMAIN reservation \subseteq DOMAIN new /\ \A r \in DOMAIN reservation : new[r] = reservation[r]
    BY <1>2, <2>3, ListContinued DEF Continues
  <2>. HIDE DEF new
  <2>6. TicketsKept(new, checkout, payment, ticket)
    BY <1>1, <2>5, TicketsStay
  <2>7. RefundsKept(type, new, ticket, records.request, records.refund)
    <3>1. \A k \in DOMAIN ticket : CostOf(type, new, ticket[k]) = CostOf(type, reservation, ticket[k])
      BY <1>2, <2>5 DEF CostOf
    <3>. QED BY <1>1, <3>1, RefundsStay
  <2>8. EventsKept(records')
    BY <1>1, <2>1, <2>4, <2>6, <2>7 DEF EventsKept, EventLists
  <2>. QED BY <2>8, EventsFormNext
<1>4. ASSUME NEW r \in DOMAIN reservation, Events!CreateCheckout(r) PROVE Events!EventsInvariant'
  <2>. DEFINE x == [reservation |-> r, amount |-> Events!PriceOf(r) * reservation[r].quantity, state |-> "pending"]
              new == Append(checkout, x)
  <2>1. /\ HasEvents(records') /\ \A f \in EventLists \ {"checkout"} : records'[f] = records[f]
        /\ records'.now = records.now /\ records'.checkout = new
    BY <1>1, <1>4 DEF Events!CreateCheckout, Events!reservation, HasEvents, EventLists
  <2>2. x \in SeatCheckout(DOMAIN reservation)
    <3>1. Events!PriceOf(r) \in Nat /\ reservation[r].quantity \in Nat
      BY <1>2 DEF Events!PriceOf, Events!type, Events!reservation
    <3>2. \A a, b \in Nat : a * b \in Nat
      OBVIOUS
    <3>3. Events!PriceOf(r) * reservation[r].quantity \in Nat
      BY <3>1, <3>2
    <3>. QED BY <3>3 DEF SeatCheckout
  <2>. HIDE DEF x
  <2>3. new \in Seq(SeatCheckout(DOMAIN reservation))
    BY <1>1, <2>2, ListContinued DEF TicketsKept
  <2>. HIDE DEF new
  <2>4. TicketsKept(reservation, new, payment, ticket)
    BY <1>1, <2>3 DEF TicketsKept
  <2>5. EventsKept(records')
    BY <1>1, <2>1, <2>4 DEF EventsKept, EventLists
  <2>. QED BY <2>5, EventsFormNext
<1>5. ASSUME NEW c \in DOMAIN checkout, NEW n \in ProviderReceipt, Events!RecordPayment(c, n) PROVE Events!EventsInvariant'
  <2>. DEFINE r == checkout[c].reservation
              x == [reservation |-> r, receipt |-> n, amount |-> checkout[c].amount]
              y == [checkout[c] EXCEPT !.state = "paid"]
              z == [reservation[r] EXCEPT !.state = "paid"]
              pays == Append(payment, x)
              outs == [checkout EXCEPT ![c] = y]
              new == [reservation EXCEPT ![r] = z]
  <2>1. /\ HasEvents(records') /\ \A f \in EventLists \ {"payment", "checkout", "reservation"} : records'[f] = records[f]
        /\ records'.now = records.now /\ records'.payment = pays /\ records'.checkout = outs /\ records'.reservation = new
    BY <1>1, <1>5 DEF Events!RecordPayment, Events!Paying, Events!checkout, HasEvents, EventLists
  <2>2. Holding(reservation, records.now, r)
    BY <1>5 DEF Events!RecordPayment, Events!Live, Events!checkout, Events!reservation, Events!now, Holding
  <2>3. r \in DOMAIN reservation /\ checkout[c] \in SeatCheckout(DOMAIN reservation)
        /\ checkout \in Seq(SeatCheckout(DOMAIN reservation)) /\ payment \in Seq(SeatPayment(DOMAIN reservation))
        /\ ticket \in Seq(TicketOf(DOMAIN reservation, DOMAIN payment)) /\ records.now \in Nat
    BY <1>1, EventsListed
  <2>4. x \in SeatPayment(DOMAIN reservation) /\ y \in SeatCheckout(DOMAIN reservation)
    BY <2>3 DEF SeatPayment, SeatCheckout
  <2>5. /\ z \in SeatsHeld(DOMAIN type) /\ z.type = reservation[r].type /\ z.quantity = reservation[r].quantity
        /\ z.state = "paid"
    <3>1. reservation[r] \in SeatsHeld(DOMAIN type)
      BY <1>2, <2>3
    <3>. QED BY <3>1 DEF SeatsHeld
  <2>. HIDE DEF x, y, z
  <2>6. pays \in Seq(SeatPayment(DOMAIN reservation)) /\ DOMAIN payment \subseteq DOMAIN pays
    BY <2>3, <2>4, ListContinued DEF Continues
  <2>7. outs \in Seq(SeatCheckout(DOMAIN reservation))
    BY <2>3, <2>4, ListChange, OneChangedBy
  <2>8. /\ new \in Seq(SeatsHeld(DOMAIN type)) /\ DOMAIN new = DOMAIN reservation /\ new[r] = z
        /\ \A s \in DOMAIN reservation : s # r => new[s] = reservation[s]
    BY <1>2, <2>3, <2>5, ListChange, OneChangedBy
  <2>. HIDE DEF pays, outs, new
  <2>9. /\ \A s \in DOMAIN reservation : new[s].type = reservation[s].type /\ new[s].quantity = reservation[s].quantity
        /\ \A s \in DOMAIN reservation : reservation[s].state = "paid" => new[s].state = "paid"
        /\ \A s \in DOMAIN reservation : Holding(new, records.now, s) => Holding(reservation, records.now, s)
    BY <2>2, <2>5, <2>8 DEF Holding
  <2>10. HoldsKept(type, new, records.now)
    BY <1>1, <1>2, <2>3, <2>8, <2>9, HoldsLapse
  <2>11. TicketsKept(reservation, outs, pays, ticket)
    <3>1. TicketOf(DOMAIN reservation, DOMAIN payment) \subseteq TicketOf(DOMAIN reservation, DOMAIN pays)
      BY <2>6 DEF TicketOf
    <3>2. ticket \in Seq(TicketOf(DOMAIN reservation, DOMAIN pays))
      BY <2>3, <3>1, ListWidens
    <3>. QED BY <1>1, <2>6, <2>7, <3>2 DEF TicketsKept
  <2>12. TicketsKept(new, outs, pays, ticket)
    BY <2>8, <2>9, <2>11, TicketsStay
  <2>13. RefundsKept(type, new, ticket, records.request, records.refund)
    <3>1. \A k \in DOMAIN ticket : CostOf(type, new, ticket[k]) = CostOf(type, reservation, ticket[k])
      BY <1>2, <2>9 DEF CostOf
    <3>. QED BY <1>1, <3>1, RefundsStay
  <2>14. EventsKept(records')
    BY <1>1, <2>1, <2>10, <2>12, <2>13 DEF EventsKept, EventLists
  <2>. QED BY <2>14, EventsFormNext
<1>. QED BY <1>3, <1>4, <1>5

\* Tickets and their refunds.
LEMMA TicketSteps ==
  ASSUME Events!EventsInvariant,
         \/ \E p \in DOMAIN records.payment, o \in 1 .. Seats : Events!IssueTicket(p, o)
         \/ \E k \in DOMAIN records.ticket : Events!CheckIn(k) \/ \E a \in Refund : Events!RequestRefund(k, a)
         \/ \E q \in DOMAIN records.request, n \in ProviderReceipt : Events!RecordRefund(q, n)
  PROVE  Events!EventsInvariant'
<1>. DEFINE type == records.type
            reservation == records.reservation
            payment == records.payment
            ticket == records.ticket
            request == records.request
            refund == records.refund
            T == TicketOf(DOMAIN reservation, DOMAIN payment)
            cost(x) == CostOf(type, reservation, x)
<1>1. /\ EventsKept(records) /\ HasEvents(records) /\ TypesKept(type) /\ HoldsKept(type, reservation, records.now)
      /\ TicketsKept(reservation, records.checkout, payment, ticket) /\ RefundsKept(type, reservation, ticket, request, refund)
  BY EventsForm DEF EventsKept
<1>2. /\ ticket \in Seq(T) /\ request \in Seq(RefundAsked(DOMAIN ticket)) /\ refund \in Seq(RefundPaid(DOMAIN ticket))
      /\ \A k \in DOMAIN ticket : ticket[k] \in T
      /\ \A q \in DOMAIN request :
           request[q] \in RefundAsked(DOMAIN ticket) /\ request[q].ticket \in DOMAIN ticket /\ request[q].amount \in Refund
      /\ \A p \in DOMAIN payment : payment[p].reservation \in DOMAIN reservation
  BY <1>1, EventsListed
<1>3. ASSUME NEW p \in DOMAIN payment, NEW o \in 1 .. Seats, Events!IssueTicket(p, o) PROVE Events!EventsInvariant'
  <2>. DEFINE x == [reservation |-> payment[p].reservation, payment |-> p, ordinal |-> o, state |-> "issued"]
              new == Append(ticket, x)
              n == Len(ticket) + 1
  <2>1. /\ HasEvents(records') /\ \A f \in EventLists \ {"ticket"} : records'[f] = records[f]
        /\ records'.now = records.now /\ records'.ticket = new
    BY <1>1, <1>3 DEF Events!IssueTicket, Events!payment, HasEvents, EventLists
  <2>2. /\ Bought(reservation, x) /\ x \in T /\ x.state = "issued"
        /\ \A k \in DOMAIN ticket : ~(ticket[k].reservation = x.reservation /\ ticket[k].ordinal = x.ordinal)
    <3>1. /\ reservation[payment[p].reservation].state = "paid" /\ o <= reservation[payment[p].reservation].quantity
          /\ \A k \in DOMAIN ticket : ~(ticket[k].reservation = payment[p].reservation /\ ticket[k].ordinal = o)
      BY <1>3 DEF Events!IssueTicket, Events!payment, Events!reservation, Events!ticket
    <3>2. reservation[payment[p].reservation].quantity \in Nat
      BY <1>1, <1>2, EventsListed
    <3>. QED BY <1>2, <3>1, <3>2 DEF Bought, TicketOf
  <2>. HIDE DEF x
  <2>3. /\ new \in Seq(T) /\ DOMAIN new = DOMAIN ticket \cup {n} /\ new[n] = x /\ n \notin DOMAIN ticket
        /\ \A k \in DOMAIN ticket : new[k] = ticket[k]
    BY <1>2, <2>2, ListContinued DEF Continues
  <2>. HIDE DEF new, n
  <2>4. TicketsKept(reservation, records.checkout, payment, new)
    BY <1>1, <2>2, <2>3 DEF TicketsKept
  <2>5. request \in Seq(RefundAsked(DOMAIN new)) /\ refund \in Seq(RefundPaid(DOMAIN new))
    <3>1. RefundAsked(DOMAIN ticket) \subseteq RefundAsked(DOMAIN new) /\ RefundPaid(DOMAIN ticket) \subseteq RefundPaid(DOMAIN new)
      BY <2>3 DEF RefundAsked, RefundPaid
    <3>. QED BY <1>2, <3>1, ListWidens
  <2>6. BackOnce(refund, n, x, cost(x))
    <3>1. \A f \in DOMAIN refund : refund[f] \in RefundPaid(DOMAIN ticket)
      BY <1>2, ListType
    <3>. QED BY <2>2, <2>3, <3>1 DEF BackOnce, GivenBack, RefundPaid
  <2>. HIDE DEF cost
  <2>7. RefundsKept(type, reservation, new, request, refund)
    BY <1>1, <2>3, <2>5, <2>6 DEF RefundsKept, cost
  <2>8. EventsKept(records')
    BY <1>1, <2>1, <2>4, <2>7 DEF EventsKept, EventLists
  <2>. QED BY <2>8, EventsFormNext
<1>4. ASSUME NEW k \in DOMAIN ticket, NEW x \in T, NEW new, new = [ticket EXCEPT ![k] = x],
             x.reservation = ticket[k].reservation, x.ordinal = ticket[k].ordinal
      PROVE  /\ new \in Seq(T) /\ DOMAIN new = DOMAIN ticket /\ new[k] = x
             /\ \A l \in DOMAIN ticket : l # k => new[l] = ticket[l]
             /\ TicketsKept(reservation, records.checkout, payment, new)
  <2>1. /\ new \in Seq(T) /\ DOMAIN new = DOMAIN ticket /\ new[k] = x
        /\ \A l \in DOMAIN ticket : l # k => new[l] = ticket[l]
    BY <1>2, <1>4, ListChange, OneChangedBy
  <2>2. \A l \in DOMAIN ticket : new[l].reservation = ticket[l].reservation /\ new[l].ordinal = ticket[l].ordinal
    BY <1>4, <2>1
  <2>. QED BY <1>1, <2>1, <2>2 DEF TicketsKept, Bought
<1>5. ASSUME NEW k \in DOMAIN ticket, Events!CheckIn(k) PROVE Events!EventsInvariant'
  <2>. DEFINE x == [ticket[k] EXCEPT !.state = "checked-in"]
              new == [ticket EXCEPT ![k] = x]
  <2>1. /\ HasEvents(records') /\ \A f \in EventLists \ {"ticket"} : records'[f] = records[f]
        /\ records'.now = records.now /\ records'.ticket = new
    BY <1>1, <1>5 DEF Events!CheckIn, HasEvents, EventLists
  <2>2. ticket[k] \in T /\ ticket[k].state = "issued"
    BY <1>2, <1>5 DEF Events!CheckIn, Events!ticket
  <2>3. x \in T /\ x.reservation = ticket[k].reservation /\ x.ordinal = ticket[k].ordinal /\ x.state = "checked-in"
    BY <2>2 DEF TicketOf
  <2>. HIDE DEF x
  <2>4. /\ DOMAIN new = DOMAIN ticket /\ new[k] = x /\ \A l \in DOMAIN ticket : l # k => new[l] = ticket[l]
        /\ TicketsKept(reservation, records.checkout, payment, new)
    BY <1>4, <2>3
  <2>. HIDE DEF new
  <2>5. BackOnce(refund, k, x, cost(x))
    BY <1>1, <2>2, <2>3 DEF RefundsKept, BackOnce
  <2>. HIDE DEF cost
  <2>6. RefundsKept(type, reservation, new, request, refund)
    BY <1>1, <2>4, <2>5 DEF RefundsKept, cost
  <2>7. EventsKept(records')
    BY <1>1, <2>1, <2>4, <2>6 DEF EventsKept, EventLists
  <2>. QED BY <2>7, EventsFormNext
<1>6. ASSUME NEW k \in DOMAIN ticket, NEW a \in Refund, Events!RequestRefund(k, a) PROVE Events!EventsInvariant'
  <2>. DEFINE x == [ticket |-> k, amount |-> a, state |-> "pending"]
              new == Append(request, x)
  <2>1. /\ HasEvents(records') /\ \A f \in EventLists \ {"request"} : records'[f] = records[f]
        /\ records'.now = records.now /\ records'.request = new
    BY <1>1, <1>6 DEF Events!RequestRefund, HasEvents, EventLists
  <2>2. x \in RefundAsked(DOMAIN ticket)
    BY DEF RefundAsked
  <2>. HIDE DEF x
  <2>3. new \in Seq(RefundAsked(DOMAIN ticket))
    BY <1>2, <2>2, ListContinued
  <2>. HIDE DEF new
  <2>4. RefundsKept(type, reservation, ticket, new, refund)
    BY <1>1, <2>3 DEF RefundsKept
  <2>5. EventsKept(records')
    BY <1>1, <2>1, <2>4 DEF EventsKept, EventLists
  <2>. QED BY <2>5, EventsFormNext
<1>7. ASSUME NEW q \in DOMAIN request, NEW n \in ProviderReceipt, Events!RecordRefund(q, n) PROVE Events!EventsInvariant'
  <2>. DEFINE k == request[q].ticket
              x == [ticket[k] EXCEPT !.state = "refunded"]
              y == [request[q] EXCEPT !.state = "completed"]
              z == [ticket |-> k, receipt |-> n, amount |-> request[q].amount]
              new == [ticket EXCEPT ![k] = x]
              asks == [request EXCEPT ![q] = y]
              pays == Append(refund, z)
              d == Len(refund) + 1
  <2>1. /\ HasEvents(records') /\ \A f \in EventLists \ {"ticket", "request", "refund"} : records'[f] = records[f]
        /\ records'.now = records.now /\ records'.ticket = new /\ records'.request = asks /\ records'.refund = pays
    BY <1>1, <1>7 DEF Events!RecordRefund, Events!Refunding, Events!request, HasEvents, EventLists
  <2>2. /\ k \in DOMAIN ticket /\ ticket[k] \in T /\ ticket[k].state # "refunded"
        /\ request[q].amount <= cost(ticket[k]) /\ request[q].amount \in Refund /\ request[q] \in RefundAsked(DOMAIN ticket)
    BY <1>2, <1>7 DEF Events!RecordRefund, Events!Refundable, Events!PriceOf, Events!type, Events!reservation, Events!request,
       Events!ticket, CostOf
  <2>3. x \in T /\ x.reservation = ticket[k].reservation /\ x.ordinal = ticket[k].ordinal /\ x.state = "refunded"
    BY <2>2 DEF TicketOf
  <2>4. y \in RefundAsked(DOMAIN ticket)
    BY <2>2 DEF RefundAsked
  <2>5. z \in RefundPaid(DOMAIN ticket) /\ z.ticket = k /\ z.amount <= cost(x)
    BY <2>2, <2>3 DEF RefundPaid, CostOf
  <2>. HIDE DEF x, y, z
  <2>6. /\ DOMAIN new = DOMAIN ticket /\ new[k] = x /\ \A l \in DOMAIN ticket : l # k => new[l] = ticket[l]
        /\ TicketsKept(reservation, records.checkout, payment, new)
    BY <1>4, <2>2, <2>3
  <2>7. asks \in Seq(RefundAsked(DOMAIN ticket))
    BY <1>2, <2>4, ListChange, OneChangedBy
  <2>8. /\ pays \in Seq(RefundPaid(DOMAIN ticket)) /\ DOMAIN pays = DOMAIN refund \cup {d} /\ pays[d] = z
        /\ \A f \in DOMAIN refund : pays[f] = refund[f]
    BY <1>2, <2>5, ListContinued DEF Continues
  <2>. HIDE DEF new, asks, pays, d
  <2>9. GivenBack(pays, k) = GivenBack(refund, k) \cup {d} /\ \A l : l # k => GivenBack(pays, l) = GivenBack(refund, l)
    BY <2>5, <2>8 DEF GivenBack
  <2>10. GivenBack(refund, k) = {}
    BY <1>1, <2>2 DEF RefundsKept, BackOnce
  <2>11. BackOnce(pays, k, new[k], cost(new[k]))
    BY <2>3, <2>5, <2>6, <2>8, <2>9, <2>10 DEF BackOnce
  <2>12. ASSUME NEW l \in DOMAIN ticket, l # k PROVE BackOnce(pays, l, new[l], cost(new[l]))
    <3>1. BackOnce(refund, l, ticket[l], cost(ticket[l]))
      BY <1>1 DEF RefundsKept
    <3>2. \A f : f \in GivenBack(refund, l) => pays[f] = refund[f]
      BY <2>8 DEF GivenBack
    <3>. HIDE DEF cost, k
    <3>. QED BY <2>6, <2>9, <2>12, <3>1, <3>2 DEF BackOnce
  <2>. HIDE DEF cost
  <2>13. RefundsKept(type, reservation, new, asks, pays)
    BY <2>6, <2>7, <2>8, <2>11, <2>12 DEF RefundsKept, cost
  <2>14. EventsKept(records')
    BY <1>1, <2>1, <2>6, <2>13 DEF EventsKept, EventLists
  <2>. QED BY <2>14, EventsFormNext
<1>. QED BY <1>3, <1>5, <1>6, <1>7

LEMMA EventsStep ==
  ASSUME Events!EventsInvariant, Events!Next
  PROVE  Events!EventsInvariant'
<1>1. CASE \/ Events!Tick
           \/ \E v \in 1 .. MaxEventVersion : Events!PublishRelease(v)
           \/ \E q \in SeatQuantity, p \in SeatPrice : Events!DefineTicketType(q, p)
  BY <1>1, ClockSteps
<1>2. CASE \/ \E t \in DOMAIN records.type, q \in SeatQuantity, e \in 1 .. EventHorizon : Events!ReserveTickets(t, q, e)
           \/ \E r \in DOMAIN records.reservation : Events!CreateCheckout(r)
           \/ \E c \in DOMAIN records.checkout, n \in ProviderReceipt : Events!RecordPayment(c, n)
  BY <1>2, HoldSteps
<1>3. CASE \/ \E p \in DOMAIN records.payment, o \in 1 .. Seats : Events!IssueTicket(p, o)
           \/ \E k \in DOMAIN records.ticket : Events!CheckIn(k) \/ \E a \in Refund : Events!RequestRefund(k, a)
           \/ \E q \in DOMAIN records.request, n \in ProviderReceipt : Events!RecordRefund(q, n)
  BY <1>3, TicketSteps
<1>. QED BY <1>1, <1>2, <1>3 DEF Events!Next, Events!type, Events!reservation, Events!checkout, Events!payment, Events!ticket,
            Events!request

LEMMA EventsKeeps ==
  ASSUME Events!EventsInvariant
  PROVE  Events!NothingSoldTwice
BY DEF Events!EventsInvariant

-----------------------------------------------------------------------------
(* store: the records of a workspace under its plans' quotas.              *)

Plans  == DOMAIN RecordLimit
Stored == [size : Nat, version : Nat, open : BOOLEAN, best : Plans]

SizeSum(lst, S) == MapThenSumSet(LAMBDA e : lst[e].size, S)
Sizes(s)        == [i \in DOMAIN s |-> s[i].size]
FittedIn(s, i)  == /\ i <= RecordLimit[s[i].best]
                   /\ s[i].size > 0 => SumOver(Sizes(s), 1 .. i) <= StorageLimit[s[i].best]
StoredKept(s)   == s \in Seq(Stored) /\ \A i \in DOMAIN s : FittedIn(s, i)

HasStore(r) == /\ {"backend", "plan", "role", "enabled", "rec", "request", "acked"} \subseteq DOMAIN r
               /\ r.backend \in {"postgres", "memory"} /\ DOMAIN r.request = StoreRequest
AskedKept(backend, plan, q) ==
  q.at # "idle" =>
    /\ {"at", "plan", "best", "draft", "undo", "writes"} \subseteq DOMAIN q
    /\ q.best \in Plans /\ q.plan \in Plans /\ plan <= q.best /\ q.plan <= q.best
    /\ q.at = "in" =>
         /\ backend = "postgres" => StoredKept(q.draft)
         /\ backend = "memory" => {"rec", "plan"} \subseteq DOMAIN q.undo /\ q.undo.plan \in Plans /\ StoredKept(q.undo.rec)
StoreKept(r) ==
  /\ HasStore(r) /\ r.plan \in Plans /\ StoredKept(r.rec)
  /\ \A q \in StoreRequest : AskedKept(r.backend, r.plan, r.request[q])

LEMMA SizesAreSum ==
  ASSUME NEW lst, NEW S, NEW f, \A e \in S : f[e] = lst[e].size
  PROVE  SizeSum(lst, S) = SumOver(f, S)
<1>. DEFINE Mine(g)  == [s \in SUBSET S |-> IF s = {} THEN 0 ELSE lst[Picked(s)].size + g[s \ {Picked(s)}]]
            Yours(g) == [s \in SUBSET S |-> IF s = {} THEN 0 ELSE f[Picked(s)] + g[s \ {Picked(s)}]]
<1>1. \A s \in SUBSET S : s # {} => Picked(s) \in S
  BY DEF Picked
<1>2. \A g : Mine(g) = Yours(g)
  BY <1>1
<1>3. SizeSum(lst, S) = (CHOOSE g : g = Mine(g))[S]
  BY DEF SizeSum, MapThenSumSet, MapThenFoldSet, Picked
<1>4. SumOver(f, S) = (CHOOSE g : g = Yours(g))[S]
  BY DEF SumOver, MapThenSumSet, MapThenFoldSet, Picked
<1>. HIDE DEF Mine, Yours
<1>. QED BY <1>2, <1>3, <1>4

\* What a list holds up to a place.
LEMMA UnitsForm ==
  ASSUME NEW s \in Seq(Stored)
  PROVE  /\ Store!Units(s) = SumOver(Sizes(s), DOMAIN s) /\ Store!Units(s) \in Nat
         /\ \A i \in DOMAIN s : Store!Units(SubSeq(s, 1, i)) = SumOver(Sizes(s), 1 .. i)
         /\ \A i \in DOMAIN s : i \in Nat /\ 1 .. i \subseteq DOMAIN s /\ s[i] \in Stored /\ Sizes(s)[i] = s[i].size /\ s[i].size \in Nat
<1>1. \A t : Store!Units(t) = SizeSum(t, DOMAIN t)
  BY DEF Store!Units, SizeSum, Store!MapThenSumSet, MapThenSumSet, Store!MapThenFoldSet, MapThenFoldSet
<1>2. Len(s) \in Nat /\ DOMAIN s = 1 .. Len(s) /\ IsFiniteSet(DOMAIN s) /\ \A i \in DOMAIN s : s[i] \in Stored
  BY ListType
<1>3. \A i \in DOMAIN s : Sizes(s)[i] = s[i].size /\ s[i].size \in Nat /\ i \in Nat /\ 1 .. i \subseteq DOMAIN s
  BY <1>2 DEF Sizes, Stored
<1>4. Store!Units(s) = SumOver(Sizes(s), DOMAIN s) /\ Store!Units(s) \in Nat
  <2>. DEFINE f == Sizes(s)
  <2>1. \A i \in DOMAIN s : f[i] = s[i].size /\ f[i] \in Nat
    BY <1>3
  <2>. HIDE DEF f
  <2>2. SizeSum(s, DOMAIN s) = SumOver(f, DOMAIN s) /\ SumOver(f, DOMAIN s) \in Nat
    BY <1>2, <2>1, SizesAreSum, SumNat
  <2>. QED BY <1>1, <2>2 DEF f
<1>5. ASSUME NEW i \in DOMAIN s PROVE Store!Units(SubSeq(s, 1, i)) = SumOver(Sizes(s), 1 .. i)
  <2>. DEFINE f == Sizes(s)
              t == SubSeq(s, 1, i)
  <2>1. DOMAIN t = 1 .. i /\ \A j \in 1 .. i : t[j] = s[j]
    BY <1>2, <1>3
  <2>2. \A j \in 1 .. i : f[j] = t[j].size
    BY <1>3, <2>1
  <2>. HIDE DEF f, t
  <2>3. SizeSum(t, 1 .. i) = SumOver(f, 1 .. i)
    BY <2>2, SizesAreSum
  <2>4. Store!Units(t) = SumOver(f, 1 .. i)
    BY <1>1, <2>1, <2>3
  <2>. QED BY <2>4 DEF f, t
<1>. QED BY <1>2, <1>3, <1>4, <1>5

LEMMA StoredForm ==
  ASSUME NEW s
  PROVE  Store!Listed(s) <=> StoredKept(s)
<1>1. CASE s \in Seq(Stored)
  <2>1. \A i \in DOMAIN s : Store!Units(SubSeq(s, 1, i)) = SumOver(Sizes(s), 1 .. i)
    BY <1>1, UnitsForm
  <2>2. Store!HadRoom(s) <=> \A i \in DOMAIN s : FittedIn(s, i)
    BY <2>1 DEF Store!HadRoom, FittedIn
  <2>. QED BY <1>1, <2>2 DEF Store!Listed, StoredKept, Store!Plan, Plans, Stored
<1>2. CASE s \notin Seq(Stored)
  BY <1>2 DEF Store!Listed, StoredKept, Store!Plan, Plans, Stored
<1>. QED BY <1>1, <1>2

\* StoreInvariant, of its parts.
LEMMA StoreForm == Store!StoreInvariant <=> StoreKept(records)
BY StoredForm DEF Store!StoreInvariant, Store!Plan, Store!backend, Store!plan, Store!rec, Store!request, Store!UnderWay,
   StoreKept, HasStore, AskedKept, Plans
LEMMA StoreFormNext == Store!StoreInvariant' <=> StoreKept(records')
<1>1. Store!StoreInvariant' <=> StoreKept(records)'
  BY StoreForm, PTL
<1>2. StoreKept(records)' <=> StoreKept(records')
  OBVIOUS
<1>. QED BY <1>1, <1>2

LEMMA StoreInit == Store!Init => Store!StoreInvariant
<1>. SUFFICES ASSUME Store!Init PROVE StoreKept(records)
  BY StoreForm
<1>1. PICK b \in Backend, p \in Plans :
        records = [backend |-> b, plan |-> p, role |-> [a \in {Owner, Other, Guest} |-> IF a = Owner THEN "owner" ELSE "none"],
                   enabled |-> FALSE, rec |-> <<>>, request |-> [r \in StoreRequest |-> Store!Idle], acked |-> Store!NoWrites]
  BY DEF Store!Init, Store!Plan, Plans
<1>2. /\ HasStore(records) /\ records.plan \in Plans /\ records.rec = <<>>
      /\ \A q \in StoreRequest : records.request[q] = Store!Idle
  BY <1>1, OnceAssumption DEF HasStore
<1>3. StoredKept(<<>>)
  BY DEF StoredKept
<1>4. Store!Idle.at = "idle"
  BY DEF Store!Idle
<1>. QED BY <1>2, <1>3, <1>4 DEF StoreKept, AskedKept

\* A record that had room has it in any list that begins alike.
LEMMA RoomStays ==
  ASSUME NEW s, StoredKept(s), NEW t \in Seq(Stored), NEW i \in DOMAIN s, DOMAIN s \subseteq DOMAIN t,
         \A j \in DOMAIN s : t[j].size = s[j].size /\ t[j].best = s[j].best
  PROVE  FittedIn(t, i)
<1>. DEFINE f == Sizes(s)
            g == Sizes(t)
<1>1. s \in Seq(Stored) /\ FittedIn(s, i)
  BY DEF StoredKept
<1>2. 1 .. i \subseteq DOMAIN s /\ i \in Nat /\ IsFiniteSet(1 .. i)
  <2>1. 1 .. i \subseteq DOMAIN s /\ i \in Nat
    BY <1>1, UnitsForm
  <2>2. IsFiniteSet(DOMAIN s)
    BY <1>1, ListType
  <2>. QED BY <2>1, <2>2, FS_Subset
<1>3. (\A j \in DOMAIN s : f[j] = s[j].size /\ f[j] \in Nat) /\ \A j \in DOMAIN t : g[j] = t[j].size
  BY <1>1, UnitsForm
<1>4. \A j \in 1 .. i : f[j] \in Int /\ f[j] = g[j]
  BY <1>2, <1>3
<1>. HIDE DEF f, g
<1>5. SumOver(f, 1 .. i) = SumOver(g, 1 .. i)
  BY <1>2, <1>4, SumCongruent
<1>. QED BY <1>1, <1>5 DEF FittedIn, f, g

\* Records that are as large as they were, under as good a plan.
LEMMA StoredSame ==
  ASSUME NEW s, StoredKept(s), NEW t \in Seq(Stored), DOMAIN t = DOMAIN s,
         \A j \in DOMAIN s : t[j].size = s[j].size /\ t[j].best = s[j].best
  PROVE  StoredKept(t)
BY RoomStays DEF StoredKept

\* One record more, for which there was room under a plan no better.
LEMMA StoredMore ==
  ASSUME NEW s, StoredKept(s), NEW x \in Stored, NEW p \in Plans, p <= x.best, Store!HasRoom(s, x.size, p)
  PROVE  StoredKept(Append(s, x))
<1>. DEFINE t == Append(s, x)
            n == Len(s) + 1
            f == Sizes(s)
            g == Sizes(t)
            D == DOMAIN s
<1>1. s \in Seq(Stored) /\ Len(s) \in Nat /\ D = 1 .. Len(s) /\ IsFiniteSet(D)
  BY ListType DEF StoredKept
<1>2. t \in Seq(Stored) /\ DOMAIN t = D \cup {n} /\ t[n] = x /\ n \notin D /\ \A j \in D : t[j] = s[j]
  BY <1>1, ListContinued DEF Continues
<1>. HIDE DEF t
<1>3. (\A j \in D : f[j] = s[j].size /\ f[j] \in Nat) /\ \A j \in DOMAIN t : g[j] = t[j].size /\ g[j] \in Nat
  <2>1. \A j \in D : f[j] = s[j].size /\ f[j] \in Nat
    BY <1>1, UnitsForm
  <2>2. \A j \in DOMAIN t : g[j] = t[j].size /\ g[j] \in Nat
    BY <1>2, UnitsForm
  <2>. QED BY <2>1, <2>2
<1>4. /\ Len(s) < RecordLimit[p] /\ SumOver(f, D) + x.size <= StorageLimit[p] /\ SumOver(f, D) \in Nat
  <2>1. Len(s) < RecordLimit[p] /\ Store!Units(s) + x.size <= StorageLimit[p]
    BY DEF Store!HasRoom
  <2>2. Store!Units(s) = SumOver(f, D) /\ Store!Units(s) \in Nat
    BY <1>1, UnitsForm
  <2>. QED BY <2>1, <2>2
<1>5. /\ RecordLimit[p] \in Nat /\ RecordLimit[x.best] \in Nat /\ StorageLimit[p] \in Nat /\ StorageLimit[x.best] \in Nat
      /\ RecordLimit[p] <= RecordLimit[x.best] /\ StorageLimit[p] <= StorageLimit[x.best] /\ x.size \in Nat
  BY OnceAssumption DEF Stored, Plans
<1>6. FittedIn(t, n)
  <2>1. 1 .. n = D \cup {n} /\ (D \cup {n}) \ {n} = D /\ IsFiniteSet(D \cup {n}) /\ n \in D \cup {n}
    <3>1. 1 .. n = D \cup {n}
      BY <1>1
    <3>2. (D \cup {n}) \ {n} = D
      BY <1>2
    <3>. HIDE DEF D, n
    <3>. QED BY <1>1, <3>1, <3>2, FS_AddElement
  <2>. HIDE DEF f, g, n, D
  <2>2. SumOver(g, D \cup {n}) = g[n] + SumOver(g, D)
    <3>1. \A j \in D \cup {n} : g[j] \in Int
      BY <1>2, <1>3
    <3>2. SumOver(g, D \cup {n}) = g[n] + SumOver(g, (D \cup {n}) \ {n})
      BY <2>1, <3>1, SumRemove
    <3>. QED BY <2>1, <3>2
  <2>3. SumOver(f, D) = SumOver(g, D)
    <3>1. \A j \in D : f[j] \in Int /\ f[j] = g[j]
      BY <1>2, <1>3
    <3>. QED BY <1>1, <3>1, SumCongruent
  <2>4. g[n] = x.size
    BY <1>2, <1>3
  <2>5. SumOver(g, 1 .. n) <= StorageLimit[x.best]
    <3>1. SumOver(g, D \cup {n}) <= StorageLimit[x.best]
      BY <1>4, <1>5, <2>2, <2>3, <2>4
    <3>. QED BY <2>1, <3>1, Zenon
  <2>6. n <= RecordLimit[x.best]
    BY <1>1, <1>4, <1>5 DEF n
  <2>. QED BY <1>2, <2>5, <2>6 DEF FittedIn, g
<1>7. \A i \in D : FittedIn(t, i)
  <2>1. D \subseteq DOMAIN t /\ \A j \in D : t[j].size = s[j].size /\ t[j].best = s[j].best
    BY <1>2
  <2>. QED BY <1>2, <2>1, RoomStays
<1>. QED BY <1>2, <1>6, <1>7 DEF StoredKept, t

\* The invariant after a step of one request, or of none.
LEMMA OneAsks ==
  ASSUME StoreKept(records), HasStore(records'), records'.backend = records.backend, records'.plan = records.plan,
         StoredKept(records'.rec), NEW r \in StoreRequest, AskedKept(records.backend, records.plan, records'.request[r]),
         \A q \in StoreRequest : q # r => records'.request[q] = records.request[q]
  PROVE  Store!StoreInvariant'
<1>1. StoreKept(records')
  <2>1. ASSUME NEW q \in StoreRequest PROVE AskedKept(records.backend, records.plan, records'.request[q])
    BY <2>1 DEF StoreKept
  <2>. QED BY <2>1 DEF StoreKept
<1>. QED BY <1>1, StoreFormNext

\* The plan changes, and everybody under way remembers it.
LEMMA PlanRemembered ==
  ASSUME NEW b, NEW plan, NEW q, AskedKept(b, plan, q), NEW p \in Plans
  PROVE  AskedKept(b, p, IF q.at # "idle" THEN [q EXCEPT !.best = IF p > @ THEN p ELSE @] ELSE Store!Idle)
<1>. DEFINE new == [q EXCEPT !.best = IF p > q.best THEN p ELSE q.best]
<1>1. CASE q.at # "idle"
  <2>1. /\ {"at", "plan", "best", "draft", "undo", "writes"} \subseteq DOMAIN q
        /\ q.best \in Plans /\ q.plan \in Plans /\ q.plan <= q.best
    BY <1>1 DEF AskedKept
  <2>2. /\ DOMAIN new = DOMAIN q /\ new.at = q.at /\ new.plan = q.plan /\ new.draft = q.draft /\ new.undo = q.undo
        /\ new.best = IF p > q.best THEN p ELSE q.best
    BY <2>1
  <2>. HIDE DEF new
  <2>3. p \in Nat /\ q.best \in Nat /\ q.plan \in Nat
    BY <2>1, OnceAssumption DEF Plans
  <2>4. new.best \in Plans /\ p <= new.best /\ new.plan <= new.best
    BY <2>1, <2>2, <2>3
  <2>5. AskedKept(b, p, new)
    BY <1>1, <2>1, <2>2, <2>4 DEF AskedKept
  <2>. QED BY <1>1, <2>5 DEF new
<1>2. CASE ~(q.at # "idle")
  BY <1>2 DEF AskedKept, Store!Idle
<1>. QED BY <1>1, <1>2

\* What is not a request's.
LEMMA AsideSteps ==
  ASSUME Store!StoreInvariant,
         \/ \E a \in Role : Store!AddWorkspaceMember(a)
         \/ Store!RemoveWorkspaceMember
         \/ Store!EnableModule
         \/ \E p \in Plans : Store!SetWorkspacePlan(p)
  PROVE  Store!StoreInvariant'
<1>1. StoreKept(records) /\ HasStore(records)
  BY StoreForm DEF StoreKept
<1>2. CASE (\E a \in Role : Store!AddWorkspaceMember(a)) \/ Store!RemoveWorkspaceMember \/ Store!EnableModule
  <2>1. HasStore(records') /\ \A f \in {"backend", "plan", "rec", "request"} : records'[f] = records[f]
    <3>1. ASSUME NEW a, Store!AddWorkspaceMember(a)
          PROVE  HasStore(records') /\ \A f \in {"backend", "plan", "rec", "request"} : records'[f] = records[f]
      BY <1>1, <3>1 DEF Store!AddWorkspaceMember, HasStore
    <3>2. CASE Store!RemoveWorkspaceMember
      BY <1>1, <3>2 DEF Store!RemoveWorkspaceMember, HasStore
    <3>3. CASE Store!EnableModule
      BY <1>1, <3>3 DEF Store!EnableModule, HasStore
    <3>. QED BY <1>2, <3>1, <3>2, <3>3
  <2>2. StoreKept(records')
    BY <1>1, <2>1 DEF StoreKept
  <2>. QED BY <2>2, StoreFormNext
<1>3. ASSUME NEW p \in Plans, Store!SetWorkspacePlan(p) PROVE Store!StoreInvariant'
  <2>1. /\ HasStore(records') /\ \A f \in {"backend", "rec"} : records'[f] = records[f]
        /\ records'.plan = p /\ records'.request = Store!Remembering(p)
    BY <1>1, <1>3 DEF Store!SetWorkspacePlan, Store!Remembering, HasStore
  <2>2. ASSUME NEW q \in StoreRequest PROVE AskedKept(records.backend, p, records'.request[q])
    <3>1. records'.request[q] = IF records.request[q].at # "idle"
                                THEN [records.request[q] EXCEPT !.best = IF p > @ THEN p ELSE @] ELSE Store!Idle
      BY <2>1 DEF Store!Remembering, Store!UnderWay, Store!request
    <3>2. AskedKept(records.backend, records.plan, records.request[q])
      BY <1>1 DEF StoreKept
    <3>. QED BY <3>1, <3>2, PlanRemembered
  <2>3. StoreKept(records')
    BY <1>1, <2>1, <2>2 DEF StoreKept
  <2>. QED BY <2>3, StoreFormNext
<1>. QED BY <1>2, <1>3

\* A request begins, is refused, or takes the lock for a command.
LEMMA StartSteps ==
  ASSUME Store!StoreInvariant, NEW r \in StoreRequest, Store!Starts(r) \/ Store!Refuse(r)
  PROVE  Store!StoreInvariant'
<1>. DEFINE q == records.request[r]
            Same == /\ HasStore(records') /\ \A f \in {"backend", "plan", "rec"} : records'[f] = records[f]
                    /\ \A s \in StoreRequest : s # r => records'.request[s] = records.request[s]
<1>1. StoreKept(records) /\ HasStore(records) /\ records.plan \in Plans /\ StoredKept(records.rec)
      /\ AskedKept(records.backend, records.plan, q)
  BY StoreForm DEF StoreKept
<1>2. ASSUME Same, AskedKept(records.backend, records.plan, records'.request[r]) PROVE Store!StoreInvariant'
  BY <1>1, <1>2, OneAsks
<1>3. ASSUME NEW a, NEW o, Store!Wait(r, a, o) PROVE Store!StoreInvariant'
  <2>. DEFINE x == [at |-> "waiting", operation |-> o, actor |-> a, plan |-> records.plan, best |-> records.plan,
                    role |-> records.role[a], draft |-> <<>>, undo |-> Store!Idle, writes |-> Store!NoWrites]
  <2>1. Same /\ records'.request[r] = x
    BY <1>1, <1>3 DEF Store!Wait, Store!plan, Store!role, HasStore
  <2>2. AskedKept(records.backend, records.plan, x)
    BY <1>1, OnceAssumption DEF AskedKept, Plans
  <2>. HIDE DEF x
  <2>. QED BY <1>2, <2>1, <2>2
<1>4. ASSUME Store!RunInWorkspaceTransaction(r) PROVE Store!StoreInvariant'
  <2>. DEFINE x == [q EXCEPT !.at = "in", !.draft = records.rec]
  <2>1. Same /\ records'.request[r] = x /\ q.at = "waiting" /\ records.backend = "postgres"
    BY <1>1, <1>4 DEF Store!RunInWorkspaceTransaction, Store!Turn, Store!backend, Store!request, Store!rec, HasStore
  <2>2. {"at", "plan", "best", "draft", "undo", "writes"} \subseteq DOMAIN q
    BY <1>1, <2>1 DEF AskedKept
  <2>3. DOMAIN x = DOMAIN q /\ x.at = "in" /\ x.draft = records.rec /\ x.plan = q.plan /\ x.best = q.best
    BY <2>2
  <2>. HIDE DEF x
  <2>4. AskedKept(records.backend, records.plan, x)
    BY <1>1, <2>1, <2>3 DEF AskedKept
  <2>. QED BY <1>2, <2>1, <2>4
<1>5. ASSUME Store!RunInWorkspaceTransactionInMemory(r) PROVE Store!StoreInvariant'
  <2>. DEFINE u == [rec |-> records.rec, plan |-> records.plan, role |-> records.role, enabled |-> records.enabled]
              x == [q EXCEPT !.at = "in", !.undo = u]
  <2>1. Same /\ records'.request[r] = x /\ q.at = "waiting" /\ records.backend = "memory"
    BY <1>1, <1>5 DEF Store!RunInWorkspaceTransactionInMemory, Store!Turn, Store!backend, Store!request, Store!rec, Store!plan,
       Store!role, Store!enabled, HasStore
  <2>2. {"at", "plan", "best", "draft", "undo", "writes"} \subseteq DOMAIN q
    BY <1>1, <2>1 DEF AskedKept
  <2>3. DOMAIN x = DOMAIN q /\ x.at = "in" /\ x.undo = u /\ x.plan = q.plan /\ x.best = q.best
    BY <2>2
  <2>4. {"rec", "plan"} \subseteq DOMAIN u /\ u.rec = records.rec /\ u.plan = records.plan
    OBVIOUS
  <2>. HIDE DEF x, u
  <2>5. AskedKept(records.backend, records.plan, x)
    BY <1>1, <2>1, <2>3, <2>4 DEF AskedKept
  <2>. QED BY <1>2, <2>1, <2>5
<1>6. ASSUME Store!Refuse(r) PROVE Store!StoreInvariant'
  <2>1. Same /\ records'.request[r] = Store!Idle
    BY <1>1, <1>6 DEF Store!Refuse, HasStore
  <2>2. AskedKept(records.backend, records.plan, Store!Idle)
    BY DEF AskedKept, Store!Idle
  <2>. QED BY <1>2, <2>1, <2>2
<1>. QED BY <1>3, <1>4, <1>5, <1>6 DEF Store!Starts, Store!WithUserWorkspace, Store!WithPublicWorkspace

\* A record is created, by itself or in a command.
LEMMA CreateSteps ==
  ASSUME Store!StoreInvariant, NEW r \in StoreRequest, NEW size \in ObjectSize, Store!Creates(r, size)
  PROVE  Store!StoreInvariant'
<1>. DEFINE q == records.request[r]
            x == Store!New(r, size)
            Same == /\ HasStore(records') /\ \A f \in {"backend", "plan"} : records'[f] = records[f]
                    /\ \A s \in StoreRequest : s # r => records'.request[s] = records.request[s]
<1>1. StoreKept(records) /\ HasStore(records) /\ records.plan \in Plans /\ StoredKept(records.rec)
      /\ AskedKept(records.backend, records.plan, q)
  BY StoreForm DEF StoreKept
<1>2. q.at \in {"waiting", "in"}
  BY DEF Store!Creates, Store!CreateRecord, Store!CreatePublicRecord, Store!CreateRecordInMemory, Store!CreatePublicRecordInMemory,
     Store!CommandCreates, Store!Turn, Store!request
<1>3. /\ {"at", "plan", "best", "draft", "undo", "writes"} \subseteq DOMAIN q
      /\ q.best \in Plans /\ q.plan \in Plans /\ records.plan <= q.best /\ q.plan <= q.best
  BY <1>1, <1>2 DEF AskedKept
<1>4. x \in Stored /\ x.size = size /\ x.best = q.best
  BY <1>3, OnceAssumption DEF Store!New, Store!request, Stored
<1>5. ASSUME NEW p \in Plans, p <= q.best, Store!HasRoom(records.rec, size, p), Store!Append1(r, size)
      PROVE  Store!StoreInvariant'
  <2>. HIDE DEF x
  <2>1. StoredKept(Append(records.rec, x))
    BY <1>1, <1>4, <1>5, StoredMore
  <2>2. Same /\ records'.rec = Append(records.rec, x) /\ records'.request[r] = Store!Idle
    BY <1>1, <1>5 DEF Store!Append1, HasStore, x
  <2>3. AskedKept(records.backend, records.plan, Store!Idle)
    BY DEF AskedKept, Store!Idle
  <2>. QED BY <1>1, <2>1, <2>2, <2>3, OneAsks
<1>6. CASE Store!CreateRecord(r, size) \/ Store!CreatePublicRecord(r, size)
  BY <1>3, <1>5, <1>6 DEF Store!CreateRecord, Store!CreatePublicRecord, Store!rec, Store!request
<1>7. CASE Store!CreateRecordInMemory(r, size) \/ Store!CreatePublicRecordInMemory(r, size)
  BY <1>1, <1>3, <1>5, <1>7 DEF Store!CreateRecordInMemory, Store!CreatePublicRecordInMemory, Store!rec, Store!plan
<1>8. CASE Store!CommandCreates(r, size)
  <2>. DEFINE seen == Store!Seen(r)
              new == Append(seen, x)
  <2>1. q.at = "in" /\ Store!HasRoom(seen, size, records.plan)
    BY <1>8 DEF Store!CommandCreates, Store!request, Store!plan
  <2>2. StoredKept(seen)
    BY <1>1, <2>1 DEF AskedKept, Store!Seen, Store!request, Store!backend, Store!rec
  <2>. HIDE DEF seen, x
  <2>3. StoredKept(new)
    BY <1>1, <1>3, <1>4, <2>1, <2>2, StoredMore
  <2>. HIDE DEF new
  <2>4. Store!Write(r, new, "creates")
    BY <1>8 DEF Store!CommandCreates, new, seen, x
  <2>5. CASE records.backend = "postgres"
    <3>1. /\ Same /\ records'.rec = records.rec /\ records'.request[r].at = q.at /\ records'.request[r].plan = q.plan
          /\ records'.request[r].best = q.best /\ records'.request[r].draft = new /\ DOMAIN records'.request[r] = DOMAIN q
      BY <1>1, <1>3, <2>4, <2>5 DEF Store!Write, Store!backend, HasStore
    <3>2. AskedKept(records.backend, records.plan, records'.request[r])
      BY <1>3, <2>3, <2>5, <3>1 DEF AskedKept
    <3>. QED BY <1>1, <3>1, <3>2, OneAsks
  <2>6. CASE records.backend # "postgres"
    <3>1. /\ Same /\ records'.rec = new /\ records'.request[r].at = q.at /\ records'.request[r].plan = q.plan
          /\ records'.request[r].best = q.best /\ records'.request[r].undo = q.undo /\ DOMAIN records'.request[r] = DOMAIN q
      BY <1>1, <1>3, <2>4, <2>6 DEF Store!Write, Store!backend, HasStore
    <3>2. AskedKept(records.backend, records.plan, records'.request[r])
      BY <1>1, <1>2, <2>6, <3>1 DEF AskedKept
    <3>. QED BY <1>1, <2>3, <3>1, <3>2, OneAsks
  <2>. QED BY <2>5, <2>6
<1>. QED BY <1>6, <1>7, <1>8 DEF Store!Creates

\* A record changes, by itself or in a command.
LEMMA UpdateSteps ==
  ASSUME Store!StoreInvariant, NEW r \in StoreRequest, NEW i, Store!Updates(r, i)
  PROVE  Store!StoreInvariant'
<1>. DEFINE q == records.request[r]
            Same == /\ HasStore(records') /\ \A f \in {"backend", "plan"} : records'[f] = records[f]
                    /\ \A s \in StoreRequest : s # r => records'.request[s] = records.request[s]
<1>1. StoreKept(records) /\ HasStore(records) /\ records.plan \in Plans /\ StoredKept(records.rec)
      /\ AskedKept(records.backend, records.plan, q)
  BY StoreForm DEF StoreKept
<1>2. q.at \in {"waiting", "in"}
  BY DEF Store!Updates, Store!UpdateRecord, Store!UpdatePublicWorkflowRecord, Store!UpdateRecordInMemory,
     Store!UpdatePublicWorkflowRecordInMemory, Store!CommandUpdates, Store!Turn, Store!request
<1>3. /\ {"at", "plan", "best", "draft", "undo", "writes"} \subseteq DOMAIN q
      /\ q.best \in Plans /\ q.plan \in Plans /\ records.plan <= q.best /\ q.plan <= q.best
  BY <1>1, <1>2 DEF AskedKept
<1>4. ASSUME NEW s, StoredKept(s), i \in DOMAIN s, NEW new, new = [s EXCEPT ![i].version = s[i].version + 1]
      PROVE  StoredKept(new)
  <2>. DEFINE x == [s[i] EXCEPT !.version = s[i].version + 1]
  <2>1. s \in Seq(Stored) /\ s[i] \in Stored
    BY <1>4, ListType DEF StoredKept
  <2>2. s[i].version + 1 \in Nat
    BY <2>1 DEF Stored
  <2>3. x \in Stored /\ x.size = s[i].size /\ x.best = s[i].best
    BY <2>1, <2>2 DEF Stored
  <2>4. new = [s EXCEPT ![i] = x]
    BY <1>4
  <2>. HIDE DEF x
  <2>5. new \in Seq(Stored) /\ DOMAIN new = DOMAIN s /\ new[i] = x /\ \A j \in DOMAIN s : j # i => new[j] = s[j]
    BY <1>4, <2>1, <2>3, <2>4, ListChange, OneChangedBy
  <2>6. \A j \in DOMAIN s : new[j].size = s[j].size /\ new[j].best = s[j].best
    BY <2>3, <2>5
  <2>. QED BY <1>4, <2>5, <2>6, StoredSame
<1>5. ASSUME i \in DOMAIN records.rec, Store!Change1(r, i) PROVE Store!StoreInvariant'
  <2>1. Same /\ records'.rec = [records.rec EXCEPT ![i].version = records.rec[i].version + 1] /\ records'.request[r] = Store!Idle
    BY <1>1, <1>5 DEF Store!Change1, HasStore
  <2>2. StoredKept(records'.rec)
    BY <1>1, <1>4, <1>5, <2>1
  <2>3. AskedKept(records.backend, records.plan, Store!Idle)
    BY DEF AskedKept, Store!Idle
  <2>. QED BY <1>1, <2>1, <2>2, <2>3, OneAsks
<1>6. CASE \/ Store!UpdateRecord(r, i) \/ Store!UpdatePublicWorkflowRecord(r, i)
           \/ Store!UpdateRecordInMemory(r, i) \/ Store!UpdatePublicWorkflowRecordInMemory(r, i)
  BY <1>5, <1>6 DEF Store!UpdateRecord, Store!UpdatePublicWorkflowRecord, Store!UpdateRecordInMemory,
     Store!UpdatePublicWorkflowRecordInMemory, Store!Changeable, Store!rec
<1>7. CASE Store!CommandUpdates(r, i)
  <2>. DEFINE seen == Store!Seen(r)
              new == [seen EXCEPT ![i].version = seen[i].version + 1]
  <2>1. q.at = "in" /\ i \in DOMAIN seen
    BY <1>7 DEF Store!CommandUpdates, Store!Changeable, Store!request
  <2>2. StoredKept(seen)
    BY <1>1, <2>1 DEF AskedKept, Store!Seen, Store!request, Store!backend, Store!rec
  <2>3. Store!Write(r, new, "updates")
    BY <1>7 DEF Store!CommandUpdates
  <2>. HIDE DEF seen
  <2>4. StoredKept(new)
    BY <1>4, <2>1, <2>2
  <2>. HIDE DEF new
  <2>5. CASE records.backend = "postgres"
    <3>1. /\ Same /\ records'.rec = records.rec /\ records'.request[r].at = q.at /\ records'.request[r].plan = q.plan
          /\ records'.request[r].best = q.best /\ records'.request[r].draft = new /\ DOMAIN records'.request[r] = DOMAIN q
      BY <1>1, <1>3, <2>3, <2>5 DEF Store!Write, Store!backend, HasStore
    <3>2. AskedKept(records.backend, records.plan, records'.request[r])
      BY <1>3, <2>4, <2>5, <3>1 DEF AskedKept
    <3>. QED BY <1>1, <3>1, <3>2, OneAsks
  <2>6. CASE records.backend # "postgres"
    <3>1. /\ Same /\ records'.rec = new /\ records'.request[r].at = q.at /\ records'.request[r].plan = q.plan
          /\ records'.request[r].best = q.best /\ records'.request[r].undo = q.undo /\ DOMAIN records'.request[r] = DOMAIN q
      BY <1>1, <1>3, <2>3, <2>6 DEF Store!Write, Store!backend, HasStore
    <3>2. AskedKept(records.backend, records.plan, records'.request[r])
      BY <1>1, <1>2, <2>6, <3>1 DEF AskedKept
    <3>. QED BY <1>1, <2>4, <3>1, <3>2, OneAsks
  <2>. QED BY <2>5, <2>6
<1>. QED BY <1>6, <1>7 DEF Store!Updates

\* A command ends.
LEMMA EndSteps ==
  ASSUME Store!StoreInvariant, NEW r \in StoreRequest, Store!Commit(r) \/ Store!Rollback(r) \/ Store!RollbackInMemory(r)
  PROVE  Store!StoreInvariant'
<1>. DEFINE q == records.request[r]
            Same == /\ HasStore(records') /\ \A f \in {"backend", "plan"} : records'[f] = records[f]
                    /\ \A s \in StoreRequest : s # r => records'.request[s] = records.request[s]
<1>1. StoreKept(records) /\ HasStore(records) /\ records.plan \in Plans /\ StoredKept(records.rec)
      /\ AskedKept(records.backend, records.plan, q)
  BY StoreForm DEF StoreKept
<1>2. q.at = "in"
  BY DEF Store!Commit, Store!Rollback, Store!RollbackInMemory, Store!request
<1>3. AskedKept(records.backend, records.plan, Store!Idle)
  BY DEF AskedKept, Store!Idle
<1>4. CASE Store!Commit(r)
  <2>. DEFINE seen == Store!Seen(r)
              new == [i \in DOMAIN seen |-> [seen[i] EXCEPT !.open = FALSE]]
  <2>1. Same /\ records'.rec = new /\ records'.request[r] = Store!Idle
    BY <1>1, <1>4 DEF Store!Commit, HasStore
  <2>2. StoredKept(seen)
    BY <1>1, <1>2 DEF AskedKept, Store!Seen, Store!request, Store!backend, Store!rec
  <2>. HIDE DEF seen
  <2>3. seen \in Seq(Stored) /\ \A i \in DOMAIN seen : seen[i] \in Stored
    BY <2>2, ListType DEF StoredKept
  <2>4. DOMAIN new = DOMAIN seen /\ \A i \in DOMAIN seen : new[i] \in Stored /\ new[i].size = seen[i].size /\ new[i].best = seen[i].best
    BY <2>3 DEF Stored
  <2>5. new \in [DOMAIN seen -> Stored]
    BY <2>3, <2>4
  <2>. HIDE DEF new
  <2>6. new \in Seq(Stored)
    BY <2>3, <2>4, <2>5, ListRetype
  <2>7. StoredKept(new)
    BY <2>2, <2>4, <2>6, StoredSame
  <2>. QED BY <1>1, <1>3, <2>1, <2>7, OneAsks
<1>5. CASE Store!Rollback(r)
  <2>1. Same /\ records'.rec = records.rec /\ records'.request[r] = Store!Idle
    BY <1>1, <1>5 DEF Store!Rollback, HasStore
  <2>. QED BY <1>1, <1>3, <2>1, OneAsks
<1>6. CASE Store!RollbackInMemory(r)
  <2>. DEFINE u == q.undo
  <2>1. /\ HasStore(records') /\ records'.backend = records.backend /\ records'.rec = u.rec /\ records'.plan = u.plan
        /\ records'.request = [Store!Remembering(u.plan) EXCEPT ![r] = Store!Idle]
    BY <1>1, <1>6 DEF Store!RollbackInMemory, Store!Remembering, Store!request, HasStore
  <2>2. u.plan \in Plans /\ StoredKept(u.rec)
    BY <1>1, <1>2, <1>6 DEF AskedKept, Store!RollbackInMemory, Store!backend
  <2>. HIDE DEF u
  <2>3. ASSUME NEW s \in StoreRequest PROVE AskedKept(records.backend, u.plan, records'.request[s])
    <3>1. CASE s = r
      <4>1. records'.request[s] = Store!Idle
        BY <2>1, <3>1 DEF Store!Remembering
      <4>. QED BY <4>1 DEF AskedKept, Store!Idle
    <3>2. CASE s # r
      <4>1. records'.request[s] = IF records.request[s].at # "idle"
                                  THEN [records.request[s] EXCEPT !.best = IF u.plan > @ THEN u.plan ELSE @] ELSE Store!Idle
        BY <2>1, <3>2 DEF Store!Remembering, Store!UnderWay, Store!request
      <4>2. AskedKept(records.backend, records.plan, records.request[s])
        BY <1>1 DEF StoreKept
      <4>. QED BY <2>2, <4>1, <4>2, PlanRemembered
    <3>. QED BY <3>1, <3>2
  <2>4. StoreKept(records')
    BY <2>1, <2>2, <2>3 DEF StoreKept
  <2>. QED BY <2>4, StoreFormNext
<1>. QED BY <1>4, <1>5, <1>6

LEMMA StoreStep ==
  ASSUME Store!StoreInvariant, Store!Next
  PROVE  Store!StoreInvariant'
BY AsideSteps, StartSteps, CreateSteps, UpdateSteps, EndSteps DEF Store!Next, Store!Plan, Plans

LEMMA StoreKeeps ==
  ASSUME Store!StoreInvariant
  PROVE  Store!CreatedWithinQuota
BY DEF Store!StoreInvariant, Store!Listed, Store!CreatedWithinQuota

-----------------------------------------------------------------------------
(* The whole of what is given out once.                                    *)

\* Every seat, hour, decision, command and record stays bound to the one that
\* it was given to, in the enabled module, for any number of each and whatever
\* is interleaved.
THEOREM OnceSafety == OnceSpec => []OnceInvariant
<1>1. OnceInit => OnceInvariant
  <2>. SUFFICES ASSUME NEW m \in Offered, enabled = {m},
                       \/ m = "events"   /\ Events!Init
                       \/ m = "schedule" /\ Schedule!Init
                       \/ m = "people"   /\ People!Init
                       \/ m = "commands" /\ Commands!Init
                       \/ m = "store"    /\ Store!Init
                PROVE  OnceInvariant
    BY DEF OnceInit
  <2>. QED BY EventsInit, ScheduleInit, PeopleInit, CommandsInit, StoreInit DEF OnceInvariant, Has
<1>2. OnceInvariant /\ [OnceNext]_<<enabled, records>> => OnceInvariant'
  <2>. SUFFICES ASSUME OnceInvariant, [OnceNext]_<<enabled, records>> PROVE OnceInvariant'
    OBVIOUS
  <2>1. PICK m \in Offered : enabled = {m}
    BY DEF OnceInvariant
  <2>2. CASE OnceNext
    <3>1. enabled' = enabled
      BY <2>2 DEF OnceNext
    <3>2. Has("events") => Events!EventsInvariant'
      BY <2>1, <2>2, EventsStep DEF OnceInvariant, OnceNext, Has
    <3>3. Has("schedule") => Schedule!ScheduleInvariant'
      BY <2>1, <2>2, ScheduleStep DEF OnceInvariant, OnceNext, Has
    <3>4. Has("people") => People!PeopleInvariant'
      BY <2>1, <2>2, PeopleStep DEF OnceInvariant, OnceNext, Has
    <3>5. Has("commands") => Commands!CommandsInvariant'
      BY <2>1, <2>2, CommandsStep DEF OnceInvariant, OnceNext, Has
    <3>6. Has("store") => Store!StoreInvariant'
      BY <2>1, <2>2, StoreStep DEF OnceInvariant, OnceNext, Has
    <3>. QED BY <2>1, <3>1, <3>2, <3>3, <3>4, <3>5, <3>6 DEF OnceInvariant, Has
  <2>3. CASE UNCHANGED <<enabled, records>>
    <3>1. enabled' = enabled /\ records' = records
      BY <2>3
    <3>2. Has("events") => Events!EventsInvariant'
      BY <3>1, EventsForm, EventsFormNext DEF OnceInvariant
    <3>3. Has("schedule") => Schedule!ScheduleInvariant'
      BY <3>1, ScheduleForm, ScheduleFormNext DEF OnceInvariant
    <3>4. Has("people") => People!PeopleInvariant'
      BY <3>1, PeopleForm, PeopleFormNext DEF OnceInvariant
    <3>5. Has("commands") => Commands!CommandsInvariant'
      BY <3>1, CommandsForm, CommandsFormNext DEF OnceInvariant
    <3>6. Has("store") => Store!StoreInvariant'
      BY <3>1, StoreForm, StoreFormNext DEF OnceInvariant
    <3>. QED BY <2>1, <3>1, <3>2, <3>3, <3>4, <3>5, <3>6 DEF OnceInvariant, Has
  <2>. QED BY <2>2, <2>3
<1>. QED BY <1>1, <1>2, PTL DEF OnceSpec

\* What exists once is given out once: no seat is sold or refunded twice, no
\* hour of a host booked twice, no leave, review or profile decided or closed
\* twice, no command applied twice, and no record created without room.
THEOREM NothingGivenTwice == OnceSpec => []NothingTwice
<1>1. OnceInvariant => NothingTwice
  BY EventsKeeps, ScheduleKeeps, PeopleKeeps, CommandsKept, StoreKeeps DEF OnceInvariant, NothingTwice
<1>. QED BY <1>1, OnceSafety, PTL
=============================================================================
