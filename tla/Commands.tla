------------------------------ MODULE Commands ------------------------------
(***************************************************************************)
(* What the seven business engines wrap every command in: who may run it,  *)
(* the receipt that makes a retry an answer, the human approval that risky *)
(* commands and some AI requests need, and the receipt that is kept.  A    *)
(* command runs under the workspace's lock, so it is one step.  An engine  *)
(* and a kind of command stand for an action; what it does is one record,  *)
(* which other commands may revise later.  The validation of inputs is     *)
(* left out.  A tick is twelve hours: an approval is good for Fresh ticks, *)
(* and the few minutes of the future some engines forgive are one tick.    *)
(***************************************************************************)
EXTENDS Integers, Sequences, FiniteSets

CONSTANTS
  Engines,       \* the sets of engines a workspace may use
  Owner, Other,  \* the owner and a second person, whose role changes
  Role,
  Key, Decision, NoDecision,
  Fresh, Horizon, MaxReceipts, MaxVersion

VARIABLE records

engines == records.engines
role    == records.role
receipt == records.receipt   \* the receipts of all engines
effect  == records.effect    \* what commands made, in order
answer  == records.answer    \* the last answer a command gave
now     == records.now

Init == \E e \in Engines :
  records = [engines |-> e, role |-> [a \in {Owner, Other} |-> IF a = Owner THEN "owner" ELSE "none"],
             receipt |-> {}, effect |-> <<>>, answer |-> {}, now |-> 0]

Tick == now < Horizon /\ records' = [records EXCEPT !.now = @ + 1]

\* A role changes by removing the member and adding him again.
AddWorkspaceMember(r) == role[Other] = "none" /\ records' = [records EXCEPT !.role[Other] = r]
RemoveWorkspaceMember == role[Other] # "none" /\ records' = [records EXCEPT !.role[Other] = "none"]

\* Another command updates what command i made.
Revise(i) == effect[i].version < MaxVersion /\ records' = [records EXCEPT !.effect[i].version = @ + 1]

-----------------------------------------------------------------------------
Writes(c)  == role[c.actor] \in {"member", "admin", "owner"}
Manages(c) == role[c.actor] \in {"admin", "owner"}

\* Who may run which command: viewers only read, and what needs an approval is
\* a manager's.  AI requests need one in the additive and the premium engine.
CoreAuthorizes(c)     == Writes(c) /\ (c.kind = "risky" => Manages(c))
GrowthAuthorizes(c)   == Writes(c) /\ (c.kind = "risky" => Manages(c))
EsignAuthorizes(c)    == Writes(c) /\ (c.kind = "risky" => Manages(c))
EmailAuthorizes(c)    == Writes(c) /\ (c.kind = "risky" => Manages(c))
ExtendedAuthorizes(c) == IF c.kind = "risky" THEN Manages(c) ELSE Writes(c)
AdditiveAuthorizes(c) == IF c.kind = "plain" THEN Writes(c) ELSE Manages(c)
PremiumAuthorizes(c)  == Writes(c) /\ (c.kind # "plain" => Manages(c))

\* A decision is used by the first receipt of any engine that names it.
DecisionUnused(c) == \A q \in receipt : q.decision # c.given

\* An approval is the actor's own, recent, not of the future and not used yet.
Strict(c)  == c.given # NoDecision /\ c.at <= now /\ now - c.at <= Fresh
Lenient(c) == c.given # NoDecision /\ c.at <= now + 1 /\ c.at + Fresh >= now
CoreApproval(c)     == Strict(c)  /\ DecisionUnused(c)
GrowthApproval(c)   == Strict(c)  /\ DecisionUnused(c)
ExtendedApproval(c) == Strict(c)  /\ DecisionUnused(c)
AdditiveApproval(c) == Strict(c)  /\ DecisionUnused(c)
EsignApproval(c)    == Lenient(c) /\ DecisionUnused(c)
EmailApproval(c)    == Lenient(c) /\ DecisionUnused(c)
PremiumApproval(c)  == Lenient(c) /\ DecisionUnused(c)

\* The receipt an action has for a key.  A receipt of another actor or of
\* another input refuses the command.
ReceiptOf(c) == {q \in receipt : <<q.request.engine, q.request.kind, q.request.key>> = <<c.engine, c.kind, c.key>>}

\* A retry of the same request is answered from its receipt.  Most receipts
\* name records, which are read again; those of the extended and the additive
\* engine hold the response as it was given first.
Replay(c, response(_)) == \E q \in ReceiptOf(c) : q.request = c /\ records' = [records EXCEPT !.answer = {response(q)}]
Today(q)  == [q EXCEPT !.version = IF q.made = 0 THEN 0 ELSE effect[q.made].version]
Stored(q) == q
CoreReplay(c)     == Replay(c, Today)
GrowthReplay(c)   == Replay(c, Today)
EsignReplay(c)    == Replay(c, Today)
EmailReplay(c)    == Replay(c, Today)
PremiumReplay(c)  == Replay(c, Today)
ExtendedReplay(c) == Replay(c, Stored)
AdditiveReplay(c) == Replay(c, Stored)

\* What a command does and the receipt it leaves; the key of a dry run is
\* bound to it as well.
Commit(c, q) ==
  /\ ReceiptOf(c) = {} /\ Cardinality(receipt) < MaxReceipts
  /\ records' = [records EXCEPT !.receipt = @ \cup {q}, !.answer = {q},
       !.effect = IF q.made = 0 THEN @ ELSE
         Append(@, [engine |-> c.engine, kind |-> c.kind, key |-> c.key, by |-> role[c.actor], decision |-> q.decision,
                    age |-> now - c.at, version |-> 1])]
Preview(c)      == Commit(c, [request |-> c, made |-> 0, decision |-> NoDecision, version |-> 0])
Do(c, decision) == Commit(c, [request |-> c, made |-> Len(effect) + 1, decision |-> decision, version |-> 1])

Run(c, gated, approval) ==
  \/ ~gated /\ Do(c, NoDecision)
  \/ gated /\ c.dry /\ Preview(c)
  \/ gated /\ ~c.dry /\ approval /\ Do(c, c.given)

\* The engines' entry points.
ExecuteCoreBusinessAction(c) ==
  CoreAuthorizes(c) /\ (CoreReplay(c) \/ Run(c, c.kind = "risky", CoreApproval(c)))
ExecuteFirstPartyGrowthAction(c) ==
  GrowthAuthorizes(c) /\ (GrowthReplay(c) \/ Run(c, c.kind = "risky", GrowthApproval(c)))
ExecuteEsignAction(c) ==
  EsignAuthorizes(c) /\ (EsignReplay(c) \/ Run(c, c.kind = "risky", EsignApproval(c)))
ExecuteEmailAction(c) ==
  EmailAuthorizes(c) /\ (EmailReplay(c) \/ Run(c, c.kind = "risky", EmailApproval(c)))
ExecutePremiumBusinessAction(c) ==
  PremiumAuthorizes(c) /\ (PremiumReplay(c) \/ Run(c, c.kind # "plain", PremiumApproval(c)))
ExecuteExtendedBusinessAction(c) ==
  ExtendedAuthorizes(c) /\ (ExtendedReplay(c) \/ Run(c, c.kind = "risky", ExtendedApproval(c)))
ExecuteAdditiveBusinessAction(c) ==
  AdditiveAuthorizes(c) /\ (AdditiveReplay(c) \/ Run(c, c.kind # "plain", AdditiveApproval(c)))

\* What a client may ask for: a dry run names no decision, a command that needs
\* no approval neither.
Asking(kinds, dry, given, at) ==
  [engine : engines, kind : kinds, key : Key, actor : {Owner, Other}, dry : dry, given : given, at : at]
Request ==
  Asking({"plain"}, {FALSE}, {NoDecision}, {0})
    \cup Asking({"risky", "ai"}, BOOLEAN, {NoDecision}, {0})
    \cup Asking({"risky", "ai"}, {FALSE}, Decision, 0 .. Horizon + 1)

ExecuteSuiteAction(c) ==
  \/ c.engine = "core"     /\ ExecuteCoreBusinessAction(c)
  \/ c.engine = "growth"   /\ ExecuteFirstPartyGrowthAction(c)
  \/ c.engine = "esign"    /\ ExecuteEsignAction(c)
  \/ c.engine = "email"    /\ ExecuteEmailAction(c)
  \/ c.engine = "premium"  /\ ExecutePremiumBusinessAction(c)
  \/ c.engine = "extended" /\ ExecuteExtendedBusinessAction(c)
  \/ c.engine = "additive" /\ ExecuteAdditiveBusinessAction(c)

Next ==
  \/ Tick
  \/ \E r \in Role : AddWorkspaceMember(r)
  \/ RemoveWorkspaceMember
  \/ \E i \in DOMAIN effect : Revise(i)
  \/ \E c \in Request : ExecuteSuiteAction(c)

Spec == Init /\ [][Next]_records

-----------------------------------------------------------------------------
\* However often commands are retried, by whom and in whatever engines: an
\* action does something once for a key, a decision backs one command of one
\* engine, what needs a decision was approved by a manager within the time an
\* approval is good for, and a retry names what the first answer named.
Gated(e) == e.kind = "risky" \/ (e.kind = "ai" /\ e.engine \in {"additive", "premium"})
EachCommandOnce ==
  /\ \A i, j \in DOMAIN effect : i # j =>
       /\ <<effect[i].engine, effect[i].kind, effect[i].key>> # <<effect[j].engine, effect[j].kind, effect[j].key>>
       /\ effect[i].decision = effect[j].decision => effect[i].decision = NoDecision
  /\ \A i \in DOMAIN effect : Gated(effect[i]) =>
       effect[i].decision # NoDecision /\ effect[i].by \in {"admin", "owner"} /\ effect[i].age <= Fresh
  /\ \A a \in answer : \E q \in receipt :
       /\ a.request = q.request /\ a.made = q.made
       /\ a.request.engine \in {"extended", "additive"} => a = q
\* Why it holds.  Whatever was done left a receipt that names it, its key and
\* its decision.
CommandsInvariant ==
  /\ {"engines", "role", "receipt", "effect", "answer", "now"} \subseteq DOMAIN records
  /\ now \in Nat /\ engines \subseteq UNION Engines
  /\ role \in [{Owner, Other} -> Role \cup {"owner", "none"}]
  /\ effect \in Seq([engine : UNION Engines, kind : {"plain", "risky", "ai"}, key : Key, by : Role \cup {"owner", "none"},
                     decision : Decision \cup {NoDecision}, age : Int, version : Nat])
  /\ receipt \subseteq [request : [engine : UNION Engines, kind : {"plain", "risky", "ai"}, key : Key, actor : {Owner, Other},
                                   dry : BOOLEAN, given : Decision \cup {NoDecision}, at : Nat],
                        made : Nat, decision : Decision \cup {NoDecision}, version : Nat]
  /\ \A i \in DOMAIN effect : \E q \in receipt :
       /\ q.made = i /\ q.decision = effect[i].decision
       /\ <<q.request.engine, q.request.kind, q.request.key>> = <<effect[i].engine, effect[i].kind, effect[i].key>>
  /\ EachCommandOnce
=============================================================================
