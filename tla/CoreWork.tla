------------------------------ MODULE CoreWork ------------------------------
(***************************************************************************)
(* Four modules of the core business engine.  tasks: work items that move  *)
(* along the states of a project under work-in-progress limits and         *)
(* dependencies.  feedback: requests that are voted on, moved, merged and  *)
(* announced.  inbox: conversations with numbered inbound messages and     *)
(* approved replies.  crm: accounts known by an external key, and          *)
(* opportunities that move through a pipeline.  A command is one workspace *)
(* transaction; one that updates a conversation or an opportunity names    *)
(* the version it has read.                                                *)
(***************************************************************************)
EXTENDS Naturals, Sequences, FiniteSets, FiniteSetsExt, Functions, Relation

CONSTANTS
  Project, Voter,
  Terminal,        \* the states of a project are 0 .. Terminal, 0 the initial one
  Limited, Limit,  \* the states that have a work-in-progress limit, and the limit
  MaxItems, MaxRequests, MaxEntries,
  Delivery, Assignee, ExternalKey, Domain, Decision,
  MaxConversations, MaxMessages, MaxOpportunities, MaxVersion

VARIABLE records   \* of the four modules

item         == records.item
edge         == records.edge
request      == records.request
vote         == records.vote
changelog    == records.changelog
conversation == records.conversation
message      == records.message
account      == records.account
opportunity  == records.opportunity
transition   == records.transition

Init == records =
  [item |-> <<>>, edge |-> {}, request |-> <<>>, vote |-> {}, changelog |-> <<>>,
   conversation |-> <<>>, message |-> <<>>, account |-> {}, opportunity |-> <<>>, transition |-> <<>>]

-----------------------------------------------------------------------------
WorkItemCreate(p) ==
  /\ Len(item) < MaxItems
  /\ records' = [records EXCEPT !.item = Append(@, [project |-> p, state |-> 0])]

\* b can be reached from a along the dependencies in E.
Reaches(E, S, a, b) == TransitiveClosure([x, y \in S |-> <<x, y>> \in E], S)[a, b]

\* Mutant of DependencyLink: only the opposite edge is looked for.
DependencyLinkUnlessMutual(a, b) ==
  /\ a # b /\ item[a].project = item[b].project /\ <<b, a>> \notin edge
  /\ records' = [records EXCEPT !.edge = @ \cup {<<a, b>>}]

DependencyLink(a, b) ==
  /\ a # b /\ item[a].project = item[b].project
  /\ ~ Reaches(edge, DOMAIN item, b, a)
  /\ records' = [records EXCEPT !.edge = @ \cup {<<a, b>>}]

InState(p, s) == {i \in DOMAIN item : item[i].project = p /\ item[i].state = s}

WorkItemTransition(i, to) ==
  LET from == item[i].state IN
  /\ to = from + 1 \/ from = to + 1
  /\ to > from => \A a \in DOMAIN item : <<a, i>> \in edge => item[a].state = Terminal
  /\ to \in Limited => Cardinality(InState(item[i].project, to) \ {i}) < Limit
  /\ records' = [records EXCEPT !.item[i].state = to]

-----------------------------------------------------------------------------
RequestSubmit ==
  /\ Len(request) < MaxRequests
  /\ records' = [records EXCEPT !.request = Append(@, [state |-> "open", into |-> 0])]

\* One vote of a voter on a request: a second one replaces the first.
VoteCast(r, v, decision) ==
  records' = [records EXCEPT !.vote =
    {w \in @ : ~ (w.request = r /\ w.voter = v)} \cup {[request |-> r, voter |-> v, decision |-> decision]}]

NextStatus == {<<"open", "planned">>, <<"open", "declined">>, <<"planned", "in-progress">>, <<"planned", "open">>,
               <<"planned", "declined">>, <<"in-progress", "shipped">>, <<"in-progress", "planned">>}

StatusTransition(r, to) ==
  /\ <<request[r].state, to>> \in NextStatus
  /\ records' = [records EXCEPT !.request[r].state = to]

\* Neither the sources' states nor the target's are read.
RequestMerge(target, sources) ==
  /\ sources # {} /\ target \notin sources
  /\ records' = [records EXCEPT !.request =
       [r \in DOMAIN @ |-> IF r \in sources THEN [state |-> "merged", into |-> target] ELSE @[r]]]

\* Mutant of ChangelogPublish: whatever is being worked on may be announced.
ChangelogPublishEarly(cited) ==
  /\ Len(changelog) < MaxEntries /\ cited # {}
  /\ \A r \in cited : request[r].state \in {"in-progress", "shipped"}
  /\ records' = [records EXCEPT !.changelog = Append(@, cited)]

ChangelogPublish(cited) ==
  /\ Len(changelog) < MaxEntries /\ cited # {}
  /\ \A r \in cited : request[r].state = "shipped"
  /\ records' = [records EXCEPT !.changelog = Append(@, cited)]

TasksNext ==
  \/ \E p \in Project : WorkItemCreate(p)
  \/ \E a, b \in DOMAIN item : DependencyLink(a, b)
  \/ \E i \in DOMAIN item, to \in 0 .. Terminal : WorkItemTransition(i, to)

FeedbackNext ==
  \/ RequestSubmit
  \/ \E r \in DOMAIN request, v \in Voter, d \in {"up", "withdraw"} : VoteCast(r, v, d)
  \/ \E r \in DOMAIN request, to \in {"open", "planned", "in-progress", "shipped", "declined"} : StatusTransition(r, to)
  \/ \E t \in DOMAIN request, s \in SUBSET DOMAIN request : RequestMerge(t, s)
  \/ \E c \in SUBSET DOMAIN request : ChangelogPublish(c)

-----------------------------------------------------------------------------
NoDelivery   == "none"
NoSequence   == 0

Of(c) == {m \in DOMAIN message : message[m].of = c}
Inbound(c, delivery, sequence) == [of |-> c, delivery |-> delivery, sequence |-> sequence, decision |-> NoDelivery]

ThreadOpen ==
  /\ Len(conversation) < MaxConversations /\ Len(message) < MaxMessages
  /\ records' = [records EXCEPT
       !.conversation = Append(@, [state |-> "open", version |-> 1, assignee |-> "none"]),
       !.message = Append(@, Inbound(Len(conversation) + 1, NoDelivery, 1))]

\* Mutant of MessageIngest: the last message's number is taken again.
MessageIngestAsLast(c, delivery) ==
  /\ Len(message) < MaxMessages /\ conversation[c].state = "open"
  /\ \A m \in DOMAIN message : message[m].delivery # delivery
  /\ records' = [records EXCEPT !.message = Append(@, Inbound(c, delivery, Cardinality(Of(c))))]

\* A delivery that came before, to whatever conversation, is a duplicate.  The
\* number counts every message of the conversation, replies included.
MessageIngest(c, delivery) ==
  /\ Len(message) < MaxMessages /\ conversation[c].state = "open"
  /\ \A m \in DOMAIN message : message[m].delivery # delivery
  /\ records' = [records EXCEPT !.message = Append(@, Inbound(c, delivery, Cardinality(Of(c)) + 1))]

\* An approved reply carries no number, whatever state its conversation is in.
ReplySend(c, decision) ==
  /\ Len(message) < MaxMessages
  /\ \A m \in DOMAIN message : message[m].decision # decision
  /\ records' = [records EXCEPT !.message =
       Append(@, [of |-> c, delivery |-> NoDelivery, sequence |-> NoSequence, decision |-> decision])]

ThreadAssign(c, assignee, expected) ==
  /\ conversation[c].version = expected /\ expected < MaxVersion
  /\ records' = [records EXCEPT !.conversation[c].assignee = assignee, !.conversation[c].version = expected + 1]

ThreadResolve(c, expected) ==
  /\ conversation[c].version = expected /\ expected < MaxVersion
  /\ records' = [records EXCEPT !.conversation[c].state = "resolved", !.conversation[c].version = expected + 1]

InboxNext ==
  \/ ThreadOpen
  \/ \E c \in DOMAIN conversation :
       \/ \E d \in Delivery : MessageIngest(c, d)
       \/ \E d \in Decision : ReplySend(c, d)
       \/ \E v \in 1 .. MaxVersion : ThreadResolve(c, v) \/ \E a \in Assignee : ThreadAssign(c, a, v)

-----------------------------------------------------------------------------
AccountUpsert(key, domain) ==
  /\ \A a \in account : a.key # key
  /\ records' = [records EXCEPT !.account = @ \cup {[key |-> key, domain |-> domain]}]

OpportunityOpen(key) ==
  /\ Len(opportunity) < MaxOpportunities /\ \E a \in account : a.key = key
  /\ records' = [records EXCEPT !.opportunity = Append(@, [account |-> key, stage |-> "qualified", version |-> 1])]

Pipeline == {<<"qualified", "evaluation">>, <<"qualified", "lost">>, <<"evaluation", "proposal">>,
             <<"evaluation", "lost">>, <<"proposal", "won">>, <<"proposal", "lost">>}

OpportunityTransition(o, to, expected) ==
  /\ <<opportunity[o].stage, to>> \in Pipeline /\ opportunity[o].version = expected
  /\ records' = [records EXCEPT
       !.opportunity[o].stage = to, !.opportunity[o].version = expected + 1,
       !.transition = Append(@, [of |-> o, from |-> opportunity[o].stage, to |-> to, version |-> expected + 1])]

CrmNext ==
  \/ \E k \in ExternalKey, d \in Domain : AccountUpsert(k, d)
  \/ \E k \in ExternalKey : OpportunityOpen(k)
  \/ \E o \in DOMAIN opportunity, to \in {"evaluation", "proposal", "won", "lost"}, v \in 1 .. 4 : OpportunityTransition(o, to, v)

Next == TasksNext \/ FeedbackNext \/ InboxNext \/ CrmNext

Spec == Init /\ [][Next]_records

-----------------------------------------------------------------------------
\* No item waits for itself through the dependencies, no state but the initial
\* one holds more work than its limit, and what a changelog says has shipped
\* has shipped, merged away since or not.
WorkFlows ==
  /\ \A i \in DOMAIN item : ~ Reaches(edge, DOMAIN item, i, i)
  /\ \A p \in Project, s \in Limited \ {0} : Cardinality(InState(p, s)) <= Limit
  /\ \A c \in Range(changelog) : \A r \in c : request[r].state \in {"shipped", "merged"}

\* A merged request leads to one that is not merged: false in the code, where
\* two requests may be merged into each other one after the other.
MergedEnds ==
  LET merges == {<<r, request[r].into>> : r \in {q \in DOMAIN request : request[q].state = "merged"}} IN
  \A r \in DOMAIN request : request[r].state = "merged" =>
    \E b \in DOMAIN request : request[b].state # "merged" /\ Reaches(merges, DOMAIN request, r, b)

Numbered(c) == {m \in Of(c) : message[m].sequence # NoSequence}

\* The inbound messages of a conversation are numbered in the order they came,
\* whatever replies went out in between, and one provider delivery is one
\* message; the stage of an opportunity is where its recorded transitions lead,
\* and each of its versions after the first has exactly one of them.
HistoryAddsUp ==
  /\ \A c \in DOMAIN conversation : \A m, n \in Numbered(c) :
       m < n => message[m].sequence < message[n].sequence
  /\ \A m, n \in DOMAIN message : message[m].delivery = message[n].delivery /\ message[m].delivery # NoDelivery => m = n
  /\ \A o \in DOMAIN opportunity :
       LET moves == {t \in DOMAIN transition : transition[t].of = o} IN
       /\ opportunity[o].version = Cardinality(moves) + 1
       /\ opportunity[o].stage = IF moves = {} THEN "qualified" ELSE transition[Max(moves)].to
       /\ \A t \in moves : transition[t].version = Cardinality({u \in moves : u <= t}) + 1
=============================================================================
