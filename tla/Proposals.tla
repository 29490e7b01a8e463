------------------------------ MODULE Proposals ------------------------------
(***************************************************************************)
(* What a model may be shown and what its answer may cite.  A member asks  *)
(* for a proposal about records he selects; an AI worker claims the        *)
(* request, is given the records, asks the model and reports.  Meanwhile   *)
(* the records change, the member loses his role, a worker of another      *)
(* release takes over.  Each engine binds its requests to the evidence in  *)
(* a way of its own, its contract, and each of the two stores ends an      *)
(* action and its audit record in its own way.  How actions are leased,    *)
(* retried and revoked is AiQueue's; here a claim may always be followed   *)
(* by another.                                                             *)
(***************************************************************************)
EXTENDS Integers, Sequences, FiniteSets, SequencesExt, TLC

CONSTANTS
  Backend,           \* "postgres", and "memory" of a server without a database
  Contract,          \* which contracts are in use
  Doc,               \* the workspace's records that may be selected
  Foreign,           \* those of modules the tool's AI does not read by itself
  Role,              \* the roles the requester may have, "none" once removed
  MaxEdits, MaxRequests, MaxAttempts

VARIABLE records

backend  == records.backend
contract == records.contract
doc      == records.doc
role     == records.role     \* of the member who makes the requests
attached == records.attached \* the attachments he has made in a collection
preview  == records.preview  \* what the last run-preview showed him
agent    == records.agent
proposal == records.proposal

\* The release whose prompts and model the server binds its requests to, and
\* those of workers with another model or other prompts.
Asked    == [prompt |-> 1, model |-> 1]
Releases == {Asked, [Asked EXCEPT !.prompt = 2], [Asked EXCEPT !.model = 2]}

ProposalOnly == {"additive", "extended"}
Premium      == {"premium", "assistant"}
\* Those whose worker refuses evidence that has changed, and another model.
Pinned       == ProposalOnly \cup Premium \cup {"esign", "email"}
Explicit     == ProposalOnly \cup {"premium"}  \* a selection may be of any module

None == "none"
Init == \E b \in Backend, c \in Contract, r \in Role \ {None} :
  records = [backend |-> b, contract |-> c, role |-> r, attached |-> {}, preview |-> <<>>, agent |-> None,
             doc |-> [d \in Doc |-> [digest |-> 0, version |-> 1, class |-> "shared"]], proposal |-> <<>>]

-----------------------------------------------------------------------------
Manages == role \in {"owner", "admin"}
CanRead(d) == role # None /\ (doc[d].class = "shared" \/ Manages)
Readable == {d \in Doc : CanRead(d)}

\* Any command of any engine: a few keep no version number, and only an
\* attachment goes by it.
EditDoc(d, class, bump) ==
  /\ doc[d].digest < MaxEdits
  /\ records' = [records EXCEPT !.doc[d] =
       [digest |-> @.digest + 1, version |-> IF bump /\ contract = "assistant" THEN @.version + 1 ELSE @.version,
        class |-> class]]

ChangeRole(r) == r # role /\ records' = [records EXCEPT !.role = r]

Attachment(d) == [of |-> d, digest |-> doc[d].digest, version |-> doc[d].version]

SourceAttach(d) ==
  /\ contract = "assistant" /\ CanRead(d)
  /\ records' = [records EXCEPT !.attached = @ \cup {Attachment(d)}]

AgentDraft ==
  /\ contract = "assistant" /\ role # None /\ agent = None
  /\ records' = [records EXCEPT !.agent = "draft"]

\* By a manager, who need not be the one who drafted it.
AgentApprove == agent = "draft" /\ records' = [records EXCEPT !.agent = "approved"]

-----------------------------------------------------------------------------
\* The content a request is bound to.
Digests(S) == [d \in S |-> [digest |-> doc[d].digest, version |-> doc[d].version]]

Queue(E, T) ==
  /\ Len(proposal) < MaxRequests
  /\ records' = [records EXCEPT !.proposal = Append(@,
       [status |-> "queued", evidence |-> E, target |-> T, bound |-> Digests(E \cup T), claims |-> <<>>,
        audit |-> "pending-model", result |-> <<>>, filed |-> <<>>])]

May(E) == role # None /\ E # {} /\ E \subseteq Readable
Own(T) == T \subseteq Readable \ Foreign

QueueCoreAi(E, T)   == contract = "core" /\ May(E) /\ Own(T) /\ Queue(E, T)
QueueGrowthAi(E, T) == contract = "growth" /\ May(E) /\ Own(T) /\ T # {} /\ Queue(E, T)
HashBoundTo(E, T) == May(E) /\ E \cap Foreign = {} /\ Own(T) /\ T # {}
QueueEsignAi(E, T) == contract = "esign" /\ HashBoundTo(E, T) /\ Queue(E, T)
QueueEmailAi(E, T) == contract = "email" /\ HashBoundTo(E, T) /\ Queue(E, T)
QueueGroundedProposal(E, T) ==
  /\ contract = "additive" /\ May(E) /\ Own(T) /\ T # {} /\ Queue(E \cup T, T)
QueueProposal(E, T) == contract = "extended" /\ May(E) /\ Own(T) /\ Queue(E, T)
QueuePremiumAi(E) == contract = "premium" /\ Manages /\ May(E) /\ Queue(E, {})

\* Whoever may use a tool without a contract names what he likes; with no
\* selection its worker reads all records of the tool.
QueuePlainAi(E) == contract = "plain" /\ role # None /\ Queue(E, {})

BindAssistantEvidence(E) == \A d \in E : Attachment(d) \in attached

RunPreview(E) ==
  /\ contract = "assistant" /\ May(E) /\ BindAssistantEvidence(E)
  /\ records' = [records EXCEPT !.preview = Digests(E)]

\* The approval is of what was previewed.
RunExecute(E) ==
  /\ contract = "assistant" /\ Manages /\ May(E) /\ BindAssistantEvidence(E)
  /\ preview = Digests(E) /\ Queue(E, {})

AgentExecute(E) ==
  /\ contract = "assistant" /\ agent = "approved" /\ Manages /\ May(E) /\ BindAssistantEvidence(E)
  /\ Queue(E, {})

-----------------------------------------------------------------------------
Selected(p) == p.evidence \cup p.target

\* A source of the assistant comes with its attachment, which names a version.
InScope(p, d) ==
  \/ d \notin Foreign
  \/ contract \in Explicit /\ Selected(p) # {}
  \/ contract = "assistant" /\ doc[d].version = p.bound[d].version

\* What the worker is handed: by the role the requester has now.
Loaded(p) == {d \in Readable : (Selected(p) # {} => d \in Selected(p)) /\ InScope(p, d)}

\* The audit record of an extended proposal without a target does not name the
\* requester, and only a manager may read it.
AuditLoaded(p) == contract = "extended" /\ p.target = {} => Manages

ClaimAiAction(i, release) ==
  /\ proposal[i].status \in {"queued", "running"} /\ Len(proposal[i].claims) < MaxAttempts
  /\ records' = [records EXCEPT
       !.proposal[i].status = "running",
       !.proposal[i].claims = Append(@,
          [shown |-> Digests(Loaded(proposal[i])), audit |-> AuditLoaded(proposal[i]), release |-> release,
           readable |-> {d \in Readable : Selected(proposal[i]) # {} => d \in Selected(proposal[i])}])]

Shows(c, S) == S \subseteq DOMAIN c.shown
Unchanged(p, c, S) == Shows(c, S) /\ \A d \in S : c.shown[d] = p.bound[d]

\* The worker's checks before it asks the model, by the contract.
CoreReady(p, c)    == c.release.prompt = Asked.prompt /\ Shows(c, p.evidence)
GrowthReady(p, c)  == c.release.prompt = Asked.prompt /\ Shows(c, p.evidence)
PremiumReady(p, c) == c.release = Asked /\ Unchanged(p, c, p.evidence)
EsignReady(p, c)   == c.release = Asked /\ Unchanged(p, c, Selected(p))
EmailReady(p, c)   == c.release = Asked /\ Unchanged(p, c, Selected(p))
ProposalOnlyAuditBoundary(p, c) == c.audit /\ p.audit = "pending-model"
ValidateProposalOnlyAiJob(p, c) ==
  c.release = Asked /\ ProposalOnlyAuditBoundary(p, c) /\ Unchanged(p, c, Selected(p))
Ready(p, c) ==
  CASE contract = "core"         -> CoreReady(p, c)
    [] contract = "growth"       -> GrowthReady(p, c)
    [] contract \in Premium      -> PremiumReady(p, c)
    [] contract = "esign"        -> EsignReady(p, c)
    [] contract = "email"        -> EmailReady(p, c)
    [] contract \in ProposalOnly -> ValidateProposalOnlyAiJob(p, c)
    [] OTHER                     -> TRUE

\* What an answer must cite, and may.
ValidateCoreBusinessAiCompletion(p, cites)    == cites \subseteq p.evidence
ValidateFirstPartyGrowthAiCompletion(p, cites) == cites \subseteq p.evidence
ValidatePremiumBusinessAiCompletion(p, cites) == cites # {} /\ cites \subseteq p.evidence
ValidateEsignAiCompletion(p, cites) == cites # {} /\ cites \subseteq Selected(p)
ValidateEmailAiCompletion(p, cites) == cites # {} /\ cites \subseteq Selected(p)
ValidateProposalOnlyAiResult(p, cites) == cites # {} /\ cites \subseteq Selected(p)
ValidateAiResult(c, cites) == cites \subseteq DOMAIN c.shown
Validated(p, c, cites) ==
  CASE contract = "core"         -> ValidateCoreBusinessAiCompletion(p, cites)
    [] contract = "growth"       -> ValidateFirstPartyGrowthAiCompletion(p, cites)
    [] contract \in Premium      -> ValidatePremiumBusinessAiCompletion(p, cites)
    [] contract = "esign"        -> ValidateEsignAiCompletion(p, cites)
    [] contract = "email"        -> ValidateEmailAiCompletion(p, cites)
    [] contract \in ProposalOnly -> ValidateProposalOnlyAiResult(p, cites)
    [] OTHER                     -> ValidateAiResult(c, cites)

\* The completion of a proposal-only action checks its evidence once more.
StillBound(p) == contract \in ProposalOnly => Digests(DOMAIN p.bound) = p.bound

\* PostgreSQL ends the action and moves its audit record in one transaction,
\* whatever the contract; the memory store does so for proposals only.
AuditMoves == contract # "plain" /\ (backend = "postgres" \/ contract \in ProposalOnly)

\* An audit record that no longer awaits the model rolls the transaction back:
\* the action keeps running, until its lease ends.
End(i, p, verdict) ==
  /\ AuditMoves => p.audit = "pending-model"
  /\ records' = [records EXCEPT !.proposal[i] = [p EXCEPT !.audit = IF AuditMoves THEN verdict ELSE @]]

\* Whichever worker that has claimed the action answers first.
Answer(i, k, cites) ==
  /\ proposal[i].status = "running" /\ k \in DOMAIN proposal[i].claims
  /\ LET p == proposal[i]
         c == p.claims[k]
         result == [claim |-> k, cites |-> cites, unchanged |-> Digests(DOMAIN p.bound) = p.bound] IN
     /\ Ready(p, c) /\ Validated(p, c, cites) /\ StillBound(p)
     /\ End(i, [p EXCEPT !.status = "completed", !.result = result], "pending-human-review")

\* A refused check or answer, a model that fails.
Fail(i) ==
  proposal[i].status = "running" /\ End(i, [proposal[i] EXCEPT !.status = "failed"], "model-failed")

\* An engine's call that brings the audit record up to date afterwards.  Only
\* the tests make it, over the memory store; PostgreSQL leaves it nothing to do.
Recordable(i) ==
  role # None /\ proposal[i].status = "completed" /\ proposal[i].audit = "pending-model"
Record(i) == records' = [records EXCEPT !.proposal[i].audit = "pending-human-review"]
RecordCoreBusinessAiCompletion(i) ==
  contract = "core" /\ Recordable(i) /\ ValidateCoreBusinessAiCompletion(proposal[i], proposal[i].result.cites) /\ Record(i)
RecordFirstPartyGrowthAiCompletion(i) ==
  contract = "growth" /\ Recordable(i) /\ ValidateFirstPartyGrowthAiCompletion(proposal[i], proposal[i].result.cites) /\ Record(i)
RecordPremiumBusinessAiCompletion(i) ==
  contract \in Premium /\ Recordable(i) /\ ValidatePremiumBusinessAiCompletion(proposal[i], proposal[i].result.cites) /\ Record(i)
RecordEsignAiCompletion(i) ==
  contract = "esign" /\ Recordable(i) /\ ValidateEsignAiCompletion(proposal[i], proposal[i].result.cites) /\ Record(i)
RecordEmailAiCompletion(i) ==
  contract = "email" /\ Recordable(i) /\ ValidateEmailAiCompletion(proposal[i], proposal[i].result.cites) /\ Record(i)

\* The reviewer hands in what he reviewed, which must be the answer itself.
ResultRecord(i, cites, verdict) ==
  /\ contract = "assistant" /\ Manages
  /\ proposal[i].status = "completed" /\ proposal[i].audit = "pending-human-review"
  /\ cites = proposal[i].result.cites
  /\ records' = [records EXCEPT !.proposal[i].audit = verdict, !.proposal[i].filed = <<cites>>]

Requests(E, T) ==
  \/ QueueCoreAi(E, T) \/ QueueGrowthAi(E, T) \/ QueueEsignAi(E, T) \/ QueueEmailAi(E, T)
  \/ QueueGroundedProposal(E, T) \/ QueueProposal(E, T)
RecordsCompletion(i) ==
  \/ RecordCoreBusinessAiCompletion(i) \/ RecordFirstPartyGrowthAiCompletion(i)
  \/ RecordPremiumBusinessAiCompletion(i) \/ RecordEsignAiCompletion(i) \/ RecordEmailAiCompletion(i)
AssistantRequests(E) == RunPreview(E) \/ RunExecute(E) \/ AgentExecute(E)

Next ==
  \/ \E d \in Doc, class \in {"shared", "managers"}, bump \in BOOLEAN : EditDoc(d, class, bump)
  \/ \E r \in Role : ChangeRole(r)
  \/ \E d \in Doc : SourceAttach(d)
  \/ AgentDraft \/ AgentApprove
  \/ \E E \in SUBSET Doc, T \in {{}} \cup {{d} : d \in Doc} : Requests(E, T)
  \/ \E E \in SUBSET Doc : QueuePremiumAi(E) \/ QueuePlainAi(E) \/ AssistantRequests(E)
  \/ \E i \in DOMAIN proposal, r \in Releases : ClaimAiAction(i, r)
  \/ \E i \in DOMAIN proposal : Fail(i) \/ RecordsCompletion(i)
  \/ \E i \in DOMAIN proposal, k \in 1 .. MaxAttempts, cites \in SUBSET Doc : Answer(i, k, cites)
  \/ \E i \in DOMAIN proposal, cites \in SUBSET Doc, verdict \in {"approved", "rejected"} : ResultRecord(i, cites, verdict)

Spec == Init /\ [][Next]_records

-----------------------------------------------------------------------------
\* However records, roles and releases change between the request, the claim
\* and the answer, and whichever worker answers: a completed proposal cites
\* only what the requester could read when the answering worker was given it;
\* under a contract that pins its evidence each cited record was then what it
\* was when the request was made, and the model the one that was asked for;
\* a proposal-only answer also found them unchanged when it was recorded.
Grounded(p) ==
  LET c == p.claims[p.result.claim] IN
  /\ p.result.cites \subseteq c.readable
  /\ contract # "plain" => c.release.prompt = Asked.prompt
  /\ contract \in Pinned =>
       /\ c.release.model = Asked.model
       /\ \A d \in p.result.cites : c.shown[d] = p.bound[d]
  /\ contract \in ProposalOnly => p.result.unchanged

\* What awaits a review was answered, and what was filed is the answer; where
\* the store keeps the two together, an answer has its review and a failure is
\* recorded as one.
ReviewedIsTheAnswer(p) ==
  /\ p.audit \in {"pending-human-review", "approved", "rejected"} => p.status = "completed"
  /\ contract \in ProposalOnly \/ (contract # "plain" /\ backend = "postgres") =>
       /\ p.status = "completed" => p.audit \in {"pending-human-review", "approved", "rejected"}
       /\ p.status = "failed" => p.audit = "model-failed"
  /\ p.filed # <<>> => p.filed = <<p.result.cites>>

ProposalsAreGrounded ==
  \A i \in DOMAIN proposal :
    /\ proposal[i].status = "completed" => Grounded(proposal[i])
    /\ ReviewedIsTheAnswer(proposal[i])
=============================================================================
