-------------------------- MODULE Protocols_proofs --------------------------
(***************************************************************************)
(* The two protocols beside the API server, each for itself.               *)
(*                                                                         *)
(* The queue of AI proposals for every number of workers, modules, actions *)
(* and edits.  What a step may do to an action is one of six changes       *)
(* (Change); the lemmas say so step by step, and the invariant and the     *)
(* action property are read off the changes.                               *)
(*                                                                         *)
(* Routing and sign-in for any applications, workspaces, hostnames,        *)
(* lookups and callbacks.  A step either writes claims, which only ever    *)
(* gain a claim or a proof (ClaimsGrow), or moves routes between control   *)
(* plane, reconciler and proxy, or moves a sign-in on.                     *)
(***************************************************************************)
EXTENDS AiQueue, Edge, TLAPS

-----------------------------------------------------------------------------
\* A well-typed queue is a function from its positions to actions.
LEMMA QueueShape ==
  ASSUME TypeOK
  PROVE  /\ Len(action) \in Nat /\ DOMAIN action = 1 .. Len(action)
         /\ action \in [DOMAIN action -> ActionType]
  BY DEF TypeOK

\* Rewriting the actions in place keeps the type, and the workers' jobs.
LEMMA Rewritten ==
  ASSUME TypeOK, NEW q, q \in [DOMAIN action -> ActionType], action' = q, worker' = worker
  PROVE  /\ action' \in Seq(ActionType) /\ DOMAIN action' = DOMAIN action
         /\ worker' \in [Worker -> {Idle} \cup [at : {"asking", "failing"}, job : DOMAIN action']]
  BY QueueShape DEF TypeOK

\* The sequence of a step that may also move a worker.
LEMMA RewrittenQueue ==
  ASSUME TypeOK, NEW q, q \in [DOMAIN action -> ActionType], action' = q
  PROVE  action' \in Seq(ActionType) /\ DOMAIN action' = DOMAIN action
  BY QueueShape DEF TypeOK

\* The changes a step makes of an action.
Answered(a) == [a EXCEPT !.status = "completed", !.leased = FALSE, !.audit = "pending-human-review"]
Reported(a) == [a EXCEPT !.status = "failed", !.leased = FALSE, !.audit = "model-failed"]

Change(i) ==
  \/ action'[i] = action[i]
  \/ Open(action[i]) /\ action'[i] = Failed(action[i])
  \/ Claimable(action[i]) /\ action'[i] = Claimed(action[i])
  \/ action[i].status = "running" /\ action'[i] = [action[i] EXCEPT !.leased = FALSE]
  \/ /\ action[i].status = "running" /\ evidence = action[i].bound
     /\ action'[i] = Answered(action[i])
  \/ action[i].status = "running" /\ action'[i] = Reported(action[i])

Changes ==
  /\ DOMAIN action \subseteq DOMAIN action'
  /\ \A i \in DOMAIN action : Change(i)
  /\ \A i \in DOMAIN action' \ DOMAIN action :
       action'[i].status = "queued" /\ action'[i].audit = "queued"
  /\ plan' # plan => \A i \in DOMAIN action : Revoked(action[i], plan') => action'[i] = Failed(action[i])
  /\ plan' # plan => \A i \in DOMAIN action :
       action'[i].status = "running" => action[i].status = "running"

\* What the changes of an action yield is an action.
LEMMA ChangedType ==
  ASSUME NEW a \in ActionType
  PROVE  /\ Failed(a) \in ActionType
         /\ Swept(a) \in ActionType
         /\ a.attempts < MaxAttempts => Claimed(a) \in ActionType
         /\ [a EXCEPT !.leased = FALSE] \in ActionType
         /\ Answered(a) \in ActionType
         /\ Reported(a) \in ActionType
<1>1. a.attempts < MaxAttempts => a.attempts + 1 \in 0 .. MaxAttempts
  BY DEF ActionType, MaxAttempts
<1>2. Failed(a) \in ActionType
  BY DEF ActionType, Failed, Status
<1>3. Swept(a) \in ActionType
  BY <1>2 DEF Swept
<1>4. a.attempts < MaxAttempts => Claimed(a) \in ActionType
  BY <1>1 DEF ActionType, Claimed, Status
<1>5. [a EXCEPT !.leased = FALSE] \in ActionType
  BY DEF ActionType
<1>6. Answered(a) \in ActionType
  BY DEF ActionType, Answered, Status
<1>7. Reported(a) \in ActionType
  BY DEF ActionType, Reported, Status
<1>. QED BY <1>2, <1>3, <1>4, <1>5, <1>6, <1>7

\* Sweeping changes open actions only.
LEMMA SweptChange ==
  ASSUME TypeOK, NEW i \in DOMAIN action, action'[i] = Swept(action[i])
  PROVE  Change(i)
  BY DEF Change, Swept, Revoked, Exhausted, Open

-----------------------------------------------------------------------------
LEMMA InitType == Init => TypeOK
  BY DEF Init, TypeOK, Plan, NotQueueing, Idle

LEMMA SetWorkspacePlanStep ==
  ASSUME TypeOK, NEW p \in Plan, SetWorkspacePlan(p)
  PROVE  TypeOK' /\ Changes
<1>. DEFINE q == [i \in DOMAIN action |-> IF Revoked(action[i], p) THEN Failed(action[i]) ELSE action[i]]
<1>1. q \in [DOMAIN action -> ActionType]
  BY QueueShape, ChangedType
<1>2. action' = q /\ worker' = worker
  BY DEF SetWorkspacePlan
<1>3. /\ action' \in Seq(ActionType) /\ DOMAIN action' = DOMAIN action
      /\ worker' \in [Worker -> {Idle} \cup [at : {"asking", "failing"}, job : DOMAIN action']]
  BY <1>1, <1>2, Rewritten
<1>4. TypeOK'
  BY <1>3 DEF TypeOK, SetWorkspacePlan
<1>5. \A i \in DOMAIN action : Change(i)
  BY <1>2 DEF Change, Revoked
<1>6. \A i \in DOMAIN action : action'[i].status = "running" => action[i].status = "running"
  <2>. SUFFICES ASSUME NEW i \in DOMAIN action PROVE action'[i].status = "running" => action[i].status = "running"
    OBVIOUS
  <2>1. action[i] \in ActionType
    BY QueueShape
  <2>2. Failed(action[i]).status = "failed"
    BY <2>1 DEF Failed, ActionType
  <2>. QED BY <2>2, <1>2
<1>. QED BY <1>2, <1>3, <1>4, <1>5, <1>6 DEF Changes, SetWorkspacePlan

\* Editing the evidence and reading the plan touch no action.
LEMMA QueueingStep ==
  ASSUME TypeOK, EditEvidence \/ \E m \in Module : QueueAiAction(m)
  PROVE  TypeOK' /\ Changes
<1>1. action' = action /\ worker' = worker /\ plan' = plan
  BY DEF EditEvidence, QueueAiAction
<1>2. evidence' \in Nat
  BY DEF EditEvidence, QueueAiAction, TypeOK
<1>3. Limit(plan) \in Nat
  BY LimitAssumption DEF Limit
<1>4. queueing' \in {NotQueueing} \cup [at : {"read"}, module : Module, limit : Nat]
  BY <1>3 DEF EditEvidence, QueueAiAction, TypeOK
<1>5. TypeOK'
  BY <1>1, <1>2, <1>4 DEF TypeOK
<1>. QED BY <1>1, <1>5 DEF Changes, Change

LEMMA InsertStep ==
  ASSUME TypeOK, InsertAiAction
  PROVE  TypeOK' /\ Changes
<1>. DEFINE new == [module |-> queueing.module, status |-> "queued", attempts |-> 0,
                    leased |-> FALSE, bound |-> evidence, audit |-> "queued"]
<1>1. queueing \in [at : {"read"}, module : Module, limit : Nat]
  BY DEF InsertAiAction, TypeOK
<1>2. new \in ActionType
  BY <1>1 DEF ActionType, Status, MaxAttempts, TypeOK
<1>3. queueing' = NotQueueing /\ plan' = plan /\ evidence' = evidence /\ worker' = worker
  BY DEF InsertAiAction
<1>4. CASE action' = action
  BY <1>3, <1>4 DEF TypeOK, Changes, Change
<1>5. CASE action' = Append(action, new)
  <2>1. action' \in Seq(ActionType) /\ Len(action') = Len(action) + 1
    BY <1>2, <1>5 DEF TypeOK
  <2>2. DOMAIN action = 1 .. Len(action) /\ DOMAIN action' = 1 .. Len(action) + 1 /\ Len(action) \in Nat
    BY <2>1, QueueShape
  <2>3. DOMAIN action \subseteq DOMAIN action'
    BY <2>2
  <2>4. \A i \in DOMAIN action : action'[i] = action[i]
    BY <1>5, <2>2 DEF TypeOK
  <2>5. \A i \in DOMAIN action' \ DOMAIN action : action'[i] = new
    BY <1>5, <2>2 DEF TypeOK
  <2>6. worker' \in [Worker -> {Idle} \cup [at : {"asking", "failing"}, job : DOMAIN action']]
    BY <1>3, <2>3 DEF TypeOK
  <2>7. TypeOK'
    BY <1>3, <2>1, <2>6 DEF TypeOK
  <2>. QED BY <1>3, <2>3, <2>4, <2>5, <2>7 DEF Changes, Change
<1>. QED BY <1>4, <1>5 DEF InsertAiAction

LEMMA ClaimStep ==
  ASSUME TypeOK, Claims
  PROVE  TypeOK' /\ Changes
<1>1. CASE ClaimNothing
  <2>. DEFINE q == [i \in DOMAIN action |-> Swept(action[i])]
  <2>1. q \in [DOMAIN action -> ActionType]
    BY QueueShape, ChangedType
  <2>2. action' = q /\ worker' = worker /\ plan' = plan /\ evidence' = evidence /\ queueing' = queueing
    BY <1>1 DEF ClaimNothing
  <2>3. /\ action' \in Seq(ActionType) /\ DOMAIN action' = DOMAIN action
        /\ worker' \in [Worker -> {Idle} \cup [at : {"asking", "failing"}, job : DOMAIN action']]
    BY <2>1, <2>2, Rewritten
  <2>4. TypeOK'
    BY <2>2, <2>3 DEF TypeOK
  <2>5. \A i \in DOMAIN action : Change(i)
    BY <2>2, SweptChange
  <2>. QED BY <2>2, <2>3, <2>4, <2>5 DEF Changes
<1>2. ASSUME NEW w \in Worker, NEW i \in DOMAIN action, ClaimAiAction(w, i)
      PROVE  TypeOK' /\ Changes
  <2>. DEFINE q == [j \in DOMAIN action |-> IF j = i THEN Claimed(action[i]) ELSE Swept(action[j])]
  <2>1. Claimable(action[i]) /\ action[i].attempts < MaxAttempts
    BY <1>2 DEF ClaimAiAction, Claimable
  <2>2. q \in [DOMAIN action -> ActionType]
    BY <2>1, QueueShape, ChangedType
  <2>3. action' = q /\ plan' = plan /\ evidence' = evidence /\ queueing' = queueing
    BY <1>2 DEF ClaimAiAction
  <2>4. action' \in Seq(ActionType) /\ DOMAIN action' = DOMAIN action
    BY <2>2, <2>3, RewrittenQueue
  <2>5. worker' \in [Worker -> {Idle} \cup [at : {"asking", "failing"}, job : DOMAIN action']]
    BY <1>2, <2>4 DEF ClaimAiAction, TypeOK
  <2>6. TypeOK'
    BY <2>3, <2>4, <2>5 DEF TypeOK
  <2>7. \A j \in DOMAIN action : Change(j)
    <3>. SUFFICES ASSUME NEW j \in DOMAIN action PROVE Change(j)
      OBVIOUS
    <3>1. CASE j = i
      BY <2>1, <2>3, <3>1 DEF Change
    <3>2. CASE j # i
      BY <2>3, <3>2, SweptChange
    <3>. QED BY <3>1, <3>2
  <2>. QED BY <2>3, <2>4, <2>6, <2>7 DEF Changes
<1>. QED BY <1>1, <1>2 DEF Claims

LEMMA WorkerStep ==
  ASSUME TypeOK, NEW w \in Worker, Reports(w) \/ Crash(w)
  PROVE  TypeOK' /\ Changes
<1>1. plan' = plan /\ evidence' = evidence /\ queueing' = queueing
  BY DEF Reports, Crash, Complete, NotCompleted, ReportFailure
<1>2. worker[w].at \in {"asking", "failing"} => worker[w].job \in DOMAIN action
  BY DEF TypeOK, Idle
<1>3. CASE Complete(w)
  <2>. DEFINE i == worker[w].job
              q == [action EXCEPT ![i] = Answered(@)]
  <2>1. i \in DOMAIN action /\ action[i].status = "running" /\ evidence = action[i].bound
    BY <1>2, <1>3 DEF Complete
  <2>2. q \in [DOMAIN action -> ActionType]
    BY <2>1, QueueShape, ChangedType
  <2>3. action' = q
    BY <1>3 DEF Complete, Completed, Answered
  <2>4. action' \in Seq(ActionType) /\ DOMAIN action' = DOMAIN action
    BY <2>2, <2>3, RewrittenQueue
  <2>5. worker' \in [Worker -> {Idle} \cup [at : {"asking", "failing"}, job : DOMAIN action']]
    BY <1>3, <2>4 DEF Complete, TypeOK
  <2>6. \A j \in DOMAIN action : Change(j)
    BY <2>1, <2>3 DEF Change
  <2>. QED BY <1>1, <2>4, <2>5, <2>6 DEF Changes, TypeOK
<1>4. CASE ReportFailure(w) /\ action[worker[w].job].status = "running"
  <2>. DEFINE i == worker[w].job
              q == [action EXCEPT ![i] = Reported(@)]
  <2>1. i \in DOMAIN action /\ action[i].status = "running"
    BY <1>2, <1>4 DEF ReportFailure
  <2>2. q \in [DOMAIN action -> ActionType]
    BY <2>1, QueueShape, ChangedType
  <2>3. action' = q
    BY <1>4 DEF ReportFailure, Completed, Reported
  <2>4. action' \in Seq(ActionType) /\ DOMAIN action' = DOMAIN action
    BY <2>2, <2>3, RewrittenQueue
  <2>5. worker' \in [Worker -> {Idle} \cup [at : {"asking", "failing"}, job : DOMAIN action']]
    BY <1>4, <2>4 DEF ReportFailure, TypeOK
  <2>6. \A j \in DOMAIN action : Change(j)
    BY <2>1, <2>3 DEF Change
  <2>. QED BY <1>1, <2>4, <2>5, <2>6 DEF Changes, TypeOK
<1>5. CASE action' = action
  <2>1. worker' \in [Worker -> {Idle} \cup [at : {"asking", "failing"}, job : DOMAIN action]]
    <3>1. CASE NotCompleted(w)
      BY <3>1 DEF NotCompleted, TypeOK, Idle
    <3>2. CASE ReportFailure(w) \/ Crash(w) \/ Complete(w)
      BY <3>2 DEF ReportFailure, Crash, Complete, TypeOK
    <3>. QED BY <3>1, <3>2 DEF Reports
  <2>. QED BY <1>1, <1>5, <2>1 DEF Changes, Change, TypeOK
<1>. QED BY <1>3, <1>4, <1>5 DEF Reports, Crash, NotCompleted, ReportFailure

LEMMA LeaseStep ==
  ASSUME TypeOK, NEW i \in DOMAIN action, LeaseExpires(i)
  PROVE  TypeOK' /\ Changes
<1>. DEFINE q == [action EXCEPT ![i] = [@ EXCEPT !.leased = FALSE]]
<1>1. action[i].status = "running"
  BY DEF LeaseExpires
<1>2. q \in [DOMAIN action -> ActionType]
  BY QueueShape, ChangedType
<1>3. action' = q /\ worker' = worker /\ plan' = plan /\ evidence' = evidence /\ queueing' = queueing
  BY DEF LeaseExpires
<1>4. /\ action' \in Seq(ActionType) /\ DOMAIN action' = DOMAIN action
      /\ worker' \in [Worker -> {Idle} \cup [at : {"asking", "failing"}, job : DOMAIN action']]
  BY <1>2, <1>3, Rewritten
<1>5. \A j \in DOMAIN action : Change(j)
  BY <1>1, <1>3 DEF Change
<1>. QED BY <1>3, <1>4, <1>5 DEF Changes, TypeOK

\* Every step keeps the type and changes actions in one of the six ways.
LEMMA Step ==
  ASSUME TypeOK, [Next]_vars
  PROVE  TypeOK' /\ Changes
<1>1. CASE UNCHANGED vars
  BY <1>1 DEF vars, TypeOK, Changes, Change
<1>2. CASE Next
  BY <1>2, SetWorkspacePlanStep, QueueingStep, InsertStep, ClaimStep, WorkerStep, LeaseStep DEF Next
<1>. QED BY <1>1, <1>2

-----------------------------------------------------------------------------
\* The type invariant.
THEOREM TypeCorrect == Spec => []TypeOK
<1>1. TypeOK /\ [Next]_vars => TypeOK'
  BY Step
<1>. QED BY <1>1, InitType, PTL DEF Spec

\* No action runs for a module the workspace's plan has lost, whatever plan
\* changes overtake the commands that queue and the workers that claim.
THEOREM RunningIsEntitledHolds == Spec => []RunningIsEntitled
<1>1. Init => RunningIsEntitled
  BY DEF Init, RunningIsEntitled
<1>2. ASSUME TypeOK, RunningIsEntitled, [Next]_vars PROVE RunningIsEntitled'
  <2>. SUFFICES ASSUME NEW i \in DOMAIN action', action'[i].status = "running"
                PROVE  action'[i].module \in Allowed(plan')
    BY DEF RunningIsEntitled, Allowed
  <2>1. Changes
    BY <1>2, Step
  <2>2. i \in DOMAIN action
    BY <2>1 DEF Changes
  <2>3. Change(i) /\ action[i] \in ActionType
    BY <2>1, <2>2, <1>2, QueueShape DEF Changes
  <2>4. /\ action'[i].module = action[i].module
        /\ action[i].status = "running" \/ Claimable(action[i])
    BY <2>3 DEF Change, ActionType, Failed, Claimed, Answered, Reported
  <2>5. CASE plan' = plan
    BY <1>2, <2>2, <2>4, <2>5 DEF RunningIsEntitled, Claimable
  <2>6. CASE plan' # plan
    <3>1. action[i].status = "running"
      BY <2>1, <2>2, <2>6 DEF Changes
    <3>2. action'[i] # Failed(action[i])
      BY <2>3 DEF Failed, ActionType
    <3>3. ~Revoked(action[i], plan')
      BY <2>1, <2>2, <2>6, <3>2 DEF Changes
    <3>. QED BY <2>4, <3>1, <3>3 DEF Revoked, Open
  <2>. QED BY <2>5, <2>6
<1>. QED BY <1>1, <1>2, TypeCorrect, PTL DEF Spec

\* A proposal awaits review exactly when its action was completed, and its
\* audit record reports a failure only of an action that failed.
THEOREM AuditFollowsActionHolds == Spec => []AuditFollowsAction
<1>1. Init => AuditFollowsAction
  BY DEF Init, AuditFollowsAction
<1>2. ASSUME TypeOK, AuditFollowsAction, [Next]_vars PROVE AuditFollowsAction'
  <2>. SUFFICES ASSUME NEW i \in DOMAIN action'
                PROVE  /\ action'[i].audit = "pending-human-review" <=> action'[i].status = "completed"
                       /\ action'[i].audit = "model-failed" => action'[i].status = "failed"
    BY DEF AuditFollowsAction
  <2>1. Changes
    BY <1>2, Step
  <2>2. CASE i \notin DOMAIN action
    BY <2>1, <2>2 DEF Changes
  <2>3. CASE i \in DOMAIN action
    <3>1. Change(i) /\ action[i] \in ActionType
      BY <2>1, <2>3, <1>2, QueueShape DEF Changes
    <3>2. /\ action[i].audit = "pending-human-review" <=> action[i].status = "completed"
          /\ action[i].audit = "model-failed" => action[i].status = "failed"
      BY <1>2, <2>3 DEF AuditFollowsAction
    <3>. QED BY <3>1, <3>2 DEF Change, ActionType, Open, Claimable, Failed, Claimed, Answered, Reported
  <2>. QED BY <2>2, <2>3
<1>. QED BY <1>1, <1>2, TypeCorrect, PTL DEF Spec

\* An action ends once, and what is completed was answered from the evidence
\* the action was bound to.
THEOREM AnswersAreFinalHolds == Spec => AnswersAreFinal
<1>1. ASSUME TypeOK, [Next]_vars
      PROVE  [\A i \in DOMAIN action :
                /\ ~Open(action[i]) => action'[i] = action[i]
                /\ Open(action[i]) /\ action'[i].status = "completed" => evidence = action[i].bound]_vars
  <2>. SUFFICES ASSUME NEW i \in DOMAIN action
                PROVE  /\ ~Open(action[i]) => action'[i] = action[i]
                       /\ Open(action[i]) /\ action'[i].status = "completed" => evidence = action[i].bound
    OBVIOUS
  <2>1. Change(i) /\ action[i] \in ActionType
    BY <1>1, Step, QueueShape DEF Changes
  <2>. QED BY <2>1 DEF Change, ActionType, Open, Claimable, Failed, Claimed, Answered, Reported
<1>. QED BY <1>1, TypeCorrect, PTL DEF Spec, AnswersAreFinal

-----------------------------------------------------------------------------
\* Hostnames, routes and sign-ins.

ClaimType == [host : Host, holder : Holder, status : {"pending", "verified"}, proven : BOOLEAN]
GatewayType == [at : {"idle", "domains", "fetched"}, routes : SUBSET Route, applied : SUBSET SUBSET Route,
                unanswered : BOOLEAN]

\* Claims are kept with their holder, and a proof is kept with its claim.
ClaimsGrow ==
  \A c \in claims : \E d \in claims' : d.host = c.host /\ d.holder = c.holder /\ (c.proven => d.proven)

LEMMA EdgeInitInvariant == EdgeInit => EdgeInvariant
  BY DEF EdgeInit, EdgeInvariant, EdgeTypeOK, ClaimsUnique, FromClaims, OneCallback, NoFlow

-----------------------------------------------------------------------------
\* What the control plane lists is from claims.
LEMMA ListedFromClaims ==
  ASSUME EdgeTypeOK, ClaimsUnique
  PROVE  /\ GatewayRoutes \subseteq Route /\ FromClaims(GatewayRoutes)
         /\ SuiteDomains \subseteq Route /\ FromClaims(SuiteDomains)
<1>1. ASSUME NEW P, P \subseteq Holder
      PROVE  Custom(P) \subseteq Route /\ FromClaims(Custom(P))
  <2>1. \A c \in claims : c \in ClaimType /\ (Proven(c) => c.proven)
    BY DEF EdgeTypeOK, ClaimsUnique, Proven, ClaimType
  <2>. QED BY <2>1 DEF Custom, Route, FromClaims, ClaimType
<1>2. App \subseteq Holder /\ Workspace \subseteq Holder
  BY DEF Holder
<1>3. /\ Custom(App) \subseteq Route /\ FromClaims(Custom(App))
      /\ Custom(Workspace) \subseteq Route /\ FromClaims(Custom(Workspace))
  BY <1>1, <1>2
<1>4. /\ {[host |-> a, holder |-> a] : a \in {a \in App : standing[a] = "live"}} \subseteq Route
      /\ FromClaims({[host |-> a, holder |-> a] : a \in {a \in App : standing[a] = "live"}})
  BY DEF Route, FromClaims, Holder
<1>. QED BY <1>3, <1>4 DEF GatewayRoutes, SuiteDomains, FromClaims

\* Routes from claims stay from claims while claims grow.
LEMMA StillFromClaims ==
  ASSUME ClaimsGrow, NEW routes, FromClaims(routes)
  PROVE  \A r \in routes : \/ r.host \in App /\ r.holder = r.host
                           \/ \E c \in claims' : c.host = r.host /\ c.holder = r.holder /\ c.proven
  BY DEF ClaimsGrow, FromClaims

\* Two routes from claims are never for one hostname.
LEMMA NoDuplicate ==
  ASSUME EdgeTypeOK, ClaimsUnique, NEW routes \in SUBSET Route, FromClaims(routes)
  PROVE  ~Duplicate(routes)
<1>1. SUFFICES ASSUME NEW r \in routes, NEW s \in routes, r.host = s.host PROVE r = s
  BY DEF Duplicate
<1>2. r \in Route /\ s \in Route
  OBVIOUS
<1>3. r.holder = s.holder
  <2>1. /\ (r.host \in App /\ r.holder = r.host) \/ (\E c \in claims : c.host = r.host /\ c.holder = r.holder)
        /\ (s.host \in App /\ s.holder = s.host) \/ (\E c \in claims : c.host = s.host /\ c.holder = s.holder)
    BY DEF FromClaims
  <2>2. \A c \in claims : c.host \notin App
    BY HolderAssumption DEF EdgeTypeOK, Holder
  <2>. QED BY <1>1, <2>1, <2>2 DEF ClaimsUnique
<1>. QED BY <1>1, <1>2, <1>3 DEF Route

-----------------------------------------------------------------------------
LEMMA HostnameClaimStep ==
  ASSUME EdgeInvariant, NEW h \in Host, NEW p \in Holder, Claim(h, p)
  PROVE  EdgeTypeOK' /\ ClaimsUnique' /\ ClaimsGrow
<1>. DEFINE New == [host |-> h, holder |-> p, status |-> "pending", proven |-> FALSE]
<1>1. claims' = claims \cup {New}
  BY DEF Claim
<1>2. claims \subseteq ClaimType /\ claims' \subseteq ClaimType
  <2>1. claims \subseteq ClaimType
    BY DEF EdgeInvariant, EdgeTypeOK, ClaimType
  <2>2. New \in ClaimType
    BY DEF ClaimType
  <2>. QED BY <1>1, <2>1, <2>2
<1>3. ClaimsUnique'
  <2>1. ClaimsUnique /\ \A c \in claims : c.host # h
    BY DEF Claim, HostClaimed, EdgeInvariant
  <2>2. \A c, d \in claims' : c.host = d.host => c = d
    <3>1. ASSUME NEW c \in claims' PROVE (c \in claims /\ c.host # h) \/ (c = New /\ c.host = h)
      BY <1>1, <2>1
    <3>. QED BY <2>1, <3>1 DEF ClaimsUnique
  <2>3. \A c \in claims' : c.status = "verified" => c.proven
    BY <1>1, <2>1 DEF ClaimsUnique
  <2>. QED BY <2>2, <2>3 DEF ClaimsUnique
<1>4. ClaimsGrow
  BY <1>1 DEF ClaimsGrow
<1>5. EdgeTypeOK'
  BY <1>2 DEF Claim, EdgeInvariant, EdgeTypeOK, gatewayVars, signInVars, ClaimType
<1>. QED BY <1>3, <1>4, <1>5

\* A late status is written to the claim it was looked up for, or to none.
LEMMA WriteStep ==
  ASSUME EdgeInvariant, NEW l \in lookups, WriteStatus(l)
  PROVE  EdgeTypeOK' /\ ClaimsUnique' /\ ClaimsGrow
<1>. DEFINE Written(c) == IF c.host = l.host /\ c.holder = l.holder /\ ~(l.holder \in Workspace /\ standing[l.holder] = "lapsed")
                          THEN Judged(c, l.found) ELSE c
<1>1. claims' = {Written(c) : c \in claims} /\ lookups' \subseteq lookups /\ UNCHANGED <<dns, standing, gatewayVars, signInVars>>
  BY DEF WriteStatus
<1>2. claims \subseteq ClaimType /\ l.found \in BOOLEAN
  BY DEF EdgeInvariant, EdgeTypeOK, ClaimType
<1>3. \A c \in claims : /\ Written(c) \in ClaimType
                        /\ Written(c).host = c.host /\ Written(c).holder = c.holder
                        /\ c.proven => Written(c).proven
                        /\ Written(c).status = "verified" => Written(c).proven
  BY <1>2 DEF Judged, ClaimType, EdgeInvariant, ClaimsUnique
<1>. HIDE DEF Written
<1>4. ClaimsUnique'
  BY <1>1, <1>3 DEF EdgeInvariant, ClaimsUnique
<1>5. ClaimsGrow
  BY <1>1, <1>3 DEF ClaimsGrow
<1>6. EdgeTypeOK'
  BY <1>1, <1>3 DEF EdgeInvariant, EdgeTypeOK, gatewayVars, signInVars, ClaimType
<1>. QED BY <1>4, <1>5, <1>6

\* Lookups, DNS and plans change; the claims do not.
LEMMA QuietSteps ==
  ASSUME EdgeInvariant,
         \/ \E c \in claims : Lookup(c)
         \/ \E l \in lookups : LookupLost(l)
         \/ \E h \in Host : DnsChanges(h)
         \/ \E p \in Holder : StandingChanges(p)
  PROVE  EdgeTypeOK' /\ ClaimsUnique' /\ ClaimsGrow
<1>1. UNCHANGED <<claims, gatewayVars, signInVars>>
  BY DEF Lookup, LookupLost, DnsChanges, StandingChanges
<1>2. lookups' \subseteq [host : Host, holder : Holder, found : BOOLEAN]
  <2>1. /\ lookups \subseteq [host : Host, holder : Holder, found : BOOLEAN]
        /\ \A c \in claims : c.host \in Host /\ c.holder \in Holder
    BY DEF EdgeInvariant, EdgeTypeOK
  <2>2. ASSUME NEW c \in claims, Lookup(c) PROVE lookups' \subseteq [host : Host, holder : Holder, found : BOOLEAN]
    <3>1. [host |-> c.host, holder |-> c.holder, found |-> c.holder \in dns[c.host]] \in [host : Host, holder : Holder, found : BOOLEAN]
      BY <2>1
    <3>. QED BY <2>1, <2>2, <3>1 DEF Lookup
  <2>. QED BY <2>1, <2>2 DEF LookupLost, DnsChanges, StandingChanges
<1>. QED BY <1>1, <1>2 DEF EdgeInvariant, EdgeTypeOK, ClaimsUnique, ClaimsGrow, gatewayVars, signInVars

LEMMA HostnameSteps == ASSUME EdgeInvariant, Hostnames PROVE EdgeInvariant'
<1>1. EdgeTypeOK' /\ ClaimsUnique' /\ ClaimsGrow
  BY HostnameClaimStep, WriteStep, QuietSteps DEF Hostnames
<1>2. UNCHANGED <<gateway, proxy, flow, callback>>
  BY DEF Hostnames, Claim, Lookup, WriteStatus, LookupLost, DnsChanges, StandingChanges, gatewayVars, signInVars
<1>3. FromClaims(gateway.routes)' /\ FromClaims(proxy)'
  BY <1>1, <1>2, StillFromClaims DEF EdgeInvariant, FromClaims
<1>. QED BY <1>1, <1>2, <1>3 DEF EdgeInvariant, OneCallback

-----------------------------------------------------------------------------
LEMMA GatewaySteps ==
  ASSUME EdgeInvariant, Reconciler \/ LoadUnanswered \/ PollFails \/ GatewayRestarts \/ ProxyRestarts
  PROVE  EdgeInvariant'
<1>1. UNCHANGED <<claims, lookups, flow, callback>>
  BY DEF Reconciler, FetchRoutes, FetchDomains, Load, Unchanged, LoadUnanswered, PollFails, GatewayRestarts, ProxyRestarts,
     hostVars, signInVars
<1>2. /\ gateway'.routes \subseteq gateway.routes \cup GatewayRoutes \cup SuiteDomains
      /\ proxy' \subseteq proxy \cup gateway.routes
      /\ gateway' \in GatewayType
  <2>. DEFINE Record(at, routes, applied, unanswered) ==
                [at |-> at, routes |-> routes, applied |-> applied, unanswered |-> unanswered]
  <2>1. /\ gateway = Record(gateway.at, gateway.routes, gateway.applied, gateway.unanswered)
        /\ gateway.at \in {"idle", "domains", "fetched"} /\ gateway.routes \in SUBSET Route
        /\ gateway.applied \in SUBSET SUBSET Route /\ gateway.unanswered \in BOOLEAN
    BY DEF EdgeInvariant, EdgeTypeOK
  <2>2. ASSUME NEW at \in {"idle", "domains", "fetched"}, NEW routes \in SUBSET Route,
               NEW applied \in SUBSET SUBSET Route, NEW unanswered \in BOOLEAN
        PROVE  Record(at, routes, applied, unanswered) \in GatewayType
    BY DEF GatewayType
  <2>3. /\ GatewayRoutes \subseteq Route /\ SuiteDomains \subseteq Route
        /\ {} \in SUBSET Route /\ {} \in SUBSET SUBSET Route /\ {gateway.routes} \in SUBSET SUBSET Route
    BY <2>1, ListedFromClaims DEF EdgeInvariant
  <2>4. CASE FetchRoutes
    <3>1. gateway' = Record("domains", GatewayRoutes, gateway.applied, gateway.unanswered) /\ proxy' = proxy
      BY <2>1, <2>4 DEF FetchRoutes
    <3>. QED BY <3>1, <2>1, <2>2, <2>3
  <2>5. CASE FetchDomains
    <3>1. /\ gateway' = Record("fetched", gateway.routes \cup SuiteDomains, gateway.applied, gateway.unanswered)
          /\ proxy' = proxy
      BY <2>1, <2>5 DEF FetchDomains
    <3>2. gateway.routes \cup SuiteDomains \in SUBSET Route
      BY <2>1, <2>3
    <3>3. gateway' \in GatewayType
      BY <3>1, <3>2, <2>1, <2>2
    <3>. QED BY <3>1, <3>3
  <2>6. CASE Load
    <3>1. gateway' = Record("idle", {}, {gateway.routes}, FALSE) /\ proxy' = gateway.routes
      BY <2>6 DEF Load
    <3>. QED BY <3>1, <2>1, <2>2, <2>3
  <2>7. CASE LoadUnanswered
    <3>1. gateway' = Record("idle", {}, gateway.applied, TRUE) /\ proxy' = gateway.routes
      BY <2>1, <2>7 DEF LoadUnanswered
    <3>. QED BY <3>1, <2>1, <2>2, <2>3
  <2>8. CASE Unchanged \/ PollFails
    <3>1. gateway' = Record("idle", {}, gateway.applied, gateway.unanswered) /\ proxy' = proxy
      BY <2>1, <2>8 DEF Unchanged, PollFails
    <3>. QED BY <3>1, <2>1, <2>2, <2>3
  <2>9. CASE GatewayRestarts
    <3>1. gateway' = Record("idle", {}, {}, FALSE) /\ proxy' = proxy
      BY <2>9 DEF GatewayRestarts
    <3>. QED BY <3>1, <2>1, <2>2, <2>3
  <2>10. CASE ProxyRestarts
    <3>1. gateway' = gateway /\ proxy' = {}
      BY <2>10 DEF ProxyRestarts
    <3>. QED BY <3>1, <2>1, <2>2
  <2>. QED BY <2>4, <2>5, <2>6, <2>7, <2>8, <2>9, <2>10 DEF Reconciler
<1>3. FromClaims(gateway'.routes) /\ FromClaims(proxy')
  BY <1>2, ListedFromClaims DEF EdgeInvariant, FromClaims
<1>4. EdgeTypeOK'
  BY <1>1, <1>2 DEF EdgeInvariant, EdgeTypeOK, GatewayType
<1>. QED BY <1>1, <1>3, <1>4 DEF EdgeInvariant, FromClaims, ClaimsUnique, OneCallback

LEMMA SignInSteps == ASSUME EdgeInvariant, SignIn PROVE EdgeInvariant'
<1>1. UNCHANGED <<claims, lookups, gateway, proxy>>
  BY DEF SignIn, Begin, FlowExpires, Consume, Fails, LookUpRoute, LookUpDns, Sign, hostVars, gatewayVars
<1>2. /\ flow' \in [state : {"none", "open", "expired", "consumed"}, host : Host \cup App \cup {"none"},
                    app : App \cup {"none"}, asserted : {0, 1}]
      /\ callback' \in [Callback -> {"idle", "consumed", "routed", "active"}]
      /\ OneCallback'
  <2>1. /\ flow \in [state : {"none", "open", "expired", "consumed"}, host : Host \cup App \cup {"none"},
                     app : App \cup {"none"}, asserted : {0, 1}]
        /\ callback \in [Callback -> {"idle", "consumed", "routed", "active"}]
        /\ OneCallback
    BY DEF EdgeInvariant, EdgeTypeOK
  <2>2. ASSUME NEW h \in Host \cup App, NEW a \in App, Begin(h, a) PROVE <1>2
    BY <2>1, <2>2 DEF Begin, OneCallback
  <2>3. ASSUME FlowExpires PROVE <1>2
    BY <2>1, <2>3 DEF FlowExpires, OneCallback
  <2>4. ASSUME NEW c \in Callback, Consume(c) PROVE <1>2
    BY <2>1, <2>4 DEF Consume, OneCallback
  <2>5. ASSUME NEW c \in Callback, Fails(c) \/ LookUpRoute(c) \/ LookUpDns(c) PROVE <1>2
    BY <2>1, <2>5 DEF Fails, LookUpRoute, LookUpDns, OneCallback
  <2>6. ASSUME NEW c \in Callback, Sign(c) PROVE <1>2
    BY <2>1, <2>6 DEF Sign, OneCallback
  <2>. QED BY <2>2, <2>3, <2>4, <2>5, <2>6 DEF SignIn
<1>. QED BY <1>1, <1>2 DEF EdgeInvariant, EdgeTypeOK, ClaimsUnique, FromClaims

LEMMA EdgeStepInvariant == EdgeInvariant /\ [EdgeNext]_edgeVars => EdgeInvariant'
<1>1. ASSUME EdgeInvariant, EdgeNext PROVE EdgeInvariant'
  BY <1>1, HostnameSteps, GatewaySteps, SignInSteps DEF EdgeNext
<1>2. ASSUME EdgeInvariant, UNCHANGED edgeVars PROVE EdgeInvariant'
  BY <1>2 DEF edgeVars, hostVars, gatewayVars, signInVars, EdgeInvariant, EdgeTypeOK, ClaimsUnique, FromClaims, OneCallback
<1>. QED BY <1>1, <1>2

-----------------------------------------------------------------------------
\* The inductive invariant of the edge.
THEOREM EdgeSafety == EdgeSpec => []EdgeInvariant
BY EdgeInitInvariant, EdgeStepInvariant, PTL DEF EdgeSpec

\* Late lookups, lapses, restarts and lost answers never put a hostname in the
\* proxy for a holder that has not proved it, nor for two holders.
THEOREM OnlyProvenIsRouted == EdgeSpec => []RoutedIsProven
<1>1. EdgeInvariant => RoutedIsProven
  <2>1. SUFFICES ASSUME EdgeInvariant PROVE RoutedIsProven
    OBVIOUS
  <2>2. ~Duplicate(gateway.routes) /\ ~Duplicate(proxy)
    BY <2>1, NoDuplicate DEF EdgeInvariant, EdgeTypeOK
  <2>. QED BY <2>1, <2>2, HolderAssumption DEF RoutedIsProven, EdgeInvariant, FromClaims, Holder
<1>. QED BY <1>1, EdgeSafety, PTL

\* A flow is consumed by one callback, which signs at most one identity.
THEOREM OneIdentityPerFlow == EdgeSpec => []AssertedOnce
<1>1. EdgeInvariant => AssertedOnce
  BY DEF EdgeInvariant, EdgeTypeOK, OneCallback, AssertedOnce
<1>. QED BY <1>1, EdgeSafety, PTL
=============================================================================
