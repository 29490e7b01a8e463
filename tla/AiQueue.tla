------------------------------- MODULE AiQueue -------------------------------
(***************************************************************************)
(* The queue of AI proposals of one workspace.  A command queues an action *)
(* together with its audit record; AI workers claim the oldest open action *)
(* under a five-minute lease, ask the model, and complete it by its id.    *)
(* The plan of the workspace changes without the workspace's lock, and the *)
(* evidence an action is bound to is edited while it waits.  The entitled  *)
(* mode, and the additive and extended contracts, are modelled; a month's  *)
(* quota is the bound on the number of actions.                            *)
(***************************************************************************)
EXTENDS Integers, Sequences

CONSTANTS
  Worker,
  Module, StarterModule,     \* all modules, and those of the starter plan
  StarterLimit, ScaleLimit,  \* AI actions a plan may queue in a month
  MaxVersion                 \* versions of the evidence

ASSUME ModuleAssumption == StarterModule \subseteq Module
ASSUME LimitAssumption == StarterLimit \in Nat /\ ScaleLimit \in Nat /\ MaxVersion \in Nat

VARIABLES
  plan,       \* of the workspace
  evidence,   \* current version of the record the actions cite
  queueing,   \* a command between reading the plan and inserting its action
  action,     \* the actions, oldest first
  worker      \* what each AI worker is doing

vars == <<plan, evidence, queueing, action, worker>>

Plan == {"starter", "scale"}
Status == {"queued", "running", "completed", "failed"}
MaxAttempts == 3

Allowed(p) == IF p = "starter" THEN StarterModule ELSE Module
Limit(p) == IF p = "starter" THEN StarterLimit ELSE ScaleLimit

NotQueueing == [at |-> "none"]
Idle == [at |-> "idle"]

Init ==
  /\ plan \in Plan /\ evidence = 1
  /\ queueing = NotQueueing /\ action = <<>>
  /\ worker = [w \in Worker |-> Idle]

Open(a) == a.status \in {"queued", "running"}
Failed(a) == [a EXCEPT !.status = "failed", !.leased = FALSE]
Revoked(a, p) == Open(a) /\ a.module \notin Allowed(p)

-----------------------------------------------------------------------------
\* Mutant of SetWorkspacePlan: open actions are left to the workers.
SetWorkspacePlanOnly(p) ==
  /\ p # plan
  /\ plan' = p /\ UNCHANGED <<evidence, queueing, action, worker>>

\* The audit record of an action that is failed here stays as it is.
SetWorkspacePlan(p) ==
  /\ p # plan
  /\ plan' = p
  /\ action' = [i \in DOMAIN action |-> IF Revoked(action[i], p) THEN Failed(action[i]) ELSE action[i]]
  /\ UNCHANGED <<evidence, queueing, worker>>

\* Commands hold the workspace's lock, so an edit waits for a queueing command.
EditEvidence ==
  /\ queueing = NotQueueing /\ evidence < MaxVersion
  /\ evidence' = evidence + 1
  /\ UNCHANGED <<plan, queueing, action, worker>>

QueueAiAction(m) ==
  /\ queueing = NotQueueing /\ m \in Allowed(plan)
  /\ queueing' = [at |-> "read", module |-> m, limit |-> Limit(plan)]
  /\ UNCHANGED <<plan, evidence, action, worker>>

InsertAiAction ==
  /\ queueing # NotQueueing
  /\ queueing' = NotQueueing
  /\ action' = IF Len(action) >= queueing.limit THEN action
               ELSE Append(action, [module |-> queueing.module, status |-> "queued", attempts |-> 0,
                                    leased |-> FALSE, bound |-> evidence, audit |-> "queued"])
  /\ UNCHANGED <<plan, evidence, worker>>

-----------------------------------------------------------------------------
Exhausted(a) == a.status = "running" /\ ~a.leased /\ a.attempts >= MaxAttempts

\* Mutant of Swept: an action whose last lease ran out is left running.
SweptOfRevoked(a) == IF Revoked(a, plan) THEN Failed(a) ELSE a

Swept(a) == IF Revoked(a, plan) \/ Exhausted(a) THEN Failed(a) ELSE a

Claimable(a) ==
  /\ a.status = "queued" \/ (a.status = "running" /\ ~a.leased)
  /\ a.attempts < MaxAttempts
  /\ a.module \in Allowed(plan)

Claimed(a) == [a EXCEPT !.status = "running", !.attempts = @ + 1, !.leased = TRUE]

\* The worker compares the evidence it is given with what the action is bound to.
ClaimAiAction(w, i) ==
  /\ worker[w] = Idle
  /\ Claimable(action[i]) /\ \A j \in 1 .. i - 1 : ~Claimable(action[j])
  /\ action' = [j \in DOMAIN action |-> IF j = i THEN Claimed(action[i]) ELSE Swept(action[j])]
  /\ worker' = [worker EXCEPT ![w] = [at |-> IF evidence = action[i].bound THEN "asking" ELSE "failing", job |-> i]]
  /\ UNCHANGED <<plan, evidence, queueing>>

ClaimNothing ==
  /\ \A i \in DOMAIN action : ~Claimable(action[i])
  /\ \E w \in Worker : worker[w] = Idle
  /\ action' = [i \in DOMAIN action |-> Swept(action[i])]
  /\ UNCHANGED <<plan, evidence, queueing, worker>>

Completed(i, status, audit) ==
  action' = [action EXCEPT ![i] = [@ EXCEPT !.status = status, !.leased = FALSE, !.audit = audit]]

\* Mutant of Complete: the row is found by its id alone.
CompleteById(w) ==
  /\ worker[w].at = "asking" /\ evidence = action[worker[w].job].bound
  /\ Completed(worker[w].job, "completed", "pending-human-review")
  /\ worker' = [worker EXCEPT ![w] = Idle]
  /\ UNCHANGED <<plan, evidence, queueing>>

\* The completion names the action and not the claim: whoever holds the lease,
\* the first answer to a running action is taken.
Complete(w) ==
  /\ worker[w].at = "asking"
  /\ action[worker[w].job].status = "running" /\ evidence = action[worker[w].job].bound
  /\ Completed(worker[w].job, "completed", "pending-human-review")
  /\ worker' = [worker EXCEPT ![w] = Idle]
  /\ UNCHANGED <<plan, evidence, queueing>>

\* The model fails, or the completion is refused: ended action, changed evidence.
NotCompleted(w) ==
  /\ worker[w].at = "asking"
  /\ worker' = [worker EXCEPT ![w].at = "failing"]
  /\ UNCHANGED <<plan, evidence, queueing, action>>

ReportFailure(w) ==
  /\ worker[w].at = "failing"
  /\ IF action[worker[w].job].status = "running"
       THEN Completed(worker[w].job, "failed", "model-failed")
       ELSE action' = action
  /\ worker' = [worker EXCEPT ![w] = Idle]
  /\ UNCHANGED <<plan, evidence, queueing>>

\* A worker process ends and is started again; the lease is left to run out.
Crash(w) ==
  /\ worker[w] # Idle /\ worker' = [worker EXCEPT ![w] = Idle]
  /\ UNCHANGED <<plan, evidence, queueing, action>>

LeaseExpires(i) ==
  /\ action[i].status = "running" /\ action[i].leased
  /\ action' = [action EXCEPT ![i].leased = FALSE]
  /\ UNCHANGED <<plan, evidence, queueing, worker>>

-----------------------------------------------------------------------------
Claims == ClaimNothing \/ \E w \in Worker : \E i \in DOMAIN action : ClaimAiAction(w, i)
Reports(w) == Complete(w) \/ NotCompleted(w) \/ ReportFailure(w)

Next ==
  \/ \E p \in Plan : SetWorkspacePlan(p)
  \/ EditEvidence
  \/ \E m \in Module : QueueAiAction(m)
  \/ InsertAiAction
  \/ Claims
  \/ \E w \in Worker : Reports(w) \/ Crash(w)
  \/ \E i \in DOMAIN action : LeaseExpires(i)

Spec == Init /\ [][Next]_vars

\* Workers poll in a loop and a model request times out, so an idle worker
\* claims and a busy one reports or crashes; time passes for every lease.
FairSpec ==
  /\ Spec
  /\ WF_vars(Claims)
  /\ \A w \in Worker : WF_vars(Reports(w) \/ Crash(w))
  /\ \A i \in 1 .. ScaleLimit : WF_vars(i \in DOMAIN action /\ LeaseExpires(i))

-----------------------------------------------------------------------------
ActionType ==
  [module : Module, status : Status, attempts : 0 .. MaxAttempts, leased : BOOLEAN,
   bound : Nat, audit : {"queued", "pending-human-review", "model-failed"}]

\* The type invariant: workers point at actions that exist.
TypeOK ==
  /\ plan \in Plan /\ evidence \in Nat
  /\ queueing \in {NotQueueing} \cup [at : {"read"}, module : Module, limit : Nat]
  /\ action \in Seq(ActionType)
  /\ worker \in [Worker -> {Idle} \cup [at : {"asking", "failing"}, job : DOMAIN action]]

\* No action runs for a module the workspace's plan has lost, though plans
\* change without the lock under which actions are queued (setWorkspacePlan,
\* the sweep and the filter of the claim).
RunningIsEntitled ==
  \A i \in DOMAIN action : action[i].status = "running" => action[i].module \in Allowed(plan)

\* A proposal awaits review exactly when its action was completed, and no
\* action is reported failed on its audit record that is not failed.
AuditFollowsAction ==
  \A i \in DOMAIN action :
    /\ action[i].audit = "pending-human-review" <=> action[i].status = "completed"
    /\ action[i].audit = "model-failed" => action[i].status = "failed"

\* An action ends once: a slow worker whose action another worker claimed,
\* answered or lost to a plan change alters nothing, and what is completed was
\* answered from the evidence the action was bound to (completeAiAction).
AnswersAreFinal ==
  [][\A i \in DOMAIN action :
       /\ ~Open(action[i]) => action'[i] = action[i]
       /\ Open(action[i]) /\ action'[i].status = "completed" => evidence = action[i].bound]_vars

\* Every queued action ends, though workers crash, hang past their lease and
\* take over from each other (the attempts and the sweep of the claim).
ActionsEnd ==
  \A i \in 1 .. ScaleLimit :
    (i \in DOMAIN action /\ Open(action[i])) ~> (i \in DOMAIN action /\ ~Open(action[i]))
=============================================================================
