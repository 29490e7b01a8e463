---------------------------- MODULE WorkerJobs ----------------------------
(***************************************************************************)
(* Provisioning jobs and the workers that run them: the queue in           *)
(* PostgreSQL (enqueue, claim, lease, report), the remote agents that      *)
(* claim a job, change the containers and report, and the entitlement      *)
(* changes that revoke paid jobs and queue their clean-up.                 *)
(*                                                                         *)
(* Every repository method is one transaction and one action: the row      *)
(* locks of claimWorkerJob, reportWorkerJob and updateSubscriptionStatus   *)
(* on the jobs of a server serialise them.  The agent is another process:  *)
(* its claim, its docker commands and its report are steps of their own,   *)
(* and it may die between any two of them.                                 *)
(***************************************************************************)
EXTENDS Integers, FiniteSets, Sequences

CONSTANTS
  Server,         \* installations
  App,            \* application instances
  Worker,         \* worker nodes
  NoWorker,
  HostOf,         \* the server of each application
  PlacementOf,    \* the worker the paid checkout places each application on
  CustomerAction, \* the actions customers request
  MaxAttempts,    \* claims of a job before a failure is final (3 in the code)
  MaxJobs,        \* bound on the jobs of a behaviour
  MaxFaults       \* bound on the failures of a behaviour

PaidAction == {"install", "upgrade", "start", "restore"}
Action == PaidAction \cup {"stop", "backup"}

ASSUME WorkerConstantsAreWellTyped ==
  /\ IsFiniteSet(App)
  /\ HostOf \in [App -> Server]
  /\ PlacementOf \in [App -> Worker]
  /\ NoWorker \notin Worker
  /\ CustomerAction \subseteq Action \ {"install"}
  /\ MaxAttempts \in Nat \ {0}
  /\ MaxJobs \in Nat /\ MaxFaults \in Nat

VARIABLES
  state,      \* installations.state
  entitled,   \* some subscription row of the server is active or trialing
  appState,   \* application_instances.state
  placed,     \* application_instances.worker_node_id
  jobs,       \* provisioning_jobs, in the order of created_at
  requests,   \* customer requests that passed the checks of the actions route
  mode,       \* worker_nodes.status
  fresh,      \* workers with a heartbeat in the last two minutes
  agent,      \* what the agent process of each worker does
  container,  \* the Compose project of each application on its worker
  faults

serverVars == <<state, entitled>>
appVars    == <<appState, placed>>
nodeVars   == <<mode, fresh>>
vars == <<state, entitled, appState, placed, jobs, requests, mode, fresh, agent, container, faults>>

AppsOf(s) == {a \in App : HostOf[a] = s}

JobStatus == {"queued", "running", "succeeded", "failed"}
\* waiting: available_at is in the future; expired: lease_expires_at is past
JobRecord == [app : App, action : Action, worker : Worker \cup {NoWorker}, status : JobStatus,
              attempts : 0 .. MaxAttempts, waiting : BOOLEAN, expired : BOOLEAN]
JobId == DOMAIN jobs
Unfinished(j) == jobs[j].status \in {"queued", "running"}
RunningOn(w) == {j \in JobId : jobs[j].status = "running" /\ jobs[j].worker = w}

NewJob(a, act) == [app |-> a, action |-> act, worker |-> placed[a], status |-> "queued",
                   attempts |-> 0, waiting |-> FALSE, expired |-> FALSE]

\* Jobs inserted by one transaction share created_at: their order is arbitrary.
Orders(S) == {o \in [1 .. Cardinality(S) -> S] : \A x \in S : \E i \in DOMAIN o : o[i] = x}

Idle == [phase |-> "idle", job |-> 0]
Down == [phase |-> "down", job |-> 0]
Holding(phase, j) == [phase |-> phase, job |-> j]

Fault == faults < MaxFaults /\ faults' = faults + 1

\* Servers are planned, their applications neither placed nor installed.
Init ==
  /\ state = [s \in Server |-> "planned"]
  /\ entitled = [s \in Server |-> FALSE]
  /\ appState = [a \in App |-> "queued"]
  /\ placed = [a \in App |-> NoWorker]
  /\ jobs = <<>>
  /\ requests = {}
  /\ mode = [w \in Worker |-> "ready"]
  /\ fresh = [w \in Worker |-> TRUE]
  /\ agent = [w \in Worker |-> Idle]
  /\ container = [a \in App |-> "absent"]
  /\ faults = 0

---------------------------------------------------------------------------
(* Payment and entitlement                                                 *)

\* The effect of a paid checkout here: the applications are placed and an
\* install job is queued for each, on its worker.
ProcessPaidCheckout(s) ==
  /\ state[s] = "planned"
  /\ Len(jobs) + Cardinality(AppsOf(s)) <= MaxJobs
  /\ entitled' = [entitled EXCEPT ![s] = TRUE]
  /\ state' = [state EXCEPT ![s] = IF AppsOf(s) = {} THEN "live" ELSE "provisioning"]
  /\ placed' = [a \in App |-> IF HostOf[a] = s THEN PlacementOf[a] ELSE placed[a]]
  /\ \E order \in Orders(AppsOf(s)) :
       jobs' = jobs \o [i \in DOMAIN order |->
                          [NewJob(order[i], "install") EXCEPT !.worker = PlacementOf[order[i]]]]
  /\ UNCHANGED <<appState, requests, nodeVars, agent, container, faults>>

\* The state a suspended server gets back.
ReactivatedState(s) ==
  IF \E a \in AppsOf(s) : appState[a] = "live" THEN "live" ELSE "provisioning"

ReactivateSubscription(s) ==
  /\ state[s] # "planned"
  /\ entitled' = [entitled EXCEPT ![s] = TRUE]
  /\ state' = IF state[s] = "suspended" THEN [state EXCEPT ![s] = ReactivatedState(s)] ELSE state
  /\ UNCHANGED <<appVars, jobs, requests, nodeVars, agent, container, faults>>

\* Mutant of WithoutPaidWork: fails every job of the server.
WithoutAnyWork(s) ==
  [j \in JobId |->
     IF HostOf[jobs[j].app] = s /\ Unfinished(j)
     THEN [jobs[j] EXCEPT !.status = "failed", !.expired = FALSE] ELSE jobs[j]]

\* A paid job that has not finished is failed; a job on a worker loses its lease.
WithoutPaidWork(s) ==
  [j \in JobId |->
     IF HostOf[jobs[j].app] = s /\ Unfinished(j) /\ jobs[j].action \in PaidAction
     THEN [jobs[j] EXCEPT !.status = "failed", !.expired = FALSE] ELSE jobs[j]]

\* Mutant of ToStop: overlooks applications that are still being installed.
ToStopLive(s) ==
  {a \in AppsOf(s) :
     /\ appState[a] = "live"
     /\ placed[a] # NoWorker
     /\ ~\E j \in JobId : jobs[j].app = a /\ jobs[j].action = "stop" /\ Unfinished(j)}

\* The applications that may be running and that no stop job will stop.
ToStop(s) ==
  {a \in AppsOf(s) :
     /\ appState[a] \in {"live", "provisioning"}
     /\ placed[a] # NoWorker
     /\ ~\E j \in JobId : jobs[j].app = a /\ jobs[j].action = "stop" /\ Unfinished(j)}

\* No row entitles the server any more: a webhook or a reconciliation pass
\* revokes the paid jobs and queues the stop jobs in the same transaction.
RevokeSubscription(s) ==
  /\ state[s] # "planned"
  /\ Len(jobs) + Cardinality(ToStop(s)) <= MaxJobs
  /\ entitled' = [entitled EXCEPT ![s] = FALSE]
  /\ state' = [state EXCEPT ![s] = "suspended"]
  /\ \E order \in Orders(ToStop(s)) :
       jobs' = WithoutPaidWork(s) \o [i \in DOMAIN order |-> NewJob(order[i], "stop")]
  /\ UNCHANGED <<appVars, requests, nodeVars, agent, container, faults>>

---------------------------------------------------------------------------
(* Customer requests                                                       *)

\* The actions route checks the subscription of a paid action, and enqueues
\* the job in a later statement; the request may die in between.
RequestAction(a, act) ==
  /\ act \in PaidAction => entitled[HostOf[a]]
  /\ [app |-> a, action |-> act] \notin requests
  /\ Len(jobs) + Cardinality(requests) < MaxJobs
  /\ requests' = requests \cup {[app |-> a, action |-> act]}
  /\ UNCHANGED <<serverVars, appVars, jobs, nodeVars, agent, container, faults>>

EnqueueJob(r) ==
  /\ r \in requests
  /\ Len(jobs) < MaxJobs
  /\ requests' = requests \ {r}
  /\ jobs' = Append(jobs, NewJob(r.app, r.action))
  /\ UNCHANGED <<serverVars, appVars, nodeVars, agent, container, faults>>

---------------------------------------------------------------------------
(* Worker nodes and time                                                   *)

SetWorkerNodeMode(w, m) ==
  /\ mode[w] # m
  /\ mode' = [mode EXCEPT ![w] = m]
  /\ UNCHANGED <<serverVars, appVars, jobs, requests, fresh, agent, container, faults>>

\* A heartbeat renews the lease of every running job of the node.
Renewed(w) == [j \in JobId |-> IF j \in RunningOn(w) THEN [jobs[j] EXCEPT !.expired = FALSE] ELSE jobs[j]]

HeartbeatWorkerNode(w) ==
  /\ agent[w].phase # "down"
  /\ ~fresh[w]
  /\ fresh' = [fresh EXCEPT ![w] = TRUE]
  /\ jobs' = Renewed(w)
  /\ UNCHANGED <<serverVars, appVars, requests, mode, agent, container, faults>>

\* Two minutes without a heartbeat: the agent is down or cut off.
HeartbeatsLapse(w) ==
  /\ fresh[w]
  /\ IF agent[w].phase = "down" THEN UNCHANGED faults ELSE Fault
  /\ fresh' = [fresh EXCEPT ![w] = FALSE]
  /\ UNCHANGED <<serverVars, appVars, jobs, requests, mode, agent, container>>

\* Fifteen minutes without a heartbeat.
LeaseExpires(j) ==
  /\ jobs[j].status = "running" /\ ~jobs[j].expired
  /\ ~fresh[jobs[j].worker]
  /\ jobs' = [jobs EXCEPT ![j].expired = TRUE]
  /\ UNCHANGED <<serverVars, appVars, requests, nodeVars, agent, container, faults>>

BackoffPasses(j) ==
  /\ jobs[j].waiting
  /\ jobs' = [jobs EXCEPT ![j].waiting = FALSE]
  /\ UNCHANGED <<serverVars, appVars, requests, nodeVars, agent, container, faults>>

---------------------------------------------------------------------------
(* Claiming a job                                                          *)

Ready(w) == mode[w] = "ready" /\ fresh[w]

\* Mutant of Requeued: gives the job up to any worker.
RequeuedUnbound ==
  [j \in JobId |->
     IF jobs[j].status = "running" /\ jobs[j].expired /\ jobs[j].attempts < MaxAttempts
     THEN [jobs[j] EXCEPT !.status = "queued", !.worker = NoWorker, !.expired = FALSE, !.waiting = FALSE]
     ELSE jobs[j]]

\* Every claim of a ready node first queues the jobs of all nodes whose lease
\* has expired again, unless their attempts are used up.
Requeued ==
  [j \in JobId |->
     IF jobs[j].status = "running" /\ jobs[j].expired /\ jobs[j].attempts < MaxAttempts
     THEN [jobs[j] EXCEPT !.status = "queued", !.expired = FALSE, !.waiting = FALSE] ELSE jobs[j]]

\* Mutant of RunningIn: forgets the job an agent lost.
NoneRunning(js, w) == {}

\* The jobs a node is running, with a lease that has expired or not.
RunningIn(js, w) == {j \in DOMAIN js : js[j].status = "running" /\ js[j].worker = w}

\* A job of the node that is still running is handed out again, and its lease
\* renewed: the agent lost it.
ResumeJob(w) ==
  /\ agent[w] = Idle /\ Ready(w)
  /\ \E j \in RunningIn(Requeued, w) :
       /\ jobs' = [Requeued EXCEPT ![j].expired = FALSE]
       /\ agent' = [agent EXCEPT ![w] = Holding("executing", j)]
  /\ UNCHANGED <<serverVars, appVars, requests, nodeVars, container, faults>>

\* Mutant of Claimable: trusts the check the actions route made.
ClaimableAsEnqueued(js, j) == js[j].status = "queued" /\ ~js[j].waiting

Claimable(js, j) ==
  /\ js[j].status = "queued" /\ ~js[j].waiting
  /\ js[j].action \in PaidAction => entitled[HostOf[js[j].app]]

\* Jobs bound to the node come first, then jobs bound to none whose
\* application is on the node; within them the oldest.
ClaimableAt(js, w) ==
  LET assigned   == {j \in DOMAIN js : Claimable(js, j) /\ js[j].worker = w}
      candidates == {j \in DOMAIN js : /\ Claimable(js, j)
                                       /\ js[j].worker = NoWorker
                                       /\ placed[js[j].app] = w}
  IN IF assigned # {} THEN assigned ELSE candidates

Oldest(S) == {j \in S : \A i \in S : j <= i}

Claimed(job, w) == [job EXCEPT !.status = "running", !.worker = w, !.attempts = job.attempts + 1]

ClaimJob(w) ==
  /\ agent[w] = Idle /\ Ready(w)
  /\ RunningIn(Requeued, w) = {}
  /\ \E j \in Oldest(ClaimableAt(Requeued, w)) :
       LET a == jobs[j].app IN
       /\ jobs' = [Requeued EXCEPT ![j] = Claimed(@, w)]
       /\ appState' = IF jobs[j].action = "install"
                      THEN [appState EXCEPT ![a] = "provisioning"] ELSE appState
       /\ agent' = [agent EXCEPT ![w] = Holding("executing", j)]
  /\ UNCHANGED <<serverVars, placed, requests, nodeVars, container, faults>>

\* Nothing to hand out: the claim still requeues expired jobs of other nodes.
ClaimNothing(w) ==
  /\ agent[w] = Idle /\ Ready(w)
  /\ RunningIn(Requeued, w) = {} /\ ClaimableAt(Requeued, w) = {}
  /\ jobs' = Requeued /\ Requeued # jobs
  /\ UNCHANGED <<serverVars, appVars, requests, nodeVars, agent, container, faults>>

---------------------------------------------------------------------------
(* Running a job: docker on the worker                                     *)

\* Every action but an install needs the Compose file an install writes.
CanRun(act, a) == act = "install" \/ container[a] # "absent"

\* The containers after the action.  A backup stops the application and
\* starts it again, and ignores an error of that start.
Completed(act) ==
  CASE act \in PaidAction -> {"up"}
    [] act = "stop"       -> {"down"}
    [] act = "backup"     -> {"up", "down"}

\* What an action that was interrupted, or failed, may leave behind.
Interrupted(act, a) ==
  CASE ~CanRun(act, a)    -> {container[a]}
    [] act = "stop"       -> {container[a], "down"}
    [] OTHER              -> {container[a], "up", "down"}

ExecuteSucceeds(w) ==
  /\ agent[w].phase = "executing"
  /\ LET job == jobs[agent[w].job] IN
     /\ CanRun(job.action, job.app)
     /\ \E c \in Completed(job.action) : container' = [container EXCEPT ![job.app] = c]
  /\ agent' = [agent EXCEPT ![w].phase = "succeeded"]
  /\ UNCHANGED <<serverVars, appVars, jobs, requests, nodeVars, faults>>

ExecuteFails(w) ==
  /\ agent[w].phase = "executing"
  /\ LET job == jobs[agent[w].job] IN
     /\ IF CanRun(job.action, job.app) THEN Fault ELSE UNCHANGED faults
     /\ \E c \in Interrupted(job.action, job.app) : container' = [container EXCEPT ![job.app] = c]
  /\ agent' = [agent EXCEPT ![w].phase = "failed"]
  /\ UNCHANGED <<serverVars, appVars, jobs, requests, nodeVars>>

AgentDies(w) ==
  /\ agent[w].phase # "down"
  /\ Fault
  /\ IF agent[w].phase = "executing"
     THEN LET job == jobs[agent[w].job] IN
          \E c \in Interrupted(job.action, job.app) : container' = [container EXCEPT ![job.app] = c]
     ELSE UNCHANGED container
  /\ agent' = [agent EXCEPT ![w] = Down]
  /\ UNCHANGED <<serverVars, appVars, jobs, requests, nodeVars>>

\* The container restarts the process, which sends a heartbeat first.
AgentRestarts(w) ==
  /\ agent[w] = Down
  /\ agent' = [agent EXCEPT ![w] = Idle]
  /\ fresh' = [fresh EXCEPT ![w] = TRUE]
  /\ jobs' = Renewed(w)
  /\ UNCHANGED <<serverVars, appVars, requests, mode, container, faults>>

---------------------------------------------------------------------------
(* Reporting a job                                                         *)

\* A report counts only while the job is running on the reporting node.
HoldsLease(w) == agent[w].job \in RunningOn(w)

\* installations.state after a success, from the states of its applications.
AggregateState(s, states) ==
  LET of(st) == {a \in AppsOf(s) : states[a] \in st}
  IN IF ~entitled[s] THEN "suspended"
     ELSE IF of({"failed"}) # {} THEN "failed"
     ELSE IF of({"live"}) = AppsOf(s) THEN "live"
     ELSE "provisioning"

\* Mutant of FailureState: ignores the subscription.
FailureStateAlways(s) == "failed"

\* An application a job of which failed for good leaves the server failed.
FailureState(s) == IF entitled[s] THEN "failed" ELSE "suspended"

Ended(job, status) == [job EXCEPT !.status = status, !.expired = FALSE]
Retried(job) == [job EXCEPT !.status = "queued", !.waiting = TRUE, !.expired = FALSE]

\* The job ends with a status; its application and its server get new states.
EndJob(j, status, states, serverState) ==
  /\ jobs' = [jobs EXCEPT ![j] = Ended(@, status)]
  /\ appState' = states
  /\ state' = [state EXCEPT ![HostOf[jobs[j].app]] = serverState]

\* The states of the applications after the report of a job.
Reported(j, st) == [appState EXCEPT ![jobs[j].app] = st]

\* Mutant of ReportedState: a stopped application stays live.
ReportedLive(act) == "live"

ReportedState(act) == IF act = "stop" THEN "stopped" ELSE "live"

\* The worker waits for the response, then fetches the routes again; if either
\* fails it reports the job as failed.
ReportSuccess(w) ==
  /\ agent[w].phase = "succeeded" /\ HoldsLease(w)
  /\ LET j == agent[w].job
         states == Reported(j, ReportedState(jobs[j].action))
     IN EndJob(j, "succeeded", states, AggregateState(HostOf[jobs[j].app], states))
  /\ \/ agent' = [agent EXCEPT ![w] = Idle] /\ UNCHANGED faults
     \/ agent' = [agent EXCEPT ![w].phase = "failed"] /\ Fault
  /\ UNCHANGED <<entitled, placed, requests, nodeVars, container>>

\* A failure that is not the last attempt queues the job again, later.
ReportFailure(w) ==
  /\ agent[w].phase = "failed" /\ HoldsLease(w)
  /\ LET j == agent[w].job IN
     IF jobs[j].attempts < MaxAttempts
     THEN /\ jobs' = [jobs EXCEPT ![j] = Retried(@)]
          /\ UNCHANGED <<appState, state>>
     ELSE EndJob(j, "failed", Reported(j, "failed"), FailureState(HostOf[jobs[j].app]))
  /\ \/ agent' = [agent EXCEPT ![w] = Idle] /\ UNCHANGED faults
     \/ agent' = [agent EXCEPT ![w] = Down] /\ Fault
  /\ UNCHANGED <<entitled, placed, requests, nodeVars, container>>

\* The report is refused, or lost before it arrives.  A refused success is
\* reported as a failure; a refused failure ends the process.
ReportRefused(w) ==
  /\ agent[w].phase \in {"succeeded", "failed"}
  /\ IF HoldsLease(w) THEN Fault ELSE UNCHANGED faults
  /\ agent' = [agent EXCEPT ![w] = IF agent[w].phase = "succeeded"
                                   THEN Holding("failed", agent[w].job) ELSE Down]
  /\ UNCHANGED <<serverVars, appVars, jobs, requests, nodeVars, container>>

---------------------------------------------------------------------------
Subscriptions ==
  \E s \in Server : ProcessPaidCheckout(s) \/ ReactivateSubscription(s) \/ RevokeSubscription(s)

Customers ==
  \/ \E a \in App, act \in CustomerAction : RequestAction(a, act)
  \/ \E r \in requests : EnqueueJob(r)

Time ==
  \/ \E w \in Worker : HeartbeatsLapse(w)
  \/ \E j \in JobId : LeaseExpires(j) \/ BackoffPasses(j)

Operator == \E w \in Worker, m \in {"ready", "draining"} : SetWorkerNodeMode(w, m)

Claim(w) == ResumeJob(w) \/ ClaimJob(w) \/ ClaimNothing(w)
Execute(w) == ExecuteSucceeds(w) \/ ExecuteFails(w)
Report(w) == ReportSuccess(w) \/ ReportFailure(w) \/ ReportRefused(w)

Agent(w) == HeartbeatWorkerNode(w) \/ Claim(w) \/ Execute(w) \/ Report(w) \/ AgentDies(w) \/ AgentRestarts(w)

Next == Subscriptions \/ Customers \/ Time \/ Operator \/ (\E w \in Worker : Agent(w))

Spec == Init /\ [][Next]_vars

\* A live agent heartbeats, polls, and finishes what it executes; the container
\* runtime restarts a dead one; a backoff passes.
Fairness ==
  /\ \A w \in Worker : /\ WF_vars(HeartbeatWorkerNode(w)) /\ WF_vars(AgentRestarts(w))
                       /\ WF_vars(Claim(w)) /\ WF_vars(Execute(w)) /\ WF_vars(Report(w))
  /\ \A j \in 1 .. MaxJobs : WF_vars(j \in JobId /\ BackoffPasses(j))

FairSpec == Spec /\ Fairness

---------------------------------------------------------------------------
(* Properties                                                              *)

\* Every variable stays in its type.
TypeOK ==
  /\ state \in [Server -> {"planned", "provisioning", "live", "failed", "suspended"}]
  /\ entitled \in [Server -> BOOLEAN]
  /\ appState \in [App -> {"queued", "provisioning", "live", "failed", "stopped"}]
  /\ placed \in [App -> Worker \cup {NoWorker}]
  /\ jobs \in Seq(JobRecord) /\ Len(jobs) <= MaxJobs
  /\ requests \subseteq [app : App, action : CustomerAction]
  /\ mode \in [Worker -> {"ready", "draining"}]
  /\ fresh \in [Worker -> BOOLEAN]
  /\ agent \in [Worker -> {Idle, Down} \cup [phase : {"executing", "succeeded", "failed"}, job : JobId]]
  /\ container \in [App -> {"absent", "up", "down"}]
  /\ faults \in 0 .. MaxFaults

\* A paid job never runs for a server no subscription entitles, although the
\* check of the actions route, the enqueueing, the claim and the revocation
\* are different transactions.  claimWorkerJob's branch for a running job whose
\* entitlement is gone is therefore never taken.
RevokedWorkStops ==
  \A j \in JobId : jobs[j].status = "running" /\ jobs[j].action \in PaidAction
                   => entitled[HostOf[jobs[j].app]]

\* A node never has two running jobs, and an agent that holds a job holds the
\* one its node runs: a crash, an expired lease or a revocation in the middle
\* of a job never has two jobs change one worker.
SoleLease ==
  \A w \in Worker :
    /\ \A i, j \in RunningOn(w) : i = j
    /\ agent[w].job # 0 => \A j \in RunningOn(w) : agent[w].job = j

\* A report never reopens a suspended server, nor a revocation misses one:
\* reportWorkerJob, the webhook and the pass all write installations.state.
SuspendedIffRevoked ==
  \A s \in Server : state[s] # "planned" => (state[s] = "suspended" <=> ~entitled[s])

BackedUp(a) == \E j \in JobId : jobs[j].app = a /\ jobs[j].action = "backup" /\ jobs[j].status = "succeeded"

\* A live application, which the gateway routes to, has its containers up, or a
\* job that has not ended will correct one of the two.  A backup that could not
\* start the application again, and reports it live, is the exception.
LiveIsUp ==
  \A a \in App : appState[a] = "live" /\ container[a] # "up"
                 => BackedUp(a) \/ \E j \in JobId : jobs[j].app = a /\ Unfinished(j)

\* An application that may be running for a suspended server has a stop job
\* coming, whatever was queued, running or reported when it was suspended.  A
\* backup reports the application live when the stop job has already ended.
CleanupIsQueued ==
  \A a \in App : appState[a] \in {"live", "provisioning"} /\ ~entitled[HostOf[a]]
                 => BackedUp(a) \/ \E j \in JobId : jobs[j].app = a /\ jobs[j].action = "stop" /\ Unfinished(j)

\* A job is bound to the worker of its application or to none, and what runs or
\* is up somewhere is placed there.
JobsArePlaced ==
  /\ \A a \in App :
       /\ state[HostOf[a]] = "planned" => placed[a] = NoWorker
       /\ appState[a] \in {"live", "provisioning"} => placed[a] # NoWorker
  /\ \A j \in JobId :
       /\ jobs[j].worker \in {NoWorker, placed[jobs[j].app]}
       /\ jobs[j].status = "running" => jobs[j].worker # NoWorker
       /\ jobs[j].status = "queued" => jobs[j].attempts < MaxAttempts

\* An agent holds a job of its own worker, revoked meanwhile or not, and once
\* the job has succeeded the containers are as its action leaves them.
AgentsHoldTheirJobs ==
  \A w \in Worker :
    agent[w].job # 0 =>
      LET job == jobs[agent[w].job]
      IN /\ job.worker = w
         /\ agent[w].phase = "succeeded" => container[job.app] \in Completed(job.action)

\* LiveIsUp, for an application whose containers an agent is changing as well.
LiveIsStable ==
  \A a \in App :
    appState[a] = "live" /\ (\/ container[a] # "up"
                             \/ \E w \in Worker : agent[w].phase = "executing" /\ jobs[agent[w].job].app = a)
    => BackedUp(a) \/ \E j \in JobId : jobs[j].app = a /\ Unfinished(j)

\* The inductive invariant behind the safety properties above.
WorkerInvariant ==
  /\ TypeOK /\ JobsArePlaced /\ AgentsHoldTheirJobs
  /\ RevokedWorkStops /\ SoleLease /\ SuspendedIffRevoked /\ LiveIsStable /\ CleanupIsQueued

WorkersStayReady == \A w \in Worker : <>[](mode[w] = "ready")

\* While the workers are ready every job of a placed application ends, however
\* often agents die, leases expire or reports are lost: a job is never lost
\* between two owners.  Only a paid job of a suspended server may wait.
JobsEnd ==
  WorkersStayReady =>
    \A j \in 1 .. MaxJobs :
      (j \in JobId /\ placed[jobs[j].app] # NoWorker)
        ~> (j \in JobId /\ (\/ ~Unfinished(j)
                            \/ jobs[j].action \in PaidAction /\ ~entitled[HostOf[jobs[j].app]]))

\* When the subscription of a server stays inactive the containers that its
\* installs started, one under way included, are stopped.
InstallsAreStopped ==
  \A a \in App :
    /\ WorkersStayReady
    /\ <>[](state[HostOf[a]] = "suspended")
    /\ [](\A j \in JobId : jobs[j].app = a => jobs[j].action \in {"install", "stop"})
    => <>[](container[a] # "up" \/ appState[a] = "failed")
===========================================================================
