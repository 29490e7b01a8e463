------------------------- MODULE WorkerJobs_proofs -------------------------
(***************************************************************************)
(* WorkerInvariant is inductive: whatever the order of payments,           *)
(* revocations, requests, claims, crashes and reports, a paid job never    *)
(* runs unentitled, a worker runs one job, a suspended application has its *)
(* clean-up queued and a live one is up or about to be corrected.          *)
(*                                                                         *)
(* The queue is a sequence: the first part says what each step makes of it *)
(* job by job, and the rest reasons about single jobs only.  Steps that    *)
(* touch leases, backoffs and heartbeats alone are Quiet; the others have  *)
(* a lemma each, with one step per part of the invariant.                  *)
(***************************************************************************)
EXTENDS WorkerJobs, FiniteSetTheorems, SequenceTheorems, TLAPS

-----------------------------------------------------------------------------
(* The queue as a sequence *)

\* A well-typed queue is a function from its positions to jobs.
LEMMA QueueType ==
  ASSUME TypeOK
  PROVE  /\ Len(jobs) \in Nat /\ JobId = 1 .. Len(jobs)
         /\ jobs \in [JobId -> JobRecord]
  BY LenProperties DEF TypeOK, JobId

\* A step that rewrites jobs in place keeps the queue well typed.
LEMMA RewrittenQueue ==
  ASSUME TypeOK, NEW q, q \in [JobId -> JobRecord]
  PROVE  q \in Seq(JobRecord) /\ Len(q) = Len(jobs) /\ DOMAIN q = JobId
  BY QueueType

\* The step leaves the queue q with new jobs at its end.
Extends(q, new) == jobs' = q \o new

\* What that means of single jobs.
Extended(q, n, new) ==
  /\ jobs' \in Seq(JobRecord) /\ Len(jobs') = Len(jobs) + n
  /\ JobId \subseteq JobId'
  /\ \A j \in JobId : jobs'[j] = q[j]
  /\ \A j \in JobId' : j \notin JobId => \E i \in 1 .. n : jobs'[j] = new[i]
  /\ \A i \in 1 .. n : \E j \in JobId' : jobs'[j] = new[i]

\* A step that appends keeps what was there, and adds exactly the new jobs.
LEMMA ExtendedQueue ==
  ASSUME TypeOK, NEW q \in [JobId -> JobRecord], NEW n \in Nat, NEW new \in [1 .. n -> JobRecord],
         Extends(q, new)
  PROVE  Extended(q, n, new)
<1>1. q \in Seq(JobRecord) /\ Len(q) = Len(jobs) /\ Len(jobs) \in Nat /\ JobId = 1 .. Len(jobs)
  BY QueueType, RewrittenQueue
<1>2. new \in Seq(JobRecord) /\ Len(new) = n
  OBVIOUS
<1>3. /\ q \o new \in Seq(JobRecord)
      /\ Len(q \o new) = Len(q) + Len(new)
      /\ \A i \in 1 .. Len(q) + Len(new) : (q \o new)[i] = IF i <= Len(q) THEN q[i] ELSE new[i - Len(q)]
  BY <1>1, <1>2, ConcatProperties
<1>4. DOMAIN (q \o new) = 1 .. Len(jobs) + n
  BY <1>1, <1>2, <1>3, LenProperties
<1>5. \A j \in JobId : j \in 1 .. Len(jobs) + n /\ (q \o new)[j] = q[j]
  BY <1>1, <1>2, <1>3
<1>6. ASSUME NEW j \in 1 .. Len(jobs) + n, j \notin JobId
      PROVE  \E i \in 1 .. n : (q \o new)[j] = new[i]
  <2>1. j - Len(jobs) \in 1 .. n /\ ~(j <= Len(jobs))
    BY <1>1, <1>6
  <2>2. (q \o new)[j] = new[j - Len(jobs)]
    BY <1>1, <1>2, <1>3, <2>1
  <2> QED
    BY <2>1, <2>2
<1>7. ASSUME NEW i \in 1 .. n
      PROVE  \E j \in 1 .. Len(jobs) + n : (q \o new)[j] = new[i] /\ j \notin JobId
  <2>1. Len(jobs) + i \in 1 .. Len(jobs) + n /\ ~(Len(jobs) + i <= Len(jobs)) /\ (Len(jobs) + i) - Len(jobs) = i
    BY <1>1
  <2>2. (q \o new)[Len(jobs) + i] = new[i]
    BY <1>1, <1>2, <1>3, <2>1
  <2>3. Len(jobs) + i \notin JobId
    BY <1>1, <2>1
  <2> QED
    BY <2>1, <2>2, <2>3
<1>8. jobs' = q \o new
  BY DEF Extends
<1>9. JobId' = 1 .. Len(jobs) + n
  BY <1>4, <1>8 DEF JobId
<1> QED
  BY <1>1, <1>2, <1>3, <1>5, <1>6, <1>7, <1>8, <1>9 DEF Extended

\* Renewing the leases of a node gives jobs again.
LEMMA RenewedType ==
  ASSUME TypeOK, NEW w \in Worker
  PROVE  Renewed(w) \in [JobId -> JobRecord]
  BY QueueType DEF Renewed, JobRecord

\* So does queueing expired jobs again.
LEMMA RequeuedType ==
  ASSUME TypeOK
  PROVE  Requeued \in [JobId -> JobRecord]
  BY QueueType DEF Requeued, JobRecord, JobStatus

\* So does failing the paid jobs of a server.
LEMMA WithoutPaidWorkType ==
  ASSUME TypeOK, NEW s \in Server
  PROVE  WithoutPaidWork(s) \in [JobId -> JobRecord]
  BY QueueType DEF WithoutPaidWork, JobRecord, JobStatus

\* A new job is a job.
LEMMA NewJobType ==
  ASSUME TypeOK, NEW a \in App, NEW act \in Action, NEW w \in Worker \cup {NoWorker}
  PROVE  NewJob(a, act) \in JobRecord /\ [NewJob(a, act) EXCEPT !.worker = w] \in JobRecord
<1>1. placed[a] \in Worker \cup {NoWorker}
  BY DEF TypeOK
<1>2. 0 \in 0 .. MaxAttempts
  BY WorkerConstantsAreWellTyped DEF WorkerConstantsAreWellTyped
<1> QED
  BY <1>1, <1>2 DEF NewJob, JobRecord, JobStatus

\* A claim counts an attempt and binds the job to the node.
LEMMA ClaimedType ==
  ASSUME NEW job \in JobRecord, NEW w \in Worker, job.attempts < MaxAttempts
  PROVE  /\ Claimed(job, w) \in JobRecord
         /\ Claimed(job, w).app = job.app /\ Claimed(job, w).action = job.action
         /\ Claimed(job, w).worker = w /\ Claimed(job, w).status = "running"
<1>1. job.attempts + 1 \in 0 .. MaxAttempts
  BY WorkerConstantsAreWellTyped DEF WorkerConstantsAreWellTyped, JobRecord
<1> QED
  BY <1>1 DEF Claimed, JobRecord, JobStatus

\* A report ends a job or queues it again, bound to the same node.
LEMMA EndedType ==
  ASSUME NEW job \in JobRecord, NEW status \in JobStatus
  PROVE  /\ Ended(job, status) \in JobRecord /\ Retried(job) \in JobRecord
         /\ Ended(job, status).app = job.app /\ Ended(job, status).action = job.action
         /\ Ended(job, status).worker = job.worker /\ Ended(job, status).status = status
         /\ Retried(job).app = job.app /\ Retried(job).action = job.action
         /\ Retried(job).worker = job.worker /\ Retried(job).status = "queued"
         /\ Retried(job).attempts = job.attempts
  BY DEF Ended, Retried, JobRecord, JobStatus

\* An order of some applications is a function from an initial segment of the
\* naturals onto them.
LEMMA OrderType ==
  ASSUME NEW S \in SUBSET App, NEW order \in Orders(S)
  PROVE  /\ Cardinality(S) \in Nat /\ DOMAIN order = 1 .. Cardinality(S)
         /\ order \in [1 .. Cardinality(S) -> S]
         /\ \A a \in S : \E i \in 1 .. Cardinality(S) : order[i] = a
<1>1. IsFiniteSet(S)
  BY FS_Subset, WorkerConstantsAreWellTyped DEF WorkerConstantsAreWellTyped
<1> QED
  BY <1>1, FS_CardinalityType DEF Orders

-----------------------------------------------------------------------------
(* What each step does to the queue *)

\* The install jobs of a paid checkout.
LEMMA CheckoutQueue ==
  ASSUME TypeOK, NEW s \in Server, ProcessPaidCheckout(s)
  PROVE  /\ jobs' \in Seq(JobRecord) /\ Len(jobs') <= MaxJobs
         /\ JobId \subseteq JobId' /\ \A j \in JobId : jobs'[j] = jobs[j]
         /\ \A j \in JobId' : j \notin JobId =>
              /\ jobs'[j].app \in AppsOf(s) /\ jobs'[j].action = "install" /\ jobs'[j].status = "queued"
              /\ jobs'[j].attempts = 0 /\ jobs'[j].worker = PlacementOf[jobs'[j].app]
<1>1. AppsOf(s) \in SUBSET App
  BY DEF AppsOf
<1>2. PICK order \in Orders(AppsOf(s)) :
        jobs' = jobs \o [i \in DOMAIN order |->
                           [NewJob(order[i], "install") EXCEPT !.worker = PlacementOf[order[i]]]]
  BY DEF ProcessPaidCheckout
<1> DEFINE n == Cardinality(AppsOf(s))
           new == [i \in 1 .. n |-> [NewJob(order[i], "install") EXCEPT !.worker = PlacementOf[order[i]]]]
<1>3. n \in Nat /\ \A i \in 1 .. n : order[i] \in AppsOf(s) /\ order[i] \in App
  BY <1>1, <1>2, OrderType
<1>4. Extends(jobs, new)
  BY <1>1, <1>2, OrderType DEF Extends
<1>5. \A i \in 1 .. n : new[i] \in JobRecord
  BY <1>3, NewJobType, WorkerConstantsAreWellTyped DEF WorkerConstantsAreWellTyped, Action, PaidAction
<1>6. new \in [1 .. n -> JobRecord]
  BY <1>5
<1>7. \A i \in 1 .. n : /\ new[i].app \in AppsOf(s) /\ new[i].action = "install" /\ new[i].status = "queued"
                        /\ new[i].attempts = 0 /\ new[i].worker = PlacementOf[new[i].app]
  BY <1>3 DEF NewJob
<1>8. Len(jobs) + n <= MaxJobs
  BY DEF ProcessPaidCheckout
<1> HIDE DEF n, new
<1>9. jobs \in [JobId -> JobRecord]
  BY QueueType
<1>10. /\ jobs' \in Seq(JobRecord) /\ Len(jobs') = Len(jobs) + n
       /\ JobId \subseteq JobId' /\ \A j \in JobId : jobs'[j] = jobs[j]
       /\ \A j \in JobId' : j \notin JobId => \E i \in 1 .. n : jobs'[j] = new[i]
  <2>1. n \in Nat
    BY <1>3
  <2>2. Extended(jobs, n, new)
    BY <1>4, <1>6, <1>9, <2>1, ExtendedQueue
  <2> QED
    BY <2>2 DEF Extended
<1> QED
  BY <1>7, <1>8, <1>10

\* A revocation ends the paid jobs and appends stop jobs.
LEMMA RevocationQueue ==
  ASSUME TypeOK, NEW s \in Server, RevokeSubscription(s)
  PROVE  /\ jobs' \in Seq(JobRecord) /\ Len(jobs') <= MaxJobs
         /\ JobId \subseteq JobId' /\ \A j \in JobId : jobs'[j] = WithoutPaidWork(s)[j]
         /\ \A j \in JobId' : j \notin JobId =>
              /\ jobs'[j].app \in ToStop(s) /\ jobs'[j].action = "stop" /\ jobs'[j].status = "queued"
              /\ jobs'[j].attempts = 0 /\ jobs'[j].worker = placed[jobs'[j].app]
         /\ \A a \in ToStop(s) : \E j \in JobId' :
              jobs'[j].app = a /\ jobs'[j].action = "stop" /\ jobs'[j].status = "queued"
<1>1. ToStop(s) \in SUBSET App
  BY DEF ToStop, AppsOf
<1>2. PICK order \in Orders(ToStop(s)) :
        jobs' = WithoutPaidWork(s) \o [i \in DOMAIN order |-> NewJob(order[i], "stop")]
  BY DEF RevokeSubscription
<1> DEFINE n == Cardinality(ToStop(s))
           new == [i \in 1 .. n |-> NewJob(order[i], "stop")]
<1>3. n \in Nat /\ (\A i \in 1 .. n : order[i] \in ToStop(s) /\ order[i] \in App)
      /\ \A a \in ToStop(s) : \E i \in 1 .. n : order[i] = a
  <2>1. n \in Nat /\ order \in [1 .. n -> ToStop(s)] /\ \A a \in ToStop(s) : \E i \in 1 .. n : order[i] = a
    BY <1>1, <1>2, OrderType
  <2> HIDE DEF n
  <2> QED
    BY <1>1, <2>1
<1>4. Extends(WithoutPaidWork(s), new)
  BY <1>1, <1>2, OrderType DEF Extends
<1>5. \A i \in 1 .. n : new[i] \in JobRecord
  <2>1. \A i \in 1 .. n : NewJob(order[i], "stop") \in JobRecord
    BY <1>3, WorkerConstantsAreWellTyped
       DEF WorkerConstantsAreWellTyped, TypeOK, NewJob, JobRecord, JobStatus, Action, PaidAction
  <2> QED
    BY <2>1
<1>6. new \in [1 .. n -> JobRecord]
  BY <1>5
<1>7. \A i \in 1 .. n : /\ new[i].app = order[i] /\ new[i].action = "stop" /\ new[i].status = "queued"
                        /\ new[i].attempts = 0 /\ new[i].worker = placed[order[i]]
  BY DEF NewJob
<1>8. Len(jobs) + n <= MaxJobs
  BY DEF RevokeSubscription
<1>9. WithoutPaidWork(s) \in [JobId -> JobRecord]
  BY WithoutPaidWorkType
<1>10. /\ jobs' \in Seq(JobRecord) /\ Len(jobs') = Len(jobs) + n
       /\ JobId \subseteq JobId' /\ \A j \in JobId : jobs'[j] = WithoutPaidWork(s)[j]
       /\ \A j \in JobId' : j \notin JobId => \E i \in 1 .. n : jobs'[j] = new[i]
       /\ \A i \in 1 .. n : \E j \in JobId' : jobs'[j] = new[i]
  <2> HIDE DEF n, new
  <2>1. n \in Nat
    BY <1>3
  <2>2. Extended(WithoutPaidWork(s), n, new)
    BY <1>4, <1>6, <1>9, <2>1, ExtendedQueue
  <2> QED
    BY <2>2 DEF Extended
<1> HIDE DEF n, new
<1>11. \A a \in ToStop(s) : \E j \in JobId' :
              jobs'[j].app = a /\ jobs'[j].action = "stop" /\ jobs'[j].status = "queued"
  BY <1>3, <1>7, <1>10
<1> QED
  BY <1>3, <1>7, <1>8, <1>10, <1>11

\* A customer's job goes to the end of the queue.
LEMMA EnqueuedQueue ==
  ASSUME TypeOK, NEW r \in requests, EnqueueJob(r)
  PROVE  /\ jobs' \in Seq(JobRecord) /\ Len(jobs') <= MaxJobs
         /\ JobId \subseteq JobId' /\ \A j \in JobId : jobs'[j] = jobs[j]
         /\ \A j \in JobId' : j \notin JobId => jobs'[j] = NewJob(r.app, r.action)
<1>1. r \in [app : App, action : CustomerAction] /\ r.app \in App /\ r.action \in Action
  BY WorkerConstantsAreWellTyped DEF WorkerConstantsAreWellTyped, TypeOK
<1>2. NewJob(r.app, r.action) \in JobRecord
  BY <1>1, WorkerConstantsAreWellTyped
     DEF WorkerConstantsAreWellTyped, TypeOK, NewJob, JobRecord, JobStatus
<1>3. jobs' = Append(jobs, NewJob(r.app, r.action)) /\ Len(jobs) < MaxJobs
  BY DEF EnqueueJob
<1>4. jobs \in Seq(JobRecord) /\ Len(jobs) \in Nat /\ MaxJobs \in Nat
  BY QueueType, WorkerConstantsAreWellTyped DEF WorkerConstantsAreWellTyped, TypeOK
<1>5. /\ jobs' \in Seq(JobRecord) /\ Len(jobs') = Len(jobs) + 1
      /\ \A j \in 1 .. Len(jobs) : jobs'[j] = jobs[j]
      /\ jobs'[Len(jobs) + 1] = NewJob(r.app, r.action)
  BY <1>2, <1>3, <1>4
<1>6. JobId' = 1 .. Len(jobs) + 1
  BY <1>5, LenProperties DEF JobId
<1> QED
  BY <1>3, <1>4, <1>5, <1>6, QueueType

\* A step that rewrites the queue in place keeps its positions.
LEMMA InPlace ==
  ASSUME TypeOK, jobs' \in [JobId -> JobRecord]
  PROVE  jobs' \in Seq(JobRecord) /\ Len(jobs') <= MaxJobs /\ JobId' = JobId
<1>1. jobs' \in Seq(JobRecord) /\ Len(jobs') = Len(jobs) /\ DOMAIN jobs' = JobId
  BY RewrittenQueue
<1>2. Len(jobs) <= MaxJobs
  BY DEF TypeOK
<1> QED
  BY <1>1, <1>2 DEF JobId

\* What an agent that is not idle or down holds.
LEMMA HeldType ==
  ASSUME TypeOK, NEW w \in Worker
  PROVE  /\ agent[w].job # 0 <=> agent[w].phase \in {"executing", "succeeded", "failed"}
         /\ agent[w].job # 0 => agent[w].job \in JobId /\ agent[w].phase \in {"executing", "succeeded", "failed"}
         /\ agent[w].phase \in {"idle", "down", "executing", "succeeded", "failed"}
<1>1. agent[w] \in {Idle, Down} \cup [phase : {"executing", "succeeded", "failed"}, job : JobId]
  BY DEF TypeOK
<1>2. 0 \notin JobId
  BY QueueType
<1> QED
  BY <1>1, <1>2 DEF Idle, Down

\* Requeueing changes only what is needed to hand a job out again.
LEMMA RequeuedJobs ==
  ASSUME TypeOK, NEW j \in JobId
  PROVE  /\ Requeued[j].app = jobs[j].app /\ Requeued[j].action = jobs[j].action
         /\ Requeued[j].worker = jobs[j].worker /\ Requeued[j].attempts = jobs[j].attempts
         /\ \/ Requeued[j].status = jobs[j].status
            \/ jobs[j].status = "running" /\ Requeued[j].status = "queued" /\ jobs[j].attempts < MaxAttempts
<1>1. jobs[j] \in JobRecord
  BY QueueType
<1>2. Requeued[j] = IF jobs[j].status = "running" /\ jobs[j].expired /\ jobs[j].attempts < MaxAttempts
                    THEN [jobs[j] EXCEPT !.status = "queued", !.expired = FALSE, !.waiting = FALSE] ELSE jobs[j]
  BY DEF Requeued
<1> QED
  BY <1>1, <1>2 DEF JobRecord

\* A job that a claim finds queued has attempts left.
LEMMA RequeuedLeft ==
  ASSUME TypeOK, JobsArePlaced, NEW j \in JobId, Requeued[j].status = "queued"
  PROVE  Requeued[j].attempts < MaxAttempts
  BY RequeuedJobs DEF JobsArePlaced

\* The jobs stay jobs, and none is lost.
LEMMA QueueStep ==
  ASSUME TypeOK, JobsArePlaced, [Next]_vars
  PROVE  jobs' \in Seq(JobRecord) /\ Len(jobs') <= MaxJobs /\ JobId \subseteq JobId'
<1> DEFINE Goal == jobs' \in Seq(JobRecord) /\ Len(jobs') <= MaxJobs /\ JobId \subseteq JobId'
<1>a. ASSUME jobs' \in [JobId -> JobRecord] PROVE Goal
  BY <1>a, InPlace
<1>b. ASSUME UNCHANGED jobs PROVE Goal
  BY <1>b, <1>a, QueueType
<1>c. jobs \in [JobId -> JobRecord] /\ Requeued \in [JobId -> JobRecord]
  BY QueueType, RequeuedType
<1> HIDE DEF Goal
<1>1. ASSUME NEW s \in Server, ProcessPaidCheckout(s) PROVE Goal
  BY <1>1, CheckoutQueue DEF Goal
<1>2. ASSUME NEW s \in Server, RevokeSubscription(s) PROVE Goal
  BY <1>2, RevocationQueue DEF Goal
<1>3. ASSUME NEW r \in requests, EnqueueJob(r) PROVE Goal
  BY <1>3, EnqueuedQueue DEF Goal
<1>4. ASSUME NEW w \in Worker, HeartbeatWorkerNode(w) \/ AgentRestarts(w) PROVE Goal
  BY <1>4, <1>a, RenewedType DEF HeartbeatWorkerNode, AgentRestarts
<1>d. ASSUME NEW q \in [JobId -> JobRecord], NEW j \in JobId, NEW r \in JobRecord, jobs' = [q EXCEPT ![j] = r]
      PROVE  Goal
  BY <1>d, <1>a
<1>5. ASSUME NEW j \in JobId, LeaseExpires(j) \/ BackoffPasses(j) PROVE Goal
  <2> DEFINE r == [jobs[j] EXCEPT !.expired = TRUE]
             t == [jobs[j] EXCEPT !.waiting = FALSE]
  <2>1. r \in JobRecord /\ t \in JobRecord
    BY <1>c DEF JobRecord
  <2>2. jobs' = [jobs EXCEPT ![j] = r] \/ jobs' = [jobs EXCEPT ![j] = t]
    BY <1>5 DEF LeaseExpires, BackoffPasses
  <2> QED
    BY <2>1, <2>2, <1>c, <1>d
<1>6. ASSUME NEW w \in Worker, ResumeJob(w) PROVE Goal
  <2>1. PICK j \in JobId : jobs' = [Requeued EXCEPT ![j].expired = FALSE]
    BY <1>6, <1>c DEF ResumeJob, RunningIn
  <2> DEFINE r == [Requeued[j] EXCEPT !.expired = FALSE]
  <2>2. r \in JobRecord
    BY <1>c DEF JobRecord
  <2>3. jobs' = [Requeued EXCEPT ![j] = r]
    BY <2>1
  <2> QED
    BY <2>2, <2>3, <1>c, <1>d
<1>7. ASSUME NEW w \in Worker, ClaimJob(w) PROVE Goal
  <2>1. PICK j \in JobId : Requeued[j].status = "queued" /\ jobs' = [Requeued EXCEPT ![j] = Claimed(Requeued[j], w)]
    BY <1>7, <1>c DEF ClaimJob, Oldest, ClaimableAt, Claimable
  <2>2. Requeued[j].attempts < MaxAttempts /\ Requeued[j] \in JobRecord
    BY <2>1, <1>c, RequeuedLeft
  <2>3. Claimed(Requeued[j], w) \in JobRecord
    BY <2>2, ClaimedType
  <2> QED
    BY <2>1, <2>3, <1>c, <1>d
<1>8. ASSUME NEW w \in Worker, ClaimNothing(w) PROVE Goal
  BY <1>8, <1>a, <1>c DEF ClaimNothing
<1>9. ASSUME NEW w \in Worker, ReportSuccess(w) \/ ReportFailure(w) PROVE Goal
  <2> DEFINE j == agent[w].job
  <2>1. j \in JobId
    BY <1>9 DEF ReportSuccess, ReportFailure, HoldsLease, RunningOn
  <2>2. \E x \in {Ended(jobs[j], "succeeded"), Retried(jobs[j]), Ended(jobs[j], "failed")} :
          jobs' = [jobs EXCEPT ![j] = x]
    BY <1>9 DEF ReportSuccess, ReportFailure, EndJob
  <2> HIDE DEF j
  <2>3. \A x \in {Ended(jobs[j], "succeeded"), Retried(jobs[j]), Ended(jobs[j], "failed")} : x \in JobRecord
    BY <2>1, <1>c, EndedType DEF JobStatus
  <2> QED
    BY <2>1, <2>2, <2>3, <1>c, <1>d
<1>11. ASSUME NEW s \in Server, ReactivateSubscription(s) PROVE Goal
  BY <1>11, <1>b DEF ReactivateSubscription
<1>12. ASSUME NEW a \in App, NEW act \in CustomerAction, RequestAction(a, act) PROVE Goal
  BY <1>12, <1>b DEF RequestAction
<1>13. ASSUME NEW w \in Worker, NEW m \in {"ready", "draining"}, SetWorkerNodeMode(w, m) PROVE Goal
  BY <1>13, <1>b DEF SetWorkerNodeMode
<1>14. ASSUME NEW w \in Worker,
              HeartbeatsLapse(w) \/ ExecuteSucceeds(w) \/ ExecuteFails(w) \/ AgentDies(w) \/ ReportRefused(w)
       PROVE  Goal
  BY <1>14, <1>b DEF HeartbeatsLapse, ExecuteSucceeds, ExecuteFails, AgentDies, ReportRefused
<1>15. ASSUME UNCHANGED vars PROVE Goal
  BY <1>15, <1>b DEF vars
<1>16. Goal
  BY <1>1, <1>2, <1>3, <1>4, <1>5, <1>6, <1>7, <1>8, <1>9, <1>11, <1>12, <1>13, <1>14, <1>15
     DEF Next, Subscriptions, Customers, Time, Operator, Agent, Claim, Execute, Report
<1> QED
  BY <1>16 DEF Goal

-----------------------------------------------------------------------------
(* Types *)

\* Initially every variable has its type, and the rest of the invariant holds
\* of servers that are planned and workers that are idle.
LEMMA InitInvariant ==
  ASSUME Init
  PROVE  WorkerInvariant
<1>1. jobs = <<>> /\ JobId = {} /\ jobs \in Seq(JobRecord) /\ Len(jobs) = 0
  BY DEF Init, JobId
<1>2. TypeOK
  BY <1>1, WorkerConstantsAreWellTyped DEF WorkerConstantsAreWellTyped, Init, TypeOK
<1>3. JobsArePlaced /\ RevokedWorkStops /\ SuspendedIffRevoked /\ CleanupIsQueued
  BY <1>1 DEF Init, JobsArePlaced, RevokedWorkStops, SuspendedIffRevoked, CleanupIsQueued
<1>4. AgentsHoldTheirJobs /\ SoleLease /\ LiveIsStable
  BY <1>1 DEF Init, AgentsHoldTheirJobs, SoleLease, LiveIsStable, Idle, RunningOn
<1> QED
  BY <1>2, <1>3, <1>4 DEF WorkerInvariant

\* Every step keeps the types, and the identifiers of the jobs.
LEMMA TypeStep ==
  ASSUME TypeOK, JobsArePlaced, [Next]_vars
  PROVE  TypeOK' /\ JobId \subseteq JobId'
<1> DEFINE Held == [phase : {"executing", "succeeded", "failed"}, job : JobId]
           AgentType == {Idle, Down} \cup Held
           Agents == agent' \in [Worker -> AgentType]
           Rest == /\ state' \in [Server -> {"planned", "provisioning", "live", "failed", "suspended"}]
                   /\ entitled' \in [Server -> BOOLEAN]
                   /\ appState' \in [App -> {"queued", "provisioning", "live", "failed", "stopped"}]
                   /\ placed' \in [App -> Worker \cup {NoWorker}]
                   /\ requests' \subseteq [app : App, action : CustomerAction]
                   /\ mode' \in [Worker -> {"ready", "draining"}]
                   /\ fresh' \in [Worker -> BOOLEAN]
                   /\ container' \in [App -> {"absent", "up", "down"}]
                   /\ faults' \in 0 .. MaxFaults
<1>q. jobs' \in Seq(JobRecord) /\ Len(jobs') <= MaxJobs /\ JobId \subseteq JobId'
  BY QueueStep
<1>c. jobs \in [JobId -> JobRecord] /\ Requeued \in [JobId -> JobRecord]
  BY QueueType, RequeuedType
<1>j. \A job \in JobRecord : job.app \in App /\ job.action \in Action
  BY DEF JobRecord
<1>f. ASSUME Fault PROVE faults' \in 0 .. MaxFaults
  BY <1>f, WorkerConstantsAreWellTyped DEF WorkerConstantsAreWellTyped, Fault, TypeOK
<1>h. HostOf \in [App -> Server] /\ PlacementOf \in [App -> Worker]
  BY WorkerConstantsAreWellTyped DEF WorkerConstantsAreWellTyped
<1>1. ASSUME NEW s \in Server, ProcessPaidCheckout(s) PROVE Agents /\ Rest
  BY <1>1, <1>h DEF ProcessPaidCheckout, TypeOK, nodeVars
<1>2. ASSUME NEW s \in Server, ReactivateSubscription(s) PROVE Agents /\ Rest
  <2>1. ReactivatedState(s) \in {"live", "provisioning"}
    BY DEF ReactivatedState
  <2> QED
    BY <1>2, <2>1 DEF ReactivateSubscription, TypeOK, nodeVars, appVars
<1>3. ASSUME NEW s \in Server, RevokeSubscription(s) PROVE Agents /\ Rest
  BY <1>3 DEF RevokeSubscription, TypeOK, nodeVars, appVars
<1>4. ASSUME NEW a \in App, NEW act \in CustomerAction, RequestAction(a, act) PROVE Agents /\ Rest
  BY <1>4 DEF RequestAction, TypeOK, serverVars, appVars, nodeVars
<1>5. ASSUME NEW r \in requests, EnqueueJob(r) PROVE Agents /\ Rest
  BY <1>5 DEF EnqueueJob, TypeOK, serverVars, appVars, nodeVars
<1>6. ASSUME NEW w \in Worker, HeartbeatWorkerNode(w) \/ HeartbeatsLapse(w) PROVE Agents /\ Rest
  BY <1>6, <1>f DEF HeartbeatWorkerNode, HeartbeatsLapse, TypeOK, serverVars, appVars
<1>7. ASSUME NEW j \in JobId, LeaseExpires(j) \/ BackoffPasses(j) PROVE Agents /\ Rest
  BY <1>7 DEF LeaseExpires, BackoffPasses, TypeOK, serverVars, appVars, nodeVars
<1>8. ASSUME NEW w \in Worker, NEW m \in {"ready", "draining"}, SetWorkerNodeMode(w, m) PROVE Agents /\ Rest
  BY <1>8 DEF SetWorkerNodeMode, TypeOK, serverVars, appVars
<1>a. ASSUME NEW w \in Worker, NEW x \in AgentType, agent' = [agent EXCEPT ![w] = x] PROVE Agents
  BY <1>a DEF TypeOK
<1>9. ASSUME NEW w \in Worker, ResumeJob(w) PROVE Agents /\ Rest
  <2>1. PICK j \in JobId : agent' = [agent EXCEPT ![w] = Holding("executing", j)]
    BY <1>9, <1>c DEF ResumeJob, RunningIn
  <2>2. Holding("executing", j) \in AgentType
    BY DEF Holding
  <2> QED
    BY <1>9, <1>a, <2>1, <2>2 DEF ResumeJob, TypeOK, serverVars, appVars, nodeVars
<1>10. ASSUME NEW w \in Worker, ClaimJob(w) PROVE Agents /\ Rest
  <2>1. PICK j \in JobId : /\ agent' = [agent EXCEPT ![w] = Holding("executing", j)]
                           /\ appState' = IF jobs[j].action = "install"
                                          THEN [appState EXCEPT ![jobs[j].app] = "provisioning"] ELSE appState
    BY <1>10, <1>c DEF ClaimJob, Oldest, ClaimableAt, Claimable
  <2>2. Holding("executing", j) \in AgentType
    BY DEF Holding
  <2> QED
    BY <1>10, <1>a, <2>1, <2>2 DEF ClaimJob, TypeOK, serverVars, nodeVars
<1>11. ASSUME NEW w \in Worker, ClaimNothing(w) PROVE Agents /\ Rest
  BY <1>11 DEF ClaimNothing, TypeOK, serverVars, appVars, nodeVars
<1>d. ASSUME NEW a \in App, NEW c \in {"absent", "up", "down"}, container' = [container EXCEPT ![a] = c]
      PROVE  container' \in [App -> {"absent", "up", "down"}]
  BY <1>d DEF TypeOK
<1>e. ASSUME NEW w \in Worker, agent[w].job # 0
      PROVE  /\ agent[w].job \in JobId /\ jobs[agent[w].job].app \in App
             /\ jobs[agent[w].job].action \in Action
             /\ \A p \in {"succeeded", "failed"} :
                  [agent[w] EXCEPT !.phase = p] \in AgentType /\ Holding(p, agent[w].job) \in AgentType
  <2>1. agent[w].job \in JobId /\ agent[w] \in Held
    BY <1>e, HeldType DEF TypeOK, Idle, Down
  <2> QED
    BY <2>1, <1>c, <1>j DEF Holding
<1>g. \A act \in Action, a \in App :
        Interrupted(act, a) \subseteq {"absent", "up", "down"} /\ Completed(act) \subseteq {"absent", "up", "down"}
  BY DEF Interrupted, Completed, TypeOK, Action
<1>12. ASSUME NEW w \in Worker, ExecuteSucceeds(w) PROVE Agents /\ Rest
  <2>1. agent[w].job # 0
    BY <1>12, HeldType DEF ExecuteSucceeds
  <2> DEFINE job == jobs[agent[w].job]
  <2>2. job.app \in App /\ job.action \in Action
    BY <2>1, <1>e
  <2>3. PICK c \in Completed(job.action) : container' = [container EXCEPT ![job.app] = c]
    BY <1>12 DEF ExecuteSucceeds
  <2>4. container' \in [App -> {"absent", "up", "down"}]
    BY <2>2, <2>3, <1>d, <1>g
  <2> QED
    BY <1>12, <1>a, <1>e, <2>1, <2>4 DEF ExecuteSucceeds, TypeOK, serverVars, appVars, nodeVars
<1>13. ASSUME NEW w \in Worker, ExecuteFails(w) PROVE Agents /\ Rest
  <2>1. agent[w].job # 0
    BY <1>13, HeldType DEF ExecuteFails
  <2> DEFINE job == jobs[agent[w].job]
  <2>2. job.app \in App /\ job.action \in Action
    BY <2>1, <1>e
  <2>3. PICK c \in Interrupted(job.action, job.app) : container' = [container EXCEPT ![job.app] = c]
    BY <1>13 DEF ExecuteFails
  <2>4. container' \in [App -> {"absent", "up", "down"}]
    BY <2>2, <2>3, <1>d, <1>g
  <2>5. faults' \in 0 .. MaxFaults
    BY <1>13, <1>f DEF ExecuteFails, TypeOK
  <2>6. Agents
    BY <1>13, <1>a, <1>e, <2>1 DEF ExecuteFails
  <2> QED
    BY <1>13, <2>4, <2>5, <2>6 DEF ExecuteFails, TypeOK, serverVars, appVars, nodeVars
<1>14. ASSUME NEW w \in Worker, AgentDies(w) PROVE Agents /\ Rest
  <2>1. container' \in [App -> {"absent", "up", "down"}]
    <3>1. CASE agent[w].phase = "executing"
      <4>1. agent[w].job # 0
        BY <3>1, HeldType
      <4> DEFINE job == jobs[agent[w].job]
      <4>2. job.app \in App /\ job.action \in Action
        BY <4>1, <1>e
      <4>3. PICK c \in Interrupted(job.action, job.app) : container' = [container EXCEPT ![job.app] = c]
        BY <1>14, <3>1 DEF AgentDies
      <4> QED
        BY <4>2, <4>3, <1>d, <1>g
    <3>2. CASE agent[w].phase # "executing"
      BY <1>14, <3>2 DEF AgentDies, TypeOK
    <3> QED
      BY <3>1, <3>2
  <2>2. faults' \in 0 .. MaxFaults
    BY <1>14, <1>f DEF AgentDies
  <2>3. Agents
    BY <1>14, <1>a DEF AgentDies
  <2> QED
    BY <1>14, <2>1, <2>2, <2>3 DEF AgentDies, TypeOK, serverVars, appVars, nodeVars
<1>15. ASSUME NEW w \in Worker, AgentRestarts(w) PROVE Agents /\ Rest
  BY <1>15, <1>a DEF AgentRestarts, TypeOK, serverVars, appVars
<1>k. ASSUME NEW j \in JobId, NEW st \in {"stopped", "live", "failed"}
      PROVE  Reported(j, st) \in [App -> {"queued", "provisioning", "live", "failed", "stopped"}]
  BY <1>k, <1>c, <1>j DEF Reported, TypeOK
<1>16. ASSUME NEW w \in Worker, ReportSuccess(w) PROVE Agents /\ Rest
  <2> DEFINE j == agent[w].job
  <2>1. j \in JobId /\ j # 0
    BY <1>16, HeldType DEF ReportSuccess, HoldsLease, RunningOn
  <2>2. appState' = Reported(j, ReportedState(jobs[j].action))
    BY <1>16 DEF ReportSuccess, EndJob
  <2>3. ReportedState(jobs[j].action) \in {"stopped", "live"}
    BY DEF ReportedState
  <2>4. appState' \in [App -> {"queued", "provisioning", "live", "failed", "stopped"}]
    BY <2>1, <2>2, <2>3, <1>k
  <2>5. \E x \in {"suspended", "failed", "live", "provisioning"} :
          state' = [state EXCEPT ![HostOf[jobs[j].app]] = x]
    BY <1>16 DEF ReportSuccess, EndJob, AggregateState
  <2>6. state' \in [Server -> {"planned", "provisioning", "live", "failed", "suspended"}]
    BY <2>5 DEF TypeOK
  <2>7. Agents
    BY <1>16, <1>a, <1>e, <2>1 DEF ReportSuccess
  <2>8. faults' \in 0 .. MaxFaults
    BY <1>16, <1>f DEF ReportSuccess, TypeOK
  <2> QED
    BY <1>16, <2>4, <2>6, <2>7, <2>8 DEF ReportSuccess, TypeOK, nodeVars
<1>17. ASSUME NEW w \in Worker, ReportFailure(w) PROVE Agents /\ Rest
  <2> DEFINE j == agent[w].job
  <2>1. j \in JobId /\ j # 0
    BY <1>17, HeldType DEF ReportFailure, HoldsLease, RunningOn
  <2>2. appState' = appState \/ appState' = Reported(j, "failed")
    BY <1>17 DEF ReportFailure, EndJob
  <2>4. appState' \in [App -> {"queued", "provisioning", "live", "failed", "stopped"}]
    BY <2>1, <2>2, <1>k DEF TypeOK
  <2>5. state' = state \/ \E x \in {"suspended", "failed"} : state' = [state EXCEPT ![HostOf[jobs[j].app]] = x]
    BY <1>17 DEF ReportFailure, EndJob, FailureState
  <2>6. state' \in [Server -> {"planned", "provisioning", "live", "failed", "suspended"}]
    BY <2>5 DEF TypeOK
  <2>7. Agents
    BY <1>17, <1>a DEF ReportFailure
  <2>8. faults' \in 0 .. MaxFaults
    BY <1>17, <1>f DEF ReportFailure, TypeOK
  <2> QED
    BY <1>17, <2>4, <2>6, <2>7, <2>8 DEF ReportFailure, TypeOK, nodeVars
<1>18. ASSUME NEW w \in Worker, ReportRefused(w) PROVE Agents /\ Rest
  <2>1. agent[w].job # 0
    BY <1>18, HeldType DEF ReportRefused
  <2>2. Agents
    BY <1>18, <1>a, <1>e, <2>1 DEF ReportRefused
  <2>3. faults' \in 0 .. MaxFaults
    BY <1>18, <1>f DEF ReportRefused, TypeOK
  <2> QED
    BY <1>18, <2>2, <2>3 DEF ReportRefused, TypeOK, serverVars, appVars, nodeVars
<1>19. ASSUME UNCHANGED vars PROVE Agents /\ Rest
  BY <1>19 DEF vars, TypeOK
<1> HIDE DEF Agents, Rest
<1>20. Agents /\ Rest
  BY <1>1, <1>2, <1>3, <1>4, <1>5, <1>6, <1>7, <1>8, <1>9, <1>10, <1>11, <1>12, <1>13, <1>14, <1>15, <1>16,
     <1>17, <1>18, <1>19 DEF Next, Subscriptions, Customers, Time, Operator, Agent, Claim, Execute, Report
<1>21. agent' \in [Worker -> {Idle', Down'} \cup [phase : {"executing", "succeeded", "failed"}, job : JobId']]
  BY <1>20, <1>q DEF Agents, Idle, Down
<1> QED
  BY <1>20, <1>21, <1>q DEF Rest, TypeOK

-----------------------------------------------------------------------------
(* Steps that the invariant hardly sees *)

\* Two jobs that differ in waiting and expired only.
Alike(x, y) ==
  /\ x.app = y.app /\ x.action = y.action /\ x.worker = y.worker
  /\ x.status = y.status /\ x.attempts = y.attempts

\* An agent keeps its job, and does not start or complete it, or drops it.
Withdraws(w) ==
  \/ agent'[w] = agent[w]
  \/ agent'[w].job = 0 /\ agent'[w].phase \in {"idle", "down"}
  \/ agent'[w].job = agent[w].job /\ agent'[w].phase = "failed"

\* Nothing changes but leases, backoffs, heartbeats, requests and agents that
\* give up.
Quiet ==
  /\ UNCHANGED <<state, entitled, appState, placed, container>>
  /\ JobId' = JobId
  /\ \A j \in JobId : Alike(jobs'[j], jobs[j])
  /\ \A w \in Worker : Withdraws(w)

\* A quiet step preserves the invariant.
LEMMA QuietStep ==
  ASSUME WorkerInvariant, TypeOK', Quiet
  PROVE  WorkerInvariant'
<1> USE DEF WorkerInvariant
<1>h. \A w \in Worker : /\ agent[w].job # 0 => agent[w].job \in JobId
                        /\ agent'[w].job # 0 => agent'[w].job = agent[w].job
                        /\ agent'[w].phase = "executing" => agent[w].phase = "executing" /\ agent'[w] = agent[w]
                        /\ agent'[w].phase = "succeeded" => agent[w].phase = "succeeded"
                        /\ agent[w].phase = "executing" => agent[w].job # 0
  BY HeldType DEF Quiet, Withdraws
<1>1. JobsArePlaced'
  BY DEF Quiet, Alike, JobsArePlaced
<1>2. AgentsHoldTheirJobs'
  BY <1>h DEF Quiet, Alike, AgentsHoldTheirJobs
<1>3. RevokedWorkStops'
  BY DEF Quiet, Alike, RevokedWorkStops
<1>4. SoleLease'
  <2>1. \A w \in Worker : RunningOn(w)' = RunningOn(w)
    BY DEF Quiet, Alike, RunningOn
  <2> QED
    BY <1>h, <2>1 DEF SoleLease
<1>5. SuspendedIffRevoked'
  BY DEF Quiet, SuspendedIffRevoked
<1>u. /\ \A j \in JobId : Unfinished(j)' <=> Unfinished(j)
      /\ \A a \in App : BackedUp(a)' <=> BackedUp(a)
  BY DEF Quiet, Alike, Unfinished, BackedUp
<1>6. LiveIsStable'
  BY <1>h, <1>u DEF Quiet, Alike, LiveIsStable
<1>7. CleanupIsQueued'
  BY <1>u DEF Quiet, Alike, CleanupIsQueued
<1> QED
  BY <1>1, <1>2, <1>3, <1>4, <1>5, <1>6, <1>7

\* The quiet steps.
LEMMA QuietSteps ==
  ASSUME WorkerInvariant,
         \/ \E a \in App, act \in CustomerAction : RequestAction(a, act)
         \/ Time \/ Operator
         \/ \E w \in Worker : HeartbeatWorkerNode(w) \/ ReportRefused(w) \/ AgentRestarts(w)
         \/ UNCHANGED vars
  PROVE  Quiet
<1>t. TypeOK /\ jobs \in [JobId -> JobRecord]
  BY QueueType DEF WorkerInvariant
<1>a. ASSUME UNCHANGED jobs PROVE JobId' = JobId /\ \A j \in JobId : Alike(jobs'[j], jobs[j])
  BY <1>a DEF JobId, Alike
<1>b. ASSUME UNCHANGED agent PROVE \A w \in Worker : Withdraws(w)
  BY <1>b DEF Withdraws
<1>1. ASSUME NEW a \in App, NEW act \in CustomerAction, RequestAction(a, act) PROVE Quiet
  BY <1>1, <1>a, <1>b DEF RequestAction, Quiet, serverVars, appVars
<1>2. ASSUME NEW w \in Worker, HeartbeatsLapse(w) PROVE Quiet
  BY <1>2, <1>a, <1>b DEF HeartbeatsLapse, Quiet, serverVars, appVars
<1>3. ASSUME NEW w \in Worker, NEW m \in {"ready", "draining"}, SetWorkerNodeMode(w, m) PROVE Quiet
  BY <1>3, <1>a, <1>b DEF SetWorkerNodeMode, Quiet, serverVars, appVars
<1>c. ASSUME NEW j \in JobId, LeaseExpires(j) \/ BackoffPasses(j)
      PROVE  JobId' = JobId /\ \A i \in JobId : Alike(jobs'[i], jobs[i])
  <2>1. jobs' = [jobs EXCEPT ![j] = [jobs[j] EXCEPT !.expired = TRUE]] \/ jobs' = [jobs EXCEPT ![j] = [jobs[j] EXCEPT !.waiting = FALSE]]
    BY <1>c DEF LeaseExpires, BackoffPasses
  <2>2. Alike([jobs[j] EXCEPT !.expired = TRUE], jobs[j]) /\ Alike([jobs[j] EXCEPT !.waiting = FALSE], jobs[j])
    BY DEF Alike
  <2>3. DOMAIN jobs' = JobId
    BY <1>t, <2>1
  <2>4. \A i \in JobId : i # j => jobs'[i] = jobs[i]
    BY <1>t, <2>1
  <2>5. Alike(jobs'[j], jobs[j])
    BY <1>t, <2>1, <2>2
  <2> QED
    BY <2>3, <2>4, <2>5 DEF JobId, Alike
<1>4. ASSUME NEW j \in JobId, LeaseExpires(j) \/ BackoffPasses(j) PROVE Quiet
  BY <1>4, <1>b, <1>c DEF LeaseExpires, BackoffPasses, Quiet, serverVars, appVars
<1>d. ASSUME NEW w \in Worker, jobs' = Renewed(w)
      PROVE  JobId' = JobId /\ \A j \in JobId : Alike(jobs'[j], jobs[j])
  BY <1>d, <1>t DEF Renewed, JobId, Alike, JobRecord
<1>5. ASSUME NEW w \in Worker, HeartbeatWorkerNode(w) PROVE Quiet
  BY <1>5, <1>b, <1>d DEF HeartbeatWorkerNode, Quiet, serverVars, appVars
<1>6. ASSUME NEW w \in Worker, AgentRestarts(w) PROVE Quiet
  <2>1. \A v \in Worker : Withdraws(v)
    BY <1>6, <1>t DEF AgentRestarts, Withdraws, Idle, TypeOK
  <2> QED
    BY <1>6, <1>d, <2>1 DEF AgentRestarts, Quiet, serverVars, appVars
<1>7. ASSUME NEW w \in Worker, ReportRefused(w) PROVE Quiet
  <2>1. \A v \in Worker : Withdraws(v)
    BY <1>7, <1>t DEF ReportRefused, Withdraws, Holding, Down, TypeOK
  <2> QED
    BY <1>7, <1>a, <2>1 DEF ReportRefused, Quiet, serverVars, appVars
<1>8. ASSUME UNCHANGED vars PROVE Quiet
  BY <1>8, <1>a, <1>b DEF vars, Quiet
<1> QED
  BY <1>1, <1>2, <1>3, <1>4, <1>5, <1>6, <1>7, <1>8 DEF Time, Operator

-----------------------------------------------------------------------------
(* Entitlement and enqueueing *)

\* A step that only queues more jobs and entitles more servers preserves what
\* the invariant says of agents, containers and running jobs.
LEMMA ExtendingStep ==
  ASSUME WorkerInvariant, JobId \subseteq JobId',
         UNCHANGED <<appState, agent, container>>,
         \A s \in Server : entitled[s] => entitled'[s],
         \A j \in JobId : jobs'[j] = jobs[j],
         \A j \in JobId' : j \notin JobId => jobs'[j].status = "queued"
  PROVE  AgentsHoldTheirJobs' /\ RevokedWorkStops' /\ SoleLease' /\ LiveIsStable' /\ CleanupIsQueued'
<1> USE DEF WorkerInvariant
<1>h. \A w \in Worker : /\ agent[w].job # 0 => agent[w].job \in JobId
                        /\ agent[w].phase = "executing" => agent[w].job # 0
  BY HeldType
<1>j. \A j \in JobId : jobs[j].app \in App /\ HostOf[jobs[j].app] \in Server
  BY QueueType, WorkerConstantsAreWellTyped DEF WorkerConstantsAreWellTyped, JobRecord
<1>k. \A a \in App : HostOf[a] \in Server
  BY WorkerConstantsAreWellTyped DEF WorkerConstantsAreWellTyped
<1>1. AgentsHoldTheirJobs'
  BY <1>h DEF AgentsHoldTheirJobs
<1>2. RevokedWorkStops'
  BY <1>j DEF RevokedWorkStops
<1>3. SoleLease'
  <2>1. \A w \in Worker : RunningOn(w)' = RunningOn(w)
    BY DEF RunningOn
  <2> QED
    BY <2>1 DEF SoleLease
<1>u. /\ \A j \in JobId : Unfinished(j)' <=> Unfinished(j)
      /\ \A a \in App : BackedUp(a) => BackedUp(a)'
  BY DEF Unfinished, BackedUp
<1>4. LiveIsStable'
  BY <1>h, <1>u DEF LiveIsStable
<1>5. CleanupIsQueued'
  BY <1>k, <1>u DEF CleanupIsQueued
<1> QED
  BY <1>1, <1>2, <1>3, <1>4, <1>5

\* A paid checkout places the applications and queues their installs.
LEMMA CheckoutStep ==
  ASSUME WorkerInvariant, TypeOK', NEW s \in Server, ProcessPaidCheckout(s)
  PROVE  WorkerInvariant'
<1> USE DEF WorkerInvariant
<1>q. /\ JobId \subseteq JobId' /\ \A j \in JobId : jobs'[j] = jobs[j]
      /\ \A j \in JobId' : j \notin JobId =>
           /\ jobs'[j].app \in AppsOf(s) /\ jobs'[j].status = "queued"
           /\ jobs'[j].attempts = 0 /\ jobs'[j].worker = PlacementOf[jobs'[j].app]
  BY CheckoutQueue
<1>c. /\ HostOf \in [App -> Server] /\ PlacementOf \in [App -> Worker] /\ NoWorker \notin Worker
      /\ 0 < MaxAttempts
  BY WorkerConstantsAreWellTyped DEF WorkerConstantsAreWellTyped
<1>s. /\ state[s] = "planned" /\ state'[s] # "planned" /\ state'[s] # "suspended" /\ entitled'[s]
      /\ \A t \in Server : t # s => state'[t] = state[t] /\ entitled'[t] = entitled[t]
      /\ \A a \in App : placed'[a] = IF HostOf[a] = s THEN PlacementOf[a] ELSE placed[a]
      /\ UNCHANGED <<appState, agent, container>>
  BY DEF ProcessPaidCheckout, TypeOK
<1>1. AgentsHoldTheirJobs' /\ RevokedWorkStops' /\ SoleLease' /\ LiveIsStable' /\ CleanupIsQueued'
  <2>1. \A t \in Server : entitled[t] => entitled'[t]
    BY <1>s
  <2> QED
    BY <1>q, <1>s, <2>1, ExtendingStep
<1>2. JobsArePlaced'
  <2>1. ASSUME NEW a \in App
        PROVE  /\ state'[HostOf[a]] = "planned" => placed'[a] = NoWorker
               /\ appState'[a] \in {"live", "provisioning"} => placed'[a] # NoWorker
    BY <1>c, <1>s, <2>1 DEF JobsArePlaced
  <2>2. ASSUME NEW j \in JobId
        PROVE  /\ jobs'[j].worker \in {NoWorker, placed'[jobs'[j].app]}
               /\ jobs'[j].status = "running" => jobs'[j].worker # NoWorker
               /\ jobs'[j].status = "queued" => jobs'[j].attempts < MaxAttempts
    <3>1. jobs[j].app \in App
      BY QueueType DEF JobRecord
    <3>2. HostOf[jobs[j].app] = s => placed[jobs[j].app] = NoWorker
      BY <1>s, <3>1 DEF JobsArePlaced
    <3> QED
      BY <1>q, <1>s, <2>2, <3>1, <3>2 DEF JobsArePlaced
  <2>3. ASSUME NEW j \in JobId', j \notin JobId
        PROVE  /\ jobs'[j].worker \in {NoWorker, placed'[jobs'[j].app]}
               /\ jobs'[j].status = "running" => jobs'[j].worker # NoWorker
               /\ jobs'[j].status = "queued" => jobs'[j].attempts < MaxAttempts
    BY <1>c, <1>q, <1>s, <2>3 DEF AppsOf
  <2> QED
    BY <2>1, <2>2, <2>3 DEF JobsArePlaced
<1>3. SuspendedIffRevoked'
  BY <1>s DEF SuspendedIffRevoked
<1> QED
  BY <1>1, <1>2, <1>3

\* A reactivation entitles the server and takes it out of suspension.
LEMMA ReactivationStep ==
  ASSUME WorkerInvariant, TypeOK', NEW s \in Server, ReactivateSubscription(s)
  PROVE  WorkerInvariant'
<1> USE DEF WorkerInvariant
<1>s. /\ UNCHANGED <<placed, appState, jobs, agent, container>>
      /\ state[s] # "planned" /\ state'[s] # "planned" /\ state'[s] # "suspended" /\ entitled'[s]
      /\ \A t \in Server : t # s => state'[t] = state[t] /\ entitled'[t] = entitled[t]
  <2>1. ReactivatedState(s) \in {"live", "provisioning"}
    BY DEF ReactivatedState
  <2> QED
    BY <2>1 DEF ReactivateSubscription, TypeOK, appVars
<1>q. JobId' = JobId
  BY <1>s DEF JobId
<1>1. AgentsHoldTheirJobs' /\ RevokedWorkStops' /\ SoleLease' /\ LiveIsStable' /\ CleanupIsQueued'
  BY <1>q, <1>s, ExtendingStep
<1>2. JobsArePlaced'
  BY <1>q, <1>s, WorkerConstantsAreWellTyped DEF JobsArePlaced, WorkerConstantsAreWellTyped
<1>3. SuspendedIffRevoked'
  BY <1>s DEF SuspendedIffRevoked
<1> QED
  BY <1>1, <1>2, <1>3

\* A customer's job changes nothing but the queue.
LEMMA EnqueueStep ==
  ASSUME WorkerInvariant, TypeOK', NEW r \in requests, EnqueueJob(r)
  PROVE  WorkerInvariant'
<1> USE DEF WorkerInvariant
<1>q. /\ JobId \subseteq JobId' /\ \A j \in JobId : jobs'[j] = jobs[j]
      /\ \A j \in JobId' : j \notin JobId => jobs'[j] = NewJob(r.app, r.action)
  BY EnqueuedQueue
<1>n. /\ NewJob(r.app, r.action).status = "queued" /\ NewJob(r.app, r.action).attempts = 0
      /\ NewJob(r.app, r.action).worker = placed[NewJob(r.app, r.action).app]
      /\ 0 < MaxAttempts
  BY WorkerConstantsAreWellTyped DEF NewJob, WorkerConstantsAreWellTyped
<1>s. UNCHANGED <<state, entitled, placed, appState, agent, container>>
  BY DEF EnqueueJob, serverVars, appVars
<1>1. AgentsHoldTheirJobs' /\ RevokedWorkStops' /\ SoleLease' /\ LiveIsStable' /\ CleanupIsQueued'
  BY <1>n, <1>q, <1>s, ExtendingStep
<1>2. JobsArePlaced'
  BY <1>n, <1>q, <1>s DEF JobsArePlaced
<1>3. SuspendedIffRevoked'
  BY <1>s DEF SuspendedIffRevoked
<1> QED
  BY <1>1, <1>2, <1>3

\* A revocation fails the running paid jobs of its server, and leaves a stop job
\* to come for each of its applications that may be running.
LEMMA RevocationStep ==
  ASSUME WorkerInvariant, TypeOK', NEW s \in Server, RevokeSubscription(s)
  PROVE  WorkerInvariant'
<1> USE DEF WorkerInvariant
<1>q. /\ JobId \subseteq JobId' /\ \A j \in JobId : jobs'[j] = WithoutPaidWork(s)[j]
      /\ \A j \in JobId' : j \notin JobId =>
           /\ jobs'[j].status = "queued" /\ jobs'[j].action = "stop"
           /\ jobs'[j].attempts = 0 /\ jobs'[j].worker = placed[jobs'[j].app]
      /\ \A a \in ToStop(s) : \E j \in JobId' :
           jobs'[j].app = a /\ jobs'[j].action = "stop" /\ jobs'[j].status = "queued"
  BY RevocationQueue
<1>j. \A j \in JobId : jobs[j].app \in App /\ HostOf[jobs[j].app] \in Server
  BY QueueType, WorkerConstantsAreWellTyped DEF WorkerConstantsAreWellTyped, JobRecord
<1>k. \A a \in App : HostOf[a] \in Server
  BY WorkerConstantsAreWellTyped DEF WorkerConstantsAreWellTyped
<1>s. /\ UNCHANGED <<placed, appState, agent, container>>
      /\ state[s] # "planned" /\ state'[s] = "suspended" /\ ~entitled'[s]
      /\ \A t \in Server : t # s => state'[t] = state[t] /\ entitled'[t] = entitled[t]
  BY DEF RevokeSubscription, TypeOK, appVars
<1>h. \A w \in Worker : /\ agent[w].job # 0 => agent[w].job \in JobId
                        /\ agent[w].phase = "executing" => agent[w].job # 0
  BY HeldType
\* What becomes of an old job.
<1>w. ASSUME NEW j \in JobId
      PROVE  /\ jobs'[j].app = jobs[j].app /\ jobs'[j].action = jobs[j].action
             /\ jobs'[j].worker = jobs[j].worker /\ jobs'[j].attempts = jobs[j].attempts
             /\ jobs'[j].status = IF /\ HostOf[jobs[j].app] = s /\ jobs[j].status \in {"queued", "running"}
                                     /\ jobs[j].action \in PaidAction
                                  THEN "failed" ELSE jobs[j].status
  <2>1. jobs[j] \in JobRecord
    BY QueueType
  <2>2. jobs'[j] = IF /\ HostOf[jobs[j].app] = s /\ jobs[j].status \in {"queued", "running"}
                      /\ jobs[j].action \in PaidAction
                   THEN [jobs[j] EXCEPT !.status = "failed", !.expired = FALSE] ELSE jobs[j]
    BY <1>q DEF WithoutPaidWork, Unfinished
  <2> QED
    BY <2>1, <2>2 DEF JobRecord
<1>p. "stop" \notin PaidAction
  BY DEF PaidAction
<1>b. \A a \in App : BackedUp(a) => BackedUp(a)'
  BY <1>q, <1>w DEF BackedUp
\* Every application that may be running has a stop job to come.
<1>c. ASSUME NEW a \in App, HostOf[a] = s, appState[a] \in {"live", "provisioning"}
      PROVE  \E j \in JobId' : jobs'[j].app = a /\ jobs'[j].action = "stop" /\ jobs'[j].status \in {"queued", "running"}
  <2>1. placed[a] # NoWorker
    BY <1>c DEF JobsArePlaced
  <2>2. CASE a \in ToStop(s)
    BY <2>2, <1>q
  <2>3. CASE a \notin ToStop(s)
    <3>1. PICK j \in JobId : jobs[j].app = a /\ jobs[j].action = "stop" /\ jobs[j].status \in {"queued", "running"}
      BY <1>c, <2>1, <2>3 DEF ToStop, AppsOf, Unfinished
    <3> QED
      BY <1>p, <1>q, <1>w, <3>1
  <2> QED
    BY <2>2, <2>3
<1>1. JobsArePlaced'
  <2>1. ASSUME NEW a \in App
        PROVE  /\ state'[HostOf[a]] = "planned" => placed'[a] = NoWorker
               /\ appState'[a] \in {"live", "provisioning"} => placed'[a] # NoWorker
    BY <1>k, <1>s, <2>1 DEF JobsArePlaced
  <2>2. ASSUME NEW j \in JobId
        PROVE  /\ jobs'[j].worker \in {NoWorker, placed'[jobs'[j].app]}
               /\ jobs'[j].status = "running" => jobs'[j].worker # NoWorker
               /\ jobs'[j].status = "queued" => jobs'[j].attempts < MaxAttempts
    BY <1>s, <1>w, <2>2 DEF JobsArePlaced
  <2>3. 0 < MaxAttempts
    BY WorkerConstantsAreWellTyped DEF WorkerConstantsAreWellTyped
  <2> QED
    BY <1>q, <1>s, <2>1, <2>2, <2>3 DEF JobsArePlaced
<1>2. AgentsHoldTheirJobs'
  BY <1>h, <1>s, <1>w DEF AgentsHoldTheirJobs
<1>3. RevokedWorkStops'
  <2>1. ASSUME NEW j \in JobId, jobs'[j].status = "running", jobs'[j].action \in PaidAction
        PROVE  entitled'[HostOf[jobs'[j].app]]
    BY <1>j, <1>s, <1>w, <2>1 DEF RevokedWorkStops
  <2> QED
    BY <1>p, <1>q, <2>1 DEF RevokedWorkStops
<1>4. SoleLease'
  <2>1. \A w \in Worker : RunningOn(w)' \subseteq RunningOn(w)
    BY <1>q, <1>w DEF RunningOn
  <2> QED
    BY <1>s, <2>1 DEF SoleLease
<1>5. SuspendedIffRevoked'
  BY <1>s DEF SuspendedIffRevoked
\* The jobs of other servers, and of stop, are as before.
<1>o. ASSUME NEW a \in App, HostOf[a] # s, NEW j \in JobId, jobs[j].app = a
      PROVE  jobs'[j].app = a /\ jobs'[j].action = jobs[j].action /\ jobs'[j].status = jobs[j].status
  BY <1>o, <1>w
<1>6. LiveIsStable'
  <2> SUFFICES ASSUME NEW a \in App, appState'[a] = "live",
                      \/ container'[a] # "up"
                      \/ \E w \in Worker : agent'[w].phase = "executing" /\ jobs'[agent'[w].job].app = a
               PROVE  BackedUp(a)' \/ \E j \in JobId' : jobs'[j].app = a /\ jobs'[j].status \in {"queued", "running"}
    BY DEF LiveIsStable, Unfinished
  <2>1. CASE HostOf[a] = s
    BY <1>c, <1>s, <2>1
  <2>2. CASE HostOf[a] # s
    <3>1. BackedUp(a) \/ \E j \in JobId : jobs[j].app = a /\ jobs[j].status \in {"queued", "running"}
      BY <1>h, <1>s, <1>w DEF LiveIsStable, Unfinished
    <3> QED
      BY <1>b, <1>o, <1>q, <2>2, <3>1
  <2> QED
    BY <2>1, <2>2
<1>7. CleanupIsQueued'
  <2> SUFFICES ASSUME NEW a \in App, appState'[a] \in {"live", "provisioning"}, ~entitled'[HostOf[a]]
               PROVE  BackedUp(a)' \/ \E j \in JobId' :
                        jobs'[j].app = a /\ jobs'[j].action = "stop" /\ jobs'[j].status \in {"queued", "running"}
    BY DEF CleanupIsQueued, Unfinished
  <2>1. CASE HostOf[a] = s
    BY <1>c, <1>s, <2>1
  <2>2. CASE HostOf[a] # s
    <3>1. BackedUp(a) \/ \E j \in JobId :
            jobs[j].app = a /\ jobs[j].action = "stop" /\ jobs[j].status \in {"queued", "running"}
      BY <1>k, <1>s, <2>2 DEF CleanupIsQueued, Unfinished
    <3> QED
      BY <1>b, <1>o, <1>q, <2>2, <3>1
  <2> QED
    BY <2>1, <2>2
<1> QED
  BY <1>1, <1>2, <1>3, <1>4, <1>5, <1>6, <1>7

-----------------------------------------------------------------------------
(* Claims *)

\* What an old job becomes when a node claims job j, or resumes it: expired
\* jobs are queued again, and j, if there is one, is running on the node.
ClaimedBy(w, j) ==
  /\ JobId' = JobId
  /\ \A i \in JobId :
       /\ jobs'[i].app = jobs[i].app /\ jobs'[i].action = jobs[i].action
       /\ i # j => /\ jobs'[i].worker = jobs[i].worker /\ jobs'[i].attempts = jobs[i].attempts
                   /\ \/ jobs'[i].status = jobs[i].status
                      \/ jobs[i].status = "running" /\ jobs'[i].status = "queued" /\ jobs[i].attempts < MaxAttempts
       /\ i = j => /\ jobs'[i].worker = w /\ jobs'[i].status = "running"
                   /\ jobs[i].status \in {"queued", "running"}
                   /\ jobs[i].worker = w \/ (jobs[i].worker = NoWorker /\ placed[jobs[i].app] = w)
                   /\ jobs[i].action \in PaidAction => entitled[HostOf[jobs[i].app]]

\* A claim, whatever it hands out, preserves the invariant.
LEMMA ClaimStep ==
  ASSUME WorkerInvariant, TypeOK', NEW w \in Worker, NEW j \in JobId \cup {0}, ClaimedBy(w, j),
         UNCHANGED <<state, entitled, placed, container>>,
         j = 0 => UNCHANGED agent,
         j # 0 => /\ agent[w] = Idle /\ agent' = [agent EXCEPT ![w] = Holding("executing", j)]
                  /\ \A i \in JobId : i # j => ~(jobs'[i].status = "running" /\ jobs'[i].worker = w),
         \/ appState' = appState
         \/ /\ j # 0 /\ jobs[j].action = "install"
            /\ appState' = [appState EXCEPT ![jobs[j].app] = "provisioning"]
  PROVE  WorkerInvariant'
<1> USE DEF WorkerInvariant
<1>j. \A i \in JobId : i # 0 /\ jobs[i].app \in App /\ HostOf[jobs[i].app] \in Server
  BY QueueType, WorkerConstantsAreWellTyped DEF WorkerConstantsAreWellTyped, JobRecord
<1>k. NoWorker \notin Worker /\ \A a \in App : HostOf[a] \in Server
  BY WorkerConstantsAreWellTyped DEF WorkerConstantsAreWellTyped
<1>h. \A v \in Worker : /\ agent[v].job # 0 => agent[v].job \in JobId
                        /\ agent[v].phase = "executing" => agent[v].job # 0
  BY HeldType
<1>p. j # 0 => /\ placed[jobs[j].app] = w /\ jobs'[j].worker = w /\ jobs'[j].status = "running"
               /\ jobs[j].status \in {"queued", "running"}
  BY <1>k DEF ClaimedBy, JobsArePlaced
<1>g. /\ \A v \in Worker : agent'[v] = agent[v] \/ (v = w /\ j # 0 /\ agent'[v].job = j /\ agent'[v].phase = "executing")
      /\ j # 0 => agent'[w].job = j /\ agent'[w].phase = "executing"
  BY DEF TypeOK, Holding
<1>i. j # 0 => agent[w].job = 0
  BY DEF Idle
<1>s. /\ \A a \in App : \/ appState'[a] = appState[a]
                        \/ j # 0 /\ jobs[j].app = a /\ jobs[j].action = "install" /\ appState'[a] = "provisioning"
  BY <1>j DEF TypeOK
<1>u. /\ \A i \in JobId : Unfinished(i)' <=> Unfinished(i)
      /\ \A a \in App : BackedUp(a) => BackedUp(a)'
  <2>1. \A i \in JobId : Unfinished(i)' <=> Unfinished(i)
    BY DEF ClaimedBy, Unfinished
  <2>2. \A i \in JobId : jobs[i].status = "succeeded" =>
          jobs'[i].status = "succeeded" /\ jobs'[i].app = jobs[i].app /\ jobs'[i].action = jobs[i].action
    BY DEF ClaimedBy
  <2> QED
    BY <2>1, <2>2 DEF ClaimedBy, BackedUp
<1>1. JobsArePlaced'
  <2>1. ASSUME NEW a \in App
        PROVE  /\ state'[HostOf[a]] = "planned" => placed'[a] = NoWorker
               /\ appState'[a] \in {"live", "provisioning"} => placed'[a] # NoWorker
    BY <1>k, <1>p, <1>s, <2>1 DEF JobsArePlaced
  <2>2. ASSUME NEW i \in JobId
        PROVE  /\ jobs'[i].worker \in {NoWorker, placed'[jobs'[i].app]}
               /\ jobs'[i].status = "running" => jobs'[i].worker # NoWorker
               /\ jobs'[i].status = "queued" => jobs'[i].attempts < MaxAttempts
    <3>1. CASE i = j
      BY <1>j, <1>k, <1>p, <2>2, <3>1 DEF ClaimedBy
    <3>2. CASE i # j
      <4>1. /\ jobs[i].worker \in {NoWorker, placed[jobs[i].app]}
            /\ jobs[i].status = "running" => jobs[i].worker # NoWorker
            /\ jobs[i].status = "queued" => jobs[i].attempts < MaxAttempts
        BY DEF JobsArePlaced
      <4>2. /\ jobs'[i].app = jobs[i].app /\ jobs'[i].worker = jobs[i].worker /\ jobs'[i].attempts = jobs[i].attempts
            /\ \/ jobs'[i].status = jobs[i].status
               \/ jobs[i].status = "running" /\ jobs'[i].status = "queued" /\ jobs[i].attempts < MaxAttempts
        BY <3>2 DEF ClaimedBy
      <4> QED
        BY <4>1, <4>2
    <3> QED
      BY <3>1, <3>2
  <2> QED
    BY <2>1, <2>2 DEF ClaimedBy, JobsArePlaced
<1>2. AgentsHoldTheirJobs'
  <2> SUFFICES ASSUME NEW v \in Worker, agent'[v].job # 0
               PROVE  /\ jobs'[agent'[v].job].worker = v
                      /\ agent'[v].phase = "succeeded" =>
                           container'[jobs'[agent'[v].job].app] \in Completed(jobs'[agent'[v].job].action)
    BY DEF AgentsHoldTheirJobs
  <2>1. CASE v = w /\ j # 0
    BY <1>g, <1>p, <2>1
  <2>2. CASE ~(v = w /\ j # 0)
    <3>1. agent'[v] = agent[v] /\ agent[v].job \in JobId
      BY <1>g, <1>h, <2>2
    <3>2. /\ jobs[agent[v].job].worker = v
          /\ agent[v].phase = "succeeded" =>
               container[jobs[agent[v].job].app] \in Completed(jobs[agent[v].job].action)
      BY <3>1 DEF AgentsHoldTheirJobs
    <3>3. agent[v].job # j
      <4>1. ASSUME agent[v].job = j PROVE FALSE
        <5>1. j \in JobId /\ jobs[j].worker = v /\ v # w
          BY <2>2, <3>1, <3>2, <4>1, <1>j
        <5>2. jobs[j].worker \in {w, NoWorker}
          BY <5>1 DEF ClaimedBy
        <5> QED
          BY <5>1, <5>2, <1>k
      <4> QED
        BY <4>1
    <3>4. /\ jobs'[agent[v].job].worker = jobs[agent[v].job].worker
          /\ jobs'[agent[v].job].app = jobs[agent[v].job].app
          /\ jobs'[agent[v].job].action = jobs[agent[v].job].action
      BY <3>1, <3>3 DEF ClaimedBy
    <3> QED
      BY <3>1, <3>2, <3>4
  <2> QED
    BY <2>1, <2>2
<1>3. RevokedWorkStops'
  <2>1. ASSUME NEW i \in JobId, jobs'[i].status = "running", jobs'[i].action \in PaidAction
        PROVE  entitled'[HostOf[jobs'[i].app]]
    BY <2>1 DEF ClaimedBy, RevokedWorkStops
  <2> QED
    BY <2>1 DEF ClaimedBy, RevokedWorkStops
<1>4. SoleLease'
  <2>1. ASSUME NEW v \in Worker, v # w \/ j = 0
        PROVE  RunningOn(v)' \subseteq RunningOn(v)
    <3>1. ASSUME NEW i \in JobId, jobs'[i].status = "running", jobs'[i].worker = v
          PROVE  jobs[i].status = "running" /\ jobs[i].worker = v
      <4>1. i # j
        BY <1>j, <1>p, <2>1, <3>1
      <4> QED
        BY <3>1, <4>1 DEF ClaimedBy
    <3> QED
      BY <3>1 DEF ClaimedBy, RunningOn
  <2>2. j # 0 => RunningOn(w)' \subseteq {j}
    BY DEF ClaimedBy, RunningOn
  <2>3. ASSUME NEW v \in Worker
        PROVE  /\ \A i, k \in RunningOn(v)' : i = k
               /\ agent'[v].job # 0 => \A k \in RunningOn(v)' : agent'[v].job = k
    <3>1. CASE v # w \/ j = 0
      <4>1. agent'[v] = agent[v]
        BY <1>g, <3>1
      <4> QED
        BY <2>1, <3>1, <4>1 DEF SoleLease
    <3>2. CASE v = w /\ j # 0
      BY <1>g, <2>2, <3>2
    <3> QED
      BY <3>1, <3>2
  <2> QED
    BY <2>3 DEF SoleLease
<1>5. SuspendedIffRevoked'
  BY DEF SuspendedIffRevoked
<1>6. LiveIsStable'
  <2> SUFFICES ASSUME NEW a \in App, appState'[a] = "live",
                      \/ container'[a] # "up"
                      \/ \E v \in Worker : agent'[v].phase = "executing" /\ jobs'[agent'[v].job].app = a
               PROVE  BackedUp(a)' \/ \E i \in JobId' : jobs'[i].app = a /\ Unfinished(i)'
    BY DEF LiveIsStable
  <2>1. appState[a] = "live"
    BY <1>s
  <2>2. CASE j # 0 /\ jobs[j].app = a
    <3>1. j \in JobId /\ Unfinished(j)
      BY <1>p, <2>2 DEF Unfinished
    <3> QED
      BY <1>u, <2>2, <3>1 DEF ClaimedBy
  <2>3. CASE ~(j # 0 /\ jobs[j].app = a)
    <3>1. \/ container[a] # "up"
          \/ \E v \in Worker : agent[v].phase = "executing" /\ jobs[agent[v].job].app = a
      <4>1. ASSUME NEW v \in Worker, agent'[v].phase = "executing", jobs'[agent'[v].job].app = a
            PROVE  agent[v].phase = "executing" /\ jobs[agent[v].job].app = a
        <5>1. CASE agent'[v] = agent[v]
          BY <1>h, <4>1, <5>1 DEF ClaimedBy
        <5>2. CASE j # 0 /\ agent'[v].job = j
          BY <2>3, <4>1, <5>2 DEF ClaimedBy
        <5> QED
          BY <1>g, <5>1, <5>2
      <4> QED
        BY <4>1
    <3>2. BackedUp(a) \/ \E i \in JobId : jobs[i].app = a /\ Unfinished(i)
      BY <2>1, <3>1 DEF LiveIsStable
    <3> QED
      BY <1>u, <3>2 DEF ClaimedBy
  <2> QED
    BY <2>2, <2>3
<1>7. CleanupIsQueued'
  <2> SUFFICES ASSUME NEW a \in App, appState'[a] \in {"live", "provisioning"}, ~entitled[HostOf[a]]
               PROVE  BackedUp(a)' \/ \E i \in JobId' :
                        jobs'[i].app = a /\ jobs'[i].action = "stop" /\ Unfinished(i)'
    BY DEF CleanupIsQueued
  <2>1. appState'[a] = appState[a]
    <3>1. ASSUME j # 0, jobs[j].app = a, jobs[j].action = "install" PROVE FALSE
      BY <3>1 DEF ClaimedBy, PaidAction
    <3> QED
      BY <1>s, <3>1
  <2>2. BackedUp(a) \/ \E i \in JobId : jobs[i].app = a /\ jobs[i].action = "stop" /\ Unfinished(i)
    BY <2>1 DEF CleanupIsQueued
  <2> QED
    BY <1>u, <2>2 DEF ClaimedBy
<1> QED
  BY <1>1, <1>2, <1>3, <1>4, <1>5, <1>6, <1>7

\* The three outcomes of a claim hand out a job, or none.
LEMMA ClaimSteps ==
  ASSUME WorkerInvariant, TypeOK', NEW w \in Worker, Claim(w)
  PROVE  WorkerInvariant'
<1> USE DEF WorkerInvariant
<1>c. jobs \in [JobId -> JobRecord] /\ Requeued \in [JobId -> JobRecord] /\ JobId \subseteq Nat \ {0}
  BY QueueType, RequeuedType
<1>j. \A i \in JobId : i # 0
  BY <1>c
<1>1. ASSUME ResumeJob(w) PROVE WorkerInvariant'
  <2>1. PICK j \in JobId : /\ Requeued[j].status = "running" /\ Requeued[j].worker = w
                           /\ jobs' = [Requeued EXCEPT ![j].expired = FALSE]
                           /\ agent' = [agent EXCEPT ![w] = Holding("executing", j)]
    BY <1>1, <1>c DEF ResumeJob, RunningIn
  <2> DEFINE r == [Requeued[j] EXCEPT !.expired = FALSE]
  <2>2. /\ r.app = Requeued[j].app /\ r.action = Requeued[j].action /\ r.worker = w /\ r.status = "running"
    BY <1>c, <2>1 DEF JobRecord
  <2>3. DOMAIN jobs' = JobId /\ jobs'[j] = r /\ \A i \in JobId : i # j => jobs'[i] = Requeued[i]
    BY <1>c, <2>1
  <2> HIDE DEF r
  <2>4. jobs[j].status = "running" /\ jobs[j].worker = w
    BY <2>1, RequeuedJobs
  <2>5. ClaimedBy(w, j)
    <3>1. jobs[j].action \in PaidAction => entitled[HostOf[jobs[j].app]]
      BY <2>4 DEF RevokedWorkStops
    <3>2. ASSUME NEW i \in JobId
          PROVE  /\ jobs'[i].app = jobs[i].app /\ jobs'[i].action = jobs[i].action
                 /\ i # j => /\ jobs'[i].worker = jobs[i].worker /\ jobs'[i].attempts = jobs[i].attempts
                             /\ \/ jobs'[i].status = jobs[i].status
                                \/ jobs[i].status = "running" /\ jobs'[i].status = "queued" /\ jobs[i].attempts < MaxAttempts
                 /\ i = j => jobs'[i].worker = w /\ jobs'[i].status = "running"
      BY <2>2, <2>3, RequeuedJobs
    <3>3. JobId' = JobId
      BY <2>3 DEF JobId
    <3> QED
      BY <2>4, <3>1, <3>2, <3>3 DEF ClaimedBy
  <2>6. \A i \in JobId : i # j => ~(jobs'[i].status = "running" /\ jobs'[i].worker = w)
    <3>1. ASSUME NEW i \in JobId, i # j, jobs'[i].status = "running", jobs'[i].worker = w PROVE FALSE
      <4>1. i \in RunningOn(w) /\ j \in RunningOn(w)
        BY <2>3, <2>4, <3>1, RequeuedJobs DEF RunningOn
      <4> QED
        BY <3>1, <4>1 DEF SoleLease
    <3> QED
      BY <3>1
  <2>7. UNCHANGED <<state, entitled, placed, container, appState>> /\ agent[w] = Idle
    BY <1>1 DEF ResumeJob, serverVars, appVars
  <2> QED
    BY <1>j, <2>1, <2>5, <2>6, <2>7, ClaimStep
<1>2. ASSUME ClaimJob(w) PROVE WorkerInvariant'
  <2>1. PICK j \in JobId : /\ Claimable(Requeued, j)
                           /\ \/ Requeued[j].worker = w
                              \/ Requeued[j].worker = NoWorker /\ placed[Requeued[j].app] = w
                           /\ jobs' = [Requeued EXCEPT ![j] = Claimed(Requeued[j], w)]
                           /\ agent' = [agent EXCEPT ![w] = Holding("executing", j)]
                           /\ appState' = IF jobs[j].action = "install"
                                          THEN [appState EXCEPT ![jobs[j].app] = "provisioning"] ELSE appState
    BY <1>2, <1>c DEF ClaimJob, Oldest, ClaimableAt
  <2> DEFINE r == Claimed(Requeued[j], w)
  <2>2. r.app = Requeued[j].app /\ r.action = Requeued[j].action /\ r.worker = w /\ r.status = "running"
    <3>1. Requeued[j].status = "queued"
      BY <2>1 DEF Claimable
    <3>2. Requeued[j].attempts < MaxAttempts
      BY <3>1, RequeuedLeft
    <3> QED
      BY <1>c, <3>2, ClaimedType
  <2>3. DOMAIN jobs' = JobId /\ jobs'[j] = r /\ \A i \in JobId : i # j => jobs'[i] = Requeued[i]
    BY <1>c, <2>1
  <2> HIDE DEF r
  <2>4. /\ jobs[j].status \in {"queued", "running"}
        /\ jobs[j].worker = w \/ (jobs[j].worker = NoWorker /\ placed[jobs[j].app] = w)
        /\ jobs[j].action \in PaidAction => entitled[HostOf[jobs[j].app]]
    BY <2>1, RequeuedJobs DEF Claimable
  <2>5. ClaimedBy(w, j)
    <3>2. ASSUME NEW i \in JobId
          PROVE  /\ jobs'[i].app = jobs[i].app /\ jobs'[i].action = jobs[i].action
                 /\ i # j => /\ jobs'[i].worker = jobs[i].worker /\ jobs'[i].attempts = jobs[i].attempts
                             /\ \/ jobs'[i].status = jobs[i].status
                                \/ jobs[i].status = "running" /\ jobs'[i].status = "queued" /\ jobs[i].attempts < MaxAttempts
                 /\ i = j => jobs'[i].worker = w /\ jobs'[i].status = "running"
      BY <2>2, <2>3, RequeuedJobs
    <3>3. JobId' = JobId
      BY <2>3 DEF JobId
    <3> QED
      BY <2>4, <3>2, <3>3 DEF ClaimedBy
  <2>6. \A i \in JobId : i # j => ~(jobs'[i].status = "running" /\ jobs'[i].worker = w)
    BY <1>2, <1>c, <2>3 DEF ClaimJob, RunningIn
  <2>7. UNCHANGED <<state, entitled, placed, container>> /\ agent[w] = Idle
    BY <1>2 DEF ClaimJob, serverVars
  <2> QED
    BY <1>j, <2>1, <2>5, <2>6, <2>7, ClaimStep
<1>3. ASSUME ClaimNothing(w) PROVE WorkerInvariant'
  <2>1. DOMAIN jobs' = JobId /\ \A i \in JobId : jobs'[i] = Requeued[i]
    BY <1>3, <1>c DEF ClaimNothing
  <2>2. JobId' = JobId
    BY <2>1 DEF JobId
  <2>3. ClaimedBy(w, 0)
    BY <1>j, <2>1, <2>2, RequeuedJobs DEF ClaimedBy
  <2>4. UNCHANGED <<state, entitled, placed, container, appState, agent>>
    BY <1>3 DEF ClaimNothing, serverVars, appVars
  <2> QED
    BY <2>3, <2>4, ClaimStep
<1> QED
  BY <1>1, <1>2, <1>3 DEF Claim

-----------------------------------------------------------------------------
(* Execution and reports *)

\* What an agent does to the containers of the application of its job, finishing
\* the job or dying, preserves the invariant.
LEMMA ContainerStep ==
  ASSUME WorkerInvariant, TypeOK', NEW w \in Worker,
         UNCHANGED <<state, entitled, placed, appState, jobs>>,
         agent[w].phase = "executing",
         NEW c, container' = [container EXCEPT ![jobs[agent[w].job].app] = c],
         \A v \in Worker : v # w => agent'[v] = agent[v],
         \/ agent'[w].job = 0 /\ agent'[w].phase = "down"
         \/ /\ agent'[w].job = agent[w].job /\ agent'[w].phase \in {"succeeded", "failed"}
            /\ agent'[w].phase = "succeeded" => c \in Completed(jobs[agent[w].job].action)
  PROVE  WorkerInvariant'
<1> USE DEF WorkerInvariant
<1> DEFINE a == jobs[agent[w].job].app
<1>q. JobId' = JobId
  BY DEF JobId
<1>h. \A v \in Worker : /\ agent[v].job # 0 => agent[v].job \in JobId
                        /\ agent[v].phase = "executing" => agent[v].job # 0
  BY HeldType
<1>p. \A j \in JobId : jobs[j].worker \in {NoWorker, placed[jobs[j].app]} /\ jobs[j].app \in App
  BY QueueType DEF JobsArePlaced, JobRecord
<1>k. NoWorker \notin Worker
  BY WorkerConstantsAreWellTyped DEF WorkerConstantsAreWellTyped
<1>c. container'[a] = c /\ \A b \in App : b # a => container'[b] = container[b]
  BY <1>h, <1>p DEF TypeOK
<1>1. JobsArePlaced'
  BY <1>q DEF JobsArePlaced
<1>2. AgentsHoldTheirJobs'
  <2> SUFFICES ASSUME NEW v \in Worker, agent'[v].job # 0
               PROVE  /\ jobs[agent'[v].job].worker = v
                      /\ agent'[v].phase = "succeeded" =>
                           container'[jobs[agent'[v].job].app] \in Completed(jobs[agent'[v].job].action)
    BY DEF AgentsHoldTheirJobs
  <2>1. CASE v = w
    BY <1>c, <1>h, <2>1 DEF AgentsHoldTheirJobs
  <2>2. CASE v # w
    <3>1. /\ agent'[v] = agent[v] /\ agent[v].job \in JobId /\ jobs[agent[v].job].worker = v
          /\ agent[w].job \in JobId /\ jobs[agent[w].job].worker = w
      BY <1>h, <2>2 DEF AgentsHoldTheirJobs
    <3>2. jobs[agent[v].job].app # a
      BY <1>k, <1>p, <2>2, <3>1
    <3> QED
      BY <1>c, <1>p, <3>1, <3>2 DEF AgentsHoldTheirJobs
  <2> QED
    BY <2>1, <2>2
<1>3. RevokedWorkStops'
  BY <1>q DEF RevokedWorkStops
<1>4. SoleLease'
  <2>1. \A v \in Worker : RunningOn(v)' = RunningOn(v)
    BY <1>q DEF RunningOn
  <2>2. \A v \in Worker : agent'[v].job # 0 => agent'[v].job = agent[v].job
    OBVIOUS
  <2> QED
    BY <2>1, <2>2 DEF SoleLease
<1>5. SuspendedIffRevoked'
  BY DEF SuspendedIffRevoked
<1>u. (\A j \in JobId : Unfinished(j)' <=> Unfinished(j)) /\ \A b \in App : BackedUp(b)' <=> BackedUp(b)
  BY <1>q DEF Unfinished, BackedUp
<1>6. LiveIsStable'
  <2> SUFFICES ASSUME NEW b \in App, appState[b] = "live",
                      \/ container'[b] # "up"
                      \/ \E v \in Worker : agent'[v].phase = "executing" /\ jobs[agent'[v].job].app = b
               PROVE  BackedUp(b) \/ \E i \in JobId : jobs[i].app = b /\ Unfinished(i)
    BY <1>q, <1>u DEF LiveIsStable
  <2>1. \/ container[b] # "up"
        \/ \E v \in Worker : agent[v].phase = "executing" /\ jobs[agent[v].job].app = b
    BY <1>c
  <2> QED
    BY <2>1 DEF LiveIsStable
<1>7. CleanupIsQueued'
  BY <1>q, <1>u DEF CleanupIsQueued
<1> QED
  BY <1>1, <1>2, <1>3, <1>4, <1>5, <1>6, <1>7

\* The steps of an agent that executes a job, and its death in any phase.
LEMMA ExecutionSteps ==
  ASSUME WorkerInvariant, TypeOK', NEW w \in Worker, Execute(w) \/ AgentDies(w)
  PROVE  WorkerInvariant'
<1> USE DEF WorkerInvariant
<1>a. agent \in [Worker -> {Idle, Down} \cup [phase : {"executing", "succeeded", "failed"}, job : JobId]]
  BY DEF TypeOK
<1>1. ASSUME ExecuteSucceeds(w) PROVE WorkerInvariant'
  <2>1. PICK c \in Completed(jobs[agent[w].job].action) : container' = [container EXCEPT ![jobs[agent[w].job].app] = c]
    BY <1>1 DEF ExecuteSucceeds
  <2>2. /\ UNCHANGED <<state, entitled, placed, appState, jobs>> /\ agent[w].phase = "executing"
        /\ agent' = [agent EXCEPT ![w].phase = "succeeded"]
    BY <1>1 DEF ExecuteSucceeds, serverVars, appVars
  <2>3. agent'[w].job = agent[w].job /\ agent'[w].phase = "succeeded" /\ \A v \in Worker : v # w => agent'[v] = agent[v]
    BY <1>a, <2>2 DEF Idle, Down
  <2> QED
    BY <2>1, <2>2, <2>3, ContainerStep
<1>2. ASSUME ExecuteFails(w) PROVE WorkerInvariant'
  <2>1. PICK c : container' = [container EXCEPT ![jobs[agent[w].job].app] = c]
    BY <1>2 DEF ExecuteFails
  <2>2. /\ UNCHANGED <<state, entitled, placed, appState, jobs>> /\ agent[w].phase = "executing"
        /\ agent' = [agent EXCEPT ![w].phase = "failed"]
    BY <1>2 DEF ExecuteFails, serverVars, appVars
  <2>3. agent'[w].job = agent[w].job /\ agent'[w].phase = "failed" /\ \A v \in Worker : v # w => agent'[v] = agent[v]
    BY <1>a, <2>2 DEF Idle, Down
  <2> QED
    BY <2>1, <2>2, <2>3, ContainerStep
<1>3. ASSUME AgentDies(w) PROVE WorkerInvariant'
  <2>1. /\ UNCHANGED <<state, entitled, placed, appState, jobs>> /\ agent' = [agent EXCEPT ![w] = Down]
    BY <1>3 DEF AgentDies, serverVars, appVars
  <2>2. agent'[w].job = 0 /\ agent'[w].phase = "down" /\ \A v \in Worker : v # w => agent'[v] = agent[v]
    BY <1>a, <2>1 DEF Down
  <2>3. CASE agent[w].phase = "executing"
    <3>1. PICK c : container' = [container EXCEPT ![jobs[agent[w].job].app] = c]
      BY <1>3, <2>3 DEF AgentDies
    <3> QED
      BY <2>1, <2>2, <2>3, <3>1, ContainerStep
  <2>4. CASE agent[w].phase # "executing"
    <3>1. container' = container
      BY <1>3, <2>4 DEF AgentDies
    <3>2. Quiet
      BY <2>1, <2>2, <3>1 DEF Quiet, Withdraws, Alike, JobId
    <3> QED
      BY <3>2, QuietStep
  <2> QED
    BY <2>3, <2>4
<1> QED
  BY <1>1, <1>2, <1>3 DEF Execute

\* What a report that counts makes of job j: the job ends or is queued again, its
\* application and its server get the states that go with it, and the agent of
\* the node gives the job up.
ReportedBy(w, j) ==
  LET a == jobs[j].app
      host == HostOf[a]
  IN
  /\ UNCHANGED <<entitled, placed, container>>
  /\ JobId' = JobId
  /\ \A i \in JobId : i # j => jobs'[i] = jobs[i]
  /\ jobs'[j].app = a /\ jobs'[j].action = jobs[j].action /\ jobs'[j].worker = w
  /\ \A v \in Worker : v # w => agent'[v] = agent[v]
  /\ \/ agent'[w].job = 0 /\ agent'[w].phase \in {"idle", "down"}
     \/ agent'[w].job = j /\ agent'[w].phase = "failed"
  /\ \A s \in Server : s # host => state'[s] = state[s]
  /\ \/ state'[host] = state[host]
     \/ state'[host] # "planned" /\ (state'[host] = "suspended" <=> ~entitled[host])
  /\ \A b \in App : b # a => appState'[b] = appState[b]
  /\ \/ jobs'[j].status = "queued" /\ jobs'[j].attempts < MaxAttempts /\ appState'[a] = appState[a]
     \/ jobs'[j].status = "failed" /\ appState'[a] = "failed"
     \/ /\ jobs'[j].status = "succeeded" /\ agent[w].phase = "succeeded"
        /\ appState'[a] = ReportedState(jobs[j].action)

\* A report of the job its node runs preserves the invariant.
LEMMA ReportStep ==
  ASSUME WorkerInvariant, TypeOK', NEW w \in Worker, NEW j \in JobId,
         agent[w].job = j, jobs[j].status = "running", jobs[j].worker = w, ReportedBy(w, j)
  PROVE  WorkerInvariant'
<1> USE DEF WorkerInvariant
<1>l. j \in JobId /\ jobs[j].status = "running" /\ jobs[j].worker = w
  OBVIOUS
<1>t. \A i \in JobId : /\ i # 0 /\ jobs[i].app \in App /\ HostOf[jobs[i].app] \in Server
                       /\ jobs[i].action \in Action
                       /\ jobs[i].worker \in {NoWorker, placed[jobs[i].app]}
  BY QueueType, WorkerConstantsAreWellTyped DEF WorkerConstantsAreWellTyped, JobRecord, JobsArePlaced
\* The application and the action of the job, whatever becomes of the queue.
<1>a. PICK a \in App, act \in Action : jobs[j].app = a /\ jobs[j].action = act
  BY <1>t
<1>k. NoWorker \notin Worker /\ \A b \in App : HostOf[b] \in Server
  BY WorkerConstantsAreWellTyped DEF WorkerConstantsAreWellTyped
<1>h. \A v \in Worker : /\ agent[v].job # 0 => agent[v].job \in JobId
                        /\ agent[v].phase = "executing" => agent[v].job # 0
  BY HeldType
<1>p. a \in App /\ placed[a] = w /\ HostOf[a] \in Server
  BY <1>a, <1>k, <1>l, <1>t
<1>q. /\ JobId' = JobId /\ UNCHANGED <<entitled, placed, container>>
      /\ \A i \in JobId : i # j => jobs'[i] = jobs[i]
      /\ jobs'[j].app = a /\ jobs'[j].action = act /\ jobs'[j].worker = w
      /\ jobs'[j].status \in {"queued", "failed", "succeeded"}
      /\ jobs'[j].status = "queued" => jobs'[j].attempts < MaxAttempts
  BY <1>a DEF ReportedBy
<1>r. \A v \in Worker :
        /\ agent'[v].job # 0 => agent'[v].job = agent[v].job
        /\ agent'[v].phase = "executing" => v # w /\ agent'[v] = agent[v]
        /\ agent'[v].phase = "succeeded" => agent[v].phase = "succeeded"
  BY <1>a DEF ReportedBy
<1>s. \A b \in App : b # a => appState'[b] = appState[b]
  BY <1>a DEF ReportedBy
<1>v. \/ state'[HostOf[a]] = state[HostOf[a]]
      \/ state'[HostOf[a]] # "planned" /\ (state'[HostOf[a]] = "suspended" <=> ~entitled[HostOf[a]])
  BY <1>a DEF ReportedBy
<1>x. \A s \in Server : s # HostOf[a] => state'[s] = state[s]
  BY <1>a DEF ReportedBy
<1>y. /\ jobs'[j].status = "queued" => appState'[a] = appState[a]
      /\ jobs'[j].status = "failed" => appState'[a] = "failed"
      /\ jobs'[j].status = "succeeded" => agent[w].phase = "succeeded" /\ appState'[a] = ReportedState(act)
  BY <1>a DEF ReportedBy
\* No agent is executing a job of the application any more.
<1>e. ASSUME NEW v \in Worker, agent'[v].phase = "executing" PROVE jobs'[agent'[v].job].app # a
  <2>1. v # w /\ agent'[v] = agent[v]
    BY <1>e, <1>r
  <2>2. agent[v].job \in JobId /\ agent[v].job # 0
    BY <1>e, <1>h, <2>1
  <2>3. jobs[agent[v].job].worker = v
    BY <2>2 DEF AgentsHoldTheirJobs
  <2>4. jobs[agent[v].job].app # a
    BY <1>k, <1>p, <1>t, <2>1, <2>2, <2>3
  <2>5. agent[v].job # j
    BY <1>a, <2>4
  <2>6. jobs'[agent[v].job] = jobs[agent[v].job]
    BY <1>q, <2>2, <2>5
  <2> QED
    BY <2>1, <2>4, <2>6
<1>1. JobsArePlaced'
  <2>1. ASSUME NEW b \in App
        PROVE  /\ state'[HostOf[b]] = "planned" => placed'[b] = NoWorker
               /\ appState'[b] \in {"live", "provisioning"} => placed'[b] # NoWorker
    <3>1. placed[a] # NoWorker /\ state[HostOf[a]] # "planned"
      BY <1>k, <1>p DEF JobsArePlaced
    <3>2. HostOf[b] = HostOf[a] => state'[HostOf[b]] # "planned"
      BY <1>v, <3>1
    <3> QED
      BY <1>k, <1>q, <1>s, <1>x, <3>1, <3>2 DEF JobsArePlaced
  <2>2. ASSUME NEW i \in JobId
        PROVE  /\ jobs'[i].worker \in {NoWorker, placed'[jobs'[i].app]}
               /\ jobs'[i].status = "running" => jobs'[i].worker # NoWorker
               /\ jobs'[i].status = "queued" => jobs'[i].attempts < MaxAttempts
    <3>1. CASE i = j
      BY <1>k, <1>p, <1>q, <3>1
    <3>2. CASE i # j
      BY <1>q, <3>2 DEF JobsArePlaced
    <3> QED
      BY <3>1, <3>2
  <2> QED
    BY <1>q, <2>1, <2>2 DEF JobsArePlaced
<1>2. AgentsHoldTheirJobs'
  <2> SUFFICES ASSUME NEW v \in Worker, agent'[v].job # 0
               PROVE  /\ jobs'[agent'[v].job].worker = v
                      /\ agent'[v].phase = "succeeded" =>
                           container'[jobs'[agent'[v].job].app] \in Completed(jobs'[agent'[v].job].action)
    BY DEF AgentsHoldTheirJobs
  <2>1. agent'[v].job = agent[v].job /\ agent[v].job \in JobId
    BY <1>h, <1>r
  <2>2. agent'[v].phase = "succeeded" => agent[v].phase = "succeeded"
    BY <1>r
  <2>3. /\ jobs'[agent[v].job].worker = jobs[agent[v].job].worker
        /\ jobs'[agent[v].job].app = jobs[agent[v].job].app
        /\ jobs'[agent[v].job].action = jobs[agent[v].job].action
    BY <1>a, <1>l, <1>q, <2>1
  <2> QED
    BY <1>q, <2>1, <2>2, <2>3 DEF AgentsHoldTheirJobs
<1>3. RevokedWorkStops'
  <2>1. ASSUME NEW i \in JobId, jobs'[i].status = "running" PROVE jobs'[i] = jobs[i]
    BY <1>q, <2>1
  <2> QED
    BY <1>q, <2>1 DEF RevokedWorkStops
<1>4. SoleLease'
  <2>1. \A v \in Worker : RunningOn(v)' \subseteq RunningOn(v)
    BY <1>q DEF RunningOn
  <2> QED
    BY <1>r, <2>1 DEF SoleLease
<1>5. SuspendedIffRevoked'
  <2>1. ASSUME NEW s \in Server, state'[s] # "planned" PROVE state'[s] = "suspended" <=> ~entitled'[s]
    BY <1>q, <1>v, <1>x, <2>1 DEF SuspendedIffRevoked
  <2> QED
    BY <2>1 DEF SuspendedIffRevoked
\* The jobs of the other applications are as before, and no backup is lost.
<1>u. /\ \A i \in JobId : i # j => (Unfinished(i)' <=> Unfinished(i))
      /\ \A b \in App : BackedUp(b) => BackedUp(b)'
      /\ act = "backup" /\ jobs'[j].status = "succeeded" => BackedUp(a)'
      /\ jobs'[j].status = "queued" => Unfinished(j)' /\ Unfinished(j)
  <2>1. \A i \in JobId : i # j => (Unfinished(i)' <=> Unfinished(i))
    BY <1>q DEF Unfinished
  <2>2. ASSUME NEW b \in App, BackedUp(b) PROVE BackedUp(b)'
    <3>1. PICK i \in JobId : jobs[i].app = b /\ jobs[i].action = "backup" /\ jobs[i].status = "succeeded"
      BY <2>2 DEF BackedUp
    <3>2. i # j
      BY <1>l, <3>1
    <3> QED
      BY <1>q, <3>1, <3>2 DEF BackedUp
  <2>3. act = "backup" /\ jobs'[j].status = "succeeded" => BackedUp(a)'
    BY <1>l, <1>q DEF BackedUp
  <2>4. jobs'[j].status = "queued" => Unfinished(j)' /\ Unfinished(j)
    BY <1>l, <1>q DEF Unfinished
  <2> QED
    BY <2>1, <2>2, <2>3, <2>4
<1>6. LiveIsStable'
  <2> SUFFICES ASSUME NEW b \in App, appState'[b] = "live",
                      \/ container'[b] # "up"
                      \/ \E v \in Worker : agent'[v].phase = "executing" /\ jobs'[agent'[v].job].app = b
               PROVE  BackedUp(b)' \/ \E i \in JobId : jobs'[i].app = b /\ Unfinished(i)'
    BY <1>q DEF LiveIsStable
  <2>1. CASE b # a
    <3>1. \/ container[b] # "up"
          \/ \E v \in Worker : agent[v].phase = "executing" /\ jobs[agent[v].job].app = b
      <4>1. ASSUME NEW v \in Worker, agent'[v].phase = "executing", jobs'[agent'[v].job].app = b
            PROVE  agent[v].phase = "executing" /\ jobs[agent[v].job].app = b
        <5>1. v # w /\ agent'[v] = agent[v] /\ agent[v].job \in JobId
          BY <1>h, <1>r, <4>1
        <5>2. agent[v].job # j => jobs'[agent[v].job] = jobs[agent[v].job]
          BY <1>q, <5>1
        <5>3. jobs'[agent[v].job].app = jobs[agent[v].job].app
          BY <1>a, <1>q, <5>2
        <5> QED
          BY <4>1, <5>1, <5>3
      <4> QED
        BY <1>q, <4>1
    <3>2. BackedUp(b) \/ \E i \in JobId : jobs[i].app = b /\ Unfinished(i)
      BY <1>s, <2>1, <3>1 DEF LiveIsStable
    <3> QED
      BY <1>a, <1>q, <1>u, <2>1, <3>2
  <2>2. CASE b = a
    <3>1. container[a] # "up"
      BY <1>e, <1>q, <2>2
    <3>2. CASE jobs'[j].status = "queued"
      BY <1>l, <1>q, <1>u, <2>2, <3>2
    <3>3. CASE jobs'[j].status = "failed"
      BY <1>y, <2>2, <3>3
    <3>4. CASE jobs'[j].status = "succeeded"
      <4>1. agent[w].phase = "succeeded" /\ appState'[a] = ReportedState(act)
        BY <1>y, <3>4
      <4>2. container[a] \in Completed(act)
        BY <1>a, <1>t, <4>1 DEF AgentsHoldTheirJobs
      <4>3. act = "backup"
        BY <1>a, <1>t, <2>2, <3>1, <4>1, <4>2 DEF Completed, ReportedState, Action
      <4> QED
        BY <1>u, <2>2, <3>4, <4>3
    <3> QED
      BY <1>q, <3>2, <3>3, <3>4
  <2> QED
    BY <2>1, <2>2
<1>7. CleanupIsQueued'
  <2> SUFFICES ASSUME NEW b \in App, appState'[b] \in {"live", "provisioning"}, ~entitled[HostOf[b]]
               PROVE  BackedUp(b)' \/ \E i \in JobId :
                        jobs'[i].app = b /\ jobs'[i].action = "stop" /\ Unfinished(i)'
    BY <1>q DEF CleanupIsQueued
  <2>1. CASE b # a
    <3>1. BackedUp(b) \/ \E i \in JobId : jobs[i].app = b /\ jobs[i].action = "stop" /\ Unfinished(i)
      BY <1>s, <2>1 DEF CleanupIsQueued
    <3> QED
      BY <1>a, <1>q, <1>u, <2>1, <3>1
  <2>2. CASE b = a /\ jobs'[j].status = "queued"
    <3>1. BackedUp(a) \/ \E i \in JobId : jobs[i].app = a /\ jobs[i].action = "stop" /\ Unfinished(i)
      BY <1>y, <2>2 DEF CleanupIsQueued
    <3>2. \A i \in JobId : Unfinished(i) => Unfinished(i)' /\ jobs'[i].app = jobs[i].app /\ jobs'[i].action = jobs[i].action
      BY <1>a, <1>q, <1>u, <2>2
    <3> QED
      BY <1>u, <2>2, <3>1, <3>2
  <2>3. CASE b = a /\ jobs'[j].status = "failed"
    BY <1>y, <2>3
  <2>4. CASE b = a /\ jobs'[j].status = "succeeded"
    <3>1. appState'[a] = ReportedState(act)
      BY <1>y, <2>4
    <3>2. act # "stop" /\ act \notin PaidAction
      BY <1>a, <1>l, <2>4, <3>1 DEF ReportedState, RevokedWorkStops
    <3>3. act = "backup"
      BY <1>a, <1>t, <3>2 DEF Action
    <3> QED
      BY <1>u, <2>4, <3>3
  <2> QED
    BY <1>q, <2>1, <2>2, <2>3, <2>4
<1> QED
  BY <1>1, <1>2, <1>3, <1>4, <1>5, <1>6, <1>7

\* The two reports that count.
LEMMA ReportSteps ==
  ASSUME WorkerInvariant, TypeOK', NEW w \in Worker, ReportSuccess(w) \/ ReportFailure(w)
  PROVE  WorkerInvariant'
<1> USE DEF WorkerInvariant
<1> DEFINE j == agent[w].job
<1>a. agent \in [Worker -> {Idle, Down} \cup [phase : {"executing", "succeeded", "failed"}, job : JobId]]
  BY DEF TypeOK
<1>l. /\ j \in JobId /\ jobs[j].status = "running" /\ jobs[j].worker = w /\ jobs[j] \in JobRecord
      /\ jobs[j].app \in App /\ HostOf[jobs[j].app] \in Server
  BY QueueType, WorkerConstantsAreWellTyped
     DEF ReportSuccess, ReportFailure, HoldsLease, RunningOn, WorkerConstantsAreWellTyped, JobRecord
<1>h. PICK a \in App, host \in Server : a = jobs[j].app /\ host = HostOf[a]
  BY <1>l
<1>v. /\ \A v \in Worker : v # w => agent'[v] = agent[v]
      /\ \/ agent'[w].job = 0 /\ agent'[w].phase \in {"idle", "down"}
         \/ agent'[w].job = j /\ agent'[w].phase = "failed"
      /\ UNCHANGED <<entitled, placed, container>>
  BY <1>a DEF ReportSuccess, ReportFailure, Idle, Down
\* How the changes of one job, one application and one server look pointwise.
<1>p. /\ \A r : jobs' = [jobs EXCEPT ![j] = r] =>
               JobId' = JobId /\ jobs'[j] = r /\ \A i \in JobId : i # j => jobs'[i] = jobs[i]
      /\ \A x : appState' = [appState EXCEPT ![a] = x] =>
               appState'[a] = x /\ \A b \in App : b # a => appState'[b] = appState[b]
      /\ \A x : state' = [state EXCEPT ![host] = x] =>
               state'[host] = x /\ \A s \in Server : s # host => state'[s] = state[s]
  <2>1. ASSUME NEW r, jobs' = [jobs EXCEPT ![j] = r]
        PROVE  JobId' = JobId /\ jobs'[j] = r /\ \A i \in JobId : i # j => jobs'[i] = jobs[i]
    <3>1. DOMAIN jobs' = JobId /\ jobs'[j] = r /\ \A i \in JobId : i # j => jobs'[i] = jobs[i]
      BY <1>l, <2>1, QueueType
    <3> QED
      BY <3>1 DEF JobId
  <2>2. /\ appState \in [App -> {"queued", "provisioning", "live", "failed", "stopped"}]
        /\ state \in [Server -> {"planned", "provisioning", "live", "failed", "suspended"}]
    BY DEF TypeOK
  <2>3. \A x : appState' = [appState EXCEPT ![a] = x] =>
               appState'[a] = x /\ \A b \in App : b # a => appState'[b] = appState[b]
    BY <1>l, <2>2
  <2>4. \A x : state' = [state EXCEPT ![host] = x] =>
               state'[host] = x /\ \A s \in Server : s # host => state'[s] = state[s]
    BY <1>l, <2>2
  <2> QED
    BY <2>1, <2>3, <2>4
<1>1. ASSUME ReportSuccess(w) PROVE ReportedBy(w, j)
  <2> DEFINE r == Ended(jobs[j], "succeeded")
             x == AggregateState(host, Reported(j, ReportedState(jobs[j].action)))
  <2>1. /\ jobs' = [jobs EXCEPT ![j] = r] /\ state' = [state EXCEPT ![host] = x]
        /\ appState' = [appState EXCEPT ![a] = ReportedState(jobs[j].action)] /\ agent[w].phase = "succeeded"
    BY <1>1, <1>h DEF ReportSuccess, EndJob, Reported
  <2>2. r.app = jobs[j].app /\ r.action = jobs[j].action /\ r.worker = w /\ r.status = "succeeded"
    BY <1>l, EndedType DEF JobStatus
  <2>3. x # "planned" /\ (x = "suspended" <=> ~entitled[host])
    BY DEF AggregateState
  <2> HIDE DEF r, x
  <2>4. /\ JobId' = JobId /\ jobs'[j] = r /\ \A i \in JobId : i # j => jobs'[i] = jobs[i]
        /\ appState'[a] = ReportedState(jobs[j].action) /\ \A b \in App : b # a => appState'[b] = appState[b]
        /\ state'[host] = x /\ \A s \in Server : s # host => state'[s] = state[s]
    BY <1>p, <2>1
  <2>5. /\ jobs'[j].app = jobs[j].app /\ jobs'[j].action = jobs[j].action /\ jobs'[j].worker = w
        /\ jobs'[j].status = "succeeded"
    BY <2>2, <2>4
  <2> QED
    BY <1>h, <1>v, <2>1, <2>3, <2>4, <2>5 DEF ReportedBy
<1>2. ASSUME ReportFailure(w) PROVE ReportedBy(w, j)
  <2>3. CASE jobs[j].attempts < MaxAttempts
    <3> DEFINE r == Retried(jobs[j])
    <3>1. jobs' = [jobs EXCEPT ![j] = r] /\ UNCHANGED <<appState, state>>
      BY <1>2, <2>3 DEF ReportFailure
    <3>2. /\ r.app = jobs[j].app /\ r.action = jobs[j].action /\ r.worker = w
          /\ r.status = "queued" /\ r.attempts < MaxAttempts
      BY <1>l, <2>3, EndedType DEF JobStatus
    <3> HIDE DEF r
    <3> QED
      BY <1>h, <1>p, <1>v, <3>1, <3>2 DEF ReportedBy
  <2>4. CASE ~(jobs[j].attempts < MaxAttempts)
    <3> DEFINE r == Ended(jobs[j], "failed")
               x == FailureState(host)
    <3>1. /\ jobs' = [jobs EXCEPT ![j] = r] /\ state' = [state EXCEPT ![host] = x]
          /\ appState' = [appState EXCEPT ![a] = "failed"]
      BY <1>2, <1>h, <2>4 DEF ReportFailure, EndJob, Reported
    <3>2. r.app = jobs[j].app /\ r.action = jobs[j].action /\ r.worker = w /\ r.status = "failed"
      BY <1>l, EndedType DEF JobStatus
    <3>3. x # "planned" /\ (x = "suspended" <=> ~entitled[host])
      BY DEF FailureState
    <3> HIDE DEF r, x
    <3>4. /\ JobId' = JobId /\ jobs'[j] = r /\ \A i \in JobId : i # j => jobs'[i] = jobs[i]
          /\ appState'[a] = "failed" /\ \A b \in App : b # a => appState'[b] = appState[b]
          /\ state'[host] = x /\ \A s \in Server : s # host => state'[s] = state[s]
      BY <1>p, <3>1
    <3>5. /\ jobs'[j].app = jobs[j].app /\ jobs'[j].action = jobs[j].action /\ jobs'[j].worker = w
          /\ jobs'[j].status = "failed"
      BY <3>2, <3>4
    <3> QED
      BY <1>h, <1>v, <3>3, <3>4, <3>5 DEF ReportedBy
  <2> QED
    BY <2>3, <2>4
<1>3. ReportedBy(w, j)
  BY <1>1, <1>2
<1> QED
  BY <1>l, <1>3, ReportStep

-----------------------------------------------------------------------------
(* The theorems *)

\* The invariant of the jobs and their workers is inductive.
THEOREM WorkerSafety == Spec => []WorkerInvariant
<1>1. Init => WorkerInvariant
  BY InitInvariant
<1>2. WorkerInvariant /\ [Next]_vars => WorkerInvariant'
  <2> SUFFICES ASSUME WorkerInvariant, [Next]_vars PROVE WorkerInvariant'
    OBVIOUS
  <2>1. TypeOK'
    BY TypeStep DEF WorkerInvariant
  <2>2. ASSUME NEW s \in Server, ProcessPaidCheckout(s) PROVE WorkerInvariant'
    BY <2>1, <2>2, CheckoutStep
  <2>3. ASSUME NEW s \in Server, ReactivateSubscription(s) PROVE WorkerInvariant'
    BY <2>1, <2>3, ReactivationStep
  <2>4. ASSUME NEW s \in Server, RevokeSubscription(s) PROVE WorkerInvariant'
    BY <2>1, <2>4, RevocationStep
  <2>5. ASSUME NEW r \in requests, EnqueueJob(r) PROVE WorkerInvariant'
    BY <2>1, <2>5, EnqueueStep
  <2>6. ASSUME NEW w \in Worker, Claim(w) PROVE WorkerInvariant'
    BY <2>1, <2>6, ClaimSteps
  <2>7. ASSUME NEW w \in Worker, Execute(w) \/ AgentDies(w) PROVE WorkerInvariant'
    BY <2>1, <2>7, ExecutionSteps
  <2>8. ASSUME NEW w \in Worker, ReportSuccess(w) \/ ReportFailure(w) PROVE WorkerInvariant'
    BY <2>1, <2>8, ReportSteps
  <2>9. ASSUME \/ \E a \in App, act \in CustomerAction : RequestAction(a, act)
               \/ Time \/ Operator
               \/ \E w \in Worker : HeartbeatWorkerNode(w) \/ ReportRefused(w) \/ AgentRestarts(w)
               \/ UNCHANGED vars
        PROVE  WorkerInvariant'
    BY <2>1, <2>9, QuietStep, QuietSteps
  <2> QED
    BY <2>2, <2>3, <2>4, <2>5, <2>6, <2>7, <2>8, <2>9 DEF Next, Subscriptions, Customers, Agent, Report
<1> QED
  BY <1>1, <1>2, PTL DEF Spec

\* Every variable of the queue, the nodes and the agents keeps its type.
THEOREM WorkerTypeCorrect == Spec => []TypeOK
<1>1. WorkerInvariant => TypeOK
  BY DEF WorkerInvariant
<1> QED
  BY <1>1, WorkerSafety, PTL

\* A paid job never runs for a server whose subscription has lapsed.
THEOREM RevokedWorkAlwaysStops == Spec => []RevokedWorkStops
<1>1. WorkerInvariant => RevokedWorkStops
  BY DEF WorkerInvariant
<1> QED
  BY <1>1, WorkerSafety, PTL

\* A node runs one job at most, and its agent no other.
THEOREM LeaseIsAlwaysSole == Spec => []SoleLease
<1>1. WorkerInvariant => SoleLease
  BY DEF WorkerInvariant
<1> QED
  BY <1>1, WorkerSafety, PTL

\* A server is suspended exactly while no subscription entitles it.
THEOREM SuspendedIffAlwaysRevoked == Spec => []SuspendedIffRevoked
<1>1. WorkerInvariant => SuspendedIffRevoked
  BY DEF WorkerInvariant
<1> QED
  BY <1>1, WorkerSafety, PTL

\* A suspended application that may be running has its clean-up queued.
THEOREM CleanupIsAlwaysQueued == Spec => []CleanupIsQueued
<1>1. WorkerInvariant => CleanupIsQueued
  BY DEF WorkerInvariant
<1> QED
  BY <1>1, WorkerSafety, PTL

\* A live application is up, or a job will bring it up or report it stopped.
THEOREM LiveIsAlwaysUp == Spec => []LiveIsUp
<1>1. WorkerInvariant => LiveIsUp
  BY DEF WorkerInvariant, LiveIsStable, LiveIsUp
<1> QED
  BY <1>1, WorkerSafety, PTL
=============================================================================
