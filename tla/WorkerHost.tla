----------------------------- MODULE WorkerHost -----------------------------
(***************************************************************************)
(* The agent on a worker host: WorkerJobs has its queue, this module has   *)
(* what it does to an application's files, containers and route.  Two      *)
(* activities of one process share the host: the loop that runs jobs and a *)
(* timer that measures storage.  Both begin with the same reconciliation:  *)
(* what is over its quota is marked, taken from the routes and stopped.    *)
(* They alternate at every await, so each await ends a step.               *)
(*                                                                         *)
(* Measurements, the quota helper, docker and the control plane are calls  *)
(* that may fail, and a check of the host that refuses is such a failure;  *)
(* Budget bounds their number and that of crashes.  Of a Compose file only *)
(* the image and the ingress network matter here.  Nothing in the server   *)
(* queues an uninstall or a reload of routes, so jobs ask for neither.     *)
(***************************************************************************)
EXTENDS Integers, FiniteSets

CONSTANTS
  App,      \* applications assigned to the worker
  Budget    \* failing calls and crashes

Action == {"install", "start", "stop", "upgrade", "backup", "restore"}
Activity == {"loop", "scan"}

VARIABLE host

file == host.file       \* Compose files
container == host.container  \* the image an application's containers were made with
running == host.running    \* applications whose containers run
marker == host.marker     \* storage quarantine markers
over == host.over       \* workspaces larger than their quota
archive == host.archive    \* the last backup of each application: its workspace then
proxied == host.proxied    \* what the worker's proxy routes to
listed == host.listed     \* what the control plane lists as live here
job == host.job        \* the job the loop runs
act == host.act        \* where each activity is
faults == host.faults

NoFile == [image |-> "none", isolated |-> FALSE]
NoJob == [action |-> "none", app |-> "none"]
Idle == [at |-> "idle", found |-> {}, todo |-> {}, routable |-> {}, current |-> "none", failed |-> FALSE]
Ended == [p \in Activity |-> [Idle EXCEPT !.at = "down"]]

\* What an older agent has installed has the old image and the shared network.
Init ==
  \E F \in [App -> {NoFile, [image |-> "old", isolated |-> FALSE]}] :
    host = [file |-> F, container |-> [a \in App |-> F[a].image], running |-> {a \in App : F[a] # NoFile},
            marker |-> {}, over |-> {}, archive |-> [a \in App |-> {}], proxied |-> {},
            listed |-> {a \in App : F[a] # NoFile}, job |-> NoJob, act |-> Ended, faults |-> 0]

At(p, step) == act[p].at = step

\* A failure ends what an activity does: the loop reports it, and without a job
\* to report on the process ends.
Failing(h, p) ==
  IF p = "scan" THEN [h EXCEPT !.act.scan = Idle]
  ELSE IF h.job = NoJob THEN [h EXCEPT !.act = Ended]
  ELSE [h EXCEPT !.act.loop = [Idle EXCEPT !.at = "report failure"]]
Fault(h) == faults < Budget /\ host' = [h EXCEPT !.faults = @ + 1]

-----------------------------------------------------------------------------
\* Storage grows while an application runs, and whoever may delete files makes
\* it smaller; an operator clears the marker of one that fits again.  The
\* control plane suspends an application; its stop job comes as others do.
Grow(a) == a \in running \ over  /\ host' = [host EXCEPT !.over = @ \cup {a}]
Shrink(a) == a \in over            /\ host' = [host EXCEPT !.over = @ \ {a}]
Clear(a) == a \in marker \ over   /\ host' = [host EXCEPT !.marker = @ \ {a}]
Delist(a) == a \in listed          /\ host' = [host EXCEPT !.listed = @ \ {a}]

\* The process ends, and starts again with a reconciliation.
AgentDies == act # Ended /\ Fault([host EXCEPT !.act = Ended, !.job = NoJob])
Initialize == act = Ended /\ host' = [host EXCEPT !.act.loop = [Idle EXCEPT !.at = "measure"]]

\* Any step that waits for a call may fail.
Fails(p) == act[p].at \notin {"idle", "down", "mark", "list", "routes", "isolate route", "halt", "report", "report failure"}
            /\ Fault(Failing(host, p))

-----------------------------------------------------------------------------
\* Reconciliation.  What is over its quota is found ...
Measure(p) ==
  /\ IF p = "scan" THEN At(p, "idle") ELSE At(p, "measure")
  /\ host' = [host EXCEPT !.act[p] = [Idle EXCEPT !.at = IF over = {} THEN "verify" ELSE "mark", !.found = over]]

\* ... and marked, all of it before anything else is done; if one marker cannot
\* be written, those before it stay and the rest is left.
RecordStorageQuarantine(p) ==
  /\ At(p, "mark")
  /\ host' = [host EXCEPT !.marker = @ \cup act[p].found, !.act[p].at = "list"]
RecordFails(p) ==
  /\ At(p, "mark")
  /\ \E S \in SUBSET act[p].found : S # act[p].found /\ Fault(Failing([host EXCEPT !.marker = @ \cup S], p))

\* Each is stopped, whether or not the routes were reloaded.
Stop(p) ==
  /\ At(p, "halt")
  /\ LET h == [host EXCEPT !.running = @ \ act[p].found]
     IN host' = IF act[p].failed THEN Failing(h, p) ELSE [h EXCEPT !.act[p].at = "verify"]
StopFails(p) ==
  /\ At(p, "halt")
  /\ \E S \in SUBSET act[p].found : S # act[p].found /\ Fault(Failing([host EXCEPT !.running = @ \ S], p))

\* The quotas are verified and the host compared with what is reserved on it.
\* At its start the agent reloads the routes; a job that starts something is
\* refused while anything is over its quota.
Verify(p) ==
  /\ At(p, "verify")
  /\ host' = IF p = "scan" THEN [host EXCEPT !.act[p] = Idle]
             ELSE IF job = NoJob THEN [host EXCEPT !.act[p] = [Idle EXCEPT !.at = "list"]]
             ELSE IF act[p].found # {} /\ job.action \notin {"backup", "stop"} THEN Failing(host, p)
             ELSE [host EXCEPT !.act[p] = [Idle EXCEPT !.at = job.action]]

-----------------------------------------------------------------------------
\* Reloading the routes, in a reconciliation, at the start and after a job: a
\* list is fetched, and the proxy gets what is not marked.
ListRoutes(p) ==
  /\ At(p, "list")
  /\ host' = [host EXCEPT !.act[p].todo = listed, !.act[p].routable = {}, !.act[p].at = "routes"]

CheckRoute(p, a) ==
  /\ At(p, "routes") /\ a \in act[p].todo
  /\ host' = IF a \in marker THEN [host EXCEPT !.act[p].todo = @ \ {a}]
             ELSE [host EXCEPT !.act[p].todo = @ \ {a}, !.act[p].current = a, !.act[p].at = "isolate route"]

\* The file of a gets an ingress network, and a restart if it had none.
Isolated(h, a, recreate) ==
  IF h.file[a].isolated THEN h
  ELSE [h EXCEPT !.file[a].isolated = TRUE,
                 !.container[a] = IF recreate THEN h.file[a].image ELSE @,
                 !.running = IF recreate THEN @ \cup {a} ELSE @]

\* What the control plane lists has a file: one of its jobs has ended well.
IsolateRoute(p) ==
  /\ At(p, "isolate route")
  /\ LET a == act[p].current
     IN host' = [Isolated(host, a, TRUE) EXCEPT !.act[p].current = "none", !.act[p].routable = @ \cup {a}, !.act[p].at = "routes"]

\* After a reload come the stops of a reconciliation, or nothing; the timer
\* starts when the agent has started.
Reloaded(h, p, failed) ==
  IF act[p].found # {} THEN [h EXCEPT !.act[p] = [Idle EXCEPT !.at = "halt", !.found = act[p].found, !.failed = failed]]
  ELSE IF failed THEN Failing(h, p)
  ELSE [h EXCEPT !.act.loop = Idle, !.act.scan = IF @.at = "down" THEN Idle ELSE @]
WriteRoutes(p) ==
  /\ At(p, "routes") /\ act[p].todo = {}
  /\ host' = Reloaded([host EXCEPT !.proxied = act[p].routable], p, FALSE)
ReloadFails(p) ==
  /\ act[p].at \in {"list", "routes", "isolate route"}
  /\ Fault(Reloaded(host, p, TRUE))

Reconcile(p) ==
  \/ Measure(p) \/ RecordStorageQuarantine(p) \/ Stop(p) \/ Verify(p)
  \/ ListRoutes(p) \/ IsolateRoute(p) \/ WriteRoutes(p)
  \/ \E a \in App : CheckRoute(p, a)
ReconcileFails(p) == RecordFails(p) \/ StopFails(p) \/ ReloadFails(p)

-----------------------------------------------------------------------------
\* Jobs.
Claim(k, a) ==
  /\ At("loop", "idle") /\ (k # "install" => file[a] # NoFile) /\ (k = "restore" => archive[a] # {})
  /\ host' = [host EXCEPT !.job = [action |-> k, app |-> a], !.act.loop.at = "measure"]

Goes(h, step) == host' = [h EXCEPT !.act.loop.at = step]

\* What starts an application reads its marker first.
AssertNotQuarantined(a) ==
  /\ act["loop"].at \in {"install", "start", "upgrade", "restore"}
  /\ IF a \in marker THEN host' = Failing(host, "loop")
     ELSE Goes(host, IF At("loop", "install") THEN "write" ELSE "isolate")

WriteCompose(a) ==
  At("loop", "write") /\ Goes([host EXCEPT !.file[a] = [image |-> "new", isolated |-> TRUE]], "up")

\* An upgrade, a start and a restore move the file off the shared network.
Isolate(a) ==
  /\ At("loop", "isolate")
  /\ Goes(Isolated(host, a, FALSE), CASE job.action = "upgrade" -> "image" [] job.action = "start" -> "up" [] OTHER -> "download")

UpdateImage(a) == At("loop", "image") /\ Goes([host EXCEPT !.file[a].image = "new"], "pull")
Pull == At("loop", "pull") /\ Goes(host, "recreate")
Created(a) == [host EXCEPT !.container[a] = file[a].image, !.running = @ \cup {a}]
Recreate(a) == At("loop", "recreate") /\ Goes(Created(a), "up")
ComposeUp(a) == At("loop", "up") /\ Goes(Created(a), "ready")

StopContainers(a) == At("loop", "stop") /\ Goes([host EXCEPT !.running = @ \ {a}], "report")

\* Mutant of CheckMarker: a backup starts whatever it stopped.
CheckNothing(a) == At("loop", "check") /\ Goes(host, "start again")

\* A backup stops the application, archives its workspace, all files of it, and
\* starts it again unless it is marked; it does so when the archiving failed.
\* An error of that start is ignored.
StopForBackup(a) == At("loop", "backup") /\ Goes([host EXCEPT !.running = @ \ {a}], "archive")
Archive(a) ==
  At("loop", "archive") /\ Goes([host EXCEPT !.archive[a] = {[file |-> file[a], marked |-> a \in marker]}], "check")
ArchiveFails == At("loop", "archive") /\ Fault([host EXCEPT !.act.loop.at = "check", !.act.loop.failed = TRUE])
CheckMarker(a) == At("loop", "check") /\ Goes(host, IF a \in marker THEN "backed up" ELSE "start again")
StartAgain(a) == At("loop", "start again") /\ Goes([host EXCEPT !.running = @ \cup {a}], "backed up")
StartIgnored == At("loop", "start again") /\ Fault([host EXCEPT !.act.loop.at = "backed up"])
BackedUp ==
  At("loop", "backed up") /\ (IF act["loop"].failed THEN host' = Failing(host, "loop") ELSE Goes(host, "ready"))

\* A restore takes the containers down and extracts the archive over the
\* workspace: its Compose file, and its marker if it had one.
Download(a) == At("loop", "download") /\ Goes([host EXCEPT !.running = @ \ {a}, !.container[a] = "none"], "extract")
Extract(a) ==
  /\ At("loop", "extract")
  /\ \E b \in archive[a] : Goes([host EXCEPT !.file[a] = b.file, !.marker = IF b.marked THEN @ \cup {a} ELSE @], "up")

Ready == At("loop", "ready") /\ Goes(host, "report")

\* The job's success makes the application live, or stopped, unless its server
\* was suspended meanwhile; then the routes are reloaded.  A failure may be
\* retried later or, the last time, make the application failed.
ReportSuccess(a) ==
  /\ At("loop", "report")
  /\ \E L \in {listed \ {a}} \cup (IF job.action = "stop" THEN {} ELSE {listed \cup {a}}) :
       host' = [host EXCEPT !.listed = L, !.job = NoJob, !.act.loop = [Idle EXCEPT !.at = "list"]]
ReportFailure(a) ==
  /\ At("loop", "report failure")
  /\ \E L \in {listed, listed \ {a}} : host' = [host EXCEPT !.listed = L, !.job = NoJob, !.act.loop = Idle]
ReportLost ==
  \/ At("loop", "report") /\ Fault(Failing(host, "loop"))
  \/ At("loop", "report failure") /\ Fault([host EXCEPT !.act = Ended, !.job = NoJob])

RunJob(a) ==
  \/ AssertNotQuarantined(a) \/ WriteCompose(a) \/ Isolate(a) \/ UpdateImage(a) \/ Pull \/ Recreate(a) \/ ComposeUp(a)
  \/ StopContainers(a) \/ StopForBackup(a) \/ Archive(a) \/ CheckMarker(a) \/ StartAgain(a) \/ BackedUp
  \/ Download(a) \/ Extract(a) \/ Ready \/ ReportSuccess(a) \/ ReportFailure(a)
  \/ ArchiveFails \/ StartIgnored \/ ReportLost

Next ==
  \/ \E a \in App : Grow(a) \/ Shrink(a) \/ Clear(a) \/ Delist(a)
  \/ AgentDies \/ Initialize
  \/ \E p \in Activity : Reconcile(p) \/ ReconcileFails(p) \/ Fails(p)
  \/ \E k \in Action, a \in App : Claim(k, a)
  \/ job # NoJob /\ RunJob(job.app)

\* The process is started again, and neither its start nor its timer waits for
\* ever; a job may.
Fairness ==
  /\ WF_host(Initialize)
  /\ WF_host(Reconcile("scan"))
  /\ WF_host(job = NoJob /\ Reconcile("loop"))

Spec == Init /\ [][Next]_host /\ Fairness

-----------------------------------------------------------------------------
\* An application that stays over its quota ends up stopped, and out of the
\* routes, for good: whatever job was past its check of the marker, whichever
\* list of routes was read before, and whatever failed at first.
StaysQuarantined ==
  \A a \in App : <>[](a \in over) => <>[](a \notin running /\ a \notin proxied)
=============================================================================
