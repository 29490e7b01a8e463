----------------------------- MODULE Operations -----------------------------
(***************************************************************************)
(* What runs beside the API: how a release migrates the database and gives *)
(* the servers sold before quotas existed their allocations (this module), *)
(* what the agent does on a worker's host (WorkerHost), and the loop that  *)
(* places applications (AllocateCapacity).  They share no state here, so   *)
(* the initial states have one of them running, and Offered says which.    *)
(*                                                                         *)
(* A migration is a number: its version, and a digit for what its file     *)
(* says.  A build is the set of migrations it carries; a plan is the       *)
(* number of applications its quota allows.                                *)
(***************************************************************************)
EXTENDS Integers, Sequences, FiniteSets, TLC

CONSTANTS
  Offered,
  Build, Deployed, Process,
  Server, Legacy,        \* servers, and those sold before quotas existed
  Plan, Worker,
  App, Amount,           \* what the loop places: applications, and their quantities
  MaxStarts, MaxGeneration, MaxApps

ASSUME BuildAssumption == \A b \in Build : b \subseteq Nat /\ \A m, n \in b : m # n => m \div 10 # n \div 10
ASSUME SalesAssumption ==
  /\ Legacy \subseteq Server /\ MaxApps \in Nat
  /\ Plan \subseteq Nat \ {0}   \* every plan has an application

ASSUME LoopAssumption == IsFiniteSet(App) /\ App \subseteq Nat /\ Worker \subseteq Nat /\ Amount \subseteq Nat

VARIABLES
  part,                                                \* the part that runs
  deploy,                                              \* migrations and the backfill
  host,                                                \* WorkerHost
  demand, free, requested, bins, allocated, outcome    \* AllocateCapacity

loop == <<demand, free, requested, bins, allocated, outcome>>
vars == <<part, deploy, host, loop>>

Host == INSTANCE WorkerHost WITH App <- {"a"}, Budget <- 1
Allocation == INSTANCE AllocateCapacity

ledger  == deploy.ledger     \* the migrations the database records
history == deploy.history    \* those it has run, in order
process == deploy.process    \* servers and migration commands
server  == deploy.server     \* installations with their subscriptions, holds and quotas

Version(m) == m \div 10
Files(run)  == {run[i] : i \in DOMAIN run}   \* of a sequence of migrations

NoQuota == [granted |-> FALSE, plan |-> 0, worker |-> 0, generation |-> 0, active |-> FALSE, sold |-> FALSE, events |-> 0]
Off     == [at |-> "off", build |-> {}, mode |-> "auto", written |-> <<>>]

\* 0 is no worker.  A server has a row per active subscription, a plan price
\* and owner as configured or not, and its applications' workers.
OldServer == [plan : Plan, paid : {1, 2}, clean : BOOLEAN, affinity : {0} \cup Worker,
              apps : {<<>>} \cup UNION {[1 .. n -> {0} \cup Worker] : n \in 1 .. MaxApps}, hold : {0}, quota : {NoQuota}]
NewServer == [plan : Plan, paid : {0}, clean : {TRUE}, affinity : {0}, apps : {<<0>>}, hold : {0}, quota : {NoQuota}]

\* A database nothing is sold on yet, which processes of several builds come
\* to; or one whose releases change nothing while servers are sold.
InitSchema ==
  deploy = [ledger |-> {}, history |-> <<>>, process |-> [p \in Process |-> Off], starts |-> 0,
            server |-> [s \in {} |-> 0], explained |-> TRUE]
InitSales ==
  \E old \in [Legacy -> OldServer], new \in [Server \ Legacy -> NewServer] :
    deploy = [ledger |-> {}, history |-> <<>>, process |-> [p \in {CHOOSE p \in Process : TRUE} |-> Off], starts |-> 0,
              server |-> [s \in Server |-> IF s \in Legacy THEN old[s] ELSE new[s]], explained |-> TRUE]

Processes == DOMAIN process
Servers   == DOMAIN server

-----------------------------------------------------------------------------
\* Migrations: a transaction behind an advisory lock.
Holds(p)  == process[p].at \in {"locked", "applying"}
At(p, x)  == process[p].at = x
Goes(p, x) == deploy' = [deploy EXCEPT !.process[p].at = x]

\* A server starts in either mode; the command migrates, then backfills.
Start(p, b, mode) ==
  /\ At(p, "off") /\ deploy.starts < MaxStarts
  /\ part = "sales" => b = Deployed
  /\ deploy' = [deploy EXCEPT !.process[p] = [Off EXCEPT !.at = "waiting", !.build = b, !.mode = mode], !.starts = @ + 1]

\* Mutant of Lock: nobody waits for the lock.
LockFree(p) == At(p, "waiting") /\ Goes(p, "locked")

Lock(p) == At(p, "waiting") /\ (\A q \in Processes : ~Holds(q)) /\ Goes(p, "locked")

\* A lock timeout, a failing statement or the end of the process: nothing the
\* transaction wrote remains.
Rollback(p) == process[p].at \in {"waiting", "locked", "applying"} /\ deploy' = [deploy EXCEPT !.process[p] = Off]

Pending(p) == process[p].build \ (ledger \cup Files(process[p].written))

\* A row the build does not know, or knows with other contents, ends the start;
\* so does a missing migration unless the process may migrate.
Examine(p) ==
  /\ At(p, "locked")
  /\ IF ledger \subseteq process[p].build /\ (process[p].mode = "manual" => Pending(p) = {}) /\ (process[p].mode = "manual" => ledger # {})
     THEN Goes(p, "applying") ELSE deploy' = [deploy EXCEPT !.process[p] = Off]

ApplyNext(p) ==
  /\ At(p, "applying") /\ Pending(p) # {}
  /\ LET m == CHOOSE m \in Pending(p) : \A n \in Pending(p) : Version(m) <= Version(n)
     IN deploy' = [deploy EXCEPT !.process[p].written = Append(@, m)]

Commit(p) ==
  /\ At(p, "applying") /\ Pending(p) = {}
  /\ deploy' = [deploy EXCEPT
       !.ledger = @ \cup Files(process[p].written),
       !.history = @ \o process[p].written,
       !.process[p].written = <<>>,
       !.process[p].at = IF process[p].mode = "command" THEN "backfill" ELSE "running"]

Exit(p) == process[p].at \in {"running", "backfill", "done"} /\ deploy' = [deploy EXCEPT !.process[p] = Off]

-----------------------------------------------------------------------------
\* The backfill: one serializable transaction under the allocation lock.
Paid == {s \in Servers : server[s].paid > 0}
WorkersOf(s) == {server[s].apps[i] : i \in DOMAIN server[s].apps}

\* Mutant of Matches: what the applications use is not compared with the plan.
MatchesAnyUsage(s) ==
  /\ server[s].paid = 1 /\ server[s].clean
  /\ Cardinality(WorkersOf(s)) = 1 /\ 0 \notin WorkersOf(s)
  /\ server[s].affinity \in {0} \cup WorkersOf(s)

\* Ownership, price, placement and usage of a server as a quota needs them.
Matches(s) ==
  /\ server[s].paid = 1 /\ server[s].clean
  /\ Cardinality(WorkersOf(s)) = 1 /\ 0 \notin WorkersOf(s)
  /\ server[s].affinity \in {0} \cup WorkersOf(s)
  /\ Len(server[s].apps) <= server[s].plan

\* The quota the backfill grants, and the only one it accepts to find.
Granted(s) == [granted |-> TRUE, plan |-> server[s].plan, worker |-> CHOOSE w \in WorkersOf(s) : TRUE, generation |-> 1,
               active |-> TRUE, sold |-> FALSE, events |-> 1]

NoHolds == \A s \in Servers : server[s].hold = 0

Backfill(p) ==
  /\ At(p, "backfill")
  /\ IF NoHolds /\ \A s \in Paid : Matches(s) /\ server[s].quota \in {NoQuota, Granted(s)}
     THEN deploy' = [deploy EXCEPT !.process[p].at = "done",
            !.server = [s \in Servers |-> IF s \in Paid THEN [server[s] EXCEPT !.affinity = Granted(s).worker, !.quota = Granted(s)]
                                         ELSE server[s]]]
     ELSE deploy' = [deploy EXCEPT !.process[p] = Off,
            !.explained = \E s \in Servers : server[s].hold # 0 \/ (s \in Paid /\ ~Matches(s))]

-----------------------------------------------------------------------------
\* Meanwhile servers are sold, suspended, resized and get applications; the
\* hold of a checkout is the plan it asks for, and so is that of a plan change.
Update(s, r) == deploy' = [deploy EXCEPT !.server[s] = r]

AcquireHold(s) ==
  /\ s \notin Legacy /\ server[s].paid = 0 /\ ~server[s].quota.granted /\ server[s].hold = 0
  /\ Update(s, [server[s] EXCEPT !.hold = server[s].plan])
ReleaseHold(s) == server[s].hold # 0 /\ Update(s, [server[s] EXCEPT !.hold = 0])

\* Paid: the applications are placed and the quota is allocated.
ConsumeHold(s) ==
  /\ server[s].hold # 0 /\ server[s].paid = 0 /\ ~server[s].quota.granted
  /\ \E apps \in [DOMAIN server[s].apps -> Worker] :
       /\ \A i \in DOMAIN apps : server[s].apps[i] \in {0, apps[i]}
       /\ \E w \in {apps[i] : i \in DOMAIN apps} :
            Update(s, [server[s] EXCEPT !.hold = 0, !.paid = 1, !.apps = apps, !.affinity = w,
              !.quota = [granted |-> TRUE, plan |-> server[s].hold, worker |-> w, generation |-> 1, active |-> TRUE, sold |-> TRUE, events |-> 1]])

\* Each change of a quota is a generation, and an event.
Changed(q) == [q EXCEPT !.generation = @ + 1, !.events = @ + 1]
Grows(s) == server[s].quota.granted /\ server[s].quota.generation < MaxGeneration

Suspend(s) ==
  /\ server[s].paid > 0 /\ (server[s].quota.granted => Grows(s))
  /\ Update(s, [server[s] EXCEPT !.paid = 0, !.hold = 0, !.quota = IF @.granted THEN [Changed(@) EXCEPT !.active = FALSE] ELSE @])
Reactivate(s) ==
  /\ server[s].paid = 0 /\ Grows(s) /\ ~server[s].quota.active
  /\ Update(s, [server[s] EXCEPT !.paid = 1, !.quota = [Changed(@) EXCEPT !.active = TRUE]])
BeginChange(s, p) ==
  /\ server[s].quota.active /\ server[s].hold = 0 /\ p # server[s].plan /\ Len(server[s].apps) <= p
  /\ Update(s, [server[s] EXCEPT !.hold = p])
ConsumeChange(s) ==
  /\ server[s].quota.active /\ server[s].hold # 0 /\ Grows(s)
  /\ Update(s, [server[s] EXCEPT !.plan = server[s].hold, !.hold = 0, !.quota = [Changed(@) EXCEPT !.plan = server[s].hold]])
AddApplication(s, w) ==
  /\ server[s].quota.active /\ server[s].hold = 0 /\ Len(server[s].apps) < server[s].quota.plan /\ Len(server[s].apps) < MaxApps
  /\ Update(s, [server[s] EXCEPT !.apps = Append(@, w)])

Sales(s) ==
  \/ AcquireHold(s) \/ ReleaseHold(s) \/ ConsumeHold(s) \/ Suspend(s) \/ Reactivate(s) \/ ConsumeChange(s)
  \/ \E p \in Plan : BeginChange(s, p)
  \/ \E w \in Worker : AddApplication(s, w)

Deploy ==
  \/ \E p \in Processes, b \in Build, mode \in {"auto", "manual", "command"} : Start(p, b, mode)
  \/ \E p \in Processes : Lock(p) \/ Rollback(p) \/ Examine(p) \/ ApplyNext(p) \/ Commit(p) \/ Exit(p) \/ Backfill(p)
  \/ \E s \in Servers : Sales(s)

-----------------------------------------------------------------------------
\* One part runs, and the others have their first state.
Nothing == demand = <<>> /\ free = <<>> /\ requested = <<>> /\ bins = <<>> /\ allocated = <<>> /\ outcome = "none"

Init ==
  /\ part \in Offered
  /\ IF part = "allocation" THEN Allocation!Init ELSE Nothing
  /\ IF part = "schema" THEN InitSchema ELSE IF part = "sales" THEN InitSales ELSE deploy = <<>>
  /\ IF part = "host" THEN Host!Init ELSE host = [over |-> {}, running |-> {}, proxied |-> {}]

Next ==
  \/ part = "allocation" /\ Allocation!Next /\ UNCHANGED <<part, deploy, host>>
  \/ part \in {"schema", "sales"} /\ Deploy /\ UNCHANGED <<part, host, loop>>
  \/ part = "host" /\ Host!Next /\ UNCHANGED <<part, deploy, loop>>

\* The fairness of WorkerHost, where it runs.
InHost(step) == part = "host" /\ step /\ UNCHANGED <<part, deploy, loop>>

Fairness ==
  /\ WF_vars(InHost(Host!Initialize))
  /\ WF_vars(InHost(Host!Reconcile("scan")))
  /\ WF_vars(InHost(host.job = Host!NoJob /\ Host!Reconcile("loop")))

Spec == Init /\ [][Next]_vars /\ Fairness

-----------------------------------------------------------------------------
\* What the database has run: each migration once, none twice with other
\* contents, as the ledger says; and a running process finds all of its own in
\* it, however many started at once and in which mode (database-migrations.ts:94).
SchemaIsRecorded ==
  part \in {"schema", "sales"} =>
    /\ \A i, j \in DOMAIN history : i # j => Version(history[i]) # Version(history[j])
    /\ Files(history) = ledger
    /\ \A p \in Processes : process[p].at \in {"running", "backfill", "done"} => process[p].build \subseteq ledger

\* However sales, suspensions, resizes and new applications alternate with
\* migrations, a quota has an event for each of its generations, holds what
\* its server runs, and belongs to the backfill only where no checkout sold it
\* (legacy-capacity-backfill.ts:238, 240).
GrantsAreSound ==
  part \in {"schema", "sales"} =>
    \A s \in Servers :
      /\ server[s].quota.events = server[s].quota.generation
      /\ server[s].quota.granted => server[s].quota.sold = (s \notin Legacy)
      /\ server[s].quota.granted => Len(server[s].apps) <= server[s].quota.plan

ComputesPlacement == part = "allocation" => Allocation!ComputesPlacement
StaysQuarantined == Host!StaysQuarantined

\* "The migration command then runs a serialized, idempotent legacy backfill":
\* it is refused only while there is a hold, or for a server whose ownership,
\* price, placement or usage does not match (docs/paid-plan-capacity.md:34).
BackfillIsIdempotent == part \in {"schema", "sales"} => deploy.explained

-----------------------------------------------------------------------------
\* Why the first two hold: the invariant of the ledger, of the processes and
\* of the servers.  The database has a sequence of migrations of which no two
\* have one version.
Distinct(run) == \A i, j \in DOMAIN run : i # j => Version(run[i]) # Version(run[j])
LedgerInv == ledger \subseteq Nat /\ history \in Seq(Nat) /\ Distinct(history) /\ Files(history) = ledger

\* One process holds the lock.  A process that has looked at the ledger knows
\* all of it, and writes what is missing, each version once; no other process
\* has written anything.
ProcessType == [at : {"off", "waiting", "locked", "applying", "running", "backfill", "done"},
                build : Build \cup {{}}, mode : {"auto", "manual", "command"}, written : Seq(Nat)]
WritesMissing(x) ==
  /\ x.at # "applying" => x.written = <<>>
  /\ x.at = "applying" => /\ ledger \subseteq x.build
                         /\ Files(x.written) \subseteq x.build \ ledger /\ Distinct(x.written)
  /\ x.at \in {"running", "backfill", "done"} => x.build \subseteq ledger
ProcessesInv ==
  /\ process \in [Processes -> ProcessType]
  /\ \A p, q \in Processes : Holds(p) /\ Holds(q) => p = q
  /\ \A p \in Processes : WritesMissing(process[p])

\* What waits to be granted fits what asks for it, and only a checkout asks; a
\* server sold now runs one application and has paid nothing before.
QuotaType  == [granted : BOOLEAN, plan : {0} \cup Plan, worker : {0} \cup Worker,
               generation : Nat, active : BOOLEAN, sold : BOOLEAN, events : Nat]
ServerType == [plan : Plan, paid : {0, 1, 2}, clean : BOOLEAN, affinity : {0} \cup Worker,
               apps : Seq({0} \cup Worker), hold : {0} \cup Plan, quota : QuotaType]
Sound(s, r) ==
  /\ r.quota.events = r.quota.generation
  /\ r.quota.granted => r.quota.sold = (s \notin Legacy) /\ Len(r.apps) <= r.quota.plan
  /\ r.quota.active => r.quota.granted
  /\ r.hold # 0 => Len(r.apps) <= r.hold /\ (~r.quota.granted => s \notin Legacy)
  /\ s \notin Legacy /\ ~r.quota.granted => r.paid = 0 /\ Len(r.apps) = 1
ServersInv == server \in [Servers -> ServerType] /\ \A s \in Servers : Sound(s, server[s])

DeployShape ==
  deploy = [ledger |-> ledger, history |-> history, process |-> process, starts |-> deploy.starts,
            server |-> server, explained |-> deploy.explained]
DeployInvariant == part \in {"schema", "sales"} => DeployShape /\ LedgerInv /\ ProcessesInv /\ ServersInv

\* And the third.
LoopInvariant == part = "allocation" => Allocation!LoopInvariant
=============================================================================
