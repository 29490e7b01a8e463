-------------------------- MODULE Operations_proofs --------------------------
(***************************************************************************)
(* Releases and sales for any builds, processes, servers, plans and        *)
(* workers.  A step is of one process, whose record alone changes and      *)
(* which may commit what it wrote; of the backfill; or of one server,      *)
(* whose record alone changes.                                             *)
(***************************************************************************)
EXTENDS Operations, SumTheorems

-----------------------------------------------------------------------------
\* Sequences of migrations, and the versions in them.
LEMMA FilesEmpty == Files(<<>>) = {} /\ Distinct(<<>>) /\ <<>> \in Seq(Nat)
  BY DEF Files, Distinct

LEMMA FilesType == ASSUME NEW run \in Seq(Nat) PROVE Files(run) \subseteq Nat
  BY DEF Files

LEMMA FilesAppend ==
  ASSUME NEW run \in Seq(Nat), NEW m \in Nat
  PROVE  /\ Append(run, m) \in Seq(Nat) /\ Files(Append(run, m)) = Files(run) \cup {m}
         /\ Distinct(run) /\ (\A n \in Files(run) : Version(n) # Version(m)) => Distinct(Append(run, m))
<1>. DEFINE new == Append(run, m)
<1>1. /\ new \in Seq(Nat) /\ Len(run) \in Nat /\ Len(new) = Len(run) + 1
      /\ DOMAIN run = 1 .. Len(run) /\ DOMAIN new = 1 .. Len(new)
      /\ \A i \in 1 .. Len(run) : new[i] = run[i]
      /\ new[Len(new)] = m
  BY AppendProperties
<1>. HIDE DEF new
<1>2. \A i \in DOMAIN new : (i \in DOMAIN run /\ new[i] = run[i]) \/ (i = Len(new) /\ new[i] = m)
  BY <1>1
<1>3. Files(new) = Files(run) \cup {m}
  <2>1. Files(new) \subseteq Files(run) \cup {m}
    BY <1>2 DEF Files
  <2>2. Files(run) \subseteq Files(new)
    BY <1>1 DEF Files
  <2>3. m \in Files(new)
    BY <1>1 DEF Files
  <2>. QED BY <2>1, <2>2, <2>3
<1>4. Distinct(run) /\ (\A n \in Files(run) : Version(n) # Version(m)) => Distinct(new)
  <2>1. \A i \in DOMAIN run : run[i] \in Files(run)
    BY DEF Files
  <2>. QED BY <1>2, <2>1 DEF Distinct
<1>. QED BY <1>1, <1>3, <1>4 DEF new

LEMMA FilesConcat ==
  ASSUME NEW run \in Seq(Nat), NEW more \in Seq(Nat)
  PROVE  /\ run \o more \in Seq(Nat) /\ Files(run \o more) = Files(run) \cup Files(more)
         /\ Distinct(run) /\ Distinct(more) /\ (\A m \in Files(run), n \in Files(more) : Version(m) # Version(n))
              => Distinct(run \o more)
<1>. DEFINE new == run \o more
<1>1. /\ new \in Seq(Nat) /\ Len(run) \in Nat /\ Len(more) \in Nat /\ Len(new) = Len(run) + Len(more)
      /\ DOMAIN run = 1 .. Len(run) /\ DOMAIN more = 1 .. Len(more) /\ DOMAIN new = 1 .. Len(new)
      /\ \A i \in 1 .. Len(new) : new[i] = IF i <= Len(run) THEN run[i] ELSE more[i - Len(run)]
  BY ConcatProperties
<1>. HIDE DEF new
<1>2. \A i \in DOMAIN new : \/ i \in DOMAIN run /\ new[i] = run[i]
                            \/ i \notin DOMAIN run /\ i - Len(run) \in DOMAIN more /\ new[i] = more[i - Len(run)]
  BY <1>1
<1>3. Files(new) = Files(run) \cup Files(more)
  <2>1. ASSUME NEW i \in DOMAIN new PROVE new[i] \in Files(run) \cup Files(more)
    BY <1>2 DEF Files
  <2>2. ASSUME NEW i \in DOMAIN run PROVE run[i] \in Files(new)
    <3>1. i \in DOMAIN new /\ new[i] = run[i]
      BY <1>1
    <3>. QED BY <3>1 DEF Files
  <2>3. ASSUME NEW j \in DOMAIN more PROVE more[j] \in Files(new)
    <3>1. j + Len(run) \in 1 .. Len(new) /\ ~(j + Len(run) <= Len(run)) /\ j + Len(run) - Len(run) = j
      BY <1>1
    <3>2. j + Len(run) \in DOMAIN new /\ new[j + Len(run)] = more[j]
      BY <1>1, <3>1
    <3>. QED BY <3>2 DEF Files
  <2>. QED BY <2>1, <2>2, <2>3 DEF Files
<1>4. ASSUME Distinct(run), Distinct(more), \A m \in Files(run), n \in Files(more) : Version(m) # Version(n)
      PROVE  Distinct(new)
  <2>1. /\ \A i \in DOMAIN run : run[i] \in Files(run)
        /\ \A i \in DOMAIN more : more[i] \in Files(more)
    BY DEF Files
  <2>2. ASSUME NEW i \in DOMAIN new, NEW j \in DOMAIN new, i # j PROVE Version(new[i]) # Version(new[j])
    <3>1. CASE i \in DOMAIN run /\ j \in DOMAIN run
      BY <1>1, <1>4, <2>2, <3>1 DEF Distinct
    <3>2. CASE i \notin DOMAIN run /\ j \notin DOMAIN run
      <4>1. i - Len(run) # j - Len(run)
        BY <1>1, <2>2
      <4>. QED BY <1>2, <1>4, <3>2, <4>1 DEF Distinct
    <3>3. CASE i \in DOMAIN run /\ j \notin DOMAIN run
      BY <1>2, <1>4, <2>1, <3>3
    <3>4. CASE i \notin DOMAIN run /\ j \in DOMAIN run
      BY <1>2, <1>4, <2>1, <3>4
    <3>. QED BY <3>1, <3>2, <3>3, <3>4
  <2>. QED BY <2>2 DEF Distinct
<1>. QED BY <1>1, <1>3, <1>4 DEF new

\* A nonempty set of migrations has one of the lowest version.
LEMMA LowestVersion ==
  ASSUME NEW S \in SUBSET Nat, S # {}
  PROVE  \E m \in S : \A n \in S : Version(m) <= Version(n)
<1>. DEFINE V == {Version(m) : m \in S}
<1>1. \A m \in S : Version(m) \in Nat
  BY DEF Version
<1>2. V \in SUBSET Nat /\ V # {}
  BY <1>1
<1>3. PICK v \in V : \A u \in V : v <= u
  BY <1>2, LeastNumber
<1>4. PICK m \in S : v = Version(m)
  OBVIOUS
<1>. QED BY <1>3, <1>4

-----------------------------------------------------------------------------
\* One process's record changes, and the rest of the database stays.
LEMMA ProcessKeeps ==
  ASSUME DeployShape, LedgerInv, ProcessesInv, ServersInv, DeployShape',
         NEW p \in Processes, NEW x \in ProcessType, process' = [process EXCEPT ![p] = x],
         UNCHANGED <<ledger, history, server>>, WritesMissing(x),
         x.at \in {"locked", "applying"} => \A q \in Processes : Holds(q) => q = p
  PROVE  DeployInvariant'
<1>1. LedgerInv' /\ ServersInv'
  BY DEF LedgerInv, ServersInv, Servers
<1>2. /\ process \in [Processes -> ProcessType] /\ Processes' = Processes
      /\ process' \in [Processes -> ProcessType]
      /\ process'[p] = x /\ \A q \in Processes \ {p} : process'[q] = process[q]
  BY DEF ProcessesInv, Processes
<1>3. \A q \in Processes : WritesMissing(process'[q])
  BY <1>2 DEF ProcessesInv
<1>4. (\A q \in Processes : WritesMissing(process[q]))'
  BY <1>2, <1>3 DEF WritesMissing
<1>5. (\A q, r \in Processes : Holds(q) /\ Holds(r) => q = r)'
  BY <1>2 DEF ProcessesInv, Holds
<1>. QED BY <1>1, <1>2, <1>4, <1>5 DEF DeployInvariant, ProcessesInv

LEMMA QuietProcessSteps ==
  ASSUME DeployShape, LedgerInv, ProcessesInv, ServersInv, NEW p \in Processes,
         \/ \E b \in Build, mode \in {"auto", "manual", "command"} : Start(p, b, mode)
         \/ Lock(p) \/ Rollback(p) \/ Examine(p) \/ Exit(p)
  PROVE  DeployInvariant'
<1>1. process[p] \in ProcessType /\ WritesMissing(process[p]) /\ Off \in ProcessType /\ p \in DOMAIN process
  BY FilesEmpty DEF ProcessesInv, ProcessType, Off, Processes
<1>2. WritesMissing(Off)
  BY DEF Off, WritesMissing
<1>3. ASSUME NEW x \in ProcessType, deploy' = [deploy EXCEPT !.process[p] = x], WritesMissing(x),
             x.at \in {"locked", "applying"} => \A q \in Processes : Holds(q) => q = p
      PROVE  DeployInvariant'
  <2>1. DeployShape' /\ process' = [process EXCEPT ![p] = x] /\ UNCHANGED <<ledger, history, server>>
    BY <1>3 DEF DeployShape, ledger, history, process, server
  <2>. QED BY <1>3, <2>1, ProcessKeeps
<1>4. ASSUME deploy' = [deploy EXCEPT !.process[p] = Off] PROVE DeployInvariant'
  BY <1>1, <1>2, <1>3, <1>4 DEF Off
<1>5. ASSUME NEW b \in Build, NEW mode \in {"auto", "manual", "command"}, Start(p, b, mode) PROVE DeployInvariant'
  <2>. DEFINE x == [Off EXCEPT !.at = "waiting", !.build = b, !.mode = mode]
  <2>1. x \in ProcessType /\ WritesMissing(x) /\ x.at = "waiting"
    BY FilesEmpty DEF Off, WritesMissing, ProcessType
  <2>2. deploy' = [deploy EXCEPT !.process[p] = x, !.starts = @ + 1]
    BY <1>5 DEF Start
  <2>. HIDE DEF x
  <2>3. DeployShape' /\ process' = [process EXCEPT ![p] = x] /\ UNCHANGED <<ledger, history, server>>
    BY <2>2 DEF DeployShape, ledger, history, process, server
  <2>. QED BY <2>1, <2>3, ProcessKeeps
<1>6. ASSUME NEW stage \in {"locked", "applying"}, Goes(p, stage), \A q \in Processes : Holds(q) => q = p,
             At(p, "waiting") \/ At(p, "locked"),
             stage = "applying" => ledger \subseteq process[p].build
      PROVE  DeployInvariant'
  <2>. DEFINE x == [process[p] EXCEPT !.at = stage]
  <2>1. x \in ProcessType /\ x.at = stage /\ x.written = <<>> /\ x.build = process[p].build
    BY <1>1, <1>6 DEF ProcessType, WritesMissing, At
  <2>2. WritesMissing(x)
    BY <1>6, <2>1, FilesEmpty DEF WritesMissing
  <2>3. deploy' = [deploy EXCEPT !.process[p] = x]
    BY <1>1, <1>6 DEF Goes, process, DeployShape
  <2>. HIDE DEF x
  <2>. QED BY <1>3, <1>6, <2>1, <2>2, <2>3
<1>7. CASE Lock(p)
  BY <1>6, <1>7 DEF Lock
<1>8. CASE Examine(p)
  <2>1. \A q \in Processes : Holds(q) => q = p
    BY <1>8 DEF Examine, At, Holds, ProcessesInv
  <2>. QED BY <1>4, <1>6, <1>8, <2>1 DEF Examine
<1>9. CASE Rollback(p) \/ Exit(p)
  BY <1>4, <1>9 DEF Rollback, Exit
<1>. QED BY <1>5, <1>7, <1>8, <1>9

\* The next migration is of the lowest version that is missing.
LEMMA ApplyStep ==
  ASSUME DeployShape, LedgerInv, ProcessesInv, ServersInv, NEW p \in Processes, ApplyNext(p)
  PROVE  DeployInvariant'
<1>. DEFINE run == process[p].written
           m == CHOOSE m \in Pending(p) : \A n \in Pending(p) : Version(m) <= Version(n)
           x == [process[p] EXCEPT !.written = Append(@, m)]
<1>1. /\ process[p] \in ProcessType /\ p \in DOMAIN process /\ process[p].at = "applying"
      /\ process[p].build \in Build \cup {{}} /\ run \in Seq(Nat)
      /\ ledger \subseteq process[p].build /\ Files(run) \subseteq process[p].build \ ledger /\ Distinct(run)
  BY DEF ApplyNext, At, ProcessesInv, ProcessType, WritesMissing, Processes
<1>2. process[p].build \subseteq Nat /\ \A k, n \in process[p].build : k # n => Version(k) # Version(n)
  BY <1>1, BuildAssumption DEF Version
<1>3. m \in Pending(p)
  <2>1. Pending(p) \subseteq Nat /\ Pending(p) # {}
    BY <1>2 DEF Pending, ApplyNext
  <2>. QED BY <2>1, LowestVersion
<1>4. m \in Nat /\ m \in process[p].build \ ledger /\ m \notin Files(run)
  BY <1>2, <1>3 DEF Pending
<1>. HIDE DEF m
<1>5. /\ Append(run, m) \in Seq(Nat) /\ Files(Append(run, m)) = Files(run) \cup {m}
      /\ Distinct(Append(run, m))
  <2>1. \A n \in Files(run) : Version(n) # Version(m)
    BY <1>1, <1>2, <1>4
  <2>. QED BY <1>1, <1>4, <2>1, FilesAppend
<1>6. x \in ProcessType /\ x.at = "applying" /\ x.written = Append(run, m) /\ x.build = process[p].build
  BY <1>1, <1>5 DEF ProcessType
<1>7. WritesMissing(x)
  BY <1>1, <1>4, <1>5, <1>6 DEF WritesMissing
<1>8. deploy' = [deploy EXCEPT !.process[p] = x]
  BY <1>1 DEF ApplyNext, process, DeployShape, m
<1>. HIDE DEF x
<1>9. DeployShape' /\ process' = [process EXCEPT ![p] = x] /\ UNCHANGED <<ledger, history, server>>
  BY <1>8 DEF DeployShape, ledger, history, process, server
<1>10. \A q \in Processes : Holds(q) => q = p
  BY <1>1 DEF Holds, ProcessesInv
<1>. QED BY <1>6, <1>7, <1>9, <1>10, ProcessKeeps

\* The transaction commits: what it wrote becomes the ledger's, which nobody
\* else was writing, and which is now all that the process carries.
LEMMA CommitStep ==
  ASSUME DeployShape, LedgerInv, ProcessesInv, ServersInv, NEW p \in Processes, Commit(p)
  PROVE  DeployInvariant'
<1>. DEFINE run == process[p].written
           x == [process[p] EXCEPT !.written = <<>>, !.at = IF process[p].mode = "command" THEN "backfill" ELSE "running"]
<1>1. /\ process \in [Processes -> ProcessType] /\ process[p] \in ProcessType /\ p \in DOMAIN process
      /\ process[p].at = "applying"
      /\ process[p].build \in Build \cup {{}} /\ run \in Seq(Nat)
      /\ ledger \subseteq process[p].build /\ Files(run) \subseteq process[p].build \ ledger /\ Distinct(run)
  BY DEF Commit, At, ProcessesInv, ProcessType, WritesMissing, Processes
<1>2. process[p].build \subseteq Nat /\ \A k, n \in process[p].build : k # n => Version(k) # Version(n)
  BY <1>1, BuildAssumption DEF Version
<1>3. x \in ProcessType /\ x.at \in {"backfill", "running"} /\ x.written = <<>> /\ x.build = process[p].build
  BY <1>1, FilesEmpty DEF ProcessType
<1>4. /\ deploy' = [deploy EXCEPT !.ledger = ledger \cup Files(run), !.history = history \o run, !.process = [process EXCEPT ![p] = x]]
  BY <1>1 DEF Commit, process, ledger, history, DeployShape
<1>. HIDE DEF x
<1>5. /\ DeployShape' /\ process' = [process EXCEPT ![p] = x] /\ server' = server
      /\ ledger' = ledger \cup Files(run) /\ history' = history \o run
  BY <1>4 DEF DeployShape, ledger, history, process, server
<1>6. LedgerInv'
  <2>1. Files(run) \subseteq Nat /\ \A k \in Files(history), n \in Files(run) : Version(k) # Version(n)
    BY <1>1, <1>2, FilesType DEF LedgerInv
  <2>2. /\ history \o run \in Seq(Nat) /\ Files(history \o run) = Files(history) \cup Files(run)
        /\ Distinct(history \o run)
    BY <1>1, <2>1, FilesConcat DEF LedgerInv
  <2>. QED BY <1>5, <2>1, <2>2 DEF LedgerInv, Distinct, Files
<1>7. ledger' = process[p].build
  BY <1>1, <1>5 DEF Commit, Pending
<1>8. /\ Processes' = Processes /\ process' \in [Processes -> ProcessType] /\ process'[p] = x
      /\ \A q \in Processes \ {p} : process'[q] = process[q] /\ process[q].at \notin {"locked", "applying"}
  BY <1>1, <1>3, <1>5 DEF ProcessesInv, Processes, Holds
<1>9. (\A q \in Processes : WritesMissing(process[q]))'
  <2>1. ASSUME NEW q \in Processes PROVE WritesMissing(process[q])'
    <3>1. CASE q = p
      BY <1>3, <1>7, <1>8, <3>1 DEF WritesMissing
    <3>2. CASE q # p
      BY <1>1, <1>7, <1>8, <3>2 DEF ProcessesInv, WritesMissing
    <3>. QED BY <3>1, <3>2
  <2>. QED BY <1>8, <2>1
<1>10. (\A q, r \in Processes : Holds(q) /\ Holds(r) => q = r)'
  BY <1>3, <1>8 DEF Holds
<1>11. ServersInv'
  BY <1>5 DEF ServersInv, Servers
<1>. QED BY <1>5, <1>6, <1>8, <1>9, <1>10, <1>11 DEF DeployInvariant, ProcessesInv

-----------------------------------------------------------------------------
\* One server's record changes, and the rest of the database stays.
LEMMA ServerKeeps ==
  ASSUME DeployShape, LedgerInv, ProcessesInv, ServersInv,
         NEW s \in Servers, NEW r \in ServerType, Sound(s, r), Update(s, r)
  PROVE  DeployInvariant'
<1>1. DeployShape' /\ server' = [server EXCEPT ![s] = r] /\ UNCHANGED <<ledger, history, process>>
  BY DEF Update, DeployShape, ledger, history, process, server
<1>2. Servers' = Servers /\ server' \in [Servers -> ServerType] /\ \A t \in Servers : Sound(t, server'[t])
  BY <1>1 DEF ServersInv, Servers
<1>3. LedgerInv' /\ ProcessesInv'
  BY <1>1 DEF LedgerInv, ProcessesInv, Processes, Holds, WritesMissing
<1>. QED BY <1>1, <1>2, <1>3 DEF DeployInvariant, ServersInv

\* Every plan has an application, and every server a number of them.
LEMMA Numbers ==
  ASSUME NEW r \in ServerType
  PROVE  /\ r.plan \in Nat \ {0} /\ r.hold \in Nat /\ r.quota \in QuotaType /\ r.quota.plan \in Nat
         /\ Len(r.apps) \in Nat /\ DOMAIN r.apps = 1 .. Len(r.apps)
<1>1. /\ r.plan \in Plan /\ r.hold \in {0} \cup Plan /\ r.quota \in QuotaType
      /\ r.apps \in Seq({0} \cup Worker)
  BY DEF ServerType
<1>2. r.quota.plan \in {0} \cup Plan
  BY <1>1 DEF QuotaType
<1>3. r.plan \in Nat \ {0} /\ r.hold \in Nat /\ r.quota.plan \in Nat
  <2>1. \A p \in Plan : p \in Nat \ {0}
    BY SalesAssumption
  <2>. QED BY <1>1, <1>2, <2>1
<1>4. Len(r.apps) \in Nat /\ DOMAIN r.apps = 1 .. Len(r.apps)
  BY <1>1, LenProperties
<1>. QED BY <1>1, <1>3, <1>4

\* Another generation of a quota has its event.
LEMMA AnotherGeneration ==
  ASSUME NEW q \in QuotaType, q.events = q.generation
  PROVE  /\ Changed(q) \in QuotaType /\ Changed(q).events = Changed(q).generation
         /\ Changed(q).granted = q.granted /\ Changed(q).sold = q.sold
         /\ Changed(q).plan = q.plan /\ Changed(q).active = q.active
<1>1. q.generation \in Nat /\ q.events \in Nat
  BY DEF QuotaType
<1>2. Changed(q) = [q EXCEPT !.generation = q.generation + 1, !.events = q.generation + 1]
  BY DEF Changed, QuotaType
<1>3. /\ Changed(q).generation = q.generation + 1 /\ Changed(q).events = q.generation + 1
      /\ Changed(q).granted = q.granted /\ Changed(q).sold = q.sold
      /\ Changed(q).plan = q.plan /\ Changed(q).active = q.active
  BY <1>2 DEF QuotaType
<1>4. Changed(q) \in QuotaType
  <2>1. q.generation + 1 \in Nat
    BY <1>1
  <2>. QED BY <1>2, <2>1 DEF QuotaType
<1>. QED BY <1>3, <1>4

LEMMA HoldSteps ==
  ASSUME DeployShape, LedgerInv, ProcessesInv, ServersInv, NEW s \in Servers,
         AcquireHold(s) \/ ReleaseHold(s) \/ \E p \in Plan : BeginChange(s, p)
  PROVE  DeployInvariant'
<1>1. server[s] \in ServerType /\ Sound(s, server[s])
  BY DEF ServersInv
<1>2. ASSUME NEW h \in {0} \cup Plan, Update(s, [server[s] EXCEPT !.hold = h]),
             h # 0 => Len(server[s].apps) <= h /\ (~server[s].quota.granted => s \notin Legacy)
      PROVE  DeployInvariant'
  <2>. DEFINE r == [server[s] EXCEPT !.hold = h]
  <2>1. r \in ServerType /\ Sound(s, r)
    BY <1>1, <1>2 DEF ServerType, Sound
  <2>. QED BY <1>2, <2>1, ServerKeeps
<1>3. CASE AcquireHold(s)
  <2>1. server[s].plan \in Plan /\ Len(server[s].apps) <= server[s].plan
    <3>1. Len(server[s].apps) = 1
      BY <1>1, <1>3 DEF AcquireHold, Sound
    <3>2. server[s].plan \in Plan /\ server[s].plan \in Nat \ {0}
      BY <1>1, Numbers DEF ServerType
    <3>. QED BY <3>1, <3>2
  <2>. QED BY <1>2, <1>3, <2>1 DEF AcquireHold
<1>4. CASE ReleaseHold(s)
  BY <1>2, <1>4 DEF ReleaseHold
<1>5. ASSUME NEW p \in Plan, BeginChange(s, p) PROVE DeployInvariant'
  BY <1>1, <1>2, <1>5 DEF BeginChange, Sound
<1>. QED BY <1>3, <1>4, <1>5

\* The quota of a checkout is the plan it asked for, and its server runs no more.
LEMMA ConsumeHoldStep ==
  ASSUME DeployShape, LedgerInv, ProcessesInv, ServersInv, NEW s \in Servers, ConsumeHold(s)
  PROVE  DeployInvariant'
<1>1. server[s] \in ServerType /\ Sound(s, server[s])
  BY DEF ServersInv
<1>2. PICK apps \in [DOMAIN server[s].apps -> Worker] : \E w \in {apps[i] : i \in DOMAIN apps} :
            Update(s, [server[s] EXCEPT !.hold = 0, !.paid = 1, !.apps = apps, !.affinity = w,
              !.quota = [granted |-> TRUE, plan |-> server[s].hold, worker |-> w, generation |-> 1, active |-> TRUE, sold |-> TRUE, events |-> 1]])
  BY DEF ConsumeHold
<1>3. PICK w \in Worker :
            Update(s, [server[s] EXCEPT !.hold = 0, !.paid = 1, !.apps = apps, !.affinity = w,
              !.quota = [granted |-> TRUE, plan |-> server[s].hold, worker |-> w, generation |-> 1, active |-> TRUE, sold |-> TRUE, events |-> 1]])
  BY <1>2
<1>4. apps \in Seq({0} \cup Worker) /\ Len(apps) = Len(server[s].apps)
  BY <1>1, Numbers
<1>. DEFINE q == [granted |-> TRUE, plan |-> server[s].hold, worker |-> w, generation |-> 1, active |-> TRUE, sold |-> TRUE, events |-> 1]
           r == [server[s] EXCEPT !.hold = 0, !.paid = 1, !.apps = apps, !.affinity = w, !.quota = q]
<1>5. q \in QuotaType /\ q.granted /\ q.sold /\ q.events = q.generation /\ q.plan = server[s].hold
  BY <1>1 DEF QuotaType, ServerType
<1>6. Len(server[s].apps) <= server[s].hold /\ s \notin Legacy
  BY <1>1 DEF ConsumeHold, Sound
<1>. HIDE DEF q
<1>7. r \in ServerType /\ Sound(s, r)
  BY <1>1, <1>4, <1>5, <1>6 DEF ServerType, Sound
<1>8. Update(s, r)
  BY <1>3 DEF q
<1>. QED BY <1>7, <1>8, ServerKeeps

LEMMA QuotaSteps ==
  ASSUME DeployShape, LedgerInv, ProcessesInv, ServersInv, NEW s \in Servers,
         Suspend(s) \/ Reactivate(s) \/ ConsumeChange(s)
  PROVE  DeployInvariant'
<1>. DEFINE quota == server[s].quota
<1>1. /\ server[s] \in ServerType /\ Sound(s, server[s]) /\ quota \in QuotaType /\ Changed(quota) \in QuotaType
      /\ Changed(quota).events = Changed(quota).generation
      /\ Changed(quota).granted = quota.granted /\ Changed(quota).sold = quota.sold
      /\ Changed(quota).plan = quota.plan /\ Changed(quota).active = quota.active
  BY Numbers, AnotherGeneration DEF ServersInv, Sound
<1>2. CASE Suspend(s)
  <2>. DEFINE q == IF quota.granted THEN [Changed(quota) EXCEPT !.active = FALSE] ELSE quota
             r == [server[s] EXCEPT !.paid = 0, !.hold = 0, !.quota = q]
  <2>1. /\ q \in QuotaType /\ q.events = q.generation /\ q.granted = quota.granted /\ q.sold = quota.sold
        /\ q.plan = quota.plan /\ (q.active => q.granted)
    BY <1>1 DEF QuotaType, Sound
  <2>2. Update(s, r)
    BY <1>1, <1>2 DEF Suspend, ServerType
  <2>. HIDE DEF q
  <2>3. r \in ServerType /\ Sound(s, r)
    BY <1>1, <2>1 DEF ServerType, Sound
  <2>. QED BY <2>2, <2>3, ServerKeeps
<1>3. CASE Reactivate(s)
  <2>. DEFINE q == [Changed(quota) EXCEPT !.active = TRUE]
             r == [server[s] EXCEPT !.paid = 1, !.quota = q]
  <2>1. /\ q \in QuotaType /\ q.events = q.generation /\ q.granted = quota.granted /\ q.sold = quota.sold
        /\ q.plan = quota.plan /\ q.granted
    BY <1>1, <1>3 DEF QuotaType, Reactivate, Grows
  <2>2. Update(s, r)
    BY <1>1, <1>3 DEF Reactivate, ServerType
  <2>. HIDE DEF q
  <2>3. r \in ServerType /\ Sound(s, r)
    BY <1>1, <2>1 DEF ServerType, Sound
  <2>. QED BY <2>2, <2>3, ServerKeeps
<1>4. CASE ConsumeChange(s)
  <2>. DEFINE q == [Changed(quota) EXCEPT !.plan = server[s].hold]
             r == [server[s] EXCEPT !.plan = server[s].hold, !.hold = 0, !.quota = q]
  <2>1. server[s].hold \in Plan /\ Len(server[s].apps) <= server[s].hold /\ quota.granted
    BY <1>1, <1>4 DEF ConsumeChange, ServerType, Sound
  <2>2. /\ q \in QuotaType /\ q.events = q.generation /\ q.granted = quota.granted /\ q.sold = quota.sold
        /\ q.plan = server[s].hold /\ q.active = quota.active
    BY <1>1, <2>1 DEF QuotaType
  <2>3. Update(s, r)
    BY <1>1, <1>4 DEF ConsumeChange, ServerType
  <2>. HIDE DEF q
  <2>4. r \in ServerType /\ Sound(s, r)
    BY <1>1, <2>1, <2>2 DEF ServerType, Sound
  <2>. QED BY <2>3, <2>4, ServerKeeps
<1>. QED BY <1>2, <1>3, <1>4

LEMMA AddApplicationStep ==
  ASSUME DeployShape, LedgerInv, ProcessesInv, ServersInv, NEW s \in Servers, NEW w \in Worker, AddApplication(s, w)
  PROVE  DeployInvariant'
<1>. DEFINE r == [server[s] EXCEPT !.apps = Append(server[s].apps, w)]
<1>1. server[s] \in ServerType /\ Sound(s, server[s]) /\ server[s].apps \in Seq({0} \cup Worker)
  BY DEF ServersInv, ServerType
<1>2. Append(server[s].apps, w) \in Seq({0} \cup Worker) /\ Len(Append(server[s].apps, w)) = Len(server[s].apps) + 1
  BY <1>1, AppendProperties
<1>3. Len(server[s].apps) + 1 <= server[s].quota.plan
  BY <1>1, Numbers DEF AddApplication
<1>4. r \in ServerType /\ Sound(s, r)
  BY <1>1, <1>2, <1>3 DEF ServerType, Sound, AddApplication
<1>5. Update(s, r)
  BY <1>1 DEF AddApplication, ServerType
<1>. QED BY <1>4, <1>5, ServerKeeps

-----------------------------------------------------------------------------
\* What the backfill grants fits, and is no checkout's: it accepts only a server
\* without a quota, or with the one it would grant.
LEMMA GrantedIsSound ==
  ASSUME ServersInv, NEW s \in Paid, Matches(s), server[s].quota \in {NoQuota, Granted(s)}, server[s].hold = 0
  PROVE  LET r == [server[s] EXCEPT !.affinity = Granted(s).worker, !.quota = Granted(s)]
         IN r \in ServerType /\ Sound(s, r)
<1>. DEFINE r == [server[s] EXCEPT !.affinity = Granted(s).worker, !.quota = Granted(s)]
<1>1. s \in Servers /\ server[s] \in ServerType /\ Sound(s, server[s]) /\ server[s].paid > 0
  BY DEF Paid, ServersInv
<1>2. PICK w \in WorkersOf(s) : w = CHOOSE v \in WorkersOf(s) : TRUE
  <2>1. Cardinality(WorkersOf(s)) = 1
    BY DEF Matches
  <2>2. \E w : w \in WorkersOf(s)
    BY <2>1, FS_EmptySet
  <2>. QED BY <2>2
<1>3. w \in {0} \cup Worker
  BY <1>1, LenProperties DEF WorkersOf, ServerType
<1>4. Granted(s) = [granted |-> TRUE, plan |-> server[s].plan, worker |-> w, generation |-> 1,
                    active |-> TRUE, sold |-> FALSE, events |-> 1]
  BY <1>2 DEF Granted
<1>5. /\ Granted(s) \in QuotaType /\ Granted(s).granted /\ Granted(s).sold = FALSE /\ Granted(s).worker \in {0} \cup Worker
      /\ Granted(s).plan = server[s].plan /\ Granted(s).events = Granted(s).generation
  BY <1>1, <1>3, <1>4 DEF QuotaType, ServerType
<1>6. s \in Legacy
  <2>1. CASE server[s].quota = NoQuota
    BY <1>1, <2>1 DEF NoQuota, Sound, ServerType
  <2>2. CASE server[s].quota = Granted(s)
    BY <1>1, <1>5, <2>2 DEF Sound
  <2>. QED BY <2>1, <2>2
<1>7. Len(server[s].apps) <= server[s].plan
  BY DEF Matches
<1>8. /\ r \in ServerType /\ r.quota = Granted(s) /\ r.hold = 0 /\ r.apps = server[s].apps
  <2>1. ASSUME NEW q \in QuotaType, NEW v \in {0} \cup Worker
        PROVE  LET x == [server[s] EXCEPT !.affinity = v, !.quota = q]
               IN x \in ServerType /\ x.quota = q /\ x.hold = 0 /\ x.apps = server[s].apps
    BY <1>1 DEF ServerType
  <2>. QED BY <1>5, <2>1
<1>. HIDE DEF r
<1>9. Sound(s, r)
  BY <1>5, <1>6, <1>7, <1>8 DEF Sound
<1>. QED BY <1>8, <1>9 DEF r

LEMMA BackfillStep ==
  ASSUME DeployShape, LedgerInv, ProcessesInv, ServersInv, NEW p \in Processes, Backfill(p)
  PROVE  DeployInvariant'
<1>1. process[p] \in ProcessType /\ WritesMissing(process[p]) /\ p \in DOMAIN process /\ process[p].at = "backfill"
  BY DEF Backfill, At, ProcessesInv, Processes
<1>2. CASE NoHolds /\ \A s \in Paid : Matches(s) /\ server[s].quota \in {NoQuota, Granted(s)}
  <2>. DEFINE x == [process[p] EXCEPT !.at = "done"]
             new == [s \in Servers |-> IF s \in Paid THEN [server[s] EXCEPT !.affinity = Granted(s).worker, !.quota = Granted(s)]
                                       ELSE server[s]]
  <2>1. deploy' = [deploy EXCEPT !.process = [process EXCEPT ![p] = x], !.server = new]
    BY <1>1, <1>2 DEF Backfill, process, DeployShape
  <2>2. x \in ProcessType /\ WritesMissing(x) /\ x.at = "done"
    BY <1>1 DEF ProcessType, WritesMissing
  <2>. HIDE DEF x
  <2>3. \A s \in Servers : new[s] \in ServerType /\ Sound(s, new[s])
    BY <1>2, GrantedIsSound DEF ServersInv, NoHolds, Paid
  <2>4. DOMAIN new = Servers /\ new \in [Servers -> ServerType]
    BY <2>3
  <2>. HIDE DEF new
  <2>5. DeployShape' /\ process' = [process EXCEPT ![p] = x] /\ UNCHANGED <<ledger, history>> /\ server' = new
    BY <2>1 DEF DeployShape, ledger, history, process, server
  <2>6. ServersInv'
    BY <2>3, <2>4, <2>5 DEF ServersInv, Servers
  <2>7. /\ Processes' = Processes /\ process' \in [Processes -> ProcessType] /\ process'[p] = x
        /\ \A q \in Processes \ {p} : process'[q] = process[q]
    BY <2>2, <2>5 DEF ProcessesInv, Processes
  <2>8. ProcessesInv'
    BY <2>2, <2>5, <2>7 DEF ProcessesInv, Holds, WritesMissing
  <2>. QED BY <2>5, <2>6, <2>8 DEF DeployInvariant, LedgerInv
<1>3. CASE ~(NoHolds /\ \A s \in Paid : Matches(s) /\ server[s].quota \in {NoQuota, Granted(s)})
  <2>1. /\ DeployShape' /\ process' = [process EXCEPT ![p] = Off] /\ UNCHANGED <<ledger, history, server>>
    BY <1>3 DEF Backfill, DeployShape, ledger, history, process, server
  <2>2. Off \in ProcessType /\ WritesMissing(Off) /\ Off.at = "off"
    BY FilesEmpty DEF Off, ProcessType, WritesMissing
  <2>. QED BY <2>1, <2>2, ProcessKeeps
<1>. QED BY <1>2, <1>3

-----------------------------------------------------------------------------
LEMMA InitInvariant == Init => DeployInvariant
<1>1. Off \in ProcessType /\ Off.at = "off" /\ Off.written = <<>> /\ NoQuota \in QuotaType /\ NoQuota.plan = 0
  BY FilesEmpty DEF Off, ProcessType, NoQuota, QuotaType
<1>2. ASSUME NEW P, NEW explained,
             deploy = [ledger |-> {}, history |-> <<>>, process |-> [p \in P |-> Off], starts |-> 0,
                       server |-> server, explained |-> explained]
      PROVE  DeployShape /\ LedgerInv /\ ProcessesInv
  <2>1. DeployShape /\ ledger = {} /\ history = <<>> /\ process = [p \in P |-> Off]
    BY <1>2 DEF DeployShape, ledger, history, process
  <2>. QED BY <1>1, <2>1, FilesEmpty DEF LedgerInv, ProcessesInv, Processes, Holds, WritesMissing
<1>3. ASSUME InitSchema PROVE DeployInvariant
  <2>1. server = [s \in {} |-> 0]
    BY <1>3 DEF InitSchema, server
  <2>2. ServersInv
    BY <2>1 DEF ServersInv, Servers
  <2>3. DeployShape /\ LedgerInv /\ ProcessesInv
    BY <1>2, <1>3, <2>1 DEF InitSchema
  <2>. QED BY <2>2, <2>3 DEF DeployInvariant
<1>4. ASSUME InitSales PROVE DeployInvariant
  <2>1. PICK old \in [Legacy -> OldServer], new \in [Server \ Legacy -> NewServer] :
          deploy = [ledger |-> {}, history |-> <<>>, process |-> [p \in {CHOOSE p \in Process : TRUE} |-> Off], starts |-> 0,
                    server |-> [s \in Server |-> IF s \in Legacy THEN old[s] ELSE new[s]], explained |-> TRUE]
    BY <1>4 DEF InitSales
  <2>2. server = [s \in Server |-> IF s \in Legacy THEN old[s] ELSE new[s]]
    BY <2>1 DEF server
  <2>3. ASSUME NEW r \in OldServer PROVE r \in ServerType /\ \A s \in Legacy : Sound(s, r)
    <3>1. r.apps \in {<<>>} \cup UNION {[1 .. n -> {0} \cup Worker] : n \in 1 .. MaxApps}
      BY DEF OldServer
    <3>2. ASSUME NEW n \in 1 .. MaxApps, r.apps \in [1 .. n -> {0} \cup Worker] PROVE r.apps \in Seq({0} \cup Worker)
      BY <3>2, SalesAssumption
    <3>3. r.apps \in Seq({0} \cup Worker)
      BY <3>1, <3>2, EmptySeq
    <3>4. /\ r.plan \in Plan /\ r.paid \in {1, 2} /\ r.clean \in BOOLEAN /\ r.affinity \in {0} \cup Worker
          /\ r.hold = 0 /\ r.quota = NoQuota
          /\ r = [plan |-> r.plan, paid |-> r.paid, clean |-> r.clean, affinity |-> r.affinity, apps |-> r.apps, hold |-> r.hold, quota |-> r.quota]
      BY DEF OldServer
    <3>5. r \in ServerType
      BY <1>1, <3>3, <3>4 DEF ServerType
    <3>6. \A s \in Legacy : Sound(s, r)
      BY <3>4 DEF Sound, NoQuota
    <3>. QED BY <3>5, <3>6
  <2>4. ASSUME NEW r \in NewServer PROVE r \in ServerType /\ \A s \in Server \ Legacy : Sound(s, r)
    <3>1. <<0>> \in Seq({0} \cup Worker) /\ Len(<<0>>) = 1
      OBVIOUS
    <3>2. /\ r.plan \in Plan /\ r.paid = 0 /\ r.clean \in BOOLEAN /\ r.affinity = 0
          /\ r.apps = <<0>> /\ r.hold = 0 /\ r.quota = NoQuota
          /\ r = [plan |-> r.plan, paid |-> r.paid, clean |-> r.clean, affinity |-> r.affinity, apps |-> r.apps, hold |-> r.hold, quota |-> r.quota]
      BY DEF NewServer
    <3>3. r \in ServerType
      BY <1>1, <3>1, <3>2 DEF ServerType
    <3>4. \A s \in Server \ Legacy : Sound(s, r)
      BY <3>1, <3>2 DEF Sound, NoQuota
    <3>. QED BY <3>3, <3>4
  <2>5. Servers = Server /\ \A s \in Servers : server[s] \in ServerType /\ Sound(s, server[s])
    BY <2>2, <2>3, <2>4 DEF Servers
  <2>6. ServersInv
    BY <2>2, <2>5 DEF ServersInv
  <2>7. DeployShape /\ LedgerInv /\ ProcessesInv
    BY <1>2, <2>1, <2>2
  <2>. QED BY <2>6, <2>7 DEF DeployInvariant
<1>. QED BY <1>3, <1>4 DEF Init, DeployInvariant

LEMMA DeployStep ==
  ASSUME DeployInvariant, part \in {"schema", "sales"}, Deploy
  PROVE  DeployInvariant'
<1>1. DeployShape /\ LedgerInv /\ ProcessesInv /\ ServersInv
  BY DEF DeployInvariant
<1>2. ASSUME NEW p \in Processes, NEW b \in Build, NEW mode \in {"auto", "manual", "command"}, Start(p, b, mode)
      PROVE  DeployInvariant'
  BY <1>1, <1>2, QuietProcessSteps
<1>3. ASSUME NEW p \in Processes, Lock(p) \/ Rollback(p) \/ Examine(p) \/ ApplyNext(p) \/ Commit(p) \/ Exit(p) \/ Backfill(p)
      PROVE  DeployInvariant'
  BY <1>1, <1>3, QuietProcessSteps, ApplyStep, CommitStep, BackfillStep
<1>4. ASSUME NEW s \in Servers, Sales(s) PROVE DeployInvariant'
  BY <1>1, <1>4, HoldSteps, ConsumeHoldStep, QuotaSteps, AddApplicationStep DEF Sales
<1>. QED BY <1>2, <1>3, <1>4 DEF Deploy

LEMMA StepInvariant == DeployInvariant /\ [Next]_vars => DeployInvariant'
<1>. SUFFICES ASSUME DeployInvariant, [Next]_vars PROVE DeployInvariant'
  OBVIOUS
<1>1. CASE part \in {"schema", "sales"} /\ Deploy
  BY <1>1, DeployStep
<1>2. ASSUME UNCHANGED <<part, deploy>> PROVE DeployInvariant'
  BY <1>2 DEF DeployInvariant, DeployShape, LedgerInv, ProcessesInv, ServersInv, ledger, history, process, server,
     Processes, Servers, Holds, WritesMissing
<1>3. ASSUME part = "host", part' = part PROVE DeployInvariant'
  BY <1>3 DEF DeployInvariant
<1>. QED BY <1>1, <1>2, <1>3 DEF Next, vars

-----------------------------------------------------------------------------
\* The inductive invariant of releases and sales.
THEOREM DeploySafety == Spec => []DeployInvariant
BY InitInvariant, StepInvariant, PTL DEF Spec

\* However many processes of however many builds start at once, the database
\* runs each migration once and a process that runs finds its own in it.
THEOREM SchemaIsAlwaysRecorded == Spec => []SchemaIsRecorded
<1>1. DeployInvariant => SchemaIsRecorded
  BY DEF DeployInvariant, SchemaIsRecorded, LedgerInv, ProcessesInv, Distinct, WritesMissing
<1>. QED BY <1>1, DeploySafety, PTL

\* Quotas stay in step with their events and their servers' applications,
\* whoever granted them and however sales and migrations alternate.
THEOREM GrantsAreAlwaysSound == Spec => []GrantsAreSound
<1>1. DeployInvariant => GrantsAreSound
  BY DEF DeployInvariant, GrantsAreSound, ServersInv, Sound
<1>. QED BY <1>1, DeploySafety, PTL

-----------------------------------------------------------------------------
(* The loop of allocateCapacity, over what SumTheorems says of best fit.    *)

\* The loop's module has its own copy of the operators of Placement.
LEMMA SameOperators ==
  /\ Allocation!Dimension = Dimension
  /\ \A S : Allocation!Vector(S) = Vector(S)
  /\ \A a, b, need : Allocation!PlacedBefore(a, b, need) <=> PlacedBefore(a, b, need)
  /\ \A need, room : Allocation!Fits(need, room) <=> Fits(need, room)
  /\ \A A, W, need, room : Allocation!Placements(A, W, need, room) = Placements(A, W, need, room)
  /\ \A asg, A, W, need, room, left :
       Allocation!FitSoFar(asg, A, W, need, room, left) <=> FitSoFar(asg, A, W, need, room, left)
<1>1. Allocation!Dimension = Dimension
  BY DEF Allocation!Dimension, Dimension
<1>2. \A S : Allocation!Vector(S) = Vector(S)
  BY DEF Allocation!Vector, Vector
<1>3. \A a, b, need : Allocation!PlacedBefore(a, b, need) <=> PlacedBefore(a, b, need)
  BY DEF Allocation!PlacedBefore, PlacedBefore
<1>4. \A need, room : Allocation!Fits(need, room) <=> Fits(need, room)
  BY <1>1 DEF Allocation!Fits, Fits
<1>5. \A S, need, d : Allocation!Load(S, need, d) = Load(S, need, d)
  BY DEF Allocation!Load, Load, Allocation!MapThenSumSet, MapThenSumSet, Allocation!MapThenFoldSet, MapThenFoldSet
<1>6. \A w, a, asg, need, room : Allocation!RoomAt(w, a, asg, need, room) = RoomAt(w, a, asg, need, room)
  BY <1>1, <1>3, <1>5 DEF Allocation!RoomAt, RoomAt
<1>7. \A asg, W, need, room : Allocation!IsBestFit(asg, W, need, room) <=> IsBestFit(asg, W, need, room)
  BY <1>4, <1>6 DEF Allocation!IsBestFit, IsBestFit
<1>8. \A A, W, need, room : Allocation!Placements(A, W, need, room) = Placements(A, W, need, room)
  BY <1>7 DEF Allocation!Placements, Placements
<1>9. \A asg, A, W, need, room, left :
        Allocation!FitSoFar(asg, A, W, need, room, left) <=> FitSoFar(asg, A, W, need, room, left)
  BY <1>1, <1>3, <1>5, <1>7 DEF Allocation!FitSoFar, FitSoFar
<1>. QED BY <1>1, <1>2, <1>3, <1>4, <1>8, <1>9

\* What the invariant says to the lemmas on best fit.
LEMMA LoopFacts ==
  ASSUME Allocation!LoopInvariant
  PROVE  /\ Reservations(DOMAIN demand, demand) /\ Bins(DOMAIN free, free) /\ DOMAIN free \in SUBSET Nat
         /\ FitSoFar(allocated, DOMAIN demand, DOMAIN free, demand, free, bins)
         /\ requested # <<>> => Turn(Head(requested), DOMAIN demand, allocated, demand)
<1>1. Reservations(DOMAIN demand, demand)
  <2>1. DOMAIN demand \in SUBSET Nat /\ IsFiniteSet(DOMAIN demand)
    BY LoopAssumption, FS_Subset DEF Allocation!LoopInvariant
  <2>2. demand \in [DOMAIN demand -> Vector(Nat)]
    BY SameOperators DEF Allocation!LoopInvariant
  <2>. QED BY <2>1, <2>2 DEF Reservations
<1>2. Bins(DOMAIN free, free) /\ DOMAIN free \in SUBSET Nat
  BY LoopAssumption, SameOperators DEF Allocation!LoopInvariant, Bins
<1>3. FitSoFar(allocated, DOMAIN demand, DOMAIN free, demand, free, bins)
  BY SameOperators DEF Allocation!LoopInvariant
<1>4. ASSUME requested # <<>> PROVE Turn(Head(requested), DOMAIN demand, allocated, demand)
  <2>1. /\ requested \in Seq(DOMAIN demand)
        /\ \A i, j \in DOMAIN requested : i < j => PlacedBefore(requested[i], requested[j], demand)
        /\ DOMAIN allocated = DOMAIN demand \ {requested[i] : i \in DOMAIN requested}
    BY SameOperators DEF Allocation!LoopInvariant
  <2>2. 1 \in DOMAIN requested /\ Head(requested) = requested[1] /\ requested[1] \in DOMAIN demand
    BY <1>4, <2>1
  <2>3. ASSUME NEW c \in DOMAIN demand, c \notin DOMAIN allocated, c # requested[1]
        PROVE  PlacedBefore(requested[1], c, demand)
    <3>1. PICK i \in DOMAIN requested : c = requested[i]
      BY <2>1, <2>3
    <3>2. 1 < i
      BY <2>1, <2>3, <3>1
    <3>. QED BY <2>1, <2>2, <3>1, <3>2
  <2>. QED BY <2>1, <2>2, <2>3 DEF Turn
<1>. QED BY <1>1, <1>2, <1>3, <1>4

\* The reservations are sorted before the loop.
LEMMA RequestedIsSorted ==
  ASSUME Reservations(DOMAIN demand, demand)
  PROVE  /\ Allocation!Requested(demand) \in Seq(DOMAIN demand)
         /\ DOMAIN demand = {Allocation!Requested(demand)[i] : i \in DOMAIN Allocation!Requested(demand)}
         /\ \A i, j \in DOMAIN Allocation!Requested(demand) :
              i < j => PlacedBefore(Allocation!Requested(demand)[i], Allocation!Requested(demand)[j], demand)
<1>. DEFINE A == DOMAIN demand
            n == Cardinality(A)
            r == Allocation!Requested(demand)
<1>1. A \in SUBSET Nat /\ IsFiniteSet(A) /\ \A a \in A : demand[a] \in Vector(Nat)
  BY DEF Reservations
<1>2. PICK s \in [1 .. n -> A] : A = {s[i] : i \in 1 .. n} /\ \A i, j \in 1 .. n : i < j => PlacedBefore(s[i], s[j], demand)
  <2>. HIDE DEF A
  <2>. QED BY <1>1, SortExists
<1>3. Allocation!Cardinality(A) = n /\ n \in Nat
  BY <1>1, FS_CardinalityType DEF Cardinality, Allocation!Cardinality
<1>4. \A t \in [1 .. n -> A] : Allocation!Sorts(t, demand) <=>
        A = {t[i] : i \in 1 .. n} /\ \A i, j \in 1 .. n : i < j => PlacedBefore(t[i], t[j], demand)
  BY <1>3, SameOperators DEF Allocation!Sorts
<1>5. r = CHOOSE t \in [1 .. n -> A] : Allocation!Sorts(t, demand)
  BY <1>3 DEF Allocation!Requested
<1>. HIDE DEF A, n, r
<1>6. r \in [1 .. n -> A] /\ Allocation!Sorts(r, demand)
  BY <1>2, <1>4, <1>5
<1>7. r \in Seq(A) /\ DOMAIN r = 1 .. n
  BY <1>3, <1>6
<1>8. A = {r[i] : i \in DOMAIN r} /\ \A i, j \in DOMAIN r : i < j => PlacedBefore(r[i], r[j], demand)
  BY <1>4, <1>6, <1>7
<1>. QED BY <1>7, <1>8 DEF A, r

LEMMA LoopStarts == Allocation!Init => Allocation!LoopInvariant
<1>. SUFFICES ASSUME Allocation!Init PROVE Allocation!LoopInvariant
  OBVIOUS
<1>1. /\ demand \in [DOMAIN demand -> Vector(Nat)] /\ DOMAIN demand \subseteq App
      /\ free \in [DOMAIN free -> Vector(Nat)] /\ DOMAIN free \subseteq Worker
  <2>1. PICK A \in SUBSET App : demand \in [A -> Vector(Amount \ {0})]
    BY SameOperators DEF Allocation!Init
  <2>2. PICK W \in SUBSET Worker : free \in [W -> Vector(Amount)]
    BY SameOperators DEF Allocation!Init
  <2>3. Vector(Amount \ {0}) \subseteq Vector(Nat) /\ Vector(Amount) \subseteq Vector(Nat)
    BY LoopAssumption DEF Vector
  <2>. QED BY <2>1, <2>2, <2>3
<1>2. \A w \in DOMAIN free, d \in Dimension : free[w][d] \in Nat
  BY <1>1 DEF Vector, Dimension
<1>3. /\ requested = Allocation!Requested(demand) /\ bins = free /\ allocated = [a \in {} |-> 0]
      /\ outcome = IF DOMAIN free = {} THEN "refused" ELSE "running"
  BY DEF Allocation!Init
<1>4. Reservations(DOMAIN demand, demand) /\ Bins(DOMAIN free, free)
  BY <1>1, <1>2, LoopAssumption, FS_Subset DEF Reservations, Bins
<1>5. /\ requested \in Seq(DOMAIN demand)
      /\ DOMAIN demand = {requested[i] : i \in DOMAIN requested}
      /\ \A i, j \in DOMAIN requested : i < j => PlacedBefore(requested[i], requested[j], demand)
  BY <1>3, <1>4, RequestedIsSorted
<1>6. FitSoFar(allocated, DOMAIN demand, DOMAIN free, demand, free, bins)
  BY <1>3, <1>4, NothingFits
<1>7. DOMAIN allocated = {}
  BY <1>3
<1>. QED BY <1>1, <1>2, <1>3, <1>5, <1>6, <1>7, SameOperators DEF Allocation!LoopInvariant

\* The worker the loop chooses is the best one.
LEMMA ChoiceIsBest ==
  ASSUME Allocation!LoopInvariant, requested # <<>>, Allocation!Candidates(Head(requested)) # {}
  PROVE  Best(Allocation!Tightest(Allocation!Candidates(Head(requested))), DOMAIN free, demand[Head(requested)], bins)
<1>. DEFINE a == Head(requested)
            C == Allocation!Candidates(a)
            w == Allocation!Tightest(C)
<1>1. /\ Reservations(DOMAIN demand, demand) /\ Bins(DOMAIN free, free) /\ DOMAIN free \in SUBSET Nat
      /\ FitSoFar(allocated, DOMAIN demand, DOMAIN free, demand, free, bins) /\ a \in DOMAIN demand
  BY LoopFacts DEF Turn
<1>2. C = {v \in DOMAIN free : Fits(demand[a], bins[v])}
  <2>1. DOMAIN bins = DOMAIN free
    BY DEF Allocation!LoopInvariant
  <2>. QED BY <2>1, SameOperators DEF Allocation!Candidates
<1>3. w = CHOOSE u \in C : \A v \in C :
             bins[u].memory < bins[v].memory \/ (bins[u].memory = bins[v].memory /\ u <= v)
  BY DEF Allocation!Tightest
<1>. HIDE DEF a, C, w
<1>4. \A v \in C : bins[v].memory \in Nat
  <2>. SUFFICES ASSUME NEW v \in C PROVE bins[v].memory \in Nat
    OBVIOUS
  <2>1. v \in DOMAIN free /\ Fits(demand[a], bins[v]) /\ "memory" \in Dimension
    BY <1>2 DEF Dimension
  <2>. DEFINE on == {b \in DOMAIN allocated : allocated[b] = v}
  <2>2. bins[v]["memory"] = free[v]["memory"] - Load(on, demand, "memory") /\ free[v]["memory"] \in Int
    BY <1>1, <2>1 DEF FitSoFar, Bins
  <2>3. on \subseteq DOMAIN demand
    BY <1>1 DEF FitSoFar
  <2>. HIDE DEF on
  <2>4. Load(on, demand, "memory") \in Nat
    BY <1>1, <2>1, <2>3, LoadNat
  <2>5. demand[a]["memory"] \in Nat
    BY <1>1 DEF Reservations, Vector
  <2>6. demand[a]["memory"] <= bins[v]["memory"]
    BY <2>1 DEF Fits
  <2>. QED BY <2>2, <2>4, <2>5, <2>6
<1>5. C \in SUBSET Nat /\ C # {}
  BY <1>1, <1>2 DEF C, a
<1>6. \E u \in C : \A v \in C : bins[u].memory < bins[v].memory \/ (bins[u].memory = bins[v].memory /\ u <= v)
  BY <1>4, <1>5, TightestExists
<1>7. w \in C /\ \A v \in C : bins[w].memory < bins[v].memory \/ (bins[w].memory = bins[v].memory /\ w <= v)
  BY <1>3, <1>6
<1>8. Best(w, DOMAIN free, demand[a], bins)
  BY <1>2, <1>7 DEF Best
<1>. QED BY <1>8 DEF w, C, a

\* An iteration places the first reservation that remains.
LEMMA PlaceStep ==
  ASSUME Allocation!LoopInvariant, Allocation!PlaceNext
  PROVE  Allocation!LoopInvariant'
<1>. DEFINE a == Head(requested)
            w == Allocation!Tightest(Allocation!Candidates(a))
<1>1. /\ requested # <<>> /\ Allocation!Candidates(a) # {} /\ outcome = "running" /\ outcome' = outcome
      /\ bins' = [bins EXCEPT ![w] = [d \in Dimension |-> bins[w][d] - demand[a][d]]]
      /\ allocated' = [b \in DOMAIN allocated \cup {a} |-> IF b = a THEN w ELSE allocated[b]]
      /\ requested' = Tail(requested) /\ demand' = demand /\ free' = free
  BY SameOperators DEF Allocation!PlaceNext
<1>2. /\ Reservations(DOMAIN demand, demand) /\ Bins(DOMAIN free, free) /\ DOMAIN free \in SUBSET Nat
      /\ FitSoFar(allocated, DOMAIN demand, DOMAIN free, demand, free, bins) /\ Turn(a, DOMAIN demand, allocated, demand)
      /\ Best(w, DOMAIN free, demand[a], bins)
  BY <1>1, LoopFacts, ChoiceIsBest
<1>3. bins = [v \in DOMAIN free |-> bins[v]] /\ w \in DOMAIN free
  BY <1>2 DEF Allocation!LoopInvariant, Best
<1>. HIDE DEF w
<1>4. bins' = [v \in DOMAIN free |-> IF v = w THEN [d \in Dimension |-> bins[w][d] - demand[a][d]] ELSE bins[v]]
  BY <1>1, <1>3
<1>5. Charged(bins', bins, DOMAIN free, w, demand[a])
  BY <1>4 DEF Charged
<1>6. FitSoFar(allocated', DOMAIN demand, DOMAIN free, demand, free, bins')
  <2>. DEFINE next == [b \in DOMAIN allocated \cup {a} |-> IF b = a THEN w ELSE allocated[b]]
  <2>1. FitSoFar(next, DOMAIN demand, DOMAIN free, demand, free, bins')
    <3>. HIDE DEF a
    <3>. QED BY <1>2, <1>5, NextIsPlaced
  <2>. QED BY <1>1, <2>1
<1>7. /\ requested \in Seq(DOMAIN demand)
      /\ \A i, j \in DOMAIN requested : i < j => PlacedBefore(requested[i], requested[j], demand)
      /\ DOMAIN allocated = DOMAIN demand \ {requested[i] : i \in DOMAIN requested}
  BY SameOperators DEF Allocation!LoopInvariant
<1>8. /\ requested' \in Seq(DOMAIN demand) /\ 1 \in DOMAIN requested /\ a = requested[1] /\ a \in DOMAIN demand
      /\ \A i \in DOMAIN requested' : i + 1 \in DOMAIN requested /\ requested'[i] = requested[i + 1] /\ i \in Nat
      /\ \A i \in DOMAIN requested : i = 1 \/ (i - 1 \in DOMAIN requested' /\ requested'[i - 1] = requested[i])
  <2>1. Len(requested) \in Nat /\ Len(requested) >= 1 /\ DOMAIN requested = 1 .. Len(requested)
    BY <1>1, <1>7
  <2>2. /\ requested' \in Seq(DOMAIN demand) /\ Len(requested') = Len(requested) - 1
        /\ DOMAIN requested' = 1 .. Len(requested') /\ \A i \in 1 .. Len(requested') : requested'[i] = requested[i + 1]
    BY <1>1, <1>7, HeadTailProperties
  <2>. QED BY <1>1, <1>7, <2>1, <2>2
<1>9. \A i, j \in DOMAIN requested' : i < j => PlacedBefore(requested'[i], requested'[j], demand)
  BY <1>7, <1>8
<1>10. {requested'[i] : i \in DOMAIN requested'} = {requested[i] : i \in DOMAIN requested} \ {a}
  <2>1. ASSUME NEW i \in DOMAIN requested' PROVE requested'[i] # a /\ requested'[i] \in {requested[j] : j \in DOMAIN requested}
    <3>1. 1 < i + 1 /\ i + 1 \in DOMAIN requested /\ requested'[i] = requested[i + 1] /\ requested[i + 1] \in DOMAIN demand
      BY <1>7, <1>8
    <3>2. PlacedBefore(a, requested'[i], demand)
      BY <1>7, <1>8, <3>1
    <3>3. ~PlacedBefore(a, a, demand)
      BY <1>2, <1>8, PlacementOrder DEF Reservations
    <3>. QED BY <3>1, <3>2, <3>3
  <2>2. ASSUME NEW i \in DOMAIN requested, requested[i] # a PROVE requested[i] \in {requested'[j] : j \in DOMAIN requested'}
    BY <1>8, <2>2
  <2>. QED BY <2>1, <2>2
<1>11. DOMAIN allocated' = DOMAIN demand \ {requested'[i] : i \in DOMAIN requested'}
  <2>1. DOMAIN allocated' = DOMAIN allocated \cup {a}
    BY <1>1
  <2>. QED BY <1>7, <1>8, <1>10, <2>1
<1>12. /\ demand \in [DOMAIN demand -> Vector(Nat)] /\ DOMAIN demand \subseteq App
       /\ DOMAIN free \subseteq Worker /\ \A v \in DOMAIN free, d \in Dimension : free[v][d] \in Nat
       /\ DOMAIN free # {}
  BY <1>1, SameOperators DEF Allocation!LoopInvariant
<1>13. bins' = [v \in DOMAIN free |-> bins'[v]]
  BY <1>4
<1>. HIDE DEF a
<1>. QED BY <1>1, <1>6, <1>8, <1>9, <1>11, <1>12, <1>13, SameOperators DEF Allocation!LoopInvariant

LEMMA LoopStep ==
  ASSUME Allocation!LoopInvariant, Allocation!Next
  PROVE  Allocation!LoopInvariant'
<1>1. CASE Allocation!PlaceNext
  BY <1>1, PlaceStep
<1>2. CASE Allocation!Refuse
  BY <1>2 DEF Allocation!Refuse, Allocation!LoopInvariant, Allocation!Candidates
<1>3. CASE Allocation!Return
  BY <1>3 DEF Allocation!Return, Allocation!LoopInvariant, Allocation!Candidates
<1>. QED BY <1>1, <1>2, <1>3 DEF Allocation!Next

\* What the loop leaves when it ends is all there is.
LEMMA LoopComputes == Allocation!LoopInvariant => Allocation!ComputesPlacement
<1>. SUFFICES ASSUME Allocation!LoopInvariant PROVE Allocation!ComputesPlacement
  OBVIOUS
<1>1. /\ Reservations(DOMAIN demand, demand) /\ Bins(DOMAIN free, free) /\ DOMAIN free \in SUBSET Nat
      /\ FitSoFar(allocated, DOMAIN demand, DOMAIN free, demand, free, bins)
      /\ requested # <<>> => Turn(Head(requested), DOMAIN demand, allocated, demand)
  BY LoopFacts
<1>2. ASSUME outcome = "placed" PROVE Placements(DOMAIN demand, DOMAIN free, demand, free) = {allocated}
  <2>1. /\ requested = <<>> /\ DOMAIN free # {}
        /\ DOMAIN allocated = DOMAIN demand \ {requested[i] : i \in DOMAIN requested}
    BY <1>2 DEF Allocation!LoopInvariant
  <2>2. {requested[i] : i \in DOMAIN requested} = {}
    BY <2>1
  <2>3. DOMAIN allocated = DOMAIN demand
    BY <2>1, <2>2
  <2>. QED BY <1>1, <2>1, <2>3, WholeIsPlacement
<1>3. ASSUME outcome = "refused" PROVE Placements(DOMAIN demand, DOMAIN free, demand, free) = {}
  <2>1. CASE DOMAIN free = {}
    BY <2>1 DEF Placements
  <2>2. CASE requested # <<>> /\ Allocation!Candidates(Head(requested)) = {}
    <3>1. Turn(Head(requested), DOMAIN demand, allocated, demand)
      BY <1>1, <2>2
    <3>2. \A w \in DOMAIN free : ~Fits(demand[Head(requested)], bins[w])
      <4>1. DOMAIN bins = DOMAIN free
        BY DEF Allocation!LoopInvariant
      <4>. QED BY <2>2, <4>1, SameOperators DEF Allocation!Candidates
    <3>. QED BY <1>1, <3>1, <3>2, NoneIsLeft
  <2>. QED BY <1>3, <2>1, <2>2 DEF Allocation!LoopInvariant
<1>. QED BY <1>2, <1>3, SameOperators DEF Allocation!ComputesPlacement

LEMMA StepLoop == LoopInvariant /\ [Next]_vars => LoopInvariant'
<1>. SUFFICES ASSUME LoopInvariant, [Next]_vars PROVE LoopInvariant'
  OBVIOUS
<1>1. CASE part = "allocation" /\ Allocation!Next /\ part' = part
  BY <1>1, LoopStep DEF LoopInvariant
<1>2. ASSUME UNCHANGED <<part, loop>> PROVE LoopInvariant'
  BY <1>2 DEF LoopInvariant, loop, Allocation!LoopInvariant, Allocation!Candidates
<1>. QED BY <1>1, <1>2 DEF Next, vars

\* For any applications, workers and quantities, and whatever the order of the
\* reservations: what the loop keeps,
THEOREM LoopSafety == Spec => []LoopInvariant
<1>1. Init => LoopInvariant
  BY LoopStarts DEF Init, LoopInvariant
<1>. QED BY <1>1, StepLoop, PTL DEF Spec

\* and that it returns the one best fit, and refuses only where there is none.
THEOREM LoopComputesPlacement == Spec => []ComputesPlacement
<1>1. LoopInvariant => ComputesPlacement
  BY LoopComputes DEF LoopInvariant, ComputesPlacement
<1>. QED BY <1>1, LoopSafety, PTL
=============================================================================
