-------------------------- MODULE PlanResize_proofs --------------------------
(***************************************************************************)
(* Plan changes for any plans, any number of requests at once and any      *)
(* number of faults.  The ledger's steps are of three kinds: holds are     *)
(* settled without being consumed (Settled), one is consumed, or the       *)
(* ledger stays as it is; Stripe's copy changes by one update (Applied).   *)
(***************************************************************************)
EXTENDS PlanResize, TLAPS

Hold == [state : {"none", "active", "released", "expired", "consumed"}, gen : Nat, from : Plan]
RequestType == [step : {"idle", "routed", "subscribed", "read", "held", "confirmed", "failed", "unchanged"},
                to : Plan, key : Keys \cup {NoCall}, from : Plan]

\* A key is a generation and a plan.
LEMMA KeysArePlans == \A k \in Keys : PlanOf(k) \in Plan /\ PlanOf(k) \in Nat
  BY ResizeConstants DEF Keys, PlanOf

\* Holds that end without being consumed.
Settled(h) ==
  /\ h \in [Keys -> Hold]
  /\ \A k \in Keys :
       /\ h[k].gen = hold[k].gen /\ h[k].from = hold[k].from
       /\ h[k].state # hold[k].state => hold[k].state = "active" /\ h[k].state \in {"expired", "released"}

\* The types, where a step writes the holds and its request alone.
LEMMA TypesKept ==
  ASSUME ResizeTypeOK, hold' \in [Keys -> Hold], request' \in [Request -> RequestType], lapsed' \subseteq Keys,
         UNCHANGED <<plan, alloc, sub, priced, usage, provider, executed, inFlight, events, faults>>
  PROVE  ResizeTypeOK'
  BY DEF ResizeTypeOK, Hold, RequestType

LEMMA HoldsType == ASSUME ResizeTypeOK PROVE hold \in [Keys -> Hold]
  BY DEF ResizeTypeOK, Hold

LEMMA SweptSettled == ASSUME ResizeTypeOK PROVE Settled(Swept)
  BY HoldsType DEF Settled, Swept, Hold

LEMMA SameSettled == ASSUME ResizeTypeOK PROVE Settled(hold)
  BY HoldsType DEF Settled, Hold

-----------------------------------------------------------------------------
LEMMA InitInvariant == Init => ResizeInvariant
<1>. SUFFICES ASSUME Init PROVE ResizeInvariant
  OBVIOUS
<1>1. ResizeTypeOK
  BY ResizeConstants DEF Init, ResizeTypeOK, Absent, Idle, Verdict
<1>2. CopyOf(webhook) /\ CopyOf(pass)
  BY DEF Init, CopyOf
<1>3. CallsAreHeld /\ CopiesAreExecuted /\ OlderAreStale /\ ConsumedIsBilled
  BY DEF Init, CallsAreHeld, CopiesAreExecuted, NamesExecuted, OlderAreStale, ConsumedIsBilled, Absent, Idle, Unbegun
<1>. QED BY <1>1, <1>2, <1>3 DEF ResizeInvariant

\* Holds end, and nothing Stripe knows of changes: what was consumed stays the
\* plan Stripe bills, and older changes stay stale.
LEMMA SettlingStale ==
  ASSUME ResizeInvariant, Settled(hold'),
         plan' = plan, alloc'.gen \in Nat, alloc'.gen >= alloc.gen, UNCHANGED <<provider, executed>>
  PROVE  OlderAreStale' /\ ConsumedIsBilled'
<1>1. \A k \in Keys : hold'[k].gen = hold[k].gen /\ (hold'[k].state = "consumed" <=> hold[k].state = "consumed")
  BY HoldsType DEF ResizeInvariant, Settled, Hold
<1>2. alloc.gen \in Nat /\ \A k \in Keys : hold[k].gen \in Nat
  BY HoldsType DEF ResizeInvariant, ResizeTypeOK, Hold
<1>3. executed \subseteq Keys /\ (provider.hold # NoHold => provider.hold \in Keys)
  BY DEF ResizeInvariant, ResizeTypeOK
<1>4. OlderAreStale'
  BY <1>1, <1>2, <1>3 DEF ResizeInvariant, OlderAreStale
<1>5. ConsumedIsBilled'
  BY <1>1, <1>3 DEF ResizeInvariant, ConsumedIsBilled
<1>. QED BY <1>4, <1>5

\* ...and if no request moves the invariant stays, but for the types of what
\* else the step writes.
LEMMA SettlingKeeps ==
  ASSUME ResizeInvariant, Settled(hold'),
         plan' = plan, alloc'.gen \in Nat, alloc'.gen >= alloc.gen,
         UNCHANGED <<provider, executed, inFlight, request>>
  PROVE  /\ CallsAreHeld' /\ OlderAreStale' /\ ConsumedIsBilled'
         /\ NamesExecuted(provider)' /\ (provider.hold # NoHold => provider.plan = PlanOf(provider.hold))'
<1>1. \A k \in Keys : hold'[k].state # "none" <=> hold[k].state # "none"
  BY HoldsType DEF ResizeInvariant, Settled, Hold
<1>2. CallsAreHeld'
  BY <1>1 DEF ResizeInvariant, CallsAreHeld, ResizeTypeOK
<1>. QED BY <1>2, SettlingStale DEF ResizeInvariant, CopiesAreExecuted, NamesExecuted

\* What the phases of a webhook or a pass hold when neither changes.
LEMMA PhasesKept ==
  ASSUME ResizeInvariant, UNCHANGED <<webhook, pass>>, executed \subseteq executed'
  PROVE  /\ CopyOf(webhook)' /\ CopyOf(pass)'
         /\ (webhook.step = "seen" => NamesExecuted(webhook.it))'
         /\ (pass.step = "listed" => NamesExecuted(pass.it))'
  BY DEF ResizeInvariant, CopyOf, CopiesAreExecuted, NamesExecuted

\* Steps of the ledger that no request, webhook or pass takes part in.
LEMMA LedgerSteps ==
  ASSUME ResizeInvariant, (\E k \in Keys : HoldLapses(k)) \/ AddApplication
  PROVE  ResizeInvariant'
<1>1. /\ UNCHANGED <<plan, alloc, sub, priced, provider, executed, inFlight, events, faults, request, webhook, pass>>
      /\ Settled(hold') /\ lapsed' \subseteq Keys
  <2>1. ResizeTypeOK
    BY DEF ResizeInvariant
  <2>. QED BY <2>1, SweptSettled, SameSettled DEF HoldLapses, AddApplication, StillLapsed, stripe, ledger, ResizeTypeOK, Settled
<1>2. usage' \in 0 .. MaxUsage
  BY ResizeConstants DEF ResizeInvariant, ResizeTypeOK, HoldLapses, AddApplication
<1>3. ResizeTypeOK'
  BY <1>1, <1>2 DEF ResizeInvariant, ResizeTypeOK, Settled, Hold
<1>4. alloc'.gen \in Nat /\ alloc'.gen >= alloc.gen
  BY <1>1 DEF ResizeInvariant, ResizeTypeOK
<1>. QED BY <1>1, <1>3, <1>4, SettlingKeeps, PhasesKept DEF ResizeInvariant, CopiesAreExecuted

\* A request moves on and everything else stays.
RequestMoves(r) ==
  /\ request' \in [Request -> RequestType]
  /\ \A q \in Request \ {r} : request'[q] = request[q]
  /\ request'[r].step \notin {"idle", "routed", "subscribed"} => request'[r].key \in Keys
  /\ request'[r].step \notin {"idle", "routed", "subscribed", "read"} => hold'[request'[r].key].state # "none"
  /\ request'[r].step = "confirmed" => request'[r].key \in executed'

LEMMA RequestKeeps ==
  ASSUME ResizeInvariant, NEW r \in Request, RequestMoves(r), executed \subseteq executed',
         \A k \in Keys : hold[k].state # "none" => hold'[k].state # "none",
         \A k \in (inFlight \cup executed)' : hold'[k].state # "none"
  PROVE  CallsAreHeld'
<1>1. ASSUME NEW q \in Request
      PROVE  /\ request'[q].step \notin {"idle", "routed", "subscribed"} => request'[q].key \in Keys
             /\ request'[q].step \notin {"idle", "routed", "subscribed", "read"} => hold'[request'[q].key].state # "none"
             /\ request'[q].step = "confirmed" => request'[q].key \in executed'
  <2>1. CASE q = r
    BY <2>1 DEF RequestMoves
  <2>2. CASE q # r
    BY <2>2 DEF RequestMoves, ResizeInvariant, CallsAreHeld
  <2>. QED BY <2>1, <2>2
<1>. QED BY <1>1 DEF CallsAreHeld

\* Moving on to another step, and ending.
LEMMA Stepping ==
  ASSUME ResizeInvariant, NEW r \in Request, request[r].step \notin {"idle", "routed", "subscribed"},
         NEW s \in {"held", "confirmed", "failed", "unchanged"}, Step(r, s),
         hold'[request[r].key].state # "none",
         s = "confirmed" => request[r].key \in executed'
  PROVE  RequestMoves(r)
  BY DEF RequestMoves, Step, ResizeInvariant, ResizeTypeOK, RequestType, CallsAreHeld

LEMMA Ending ==
  ASSUME ResizeInvariant, NEW r \in Request, Ends(r)
  PROVE  RequestMoves(r)
  BY ResizeConstants DEF RequestMoves, Ends, Idle, ResizeInvariant, ResizeTypeOK, RequestType

\* The steps of a request that leave the ledger and Stripe alone, or stop at
\* the failure of a call.
LEMMA QuietRequestSteps ==
  ASSUME ResizeInvariant, NEW r \in Request,
         \/ \E p \in Plan : BeginUpgrade(r, p)
         \/ ReadSubscription(r) \/ ReadAllocation(r) \/ RetrieveAfterError(r) \/ ServerDies(r)
  PROVE  ResizeInvariant'
<1>1. UNCHANGED <<ledger, provider, executed, inFlight, events, webhook, pass>>
  BY DEF BeginUpgrade, ReadSubscription, ReadAllocation, RetrieveAfterError, ServerDies, stripe
<1>2. UNCHANGED <<plan, alloc, sub, priced, usage, hold, lapsed>>
  BY <1>1 DEF ledger
<1>3. RequestMoves(r)
  <2>1. ASSUME NEW p \in Plan, BeginUpgrade(r, p) PROVE RequestMoves(r)
    <3>1. plan \in Plan
      BY DEF ResizeInvariant, ResizeTypeOK
    <3>. QED BY <2>1, <3>1, ResizeConstants DEF BeginUpgrade, Idle, RequestMoves, RequestType, ResizeInvariant, ResizeTypeOK
  <2>2. ASSUME RetrieveAfterError(r) PROVE RequestMoves(r)
    <3>1. request[r].step = "failed" /\ request[r].key \in Keys /\ hold[request[r].key].state # "none"
      BY <2>2 DEF RetrieveAfterError, ResizeInvariant, CallsAreHeld
    <3>2. provider.hold = request[r].key => request[r].key \in executed
      BY <3>1, NullsAreNotKeys DEF ResizeInvariant, CopiesAreExecuted, NamesExecuted
    <3>. QED BY <2>2, <3>1, <3>2, <1>1, <1>2, Stepping, Ending DEF RetrieveAfterError
  <2>3. ASSUME ServerDies(r) PROVE RequestMoves(r)
    BY <2>3, Ending DEF ServerDies
  <2>4. ASSUME ReadSubscription(r) PROVE RequestMoves(r)
    <3>1. CASE Step(r, "subscribed")
      BY <3>1 DEF Step, RequestMoves, RequestType, ResizeInvariant, ResizeTypeOK
    <3>. QED BY <2>4, <3>1, Ending DEF ReadSubscription
  <2>5. ASSUME ReadAllocation(r) PROVE RequestMoves(r)
    <3>1. CASE alloc.state = "active" /\ alloc.gen + faults <= MaxGeneration
      <4>1. alloc.gen \in Nat \ {0} /\ request[r].to \in Plan /\ faults \in Nat
        BY ResizeConstants DEF ResizeInvariant, ResizeTypeOK
      <4>2. alloc.gen \in 1 .. MaxGeneration
        BY <3>1, <4>1, ResizeConstants
      <4>3. <<alloc.gen, request[r].to>> \in Keys
        BY <4>1, <4>2 DEF Keys
      <4>. QED BY <2>5, <3>1, <4>3 DEF ReadAllocation, RequestMoves, RequestType, ResizeInvariant, ResizeTypeOK
    <3>. QED BY <2>5, <3>1, Ending DEF ReadAllocation
  <2>. QED BY <2>1, <2>2, <2>3, <2>4, <2>5
<1>4. CallsAreHeld'
  BY <1>1, <1>2, <1>3, RequestKeeps DEF ResizeInvariant, CallsAreHeld
<1>5. faults' \in 0 .. MaxFaults
  <2>1. faults' = faults \/ Fault
    BY DEF BeginUpgrade, ReadSubscription, ReadAllocation, RetrieveAfterError, ServerDies, stripe
  <2>. QED BY <2>1, ResizeConstants DEF ResizeInvariant, ResizeTypeOK, Fault
<1>6. ResizeTypeOK'
  BY <1>1, <1>2, <1>3, <1>5 DEF ResizeInvariant, ResizeTypeOK, RequestMoves, RequestType
<1>7. CopiesAreExecuted' /\ OlderAreStale' /\ ConsumedIsBilled'
  BY <1>1, <1>2 DEF ResizeInvariant, CopiesAreExecuted, NamesExecuted, OlderAreStale, ConsumedIsBilled
<1>. QED BY <1>1, <1>4, <1>6, <1>7, PhasesKept DEF ResizeInvariant

\* A request asks for its hold: it gets the one it has already, a new one, or
\* none; a new one is of the allocation's generation.
LEMMA AcquireStep ==
  ASSUME ResizeInvariant, NEW r \in Request, AcquireHold(r)
  PROVE  ResizeInvariant'
<1>. DEFINE k == request[r].key
<1>1. /\ UNCHANGED <<plan, alloc, sub, priced, usage, provider, executed, inFlight, events, faults, webhook, pass>>
      /\ lapsed' \subseteq Keys
      /\ k \in Keys /\ request[r].step = "read"
      /\ hold \in [Keys -> Hold] /\ Settled(Swept) /\ Settled(hold)
      /\ alloc.gen \in Nat \ {0} /\ plan \in Plan
  <2>1. ResizeTypeOK
    BY DEF ResizeInvariant
  <2>2. request[r].step = "read" /\ k \in Keys
    BY DEF AcquireHold, ResizeInvariant, CallsAreHeld
  <2>. QED BY <2>1, <2>2, HoldsType, SweptSettled, SameSettled DEF AcquireHold, StillLapsed, stripe, ResizeTypeOK
<1>2. \/ Settled(hold') /\ Ends(r)
      \/ Settled(hold') /\ Swept[k].state = "active" /\ hold' = Swept /\ Step(r, "held")
      \/ /\ Swept[k].state = "none" /\ Step(r, "held")
         /\ hold' = [Swept EXCEPT ![k] = [state |-> "active", gen |-> alloc.gen, from |-> plan]]
  BY <1>1 DEF AcquireHold
<1>3. CASE Settled(hold')
  <2>1. \A j \in Keys : hold[j].state # "none" => hold'[j].state # "none"
    BY <1>1, <1>3 DEF Settled, Hold
  <2>2. RequestMoves(r)
    BY <1>1, <1>2, <1>3, Stepping, Ending DEF Settled
  <2>3. CallsAreHeld'
    BY <1>1, <2>1, <2>2, RequestKeeps DEF ResizeInvariant, CallsAreHeld, ResizeTypeOK
  <2>4. OlderAreStale' /\ ConsumedIsBilled'
    BY <1>1, <1>3, SettlingStale
  <2>5. ResizeTypeOK'
    BY <1>1, <1>3, <2>2, TypesKept DEF ResizeInvariant, RequestMoves, Settled
  <2>. QED BY <1>1, <2>3, <2>4, <2>5, PhasesKept DEF ResizeInvariant, CopiesAreExecuted, NamesExecuted
<1>4. CASE /\ Swept[k].state = "none" /\ Step(r, "held")
           /\ hold' = [Swept EXCEPT ![k] = [state |-> "active", gen |-> alloc.gen, from |-> plan]]
  <2>1. /\ hold' \in [Keys -> Hold]
        /\ hold[k].state = "none" /\ hold'[k].state = "active" /\ hold'[k].gen = alloc.gen
        /\ \A j \in Keys \ {k} : /\ hold'[j].gen = hold[j].gen
                                 /\ hold[j].state # "none" => hold'[j].state # "none"
                                 /\ hold'[j].state = "consumed" <=> hold[j].state = "consumed"
    BY <1>1, <1>4 DEF Settled, Hold
  <2>2. RequestMoves(r)
    BY <1>1, <1>4, <2>1, Stepping
  <2>3. k \notin executed
    BY <2>1 DEF ResizeInvariant, CallsAreHeld
  <2>4. CallsAreHeld'
    BY <1>1, <2>1, <2>2, RequestKeeps DEF ResizeInvariant, CallsAreHeld, ResizeTypeOK
  <2>5. OlderAreStale'
    <3>1. \A j \in Keys : hold'[j].gen <= alloc.gen /\ (hold'[j].state = "consumed" => j \in executed)
      BY <1>1, <2>1 DEF ResizeInvariant, OlderAreStale
    <3>. QED BY <1>1, <2>1, <2>3, <3>1 DEF ResizeInvariant, OlderAreStale, CopiesAreExecuted, NamesExecuted, ResizeTypeOK
  <2>6. ConsumedIsBilled'
    BY <1>1, <2>1, <2>3 DEF ResizeInvariant, ConsumedIsBilled, CopiesAreExecuted, NamesExecuted, ResizeTypeOK
  <2>7. ResizeTypeOK'
    BY <1>1, <2>1, <2>2, TypesKept DEF ResizeInvariant, RequestMoves
  <2>. QED BY <1>1, <2>4, <2>5, <2>6, <2>7, PhasesKept DEF ResizeInvariant, CopiesAreExecuted, NamesExecuted
<1>. QED BY <1>2, <1>3, <1>4

LEMMA ReleaseStep ==
  ASSUME ResizeInvariant, NEW r \in Request, ReleaseUnchanged(r)
  PROVE  ResizeInvariant'
<1>. DEFINE k == request[r].key
<1>1. /\ UNCHANGED <<plan, alloc, sub, priced, usage, provider, executed, inFlight, events, faults, webhook, pass>>
      /\ lapsed' \subseteq Keys
      /\ k \in Keys /\ Ends(r) /\ hold \in [Keys -> Hold]
  <2>1. ResizeTypeOK
    BY DEF ResizeInvariant
  <2>2. k \in Keys
    BY DEF ReleaseUnchanged, ResizeInvariant, CallsAreHeld
  <2>. QED BY <2>1, <2>2, HoldsType DEF ReleaseUnchanged, StillLapsed, stripe, ResizeTypeOK
<1>2. Settled(hold')
  BY <1>1 DEF Settled, ReleaseUnchanged, Hold
<1>3. \A j \in Keys : hold[j].state # "none" => hold'[j].state # "none"
  BY <1>1, <1>2 DEF Settled, Hold
<1>4. RequestMoves(r)
  BY <1>1, Ending
<1>5. CallsAreHeld'
  BY <1>1, <1>3, <1>4, RequestKeeps DEF ResizeInvariant, CallsAreHeld, ResizeTypeOK
<1>6. alloc'.gen \in Nat /\ alloc'.gen >= alloc.gen
  BY <1>1 DEF ResizeInvariant, ResizeTypeOK
<1>7. OlderAreStale' /\ ConsumedIsBilled'
  BY <1>1, <1>2, <1>6, SettlingStale
<1>8. ResizeTypeOK'
  BY <1>1, <1>2, <1>4, TypesKept DEF ResizeInvariant, RequestMoves, Settled
<1>. QED BY <1>1, <1>5, <1>7, <1>8, PhasesKept DEF ResizeInvariant, CopiesAreExecuted, NamesExecuted

-----------------------------------------------------------------------------
\* An update that Stripe applies is of a held key.  The key it names is then a
\* change nobody has consumed, or Stripe had applied it before and nothing
\* changes.
LEMMA AppliedKeeps ==
  ASSUME ResizeInvariant, NEW k \in Keys, hold[k].state # "none", Applied(k), UNCHANGED ledger
  PROVE  /\ executed \subseteq executed' /\ executed' \subseteq executed \cup {k}
         /\ k \in executed'
         /\ provider' \in Copy /\ events' \subseteq Verdict
         /\ NamesExecuted(provider)' /\ (provider.hold # NoHold => provider.plan = PlanOf(provider.hold))'
         /\ OlderAreStale' /\ ConsumedIsBilled'
<1>1. UNCHANGED <<plan, alloc, hold>>
  BY DEF ledger
<1>2. CASE k \in executed
  <2>1. UNCHANGED <<provider, executed, events>>
    BY <1>2 DEF Applied
  <2>2. /\ provider \in Copy /\ events \subseteq Verdict
        /\ NamesExecuted(provider) /\ (provider.hold # NoHold => provider.plan = PlanOf(provider.hold))
    BY DEF ResizeInvariant, ResizeTypeOK, Copy, CopiesAreExecuted
  <2>. QED BY <1>1, <1>2, <2>1, <2>2 DEF ResizeInvariant, NamesExecuted, OlderAreStale, ConsumedIsBilled
<1>3. CASE k \notin executed
  <2>1. /\ provider' = [provider EXCEPT !.plan = PlanOf(k), !.hold = k]
        /\ executed' = executed \cup {k} /\ events' = events \cup {provider.status}
    BY <1>3 DEF Applied
  <2>2. provider \in Copy /\ events \subseteq Verdict
    BY DEF ResizeInvariant, ResizeTypeOK, Copy
  <2>3. provider' \in Copy /\ events' \subseteq Verdict /\ provider'.hold = k /\ provider'.plan = PlanOf(k)
    BY <2>1, <2>2, KeysArePlans DEF Copy
  <2>4. hold[k].state # "consumed"
    BY <1>3 DEF ResizeInvariant, OlderAreStale
  <2>. QED BY <1>1, <2>1, <2>3, <2>4 DEF ResizeInvariant, NamesExecuted, OlderAreStale, ConsumedIsBilled
<1>. QED BY <1>2, <1>3

LEMMA UpdateSteps ==
  ASSUME ResizeInvariant, NEW r \in Request, UpdateAccepted(r) \/ UpdateThrows(r)
  PROVE  ResizeInvariant'
<1>. DEFINE k == request[r].key
<1>1. /\ UNCHANGED <<ledger, webhook, pass>> /\ request[r].step = "held" /\ k \in Keys
      /\ hold[k].state # "none"
  BY DEF UpdateAccepted, UpdateThrows, ResizeInvariant, CallsAreHeld
<1>2. UNCHANGED <<plan, alloc, sub, priced, usage, hold, lapsed>>
  BY <1>1 DEF ledger
<1>3. \/ Applied(k) /\ inFlight' = inFlight
      \/ UNCHANGED <<provider, executed, events>> /\ inFlight' \in {inFlight, inFlight \cup {k}}
  BY DEF UpdateAccepted, UpdateThrows
<1>4. /\ executed \subseteq executed' /\ executed' \subseteq executed \cup {k}
      /\ provider' \in Copy /\ events' \subseteq Verdict
      /\ NamesExecuted(provider)' /\ (provider.hold # NoHold => provider.plan = PlanOf(provider.hold))'
      /\ OlderAreStale' /\ ConsumedIsBilled'
  <2>1. CASE Applied(k)
    BY <1>1, <2>1, AppliedKeeps
  <2>2. CASE UNCHANGED <<provider, executed, events>>
    BY <1>2, <2>2 DEF ResizeInvariant, ResizeTypeOK, Copy, CopiesAreExecuted, NamesExecuted, OlderAreStale, ConsumedIsBilled
  <2>. QED BY <1>3, <2>1, <2>2
<1>5. (Step(r, "confirmed") /\ k \in executed') \/ Step(r, "failed")
  BY <1>1, AppliedKeeps DEF UpdateAccepted, UpdateThrows
<1>6. RequestMoves(r)
  BY <1>1, <1>2, <1>5, Stepping
<1>7. CallsAreHeld'
  BY <1>1, <1>2, <1>3, <1>4, <1>6, RequestKeeps DEF ResizeInvariant, CallsAreHeld
<1>8. faults' \in 0 .. MaxFaults
  BY ResizeConstants DEF ResizeInvariant, ResizeTypeOK, UpdateAccepted, UpdateThrows, Fault
<1>9. ResizeTypeOK'
  BY <1>1, <1>2, <1>3, <1>4, <1>6, <1>8 DEF ResizeInvariant, ResizeTypeOK, RequestMoves, RequestType, Copy
<1>. QED BY <1>1, <1>4, <1>7, <1>9, PhasesKept DEF ResizeInvariant, CopiesAreExecuted

LEMMA LateUpdateStep ==
  ASSUME ResizeInvariant, NEW k \in Keys, LateUpdate(k)
  PROVE  ResizeInvariant'
<1>1. /\ UNCHANGED <<ledger, faults, request, webhook, pass>> /\ hold[k].state # "none"
      /\ Applied(k) /\ inFlight' = inFlight \ {k}
  BY DEF LateUpdate, ResizeInvariant, CallsAreHeld
<1>2. UNCHANGED <<plan, alloc, sub, priced, usage, hold, lapsed>>
  BY <1>1 DEF ledger
<1>3. /\ executed \subseteq executed' /\ executed' \subseteq executed \cup {k}
      /\ provider' \in Copy /\ events' \subseteq Verdict
      /\ NamesExecuted(provider)' /\ (provider.hold # NoHold => provider.plan = PlanOf(provider.hold))'
      /\ OlderAreStale' /\ ConsumedIsBilled'
  BY <1>1, AppliedKeeps
<1>4. CallsAreHeld'
  BY <1>1, <1>2, <1>3 DEF ResizeInvariant, CallsAreHeld
<1>5. ResizeTypeOK'
  BY <1>1, <1>2, <1>3 DEF ResizeInvariant, ResizeTypeOK, Copy
<1>. QED BY <1>1, <1>3, <1>4, <1>5, PhasesKept DEF ResizeInvariant, CopiesAreExecuted

LEMMA ProviderStatusStep ==
  ASSUME ResizeInvariant, NEW s \in Verdict, ProviderStatusChanges(s)
  PROVE  ResizeInvariant'
<1>1. /\ UNCHANGED <<ledger, executed, inFlight, request, webhook, pass>>
      /\ provider' = [provider EXCEPT !.status = s] /\ events' = events \cup {s}
  BY DEF ProviderStatusChanges
<1>2. UNCHANGED <<plan, alloc, sub, priced, usage, hold, lapsed>>
  BY <1>1 DEF ledger
<1>3. provider' \in Copy /\ provider'.hold = provider.hold /\ provider'.plan = provider.plan
  BY <1>1 DEF ResizeInvariant, ResizeTypeOK, Copy
<1>4. CallsAreHeld' /\ OlderAreStale' /\ ConsumedIsBilled'
  BY <1>1, <1>2, <1>3 DEF ResizeInvariant, CallsAreHeld, OlderAreStale, ConsumedIsBilled
<1>5. CopiesAreExecuted'
  BY <1>1, <1>3 DEF ResizeInvariant, CopiesAreExecuted, NamesExecuted
<1>6. faults' \in 0 .. MaxFaults
  BY ResizeConstants DEF ResizeInvariant, ResizeTypeOK, ProviderStatusChanges, Fault
<1>7. ResizeTypeOK'
  BY <1>1, <1>2, <1>3, <1>6 DEF ResizeInvariant, ResizeTypeOK, Copy
<1>. QED BY <1>1, <1>4, <1>5, <1>7, PhasesKept DEF ResizeInvariant

-----------------------------------------------------------------------------
\* A change that Stripe applied is committed, or the ledger stays as it is.
LEMMA ConvergingKeeps ==
  ASSUME ResizeInvariant, NEW k \in executed, ConvergeOn(k) \/ UNCHANGED ledger,
         UNCHANGED <<provider, executed, inFlight>>
  PROVE  /\ plan' \in Plan /\ alloc' \in [state : {"active", "suspended"}, gen : Nat \ {0}]
         /\ hold' \in [Keys -> Hold] /\ UNCHANGED <<sub, usage>> /\ lapsed' \subseteq Keys /\ priced' \in Plan
         /\ \A j \in Keys : hold[j].state # "none" => hold'[j].state # "none"
         /\ OlderAreStale' /\ ConsumedIsBilled'
<1>1. /\ k \in Keys /\ hold \in [Keys -> Hold] /\ plan \in Plan
      /\ alloc \in [state : {"active", "suspended"}, gen : Nat \ {0}]
  BY HoldsType DEF ResizeInvariant, ResizeTypeOK
<1>2. CASE UNCHANGED ledger
  BY <1>1, <1>2 DEF ledger, ResizeInvariant, ResizeTypeOK, OlderAreStale, ConsumedIsBilled
<1>3. CASE ConsumeHold(k)
  <2>1. /\ hold' = [hold EXCEPT ![k].state = "consumed"] /\ plan' = PlanOf(k) /\ alloc' = [alloc EXCEPT !.gen = @ + 1]
        /\ hold[k].gen = alloc.gen /\ hold[k].state \in {"active", "expired"}
        /\ UNCHANGED <<sub, usage>> /\ lapsed' \subseteq Keys /\ priced' \in Plan
    BY <1>1, <1>3, KeysArePlans DEF ConsumeHold, Consumable, StillLapsed, ResizeInvariant, ResizeTypeOK
  <2>2. /\ hold' \in [Keys -> Hold]
        /\ hold'[k].state = "consumed" /\ hold'[k].gen = hold[k].gen
        /\ \A j \in Keys \ {k} : hold'[j] = hold[j]
    BY <1>1, <2>1 DEF Hold
  <2>3. plan' \in Plan /\ alloc' \in [state : {"active", "suspended"}, gen : Nat \ {0}] /\ alloc'.gen = alloc.gen + 1
    BY <1>1, <2>1, KeysArePlans
  <2>4. \A j \in Keys : hold'[j].gen < alloc'.gen /\ (hold'[j].state = "consumed" => j \in executed)
    BY <1>1, <2>2, <2>3 DEF ResizeInvariant, OlderAreStale, Hold
  <2>5. OlderAreStale'
    <3>1. \A j \in Keys : hold'[j].gen <= alloc'.gen
      BY <1>1, <2>2, <2>3, <2>4 DEF Hold
    <3>. QED BY <2>4, <3>1 DEF OlderAreStale, ResizeInvariant, ResizeTypeOK
  <2>6. ConsumedIsBilled'
    <3>1. CASE provider.hold = k
      BY <2>1, <3>1, <1>1, NullsAreNotKeys DEF ResizeInvariant, CopiesAreExecuted, ConsumedIsBilled
    <3>2. CASE provider.hold # k
      <4>1. SUFFICES ASSUME provider.hold # NoHold, hold'[provider.hold].state = "consumed" PROVE FALSE
        BY DEF ConsumedIsBilled
      <4>2. provider.hold \in Keys /\ hold[provider.hold].state = "consumed"
        BY <2>2, <3>2, <4>1 DEF ResizeInvariant, ResizeTypeOK
      <4>3. hold[k].gen < alloc.gen
        BY <2>1, <4>1, <4>2 DEF ResizeInvariant, OlderAreStale
      <4>. QED BY <1>1, <2>1, <4>3
    <3>. QED BY <3>1, <3>2
  <2>7. \A j \in Keys : hold[j].state # "none" => hold'[j].state # "none"
    BY <2>2
  <2>. QED BY <2>1, <2>2, <2>3, <2>5, <2>6, <2>7
<1>. QED BY <1>2, <1>3 DEF ConvergeOn

LEMMA ConsumeConfirmedStep ==
  ASSUME ResizeInvariant, NEW r \in Request, ConsumeConfirmed(r)
  PROVE  ResizeInvariant'
<1>. DEFINE k == request[r].key
<1>1. /\ UNCHANGED <<provider, executed, inFlight, events, faults, webhook, pass>>
      /\ k \in executed /\ (ConvergeOn(k) \/ UNCHANGED ledger) /\ Ends(r)
  BY DEF ConsumeConfirmed, stripe, ResizeInvariant, CallsAreHeld
<1>2. /\ plan' \in Plan /\ alloc' \in [state : {"active", "suspended"}, gen : Nat \ {0}]
      /\ hold' \in [Keys -> Hold] /\ UNCHANGED <<sub, usage>> /\ lapsed' \subseteq Keys /\ priced' \in Plan
      /\ \A j \in Keys : hold[j].state # "none" => hold'[j].state # "none"
      /\ OlderAreStale' /\ ConsumedIsBilled'
  BY <1>1, ConvergingKeeps
<1>3. RequestMoves(r)
  BY <1>1, Ending
<1>4. CallsAreHeld'
  BY <1>1, <1>2, <1>3, RequestKeeps DEF ResizeInvariant, ResizeTypeOK, CallsAreHeld
<1>5. ResizeTypeOK'
  BY <1>1, <1>2, <1>3 DEF ResizeInvariant, ResizeTypeOK, RequestMoves, RequestType, Hold
<1>. QED BY <1>1, <1>2, <1>4, <1>5, PhasesKept DEF ResizeInvariant, CopiesAreExecuted, NamesExecuted

\* A phase begins with a copy of the subscription, moves on, or ends.
LEMMA CopyTaken ==
  ASSUME ResizeInvariant
  PROVE  /\ provider \in Copy /\ NamesExecuted(provider) /\ CopyOf(Unbegun) /\ Unbegun.step \notin {"seen", "listed"}
         /\ \A status \in Verdict : CopyOf(Judged(status)) /\ Judged(status).step \notin {"seen", "listed"}
         /\ \A p \in Plan : CopyOf(Read(p)) /\ Read(p).step \notin {"seen", "listed"}
         /\ \A it \in Copy :
              /\ CopyOf(Listed(it)) /\ Listed(it).step = "listed" /\ Listed(it).it = it
              /\ CopyOf(Converged(it)) /\ Converged(it).step \notin {"seen", "listed"}
              /\ CopyOf(Upsert(it)) /\ Upsert(it).step \notin {"seen", "listed"}
              /\ \A p \in Plan : CopyOf(Seen(it, p)) /\ Seen(it, p).step = "seen" /\ Seen(it, p).it = it
              /\ \A status \in Verdict, p \in Plan :
                   CopyOf(Stored(it, status, p)) /\ Stored(it, status, p).step \notin {"seen", "listed"}
<1>1. provider \in Copy /\ NamesExecuted(provider)
  BY DEF ResizeInvariant, ResizeTypeOK, Copy, CopiesAreExecuted
<1>2. /\ CopyOf(Unbegun) /\ Unbegun.step \notin {"seen", "listed"}
      /\ \A status \in Verdict : CopyOf(Judged(status)) /\ Judged(status).step \notin {"seen", "listed"}
      /\ \A p \in Plan : CopyOf(Read(p)) /\ Read(p).step \notin {"seen", "listed"}
  <2>1. CopyOf(Unbegun) /\ Unbegun.step \notin {"seen", "listed"}
    BY DEF CopyOf, Unbegun
  <2>2. ASSUME NEW status \in Verdict PROVE CopyOf(Judged(status)) /\ Judged(status).step \notin {"seen", "listed"}
    BY DEF CopyOf, Judged
  <2>3. ASSUME NEW p \in Plan PROVE CopyOf(Read(p)) /\ Read(p).step \notin {"seen", "listed"}
    BY DEF CopyOf, Read
  <2>. QED BY <2>1, <2>2, <2>3
<1>3. ASSUME NEW it \in Copy
      PROVE  /\ CopyOf(Listed(it)) /\ Listed(it).step = "listed" /\ Listed(it).it = it
             /\ CopyOf(Converged(it)) /\ Converged(it).step \notin {"seen", "listed"}
             /\ CopyOf(Upsert(it)) /\ Upsert(it).step \notin {"seen", "listed"}
  <2>1. CopyOf(Listed(it)) /\ CopyOf(Converged(it)) /\ CopyOf(Upsert(it))
    BY DEF CopyOf, Listed, Converged, Upsert
  <2>. QED BY <2>1 DEF Listed, Converged, Upsert
<1>4. ASSUME NEW it \in Copy, NEW p \in Plan
      PROVE  CopyOf(Seen(it, p)) /\ Seen(it, p).step = "seen" /\ Seen(it, p).it = it
  <2>1. CopyOf(Seen(it, p))
    BY DEF CopyOf, Seen
  <2>. QED BY <2>1 DEF Seen
<1>5. ASSUME NEW it \in Copy, NEW status \in Verdict, NEW p \in Plan
      PROVE  CopyOf(Stored(it, status, p)) /\ Stored(it, status, p).step \notin {"seen", "listed"}
  <2>1. CopyOf(Stored(it, status, p))
    BY DEF CopyOf, Stored
  <2>. QED BY <2>1 DEF Stored
<1>. QED BY <1>1, <1>2, <1>3, <1>4, <1>5

\* What a phase that holds a copy, or a status, holds.
LEMMA PhaseHolds ==
  ASSUME NEW phase, CopyOf(phase)
  PROVE  /\ phase.step \in {"seen", "listed", "converged", "stored", "upsert"} => phase.it \in Copy
         /\ phase.step \in {"read", "seen"} => phase.plan \in Plan
         /\ phase.step = "stored" => phase.sub \in Verdict /\ phase.priced \in Plan
         /\ phase.step = "judged" => phase.verdict \in Verdict
  BY DEF CopyOf, Unbegun, Read, Seen, Listed, Converged, Stored, Judged, Upsert

\* A webhook and a pass hold copies, and name what Stripe has applied.
WebhookFine == CopyOf(webhook) /\ (webhook.step = "seen" => NamesExecuted(webhook.it))
PassFine == CopyOf(pass) /\ (pass.step = "listed" => NamesExecuted(pass.it))

LEMMA WebhookMoves ==
  ASSUME ResizeInvariant, UNCHANGED executed,
         \/ WebhookReads \/ WebhookRetrieves \/ WebhookConverges \/ WebhookFails
         \/ WebhookCompares \/ WebhookApplies \/ webhook' = Unbegun
  PROVE  WebhookFine'
<1>1. plan \in Plan /\ CopyOf(webhook)
  BY DEF ResizeInvariant, ResizeTypeOK
<1>2. CASE WebhookReads \/ WebhookFails \/ WebhookApplies \/ webhook' = Unbegun
  <2>1. webhook' = Unbegun \/ webhook' = Read(plan)
    BY <1>2 DEF WebhookReads, WebhookFails, WebhookApplies
  <2>. QED BY <1>1, <2>1, CopyTaken DEF WebhookFine, CopyOf
<1>3. CASE WebhookRetrieves
  <2>1. webhook' = Seen(provider, webhook.plan) /\ webhook.plan \in Plan
    BY <1>1, <1>3, PhaseHolds DEF WebhookRetrieves
  <2>. QED BY <2>1, CopyTaken DEF WebhookFine, CopyOf, NamesExecuted
<1>4. CASE WebhookConverges
  <2>1. webhook' = Converged(webhook.it) /\ webhook.it \in Copy
    BY <1>1, <1>4, PhaseHolds DEF WebhookConverges
  <2>. QED BY <2>1, CopyTaken DEF WebhookFine, CopyOf
<1>5. CASE WebhookCompares
  <2>1. \E status \in Verdict : webhook' = Judged(status)
    BY <1>5 DEF WebhookCompares, Accepted, Verdict
  <2>. QED BY <2>1, CopyTaken DEF WebhookFine, CopyOf
<1>. QED BY <1>2, <1>3, <1>4, <1>5

LEMMA PassMoves ==
  ASSUME ResizeInvariant, UNCHANGED executed,
         BeginPass \/ PassConverges \/ PassFails \/ PassLists \/ PassCompares \/ PassApplies \/ pass' = Unbegun
  PROVE  PassFine'
<1>1. plan \in Plan /\ sub \in Verdict /\ priced \in Plan /\ CopyOf(pass)
  BY DEF ResizeInvariant, ResizeTypeOK
<1>2. CASE PassFails \/ PassApplies \/ pass' = Unbegun
  <2>1. pass' = Unbegun
    BY <1>2 DEF PassFails, PassApplies
  <2>. QED BY <2>1, CopyTaken DEF PassFine, CopyOf
<1>3. CASE BeginPass
  <2>1. pass' = Listed(provider)
    BY <1>3 DEF BeginPass
  <2>. QED BY <2>1, CopyTaken DEF PassFine, CopyOf, NamesExecuted
<1>4. CASE PassConverges \/ PassLists
  <2>1. pass' \in {Converged(pass.it), Stored(pass.it, sub, priced)} /\ pass.it \in Copy
    BY <1>1, <1>4, PhaseHolds DEF PassConverges, PassLists
  <2>. QED BY <1>1, <2>1, CopyTaken DEF PassFine, CopyOf
<1>5. CASE PassCompares
  <2>1. pass' \in {Unbegun, Judged("inactive"), Upsert(pass.it)} /\ pass.it \in Copy
    <3>1. \A listed, status, price, expected : Correction(listed, status, price, expected) \in {Unbegun, Judged("inactive"), Upsert(listed)}
      BY DEF Correction
    <3>. QED BY <1>1, <1>5, <3>1, PhaseHolds DEF PassCompares
  <2>. QED BY <2>1, CopyTaken DEF PassFine, CopyOf, Verdict
<1>. QED BY <1>2, <1>3, <1>4, <1>5

\* Everything but the two phases stays.
LEMMA PhaseSteps ==
  ASSUME ResizeInvariant,
         \/ WebhookReads \/ WebhookRetrieves \/ WebhookFails \/ WebhookCompares
         \/ BeginPass \/ PassFails \/ PassLists \/ PassCompares \/ HandlerDies
  PROVE  ResizeInvariant'
<1>1. /\ UNCHANGED <<ledger, provider, executed, inFlight, events, request>> /\ faults' \in 0 .. MaxFaults
  BY ResizeConstants DEF WebhookReads, WebhookRetrieves, WebhookFails, WebhookCompares, BeginPass, PassFails, PassLists, PassCompares,
     HandlerDies, Fault, stripe, ResizeInvariant, ResizeTypeOK
<1>2. UNCHANGED <<plan, alloc, sub, priced, usage, hold, lapsed>>
  BY <1>1 DEF ledger
<1>3. WebhookFine'
  <2>1. CASE UNCHANGED webhook
    BY <1>1, <2>1 DEF ResizeInvariant, CopiesAreExecuted, WebhookFine, CopyOf, NamesExecuted
  <2>2. CASE WebhookReads \/ WebhookRetrieves \/ WebhookFails \/ WebhookCompares \/ webhook' = Unbegun
    BY <1>1, <2>2, WebhookMoves
  <2>. QED BY <2>1, <2>2 DEF BeginPass, PassFails, PassLists, PassCompares, HandlerDies
<1>4. PassFine'
  <2>1. CASE UNCHANGED pass
    BY <1>1, <2>1 DEF ResizeInvariant, CopiesAreExecuted, PassFine, CopyOf, NamesExecuted
  <2>2. CASE BeginPass \/ PassFails \/ PassLists \/ PassCompares \/ pass' = Unbegun
    BY <1>1, <2>2, PassMoves
  <2>. QED BY <2>1, <2>2 DEF WebhookReads, WebhookRetrieves, WebhookFails, WebhookCompares, HandlerDies
<1>5. CallsAreHeld' /\ OlderAreStale' /\ ConsumedIsBilled' /\ ResizeTypeOK'
  BY <1>1, <1>2 DEF ResizeInvariant, CallsAreHeld, OlderAreStale, ConsumedIsBilled, ResizeTypeOK
<1>6. CopiesAreExecuted'
  BY <1>1, <1>3, <1>4 DEF ResizeInvariant, CopiesAreExecuted, NamesExecuted, WebhookFine, PassFine
<1>. QED BY <1>3, <1>4, <1>5, <1>6 DEF ResizeInvariant, WebhookFine, PassFine

\* A copy converges: the change it names was applied by Stripe.
LEMMA Converging ==
  ASSUME ResizeInvariant, WebhookConverges \/ PassConverges
  PROVE  UNCHANGED ledger \/ \E k \in executed : ConvergeOn(k)
  BY DEF WebhookConverges, PassConverges, Converge, ResizeInvariant, CopiesAreExecuted, NamesExecuted

LEMMA ConvergeSteps ==
  ASSUME ResizeInvariant, WebhookConverges \/ PassConverges
  PROVE  ResizeInvariant'
<1>1. UNCHANGED <<provider, executed, inFlight, events, faults, request>>
  BY DEF WebhookConverges, PassConverges, stripe
<1>2. /\ plan' \in Plan /\ alloc' \in [state : {"active", "suspended"}, gen : Nat \ {0}]
      /\ hold' \in [Keys -> Hold] /\ UNCHANGED <<sub, usage>> /\ lapsed' \subseteq Keys /\ priced' \in Plan
      /\ \A j \in Keys : hold[j].state # "none" => hold'[j].state # "none"
      /\ OlderAreStale' /\ ConsumedIsBilled'
  <2>1. CASE UNCHANGED ledger
    BY <1>1, <2>1, HoldsType DEF ledger, ResizeInvariant, ResizeTypeOK, OlderAreStale, ConsumedIsBilled
  <2>2. CASE \E k \in executed : ConvergeOn(k)
    BY <1>1, <2>2, ConvergingKeeps
  <2>. QED BY <2>1, <2>2, Converging
<1>3. CallsAreHeld'
  BY <1>1, <1>2 DEF ResizeInvariant, CallsAreHeld, ResizeTypeOK
<1>4. ResizeTypeOK'
  BY <1>1, <1>2 DEF ResizeInvariant, ResizeTypeOK, Hold
<1>5. WebhookFine' /\ PassFine'
  <2>1. CASE WebhookConverges
    BY <1>1, <2>1, WebhookMoves DEF WebhookConverges, ResizeInvariant, CopiesAreExecuted, PassFine, CopyOf, NamesExecuted
  <2>2. CASE PassConverges
    BY <1>1, <2>2, PassMoves DEF PassConverges, ResizeInvariant, CopiesAreExecuted, WebhookFine, CopyOf, NamesExecuted
  <2>. QED BY <2>1, <2>2
<1>6. CopiesAreExecuted'
  BY <1>1, <1>5 DEF ResizeInvariant, CopiesAreExecuted, NamesExecuted, WebhookFine, PassFine
<1>. QED BY <1>2, <1>3, <1>4, <1>5, <1>6 DEF ResizeInvariant, WebhookFine, PassFine

\* A status is applied, by a webhook or by a pass.
LEMMA EntitleKeeps ==
  ASSUME ResizeInvariant, NEW status \in Verdict, Entitle(status), UNCHANGED <<provider, executed, inFlight, request>>
  PROVE  /\ Settled(hold') /\ UNCHANGED <<plan, usage>> /\ lapsed' \subseteq Keys /\ sub' \in Verdict
         /\ alloc' \in [state : {"active", "suspended"}, gen : Nat \ {0}]
         /\ CallsAreHeld' /\ OlderAreStale' /\ ConsumedIsBilled'
         /\ NamesExecuted(provider)' /\ (provider.hold # NoHold => provider.plan = PlanOf(provider.hold))'
<1>1. alloc \in [state : {"active", "suspended"}, gen : Nat \ {0}] /\ hold \in [Keys -> Hold]
  BY HoldsType DEF ResizeInvariant, ResizeTypeOK
<1>2. alloc' \in [state : {"active", "suspended"}, gen : Nat \ {0}] /\ alloc'.gen >= alloc.gen /\ alloc'.gen \in Nat
  BY <1>1 DEF Entitle
<1>3. Settled(hold')
  BY <1>1 DEF Entitle, Settled, Hold
<1>4. UNCHANGED <<plan, usage>> /\ lapsed' \subseteq Keys /\ sub' \in Verdict
  BY DEF Entitle, StillLapsed, ResizeInvariant, ResizeTypeOK
<1>. QED BY <1>2, <1>3, <1>4, SettlingKeeps

LEMMA ApplySteps ==
  ASSUME ResizeInvariant, WebhookApplies \/ PassApplies \/ \E s \in Verdict : InactiveWebhook(s)
  PROVE  ResizeInvariant'
<1>1. /\ UNCHANGED <<provider, executed, inFlight, faults, request>> /\ events' \subseteq events
      /\ priced' \in Plan /\ \E status \in Verdict : Entitle(status)
  <2>1. /\ webhook.step = "judged" => webhook.verdict \in Verdict
        /\ pass.step = "judged" => pass.verdict \in Verdict
        /\ pass.step = "upsert" => pass.it.status \in Verdict /\ pass.it.plan \in Plan
        /\ priced \in Plan
    BY PhaseHolds DEF ResizeInvariant, ResizeTypeOK, Copy
  <2>2. CASE WebhookApplies \/ \E s \in Verdict : InactiveWebhook(s)
    BY <2>1, <2>2 DEF WebhookApplies, InactiveWebhook
  <2>3. CASE PassApplies
    BY <2>1, <2>3 DEF PassApplies, stripe
  <2>. QED BY <2>2, <2>3
<1>2. /\ Settled(hold') /\ UNCHANGED <<plan, usage>> /\ lapsed' \subseteq Keys /\ sub' \in Verdict
      /\ alloc' \in [state : {"active", "suspended"}, gen : Nat \ {0}]
      /\ CallsAreHeld' /\ OlderAreStale' /\ ConsumedIsBilled'
  BY <1>1, EntitleKeeps
<1>3. WebhookFine'
  <2>1. CASE UNCHANGED webhook
    BY <1>1, <2>1 DEF ResizeInvariant, CopiesAreExecuted, WebhookFine, CopyOf, NamesExecuted
  <2>2. CASE WebhookApplies
    BY <1>1, <2>2, WebhookMoves
  <2>. QED BY <2>1, <2>2 DEF PassApplies, InactiveWebhook
<1>4. PassFine'
  <2>1. CASE UNCHANGED pass
    BY <1>1, <2>1 DEF ResizeInvariant, CopiesAreExecuted, PassFine, CopyOf, NamesExecuted
  <2>2. CASE PassApplies
    BY <1>1, <2>2, PassMoves
  <2>. QED BY <2>1, <2>2 DEF WebhookApplies, InactiveWebhook
<1>5. ResizeTypeOK'
  BY <1>1, <1>2 DEF ResizeInvariant, ResizeTypeOK, Settled, Hold
<1>6. CopiesAreExecuted'
  BY <1>1, <1>3, <1>4 DEF ResizeInvariant, CopiesAreExecuted, NamesExecuted, WebhookFine, PassFine
<1>. QED BY <1>2, <1>3, <1>4, <1>5, <1>6 DEF ResizeInvariant, WebhookFine, PassFine

LEMMA StepInvariant == ResizeInvariant /\ [Next]_vars => ResizeInvariant'
<1>. SUFFICES ASSUME ResizeInvariant, [Next]_vars PROVE ResizeInvariant'
  OBVIOUS
<1>1. ASSUME NEW r \in Request, Upgrade(r) PROVE ResizeInvariant'
  BY <1>1, QuietRequestSteps, AcquireStep, UpdateSteps, ConsumeConfirmedStep, ReleaseStep DEF Upgrade
<1>2. ASSUME NEW k \in Keys, HoldLapses(k) \/ LateUpdate(k) PROVE ResizeInvariant'
  BY <1>2, LedgerSteps, LateUpdateStep
<1>3. ASSUME NEW s \in Verdict, ProviderStatusChanges(s) \/ InactiveWebhook(s) PROVE ResizeInvariant'
  BY <1>3, ProviderStatusStep, ApplySteps
<1>4. ASSUME AddApplication \/ Webhook \/ Pass \/ HandlerDies PROVE ResizeInvariant'
  BY <1>4, LedgerSteps, PhaseSteps, ConvergeSteps, ApplySteps DEF Webhook, Pass
<1>5. CASE UNCHANGED vars
  BY <1>5 DEF vars, ledger, stripe, ResizeInvariant, ResizeTypeOK, CopyOf, CallsAreHeld, CopiesAreExecuted, NamesExecuted,
     OlderAreStale, ConsumedIsBilled
<1>. QED BY <1>1, <1>2, <1>3, <1>4, <1>5 DEF Next

-----------------------------------------------------------------------------
\* What a step does to the ledger, seen by the holds: some of them end, and
\* applications are added only when none is held; a new one is held for a plan
\* the applications fit; or a change that Stripe has applied is consumed.
EndsOrAdds ==
  /\ Settled(hold') /\ plan' = plan
  /\ \A k \in lapsed : hold'[k].state = "active" => k \in lapsed'
  /\ usage' = usage \/ NoActiveHold(hold')
Holds(k) ==
  /\ hold' = [Swept EXCEPT ![k] = [state |-> "active", gen |-> alloc.gen, from |-> plan]]
  /\ usage <= PlanOf(k) /\ UNCHANGED <<plan, usage>> /\ StillLapsed

LEMMA LedgerKinds ==
  ASSUME ResizeInvariant, Next
  PROVE  \/ EndsOrAdds
         \/ \E k \in Keys : Holds(k)
         \/ \E k \in executed : ConsumeHold(k)
<1>. DEFINE Kinds ==
              \/ EndsOrAdds
              \/ \E k \in Keys : Holds(k)
              \/ \E k \in executed : ConsumeHold(k)
<1>1. ResizeTypeOK /\ Settled(hold) /\ Settled(Swept)
  BY SweptSettled, SameSettled DEF ResizeInvariant
<1>2. ASSUME UNCHANGED ledger PROVE Kinds
  BY <1>1, <1>2 DEF ledger, EndsOrAdds, Settled
<1>3. ASSUME NEW k \in executed, ConvergeOn(k) PROVE Kinds
  BY <1>2, <1>3 DEF ConvergeOn
<1>4. ASSUME NEW r \in Request, Upgrade(r) PROVE Kinds
  <2>1. ASSUME AcquireHold(r) PROVE Kinds
    <3>1. request[r].key \in Keys /\ UNCHANGED <<plan, usage>> /\ StillLapsed
      BY <2>1 DEF AcquireHold, ResizeInvariant, CallsAreHeld
    <3>2. hold' = hold \/ hold' = Swept \/ Holds(request[r].key)
      BY <2>1, <3>1 DEF AcquireHold, Holds
    <3>. QED BY <1>1, <3>1, <3>2 DEF EndsOrAdds, Settled, StillLapsed
  <2>2. ASSUME ReleaseUnchanged(r) PROVE Kinds
    <3>1. request[r].key \in Keys /\ hold \in [Keys -> Hold]
      BY <1>1, <2>2, HoldsType DEF ReleaseUnchanged, ResizeInvariant, CallsAreHeld
    <3>2. Settled(hold')
      BY <2>2, <3>1 DEF ReleaseUnchanged, Settled, Hold
    <3>. QED BY <2>2, <3>2 DEF ReleaseUnchanged, EndsOrAdds, StillLapsed
  <2>3. ASSUME ConsumeConfirmed(r) PROVE Kinds
    BY <1>2, <1>3, <2>3 DEF ConsumeConfirmed, ResizeInvariant, CallsAreHeld
  <2>4. ASSUME \/ \E p \in Plan : BeginUpgrade(r, p)
               \/ ReadSubscription(r) \/ ReadAllocation(r) \/ UpdateAccepted(r) \/ UpdateThrows(r) \/ RetrieveAfterError(r) \/ ServerDies(r)
        PROVE  Kinds
    BY <1>2, <2>4 DEF BeginUpgrade, ReadSubscription, ReadAllocation, UpdateAccepted, UpdateThrows, RetrieveAfterError, ServerDies
  <2>. QED BY <1>4, <2>1, <2>2, <2>3, <2>4 DEF Upgrade
<1>5. ASSUME NEW k \in Keys, HoldLapses(k) PROVE Kinds
  <2>1. Settled(hold') /\ UNCHANGED <<plan, usage>> /\ lapsed \subseteq lapsed'
    BY <1>1, <1>5 DEF HoldLapses, Settled
  <2>. QED BY <2>1 DEF EndsOrAdds
<1>6. ASSUME AddApplication PROVE Kinds
  BY <1>1, <1>6 DEF AddApplication, EndsOrAdds, Settled, NoActiveHold, StillLapsed
<1>7. ASSUME WebhookConverges \/ PassConverges PROVE Kinds
  BY <1>2, <1>3, <1>7, Converging
<1>8. ASSUME WebhookApplies \/ PassApplies \/ \E s \in Verdict : InactiveWebhook(s) PROVE Kinds
  <2>1. \E status : Entitle(status)
    BY <1>8 DEF WebhookApplies, PassApplies, InactiveWebhook
  <2>2. hold \in [Keys -> Hold]
    BY <1>1, HoldsType
  <2>. QED BY <2>1, <2>2 DEF Entitle, EndsOrAdds, Settled, Hold, StillLapsed
<1>9. ASSUME \/ \E k \in Keys : LateUpdate(k)
             \/ \E s \in Verdict \ {"inactive"} : ProviderStatusChanges(s)
             \/ WebhookReads \/ WebhookRetrieves \/ WebhookFails \/ WebhookCompares
             \/ BeginPass \/ PassFails \/ PassLists \/ PassCompares \/ HandlerDies
      PROVE  Kinds
  BY <1>2, <1>9 DEF LateUpdate, ProviderStatusChanges, WebhookReads, WebhookRetrieves, WebhookFails, WebhookCompares,
     BeginPass, PassFails, PassLists, PassCompares, HandlerDies
<1>. QED BY <1>4, <1>5, <1>6, <1>7, <1>8, <1>9 DEF Next, Webhook, Pass

\* A hold that stays active was held before, and the applications it counts
\* are the same ones.
LEMMA StepHeldPlan ==
  ASSUME ResizeInvariant, HeldPlanFits, [Next]_vars
  PROVE  HeldPlanFits'
<1>1. hold \in [Keys -> Hold] /\ Settled(Swept)
  BY HoldsType, SweptSettled DEF ResizeInvariant
<1>2. CASE EndsOrAdds
  BY <1>2 DEF EndsOrAdds, Settled, HeldPlanFits, NoActiveHold
<1>3. ASSUME NEW k \in Keys, Holds(k) PROVE HeldPlanFits'
  <2>1. \A j \in Keys : hold'[j].state = "active" => j = k \/ (hold[j].state = "active" /\ j \notin lapsed)
    BY <1>1, <1>3 DEF Holds, Swept, Hold
  <2>. QED BY <1>3, <2>1 DEF Holds, HeldPlanFits
<1>4. ASSUME NEW k \in executed, ConsumeHold(k) PROVE HeldPlanFits'
  <2>1. k \in Keys
    BY DEF ResizeInvariant, ResizeTypeOK
  <2>. QED BY <1>1, <1>4, <2>1 DEF ConsumeHold, HeldPlanFits, Hold, StillLapsed
<1>5. CASE UNCHANGED vars
  BY <1>5 DEF vars, ledger, HeldPlanFits
<1>. QED BY <1>2, <1>3, <1>4, <1>5, LedgerKinds

\* The plan is written by the consuming step alone.
LEMMA StepGrant ==
  ASSUME ResizeInvariant, Next, plan' # plan
  PROVE  \E k \in executed : PlanOf(k) = plan' /\ hold[k].state # "consumed" /\ hold'[k].state = "consumed"
<1>1. PICK k \in executed : ConsumeHold(k)
  BY LedgerKinds DEF EndsOrAdds, Holds
<1>2. hold \in [Keys -> Hold] /\ k \in Keys
  BY HoldsType DEF ResizeInvariant, ResizeTypeOK
<1>. QED BY <1>1, <1>2 DEF ConsumeHold, Consumable, Hold

-----------------------------------------------------------------------------
\* The inductive invariant of a plan change.
THEOREM ResizeSafety == Spec => []ResizeInvariant
BY InitInvariant, StepInvariant, PTL DEF Spec

\* Type correctness, for every plan, request and fault.
THEOREM ResizeTypeCorrect == Spec => []ResizeTypeOK
<1>1. ResizeInvariant => ResizeTypeOK
  BY DEF ResizeInvariant
<1>. QED BY <1>1, ResizeSafety, PTL

\* Whatever retries, late calls, webhooks and passes do, a change Stripe names
\* and the ledger has consumed is the plan the server has.
THEOREM ConsumedIsAlwaysBilled == Spec => []ConsumedIsBilled
<1>1. ResizeInvariant => ConsumedIsBilled
  BY DEF ResizeInvariant
<1>. QED BY <1>1, ResizeSafety, PTL

\* Applications added and plans changed at once never leave a server that
\* holds a plan its applications do not fit.
THEOREM HeldPlanAlwaysFits == Spec => []HeldPlanFits
<1>1. Init => HeldPlanFits
  BY DEF Init, HeldPlanFits, Absent
<1>2. ResizeInvariant /\ HeldPlanFits /\ [Next]_vars => HeldPlanFits'
  BY StepHeldPlan
<1>. QED BY <1>1, <1>2, ResizeSafety, PTL DEF Spec

\* A step that changes the plan consumes a hold whose update Stripe applied.
THEOREM GrantsFollowStripe == Spec => GrantedOnlyAsBilled
<1>1. ResizeInvariant /\ [Next]_vars =>
        [plan' # plan => \E k \in executed : PlanOf(k) = plan' /\ hold[k].state # "consumed" /\ hold'[k].state = "consumed"]_vars
  BY StepGrant DEF vars, ledger
<1>. QED BY <1>1, ResizeSafety, PTL DEF Spec, GrantedOnlyAsBilled
=============================================================================
