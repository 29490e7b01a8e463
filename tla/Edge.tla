-------------------------------- MODULE Edge --------------------------------
(***************************************************************************)
(* The public edge.  An application or a suite workspace claims a hostname *)
(* and proves it by publishing the claim's challenge in DNS; the gateway   *)
(* reconciler polls the control plane for the routes that are proven and   *)
(* entitled and loads them into the proxy; the managed sign-in broker      *)
(* signs an identity for a route only after it has looked it up again.     *)
(* A domain row is written in the transaction of its claim and with the    *)
(* same status, so one record stands for both.  A platform hostname is     *)
(* written as its application.                                             *)
(***************************************************************************)
EXTENDS Integers, FiniteSets

CONSTANTS
  App, Workspace,   \* who may hold a hostname
  Host,             \* custom hostnames
  Callback,         \* sign-in callbacks that may run at once
  MaxLookups        \* DNS lookups in flight

Holder == App \cup Workspace

ASSUME HolderAssumption == App \cap Workspace = {} /\ Host \cap Holder = {}
ASSUME LookupsAssumption == MaxLookups \in Nat

VARIABLES
  claims,     \* hostname claims with their domain rows
  dns,        \* whose challenge each hostname publishes
  lookups,    \* answers of DNS lookups, not yet written
  standing,   \* of each holder: planned, live or lapsed
  gateway,    \* the reconciler: what it fetched, what it applied last, whether a load went unanswered
  proxy,      \* routes the proxy has loaded
  flow,       \* the sign-in flow
  callback    \* what each sign-in callback is doing

hostVars == <<claims, dns, lookups, standing>>
gatewayVars == <<gateway, proxy>>
signInVars == <<flow, callback>>
edgeVars == <<hostVars, gatewayVars, signInVars>>

Route == [host : Host \cup App, holder : Holder]
NoFlow == [state |-> "none", host |-> "none", app |-> "none", asserted |-> 0]

\* Only an application can be planned: a workspace has a plan or none.
Standing(p) == IF p \in App THEN {"planned", "live", "lapsed"} ELSE {"live", "lapsed"}

EdgeInit ==
  /\ claims = {} /\ lookups = {}
  /\ dns = [h \in Host |-> {}]
  /\ standing \in {s \in [Holder -> {"planned", "live", "lapsed"}] : \A p \in Holder : s[p] \in Standing(p)}
  /\ gateway = [at |-> "idle", routes |-> {}, applied |-> {}, unanswered |-> FALSE]
  /\ proxy = {}
  /\ flow = NoFlow /\ callback = [c \in Callback |-> "idle"]

-----------------------------------------------------------------------------
\* Hostnames.

\* Mutant of HostClaimed: a hostname is unique within its surface only.
HostClaimedInSurface(h, p) == \E c \in claims : c.host = h /\ (c.holder \in App <=> p \in App)

HostClaimed(h, p) == \E c \in claims : c.host = h

Claim(h, p) ==
  /\ standing[p] # "lapsed" /\ ~HostClaimed(h, p)
  /\ claims' = claims \cup {[host |-> h, holder |-> p, status |-> "pending", proven |-> FALSE]}
  /\ UNCHANGED <<dns, lookups, standing, gatewayVars, signInVars>>

Lookup(c) ==
  /\ standing[c.holder] # "lapsed" /\ Cardinality(lookups) < MaxLookups
  /\ lookups' = lookups \cup {[host |-> c.host, holder |-> c.holder, found |-> c.holder \in dns[c.host]]}
  /\ UNCHANGED <<claims, dns, standing, gatewayVars, signInVars>>

Judged(c, found) ==
  [c EXCEPT !.status = IF found THEN "verified" ELSE "pending", !.proven = @ \/ found]

\* The write of a workspace reads its plan again, that of an application does not.
WriteStatus(l) ==
  /\ lookups' = lookups \ {l}
  /\ claims' = {IF c.host = l.host /\ c.holder = l.holder /\ ~(l.holder \in Workspace /\ standing[l.holder] = "lapsed")
                THEN Judged(c, l.found) ELSE c : c \in claims}
  /\ UNCHANGED <<dns, standing, gatewayVars, signInVars>>

DnsChanges(h) ==
  /\ \E S \in SUBSET Holder : S # dns[h] /\ dns' = [dns EXCEPT ![h] = S]
  /\ UNCHANGED <<claims, lookups, standing, gatewayVars, signInVars>>

StandingChanges(p) ==
  /\ \E s \in Standing(p) \ {standing[p], "planned"} : standing' = [standing EXCEPT ![p] = s]
  /\ UNCHANGED <<claims, dns, lookups, gatewayVars, signInVars>>

\* A lookup that gets no answer, or a request that dies before it writes.
LookupLost(l) ==
  /\ lookups' = lookups \ {l}
  /\ UNCHANGED <<claims, dns, standing, gatewayVars, signInVars>>

-----------------------------------------------------------------------------
\* The gateway reconciler and the proxy.

Proven(c) == c.status = "verified" /\ standing[c.holder] = "live"
Custom(P) == {[host |-> c.host, holder |-> c.holder] : c \in {c \in claims : c.holder \in P /\ Proven(c)}}
GatewayRoutes == {[host |-> a, holder |-> a] : a \in {a \in App : standing[a] = "live"}} \cup Custom(App)
SuiteDomains == Custom(Workspace)

Duplicate(routes) == \E r, s \in routes : r # s /\ r.host = s.host

FetchRoutes ==
  /\ gateway.at = "idle"
  /\ gateway' = [gateway EXCEPT !.at = "domains", !.routes = GatewayRoutes]
  /\ UNCHANGED <<hostVars, proxy, signInVars>>

FetchDomains ==
  /\ gateway.at = "domains"
  /\ gateway' = [gateway EXCEPT !.at = "fetched", !.routes = @ \cup SuiteDomains]
  /\ UNCHANGED <<hostVars, proxy, signInVars>>

\* applied is {} before the first load, and holds the routes of the last one.
Load ==
  /\ gateway.at = "fetched" /\ ~Duplicate(gateway.routes) /\ gateway.applied # {gateway.routes}
  /\ proxy' = gateway.routes
  /\ gateway' = [at |-> "idle", routes |-> {}, applied |-> {gateway.routes}, unanswered |-> FALSE]
  /\ UNCHANGED <<hostVars, signInVars>>

\* The proxy takes the configuration and its answer is lost.
LoadUnanswered ==
  /\ gateway.at = "fetched" /\ ~Duplicate(gateway.routes) /\ gateway.applied # {gateway.routes}
  /\ proxy' = gateway.routes
  /\ gateway' = [gateway EXCEPT !.at = "idle", !.routes = {}, !.unanswered = TRUE]
  /\ UNCHANGED <<hostVars, signInVars>>

Unchanged ==
  /\ gateway.at = "fetched" /\ ~Duplicate(gateway.routes) /\ gateway.applied = {gateway.routes}
  /\ gateway' = [gateway EXCEPT !.at = "idle", !.routes = {}]
  /\ UNCHANGED <<hostVars, proxy, signInVars>>

\* Mutant of PollFails: the routes count as applied before the proxy accepts them.
PollFailsApplied ==
  /\ gateway.at # "idle"
  /\ gateway' = [gateway EXCEPT !.at = "idle", !.routes = {},
                                !.applied = IF gateway.at = "fetched" THEN {gateway.routes} ELSE @]
  /\ UNCHANGED <<hostVars, proxy, signInVars>>

\* Discovery is unavailable, or the proxy refuses the configuration.
PollFails ==
  /\ gateway.at # "idle"
  /\ gateway' = [gateway EXCEPT !.at = "idle", !.routes = {}]
  /\ UNCHANGED <<hostVars, proxy, signInVars>>

GatewayRestarts ==
  /\ gateway' = [at |-> "idle", routes |-> {}, applied |-> {}, unanswered |-> FALSE]
  /\ UNCHANGED <<hostVars, proxy, signInVars>>

\* The proxy starts with its own file, which routes the control plane only.
ProxyRestarts ==
  /\ proxy # {} /\ proxy' = {}
  /\ UNCHANGED <<hostVars, gateway, signInVars>>

-----------------------------------------------------------------------------
\* Managed sign-in of an application, on its platform or a custom hostname.

Routed(h, a) == [host |-> h, holder |-> a] \in GatewayRoutes
Answers(h, a) == h \in Host => a \in dns[h]

\* begin looks up route and DNS in two steps; complete repeats both.
Begin(h, a) ==
  /\ flow.state = "none" /\ Routed(h, a) /\ Answers(h, a)
  /\ flow' = [state |-> "open", host |-> h, app |-> a, asserted |-> 0]
  /\ UNCHANGED <<hostVars, gatewayVars, callback>>

FlowExpires ==
  /\ flow.state = "open"
  /\ flow' = [flow EXCEPT !.state = "expired"]
  /\ UNCHANGED <<hostVars, gatewayVars, callback>>

\* Mutant of Consume: the flow is only read.
ConsumeReads(c) ==
  /\ callback[c] = "idle" /\ flow.state = "open"
  /\ callback' = [callback EXCEPT ![c] = "consumed"]
  /\ UNCHANGED <<hostVars, gatewayVars, flow>>

Consume(c) ==
  /\ callback[c] = "idle" /\ flow.state = "open"
  /\ flow' = [flow EXCEPT !.state = "consumed"]
  /\ callback' = [callback EXCEPT ![c] = "consumed"]
  /\ UNCHANGED <<hostVars, gatewayVars>>

Fails(c) ==
  /\ callback[c] # "idle"
  /\ callback' = [callback EXCEPT ![c] = "idle"]
  /\ UNCHANGED <<hostVars, gatewayVars, flow>>

LookUpRoute(c) ==
  /\ callback[c] = "consumed" /\ Routed(flow.host, flow.app)
  /\ callback' = [callback EXCEPT ![c] = "routed"]
  /\ UNCHANGED <<hostVars, gatewayVars, flow>>

LookUpDns(c) ==
  /\ callback[c] = "routed" /\ Answers(flow.host, flow.app)
  /\ callback' = [callback EXCEPT ![c] = "active"]
  /\ UNCHANGED <<hostVars, gatewayVars, flow>>

\* The code is exchanged, the profile read, and the identity signed for the origin.
Sign(c) ==
  /\ callback[c] = "active"
  /\ callback' = [callback EXCEPT ![c] = "idle"]
  /\ flow' = [flow EXCEPT !.asserted = @ + 1]
  /\ UNCHANGED <<hostVars, gatewayVars>>

-----------------------------------------------------------------------------
Hostnames ==
  \/ \E h \in Host, p \in Holder : Claim(h, p)
  \/ \E c \in claims : Lookup(c)
  \/ \E l \in lookups : WriteStatus(l) \/ LookupLost(l)
  \/ \E h \in Host : DnsChanges(h)
  \/ \E p \in Holder : StandingChanges(p)

Reconciler == FetchRoutes \/ FetchDomains \/ Load \/ Unchanged

SignIn ==
  \/ \E h \in Host \cup App, a \in App : Begin(h, a)
  \/ FlowExpires
  \/ \E c \in Callback : Consume(c) \/ Fails(c) \/ LookUpRoute(c) \/ LookUpDns(c) \/ Sign(c)

EdgeNext == Hostnames \/ Reconciler \/ LoadUnanswered \/ PollFails \/ GatewayRestarts \/ ProxyRestarts \/ SignIn

EdgeSpec == EdgeInit /\ [][EdgeNext]_edgeVars

\* The reconciler polls for ever; its calls fail sometimes, but not every time.
Fairness ==
  /\ WF_edgeVars(FetchRoutes \/ Unchanged)
  /\ SF_edgeVars(FetchDomains) /\ SF_edgeVars(Load)
EdgeFairSpec == EdgeSpec /\ Fairness

-----------------------------------------------------------------------------
\* No two holders ever route one hostname, and a custom hostname is proxied
\* only to the holder of its claim, who has proved it
\* (hostname-claims.ts:168, app.ts:1340, gateway-reconciler.ts:32).
RoutedIsProven ==
  /\ ~Duplicate(gateway.routes) /\ ~Duplicate(proxy)
  /\ \A r \in proxy \cup gateway.routes :
       r.host \in Host => \E c \in claims : c.host = r.host /\ c.holder = r.holder /\ c.proven

\* However often a callback is replayed, a flow yields one identity, and only
\* after it was consumed (managed-oauth.ts:299).
AssertedOnce ==
  /\ flow.asserted <= 1
  /\ \A c, d \in Callback : callback[c] # "idle" /\ callback[d] # "idle" => c = d
  /\ flow.asserted = 1 => flow.state = "consumed"

\* A route that stays revoked leaves the proxy, whatever fails or restarts, if
\* a load that went unanswered is followed by one that is answered, or by a
\* restart of the reconciler (gateway-reconciler.ts:57 skips the load when the
\* routes are again those of the last answered one).
RouteRevoked(r) == r \notin GatewayRoutes \cup SuiteDomains
RevokedRoutesGo ==
  \A r \in {r \in Route : r.host \in Host \/ r.host = r.holder} : <>[](RouteRevoked(r) /\ ~gateway.unanswered) => <>[](r \notin proxy)

-----------------------------------------------------------------------------
\* Why both hold.  Types of what the edge keeps.
EdgeTypeOK ==
  /\ claims \subseteq [host : Host, holder : Holder, status : {"pending", "verified"}, proven : BOOLEAN]
  /\ lookups \subseteq [host : Host, holder : Holder, found : BOOLEAN]
  /\ gateway \in [at : {"idle", "domains", "fetched"}, routes : SUBSET Route, applied : SUBSET SUBSET Route,
                  unanswered : BOOLEAN]
  /\ proxy \subseteq Route
  /\ flow \in [state : {"none", "open", "expired", "consumed"}, host : Host \cup App \cup {"none"},
               app : App \cup {"none"}, asserted : {0, 1}]
  /\ callback \in [Callback -> {"idle", "consumed", "routed", "active"}]

\* A hostname has one claim, and a verified claim has been proved.  Claims stay.
ClaimsUnique ==
  /\ \A c, d \in claims : c.host = d.host => c = d
  /\ \A c \in claims : c.status = "verified" => c.proven

\* A route is an application's own, or its holder has proved the claim of it.
FromClaims(routes) ==
  \A r \in routes : \/ r.host \in App /\ r.holder = r.host
                    \/ \E c \in claims : c.host = r.host /\ c.holder = r.holder /\ c.proven

\* The callback at work, of which there is one, has consumed the flow.
OneCallback ==
  /\ \A c, d \in Callback : callback[c] # "idle" /\ callback[d] # "idle" => c = d
  /\ \A c \in Callback : callback[c] # "idle" => flow.state = "consumed" /\ flow.asserted = 0
  /\ flow.asserted = 1 => flow.state = "consumed"

EdgeInvariant ==
  /\ EdgeTypeOK /\ ClaimsUnique /\ FromClaims(gateway.routes) /\ FromClaims(proxy) /\ OneCallback
=============================================================================
