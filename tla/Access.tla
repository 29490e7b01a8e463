------------------------------- MODULE Access -------------------------------
(***************************************************************************)
(* Who may act in which workspace: accounts, browser sessions, API tokens  *)
(* and memberships.  A request is let in by its credential, then its       *)
(* workspace is looked up, and then a transaction of its own looks it up   *)
(* again and writes; other requests move people between workspaces in      *)
(* between.  A user is a member of one workspace at most, and whoever is   *)
(* of none gets one of his own with his next request.  A workspace is      *)
(* named by the user it was made for.  Two credentials that are alike are  *)
(* one here, and one may run out at any time.  Names, passwords, rate      *)
(* limits and the plan of a workspace are left out.                        *)
(***************************************************************************)
EXTENDS Integers, Sequences, FiniteSets, TLC

CONSTANTS
  Founders,   \* the emails of the accounts there are at first, by user
  Address,    \* the email people sign up with
  Attempt,    \* the sign-ups under way
  Request,
  Scope,      \* what tokens may be for: "read", "write"
  Role,       \* what a member may be added as
  MaxAccounts, MaxCredentials

VARIABLE records

account    == records.account     \* emails, by user
signup     == records.signup      \* the emails of the sign-ups that found them free
own        == records.own         \* users with a workspace
member     == records.member      \* where a user belongs, as what
credential == records.credential  \* the sessions and tokens that are good
request    == records.request
\* For the properties: what was done by somebody who was not entitled to it.
strayed    == records.strayed

User    == DOMAIN account
Nowhere == [ws |-> 0, role |-> "none"]
Idle    == [at |-> "idle"]
Writers  == {"owner", "admin", "member"}
Managers == {"owner", "admin"}
Members  == Writers \cup {"viewer"}

Session(u) == [kind |-> "session", user |-> u, ws |-> 0, scopes |-> Scope]

Init == records =
  [account |-> Founders, signup |-> [a \in Attempt |-> "none"], own |-> DOMAIN Founders,
   member |-> [u \in DOMAIN Founders |-> [ws |-> u, role |-> "owner"]],
   credential |-> {Session(u) : u \in DOMAIN Founders}, request |-> [r \in Request |-> Idle], strayed |-> {}]

-----------------------------------------------------------------------------
(* Accounts and sessions. *)
UserByEmail(e) == {u \in User : account[u] = e}

\* A sign-up looks for the email, hashes the password and inserts; the email is
\* unique in the table.
SignupStarts(a, e) ==
  /\ signup[a] = "none" /\ UserByEmail(e) = {}
  /\ records' = [records EXCEPT !.signup[a] = e]

EmailIsFree(e) == UserByEmail(e) = {}

CreateUser(a) ==
  /\ signup[a] # "none" /\ EmailIsFree(signup[a])
  /\ Len(account) < MaxAccounts /\ Cardinality(credential) < MaxCredentials
  /\ records' = [records EXCEPT !.account = Append(@, signup[a]), !.member = Append(@, Nowhere),
       !.credential = @ \cup {Session(Len(account) + 1)}, !.signup[a] = "none"]
SignupFails(a) ==
  /\ signup[a] # "none" /\ ~EmailIsFree(signup[a])
  /\ records' = [records EXCEPT !.signup[a] = "none"]

Login(u) ==
  /\ Cardinality(credential) < MaxCredentials
  /\ records' = [records EXCEPT !.credential = @ \cup {Session(u)}]
Logout(c)  == c.kind = "session" /\ records' = [records EXCEPT !.credential = @ \ {c}]
Expires(c) == records' = [records EXCEPT !.credential = @ \ {c}]

-----------------------------------------------------------------------------
(* A request on its way in. *)
\* Mutant of Principal: a token counts wherever its user belongs.
PrincipalAnywhere(c) == TRUE

\* A token counts while its user belongs to the workspace it was issued in.
Principal(c) == c.kind = "token" => member[c.user].ws = c.ws

\* Members and tokens are managed by people who are signed in, not by tokens.
AuthorizeSuite(r, c, kind) ==
  /\ request[r] = Idle /\ Principal(c)
  /\ IF kind = "manage" THEN c.kind = "session" ELSE kind \in c.scopes
  /\ records' = [records EXCEPT !.request[r] =
       [at |-> "authorized", kind |-> kind, user |-> c.user, from |-> c.ws,
        role |-> "none", ws |-> 0, moved |-> FALSE, late |-> FALSE]]

\* Whoever belongs nowhere is given a workspace of his own, unless somebody
\* has made him a member since it was found that he belongs nowhere.
FindMembership(r) ==
  /\ request[r].at \in {"authorized", "scoped"} /\ member[request[r].user] = Nowhere
  /\ records' = [records EXCEPT !.request[r].at = "creating " \o @]
WorkspaceForUser(r, stage) ==
  LET u == request[r].user IN
    /\ request[r].at = "creating " \o stage
    /\ records' = [records EXCEPT !.request[r].at = stage, !.own = @ \cup {u},
         !.member[u] = IF @ = Nowhere THEN [ws |-> u, role |-> "owner"] ELSE @]

\* The look at the role before the handler.
RequireSuiteScope(r) ==
  LET u == request[r].user IN
    /\ request[r].at = "authorized" /\ request[r].kind # "manage" /\ member[u] # Nowhere
    /\ request[r].kind = "write" => member[u].role # "viewer"
    /\ records' = [records EXCEPT !.request[r].at = "scoped"]

\* The transaction's own look: a read or a command, or a change of members or
\* of tokens.
WithUserWorkspace(r) ==
  /\ request[r] # Idle /\ request[r].at = (IF request[r].kind = "manage" THEN "authorized" ELSE "scoped")
  /\ member[request[r].user] # Nowhere
  /\ records' = [records EXCEPT !.request[r] =
       [@ EXCEPT !.at = "in", !.ws = member[request[r].user].ws, !.role = member[request[r].user].role]]

\* A request of user u under way hears that he was moved.
Moving(u) ==
  [r \in Request |-> IF request[r] # Idle /\ request[r].user = u
                     THEN [request[r] EXCEPT !.moved = request[r].from # 0, !.late = request[r].at = "in"] ELSE request[r]]

\* Request r did what the roles in needs may do: in the workspace the user
\* belonged to, unless he was moved inside the transaction, and with a token in
\* the one it was issued in, unless he was moved during the request.
Strays(r, needs) ==
  LET q == request[r]  held == member[q.user] IN
    {x \in {"role", "token"} :
       IF x = "role" THEN ~q.late /\ ~(held.ws = q.ws /\ held.role \in needs)
                     ELSE ~q.moved /\ q.from \notin {0, q.ws}}

Execute(r) ==
  /\ request[r].at = "in" /\ request[r].kind \in Scope
  /\ request[r].kind = "write" => request[r].role \in Writers
  /\ records' = [records EXCEPT !.request[r] = Idle,
                                !.strayed = @ \cup Strays(r, IF request[r].kind = "write" THEN Writers ELSE Members)]

Managing(r) == request[r].at = "in" /\ request[r].kind = "manage"

AddWorkspaceMember(r, u, role) ==
  /\ Managing(r) /\ u # request[r].user /\ request[r].role \in Managers /\ member[u] = Nowhere
  /\ records' = [records EXCEPT !.request = [Moving(u) EXCEPT ![r] = Idle], !.member[u] = [ws |-> request[r].ws, role |-> role],
                                !.strayed = @ \cup Strays(r, Managers)]

RemoveWorkspaceMember(r, u) ==
  /\ Managing(r) /\ request[r].role \in Managers
  /\ member[u].ws = request[r].ws /\ member[u].role # "owner"
  /\ records' = [records EXCEPT !.request = [Moving(u) EXCEPT ![r] = Idle], !.member[u] = Nowhere, !.strayed = @ \cup Strays(r, Managers)]

CreateApiToken(r, scopes) ==
  /\ Managing(r) /\ Cardinality(credential) < MaxCredentials
  /\ "write" \in scopes => request[r].role \in Writers
  /\ records' = [records EXCEPT !.request[r] = Idle,
       !.credential = @ \cup {[kind |-> "token", user |-> request[r].user, ws |-> request[r].ws, scopes |-> scopes]},
       !.strayed = @ \cup Strays(r, IF "write" \in scopes THEN Writers ELSE Members)]

RevokeApiToken(r, c) ==
  /\ Managing(r) /\ c.kind = "token" /\ c.user = request[r].user /\ c.ws = request[r].ws
  /\ records' = [records EXCEPT !.request[r] = Idle, !.credential = @ \ {c}]

\* A refusal, or a client that gives up.
Refuse(r) == request[r] # Idle /\ records' = [records EXCEPT !.request[r] = Idle]

Next ==
  \/ \E a \in Attempt, e \in Address : SignupStarts(a, e)
  \/ \E a \in Attempt : CreateUser(a) \/ SignupFails(a)
  \/ \E u \in User : Login(u)
  \/ \E c \in credential : Logout(c) \/ Expires(c)
  \/ \E r \in Request :
       \/ \E c \in credential, kind \in Scope \cup {"manage"} : AuthorizeSuite(r, c, kind)
       \/ FindMembership(r)
       \/ \E stage \in {"authorized", "scoped"} : WorkspaceForUser(r, stage)
       \/ RequireSuiteScope(r)
       \/ WithUserWorkspace(r)
       \/ Execute(r)
       \/ \E u \in User : RemoveWorkspaceMember(r, u) \/ \E role \in Role : AddWorkspaceMember(r, u, role)
       \/ \E scopes \in SUBSET Scope \ {{}} : CreateApiToken(r, scopes)
       \/ \E c \in credential : RevokeApiToken(r, c)
       \/ Refuse(r)

Spec == Init /\ [][Next]_records

-----------------------------------------------------------------------------
\* Whoever signs up, is added, removed or moved while his requests are under
\* way: an email has one account; a workspace that anybody belongs to has the
\* user it was made for as its one owner; what a request did, its user was
\* entitled to in that very workspace when it was done, unless he was moved
\* inside the transaction; and a token acts where it was issued, unless its
\* user was moved during the request.
ActsAsMember ==
  /\ \A u, v \in User : account[u] = account[v] => u = v
  /\ \A u \in User : LET w == member[u].ws IN
       w # 0 => w \in own /\ member[w] = [ws |-> w, role |-> "owner"] /\ (member[u].role = "owner" => u = w)
  /\ strayed = {}
=============================================================================
