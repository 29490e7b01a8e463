--------------------------- MODULE LiveAssurance ---------------------------
(***************************************************************************)
(* Two modules of the extended business engine whose records copy, when    *)
(* they are written, what decides who may read them; a command finds only  *)
(* the records its caller may read.  live: one session, the grants of its  *)
(* presenters, the access of its attendees, their media consents, the      *)
(* broadcast, its chat and its prompts; the clock moves between commands.  *)
(* A consent is captured at a time its participant names, no later than it *)
(* is recorded.  The presenters are administrators, who read everything;   *)
(* one may also attend the session, or have created it.  assurance:        *)
(* programs, their subjects with a classification, risks, controls mapped  *)
(* to risks, and what is filed about a control or a risk.  Every command   *)
(* is one transaction.                                                     *)
(***************************************************************************)
EXTENDS Integers, Sequences, FiniteSets, FiniteSetsExt

CONSTANTS
  \* live
  Presenter, Attendee,           \* administrators; whoever may be let in, presenters too
  Kind,                          \* kinds of attendee access
  Creator, Visibility,           \* a member; "private" or a shared one
  ConsentRequired,               \* whether the session's recording mode asks for consent
  Horizon, MaxGrants, MaxAccesses, MaxConsents, MaxMessages, MaxVersion,
  \* assurance
  Admin, Person,                 \* an administrator, who reads everything, and the members
  ProgramKey, ControlKey,
  Classification,                \* ranks, 0 for public, 1 for internal .. 3 for restricted
  MaxPrograms, MaxSubjects, MaxRisks, MaxControls, MaxMappings, MaxRecords

VARIABLE records   \* of the module that is used

-----------------------------------------------------------------------------
(* live: the clock and the records of the session                          *)
now      == records.now
session  == records.session
grant    == records.grant
access   == records.access
consent  == records.consent
message  == records.message
prompt   == records.prompt
response == records.response

LiveInit == \E v \in Visibility :
  records = [now |-> 0, session |-> [state |-> "scheduled", version |-> 1, recorded |-> {}, snapshot |-> 0,
                                     visibility |-> v, participants |-> {Creator}], grant |-> <<>>, access |-> <<>>, consent |-> <<>>, message |-> <<>>, prompt |-> <<>>, response |-> <<>>]

\* What is written now about the session: whom it lets read when it is private.
Shared   == session.visibility # "private"
Present  == session.participants

ReadsSession(u)   == u \in Presenter \/ Shared \/ u \in Present
\* A message that was hidden is its sender's and the session creator's.
ReadsMessage(u, m) ==
  \/ u \in Presenter \cup {message[m].of, Creator}
  \/ message[m].state = "visible" /\ (Shared \/ u \in message[m].present)
ReadsPrompt(u, p) == u \in Presenter \/ Shared \/ u \in prompt[p].present
\* A grant, an access, a consent, an answer or a moderation: who it is about.
ReadsOwn(u, of)   == u \in Presenter \/ u = of

Tick == now < Horizon /\ records' = [records EXCEPT !.now = @ + 1]

IssuePresenterGrant(who, expires) ==
  /\ Len(grant) < MaxGrants /\ expires > now
  /\ records' = [records EXCEPT !.grant = Append(@, [of |-> who, expires |-> expires]), !.session.participants = @ \cup {who}]

\* In whatever state the session is.
IssueAttendeeAccess(who, kind, expires) ==
  /\ Len(access) < MaxAccesses /\ expires > now
  /\ records' = [records EXCEPT !.access = Append(@, [of |-> who, kind |-> kind, expires |-> expires]),
                                !.session.participants = @ \cup {who}]

RecordMediaConsent(who, given, at) ==
  /\ Len(consent) < MaxConsents /\ at <= now /\ ReadsSession(who)
  /\ records' = [records EXCEPT !.consent = Append(@, [of |-> who, granted |-> given, at |-> at])]

Holds(g, by) == ReadsOwn(by, grant[g].of) /\ grant[g].of = by /\ grant[g].expires > now
May(a, by, kinds) == ReadsOwn(by, access[a].of) /\ access[a].of = by /\ access[a].expires > now /\ access[a].kind \in kinds

Active == {access[a].of : a \in {b \in DOMAIN access : access[b].expires > now}}
            \cup {grant[g].of : g \in {h \in DOMAIN grant : grant[h].expires > now}}

\* The latest by the time it was captured, and of equals the one sorted last:
\* which of them that is depends on the order the store lists them in.
Latest(who) ==
  LET own == {c \in DOMAIN consent : consent[c].of = who} IN
  {c \in own : \A d \in own : consent[d].at <= consent[c].at}

\* Mutant of Consenting: any consent ever granted is enough.
ConsentingOnce == {who \in Presenter \cup Attendee : \E c \in DOMAIN consent : consent[c].of = who /\ consent[c].granted}

\* Those the sort may find consenting: the last of equal times is any of them.
Consenting == {who \in Presenter \cup Attendee : \E c \in Latest(who) : consent[c].granted}

StartBroadcast(g, by, expected) ==
  /\ Holds(g, by) /\ session.version = expected /\ session.state = "scheduled"
  /\ ConsentRequired => Active \subseteq Consenting
  /\ records' = [records EXCEPT !.session.state = "live", !.session.version = expected + 1,
                                !.session.recorded = Active, !.session.snapshot = Len(consent)]

UpdateBroadcast(g, by, expected) ==
  /\ Holds(g, by) /\ session.version = expected /\ expected < MaxVersion /\ session.state = "live"
  /\ records' = [records EXCEPT !.session.version = expected + 1]

SendChat(a, by) ==
  /\ Len(message) < MaxMessages /\ session.state = "live" /\ ReadsSession(by) /\ May(a, by, {"chat", "respond"})
  /\ records' = [records EXCEPT !.message = Append(@, [of |-> by, state |-> "visible", version |-> 1, present |-> Present])]

ModerateChat(m, g, by, verdict, expected) ==
  /\ Holds(g, by) /\ message[m].version = expected /\ expected < MaxVersion
  /\ records' = [records EXCEPT !.message[m].state = verdict, !.message[m].version = expected + 1]

OpenPrompt(g, by, closes) ==
  /\ Len(prompt) < MaxMessages /\ session.state = "live" /\ Holds(g, by)
  /\ records' = [records EXCEPT !.prompt = Append(@, [by |-> g, closes |-> closes, present |-> Present])]

\* A prompt takes answers until it closes, whether the session is still live or
\* not; an access answers once, a person with two accesses twice.  In a private
\* session whoever is let in after the prompt was opened cannot answer it.
SubmitResponse(p, a, by) ==
  /\ ReadsPrompt(by, p) /\ now <= prompt[p].closes /\ May(a, by, {"respond"})
  /\ \A r \in DOMAIN response : ~(response[r].prompt = p /\ response[r].access = a)
  /\ records' = [records EXCEPT !.response = Append(@, [prompt |-> p, access |-> a, at |-> now])]

EndBroadcast(g, by, expected) ==
  /\ Holds(g, by) /\ session.version = expected /\ session.state = "live"
  /\ records' = [records EXCEPT !.session.state = "ended", !.session.version = expected + 1]

LiveNext ==
  \/ Tick
  \/ \E t \in 1 .. Horizon : \/ \E p \in Presenter : IssuePresenterGrant(p, t)
                             \/ \E a \in Attendee, k \in Kind : IssueAttendeeAccess(a, k, t)
  \/ \E who \in Presenter \cup Attendee \cup {Creator}, given \in BOOLEAN, t \in 0 .. Horizon : RecordMediaConsent(who, given, t)
  \/ \E g \in DOMAIN grant, by \in Presenter :
       \/ \E v \in 1 .. MaxVersion : StartBroadcast(g, by, v) \/ UpdateBroadcast(g, by, v) \/ EndBroadcast(g, by, v)
       \/ \E m \in DOMAIN message, s \in {"visible", "hidden"}, v \in 1 .. MaxVersion : ModerateChat(m, g, by, s, v)
       \/ \E t \in 0 .. Horizon : OpenPrompt(g, by, t)
  \/ \E a \in DOMAIN access, by \in Attendee :
       \/ SendChat(a, by)
       \/ \E p \in DOMAIN prompt : SubmitResponse(p, a, by)
-----------------------------------------------------------------------------
(* assurance: "filed" is whatever was made from another record              *)
Unclassified == 0 - 1
program == records.program
subject == records.subject
risk    == records.risk
control == records.control
mapping == records.mapping
filed   == records.filed

User == Person \cup {Admin}

AssuranceInit == records = [program |-> <<>>, subject |-> <<>>, risk |-> <<>>, control |-> <<>>, mapping |-> <<>>, filed |-> <<>>]

\* Who a record names, in the fields it copied when it was written.
HeadOf(p)         == program[p].owner
ProgramNames(p)   == {program[p].owner, program[p].by}
SubjectNames(s)   == {HeadOf(subject[s].program), subject[s].owner, subject[s].by}
RiskNames(r)      == {HeadOf(risk[r].program), subject[risk[r].subject].owner, risk[r].by}
ControlNames(c)   == {HeadOf(control[c].program), control[c].owner} \cup control[c].lineage.owners
MappingNames(m)   == {HeadOf(control[mapping[m].control].program), mapping[m].by} \cup mapping[m].lineage.owners
FiledNames(f)     == {HeadOf(filed[f].program), filed[f].by} \cup filed[f].holders \cup filed[f].lineage.owners

\* The rule of the module: a public or internal record is the workspace's, any
\* other, an unclassified one too, is read by those it names.  An audit pack
\* and whatever else is private is never shared.
MayRead(u, class, names) == u = Admin \/ class \in {0, 1} \/ u \in names

ReadsProgram(u, p) == MayRead(u, Unclassified, ProgramNames(p))
ReadsSubject(u, s) == MayRead(u, subject[s].class, SubjectNames(s))
ReadsRisk(u, r)    == MayRead(u, subject[risk[r].subject].class, RiskNames(r))
ReadsControl(u, c) == MayRead(u, control[c].lineage.class, ControlNames(c))
ReadsMapping(u, m) == MayRead(u, mapping[m].lineage.class, MappingNames(m))
ReadsFiled(u, f)   == MayRead(u, IF filed[f].kind = "audit-pack" THEN Unclassified ELSE filed[f].lineage.class, FiledNames(f))

\* A key is compared with those of the programs the member may read: two
\* members may each have one of the same key.
CreateProgram(by, key, owner) ==
  /\ Len(program) < MaxPrograms
  /\ \A p \in DOMAIN program : ReadsProgram(by, p) => program[p].key # key
  /\ records' = [records EXCEPT !.program = Append(@, [key |-> key, owner |-> owner, by |-> by])]

RegisterSubject(by, p, owner, class) ==
  /\ Len(subject) < MaxSubjects /\ ReadsProgram(by, p)
  /\ records' = [records EXCEPT !.subject = Append(@, [program |-> p, owner |-> owner, class |-> class, by |-> by])]

CreateRisk(by, p, s) ==
  /\ Len(risk) < MaxRisks /\ ReadsProgram(by, p) /\ ReadsSubject(by, s) /\ subject[s].program = p
  /\ records' = [records EXCEPT !.risk = Append(@, [program |-> p, subject |-> s, by |-> by])]

\* Approved by an administrator.  A control starts with its program's lineage:
\* no subject, no classification.
NoLineage == [subjects |-> {}, owners |-> {}, class |-> Unclassified]
PublishControl(p, key, owner) ==
  /\ Len(control) < MaxControls
  /\ \A c \in DOMAIN control : ~(control[c].program = p /\ control[c].key = key)
  /\ records' = [records EXCEPT !.control = Append(@, [program |-> p, key |-> key, owner |-> owner, lineage |-> NoLineage])]

Strongest(classes) == IF classes = {} THEN Unclassified ELSE Max(classes)
SubjectsOf(risks)  == {risk[r].subject : r \in risks}
Lineage(subjects)  == [subjects |-> subjects, owners |-> {subject[s].owner : s \in subjects},
                       class |-> Strongest({subject[s].class : s \in subjects})]

Mapped(by, c, subjects, risks) ==
  [records EXCEPT !.control[c].lineage = Lineage(subjects),
                  !.mapping = Append(@, [control |-> c, risks |-> risks, lineage |-> Lineage(subjects), by |-> by])]

Mappable(by, c, risks) ==
  /\ Len(mapping) < MaxMappings /\ risks # {}
  /\ ReadsControl(by, c) /\ \A r \in risks : ReadsRisk(by, r) /\ risk[r].program = control[c].program

\* Mutant of MapControl: the risks mapped before are forgotten.
MapControlAnew(by, c, risks) == Mappable(by, c, risks) /\ records' = Mapped(by, c, SubjectsOf(risks), risks)

\* The subjects and classifications of earlier mappings are kept; what was made
\* from the control before keeps the lineage the control had then.
MapControl(by, c, risks) ==
  Mappable(by, c, risks) /\ records' = Mapped(by, c, control[c].lineage.subjects \cup SubjectsOf(risks), risks)

File(kind, by, p, on, holders, lineage) ==
  /\ Len(filed) < MaxRecords
  /\ records' = [records EXCEPT !.filed = Append(@,
       [kind |-> kind, by |-> by, program |-> p, on |-> on, after |-> Len(mapping), holders |-> holders, lineage |-> lineage])]

RequestEvidence(by, c, owner) ==
  ReadsControl(by, c) /\ File("evidence-request", by, control[c].program, c, {owner, control[c].owner}, control[c].lineage)

\* The lineage, and the mappings it covers, are those of the request it answers.
AttachEvidence(by, f) ==
  /\ filed[f].kind = "evidence-request" /\ ReadsFiled(by, f) /\ Len(filed) < MaxRecords
  /\ records' = [records EXCEPT !.filed = Append(@, [filed[f] EXCEPT !.kind = "assurance-evidence", !.by = by])]

\* An administrator's: the outcome of a test, an exception, a remediation.
TestControl(c)        == File("control-test", Admin, control[c].program, c, {control[c].owner}, control[c].lineage)
RecordException(c)    == File("control-exception", Admin, control[c].program, c, {control[c].owner}, control[c].lineage)
ApproveRemediation(r, owner) == File("remediation", Admin, risk[r].program, r, {owner}, Lineage({risk[r].subject}))
ExportAuditPack(by, p) == ReadsProgram(by, p) /\ File("audit-pack", by, p, p, {}, NoLineage)

AssuranceNext ==
  \/ \E u \in User, o \in User :
       \/ \E k \in ProgramKey : CreateProgram(u, k, o)
       \/ \E p \in DOMAIN program, c \in Classification : RegisterSubject(u, p, o, c)
       \/ \E c \in DOMAIN control : RequestEvidence(u, c, o)
  \/ \E p \in DOMAIN program :
       \/ \E k \in ControlKey, o \in User : PublishControl(p, k, o)
       \/ \E u \in User : ExportAuditPack(u, p) \/ \E s \in DOMAIN subject : CreateRisk(u, p, s)
  \/ \E c \in DOMAIN control :
       \/ TestControl(c)
       \/ RecordException(c)
       \/ \E u \in User, R \in SUBSET DOMAIN risk : MapControl(u, c, R)
  \/ \E u \in User, f \in DOMAIN filed : AttachEvidence(u, f)
  \/ \E r \in DOMAIN risk, o \in User : ApproveRemediation(r, o)

-----------------------------------------------------------------------------
Init == LiveInit \/ AssuranceInit
Next == \/ "session" \in DOMAIN records /\ LiveNext
        \/ "program" \in DOMAIN records /\ AssuranceNext
Spec == Init /\ [][Next]_records

Snapshot(who) == {c \in 1 .. session.snapshot : consent[c].of = who}

\* Nobody who had access when a recorded broadcast began had refused last: in
\* the consents the broadcast is bound to, the latest of each such participant
\* grants, whatever else was captured before it or recorded since.  (A refusal
\* after the start, or an attendee let in after it, stops no recording.)  And
\* what is said in a private session stays with those who were let in by then:
\* whoever reads a message or a prompt reads the session too, and, unless he is
\* an administrator, held an access of it or created it.
RecordedWithConsent ==
  /\ ~Shared => \A u \in Presenter \cup Attendee \cup {Creator} :
       /\ ReadsSession(u) <=> (u \in Presenter \cup {Creator} \/ \E a \in DOMAIN access : access[a].of = u)
       /\ (\E m \in DOMAIN message : ReadsMessage(u, m)) \/ (\E p \in DOMAIN prompt : ReadsPrompt(u, p)) => ReadsSession(u)
       /\ \A r \in DOMAIN response : access[response[r].access].of = u => ReadsPrompt(u, response[r].prompt)
  /\ ConsentRequired /\ session.state # "scheduled" =>
    \A who \in session.recorded : \E c \in Snapshot(who) :
      consent[c].granted /\ \A d \in Snapshot(who) : consent[d].at <= consent[c].at

\* Why they do.  The session names its creator and whoever was let in; what is
\* copied of that when something is said is part of it ever after.
SessionNamesAdmitted ==
  /\ session.participants = {Creator} \cup {grant[g].of : g \in DOMAIN grant} \cup {access[a].of : a \in DOMAIN access}
  /\ \A m \in DOMAIN message : message[m].of \in session.participants /\ message[m].present \subseteq session.participants
  /\ \A p \in DOMAIN prompt : prompt[p].present \subseteq session.participants
  /\ \A r \in DOMAIN response : ReadsPrompt(access[response[r].access].of, response[r].prompt)

RecordedAsSnapshot ==
  /\ session.snapshot <= Len(consent)
  /\ ConsentRequired /\ session.state # "scheduled" =>
       \A who \in session.recorded : \E c \in Snapshot(who) :
         consent[c].granted /\ \A d \in Snapshot(who) : consent[d].at <= consent[c].at

LiveInvariant ==
  /\ {"now", "session", "grant", "access", "consent", "message", "prompt", "response"} \subseteq DOMAIN records
  /\ {"state", "version", "recorded", "snapshot", "visibility", "participants"} \subseteq DOMAIN session
  /\ now \in Nat /\ session.snapshot \in Nat
  /\ grant \in Seq([of : Presenter, expires : Nat])
  /\ access \in Seq([of : Attendee, kind : Kind, expires : Nat])
  /\ consent \in Seq([of : Presenter \cup Attendee \cup {Creator}, granted : BOOLEAN, at : Nat])
  /\ message \in Seq([of : Attendee, state : {"visible", "hidden"}, version : Nat, present : SUBSET (Presenter \cup Attendee \cup {Creator})])
  /\ prompt \in Seq([by : DOMAIN grant, closes : Nat, present : SUBSET (Presenter \cup Attendee \cup {Creator})])
  /\ response \in Seq([prompt : DOMAIN prompt, access : DOMAIN access, at : Nat])
  /\ SessionNamesAdmitted /\ RecordedAsSnapshot

RisksOf(c, n) == UNION {mapping[m].risks : m \in {k \in 1 .. n : mapping[k].control = c}}

\* A control is as protected as the most protected subject of every risk it
\* was ever mapped to, and names the owners of all of them; and so is, as of
\* the mappings that came before it, every record filed on the control.  So
\* whoever reads a mapping, a control that has one, or what was filed on it,
\* and is not named there, may read every subject it is about.
LineageCoversRisks ==
  LET covers(lineage, S) ==
        /\ lineage.subjects = S /\ lineage.owners = {subject[s].owner : s \in S}
        /\ \A s \in S : lineage.class >= subject[s].class
      opens(reads, names, S) == reads \subseteq {Admin} \cup names \cup {u \in User : \A s \in S : ReadsSubject(u, s)}
  IN
  /\ \A c \in DOMAIN control :
       /\ covers(control[c].lineage, SubjectsOf(RisksOf(c, Len(mapping))))
       /\ opens({u \in User : ReadsControl(u, c)}, ControlNames(c), control[c].lineage.subjects)
  /\ \A m \in DOMAIN mapping :
       opens({u \in User : ReadsMapping(u, m)}, MappingNames(m), SubjectsOf(RisksOf(mapping[m].control, m)))
  /\ \A r \in DOMAIN risk : opens({u \in User : ReadsRisk(u, r)}, {risk[r].by}, {risk[r].subject})
  /\ \A f \in DOMAIN filed :
       LET S == CASE filed[f].kind = "audit-pack" -> {}
                  [] filed[f].kind = "remediation" -> {risk[filed[f].on].subject}
                  [] OTHER -> SubjectsOf(RisksOf(filed[f].on, filed[f].after))
       IN /\ covers(filed[f].lineage, S)
          /\ opens({u \in User : ReadsFiled(u, f)}, FiledNames(f), S)
=============================================================================
