------------------------------- MODULE Forms -------------------------------
(***************************************************************************)
(* The forms module: immutable form releases with declarative logic,       *)
(* submissions against an exact published release, their corrections, and  *)
(* exports; and the page a release is answered on, whose script applies    *)
(* the rules in the browser and sends one idempotency key however often    *)
(* the respondent tries.  A command runs in a transaction of the           *)
(* workspace; a member's repeated key changes nothing, a new one is always *)
(* to be had.  An answer's own type is left out; a hash stands for what    *)
(* nothing rewrites.                                                       *)
(***************************************************************************)
EXTENDS Naturals, Sequences, FiniteSets

CONSTANTS
  Field, Value, Absent,   \* field keys, their values, and no value at all
  Page,                   \* open form pages, each with the key it was given
  MaxForms, MaxReleases, MaxRules, MaxRequired, MaxSubmissions, MaxVersion, MaxExports

VARIABLE records   \* forms, releases, submissions with their versions, exports, pages

form       == records.form
release    == records.release
submission == records.submission
export     == records.export
page       == records.page

NoPage == 0

Rule  == [when : Field, equals : Value, effect : {"show", "hide", "require"}, target : Field]
Logic == UNION {[1 .. n -> Rule] : n \in 0 .. MaxRules}
Answers == [Field -> Value \cup {Absent}]

NotOpened == [release |-> 0, sent |-> {}, received |-> FALSE]
Init == records = [form |-> 0, release |-> <<>>, submission |-> <<>>, export |-> <<>>,
                   page |-> [p \in Page |-> NotOpened]]

FormCreate == form < MaxForms /\ records' = [records EXCEPT !.form = @ + 1]

\* A draft's schema and logic are stored as they come.
FormDraft(f, fields, required, logic) ==
  /\ records' = [records EXCEPT !.release = Append(@,
       [form |-> f, version |-> 1 + Cardinality({r \in DOMAIN release : release[r].form = f}),
        fields |-> fields, required |-> required, logic |-> logic, state |-> "draft"])]

ValidSchema(r) == r.fields # {}
Acyclic(r) ==
  \A S \in SUBSET r.fields :
    S = {} \/ \E f \in S : \A i \in DOMAIN r.logic : r.logic[i].when = f => r.logic[i].target \notin S
ValidLogic(r) ==
  /\ \A i \in DOMAIN r.logic : r.logic[i].when \in r.fields /\ r.logic[i].target \in r.fields
  /\ Acyclic(r)

ReleasePublish(r) ==
  /\ release[r].state = "draft" /\ ValidSchema(release[r]) /\ ValidLogic(release[r])
  /\ records' = [records EXCEPT !.release[r].state = "published"]

Fires(r, a, i) == a[r.logic[i].when] = r.logic[i].equals
\* The last rule that fires and shows or hides a field decides.
Shown(r, a, f) ==
  \A i \in DOMAIN r.logic :
    Fires(r, a, i) /\ r.logic[i].effect = "hide" /\ r.logic[i].target = f =>
      \E j \in DOMAIN r.logic : j > i /\ Fires(r, a, j) /\ r.logic[j].effect = "show" /\ r.logic[j].target = f
Wanted(r, a, f) ==
  \/ f \in r.required
  \/ \E i \in DOMAIN r.logic : Fires(r, a, i) /\ r.logic[i].effect = "require" /\ r.logic[i].target = f

\* Mutant of Valid: an answer to a hidden field is let through.
ValidIgnoringHidden(r, a) ==
  /\ \A f \in Field \ r.fields : a[f] = Absent
  /\ \A f \in r.fields : Shown(r, a, f) /\ Wanted(r, a, f) => a[f] # Absent

Valid(r, a) ==
  /\ \A f \in Field \ r.fields : a[f] = Absent
  /\ \A f \in r.fields : IF Shown(r, a, f) THEN Wanted(r, a, f) => a[f] # Absent ELSE a[f] = Absent

Submission(r, a, p) == [release |-> r, page |-> p, current |-> a, version |-> 1, versions |-> <<a>>]

SubmissionCreate(r, a) ==
  /\ Len(submission) < MaxSubmissions
  /\ release[r].state = "published" /\ Valid(release[r], a)
  /\ records' = [records EXCEPT !.submission = Append(@, Submission(r, a, NoPage))]

SubmissionCorrect(s, a, expected) ==
  /\ submission[s].version = expected /\ expected < MaxVersion
  /\ release[submission[s].release].state = "published" /\ Valid(release[submission[s].release], a)
  /\ records' = [records EXCEPT !.submission[s].versions = Append(@, a),
                                !.submission[s].current = a, !.submission[s].version = expected + 1]

OpenForm(p, r) ==
  /\ page[p] = NotOpened /\ release[r].state = "published"
  /\ records' = [records EXCEPT !.page[p].release = r]

\* The script's rules read every control, a disabled one's old value too; a
\* "show" that does not fire hides, where the engine lets it pass.
Rules(r, f, effects) == {i \in DOMAIN r.logic : r.logic[i].target = f /\ r.logic[i].effect \in effects}
LastOf(I) == CHOOSE i \in I : \A j \in I : j <= i
Enabled(r, typed, f) ==
  LET deciding == {i \in Rules(r, f, {"show", "hide"}) : r.logic[i].effect = "show" \/ Fires(r, typed, i)}
  IN  deciding # {} => LET i == LastOf(deciding) IN r.logic[i].effect = "show" /\ Fires(r, typed, i)
AskedFor(r, typed, f) ==
  LET deciding == {i \in Rules(r, f, {"hide", "require"}) : r.logic[i].effect = "require" \/ Fires(r, typed, i)}
      last     == LastOf(deciding)
  IN  IF deciding = {} THEN f \in r.required
      ELSE r.logic[last].effect = "require" /\ (Fires(r, typed, last) \/ f \in r.required)
Sends(r, typed) == [f \in Field |-> IF f \in r.fields /\ Enabled(r, typed, f) THEN typed[f] ELSE Absent]

\* The respondent presses Send: what the browser lets through reaches the
\* engine, whose answer may be lost; a refusal leaves the page as it is.
Submit(p, typed, arrives) ==
  LET r    == page[p].release
      a    == Sends(release[r], typed)
      mine == {s \in DOMAIN submission : submission[s].page = p}
  IN
  /\ r # 0 /\ ~page[p].received
  /\ \A f \in release[r].fields : Enabled(release[r], typed, f) /\ AskedFor(release[r], typed, f) => typed[f] # Absent
  /\ Valid(release[r], a)
  /\ IF mine = {} THEN Len(submission) < MaxSubmissions ELSE \A s \in mine : submission[s].current = a
  /\ records' = [records EXCEPT
       !.submission = IF mine = {} THEN Append(@, Submission(r, a, p)) ELSE @,
       !.page[p].sent = {a}, !.page[p].received = arrives]

RowsOf(f) == {s \in DOMAIN submission : release[submission[s].release].form = f}
ExportPreview(f) ==
  /\ Len(export) < MaxExports
  /\ records' = [records EXCEPT !.export = Append(@, [form |-> f, rows |-> Cardinality(RowsOf(f)), state |-> "previewed"])]
ExportCreate(x) ==
  /\ export[x].state = "previewed"
  /\ records' = [records EXCEPT !.export[x].state = "created"]

Next ==
  \/ FormCreate
  \/ \E f \in 1 .. form :
       \/ /\ Len(release) < MaxReleases
          /\ \E F \in SUBSET Field, l \in Logic : \E Q \in {R \in SUBSET F : Cardinality(R) <= MaxRequired} : FormDraft(f, F, Q, l)
       \/ ExportPreview(f)
  \/ \E r \in DOMAIN release : ReleasePublish(r) \/ \E a \in Answers : SubmissionCreate(r, a)
  \/ \E s \in DOMAIN submission, a \in Answers, v \in 1 .. MaxVersion : SubmissionCorrect(s, a, v)
  \/ \E x \in DOMAIN export : ExportCreate(x)
  \/ \E p \in Page :
       \/ \E r \in DOMAIN release : OpenForm(p, r)
       \/ \E typed \in Answers, arrives \in BOOLEAN : Submit(p, typed, arrives)

Spec == Init /\ [][Next]_records

-----------------------------------------------------------------------------
\* Whatever the order of a release's rules, every version of a submission, the
\* corrected ones included, is one a respondent of that release could have been
\* led to: no rule took effect on an answer to a field the rules hide, and what
\* the rules ask for is there; the current answers are the last version's.
AnswersFollowTheForm ==
  \A s \in DOMAIN submission :
    LET r == release[submission[s].release] IN
      /\ Len(submission[s].versions) = submission[s].version
      /\ submission[s].current = submission[s].versions[submission[s].version]
      /\ r.state = "published" /\ ValidLogic(r)
      /\ \A v \in DOMAIN submission[s].versions :
           LET a == submission[s].versions[v] IN
             /\ \A i \in DOMAIN r.logic : Fires(r, a, i) => Shown(r, a, r.logic[i].when)
             /\ \A f \in r.fields : Shown(r, a, f) /\ Wanted(r, a, f) => a[f] # Absent
\* A page answers once, however its answers are lost, retried or corrected by
\* a member in between: its key stands for at most one submission, of the
\* release the page shows, and a respondent who is told that his response was
\* received finds what he sent last among its versions.
PagesAnswerOnce ==
  \A p \in Page :
    LET mine == {s \in DOMAIN submission : submission[s].page = p} IN
      /\ Cardinality(mine) <= 1
      /\ \A s \in mine : submission[s].release = page[p].release
      /\ page[p].received =>
           \E s \in mine, a \in page[p].sent : \E v \in DOMAIN submission[s].versions : submission[s].versions[v] = a
=============================================================================
