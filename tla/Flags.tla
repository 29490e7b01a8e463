------------------------------- MODULE Flags --------------------------------
(***************************************************************************)
(* The flags module: typed flags with configuration revisions that are     *)
(* approved, published and rolled back per environment, manifests to       *)
(* export, evaluation receipts, and preregistered experiments with their   *)
(* exposures.  Every command runs in a transaction of the workspace.  A    *)
(* repeated idempotency key changes nothing, a new one is always to be     *)
(* had, and a content hash stands for fields nothing rewrites.  What a     *)
(* revision's rules say of a context is the variant they target; values,   *)
(* types and the caller's default are left out.                            *)
(***************************************************************************)
EXTENDS Naturals, Sequences, FiniteSets, FiniteSetsExt

CONSTANTS
  FlagKey, Environment, Variant, Subject, Source,
  Context, Safe,   \* what a caller is asked for, and no variant: the safe value
  Order, Units,    \* the variants in the order they are listed, all there is to allocate
  Bucket,          \* where the digest of an environment, a flag and a subject falls
  Content,         \* what may be drafted: the variant rules target, each variant's share
  MaxRevisions, MaxEvaluations, MaxExposures

VARIABLE records   \* flags, revisions, manifests, evaluations, one experiment and its exposures

NoRevision == 0
flag       == records.flag
revision   == records.revision
manifest   == records.manifest
evaluation == records.evaluation
experiment == records.experiment
exposure   == records.exposure

Init == records = [flag |-> {}, revision |-> <<>>, manifest |-> <<>>, evaluation |-> <<>>,
                   experiment |-> [state |-> "none"], exposure |-> <<>>]

Revisions(env) == {r \in DOMAIN revision : revision[r].env = env}
Published(env) == {r \in Revisions(env) : revision[r].state = "published"}
Latest(S)      == Max({NoRevision} \cup S)         \* versions of an environment grow with positions
Version(r)     == IF r = NoRevision THEN 0 ELSE revision[r].version
NextVersion(env) == Version(Latest(Revisions(env))) + 1

Revision(env, key, base, state, content) ==
  [env |-> env, flag |-> key, version |-> NextVersion(env), base |-> base, state |-> state, content |-> content]

\* The share of the first i variants.
Reach(c, i) == MapThenSumSet(LAMBDA j : c.share[Order[j]], 1 .. i)
Weighted(c) == \E v \in Variant : c.share[v] > 0
ValidContent(c) ==
  /\ c.target \in [Context -> Variant \cup {Safe}]
  /\ Weighted(c) => Reach(c, Len(Order)) = Units

\* A flag key is drafted once, with one revision in one environment.
FlagDraft(key, env, content) ==
  /\ Len(revision) < MaxRevisions /\ key \notin flag /\ ValidContent(content)
  /\ records' = [records EXCEPT !.flag = @ \cup {key},
                   !.revision = Append(@, Revision(env, key, Version(Latest(Published(env))), "draft", content))]

RevisionApprove(r) ==
  /\ revision[r].state = "draft"
  /\ records' = [records EXCEPT !.revision[r].state = "approved"]

Superseding(env, revisions) ==
  [r \in DOMAIN revisions |-> IF r \in Published(env) THEN [revisions[r] EXCEPT !.state = "superseded"] ELSE revisions[r]]

Publishing(r) ==
  [records EXCEPT
     !.revision = [Superseding(revision[r].env, @) EXCEPT ![r].state = "published"],
     !.manifest = Append(@, [env |-> revision[r].env, revision |-> r])]

\* Mutant of RevisionPublish: what the revision was drafted on is not compared.
RevisionPublishOnAny(r, base) ==
  /\ Version(Latest(Published(revision[r].env))) = base
  /\ revision[r].state = "approved" /\ records' = Publishing(r)

RevisionPublish(r, base) ==
  /\ Version(Latest(Published(revision[r].env))) = base /\ revision[r].base = base
  /\ revision[r].state = "approved" /\ records' = Publishing(r)

\* A prior revision again, under a new version; no manifest is made of it.
RevisionRollback(target, base) ==
  LET env == revision[target].env IN
  /\ Len(revision) < MaxRevisions
  /\ revision[target].state \in {"published", "superseded"}
  /\ Published(env) # {} /\ Version(Latest(Published(env))) = base
  /\ records' = [records EXCEPT !.revision =
       Append(Superseding(env, @), Revision(env, revision[target].flag, base, "published", revision[target].content))]

\* Rules come first; then the shares, counted up to the subject's bucket.
EvaluateFlag(env, key, c, subject, context) ==
  LET reached == {i \in DOMAIN Order : Bucket[<<env, key, subject>>] < Reach(c, i)} IN
  IF c.target[context] # Safe THEN c.target[context]
  ELSE IF reached = {} THEN Safe ELSE Order[Min(reached)]

\* Only the flag of the environment's active revision is found.
Evaluate(env, key, subject, context) ==
  LET r == Latest(Published(env)) IN
  /\ Len(evaluation) < MaxEvaluations
  /\ r # NoRevision /\ revision[r].flag = key
  /\ records' = [records EXCEPT !.evaluation =
       Append(@, [env |-> env, flag |-> key, subject |-> subject, context |-> context, revision |-> r,
                  variant |-> EvaluateFlag(env, key, revision[r].content, subject, context)])]

ExperimentDraft ==
  /\ flag # {} /\ experiment.state = "none"
  /\ records' = [records EXCEPT !.experiment = [state |-> "draft"]]

ExperimentStart ==
  /\ experiment.state = "draft"
  /\ records' = [records EXCEPT !.experiment.state = "running"]

\* A source event counts once.  A subject seen with another variant spoils the
\* exposure found first, which is any of the subject's: the list is ordered by
\* when records were last written.
ExposureRecord(subject, variant, source) ==
  LET prior == {x \in DOMAIN exposure : exposure[x].subject = subject}
      new(quality) == [subject |-> subject, variant |-> variant, source |-> source, quality |-> quality]
  IN
  /\ Len(exposure) < MaxExposures /\ experiment.state = "running"
  /\ \A x \in DOMAIN exposure : exposure[x].source # source
  /\ \/ prior = {} /\ records' = [records EXCEPT !.exposure = Append(@, new("valid"))]
     \/ \E x \in prior : /\ exposure[x].variant # variant
                         /\ records' = [records EXCEPT !.exposure =
                              Append([@ EXCEPT ![x].quality = "multiple-variant"], new("multiple-variant"))]

Next ==
  \/ \E k \in FlagKey, e \in Environment :
       \/ \E c \in Content : FlagDraft(k, e, c)
       \/ \E s \in Subject, x \in Context : Evaluate(e, k, s, x)
  \/ \E r \in DOMAIN revision :
       \/ RevisionApprove(r)
       \/ \E b \in 0 .. MaxRevisions : RevisionPublish(r, b) \/ RevisionRollback(r, b)
  \/ ExperimentDraft \/ ExperimentStart
  \/ \E s \in Subject, v \in Variant, n \in Source : ExposureRecord(s, v, n)

Spec == Init /\ [][Next]_records

-----------------------------------------------------------------------------
Lived(env) == {r \in Revisions(env) : revision[r].state \in {"published", "superseded"}}

\* The revisions an environment has ever run form one line: at most one is
\* active and it is the newest that ever was, and each was made on the one it
\* replaced, so two authors who draft on the same revision cannot both publish;
\* and an experiment's subject counts as valid only if it saw one variant.
OneLineOfRevisions ==
  /\ \A e \in Environment :
       /\ Cardinality(Published(e)) = IF Lived(e) = {} THEN 0 ELSE 1
       /\ \A r \in Published(e) : r = Latest(Lived(e))
       /\ \A r, s \in Lived(e) : revision[r].base = revision[s].base => r = s
       /\ \A r \in Lived(e) : revision[r].base \in {0} \cup {revision[s].version : s \in Lived(e)}
  /\ \A x, y \in DOMAIN exposure :
       exposure[x].subject = exposure[y].subject /\ exposure[x].variant # exposure[y].variant
         => "multiple-variant" \in {exposure[x].quality, exposure[y].quality}

\* Whatever is published over a flag and rolled back again, its receipts give
\* one subject one variant in one context: a key is never drafted again, a
\* rollback brings the same content back, and the bucket knows no revision.
EvaluationsAreStable ==
  \A x, y \in DOMAIN evaluation :
    LET a == evaluation[x]  b == evaluation[y] IN
    a.env = b.env /\ a.flag = b.flag /\ a.subject = b.subject /\ a.context = b.context => a.variant = b.variant

\* What manifest-export hands out, the newest manifest of an environment, is of
\* the revision that is active there ("the exact active audience-safe
\* manifest").  A rollback leaves the old manifest the newest.
ExportIsActive ==
  \A e \in Environment : Published(e) # {} =>
    LET newest == Latest({m \in DOMAIN manifest : manifest[m].env = e}) IN
    manifest[newest].revision \in Published(e)
=============================================================================
