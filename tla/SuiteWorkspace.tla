--------------------------- MODULE SuiteWorkspace ---------------------------
(***************************************************************************)
(* A business workspace and the command engines of its modules.  A command *)
(* runs in a transaction that holds the workspace's advisory lock          *)
(* (runInWorkspaceTransaction), so it is one step; it is refused unless    *)
(* its module is enabled (executeSuiteAction).  An engine reads and writes *)
(* records of its own module only, so a workspace with several modules is  *)
(* a product of independent parts: the initial states have one module      *)
(* enabled, and Offered says which.  Each INSTANCE gives its engine the    *)
(* bounds it is checked with.                                              *)
(***************************************************************************)
EXTENDS Workspace, TLC

VARIABLE view   \* a visitor's request to the workspace's public pages

\* Plan 0 has no room; plan 1 has room for two records, one of them with an object.
RecordLimits  == 0 :> 0 @@ 1 :> 2
StorageLimits == 0 :> 0 @@ 1 :> 1

Seo == INSTANCE SeoNotify WITH
  Site <- {"s"}, Origin <- {"o", "p"}, Query <- {"q"}, Key <- {1, 2, 3}, NoOrigin <- "none",
  Ceiling <- 2, Day <- 2, MaxRecords <- 4,
  Subscriber <- {}, Topic <- {}, Event <- {}, Field <- {}, Workflow <- {}
CoreWork == INSTANCE CoreWork WITH
  Project <- {"p"}, Voter <- {"u"}, Terminal <- 2, Limited <- {1}, Limit <- 1,
  MaxItems <- 3, MaxRequests <- 3, MaxEntries <- 1,
  Delivery <- {"x", "y"}, Assignee <- {"as"}, ExternalKey <- {"k"}, Domain <- {"d"},
  Decision <- {"a"}, MaxConversations <- 2, MaxMessages <- 3, MaxOpportunities <- 2, MaxVersion <- 3
CorePublishing == INSTANCE CorePublishing WITH
  RouteKey <- {"rk"}, Content <- {"c", "e"}, Decision <- {"a", "b"}, Key <- {1, 2, 3},
  Delivery <- {"x"}, MaxRoutes <- 2, MaxVersions <- 2, MaxDocuments <- 1, MaxUses <- 2
Audience == INSTANCE Audience WITH
  User <- {"o", "u", "v"}, Admin <- {"o"}, NoUser <- "nobody", Privacy <- {"shared", "private"},
  FieldKey <- {"f", "g"}, Value <- {"x"}, Absent <- "none",
  MaxParents <- 1, MaxChildren <- 2, MaxFields <- 2, MaxRows <- 2, MaxVersion <- 2, MaxFrozen <- 1
Community == INSTANCE Audience WITH
  User <- {"o", "u", "v"}, Admin <- {"o"}, NoUser <- "nobody", Privacy <- {"shared", "private"},
  FieldKey <- {}, Value <- {}, Absent <- "none",
  MaxParents <- 1, MaxChildren <- 3, MaxFields <- 0, MaxRows <- 0, MaxVersion <- 0, MaxFrozen <- 0
AssuranceFiles == INSTANCE LiveAssurance WITH
  Presenter <- {}, Attendee <- {}, Creator <- "c", Visibility <- {}, Kind <- {}, ConsentRequired <- TRUE, Horizon <- 0,
  MaxGrants <- 0, MaxAccesses <- 0, MaxConsents <- 0, MaxMessages <- 0, MaxVersion <- 0,
  Admin <- "o", Person <- {"u"}, ProgramKey <- {"k"}, ControlKey <- {"c"}, Classification <- {0, 3},
  MaxPrograms <- 1, MaxSubjects <- 1, MaxRisks <- 1, MaxControls <- 1, MaxMappings <- 1, MaxRecords <- 2
Flags == INSTANCE Flags WITH
  FlagKey <- {"f", "g"}, Environment <- {"e"}, Variant <- {"a", "b"}, Subject <- {"s"},
  Context <- {"x"}, Safe <- "none", Order <- <<"a", "b">>, Units <- 2,
  Bucket <- [at \in {"e"} \X {"f", "g"} \X {"s"} |-> IF at[2] = "f" THEN 1 ELSE 0],
  Content <- {[target |-> "x" :> "a", share |-> "a" :> 0 @@ "b" :> 0], [target |-> "x" :> "none", share |-> "a" :> 1 @@ "b" :> 1],
              [target |-> "x" :> "none", share |-> "a" :> 1 @@ "b" :> 0]},
  Source <- {1, 2, 3}, MaxRevisions <- 4, MaxEvaluations <- 2, MaxExposures <- 2
Forms == INSTANCE Forms WITH
  Field <- {"f", "g", "h"}, Value <- {"x"}, Absent <- "none", Page <- {}, MaxForms <- 1, MaxReleases <- 1,
  MaxRules <- 2, MaxRequired <- 0, MaxSubmissions <- 1, MaxVersion <- 2, MaxExports <- 1
FormPages == INSTANCE Forms WITH
  Field <- {"f", "g"}, Value <- {"x"}, Absent <- "none", Page <- {1}, MaxForms <- 1, MaxReleases <- 1,
  MaxRules <- 2, MaxRequired <- 1, MaxSubmissions <- 2, MaxVersion <- 2, MaxExports <- 0
Esign == INSTANCE Esign WITH
  Field <- {"f"}, Document <- {"d"}, DecisionId <- {1, 2}, Horizon <- 1, MaxRoute <- 2,
  MaxTemplates <- 1, MaxEnvelopes <- 1, MaxSessions <- 3, MaxReminders <- 1, MaxVersion <- 6
HireCollab == INSTANCE HireCollab WITH
  Stage <- {"s", "t"}, FirstStage <- "s", PublishKey <- {"k"}, Interviewer <- {"i"}, Horizon <- 1,
  MaxJobs <- 1, MaxApplications <- 2, MaxTransitions <- 3, MaxInterviews <- 1, MaxDecisions <- 1,
  Item <- {"i", "j"}, Value <- {"x"}, OperationId <- {<<"client", 1>>, <<"client", 2>>}, Anywhere <- "null",
  MaxRevisions <- 3, MaxItems <- 2, MaxProposals <- 1, MaxPinned <- 1
Pages == INSTANCE RecordPages WITH
  Id <- {1, 2, 3}, Class <- {"shared", "managers"}, Role <- {"member"}, Precision <- 2,
  PageLimit <- 1, ScanLimit <- 2, ListLimit <- 3, Horizon <- 2
MemoryPages == INSTANCE RecordPages WITH
  Id <- {1, 2, 3}, Class <- {"shared", "managers"}, Role <- {"member", "admin", "none"}, Precision <- 1,
  PageLimit <- 1, ScanLimit <- 3, ListLimit <- 3, Horizon <- 1
Proposals == INSTANCE Proposals WITH
  Contract <- {"core", "growth", "premium", "additive", "extended", "plain"}, Doc <- {"a", "f"}, Foreign <- {"f"},
  Role <- {"admin", "member"}, MaxEdits <- 1, MaxRequests <- 1, MaxAttempts <- 2
TargetProposals == INSTANCE Proposals WITH
  Contract <- {"esign", "email"}, Doc <- {"a", "b"}, Foreign <- {}, Role <- {"member", "none"},
  MaxEdits <- 1, MaxRequests <- 1, MaxAttempts <- 1
AssistantRuns == INSTANCE Proposals WITH
  Contract <- {"assistant"}, Doc <- {"f"}, Foreign <- {"f"}, Role <- {"admin", "member"},
  MaxEdits <- 2, MaxRequests <- 1, MaxAttempts <- 1
Access == INSTANCE Access WITH
  Founders <- <<"a">>, Address <- {"e"}, Attempt <- {1, 2}, Request <- {1, 2}, Scope <- {"write"}, Role <- {"admin", "viewer"},
  MaxAccounts <- 3, MaxCredentials <- 2
ReadAccess == INSTANCE Access WITH
  Founders <- <<"a">>, Address <- {"e"}, Attempt <- {1}, Request <- {1}, Scope <- {"read", "write"},
  Role <- {"admin", "viewer"}, MaxAccounts <- 2, MaxCredentials <- 4
Public == INSTANCE PublicSite WITH
  Surface <- {"wall", "brand", "contest", "links", "library", "board"}, ReceiptLimit <- 3,
  MaxRevisions <- 2, MaxSources <- 1, MaxPublished <- 3

-----------------------------------------------------------------------------
\* The commands of module m, in the engine that serves it.
Execute(m) ==
  \/ m = "seo"           /\ Seo!SeoNext
  \/ m = "tasks"         /\ CoreWork!TasksNext
  \/ m = "feedback"      /\ CoreWork!FeedbackNext
  \/ m = "links"         /\ CorePublishing!LinksNext
  \/ m = "publish"       /\ CorePublishing!PublishingNext
  \/ m = "inbox"         /\ CoreWork!InboxNext
  \/ m = "crm"           /\ CoreWork!CrmNext
  \/ m = "meetings"      /\ (Audience!MeetingsNext \/ Audience!MembershipNext)
  \/ m = "learning"      /\ (Audience!LearningNext \/ Audience!MembershipNext)
  \/ m = "tables"        /\ Audience!TablesNext
  \/ m = "community"     /\ (Community!CommunityNext \/ Community!MembershipNext)
  \/ m = "assurance"     /\ LiveAssurance!AssuranceNext
  \/ m = "evidence"      /\ AssuranceFiles!AssuranceNext
  \/ m = "flags"         /\ Flags!Next
  \/ m = "forms"         /\ Forms!Next
  \/ m = "form-pages"    /\ FormPages!Next
  \/ m = "esign"         /\ Esign!Next
  \/ m = "giveaways"     /\ Growth!GiveawayNext
  \/ m = "brand-pages"   /\ Growth!BrandPagesNext
  \/ m = "collab"        /\ HireCollab!CollabNext
  \/ m = "hire"          /\ HireCollab!HireNext
  \/ m = "projects"      /\ Premium!ProjectsNext
  \/ m = "drive"         /\ Premium!DriveNext
  \/ m = "pages"         /\ Pages!Next
  \/ m = "memory-pages"  /\ MemoryPages!Next
  \/ m = "proposals"     /\ Proposals!Next
  \/ m = "targets"       /\ TargetProposals!Next
  \/ m = "assistant"     /\ AssistantRuns!Next
  \/ m = "access"        /\ Access!Next
  \/ m = "read-access"   /\ ReadAccess!Next

InitOf(m) ==
  \/ m = "seo"           /\ Seo!SeoInit
  \/ m \in {"tasks", "feedback", "inbox", "crm"} /\ CoreWork!Init
  \/ m \in {"links", "publish"}   /\ CorePublishing!Init
  \/ m \in {"meetings", "learning", "tables"} /\ Audience!Init
  \/ m = "community"     /\ Community!Init
  \/ m = "assurance"     /\ LiveAssurance!AssuranceInit
  \/ m = "evidence"      /\ AssuranceFiles!AssuranceInit
  \/ m = "flags"         /\ Flags!Init
  \/ m = "forms"         /\ Forms!Init
  \/ m = "form-pages"    /\ FormPages!Init
  \/ m = "esign"         /\ Esign!Init
  \/ m = "giveaways"     /\ Growth!GiveawayInit
  \/ m = "brand-pages"   /\ Growth!BrandPagesInit
  \/ m = "collab"        /\ HireCollab!CollabInit
  \/ m = "hire"          /\ HireCollab!HireInit
  \/ m \in {"projects", "drive"} /\ Premium!Init
  \/ m = "pages"         /\ Pages!Init
  \/ m = "memory-pages"  /\ MemoryPages!Init
  \/ m = "proposals"     /\ Proposals!Init
  \/ m = "targets"       /\ TargetProposals!Init
  \/ m = "assistant"     /\ AssistantRuns!Init
  \/ m = "access"        /\ Access!Init
  \/ m = "read-access"   /\ ReadAccess!Init

\* "public" is a workspace whose public pages are visited.
Init ==
  \/ (MoneyInit \/ AgreementInit \/ OnceInit) /\ view = <<>>
  \/ \E m \in Offered \ {"public"} : enabled = {m} /\ InitOf(m) /\ view = <<>>
  \/ "public" \in Offered /\ enabled = {"public"} /\ Public!Init

Next ==
  \/ (MoneyNext \/ AgreementNext \/ OnceNext) /\ UNCHANGED view
  \/ \E m \in enabled \ {"public"} : Execute(m) /\ UNCHANGED <<enabled, view>>
  \/ "public" \in enabled /\ Public!Next /\ UNCHANGED enabled

Spec == Init /\ [][Next]_<<enabled, records, view>>

-----------------------------------------------------------------------------
\* What is live is what somebody approved, and there is one of it: published
\* content and link destinations, pages and QR codes, the active flag revision;
\* and a visitor is shown what was live while his request was read.
LiveIsApproved ==
  /\ enabled \cap {"links", "publish"} # {} => CorePublishing!WhatRunsWasApproved
  /\ Has("brand-pages") => Growth!AddressResolves
  /\ Has("flags")       => Flags!OneLineOfRevisions /\ Flags!EvaluationsAreStable
  /\ Has("public")      => Public!ReadersSeeWhatIsPublic

\* A record's history replays to the record: the revisions of a document, the
\* stage events of an application, the messages of a conversation, the rank
\* checks of a site, the writes of the store that were acknowledged.
HistoryReplays ==
  /\ Has("collab") => HireCollab!HistoryReplays
  /\ Has("hire")   => HireCollab!EventsAreTheHistory
  /\ Has("seo")    => Seo!HistoryIsOfOneOrigin
  /\ Has("store")  => Store!AcknowledgedStays
  /\ enabled \cap {"inbox", "crm"} # {} => CoreWork!HistoryAddsUp

\* Members read what their meeting, course or space holds, whenever they
\* joined and whoever left the workspace; a credential rests on the attempts;
\* who pages through records sees each that stays as it is once; and nobody acts
\* in a workspace he is not a member of.
MembersRead ==
  /\ enabled \cap {"meetings", "learning"} # {} =>
       Audience!MembersReadAll /\ Audience!CredentialsAreEarned
  /\ Has("community") => Community!MembersReadAll
  /\ Has("pages")        => Pages!AloneListedOnce
  /\ Has("memory-pages") => MemoryPages!AllListedOnce
  /\ Has("access")       => Access!ActsAsMember
  /\ Has("read-access")  => ReadAccess!ActsAsMember

\* Work stays consistent with what it depends on: states, limits and acyclic
\* dependencies of tasks and issues, the sensitivity a risk's controls inherit.
WorkIsConsistent ==
  /\ enabled \cap {"tasks", "feedback"} # {} => CoreWork!WorkFlows
  /\ enabled \cap {"projects", "drive"} # {} => Premium!WorkIsConsistent
  /\ Has("tables") => Audience!RowsKeepTheirSchema
  /\ Has("assurance") => LiveAssurance!LineageCoversRisks
  /\ Has("evidence")  => AssuranceFiles!LineageCoversRisks

\* Whoever answers does so under the rules that were fixed when it was asked:
\* a form's release, an envelope's signing order, a draw's frozen entries, the
\* evidence a proposal was asked about.
AnswersFollowRules ==
  /\ Has("forms")     => Forms!AnswersFollowTheForm
  /\ Has("form-pages") => FormPages!AnswersFollowTheForm /\ FormPages!PagesAnswerOnce
  /\ Has("esign")     => Esign!SignedInOrder
  /\ Has("giveaways") => Growth!DrawIsOfTheFrozen
  /\ Has("proposals") => Proposals!ProposalsAreGrounded
  /\ Has("targets")   => TargetProposals!ProposalsAreGrounded
  /\ Has("assistant") => AssistantRuns!ProposalsAreGrounded
=============================================================================
