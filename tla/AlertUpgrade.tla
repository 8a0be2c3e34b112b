----------------------------- MODULE AlertUpgrade -----------------------------
(***************************************************************************)
(* The Upgrade Orchestrator, Legacy Cleanup and Readiness Gate of          *)
(* src/pkg/controllers/user/alert/deployer/upgradeimpl.go, composed with   *)
(* the Migration Executor of LegacyMigration.                              *)
(*                                                                         *)
(* AlertService.Upgrade(currentVersion) resolves the new version of the    *)
(* monitoring template, migrates legacy alerts unless currentVersion names *)
(* the system monitoring catalog, deletes the legacy namespace, and then   *)
(* moves the cluster alertmanager app to the new external ID, but only     *)
(* when the cluster and the system catalog are ready.  The caller          *)
(* re-invokes Upgrade after an error (spec section 9); after a success the *)
(* invocation is over.                                                     *)
(***************************************************************************)
EXTENDS LegacyMigration

CONSTANTS
  CurrentVersion,      \* the argument of Upgrade, a version ID (see below)
  SystemCatalogName,   \* catalog named by settings.SystemMonitoringCatalogID
  TemplateName,        \* template named by that setting
  DefaultVersions,     \* template.Spec.DefaultVersion, in the order catalog
                       \* refreshes publish them
  OldExternalID,       \* external ID the deployed app has before the upgrade
  InitialApps,         \* the app records Upgrade may find deployed
  MaxFlips,            \* bound on readiness changes of cluster and catalog
  MaxReinvokes         \* bound on the caller's calls after a success

ASSUME MaxFlips \in Nat /\ MaxReinvokes \in Nat

VARIABLES
  legacyNamespace,  \* the "cattle-alerting" namespace exists
  systemProject,    \* a project with the system project label exists
  app,              \* the cluster alertmanager App, or NoRecord
  clusterReady,     \* ClusterConditionReady of l.clusterName
  catalogConds,     \* conditions of the system catalog that are true
  flips,            \* readiness changes so far
  reinvokes,        \* calls of Upgrade after a success so far
  template          \* index in DefaultVersions the template lister returns

vars == <<rules, groups, proc, faults, edits,
          legacyNamespace, systemProject, app, clusterReady, catalogConds, flips,
          reinvokes, template>>

(***************************************************************************)
(* Versions.  A template version ID "<catalog>-<template>-<version>" is    *)
(* the sequence of its dash-separated parts; strings.Contains of the       *)
(* marker "system-library-rancher-monitoring" is a contiguous subsequence  *)
(* test on those parts.  A legacy version such as "0.0.1" is <<"0.0.1">>.  *)
(***************************************************************************)
MigratedMarker == <<"system-library", "rancher-monitoring">>

\* common.ParseExternalID of "catalog://?catalog=c&template=t&version=v"
ExternalID(c, t, v) == [catalog |-> c, template |-> t, version |-> v]
ParseExternalID(e) == <<e.catalog, e.template, e.version>>

\* newExternalID and newVersion when the template read at line 98 has the
\* i-th default version
NewExternalID(i) == ExternalID(SystemCatalogName, TemplateName, DefaultVersions[i])
NewVersion(i)    == ParseExternalID(NewExternalID(i))

ReturnedVersions == {NewVersion(i) : i \in DOMAIN DefaultVersions}

\* Mutant: the two parts of the marker of line 111 in the wrong order.
NeedsMigrationSwapped(v) == <<"rancher-monitoring", "system-library">> \notin SubSeqs(v)

\* line 111: migrate unless currentVersion contains the marker
NeedsMigration(v) == MigratedMarker \notin SubSeqs(v)

\* the conditions line 165 requires of the system catalog
CatalogConditions == {"Upgraded", "Refreshed", "DiskCached"}

\* lines 146-148: DeepCopy, set ExternalID and operator.enabled=false.
\* An App is [externalID, operatorEnabled, answersNil]; operatorEnabled is
\* "unset" when the answers map has no such key.
DesiredApp(a, i) == [a EXCEPT !.externalID = NewExternalID(i), !.operatorEnabled = "false"]

AppRecords ==
  [externalID : {OldExternalID} \cup {NewExternalID(i) : i \in DOMAIN DefaultVersions},
   operatorEnabled : {"unset", "true", "false"},
   answersNil : BOOLEAN]

PCs == {"resolve", "listClusterAlerts", "listProjectAlerts", "getRule",
        "createRule", "updateRule", "createGroup", "removeLegacy",
        "listSystemProjects", "getApp", "getCluster", "getCatalog", "updateApp",
        "done", "failed", "panicked"}

\* A fresh invocation of Upgrade(v): `arg` is its currentVersion argument,
\* `ver` the template version it resolves (0 until it has).
ProcInit(v) == [pc |-> "resolve", phase |-> "none", queue |-> <<>>, arg |-> v, ver |-> 0,
                fresh |-> FALSE, appFresh |-> FALSE, err |-> "none"]

(***************************************************************************)
(* Initial states.  From a legacy version, the legacy alerts and the       *)
(* legacy namespace are there and nothing is migrated yet (what failed     *)
(* earlier invocations leave behind is reached by Retry).  When            *)
(* currentVersion carries the marker, an earlier Upgrade succeeded and     *)
(* everything is migrated.  The app is absent or one of InitialApps.       *)
(***************************************************************************)
OwnItems ==
  Range(MapSeq(OldClusterAlerts, ClusterMigration))
    \cup Range(MapSeq(SelectSeq(OldProjectAlerts, InCluster), ProjectMigration))

Init ==
  /\ LET migrated == MigratedMarker \in SubSeqs(CurrentVersion) IN
       /\ rules = [k \in RuleKeys |->
                     IF migrated /\ \E it \in OwnItems : it.ruleKey = k
                     THEN (CHOOSE it \in OwnItems : it.ruleKey = k).rule
                     ELSE NoRecord]
       /\ groups = [k \in GroupKeys |->
                      IF migrated /\ \E it \in OwnItems : it.groupKey = k
                      THEN (CHOOSE it \in OwnItems : it.groupKey = k).group
                      ELSE NoRecord]
       /\ legacyNamespace = ~migrated
  /\ systemProject \in BOOLEAN
  /\ app \in {NoRecord} \cup InitialApps
  /\ proc = [p \in Proc |-> ProcInit(CurrentVersion)]
  /\ clusterReady \in BOOLEAN
  /\ catalogConds \in {{}, CatalogConditions}
  /\ faults = 0 /\ edits = <<>> /\ flips = 0 /\ reinvokes = 0
  /\ template = 1

(***************************************************************************)
(* Upgrade, lines 92-123: resolve the template and the new external ID    *)
(* (a failed template lookup aborts), then migrate unless the marker is    *)
(* in the currentVersion argument.                                         *)
(***************************************************************************)
ResolveTemplate(p) ==
  /\ proc[p].pc = "resolve"
  /\ \/ Fault(p)
     \/ /\ proc' = [proc EXCEPT ![p] =
                      [@ EXCEPT !.ver = template,
                                !.pc = IF NeedsMigration(proc[p].arg)
                                       THEN "listClusterAlerts" ELSE "listSystemProjects"]]
        /\ UNCHANGED faults
  /\ UNCHANGED <<rules, groups, edits, legacyNamespace, app>>

\* removeLegacyAlerting: delete the namespace; NotFound is success.
RemoveLegacyAlerting(p) ==
  /\ proc[p].pc = "removeLegacy"
  /\ \/ /\ Fault(p)
        /\ UNCHANGED legacyNamespace
     \/ /\ legacyNamespace' = FALSE
        /\ proc' = [proc EXCEPT ![p] = Goto(p, "listSystemProjects")]
        /\ UNCHANGED faults
  /\ UNCHANGED <<rules, groups, edits, app>>

\* lines 126-138: list projects with the system project label.
ListSystemProjects(p) ==
  /\ proc[p].pc = "listSystemProjects"
  /\ \/ Fault(p)
     \/ /\ ~systemProject
        /\ Fail(p, "lookup")
        /\ UNCHANGED faults
     \/ /\ systemProject
        /\ proc' = [proc EXCEPT ![p] = Goto(p, "getApp")]
        /\ UNCHANGED faults
  /\ UNCHANGED <<rules, groups, edits, legacyNamespace, app>>

(***************************************************************************)
(* lines 139-150: get the app.  NotFound returns newVersion.  Writing      *)
(* operator.enabled into a nil Answers map panics.  When the desired app   *)
(* equals the app read, newVersion is returned without an update.          *)
(***************************************************************************)
GetApp(p) ==
  /\ proc[p].pc = "getApp"
  /\ \/ Fault(p)
     \/ /\ app = NoRecord
        /\ proc' = [proc EXCEPT ![p] = Goto(p, "done")]
        /\ UNCHANGED faults
     \/ /\ app # NoRecord /\ app.answersNil
        /\ proc' = [proc EXCEPT ![p] = Goto(p, "panicked")]
        /\ UNCHANGED faults
     \/ /\ app # NoRecord /\ ~app.answersNil
        /\ proc' = [proc EXCEPT ![p] =
                      [@ EXCEPT !.appFresh = TRUE,
                                !.pc = IF DesiredApp(app, proc[p].ver) = app
                                       THEN "done" ELSE "getCluster"]]
        /\ UNCHANGED faults
  /\ UNCHANGED <<rules, groups, edits, legacyNamespace, app>>

\* Readiness Gate, lines 152-158: the cluster must be Ready.
GetCluster(p) ==
  /\ proc[p].pc = "getCluster"
  /\ \/ Fault(p)
     \/ /\ ~clusterReady
        /\ Fail(p, "notReady")
        /\ UNCHANGED faults
     \/ /\ clusterReady
        /\ proc' = [proc EXCEPT ![p] = Goto(p, "getCatalog")]
        /\ UNCHANGED faults
  /\ UNCHANGED <<rules, groups, edits, legacyNamespace, app>>

\* Mutant: the negation of line 165 dropped; the gate passes a catalog that
\* is not ready and refuses one that is.
GetCatalogNegated(p) ==
  /\ proc[p].pc = "getCatalog"
  /\ \/ Fault(p)
     \/ /\ CatalogConditions \subseteq catalogConds
        /\ Fail(p, "notReady")
        /\ UNCHANGED faults
     \/ /\ ~(CatalogConditions \subseteq catalogConds)
        /\ proc' = [proc EXCEPT ![p] = Goto(p, "updateApp")]
        /\ UNCHANGED faults
  /\ UNCHANGED <<rules, groups, edits, legacyNamespace, app>>

\* Readiness Gate, lines 160-167: Upgraded, Refreshed and DiskCached.
GetCatalog(p) ==
  /\ proc[p].pc = "getCatalog"
  /\ \/ Fault(p)
     \/ /\ ~(CatalogConditions \subseteq catalogConds)
        /\ Fail(p, "notReady")
        /\ UNCHANGED faults
     \/ /\ CatalogConditions \subseteq catalogConds
        /\ proc' = [proc EXCEPT ![p] = Goto(p, "updateApp")]
        /\ UNCHANGED faults
  /\ UNCHANGED <<rules, groups, edits, legacyNamespace, app>>

\* lines 169-173: Update the app read by GetApp; a stale read is a Conflict.
UpdateApp(p) ==
  /\ proc[p].pc = "updateApp"
  /\ \/ /\ Fault(p)
        /\ UNCHANGED app
     \/ /\ ~proc[p].appFresh
        /\ Fail(p, "conflict")
        /\ UNCHANGED <<app, faults>>
     \/ /\ proc[p].appFresh
        /\ app' = DesiredApp(app, proc[p].ver)
        /\ proc' = [q \in Proc |->
                      IF q = p THEN Goto(p, "done")
                      ELSE IF app' # app THEN [proc[q] EXCEPT !.appFresh = FALSE]
                      ELSE proc[q]]
        /\ UNCHANGED faults
  /\ UNCHANGED <<rules, groups, edits, legacyNamespace>>

(***************************************************************************)
(* The caller (spec sections 6 and 9).  After an error it calls Upgrade    *)
(* again with the same previous version, since none was returned.  After  *)
(* a success it keeps the returned newVersion and passes it as            *)
(* currentVersion the next time it calls Upgrade (a later reconcile).      *)
(***************************************************************************)
Retry(p) ==
  /\ proc[p].pc = "failed"
  /\ proc' = [proc EXCEPT ![p] = ProcInit(proc[p].arg)]
  /\ UNCHANGED <<rules, groups, faults, edits, legacyNamespace, app, reinvokes>>

Reinvoke(p) ==
  /\ proc[p].pc = "done"
  /\ reinvokes < MaxReinvokes
  /\ reinvokes' = reinvokes + 1
  /\ proc' = [proc EXCEPT ![p] = ProcInit(NewVersion(proc[p].ver))]
  /\ UNCHANGED <<rules, groups, faults, edits, legacyNamespace, app>>

\* what the controllers around Upgrade own
readiness == <<systemProject, clusterReady, catalogConds, flips, template>>

\* Every blocking call of one invocation.
UpgradeStep(p) ==
  \/ ResolveTemplate(p)
  \/ MigrationStep(p) /\ UNCHANGED <<legacyNamespace, app>>
  \/ RemoveLegacyAlerting(p)
  \/ ListSystemProjects(p)
  \/ GetApp(p)
  \/ GetCluster(p)
  \/ GetCatalog(p)
  \/ UpdateApp(p)

(***************************************************************************)
(* Environment: cluster and catalog controllers change the readiness       *)
(* conditions (a bounded number of times); eventually the system project   *)
(* exists and the cluster and the catalog are ready.  Catalog refreshes   *)
(* move the template to its next default version.                         *)
(***************************************************************************)
ClusterReadyChanges ==
  /\ flips < MaxFlips
  /\ clusterReady' = ~clusterReady
  /\ flips' = flips + 1
  /\ UNCHANGED <<systemProject, catalogConds, template>>

CatalogConditionChanges ==
  /\ flips < MaxFlips
  /\ \E c \in CatalogConditions :
       catalogConds' = IF c \in catalogConds THEN catalogConds \ {c}
                                              ELSE catalogConds \cup {c}
  /\ flips' = flips + 1
  /\ UNCHANGED <<systemProject, clusterReady, template>>

BecomeReady ==
  /\ ~(systemProject /\ clusterReady /\ CatalogConditions \subseteq catalogConds)
  /\ systemProject' = TRUE
  /\ clusterReady' = TRUE
  /\ catalogConds' = CatalogConditions
  /\ UNCHANGED <<flips, template>>

\* A catalog refresh publishes the next default version of the template,
\* which the template lister of line 98 then returns.
CatalogRefresh ==
  /\ template < Len(DefaultVersions)
  /\ template' = template + 1
  /\ UNCHANGED <<systemProject, clusterReady, catalogConds, flips>>

Environment ==
  \/ (ClusterReadyChanges \/ CatalogConditionChanges \/ BecomeReady \/ CatalogRefresh)
       /\ UNCHANGED <<rules, groups, proc, faults, edits, legacyNamespace, app, reinvokes>>
  \/ (UserEditRule \/ UserDeleteRule) /\ UNCHANGED <<legacyNamespace, app, readiness, reinvokes>>

\* Every invocation has returned newVersion or panicked: nothing is left to do.
Finished ==
  /\ \A p \in Proc : proc[p].pc \in {"done", "panicked"}
  /\ UNCHANGED vars

Next ==
  \/ \E p \in Proc : UpgradeStep(p) /\ UNCHANGED <<readiness, reinvokes>>
  \/ \E p \in Proc : Retry(p) /\ UNCHANGED readiness
  \/ \E p \in Proc : Reinvoke(p) /\ UNCHANGED readiness
  \/ Environment
  \/ Finished

(***************************************************************************)
(* Each invocation runs to its end (the calls are blocking and the store   *)
(* applies its own request timeout), the caller keeps re-invoking after an *)
(* error, and the cluster and catalog controllers eventually report ready. *)
(* User edits, readiness losses and later calls carry no fairness.         *)
(***************************************************************************)
Fairness ==
  /\ \A p \in Proc : WF_vars(UpgradeStep(p) /\ UNCHANGED <<readiness, reinvokes>>)
  /\ \A p \in Proc : WF_vars(Retry(p) /\ UNCHANGED readiness)
  /\ WF_vars(BecomeReady /\ UNCHANGED <<rules, groups, proc, faults, edits,
                                       legacyNamespace, app, reinvokes>>)

Spec == Init /\ [][Next]_vars /\ Fairness

(***************************************************************************)
(* Properties                                                              *)
(***************************************************************************)
TypeOK ==
  /\ rules \in [RuleKeys -> {NoRecord} \cup
                  [group : STRING, targets : SUBSET STRING,
                   timing : [wait : Nat, interval : Nat, repeat : Nat \cup {UserRepeat}]]]
  /\ groups \in [GroupKeys -> {NoRecord} \cup {it.group : it \in AllItems}]
  /\ proc \in [Proc -> [pc : PCs, phase : {"none", "cluster", "project"},
                        queue : Seq(AllItems), arg : {CurrentVersion} \cup ReturnedVersions,
                        ver : 0..Len(DefaultVersions),
                        fresh : BOOLEAN, appFresh : BOOLEAN,
                        err : {"none", "transient", "lookup", "notReady", "conflict", "notFound"}]]
  /\ legacyNamespace \in BOOLEAN /\ systemProject \in BOOLEAN
  /\ app \in {NoRecord} \cup AppRecords
  /\ clusterReady \in BOOLEAN /\ catalogConds \subseteq CatalogConditions
  /\ edits \in Seq([kind : {"edit", "delete"}, key : RuleKeys])
  /\ faults \in 0..MaxFaults /\ Len(edits) \in 0..MaxEdits /\ flips \in 0..MaxFlips
  /\ reinvokes \in 0..MaxReinvokes /\ template \in DOMAIN DefaultVersions

\* The rule of item `it` exists and names, by its group ID, an existing
\* group of the same kind that carries the legacy alert's recipients.
RuleHasGroup(it) ==
  /\ rules[it.ruleKey] # NoRecord
  /\ \E gk \in GroupKeys :
       /\ gk.kind = it.ruleKey.kind
       /\ GetGroupID(gk.ns, gk.name) = rules[it.ruleKey].group
       /\ groups[gk] # NoRecord
       /\ groups[gk].recipients = it.group.recipients

\* The user has deleted the migrated rule of item `it` and it is still gone.
UserRemoved(it) == it.ruleKey \in UserDeletedKeys /\ rules[it.ruleKey] = NoRecord

(***************************************************************************)
(* Legacy Cleanup runs only after the migration loop: at every moment each *)
(* legacy alert of this cluster is served either by the legacy alerting    *)
(* namespace or by a migrated rule whose group exists, unless a user has   *)
(* deleted that rule, across failures, retries and concurrent invocations. *)
(***************************************************************************)
AlertsNeverUncovered ==
  legacyNamespace \/ \A it \in OwnItems : RuleHasGroup(it) \/ UserRemoved(it)

LegacyMigrated ==
  /\ ~legacyNamespace
  /\ \A it \in OwnItems : RuleHasGroup(it) \/ UserRemoved(it)

ForeignKeys == {it.ruleKey : it \in AllItems \ OwnItems}

(***************************************************************************)
(* Once an invocation is past the migration phase of Upgrade (it looks up  *)
(* the system project, the app, readiness, updates the app or has         *)
(* returned newVersion), every legacy alert of this cluster has a rule     *)
(* whose group exists with the alert's recipients, and the legacy          *)
(* namespace is gone, whatever failed, retried or ran concurrently before. *)
(* Legacy project alerts of other clusters never get a rule.               *)
(***************************************************************************)
MigratedBeforeAppUpgrade ==
  /\ \A p \in Proc :
       proc[p].pc \in {"listSystemProjects", "getApp", "getCluster", "getCatalog",
                       "updateApp", "done"} => LegacyMigrated
  /\ \A k \in ForeignKeys : rules[k] = NoRecord

(***************************************************************************)
(* Two invocations racing (spec section 5) never fail with a Conflict:     *)
(* the spec says their safety comes from create-if-absent and              *)
(* AlreadyExists tolerance.                                                *)
(***************************************************************************)
ConcurrentUpgradesDoNotConflict ==
  \A p \in Proc : proc[p].err # "conflict"

(***************************************************************************)
(* Upgrade never panics: an app that exists is either upgraded or left as  *)
(* it is, and an error is returned otherwise.                              *)
(***************************************************************************)
UpgradeNeverPanics ==
  \A p \in Proc : proc[p].pc # "panicked"

(***************************************************************************)
(* With the caller re-invoking after errors, faults bounded and readiness  *)
(* eventually reached, every invocation eventually ends, and unless the    *)
(* app has a nil answers map it ends on the new external ID with the       *)
(* operator disabled.                                                      *)
(***************************************************************************)
UpgradeEventuallySucceeds ==
  <>[](/\ \A p \in Proc : proc[p].pc \in {"done", "panicked"}
       /\ app # NoRecord /\ ~app.answersNil =>
            /\ app.externalID = NewExternalID(template)
            /\ app.operatorEnabled = "false")

\* The rule at key k carries an edit a user made through the API.
UserEdited(r) == r # NoRecord /\ r.timing.repeat = UserRepeat

\* This step undoes what a user did to the rule at key k: an edited rule
\* loses the edit, or a rule the user deleted is there again.
UserChangeUndone(k) ==
  \/ UserEdited(rules[k]) /\ rules'[k] # NoRecord /\ ~UserEdited(rules'[k])
  \/ k \in UserDeletedKeys /\ rules[k] = NoRecord /\ rules'[k] # NoRecord

(***************************************************************************)
(* What a user did to a migrated rule (an edit, a deletion) is undone only *)
(* by the Update of line 241/343 or the Create of line 235/337 in an       *)
(* invocation whose currentVersion is a legacy version: once Upgrade has  *)
(* returned newVersion and the caller passes it back, the marker test of  *)
(* line 111 skips migration, so later upgrades keep users' changes.       *)
(***************************************************************************)
LaterUpgradeKeepsUserChanges ==
  [][\A k \in RuleKeys :
       UserChangeUndone(k) =>
         \E p \in Proc : /\ proc[p].pc \in {"updateRule", "createRule"}
                        /\ Head(proc[p].queue).ruleKey = k
                        /\ proc[p].arg \notin ReturnedVersions]_vars

\* The position of an external ID among the published template versions;
\* 0 for the version deployed before the system monitoring catalog.
VersionRank(e) ==
  IF \E i \in DOMAIN DefaultVersions : NewExternalID(i) = e
  THEN CHOOSE i \in DOMAIN DefaultVersions : NewExternalID(i) = e
  ELSE 0

(***************************************************************************)
(* Upgrade never moves the app to an older template version: the version   *)
(* an invocation resolved at line 98 and wrote at line 169 is at least    *)
(* the one the app already has, even when a catalog refresh comes between *)
(* two concurrent invocations.                                             *)
(***************************************************************************)
AppNeverDowngraded ==
  [][app # NoRecord /\ app' # NoRecord =>
       VersionRank(app'.externalID) >= VersionRank(app.externalID)]_vars

(***************************************************************************)
(* Refinement: with proc, the bounds counters and the readiness state     *)
(* hidden, every step of the invocations, the caller and the users is a   *)
(* step of UpgradeAbstract (or leaves the store as it is): migration       *)
(* writes only this cluster's translated rules and groups, groups are     *)
(* never overwritten, the legacy namespace goes only when all alerts are  *)
(* migrated, and the app moves only after that.                            *)
(***************************************************************************)
\* The abstract app switch targets the one published default version: the
\* refinement is stated for a template that is not refreshed meanwhile.
Abs == INSTANCE UpgradeAbstract WITH Items <- OwnItems, Apps <- InitialApps,
                                     TargetExternalID <- NewExternalID(Len(DefaultVersions)),
                                     userDeleted <- UserDeletedKeys

AbsSpec == Abs!Spec

(***************************************************************************)
(* Under the fairness of Spec (blocking calls, the caller's retries, the  *)
(* controllers eventually reporting ready), the invocations also do what  *)
(* UpgradeAbstract says must eventually happen: every missing rule and    *)
(* group is written, the legacy namespace is deleted and the app is moved *)
(* to the new version.                                                     *)
(***************************************************************************)
AbsLiveSpec == Abs!LiveSpec

=============================================================================
