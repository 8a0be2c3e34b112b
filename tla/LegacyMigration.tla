--------------------------- MODULE LegacyMigration ---------------------------
(***************************************************************************)
(* The Migration Executor and Record Translator of                         *)
(* src/pkg/controllers/user/alert/deployer/upgradeimpl.go:                 *)
(* migrateLegacyClusterAlert and migrateLegacyProjectAlert.                *)
(*                                                                         *)
(* Each invocation of AlertService.Upgrade is a process of Proc.  Every    *)
(* blocking call to the resource store (List, Get, Create, Update) is one  *)
(* atomic step; between two of them other invocations and the user may    *)
(* act.  The store keeps alert rules and alert groups keyed by kind        *)
(* (cluster or project), namespace and name.  Optimistic concurrency of   *)
(* Update is modelled by the flag `fresh`: a process holding a rule read   *)
(* by Get loses it when somebody changes that rule, and its Update then    *)
(* fails with Conflict.                                                    *)
(***************************************************************************)
EXTENDS Integers, Sequences, SequencesExt

CONSTANTS
  Proc,                \* concurrent invocations of Upgrade
  ClusterName,         \* l.clusterName
  OldClusterAlerts,    \* legacy ClusterAlerts, in the order List returns them
  OldProjectAlerts,    \* legacy ProjectAlerts of all clusters, in list order
  NoRecord,            \* a key with no object in the store
  UserRepeat,          \* a repeat interval a user sets on a migrated rule
  MaxFaults,           \* bound on transient store errors in a behaviour
  MaxEdits             \* bound on user edits and deletions of rules

ASSUME MaxFaults \in Nat /\ MaxEdits \in Nat

VARIABLES
  rules,    \* the ClusterAlertRule and ProjectAlertRule objects
  groups,   \* the ClusterAlertGroup and ProjectAlertGroup objects
  proc,     \* the control state of each invocation
  faults,   \* transient store errors so far
  edits     \* the user's changes so far, in order: [kind, key]

\* defaultGroupIntervalSeconds, line 33
DefaultGroupIntervalSeconds == 180

\* alertutil.GetGroupID: fmt.Sprintf("%s:%s", namespace, name)
GetGroupID(ns, name) == ns \o ":" \o name

\* ref.Parse(projectID) splits "<cluster>:<project>"; a project ID is kept
\* as that pair.
ProjectNameOf(a) == a.projectID[2]

\* controller.ObjectInCluster(l.clusterName, v) for a ProjectAlert
InCluster(a) == a.projectID[1] = ClusterName

Timing(a) ==
  [wait |-> a.initialWait, interval |-> DefaultGroupIntervalSeconds,
   repeat |-> a.repeatInterval]

\* The legacy group literal (lines 245-263, and 348-366 for projects): the
\* legacy timing and recipients; display name and description are constants
\* and left out.
MigrationGroup(a) == [timing |-> Timing(a), recipients |-> a.recipients]

(***************************************************************************)
(* Record Translator.  One legacy alert becomes a migration item: the key  *)
(* and content of its rule and of its group.  Display name and severity   *)
(* are copied verbatim and left out; each target present on the legacy     *)
(* alert is copied, so the rule carries exactly the legacy targets.        *)
(***************************************************************************)
ClusterMigration(a) ==
  LET g == "migrate-group-" \o a.name IN
  [ruleKey  |-> [kind |-> "cluster", ns |-> ClusterName, name |-> "migrate-" \o a.name],
   rule     |-> [group |-> GetGroupID(ClusterName, g), targets |-> a.targets,
                 timing |-> Timing(a)],
   groupKey |-> [kind |-> "cluster", ns |-> ClusterName, name |-> g],
   group    |-> MigrationGroup(a)]

ProjectMigration(a) ==
  LET g  == "migrate-group-" \o a.name
      ns == ProjectNameOf(a)
  IN
  [ruleKey  |-> [kind |-> "project", ns |-> ns, name |-> "migrate-rule-" \o a.name],
   rule     |-> [group |-> GetGroupID(ns, g), targets |-> a.targets,
                 timing |-> Timing(a)],
   groupKey |-> [kind |-> "project", ns |-> ns, name |-> g],
   group    |-> MigrationGroup(a)]

MapSeq(s, F(_)) == [i \in DOMAIN s |-> F(s[i])]

AllItems ==
  Range(MapSeq(OldClusterAlerts, ClusterMigration))
    \cup Range(MapSeq(OldProjectAlerts, ProjectMigration))
RuleKeys  == {it.ruleKey : it \in AllItems}
GroupKeys == {it.groupKey : it \in AllItems}

(***************************************************************************)
(* Process control.  pc names the next blocking call; `queue` holds the    *)
(* migration items the current loop has still to write, `phase` says which *)
(* loop it is, `fresh` whether the rule read by Get is still current.      *)
(***************************************************************************)
Goto(p, pc) == [proc[p] EXCEPT !.pc = pc]

\* Return an error from Upgrade; `why` is its kind in the taxonomy of spec
\* section 7, which the code distinguishes only by message text.
Fail(p, why) == proc' = [proc EXCEPT ![p] = [@ EXCEPT !.pc = "failed", !.err = why]]

\* A transient error of the store (anything but NotFound/AlreadyExists).
Fault(p) ==
  /\ faults < MaxFaults
  /\ faults' = faults + 1
  /\ Fail(p, "transient")

\* Mutant: Upgrade goes on to removeLegacyAlerting after the cluster loop,
\* skipping migrateLegacyProjectAlert.
AfterLoopSkippingProjects(phase) == "removeLegacy"

\* The step after a loop over legacy alerts ends.
AfterLoop(phase) == IF phase = "cluster" THEN "listProjectAlerts" ELSE "removeLegacy"

\* Enter the loop, or skip it when the list is empty.
StartLoop(p, phase, items) ==
  proc' = [proc EXCEPT ![p] = [@ EXCEPT !.phase = phase, !.queue = items,
                                        !.pc = IF items = <<>> THEN AfterLoop(phase)
                                                               ELSE "getRule"]]

\* Another process or the user changed the rule at key k: reads of it by
\* processes about to Update are stale.
Invalidate(k) ==
  [q \in Proc |-> IF proc[q].pc = "updateRule" /\ Head(proc[q].queue).ruleKey = k
                    THEN [proc[q] EXCEPT !.fresh = FALSE]
                    ELSE proc[q]]

(***************************************************************************)
(* migrateLegacyClusterAlert: List the legacy cluster alerts; a List      *)
(* error aborts the whole upgrade.                                         *)
(***************************************************************************)
ListOldClusterAlerts(p) ==
  /\ proc[p].pc = "listClusterAlerts"
  /\ \/ Fault(p)
     \/ /\ StartLoop(p, "cluster", MapSeq(OldClusterAlerts, ClusterMigration))
        /\ UNCHANGED faults
  /\ UNCHANGED <<rules, groups, edits>>

\* Mutant: the ObjectInCluster filter of line 281 dropped.
ListOldProjectAlertsAllClusters(p) ==
  LET projects == {OldProjectAlerts[i].projectID : i \in DOMAIN OldProjectAlerts}
      bucket(pid) == SelectSeq(OldProjectAlerts, LAMBDA a : a.projectID = pid)
  IN
  /\ proc[p].pc = "listProjectAlerts"
  /\ \/ Fault(p)
     \/ /\ \E order \in SetToSeqs(projects) :
             StartLoop(p, "project",
                       MapSeq(FlattenSeq(MapSeq(order, bucket)), ProjectMigration))
        /\ UNCHANGED faults
  /\ UNCHANGED <<rules, groups, edits>>

(***************************************************************************)
(* migrateLegacyProjectAlert: List all legacy project alerts, keep those   *)
(* of this cluster, bucket them by project in a Go map and range over it: *)
(* projects come in any order, alerts of one project in list order.        *)
(***************************************************************************)
ListOldProjectAlerts(p) ==
  LET mine     == SelectSeq(OldProjectAlerts, InCluster)
      projects == {mine[i].projectID : i \in DOMAIN mine}
      bucket(pid) == SelectSeq(mine, LAMBDA a : a.projectID = pid)
  IN
  /\ proc[p].pc = "listProjectAlerts"
  /\ \/ Fault(p)
     \/ /\ \E order \in SetToSeqs(projects) :
             StartLoop(p, "project",
                       MapSeq(FlattenSeq(MapSeq(order, bucket)), ProjectMigration))
        /\ UNCHANGED faults
  /\ UNCHANGED <<rules, groups, edits>>

(***************************************************************************)
(* The loop body, lines 229-268 (cluster) and 331-371 (project).           *)
(* Get the rule: NotFound leads to Create, a found rule to Update, any     *)
(* other error aborts.                                                     *)
(***************************************************************************)
GetAlertRule(p) ==
  LET k == Head(proc[p].queue).ruleKey IN
  /\ proc[p].pc = "getRule"
  /\ \/ Fault(p)
     \/ /\ proc' = [proc EXCEPT ![p] = [@ EXCEPT !.fresh = TRUE,
                      !.pc = IF rules[k] = NoRecord THEN "createRule" ELSE "updateRule"]]
        /\ UNCHANGED faults
  /\ UNCHANGED <<rules, groups, edits>>

\* Create the rule; AlreadyExists (a concurrent creator won) is success.
\* mutant: the rule is created from the group literal
CreateAlertRuleWithGroup(p) ==
  LET it == Head(proc[p].queue) IN
  /\ proc[p].pc = "createRule"
  /\ \/ /\ Fault(p)
        /\ UNCHANGED rules
     \/ /\ rules' = IF rules[it.ruleKey] = NoRecord
                      THEN [rules EXCEPT ![it.ruleKey] = it.group]
                      ELSE rules
        /\ proc' = [proc EXCEPT ![p] = Goto(p, "createGroup")]
        /\ UNCHANGED faults
  /\ UNCHANGED <<groups, edits>>

CreateAlertRule(p) ==
  LET it == Head(proc[p].queue) IN
  /\ proc[p].pc = "createRule"
  /\ \/ /\ Fault(p)
        /\ UNCHANGED rules
     \/ /\ rules' = IF rules[it.ruleKey] = NoRecord
                      THEN [rules EXCEPT ![it.ruleKey] = it.rule]
                      ELSE rules
        /\ proc' = [proc EXCEPT ![p] = Goto(p, "createGroup")]
        /\ UNCHANGED faults
  /\ UNCHANGED <<groups, edits>>

\* Update a DeepCopy of the rule read by Get with the translated Spec.  A
\* rule deleted since the Get fails with NotFound, a stale read with
\* Conflict; an unchanged object is a no-op that does not bump the
\* resourceVersion.
UpdateAlertRule(p) ==
  LET it == Head(proc[p].queue) IN
  /\ proc[p].pc = "updateRule"
  /\ \/ /\ Fault(p)
        /\ UNCHANGED rules
     \/ /\ rules[it.ruleKey] = NoRecord
        /\ Fail(p, "notFound")
        /\ UNCHANGED <<rules, faults>>
     \/ /\ rules[it.ruleKey] # NoRecord /\ ~proc[p].fresh
        /\ Fail(p, "conflict")
        /\ UNCHANGED <<rules, faults>>
     \/ /\ proc[p].fresh
        /\ rules' = [rules EXCEPT ![it.ruleKey] = it.rule]
        /\ LET others == IF rules[it.ruleKey] = it.rule THEN proc
                         ELSE Invalidate(it.ruleKey)
           IN proc' = [others EXCEPT ![p] = Goto(p, "createGroup")]
        /\ UNCHANGED faults
  /\ UNCHANGED <<groups, edits>>

\* Mutant: the test of lines 266/369 inverted (err != nil && IsAlreadyExists):
\* a transient error is ignored and an existing group aborts.
CreateAlertGroupIgnoringErrors(p) ==
  LET it   == Head(proc[p].queue)
      rest == Tail(proc[p].queue)
  IN
  /\ proc[p].pc = "createGroup"
  /\ \/ /\ groups[it.groupKey] # NoRecord
        /\ Fail(p, "transient")
        /\ UNCHANGED <<groups, faults>>
     \/ /\ groups[it.groupKey] = NoRecord
        /\ \/ groups' = [groups EXCEPT ![it.groupKey] = it.group] /\ UNCHANGED faults
           \/ faults < MaxFaults /\ faults' = faults + 1 /\ UNCHANGED groups
        /\ proc' = [proc EXCEPT ![p] = [@ EXCEPT !.queue = rest,
                      !.pc = IF rest = <<>> THEN AfterLoop(proc[p].phase) ELSE "getRule"]]
  /\ UNCHANGED <<rules, edits>>

\* Mutant: AlreadyExists on the group Create is not tolerated.
CreateAlertGroupStrict(p) ==
  LET it   == Head(proc[p].queue)
      rest == Tail(proc[p].queue)
  IN
  /\ proc[p].pc = "createGroup"
  /\ \/ /\ Fault(p)
        /\ UNCHANGED groups
     \/ /\ groups[it.groupKey] # NoRecord
        /\ Fail(p, "transient")
        /\ UNCHANGED <<groups, faults>>
     \/ /\ groups[it.groupKey] = NoRecord
        /\ groups' = [groups EXCEPT ![it.groupKey] = it.group]
        /\ proc' = [proc EXCEPT ![p] = [@ EXCEPT !.queue = rest,
                      !.pc = IF rest = <<>> THEN AfterLoop(proc[p].phase) ELSE "getRule"]]
        /\ UNCHANGED faults
  /\ UNCHANGED <<rules, edits>>

\* Create the migration group; an existing group is left as it is.  Then
\* go on with the next legacy alert or leave the loop.
CreateAlertGroup(p) ==
  LET it   == Head(proc[p].queue)
      rest == Tail(proc[p].queue)
  IN
  /\ proc[p].pc = "createGroup"
  /\ \/ /\ Fault(p)
        /\ UNCHANGED groups
     \/ /\ groups' = IF groups[it.groupKey] = NoRecord
                       THEN [groups EXCEPT ![it.groupKey] = it.group]
                       ELSE groups
        /\ proc' = [proc EXCEPT ![p] = [@ EXCEPT !.queue = rest,
                      !.pc = IF rest = <<>> THEN AfterLoop(proc[p].phase) ELSE "getRule"]]
        /\ UNCHANGED faults
  /\ UNCHANGED <<rules, edits>>

MigrationStep(p) ==
  \/ ListOldClusterAlerts(p)
  \/ ListOldProjectAlerts(p)
  \/ GetAlertRule(p)
  \/ CreateAlertRule(p)
  \/ UpdateAlertRule(p)
  \/ CreateAlertGroup(p)

(***************************************************************************)
(* Environment: a user edits or deletes a migrated rule through the API;  *)
(* either makes reads of it by invocations about to Update stale.          *)
(***************************************************************************)
UserEditRule ==
  /\ Len(edits) < MaxEdits
  /\ \E k \in RuleKeys :
       /\ rules[k] # NoRecord
       /\ rules[k].timing.repeat # UserRepeat
       /\ rules' = [rules EXCEPT ![k].timing.repeat = UserRepeat]
       /\ proc' = Invalidate(k)
       /\ edits' = Append(edits, [kind |-> "edit", key |-> k])
  /\ UNCHANGED <<groups, faults>>

UserDeleteRule ==
  /\ Len(edits) < MaxEdits
  /\ \E k \in RuleKeys :
       /\ rules[k] # NoRecord
       /\ rules' = [rules EXCEPT ![k] = NoRecord]
       /\ proc' = Invalidate(k)
       /\ edits' = Append(edits, [kind |-> "delete", key |-> k])
  /\ UNCHANGED <<groups, faults>>

\* the rules users have deleted so far
UserDeletedKeys == {edits[i].key : i \in {j \in DOMAIN edits : edits[j].kind = "delete"}}

=============================================================================
