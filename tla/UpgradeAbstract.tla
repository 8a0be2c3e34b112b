---------------------------- MODULE UpgradeAbstract ----------------------------
(***************************************************************************)
(* What AlertService.Upgrade promises about the store, with invocations,  *)
(* reads, errors and retries abstracted away (spec sections 3 and 4):     *)
(*   - migration puts the translated rule of a legacy alert of this        *)
(*     cluster (create or overwrite) and creates its group once; nothing  *)
(*     else is written;                                                    *)
(*   - the legacy namespace is deleted only when every legacy alert of     *)
(*     the cluster has its rule and its group;                             *)
(*   - the app is moved to the new external ID with the operator disabled *)
(*     only after the legacy namespace is gone.                            *)
(* Users may edit or delete migrated rules at any time; `userDeleted`     *)
(* records the rules they deleted.                                        *)
(***************************************************************************)
CONSTANTS
  Items,          \* migration items [ruleKey, rule, groupKey, group] of this cluster
  RuleKeys,       \* all rule keys, of this cluster and of others
  GroupKeys,      \* all group keys
  NoRecord,       \* a key with no object
  UserRepeat,     \* the repeat interval a user edit sets
  Apps,           \* the app records that may be deployed initially
  TargetExternalID \* the external ID of the new template version

VARIABLES rules, groups, legacyNamespace, app, userDeleted

avars == <<rules, groups, legacyNamespace, app, userDeleted>>

OwnRuleKeys == {it.ruleKey : it \in Items}

\* the legacy alert of item `it` is served by a rule and a group
Migrated(it) == rules[it.ruleKey] # NoRecord /\ groups[it.groupKey] = it.group

\* ... or its group exists and the user has deleted its rule
Served(it) ==
  /\ groups[it.groupKey] = it.group
  /\ rules[it.ruleKey] # NoRecord \/ it.ruleKey \in userDeleted

(***************************************************************************)
(* Initially each rule and group of this cluster is absent or as          *)
(* migrated; other clusters have none; without the legacy namespace all   *)
(* is migrated.                                                            *)
(***************************************************************************)
Init ==
  /\ rules \in [RuleKeys -> {NoRecord} \cup {it.rule : it \in Items}]
  /\ groups \in [GroupKeys -> {NoRecord} \cup {it.group : it \in Items}]
  /\ \A it \in Items : /\ rules[it.ruleKey] \in {NoRecord, it.rule}
                       /\ groups[it.groupKey] \in {NoRecord, it.group}
  /\ \A k \in RuleKeys \ OwnRuleKeys : rules[k] = NoRecord
  /\ legacyNamespace \in BOOLEAN
  /\ ~legacyNamespace => \A it \in Items : Migrated(it)
  /\ app \in {NoRecord} \cup Apps
  /\ userDeleted = {}

PutRule(it) ==
  /\ rules' = [rules EXCEPT ![it.ruleKey] = it.rule]
  /\ UNCHANGED <<groups, legacyNamespace, app, userDeleted>>

CreateGroup(it) ==
  /\ groups[it.groupKey] = NoRecord
  /\ groups' = [groups EXCEPT ![it.groupKey] = it.group]
  /\ UNCHANGED <<rules, legacyNamespace, app, userDeleted>>

RemoveLegacy ==
  /\ legacyNamespace
  /\ \A it \in Items : Served(it)
  /\ legacyNamespace' = FALSE
  /\ UNCHANGED <<rules, groups, app, userDeleted>>

SwitchApp ==
  /\ ~legacyNamespace
  /\ app # NoRecord
  /\ app' = [app EXCEPT !.externalID = TargetExternalID, !.operatorEnabled = "false"]
  /\ UNCHANGED <<rules, groups, legacyNamespace, userDeleted>>

EditRule(k) ==
  /\ rules[k] # NoRecord
  /\ rules' = [rules EXCEPT ![k].timing.repeat = UserRepeat]
  /\ UNCHANGED <<groups, legacyNamespace, app, userDeleted>>

DeleteRule(k) ==
  /\ rules[k] # NoRecord
  /\ rules' = [rules EXCEPT ![k] = NoRecord]
  /\ userDeleted' = userDeleted \cup {k}
  /\ UNCHANGED <<groups, legacyNamespace, app>>

Next ==
  \/ \E it \in Items : PutRule(it) \/ CreateGroup(it)
  \/ RemoveLegacy
  \/ SwitchApp
  \/ \E k \in RuleKeys : EditRule(k) \/ DeleteRule(k)

Spec == Init /\ [][Next]_avars

(***************************************************************************)
(* What must eventually happen: a missing rule or group of a legacy alert *)
(* is written, the legacy namespace is deleted once all alerts are        *)
(* migrated, and the app is switched once the namespace is gone.  Putting *)
(* a rule that exists (reverting a user edit) or that a user deleted is    *)
(* never required.                                                         *)
(***************************************************************************)
MigrateMissing ==
  \E it \in Items : \/ /\ rules[it.ruleKey] = NoRecord
                       /\ it.ruleKey \notin userDeleted
                       /\ PutRule(it)
                    \/ CreateGroup(it)

LiveSpec ==
  /\ Spec
  /\ WF_avars(MigrateMissing)
  /\ WF_avars(RemoveLegacy)
  /\ WF_avars(SwitchApp)

=============================================================================
