# TLA+ models of the alerting upgrade (`upgradeimpl.go`)

These modules model `src/pkg/controllers/user/alert/deployer/upgradeimpl.go`.
That file does two things:
- it migrates legacy alerts of a cluster to the group/rule model;
- it moves the cluster alertmanager app to the new monitoring template version.

`spec.md` describes the same code. The other source file,
`src/vendor/.../zz_generated_replication_controller.go`, is a generated
client for another resource and is not used by this code.

## 1. Inventory

### Components and their state

| Component | Code | State it touches | Operations |
|---|---|---|---|
| Record Translator | `migrateLegacy*Alert`, lines 182-227, 245-263, 289-329, 348-366 | none (pure) | legacy alert to (rule key, rule, group key, group) |
| Migration Executor | `migrateLegacyClusterAlert` 176-271, `migrateLegacyProjectAlert` 273-375 | alert rules and alert groups in the store | List; per alert: Get rule, Create or Update rule, Create group |
| Legacy Cleanup | `removeLegacyAlerting` 377-384 | the `cattle-alerting` namespace | Delete (NotFound is success) |
| Readiness Gate | `Upgrade` 151-167 | reads cluster and catalog conditions | Get cluster (Ready), Get catalog (Upgraded, Refreshed, DiskCached) |
| Upgrade Orchestrator | `Upgrade` 91-174 | the App record | resolve template, marker test, migrate, cleanup, list system project, Get app, no-op guard, gate, Update app |
| Version reporter | `Version` 82-89 | none | parse a setting (not modelled: changes no state) |
| Service wiring | `NewService`, `Init` 53-80 | client handles | not modelled: assignments only |

### How the parts interact

`Upgrade` is one synchronous call chain. Every step is a blocking call to the
resource store, which is shared with other invocations of `Upgrade` and with
users. The chain is: cluster migration, then project migration, then
cleanup, then the app step. Any error returns from `Upgrade` at once. Spec
section 9 says the caller (a reconcile loop outside this code) calls
`Upgrade` again after an error. The store gives:
- `NotFound` on Get and Delete;
- `AlreadyExists` on Create;
- `Conflict` on an Update whose object is stale (the resourceVersion check).

### What is hard

- Concurrent invocations (spec section 5) and users' edits and deletions
  interleave with the Get-then-Update of rules and of the app. An Update of
  a rule deleted since the Get fails with NotFound.
- Any store call can fail. The rules, groups and namespace deletion done
  before the failure stay, and the next invocation starts over against
  that store.
- Projects are visited in Go map order, so which alerts are migrated before
  a failure changes from run to run.
- The readiness conditions change while an invocation runs. Progress
  depends on the caller retrying.
- Writing into the app's answers map (line 148) panics when the map is nil.

### Properties that make each part correct

- Translator: names are derived deterministically, the group ID resolves to
  the group created for the same alert, and recipients are copied.
- Executor and Cleanup: at every moment, each legacy alert is served either
  by the legacy namespace or by a rule whose group exists, unless a user has
  deleted that rule (`AlertsNeverUncovered`). Once an invocation is past
  migration, everything is migrated (apart from rules users deleted) and
  alerts of other clusters are untouched
  (`MigratedBeforeAppUpgrade`).
- Orchestrator: eventually every invocation ends and the app is on the new
  version (`UpgradeEventuallySucceeds`). Racing invocations should not fail
  (`ConcurrentUpgradesDoNotConflict`). Upgrade never panics
  (`UpgradeNeverPanics`).
- Orchestrator with its caller: a later call with the returned version does
  not migrate again, so users' edits and deletions of migrated rules
  survive it
  (`LaterUpgradeKeepsUserChanges`).
- Orchestrator across a catalog refresh: the app never moves back to an
  older template version (`AppNeverDowngraded`).
- The whole: the detailed model implements `UpgradeAbstract` (`AbsSpec`),
  including what it says must eventually happen (`AbsLiveSpec`).

## 2. Modules

- `LegacyMigration.tla`: the Record Translator (`ClusterMigration`,
  `ProjectMigration`, which share the group literal `MigrationGroup`) and
  the Migration Executor.
  - State: `rules`, `groups`, `proc` (per invocation: `pc`, loop `phase`,
    `queue` of migration items, `fresh` = the rule read by Get is still
    current, `appFresh`, and `err` = the error kind of spec section 7),
    plus the bounds counters `faults` and `edits`.
  - Each store call is one action: `ListOldClusterAlerts`,
    `ListOldProjectAlerts`, `GetAlertRule`, `CreateAlertRule`,
    `UpdateAlertRule`, `CreateAlertGroup`.
  - Each action has a `Fault` disjunct (a transient store error, which
    returns an error from `Upgrade`).
  - The environment: a user edits a migrated rule (`UserEditRule`) or
    deletes it (`UserDeleteRule`). `edits` is the sequence of these changes,
    and `UserDeletedKeys` is its history of deleted rules.
  - `UpdateAlertRule` fails with NotFound when the rule is gone, and with
    Conflict when the rule was changed since the Get.
  - Cluster and project loops share the loop-body actions. The code of the
    two loops is the same apart from the translation and the namespace.
- `AlertUpgrade.tla` extends it with the orchestrator.
  - Actions: `ResolveTemplate`, `RemoveLegacyAlerting`,
    `ListSystemProjects`, `GetApp`, `GetCluster`, `GetCatalog`,
    `UpdateApp`.
  - The caller. `Retry` calls `Upgrade` again after an error, with the same
    argument. `Reinvoke` calls it again after a success, with the returned
    `newVersion`. Each invocation keeps its argument in `proc[p].arg`, and
    `ResolveTemplate` applies the marker test of line 111 to it.
  - The environment: readiness changes, `BecomeReady`, and the system
    project appearing. `CatalogRefresh` publishes the next entry of
    `DefaultVersions`, and the template lister of line 98 then returns it
    (variable `template`). `ResolveTemplate` records the index it read in
    `proc[p].ver`, and `GetApp`, `UpdateApp` and `Reinvoke` use that index.
  - Init, Next, Fairness, Spec and the properties.
- `UpgradeAbstract.tla` is what Upgrade promises of the store, with no
  invocations, reads or errors. Its actions are:
  - `PutRule` (create or overwrite a translated rule);
  - `CreateGroup` (only when absent);
  - `RemoveLegacy` (only once every alert has its rule and group);
  - `SwitchApp` (only once the namespace is gone);
  - `EditRule` and `DeleteRule` (a user). `userDeleted` records deleted
    rules, and `RemoveLegacy` accepts an alert whose group exists and whose
    rule the user deleted.
  `LiveSpec` adds weak fairness to three things: writing a missing rule or
  group (`MigrateMissing`), `RemoveLegacy`, and `SwitchApp`. Neither
  reverting a user edit nor recreating a rule the user deleted is required.
  `AlertUpgrade` instantiates it as `Abs`. `Items` is mapped to `OwnItems`
  and `Apps` to `InitialApps`. `userDeleted` is mapped to `UserDeletedKeys`.
  The store variables map to themselves, and
  `proc`, the counters and the readiness state are hidden. The target
  external ID is the one published default version, so the refinement runs
  use one template version. `AbsSpec` is `Abs!Spec`, and `AbsLiveSpec` is
  `Abs!LiveSpec`.
- `MC_AlertUpgrade.tla` holds the model data: one legacy cluster alert, two
  project alerts of cluster `c1` in projects `p1` and `p2`, one project
  alert of cluster `c2`, and the app records.

### Abstractions

- A version ID `<catalog>-<template>-<version>` is the sequence of its parts.
  `strings.Contains` of the marker is a contiguous-subsequence test.
- A project ID `c:p` is the pair `<<c, p>>`, and `ref.Parse` selects the
  second part.
- The group ID keeps its string form `ns:name`, so a rule's reference really
  has to match a group key.
- An App is its external ID, `operator.enabled` and whether its answers map
  is nil. `DeepEqual` of the copy against the original compares exactly
  these.
- An Update that writes an equal object is a no-op and does not make
  other readers stale (apiserver behaviour).

## 3. Runs

| Run | cfg | Expect | Shows |
|---|---|---|---|
| safety | `MC_AlertUpgrade.cfg` | pass | `TypeOK`, `AlertsNeverUncovered`, `MigratedBeforeAppUpgrade` with 2 invocations, 3 in-cluster alerts plus 1 foreign alert, 1 transient fault, 1 user edit or deletion, 1 readiness change, and symmetry on `Proc` (about 4.8M states, 2.5 minutes) |
| liveness | `MC_Liveness.cfg` | pass | `UpgradeEventuallySucceeds` with 2 invocations, 1 cluster and 1 project alert plus 1 foreign alert, 1 fault, 1 edit or deletion, 1 readiness change, and no symmetry (about 1.65M states, 3 minutes) |
| conflict | `MC_Conflict.cfg` | violation | two racing invocations fail with a Conflict on the app Update, with no fault and no user edit (finding) |
| nil_answers | `MC_NilAnswers.cfg` | violation | an app with nil answers makes `Upgrade` panic (finding) |
| refinement | `MC_Refinement.cfg` | pass | `AbsSpec`: 2 invocations, all four legacy alerts, 1 fault, 1 edit or deletion, 1 readiness change, 1 later call, symmetry on `Proc` (about 3.8M states, 2 minutes) |
| abs_liveness | `MC_AbsLiveness.cfg` | pass | `AbsLiveSpec`: the liveness run's instance without the nil-answers app and without transient faults, no symmetry (about 307k states). Conflicts, NotFound and not-ready errors still drive retries |
| downgrade | `MC_Downgrade.cfg` | violation | two invocations straddle a catalog refresh from 0.0.4 to 0.0.5, and the earlier one moves the app back to 0.0.4 (finding) |
| reinvoke | `MC_Reinvoke.cfg` | pass | `LaterUpgradeKeepsUserChanges`: 1 invocation, all alerts, 1 fault, 1 edit or deletion, 1 later call with the returned version, catalog `system-library` |
| custom_catalog | `MC_CustomCatalog.cfg` | violation | the same with the catalog setting naming `my-catalog`: the later call migrates again and reverts the edit or recreates the deleted rule (finding) |

Why these bounds are enough:
- Two invocations are the smallest number that races.
- One fault lets any single store call fail at any point, followed by a retry
  against the partly written store.
- One user change makes a rule read stale. As an edit it is reverted, and
  as a deletion it makes an Update fail with NotFound.
- Two in-cluster projects give both map orders.
- The foreign alert exercises the cluster filter.
- One later call is enough for a second migration to overwrite an edit.
  The reinvoke runs use one invocation so that every revert comes from that
  later call. Concurrent invocations still on a legacy version may revert
  edits, as spec section 4.2 intends.
- One catalog refresh with two default versions is the smallest case where
  two invocations resolve different versions.
- The initial apps cover all three app paths: the app is absent, the app
  needs an update, and the app is already current (the no-op guard).

Fairness:
- Each invocation step is weakly fair. The calls are blocking and the store
  enforces its own timeouts, so an invocation does not stop in the middle.
- `Retry` is weakly fair because the caller re-invokes after errors (spec
  section 9).
- `BecomeReady` is weakly fair: cluster and catalog controllers eventually
  report ready, and the system project is eventually created.
- User edits, readiness losses and later calls have no fairness and are
  bounded.

## 4. Findings

- `conflict`: spec section 5 says racing invocations are safe because the only
  conflict is AlreadyExists on Create. The code's `Update` of the app
  (line 169) sends the copy read at line 146, so the second writer gets a
  Conflict and `Upgrade` returns an error. A retry recovers (the liveness
  run), but the spec's claim that no errors occur does not hold. The run
  shows only this app conflict. Migrated rules are also updated from an
  earlier read (lines 241, 343). Without a user edit, though, the second
  invocation writes what is already stored, which is a no-op and does not
  conflict. A rule Conflict after a user edit is reached in the liveness
  run, where a retry gets past it.
- `nil_answers`: line 148 assigns into `newApp.Spec.Answers`. A DeepCopy of a
  nil map is nil, so the assignment panics instead of returning an error.

- `custom_catalog`: line 92 takes the catalog name from the
  `SystemMonitoringCatalogID` setting, and the returned version is
  `<catalog>-<template>-<version>`. Line 111 tests for the literal
  `system-library-rancher-monitoring`. With any other catalog, the version
  `Upgrade` returns never carries the marker. Every later `Upgrade` then
  migrates again and overwrites the migrated rules users have edited.
- `downgrade`: the template's default version is read once (line 98) and
  written to the app at line 169. Between those lines there are many
  blocking calls. Suppose a catalog refresh comes between two concurrent
  invocations. The newer one moves the app to 0.0.5. The older one then
  reads that app, finds that it differs from its own `newExternalID`, and
  updates it back to 0.0.4. Its caller also stores 0.0.4 as the current
  version.

## 5. Not modelled

- `Version`, service wiring and the generated client (see the table).
  `Version` parses a setting and changes no state. The caller that would
  compare it with a stored version is not in this repository, and the spec
  does not describe it.
- Apps with a nil answers map are left out of `abs_liveness`. Such an app
  panics (the `nil_answers` finding) and is never switched.
- Error message text.
- Display name and severity. Both are copied verbatim and no property tells
  them apart.
- Users deleting migrated groups. Line 265 recreates a missing group only
  while migration still runs. A rule left naming a deleted group is
  outside what this code promises.
- The refinement across catalog refreshes. `TargetExternalID` is a constant
  of the abstract module, so the abstract switch targets one version. The
  `downgrade` run states what goes wrong across a refresh.
- What helm does after the gate has passed. Spec section 4.4 makes the
  readiness gate (lines 151-167) a point-in-time check. Helm acts after the
  App update, so readiness at the instant of the Update is neither promised
  nor something the code could enforce. No property is stated about it.
- Controller crashes. Nothing is kept in memory across calls except the
  store. A crash between two store calls therefore leaves the same store as
  a failed call (`Fault`) followed by the caller's `Retry`, which the
  safety and liveness runs cover.

## 6. Further work

- Every state change of `upgradeimpl.go` is an action of a module. The lines
  left out of the map are service wiring, `Version`, and struct and import
  declarations (see section 5).
- `abs_liveness` with transient faults as well. This needs a state
  constraint or more time than a five-minute run allows.
