\* Two invocations race with no transient errors, no user edits and no
\* readiness changes: a Conflict still makes one of them fail.
SPECIFICATION Spec
CONSTANTS
  Proc = {p1, p2}
  ClusterName = "c1"
  OldClusterAlerts <- MC_OldClusterAlerts
  OldProjectAlerts <- MC_FewProjectAlerts
  NoRecord = NoRecord
  UserRepeat = 3600
  MaxFaults = 0
  MaxEdits = 0
  CurrentVersion <- MC_LegacyVersion
  SystemCatalogName = "system-library"
  TemplateName = "rancher-monitoring"
  DefaultVersions <- MC_OneVersion
  OldExternalID <- MC_OldExternalID
  InitialApps <- MC_InitialApps
  MaxFlips = 0
  MaxReinvokes = 0
INVARIANTS
  ConcurrentUpgradesDoNotConflict
