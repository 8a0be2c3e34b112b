\* One invocation finds a deployed app whose Spec.Answers map is nil.
SPECIFICATION Spec
CONSTANTS
  Proc = {p1}
  ClusterName = "c1"
  OldClusterAlerts <- MC_OldClusterAlerts
  OldProjectAlerts <- MC_FewProjectAlerts
  NoRecord = NoRecord
  UserRepeat = 3600
  MaxFaults = 0
  MaxEdits = 0
  CurrentVersion <- MC_LegacyVersion
  SystemCatalogName = "system-library"
  TemplateName = "rancher-monitoring"
  DefaultVersions <- MC_OneVersion
  OldExternalID <- MC_OldExternalID
  InitialApps <- MC_NilAnswersApps
  MaxFlips = 0
  MaxReinvokes = 0
INVARIANTS
  UpgradeNeverPanics
