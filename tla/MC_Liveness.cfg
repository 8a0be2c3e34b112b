\* Liveness: two invocations, one cluster and one project alert of this
\* cluster, a transient error and a readiness change; no symmetry.
SPECIFICATION Spec
CONSTANTS
  Proc = {p1, p2}
  ClusterName = "c1"
  OldClusterAlerts <- MC_OldClusterAlerts
  OldProjectAlerts <- MC_FewProjectAlerts
  NoRecord = NoRecord
  UserRepeat = 3600
  MaxFaults = 1
  MaxEdits = 1
  CurrentVersion <- MC_LegacyVersion
  SystemCatalogName = "system-library"
  TemplateName = "rancher-monitoring"
  DefaultVersions <- MC_OneVersion
  OldExternalID <- MC_OldExternalID
  InitialApps <- MC_NilAnswersApps
  MaxFlips = 1
  MaxReinvokes = 0
PROPERTIES
  UpgradeEventuallySucceeds
