\* Refinement of UpgradeAbstract: two concurrent invocations from a legacy
\* version, all four legacy alerts, a transient error, a user edit, a
\* readiness change and a later call with the returned version.
SPECIFICATION Spec
CONSTANTS
  Proc = {p1, p2}
  ClusterName = "c1"
  OldClusterAlerts <- MC_OldClusterAlerts
  OldProjectAlerts <- MC_OldProjectAlerts
  NoRecord = NoRecord
  UserRepeat = 3600
  MaxFaults = 1
  MaxEdits = 1
  CurrentVersion <- MC_LegacyVersion
  SystemCatalogName = "system-library"
  TemplateName = "rancher-monitoring"
  DefaultVersions <- MC_OneVersion
  OldExternalID <- MC_OldExternalID
  InitialApps <- MC_InitialApps
  MaxFlips = 1
  MaxReinvokes = 1
SYMMETRY Symmetry
PROPERTIES
  AbsSpec
