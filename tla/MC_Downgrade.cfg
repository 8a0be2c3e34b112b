\* Two invocations race across a catalog refresh that publishes a newer
\* default version of the template; no faults, edits or readiness changes.
SPECIFICATION Spec
CONSTANTS
  Proc = {p1, p2}
  ClusterName = "c1"
  OldClusterAlerts <- MC_OldClusterAlerts
  OldProjectAlerts <- MC_FewProjectAlerts
  NoRecord = NoRecord
  UserRepeat = 3600
  MaxFaults = 0
  MaxEdits = 0
  CurrentVersion <- MC_LegacyVersion
  SystemCatalogName = "system-library"
  TemplateName = "rancher-monitoring"
  DefaultVersions <- MC_TwoVersions
  OldExternalID <- MC_OldExternalID
  InitialApps <- MC_InitialApps
  MaxFlips = 0
  MaxReinvokes = 0
PROPERTIES
  AppNeverDowngraded
