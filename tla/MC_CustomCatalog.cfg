\* The same, with the system monitoring catalog setting naming a catalog other
\* than system-library: the returned version never carries the marker.
SPECIFICATION Spec
CONSTANTS
  Proc = {p1}
  ClusterName = "c1"
  OldClusterAlerts <- MC_OldClusterAlerts
  OldProjectAlerts <- MC_OldProjectAlerts
  NoRecord = NoRecord
  UserRepeat = 3600
  MaxFaults = 1
  MaxEdits = 1
  CurrentVersion <- MC_LegacyVersion
  SystemCatalogName = "my-catalog"
  TemplateName = "rancher-monitoring"
  DefaultVersions <- MC_OneVersion
  OldExternalID <- MC_OldExternalID
  InitialApps <- MC_InitialApps
  MaxFlips = 1
  MaxReinvokes = 1
PROPERTIES
  LaterUpgradeKeepsUserChanges
