\* The caller calls Upgrade again with the version the first call returned,
\* after a user has edited a migrated rule; one invocation at a time.
SPECIFICATION Spec
CONSTANTS
  Proc = {p1}
  ClusterName = "c1"
  OldClusterAlerts <- MC_OldClusterAlerts
  OldProjectAlerts <- MC_OldProjectAlerts
  NoRecord = NoRecord
  UserRepeat = 3600
  MaxFaults = 1
  MaxEdits = 1
  CurrentVersion <- MC_LegacyVersion
  SystemCatalogName = "system-library"
  TemplateName = "rancher-monitoring"
  DefaultVersions <- MC_OneVersion
  OldExternalID <- MC_OldExternalID
  InitialApps <- MC_InitialApps
  MaxFlips = 1
  MaxReinvokes = 1
PROPERTIES
  LaterUpgradeKeepsUserChanges
