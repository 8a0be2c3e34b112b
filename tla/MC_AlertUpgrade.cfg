\* Safety: two concurrent Upgrade invocations from a legacy version, with a
\* transient store error, a user edit of a migrated rule, a readiness change,
\* and the Go map order over two projects.
SPECIFICATION Spec
CONSTANTS
  Proc = {p1, p2}
  ClusterName = "c1"
  OldClusterAlerts <- MC_OldClusterAlerts
  OldProjectAlerts <- MC_OldProjectAlerts
  NoRecord = NoRecord
  UserRepeat = 3600
  MaxFaults = 1
  MaxEdits = 1
  CurrentVersion <- MC_LegacyVersion
  SystemCatalogName = "system-library"
  TemplateName = "rancher-monitoring"
  DefaultVersions <- MC_OneVersion
  OldExternalID <- MC_OldExternalID
  InitialApps <- MC_NilAnswersApps
  MaxFlips = 1
  MaxReinvokes = 0
SYMMETRY Symmetry
INVARIANTS
  TypeOK
  AlertsNeverUncovered
  MigratedBeforeAppUpgrade
