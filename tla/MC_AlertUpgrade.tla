--------------------------- MODULE MC_AlertUpgrade ---------------------------
(***************************************************************************)
(* Model-checking instance of AlertUpgrade: one legacy cluster alert, two  *)
(* legacy project alerts of this cluster in two projects (so the Go map    *)
(* order over projects matters), and one project alert of another cluster *)
(* that must be filtered out.                                              *)
(***************************************************************************)
EXTENDS AlertUpgrade

MC_OldClusterAlerts ==
  << [name |-> "high-cpu", initialWait |-> 30, repeatInterval |-> 300,
      recipients |-> <<"a@x.com">>, targets |-> {"node"}] >>

MC_OldProjectAlerts ==
  << [name |-> "pod-restart", projectID |-> <<"c1", "p1">>, initialWait |-> 60,
      repeatInterval |-> 600, recipients |-> <<"b@x.com">>, targets |-> {"pod"}],
     [name |-> "api-down", projectID |-> <<"c2", "p9">>, initialWait |-> 60,
      repeatInterval |-> 600, recipients |-> <<"c@x.com">>, targets |-> {"workload"}],
     [name |-> "web-avail", projectID |-> <<"c1", "p2">>, initialWait |-> 30,
      repeatInterval |-> 300, recipients |-> <<>>, targets |-> {}] >>

\* the liveness runs: one project alert of this cluster, one of another
MC_FewProjectAlerts == SelectSeq(MC_OldProjectAlerts, LAMBDA a : a.name # "web-avail")

\* a version the alerting app had before the system monitoring catalog
MC_LegacyVersion == <<"0.0.1">>
\* a version Upgrade returned earlier, when the marker is present
MC_MigratedVersion == <<"system-library", "rancher-monitoring", "0.0.3">>

\* one published default version; and a catalog refresh publishing 0.0.5
MC_OneVersion == <<"0.0.4">>
MC_TwoVersions == <<"0.0.4", "0.0.5">>

MC_OldExternalID == ExternalID("system-library", "rancher-monitoring", "0.0.3")

\* the app before the upgrade (taking the update path); the same with a nil
\* answers map; and an app already on the new version (the no-op guard)
MC_InitialApps ==
  { [externalID |-> MC_OldExternalID, operatorEnabled |-> "true", answersNil |-> FALSE],
    [externalID |-> ExternalID("system-library", "rancher-monitoring", "0.0.4"),
     operatorEnabled |-> "false", answersNil |-> FALSE] }

Symmetry == Permutations(Proc)

MC_NilAnswersApps ==
  MC_InitialApps \cup
  { [externalID |-> MC_OldExternalID, operatorEnabled |-> "true", answersNil |-> TRUE] }
=============================================================================
