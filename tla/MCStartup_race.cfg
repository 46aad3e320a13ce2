\* Two replicas, three crashes, one renaming; every configuration.
CONSTANTS
  Replicas = {r1, r2}
  MaxStops = 3
  MaxRenames = 1
SPECIFICATION FairSpec
INVARIANTS TypeOK ServingIsReady OneAdminPerName RacesDoNotWedge
PROPERTIES ReplicasComeUp ImplementsInstallation
