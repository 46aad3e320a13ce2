\* The bootstrap script runs again after the admin was renamed.
CONSTANTS
  Replicas = {r1}
  MaxStops = 1
  MaxRenames = 1
SPECIFICATION Spec
INVARIANTS AdminCreatedOnce
