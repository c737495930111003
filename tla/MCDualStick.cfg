SPECIFICATION Spec
CONSTANTS
  Pulls = {{}, {119}, {115}}
  MaxNet = 3
INVARIANTS TypeOK ReplicaExact ExitReleasesStick
