SPECIFICATION FairSpec
CONSTANTS
  Platforms = {"ecs", "swarm", "k8s"}
  Handlers = {1, 2}
  Replicas = 2
  MaxRequests = 2
  MaxFailures = 1
  MaxCrashes = 1
INVARIANTS TypeOK OneAtATime RestartCovers
PROPERTIES RestartEnds
CHECK_DEADLOCK FALSE
