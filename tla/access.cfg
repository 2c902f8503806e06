SPECIFICATION MCSpec
CONSTANTS
  Users = {"u1"}
  Hosts = {"h1", "h2"}
  PageHosts = {"h1"}
  MaxRequests = 2
  MaxChecks = 2
  MaxBatch = 2
  Unlisted = {"h1"}
  Revokes = TRUE
  RepeatedHosts = FALSE
  Restarts = TRUE
INVARIANTS CacheIsDb
PROPERTIES PendingIsQueued DecisionReachesPage
CHECK_DEADLOCK FALSE
