SPECIFICATION MCSpec
CONSTANTS
  Checks = {"k1", "k2"}
  NumJobs = 4
  MaxDownloads = 2
  MaxFiles = 1
  Cancels = TRUE
INVARIANTS SlotsAreKept UpdateIsExclusive
PROPERTIES JobsMoveOn FailuresAreUndone BreakerHeals IsAQueue
CHECK_DEADLOCK FALSE
