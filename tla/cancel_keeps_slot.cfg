SPECIFICATION FairSpec
CONSTANTS
  NumJobs = 2
  MaxDownloads = 1
  MaxFiles = 1
  Cancels = TRUE
PROPERTY QueuedStarts
CHECK_DEADLOCK FALSE
