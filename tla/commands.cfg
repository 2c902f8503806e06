SPECIFICATION FairSpec
CONSTANTS
  Channels = {c1}
  MaxGenerations = 2
  MaxRequests = 2
  MaxEdits = 2
  Races = {}
INVARIANTS RunsOnceAtItsBot BothSidesAreCurrent
PROPERTIES CommandsSettle
CHECK_DEADLOCK FALSE
