SPECIFICATION MCSpec
CONSTANTS
  Pages = {"live", "session"}
  Lossy = {"session", "bot-status"}
  Races = {}
  MaxVersion = 1
  MaxDrops = 1
INVARIANTS PagesAreServed LinesAreSent
PROPERTIES ViewsCatchUp
CHECK_DEADLOCK FALSE
