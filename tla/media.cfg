SPECIFICATION MCSpec
CONSTANTS
  Messages = {1, 2, 3}
  Lists <- MCLists
  Races = {}
  Episodes <- Eps
  Fails = TRUE
INVARIANTS QuestionIsRemembered ActsOnce
PROPERTIES StatusFollowsQueue QueueEndIsNoticed DoneButForFailures OnlyWhatWasAsked
CHECK_DEADLOCK FALSE
