SPECIFICATION MCSpec
CONSTANTS
  Ids = {r1, r2}
  Kinds = {"once", "recurring"}
  MaxReminders = 2
  MaxPending = 2
  MaxTimeout = 2
  Horizon = 3
  MaxCrashes = 2
  MaxSends = 2
  MaxAttempts = 2
  Races = {"sends", "answers"}
INVARIANTS SaidIsShown
PROPERTIES DeliveriesAreDue NoneIsForgotten WorkoutIsRecorded
CHECK_DEADLOCK FALSE
