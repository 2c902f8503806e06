------------------------------- MODULE MCApps -------------------------------
(***************************************************************************)
(* What users of three applications see, checked in one run: a behaviour   *)
(* is one of these parts, chosen at the start, while the other variables   *)
(* keep their initial state.                                               *)
(*                                                                         *)
(*   reminders  one-time and recurring reminders of tdr-bot, with crashes  *)
(*   overlap    one reminder whose deletion falls between the steps of its *)
(*              creation or delivery, and the fairness of FairSpec         *)
(*   weights    a session of swole: two exercises with weights, two tabs   *)
(*   plain      the same, with an exercise that has no weight              *)
(*   replies    two turns of tdr-code in Discord, with text and images     *)
(*   cleared    the same, shorter, with a /clear                           *)
(***************************************************************************)
EXTENDS Reminders

VARIABLES
  part,
  db, tabs, undos, lost,
  turn, said, dropped, states, current, cleared, messages, working, flushes, images, tail,
  finals

Overlap == INSTANCE Reminders WITH
  Kinds <- {"once"}, MaxReminders <- 1, MaxCrashes <- 1, Races <- {"cancels", "sends"}

Weights == INSTANCE Workout WITH
  Tabs <- {"a", "b"}, Sets <- <<1, 2>>, Weighted <- {1, 2}, Start0 <- 3,
  Acts <- {"Increment", "Decrement", "Complete", "Failed"}, Races <- {}, MaxUndos <- 1, MaxLost <- 1

Plain == INSTANCE Workout WITH
  Tabs <- {"a", "b"}, Sets <- <<1, 1>>, Weighted <- {1}, Start0 <- 3,
  Acts <- {"Complete", "Failed"}, Races <- {}, MaxUndos <- 2, MaxLost <- 2

Replies == INSTANCE DiscordOutput WITH
  Races <- {}, MaxTurns <- 2, MaxItems <- 3, MaxClears <- 0

Cleared == INSTANCE DiscordOutput WITH
  Races <- {}, MaxTurns <- 2, MaxItems <- 2, MaxClears <- 1

ASSUME PartsAssumption ==
  /\ Weights!WorkoutAssumption /\ Plain!WorkoutAssumption
  /\ Replies!DiscordOutputAssumption /\ Cleared!DiscordOutputAssumption

workoutVars == <<db, tabs, undos, lost>>
outputVars == <<turn, said, dropped, states, current, cleared, messages, working, flushes,
                images, tail, finals>>

MCInit ==
  /\ part \in {"reminders", "overlap", "weights", "plain", "replies", "cleared"}
  /\ Init /\ Replies!Init
  /\ IF part = "plain" THEN Plain!Init ELSE Weights!Init

MCNext ==
  /\ UNCHANGED part
  /\ \/ part = "reminders" /\ Next /\ UNCHANGED <<workoutVars, outputVars>>
     \/ part = "overlap" /\ Overlap!Next /\ UNCHANGED <<workoutVars, outputVars>>
     \/ part = "weights" /\ Weights!Next /\ UNCHANGED <<vars, outputVars>>
     \/ part = "plain" /\ Plain!Next /\ UNCHANGED <<vars, outputVars>>
     \/ part = "replies" /\ Replies!Next /\ UNCHANGED <<vars, workoutVars>>
     \/ part = "cleared" /\ Cleared!Next /\ UNCHANGED <<vars, workoutVars>>

MCSpec ==
  /\ MCInit /\ [][MCNext]_<<part, vars, workoutVars, outputVars>>
  /\ \A r \in Ids : WF_vars(part = "overlap" /\ Overlap!Service(r))
  /\ WF_vars(part = "overlap" /\ Register) /\ WF_vars(part = "overlap" /\ Restart)
  /\ WF_vars(part = "overlap" /\ Tick)

-----------------------------------------------------------------------------
\* A one-time reminder is not forgotten: it is sent, or cancelled, or deleted by
\* a restart that comes too late. And none is sent once cancel() has returned,
\* unless the cancellation falls between the steps of its creation or delivery.
NoneIsForgotten ==
  /\ []TypeOK
  /\ part = "overlap" => OnceIsSettled
  /\ [][part = "reminders" => CancelledIsSilent]_vars

\* The log of a session is a workout that could have been done in one tab, and
\* is sealed once the session is completed, which leaves the starting weights
\* the log calls for.
WorkoutIsRecorded ==
  /\ [](part = "weights" => Weights!TypeOK /\ Weights!ChainIsKept /\ Weights!StartFollowsLog)
  /\ [](part = "plain" => Plain!TypeOK /\ Plain!ChainIsKept /\ Plain!StartFollowsLog)
  /\ [][Weights!LogStaysSealed]_workoutVars

\* A channel shows all that the agent said, each chunk and image once, in order,
\* and its Stop button is that of the turn under way.
SaidIsShown == Replies!TypeOK /\ Replies!SaidIsShown /\ Replies!ButtonsAreOfTheTurn
=============================================================================
