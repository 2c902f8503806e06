---------------------------- MODULE CommandQueue ----------------------------
(***************************************************************************)
(* tdr-code: how the main server's console reaches the bot. Teardowns and  *)
(* configuration changes are rows of the commands table, addressed to one  *)
(* generation of the bot and polled by its process (console/lifecycle.     *)
(* controller.ts, console/config.service.ts, db/command.repo.ts,           *)
(* commands/command-poller.service.ts), and the channels a bot serves are  *)
(* rows of live_status that successive generations share                   *)
(* (db/live-status.repo.ts).                                               *)
(*                                                                         *)
(* The life of a generation is Supervisor's, reduced to the steps that     *)
(* matter here; a process may outlive its row, as it does after a crash of *)
(* the main server.                                                        *)
(***************************************************************************)
EXTENDS Naturals, Sequences, FiniteSets

CONSTANTS
  Channels,
  MaxGenerations,   \* bound: generations ever started
  MaxRequests,      \* bound: rows inserted into commands, but for edits
  MaxEdits,         \* bound: configuration edits
  Races             \* which of the rare events below may happen

ASSUME CommandQueueAssumption ==
  MaxGenerations \in Nat /\ MaxRequests \in Nat /\ MaxEdits \in Nat

\* early_signal    an edit looks for a running bot while one that has read the
\*                 old configuration is still connecting
\* dispatch_throws an exception from teardown() or rereadConfig()
AllRaces == {"early_signal", "dispatch_throws"}

Gens  == 1..MaxGenerations
Ids   == 1..(MaxRequests + MaxEdits)
Types == {"teardown_channel", "reread_config", "unknown"}
NoTarget == "null"

VARIABLES
  status,    \* bot_generation.status of each generation, "none" before its row
  proc,      \* its process: none, constructed (the configuration is read),
             \* serving (the gateway is ready), dead
  commands,  \* the rows of the commands table, in the order of their ids
  config,    \* the configuration row: the number of the edit it holds
  editing,   \* updateConfig() is between its write and its look for a bot
  known,     \* the configuration each bot process works with
  sessions,  \* the channels each bot process has a session for
  live,      \* live_status: the generation_id of each channel's row, 0 if none
  ran        \* history: the generations whose process dispatched each command

vars == <<status, proc, commands, config, editing, known, sessions, live, ran>>

Init ==
  /\ status = [g \in Gens |-> "none"]
  /\ proc = [g \in Gens |-> "none"]
  /\ commands = <<>>
  /\ config = 0
  /\ editing = FALSE
  /\ known = [g \in Gens |-> 0]
  /\ sessions = [g \in Gens |-> {}]
  /\ live = [c \in Channels |-> 0]
  /\ ran = [i \in Ids |-> <<>>]

\* latestGeneration(): the greatest id with a row, 0 if there is none.
LatestGeneration ==
  LET rows == {g \in Gens : status[g] # "none"}
  IN IF rows = {} THEN 0 ELSE CHOOSE g \in rows : \A h \in rows : h <= g

IsRunning(g) == g # 0 /\ status[g] = "running"

Command(g, type, target) ==
  [generation |-> g, type |-> type, target |-> target, status |-> "pending"]

Enqueue(g, type, target) == commands' = Append(commands, Command(g, type, target))

\* Each edit sends at most one command, so Ids has room for all of them.
RoomForRequest ==
  Cardinality({i \in DOMAIN commands : commands[i].type # "reread_config"}) < MaxRequests

-----------------------------------------------------------------------------
(***************************************************************************)
(* Generations and their processes.                                        *)
(***************************************************************************)
InsertGeneration(g) ==
  /\ status[g] = "none"
  /\ \A h \in Gens : h < g => status[h] = "ended"
  /\ status' = [status EXCEPT ![g] = "starting"]
  /\ UNCHANGED <<proc, commands, config, editing, known, sessions, live, ran>>

\* The process is up: SessionManagerService has read the configuration in its
\* constructor and CommandPollerService has armed its timer.
Construct(g) ==
  /\ status[g] = "starting" /\ proc[g] = "none"
  /\ proc' = [proc EXCEPT ![g] = "constructed"]
  /\ known' = [known EXCEPT ![g] = config]
  /\ UNCHANGED <<status, commands, config, editing, sessions, live, ran>>

Up(g) == proc[g] \in {"constructed", "serving"}

\* onReady(): markRunning() needs the row to be starting still; a bot that comes
\* too late stops itself, which is Dies.
Ready(g) ==
  /\ proc[g] = "constructed" /\ status[g] = "starting"
  /\ status' = [status EXCEPT ![g] = "running"]
  /\ proc' = [proc EXCEPT ![g] = "serving"]
  /\ UNCHANGED <<commands, config, editing, known, sessions, live, ran>>

MarkStopping(g) ==
  /\ status[g] \in {"starting", "running"}
  /\ status' = [status EXCEPT ![g] = "stopping"]
  /\ UNCHANGED <<proc, commands, config, editing, known, sessions, live, ran>>

\* The row is finalized, on the exit of the process or by a main server that
\* could not tell whether it lives.
Finalize(g) ==
  /\ status[g] \in {"starting", "running", "stopping"}
  /\ status' = [status EXCEPT ![g] = "ended"]
  /\ UNCHANGED <<proc, commands, config, editing, known, sessions, live, ran>>

\* A process that dies leaves its live_status rows.
Dies(g) ==
  /\ Up(g)
  /\ proc' = [proc EXCEPT ![g] = "dead"]
  /\ sessions' = [sessions EXCEPT ![g] = {}]
  /\ UNCHANGED <<status, commands, config, editing, known, live, ran>>

-----------------------------------------------------------------------------
(***************************************************************************)
(* Sessions of a bot, and the channel's row they keep in live_status.      *)
(***************************************************************************)
\* Mutant of UpsertLiveStatus: the WHERE on the generation is dropped.
UpsertLastWriter(g, c) == live' = [live EXCEPT ![c] = g]

UpsertLiveStatus(g, c) ==
  live' = IF live[c] <= g THEN [live EXCEPT ![c] = g] ELSE live

\* DELETE ... generation_id <= g, for every channel in cs.
RemoveLiveStatus(g, cs) ==
  live' = [c \in Channels |-> IF c \in cs /\ live[c] <= g THEN 0 ELSE live[c]]

\* A message opens a session, or is one more of an open session: both write the
\* row.
Prompt(g, c) ==
  /\ proc[g] = "serving"
  /\ sessions' = [sessions EXCEPT ![g] = @ \cup {c}]
  /\ UpsertLiveStatus(g, c)
  /\ UNCHANGED <<status, proc, commands, config, editing, known, ran>>

\* /clear, the idle timer or the exit of the agent.
EndSession(g, c) ==
  /\ c \in sessions[g]
  /\ sessions' = [sessions EXCEPT ![g] = @ \ {c}]
  /\ RemoveLiveStatus(g, {c})
  /\ UNCHANGED <<status, proc, commands, config, editing, known, ran>>

-----------------------------------------------------------------------------
(***************************************************************************)
(* The console, in the main server.                                        *)
(***************************************************************************)
\* POST /channels/:id/teardown; with no running bot it is refused.
RequestTeardown(c) ==
  LET g == LatestGeneration IN
  /\ RoomForRequest
  /\ IsRunning(g)
  /\ Enqueue(g, "teardown_channel", c)
  /\ UNCHANGED <<status, proc, config, editing, known, sessions, live, ran>>

\* Any other writer of the table.
InsertUnknown ==
  LET g == LatestGeneration IN
  /\ RoomForRequest
  /\ IsRunning(g)
  /\ Enqueue(g, "unknown", NoTarget)
  /\ UNCHANGED <<status, proc, config, editing, known, sessions, live, ran>>

ConnectingOnOld(g) ==
  g # 0 /\ status[g] = "starting" /\ proc[g] = "constructed" /\ known[g] # config

\* updateConfig() writes the row in one transaction ...
EditConfig ==
  /\ ~editing /\ config < MaxEdits
  /\ config' = config + 1
  /\ editing' = TRUE
  /\ UNCHANGED <<status, proc, commands, known, sessions, live, ran>>

\* ... and looks for a running bot to tell in others, while the bot, another
\* process, goes on.
SignalReread ==
  LET g == LatestGeneration IN
  /\ editing
  /\ "early_signal" \in Races \/ ~ConnectingOnOld(g)
  /\ IF IsRunning(g) THEN Enqueue(g, "reread_config", NoTarget)
                     ELSE UNCHANGED commands
  /\ editing' = FALSE
  /\ UNCHANGED <<status, proc, config, known, sessions, live, ran>>

-----------------------------------------------------------------------------
(***************************************************************************)
(* A tick of the bot's poller. The claim is one immediate transaction; the *)
(* dispatch of what it claimed is the same callback.                       *)
(***************************************************************************)
\* Mutant of Claimable: the pending rows of any generation.
ClaimableOfAny(g) ==
  {i \in DOMAIN commands : commands[i].status = "pending" /\ status[g] # "ended"}

Claimable(g) ==
  {i \in DOMAIN commands : /\ commands[i].generation = g
                           /\ commands[i].status = "pending"
                           /\ status[g] # "ended"}

Claim(ids) ==
  commands' = [i \in DOMAIN commands |->
                 IF i \in ids THEN [commands[i] EXCEPT !.status = "consumed"]
                              ELSE commands[i]]

\* Mutant of Dispatched: the loop ends one row early.
DispatchedButLast(ids) == {{i \in ids : \E j \in ids : i < j}}

\* The claimed rows are dispatched in the order of their ids. An exception from
\* one ends the loop: that row and those after it are not run.
Dispatched(ids) ==
  {ids} \cup
  IF "dispatch_throws" \in Races
    THEN {{i \in ids : i < k} : k \in {j \in ids : commands[j].type # "unknown"}}
    ELSE {}

RereadsConfig(ids) == \E i \in ids : commands[i].type = "reread_config"

Poll(g) ==
  LET claimed == Claimable(g) IN
  /\ Up(g)
  /\ claimed # {}
  /\ Claim(claimed)
  /\ \E done \in Dispatched(claimed) :
       LET torn == {commands[i].target :
                      i \in {j \in done : commands[j].type = "teardown_channel"}}
       IN /\ sessions' = [sessions EXCEPT ![g] = @ \ torn]
          /\ RemoveLiveStatus(g, torn \cap sessions[g])
          /\ known' = IF RereadsConfig(done) THEN [known EXCEPT ![g] = config] ELSE known
          /\ ran' = [i \in Ids |-> IF i \in done /\ commands[i].type # "unknown"
                                     THEN Append(ran[i], g) ELSE ran[i]]
  /\ UNCHANGED <<status, proc, config, editing>>

-----------------------------------------------------------------------------
Generations ==
  \E g \in Gens : \/ InsertGeneration(g) \/ Construct(g) \/ Ready(g)
                  \/ MarkStopping(g) \/ Finalize(g) \/ Dies(g)
Bots == \E g \in Gens : \/ Poll(g)
                        \/ \E c \in Channels : Prompt(g, c) \/ EndSession(g, c)
Console == InsertUnknown \/ EditConfig \/ SignalReread \/ \E c \in Channels : RequestTeardown(c)

Next == Generations \/ Bots \/ Console

Spec == Init /\ [][Next]_vars

\* The poller re-arms its timer in every tick, also after an error, and
\* updateConfig() runs on in the main server.
Fairness == WF_vars(SignalReread) /\ \A g \in Gens : WF_vars(Poll(g))

FairSpec == Spec /\ Fairness

-----------------------------------------------------------------------------
TypeOK ==
  /\ status \in [Gens -> {"none", "starting", "running", "stopping", "ended"}]
  /\ proc \in [Gens -> {"none", "constructed", "serving", "dead"}]
  /\ commands \in Seq([generation : Gens, type : Types,
                       target : Channels \cup {NoTarget},
                       status : {"pending", "consumed"}])
  /\ Len(commands) <= MaxRequests + MaxEdits
  /\ config \in 0..MaxEdits
  /\ editing \in BOOLEAN
  /\ known \in [Gens -> 0..MaxEdits]
  /\ sessions \in [Gens -> SUBSET Channels]
  /\ live \in [Channels -> 0..MaxGenerations]
  /\ ran \in [Ids -> Seq(Gens)]

\* A command runs at most once, in the process of the generation it was issued
\* for: one issued to a bot that was just replaced never tears down a session
\* of its successor. (command.repo.ts, claimPending)
RunsOnceAtItsBot ==
  \A i \in Ids : /\ Len(ran[i]) <= 1
                 /\ i > Len(commands) => ran[i] = <<>>
                 /\ \A k \in DOMAIN ran[i] : ran[i][k] = commands[i].generation

\* However two generations overlap, the row of a channel the newest bot has a
\* session for carries its generation: the console, which lists the rows of the
\* latest generation, shows the session. (live-status.repo.ts)
LiveRowIsTheNewest ==
  \A g \in Gens : \A c \in Channels :
    g = LatestGeneration /\ c \in sessions[g] => live[c] = g

\* A running bot that works with an old configuration has been told to read it
\* again, or is about to be. (config.service.ts, updateConfig)
StaleBotIsTold ==
  LET g == LatestGeneration IN
  IsRunning(g) /\ Up(g) /\ known[g] # config =>
    \/ editing
    \/ \E i \in Claimable(g) : commands[i].type = "reread_config"

\* The console sees the newest bot's sessions, and that bot its configuration.
BothSidesAreCurrent == LiveRowIsTheNewest /\ StaleBotIsTold

\* What a claim took, a bot that is still alive has run: "will retry next tick".
ClaimedIsRun ==
  \A i \in DOMAIN commands :
    /\ commands[i].status = "consumed"
    /\ commands[i].type # "unknown"
    /\ Up(commands[i].generation)
    => ran[i] # <<>>

\* A bot that stays up comes to work with the configuration as it is stored:
\* "if the bot is offline it reads the new row at next construction".
ConfigSettles ==
  \A g \in Gens :
    <>[](IsRunning(g) /\ Up(g)) => <>[](known[g] = config)

\* An accepted teardown is carried out unless its bot ends first.
TeardownsRun ==
  \A i \in Ids :
    (i \in DOMAIN commands /\ commands[i].type = "teardown_channel") ~>
      (i \in DOMAIN commands /\ \/ ran[i] # <<>>
                                 \/ proc[commands[i].generation] = "dead"
                                 \/ status[commands[i].generation] = "ended")

\* What was asked of a bot comes about, in one way or the other.
CommandsSettle == ConfigSettles /\ TeardownsRun
=============================================================================
