----------------------------- MODULE Supervisor -----------------------------
(***************************************************************************)
(* tdr-code: the main server's supervisor of the bot process, the          *)
(* bot_generation rows the two share, and the process lifecycle of the     *)
(* bot (apps/tdr-code/src/supervisor, discord/bot-lifecycle.service.ts,    *)
(* bot-bootstrap.ts, db/bot-generation.repo.ts).                           *)
(*                                                                         *)
(* A generation is one attempt to run the bot: one row, at most one        *)
(* process. An action is one callback of one of the two processes; the     *)
(* effects the pure machine returns run in the same callback, so they are  *)
(* part of its action. The database is shared and every write is one       *)
(* statement with a WHERE guard.                                           *)
(***************************************************************************)
EXTENDS Naturals, FiniteSets

CONSTANTS
  MaxGenerations,   \* bound: rows ever inserted
  MaxBoots,         \* bound: starts of the main server
  Threshold,        \* SUPERVISOR_CRASH_LOOP_THRESHOLD
  Environments      \* sets of faults, of which a behaviour has one

\* spawn_throws  spawn() throws               spawn_error  it emits error, no exit
\* boot_restart  /bot/restart while reconciling
\* ps_fails      `ps` cannot confirm a pid    old_agent    an agent outlives the TTL
\* boot_ready    a bot marks its row running between its read and its finalization
AllFaults == {"spawn_throws", "spawn_error", "boot_restart", "boot_ready",
              "ps_fails", "old_agent"}

ASSUME SupervisorAssumption ==
  /\ MaxGenerations \in Nat \ {0}
  /\ MaxBoots \in Nat
  /\ Threshold \in Nat \ {0}
  /\ Environments \subseteq SUBSET AllFaults

Phases   == {"Stopped", "Starting", "Running", "Stopping", "Backoff", "Failed"}
Timers   == {"startDeadline", "livenessPoll", "stableWindow", "grace", "backoff"}
Ended    == {"stopped", "crashed", "failed"}
Open     == {"starting", "running", "stopping"}
Living   == {"booting", "connecting", "serving", "closing"}
Gens     == 1..MaxGenerations
NoRow    == [status |-> "none", pid |-> FALSE]

VARIABLES
  faults,     \* what the environment may do, chosen at the start
  main,       \* the main server: down, up, or closing (onModuleDestroy has run)
  boots,      \* how often it was started
  sup,        \* the service's fields, see InitialSup
  rec,        \* reconcileOnBoot: its step, and the rows it has left as it read them
  last,       \* the greatest bot_generation id
  row,        \* the bot_generation rows
  bot,        \* the process of each generation
  signalled,  \* processes with a SIGTERM their handler has not seen
  exits,      \* exit events not yet delivered to the main server
  agents      \* the agent process group of each generation, as in claude_process

\* Everything but faults, which no step changes.
vars == <<main, boots, sup, rec, last, row, bot, signalled, exits, agents>>
procVars == <<bot, signalled, exits>>

\* recent counts the unexpected exits of the last crash-loop window; children
\* of this run of the main server are the generations after since.
InitialSup(n) ==
  [phase |-> "Stopped", expectedStop |-> FALSE, pendingRestart |-> FALSE,
   recent |-> 0, child |-> 0, gen |-> 0, timers |-> {}, since |-> n]

NotReconciling == [at |-> "done", todo |-> {}, known |-> {}]

Init ==
  /\ faults \in Environments
  /\ main = "down"
  /\ boots = 0
  /\ sup = InitialSup(0)
  /\ rec = NotReconciling
  /\ last = 0
  /\ row = [g \in Gens |-> NoRow]
  /\ bot = [g \in Gens |-> "none"]
  /\ signalled = {}
  /\ exits = {}
  /\ agents = [g \in Gens |-> "none"]

-----------------------------------------------------------------------------
(***************************************************************************)
(* The row writers.                                                        *)
(***************************************************************************)

IsOpen(g) == row[g].status \in Open

\* finalize(): write-once.
Finalize(g, status) ==
  IF g \in Gens /\ IsOpen(g) THEN [row EXCEPT ![g].status = status] ELSE row

\* (mutant of MayMarkRunning) The guard of the UPDATE is dropped.
MayMarkRunningAnyRow(g) == TRUE

\* The guard of markRunning().
MayMarkRunning(g) == row[g].status = "starting"

\* markStopping(): any row not ended.
MarkStopping(g) ==
  IF g \in Gens /\ IsOpen(g) THEN [row EXCEPT ![g].status = "stopping"] ELSE row

(***************************************************************************)
(* Processes and signals.                                                  *)
(***************************************************************************)

\* The process ends; its exit reaches the main server that spawned it.
Dies(g) ==
  /\ bot' = [bot EXCEPT ![g] = "dead"]
  /\ exits' = IF main # "down" /\ g > sup.since THEN exits \cup {g} ELSE exits

\* SIGTERM: fatal before bot-bootstrap installs its handler, a request after.
Sigterm(g) ==
  \/ /\ g \in Gens /\ bot[g] = "booting"
     /\ Dies(g) /\ UNCHANGED signalled
  \/ /\ g \in Gens /\ bot[g] \in {"connecting", "serving"}
     /\ signalled' = signalled \cup {g} /\ UNCHANGED <<bot, exits>>
  \/ /\ g \in Gens => bot[g] \notin {"booting", "connecting", "serving"}
     /\ UNCHANGED procVars

\* (mutant of Sigkill) The signal is never sent.
SigkillForgotten(g) == UNCHANGED procVars

\* SIGKILL ends the process at once.
Sigkill(g) ==
  \/ g \in Gens /\ bot[g] \in Living /\ Dies(g) /\ UNCHANGED signalled
  \/ (g \in Gens => bot[g] \notin Living) /\ UNCHANGED procVars

\* (mutant of Reap) The groups are marked exited without being killed.
ReapMarksOnly(g) == agents

\* reapGeneration(): kills the recorded groups, but takes those older than the
\* TTL for recycled ids.
Reap(g) ==
  IF g \in Gens /\ agents[g] = "young" THEN [agents EXCEPT ![g] = "none"] ELSE agents

-----------------------------------------------------------------------------
(***************************************************************************)
(* Parts of the machine's transitions.                                     *)
(***************************************************************************)

\* An unexpected exit in Starting or Running, with the effects that touch the
\* service's own state; row status and reap are the caller's.
Crashed(s) ==
  LET looping == s.recent + 1 >= Threshold
      t       == s.timers \ {"startDeadline", "livenessPoll", "stableWindow"}
  IN  [s EXCEPT !.recent = @ + 1, !.expectedStop = FALSE,
                !.phase  = IF looping THEN "Failed" ELSE "Backoff",
                !.timers = IF looping THEN t ELSE t \cup {"backoff"}]

\* The status of the row an unexpected exit leaves.
CrashStatus(s) == IF s.recent + 1 >= Threshold THEN "failed" ELSE "crashed"

\* (mutant of MayStart) StartRequested is obeyed in every phase.
MayStartAnyhow(s) == TRUE

\* StartRequested is ignored unless the machine is at rest.
MayStart(s) == s.phase \in {"Stopped", "Failed"}

\* (mutant of Restarted) The intent is kept for the next exit as well.
RestartedPending(s) == s

\* The exit a pending restart waited for has come.
Restarted(s) == [s EXCEPT !.pendingRestart = FALSE]

\* insertGeneration, spawn, armStartDeadline, from the rows r.
\* A spawn that throws dispatches ExitObserved from within the effects; the
\* deadline is armed after that all the same.
Launch(s, r) ==
  LET g    == last + 1
      s1   == [s EXCEPT !.phase = "Starting", !.expectedStop = FALSE, !.gen = g]
      arm(u) == [u EXCEPT !.timers = @ \cup {"startDeadline", "livenessPoll"}]
      spawned(state) ==
        /\ bot' = [bot EXCEPT ![g] = state]
        /\ row' = [r EXCEPT ![g] = [status |-> "starting", pid |-> FALSE]]
        /\ sup' = arm([s1 EXCEPT !.child = g])
  IN  /\ g \in Gens
      /\ last' = g
      /\ \/ spawned("booting")
         \/ "spawn_error" \in faults /\ spawned("absent")
         \/ /\ "spawn_throws" \in faults
            /\ bot' = [bot EXCEPT ![g] = "absent"]
            /\ row' = [r EXCEPT ![g] = [status |-> "crashed", pid |-> FALSE]]
            /\ sup' = arm(Crashed(s1))

-----------------------------------------------------------------------------
(***************************************************************************)
(* The main server: boot, reconciliation, shutdown.                        *)
(***************************************************************************)

\* start(): the open rows are read once.
MainBoot ==
  /\ main = "down" /\ boots < MaxBoots /\ last < MaxGenerations
  /\ main' = "up"
  /\ boots' = boots + 1
  /\ sup' = InitialSup(last)
  /\ rec' = [at |-> "check", todo |-> {g \in Gens : IsOpen(g)},
             known |-> {g \in Gens : row[g].pid}]
  /\ exits' = {}
  /\ UNCHANGED <<last, row, bot, signalled, agents>>

\* The main server's event loop is free: reconcileOnBoot() yields only where it
\* awaits, and StartRequested follows its last row at once.
Idle == main # "down" /\ rec.at # "check"

NextRow(g) == g \in rec.todo /\ \A h \in rec.todo : g <= h

\* A row without a pid, or with a dead one, is finalized at once; else `ps`
\* is asked.
ReconcileCheck(g) ==
  /\ main # "down" /\ rec.at = "check" /\ NextRow(g)
  /\ IF g \in rec.known /\ bot[g] \in Living
     THEN rec' = [rec EXCEPT !.at = "identify"] /\ UNCHANGED row
     ELSE /\ rec' = [rec EXCEPT !.todo = @ \ {g}]
          /\ row' = Finalize(g, "crashed")
  /\ UNCHANGED <<main, boots, sup, last, bot, signalled, exits, agents>>

\* The answer of `ps`. A confirmed survivor is sent SIGTERM; so is a process that
\* is gone, as a failing `ps` counts for confirmation. An unreadable answer
\* finalizes the row without a signal.
ReconcileIdentify(g) ==
  /\ main # "down" /\ rec.at = "identify" /\ NextRow(g)
  /\ \/ /\ Sigterm(g)
        /\ rec' = [rec EXCEPT !.at = "kill"]
        /\ UNCHANGED row
     \/ /\ "ps_fails" \in faults
        /\ rec' = [rec EXCEPT !.at = "check", !.todo = @ \ {g}]
        /\ row' = Finalize(g, "crashed")
        /\ UNCHANGED procVars
  /\ UNCHANGED <<main, boots, sup, last, agents>>

\* After the 100 ms: SIGKILL and finalize. The survivor's agents are not reaped.
ReconcileKill(g) ==
  /\ main # "down" /\ rec.at = "kill" /\ NextRow(g)
  /\ Sigkill(g)
  /\ rec' = [rec EXCEPT !.at = "check", !.todo = @ \ {g}]
  /\ row' = Finalize(g, "crashed")
  /\ UNCHANGED <<main, boots, sup, last, agents>>

\* reconcileOnBoot() has returned: StartRequested, ignored unless at rest.
StartRequested ==
  /\ main # "down" /\ rec.at = "check" /\ rec.todo = {}
  /\ rec' = NotReconciling
  /\ IF MayStart(sup)
     THEN Launch(sup, row)
     ELSE UNCHANGED <<sup, last, row, bot>>
  /\ UNCHANGED <<main, boots, signalled, exits, agents>>

\* onModuleDestroy(). The event loop runs on until app.close() has finished.
MainCloses ==
  /\ Idle /\ main = "up"
  /\ main' = "closing"
  /\ IF sup.child # 0
     THEN /\ sup' = [sup EXCEPT !.timers = {}, !.expectedStop = TRUE]
          /\ Sigterm(sup.child)
     ELSE sup' = [sup EXCEPT !.timers = {}] /\ UNCHANGED procVars
  /\ UNCHANGED <<boots, rec, last, row, agents>>

\* The process ends, after closing or by a crash. Its children live on.
MainDies ==
  /\ main # "down"
  /\ main' = "down"
  /\ sup' = InitialSup(last)
  /\ rec' = NotReconciling
  /\ exits' = {}
  /\ UNCHANGED <<boots, last, row, bot, signalled, agents>>

-----------------------------------------------------------------------------
(***************************************************************************)
(* The main server: events of the machine.                                 *)
(***************************************************************************)

Due(t) == Idle /\ t \in sup.timers
Lapses(t) == [sup EXCEPT !.timers = @ \ {t}]

\* POST /bot/restart, requestRestart(): rejected while Stopping; a start when the
\* bot is down. Failed -> Starting keeps the exit history.
RequestRestart ==
  /\ Idle /\ main = "up" /\ last < MaxGenerations
  /\ rec.at # "done" => "boot_restart" \in faults
  /\ \/ /\ sup.phase \in {"Starting", "Running"}
        /\ sup' = [sup EXCEPT !.phase = "Stopping", !.expectedStop = TRUE,
                              !.pendingRestart = TRUE,
                              !.timers = {"grace"} \cup
                                IF sup.phase = "Starting"
                                THEN @ \ {"startDeadline", "livenessPoll"} ELSE @]
        /\ row' = MarkStopping(sup.gen)
        /\ Sigterm(sup.child)
        /\ UNCHANGED last
     \/ /\ sup.phase \in {"Backoff", "Stopped", "Failed"}
        /\ Launch(IF sup.phase = "Backoff"
                  THEN Restarted([sup EXCEPT !.timers = @ \ {"backoff"}]) ELSE sup, row)
        /\ UNCHANGED <<signalled, exits>>
  /\ UNCHANGED <<main, boots, rec, agents>>

\* The poll finds the row running: Ready. Otherwise it is set again, or, in a
\* phase without a bot to wait for, not.
LivenessPoll ==
  /\ Due("livenessPoll")
  /\ \/ /\ sup.phase = "Starting" /\ row[sup.gen].status = "running"
        /\ sup' = [sup EXCEPT !.phase = "Running",
                     !.timers = (@ \ {"startDeadline", "livenessPoll"}) \cup {"stableWindow"}]
     \/ /\ sup.phase \notin {"Starting", "Running"}
        /\ sup' = Lapses("livenessPoll")
  /\ UNCHANGED <<main, boots, rec, last, row, procVars, agents>>

StableWindowElapsed ==
  /\ Due("stableWindow")
  /\ sup' = [Lapses("stableWindow") EXCEPT
               !.recent = IF sup.phase = "Running" THEN 0 ELSE @]
  /\ UNCHANGED <<main, boots, rec, last, row, procVars, agents>>

\* The start deadline. Below the crash-loop threshold the exit it brings about
\* counts as expected.
StartTimeout ==
  /\ Due("startDeadline")
  /\ IF sup.phase = "Starting"
     THEN /\ sup' = [Lapses("startDeadline") EXCEPT
                       !.phase = "Stopping", !.recent = @ + 1,
                       !.expectedStop = sup.recent + 1 < Threshold,
                       !.timers = @ \cup {"grace"}]
          /\ row' = MarkStopping(sup.gen)
          /\ Sigterm(sup.child)
     ELSE sup' = Lapses("startDeadline") /\ UNCHANGED <<row, procVars>>
  /\ UNCHANGED <<main, boots, rec, last, agents>>

GraceTimeout ==
  /\ Due("grace")
  /\ IF sup.phase = "Stopping"
     THEN /\ sup' = [Lapses("grace") EXCEPT !.timers = @ \ {"livenessPoll", "stableWindow"}]
          /\ Sigkill(sup.child)
          /\ agents' = Reap(sup.gen)
     ELSE sup' = Lapses("grace") /\ UNCHANGED <<procVars, agents>>
  /\ UNCHANGED <<main, boots, rec, last, row>>

BackoffElapsed ==
  /\ Due("backoff")
  /\ IF sup.phase = "Backoff"
     THEN Launch(Lapses("backoff"), row)
     ELSE sup' = Lapses("backoff") /\ UNCHANGED <<last, row, bot>>
  /\ UNCHANGED <<main, boots, rec, signalled, exits, agents>>

\* An exit is delivered. It is charged to the current generation, and taken for
\* expected if the service expects one by now.
ExitObserved(g) ==
  /\ Idle /\ g \in exits
  /\ exits' = exits \ {g}
  /\ LET quiet == [sup EXCEPT !.expectedStop = FALSE,
                     !.timers = @ \ {"grace", "livenessPoll", "stableWindow"}]
     IN \/ /\ sup.phase \in {"Starting", "Running"} /\ sup.expectedStop
           /\ sup' = [quiet EXCEPT !.phase = "Stopped",
                        !.timers = IF sup.phase = "Starting"
                                   THEN (sup.timers \cap {"grace", "backoff"})
                                   ELSE @]
           /\ row' = Finalize(sup.gen, "stopped")
           /\ UNCHANGED <<last, bot>>
        \/ /\ sup.phase \in {"Starting", "Running"} /\ ~sup.expectedStop
           /\ sup' = Crashed(sup)
           /\ row' = Finalize(sup.gen, CrashStatus(sup))
           /\ UNCHANGED <<last, bot>>
        \/ /\ sup.phase = "Stopping" /\ sup.expectedStop /\ sup.pendingRestart
           /\ Launch(Restarted(quiet), Finalize(sup.gen, "stopped"))
        \/ /\ sup.phase = "Stopping" /\ sup.expectedStop /\ ~sup.pendingRestart
           /\ sup' = [quiet EXCEPT !.phase = "Stopped"]
           /\ row' = Finalize(sup.gen, "stopped")
           /\ UNCHANGED <<last, bot>>
        \/ /\ sup.phase = "Stopping" /\ ~sup.expectedStop
           /\ sup' = [quiet EXCEPT !.recent = @ + 1,
                        !.phase = IF CrashStatus(sup) = "failed" THEN "Failed" ELSE "Stopped"]
           /\ row' = Finalize(sup.gen, CrashStatus(sup))
           /\ UNCHANGED <<last, bot>>
        \/ /\ sup.phase \in {"Stopped", "Backoff", "Failed"}
           /\ UNCHANGED <<sup, last, row, bot>>
  /\ agents' = IF sup.phase \in {"Starting", "Running", "Stopping"}
               THEN Reap(sup.gen) ELSE agents
  /\ UNCHANGED <<main, boots, rec, signalled>>

\* An exit of the history leaves the crash-loop window.
WindowPasses ==
  /\ sup.recent > 0
  /\ sup' = [sup EXCEPT !.recent = @ - 1]
  /\ UNCHANGED <<main, boots, rec, last, row, procVars, agents>>

-----------------------------------------------------------------------------
(***************************************************************************)
(* The bot process.                                                        *)
(***************************************************************************)

\* onModuleInit() refuses a finalized generation; then the handlers are set.
BotInit(g) ==
  /\ bot[g] = "booting"
  /\ IF IsOpen(g)
     THEN bot' = [bot EXCEPT ![g] = "connecting"] /\ UNCHANGED exits
     ELSE Dies(g)
  /\ UNCHANGED <<main, boots, sup, rec, last, row, signalled, agents>>

\* Discord is ready: markRunning(); if the row has moved on the bot ends itself.
BotReady(g) ==
  /\ bot[g] = "connecting"
  /\ g \in rec.todo /\ g \notin rec.known => "boot_ready" \in faults
  /\ IF MayMarkRunning(g)
     THEN /\ row' = [row EXCEPT ![g] = [status |-> "running", pid |-> TRUE]]
          /\ bot' = [bot EXCEPT ![g] = "serving"]
          /\ UNCHANGED signalled
     ELSE /\ signalled' = signalled \cup {g}
          /\ g \notin signalled
          /\ UNCHANGED <<row, bot>>
  /\ UNCHANGED <<main, boots, sup, rec, last, exits, agents>>

\* The SIGTERM handler: teardown, then finalize. Agents are only asked to leave.
BotShutdown(g) ==
  /\ g \in signalled /\ bot[g] \in {"connecting", "serving"}
  /\ bot' = [bot EXCEPT ![g] = "closing"]
  /\ signalled' = signalled \ {g}
  /\ row' = Finalize(g, "stopped")
  /\ UNCHANGED <<main, boots, sup, rec, last, exits, agents>>

\* app.close() or the forced exit after 8 s.
BotExits(g) ==
  /\ bot[g] = "closing" /\ Dies(g)
  /\ UNCHANGED <<main, boots, sup, rec, last, row, signalled, agents>>

BotCrashes(g) ==
  /\ bot[g] \in Living \ {"closing"} /\ Dies(g)
  /\ UNCHANGED <<main, boots, sup, rec, last, row, signalled, agents>>

\* A turn starts an agent, recorded in the same callback.
AgentStarts(g) ==
  /\ bot[g] = "serving" /\ agents[g] = "none"
  /\ agents' = [agents EXCEPT ![g] = "young"]
  /\ UNCHANGED <<main, boots, sup, rec, last, row, procVars>>

AgentEnds(g) ==
  /\ agents[g] # "none"
  /\ agents' = [agents EXCEPT ![g] = "none"]
  /\ UNCHANGED <<main, boots, sup, rec, last, row, procVars>>

AgentAges(g) ==
  /\ "old_agent" \in faults /\ agents[g] = "young"
  /\ agents' = [agents EXCEPT ![g] = "old"]
  /\ UNCHANGED <<main, boots, sup, rec, last, row, procVars>>

-----------------------------------------------------------------------------
MainNext ==
  \/ MainBoot \/ StartRequested \/ MainCloses \/ MainDies
  \/ RequestRestart \/ LivenessPoll \/ StableWindowElapsed \/ StartTimeout
  \/ GraceTimeout \/ BackoffElapsed \/ WindowPasses
  \/ \E g \in Gens : \/ ReconcileCheck(g) \/ ReconcileIdentify(g)
                     \/ ReconcileKill(g) \/ ExitObserved(g)

BotNext ==
  \E g \in Gens : \/ BotInit(g) \/ BotReady(g) \/ BotShutdown(g) \/ BotExits(g)
                  \/ BotCrashes(g) \/ AgentStarts(g) \/ AgentEnds(g) \/ AgentAges(g)

Next == UNCHANGED faults /\ (MainNext \/ BotNext)

Spec == Init /\ [][Next]_<<faults, vars>>

\* Spawns work or throw; nothing else goes wrong with the operating system, and
\* nobody restarts the bot during the reconciliation of a boot.
Calm == faults \subseteq {"spawn_throws"}

\* Node timers fire, exits are delivered, reconciliation runs on, a closing bot
\* exits. Nothing is assumed of users, of Discord, or of a bot's event loop; nor
\* of the environments that are not calm, of which nothing is claimed to happen.
FairSpec ==
  /\ Spec
  /\ WF_vars(Calm /\ GraceTimeout) /\ WF_vars(Calm /\ StartTimeout)
  /\ WF_vars(Calm /\ BackoffElapsed) /\ WF_vars(Calm /\ LivenessPoll)
  /\ WF_vars(Calm /\ StartRequested)
  /\ \A g \in Gens :
       /\ WF_vars(Calm /\ ExitObserved(g)) /\ WF_vars(Calm /\ BotExits(g))
       /\ WF_vars(Calm /\ (ReconcileCheck(g) \/ ReconcileIdentify(g) \/ ReconcileKill(g)))

-----------------------------------------------------------------------------
(***************************************************************************)
(* What must hold.                                                         *)
(***************************************************************************)

\* The variables have their types.
TypeOK ==
  /\ main \in {"down", "up", "closing"}
  /\ boots \in 0..MaxBoots
  /\ sup \in [phase : Phases, expectedStop : BOOLEAN, pendingRestart : BOOLEAN,
              recent : Nat, child : 0..MaxGenerations, gen : 0..MaxGenerations,
              timers : SUBSET Timers, since : 0..MaxGenerations]
  /\ rec \in [at : {"done", "check", "identify", "kill"},
              todo : SUBSET Gens, known : SUBSET Gens]
  /\ last \in 0..MaxGenerations
  /\ row \in [Gens -> [status : {"none"} \cup Open \cup Ended, pid : BOOLEAN]]
  /\ bot \in [Gens -> {"none", "absent", "dead"} \cup Living]
  /\ signalled \subseteq Gens
  /\ exits \subseteq Gens
  /\ agents \in [Gens -> {"none", "young", "old"}]

Supervising == main = "up" /\ rec.at = "done"
AtRestPhase == sup.phase \in {"Stopped", "Backoff", "Failed"}

\* The rows follow the machine: past reconciliation the only row that may be open is
\* the current generation's, and at rest none is, nor is the last child alive.
\* Rows are written by both processes, at boot, on exits and on timeouts.
RowsFollowPhase ==
  Supervising =>
    /\ \A g \in Gens : IsOpen(g) => g = sup.gen /\ ~AtRestPhase
    /\ AtRestPhase /\ sup.child # 0 => bot[sup.child] \notin Living

\* Two bots never serve Discord at once, whatever crashed and was started again.
OneServingBot == Cardinality({g \in Gens : bot[g] = "serving"}) <= 1

\* Past reconciliation a live bot is the supervised child, or has a finalized row and
\* will leave by itself before it serves (its init or its ready handler sees to it).
SupervisedOrLeaving ==
  Supervising =>
    \A g \in Gens : bot[g] \in Living =>
      \/ g = sup.child /\ g = sup.gen /\ ~AtRestPhase
      \/ ~IsOpen(g) /\ bot[g] # "serving"

\* The rows always agree with the machine. A bot is the supervised one or about to
\* leave if `ps` tells of a bot's life and no bot becomes ready while its row is being
\* reconciled; then two never serve, unless a restart comes during a reconciliation.
RowsAndBotsAgree ==
  /\ RowsFollowPhase
  /\ faults \cap {"ps_fails", "boot_ready"} = {} =>
       /\ SupervisedOrLeaving
       /\ "boot_restart" \notin faults => OneServingBot

\* An exit handled by the supervisor is that of the current generation, since it
\* finalizes and reaps that one.
ExitIsCurrent == \A g \in exits : g = sup.gen /\ g = sup.child /\ ~AtRestPhase

\* At rest no agent of the generations this server ran is left behind.
OwnAgentsReaped ==
  Supervising /\ AtRestPhase =>
    \A g \in Gens : g > sup.since => agents[g] # "young"

\* A restart an operator asked for is not taken for a plain stop: as long as it is
\* pending the next exit is expected, whoever else terminates the bot.
RestartIntentKept == sup.pendingRestart => sup.phase = "Stopping" /\ sup.expectedStop

\* The console shows a bot online only if its process lives or its exit is on the way.
OnlineIsTrue ==
  Supervising =>
    \A g \in Gens : row[g].status = "running" => bot[g] \in Living \/ g \in exits

\* At rest no agent of the generations this server ran is left behind, and the
\* console shows a bot online only if its process lives or has just ended.
NothingIsLeftBehind == OwnAgentsReaped /\ OnlineIsTrue

\* Stopping ends, also if the bot ignores SIGTERM: an operator is never left with a
\* supervisor that rejects every restart. (A bot that failed to spawn without an exit
\* would keep it there.)
StopsEnd ==
  (Calm /\ main = "up" /\ sup.phase = "Stopping") ~> (main # "up" \/ sup.phase # "Stopping")

-----------------------------------------------------------------------------
(***************************************************************************)
(* Statements of the repository that the code does not keep.               *)
(***************************************************************************)

\* "Never two live bots": no bot is spawned while an earlier one lives.
OneLiveBot == Cardinality({g \in Gens : bot[g] \in Living}) <= 1

\* "Reaping a confirmed survivor is SIGTERM, SIGKILL, reap its claude_process PGIDs":
\* once a replacement is spawned no agent of an earlier bot runs.
SurvivorsReaped ==
  Supervising /\ sup.phase = "Running" => \A g \in Gens : g < sup.gen => agents[g] = "none"

\* "On its own shutdown, stop the bot": the closing server spawns none.
NoSpawnWhileClosing == [][main = "closing" => last' = last]_vars

\* "Starting + startTimeout -> Backoff": a bot stopped for its start deadline is
\* started again, unless it crash-loops. (Without a pending restart only the deadline
\* leads to Stopping.)
TimeoutIsRetried ==
  [][main = "up" /\ sup.phase = "Stopping" /\ ~sup.pendingRestart /\ sup'.phase # "Stopping"
       => main' # "up" \/ sup'.phase \in {"Backoff", "Failed"}]_vars

\* "Bring the bot back, resetting crash-loop accounting".
ManualStartForgives ==
  [][main = "up" /\ main' = "up" /\ sup.phase = "Failed" /\ sup'.phase = "Starting"
       => sup'.recent = 0]_vars
=============================================================================
