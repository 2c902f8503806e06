# Verification of lilnas

TLA+ models of the stateful parts of this monorepo, the TLC runs that check
them on small instances, and machine-checked proofs (TLAPS) of what holds for
every instance. The models are written from the code in `src/`; module headers
name the files, and `PROJECT.json` maps every definition to its lines.

1. [The system](#1-the-system)
2. [The modules](#2-the-modules)
3. [How the models follow the code](#3-how-the-models-follow-the-code)
4. [What is checked](#4-what-is-checked)
5. [What is proved](#5-what-is-proved)
6. [Where the repository says otherwise](#6-where-the-repository-says-otherwise)
7. [What is not modelled](#7-what-is-not-modelled)
8. [Plan](#8-plan)

## 1. The system

`lilnas` is a monorepo of home-server applications. Many of them are thin web
front ends over other people's services. What they have of logic of their own:

| Part | State it keeps | Operations | What makes it hard |
|---|---|---|---|
| **tdr-code bot: agent sessions** (`apps/tdr-code/src/agent`) | sessions map, pending creations, killed plan approvals, timers; one process-wide git write lock; per-turn identity directories; `sessions` and `live_status` rows | `prompt`, Stop, `/clear`, Accept/Reject, idle and plan timeouts, eviction, agent exit, teardown command, shutdown | every operation awaits; handlers interleave at each await; two keys (channel, turn) for one thing; four ways to give up one lock |
| **tdr-code main server: supervisor** (`supervisor/`) | FSM phase, attempts, exit history, five timers, the child process, `bot_generation` rows | start, restart, child exit, timeouts, heartbeat poll, reconciliation at boot | timers against late events; a spawn that fails inside a transition; rows shared with the child |
| tdr-code command queue (`commands/`, `console/`, `db/`) | `commands` rows, the configuration row, `live_status`, generation scope | enqueue, edit, claim, dispatch, teardown | at most once across a crash; restart into a new generation; two generations at once |
| tdr-code Discord output (`discord/`) | per-channel buffers, working message, image chain, turn watermark | text and image events, flush, finalize, clear | asynchronous sends between reading and replacing state |
| tdr-code live updates (`sse/`, `notify-emitter`, `use-live-stream`) | coalescing windows, subscribers, throttles, watermarks, page caches | notify, fan out, fallback ticks, refetch | lossy notifications with a coarse backstop |
| tdr-code log tail (`logging/log-tail.service.ts`) | offset, inode, handle, partial line of a connection | backlog, change, truncation, rotation, teardown | asynchronous reads of a file that changes |
| download scheduler, yt-dlp updater (`apps/download`) | queue, in-progress set, job map; binary, backup and temp file | add, delete, phases; check, install, roll back, retry | un-awaited recursion; flags tested before an await |
| download media jobs (`apps/download/src/media`) | job map, backoff | request, delete, poll | answers of two services that arrive late |
| auth (`apps/auth`) | grants, pre-authorizations, blocks and requests, and their caches; the pending page | verify, grant, block, request, decide, restart | cache against database; events that are lost |
| swole (`apps/swole`) | set logs, progressions, what each tab shows | log, undo, finish, complete | several tabs, lost answers, optimistic pages |
| tdr-bot reminders (`apps/tdr-bot/src/reminders`) | `reminders` rows, timers, cron jobs | create, cancel, deliver, reload at start | a row and a timer for one thing |
| tdr-bot media (`media/`, `media-operations/`, `message-handler/context`) | one question per user; Radarr's and Sonarr's library; circuit breakers | search, choose, download, delete | partial failures of several calls; eventual consistency; a conversation across messages |

**How they interact.** The tdr-code *main server* spawns the *bot* process and
supervises it through a child handle, a `bot_generation` row and heartbeats.
The console writes `commands` rows that the bot polls, and reads the `sessions`,
`turns` and `live_status` rows the bot writes; an IPC message per write makes
the main server's SSE hub signal browsers. Inside the bot, Discord handlers
call `SessionManagerService`; it drives an agent child process per channel over
ACP, calls the output handlers (Discord and SQLite) synchronously, and puts
every turn of every channel behind one `GitWriteLock`, under which
`GitTurnContext` installs the triggering user's git identity. The download
service and tdr-bot drive Radarr and Sonarr, each on its own. The auth service
answers the proxy in front of all applications.

**What makes each part correct.**

* *Lock and turn context*: one writing turn at a time, first come first served;
  nobody stranded in the queue; commits under the right user.
* *Session manager*: a queued message is run; Stop and `/clear` are final; no
  agent process, open row or open transcript outlives its session; every turn
  ends; the console shows the session there is.
* *Supervisor*: at most one bot serves; a row ends once; a crashed bot comes
  back unless it crash-loops; a requested restart happens; no agent is left
  behind; stopping ends.
* *Command queue*: a command runs at most once, at the generation it was meant
  for; the configuration edited last is the one in force.
* *Discord output*: everything said is shown, once, in order. *Live updates*:
  every change is eventually shown. *Log tail*: each line once, whole, in order.
* *Downloads*: at most `MAX_DOWNLOADS` at a time, none idle while a job waits;
  a job ends only when its title has left the queue, and stays ended. *Updater*:
  between updates a binary that runs, or, if a rollback failed, its backup.
* *Auth*: the caches agree with the database after every mutation; who asked for
  a registered host and is told to wait is in the admin's queue; a decision
  reaches the page.
* *Swole*: the log is a workout that could have been done in one tab, and the
  next starting weights follow from it. *Reminders*: posted in time and in
  one delivery, unless cancelled. *Media*: a success leaves undone only what a
  failed call was about; only what was asked for is touched; one request acts
  once.

`PROJECT.json` lists every component with its status, and every hazard with the
line where it bites and the properties about it.

## 2. The modules

State machines, each with its type invariant, properties and (where liveness is
checked) `FairSpec`:

| Module | Code | Models |
|---|---|---|
| `GitWriteLock`, `GitTurnContext` | `agent/git-write-lock.ts`, `agent/git-turn-context.ts` | the lock and the turn context as records, their methods as operators |
| `SessionManager` | `agent/session-manager.service.ts`, `/clear`, the poller's teardown, shutdown, the row writers it calls | sessions, turns, lock, plan gates, live rows |
| `TurnExclusion`, `SessionTurns` | | the abstract lock, and the mapping by which `SessionManager` implements it |
| `Supervisor` | `supervisor/*`, `bot-bootstrap.ts`, `bot-lifecycle.service.ts`, `bot-generation.repo.ts` | the machine, its service and the bot process as the rows see it, over several boots of the main server |
| `CommandQueue` | `commands/`, `console/config.service.ts`, `lifecycle.controller.ts`, `db/command.repo.ts`, `db/live-status.repo.ts` | console, database and successive generations |
| `DiscordOutput` | `discord/discord-handler.service.ts` | one channel, one action per request to Discord |
| `LiveUpdates` | `sse/sse-hub.service.ts`, `notify-emitter.service.ts`, `use-live-stream.ts` | a change on its way to a page |
| `LogTail` | `logging/log-tail.service.ts` | one connection and the file it follows |
| `DownloadScheduler` | `download/*.service.ts` of `apps/download` | jobs, slots, phases, child processes, cancellation |
| `LinkedQueue`, `FifoQueue` | `packages/utils/src/queue.ts` | the linked list, and the queue of values it implements |
| `UpdateFlag`, `YtdlpUpdate` | `ytdlp-update/` | where each check is and the flag `isUpdating`; updates over three files, rollback, retries |
| `JobStatus`, `MediaJobs` | `media/` of `apps/download` | what is promised of a job's status; jobs, requests, deletions, polls, and Radarr/Sonarr |
| `AuthAccess` | `access-cache`, `verify`, `requests`, `users`, `service-registry` services, `pending-client.tsx` | database, caches, admin and page; whether the registry lists a host |
| `Workout` | `SessionRunner.tsx`, `session-machine.ts`, `CompleteRunner.tsx`, `db/setLogs.ts`, `db/progressions.ts`, `db/sessions.ts` | tabs, calls under way, transactions |
| `ReminderTable`, `Reminders` | `reminders/` | rows, timers, queue and what is promised of them; the steps: creation, delivery with its attempts, hops of a timer, cron jobs, cancellation, crashes |
| `WantedEpisodes`, `SeriesLibrary`, `MovieLibrary` | `media/services/sonarr.service.ts`, `radarr.service.ts` | which episodes a selection is about and what an operation may take from them; the calls of one download or deletion, each of which may fail, and the library they act on |
| `MediaRequests` | `messages/llm`, `media-operations/request-handling`, `context-management.service.ts` | one user's conversation, the slot with the bot's question, what it leads to |
| `CircuitBreaker` | `utils/retry.service.ts` | one breaker and overlapping calls |

MC modules compose state machines for TLC. Parts that share no state are
checked in one run: a behaviour belongs to one *part*, chosen at the start,
while the other variables stay put. The one whose properties are also proved is
extended, so that a run and a theorem speak of the same definition; the others
are instantiated. Where that would be too much in one module, the variables and
promises stand in a small module of their own (`UpdateFlag`, `JobStatus`,
`ReminderTable`, `WantedEpisodes`), which the state machine, the run and the
proofs all extend. `MCAccess` extends `AuthAccess` and confines it in each part.

| MC module | Parts |
|---|---|
| `MCSessionManager` | finite sets and symmetry for `SessionTurns` |
| `MCViews` | `pages`; `polled` and `watched` log tails |
| `MCDownload` | `jobs` with and `calm` without cancellation; `update`; `retry`; `list` (the linked queue); `breaker` |
| `MCMedia` | `shared` (two jobs, one movie), `both` (a movie and then a show, whose downloads do not fail; nothing is taken out of a queue), `jobs` (deletion, overlapping polls); `series`, `movies`; `chat` |
| `MCAccess` | `cache`; `page` |
| `MCApps` | `reminders`, `overlap`; `weights`, `plain`; `replies`, `cleared` |

Proof modules: `SessionManagerProofs` (the lock's methods, types, and that the
lock is served), `SessionTurnsProofs` (everything else about sessions and
turns, and the refinement of `TurnExclusion`), `SupervisorProofs`,
`CommandQueueProofs`, `LiveUpdatesProofs`, `DownloadProofs` (scheduler, updater,
media jobs), `AuthAccessProofs`, `TdrBotProofs` (conversation, reminders,
series).

Two abstract specifications are implemented: `TurnExclusion` (who has the
workspace, and that of those who wait for it the one that asked first gets it
next; turns are numbered in the order they ask) by the turns of
`SessionManager`, until the service closes; `FifoQueue` (values leave in the order they came,
`delete` takes the oldest occurrence) by the nodes and links of `LinkedQueue`.

## 3. How the models follow the code

### Atomicity

Every process here is one Node.js event loop, so an action is what runs between
two awaits: a handler up to its first await, or the continuation behind one.
SQLite is synchronous (`better-sqlite3`) in tdr-code, auth and swole: a handler
that only uses it is one action. In tdr-bot's reminders a database call is an
await, and its effect and the continuation are two steps. Requests to Discord,
Radarr, Sonarr, the file system and a child process are always awaits, and
whatever else the program may do happens meanwhile. Two processes (main server
and bot, browser and server) share rows or messages only.

The session manager needs a finer rule, since continuations run before the next
event. There are three kinds of action, and the model keeps their order:

* a *callback* (message, button, timer, process event, settled ACP request) is
  an action guarded by `AtRest`;
* a *continuation* of a settled promise runs before the next callback:
  `RunCaller` (behind `await getOrCreate()`) and `RunWaiter` (behind
  `await acquire()`), guarded by `span = <<>>`. `begin()` is declared `async`
  but awaits nothing, so `RunWaiter` covers it and the line after it;
* a *loop* inside one callback (eviction, a poll tick, shutdown) is a `span` of
  steps that nothing interleaves. It is split into steps only because each round
  changes the same maps.

The lock record holds the promises it has settled but whose continuations have
not run (`settled`): a teardown later in the same callback can revoke a grant
its waiter has not noticed.

### State of the session manager

| Variable | Code |
|---|---|
| `git.lock` | `globalGitWriteLock`: holder, queue, and pending continuations |
| `git.activeTurns`, `git.identity` | keys of `activeTurns`; the tmpfs identity directory of each channel |
| `sessions`, `recency`, `obj` | the `sessions` map; its objects by `lastActivity`; every `ManagedSession` ever made, since closures keep them alive |
| `turns` | `executePrompt()` frames |
| `pending`, `callers` | `pendingSessions`; `prompt()` frames whose awaited creation has resolved |
| `openTurn` | `SqliteWriter`'s open turn per channel |
| `live` | `live_status` rows; `obj[s].row`, `.acp` stand for `sessions` rows |
| `killed`, `gates` | `killedPlanApprovals`; the plan approvals ever presented |
| `epoch` | history: how often `/clear` wiped the channel; a session object carries the epoch of the conversation it remembers |
| `span`, `shutdown`, `sent` | the running loop; `shutdownRequested`; a bound |

### State of the others

* `Supervisor`: `main` and `boots` (the main server and how often it started),
  `sup` (the service's fields: phase, generation, attempts, `expectedStop`,
  `pendingRestart`, timers), the rows, the processes, their agents, and `rec`,
  the frame of `reconcileOnBoot()`. The effects a transition returns run in the
  same callback, so they are part of its action.
* `CommandQueue`: rows as a sequence in the order of their ids; the life of a
  generation is `Supervisor`'s, reduced to the steps that matter here.
* `DiscordOutput`: what the agent says is numbered, and `messages` holds which
  numbers were posted. `ChannelState` objects are kept after `/clear` drops
  them, because frames still refer to them.
* `LiveUpdates`: signals carry no data, so those that wait at one place are one.
* `LogTail`: a byte is its file, era and position, so a line that is cut,
  repeated or skipped is seen as such.
* `DownloadScheduler`: `waiter` is who listens to the `close` event of a job's
  process; that is what cancellation replaces. The error of a child ends the
  service (section 6), so that the jobs are forgotten: that action is its restart.
* `YtdlpUpdate`: a file holds a release number, `Broken` while it is written,
  or `Nothing`. `move()` with `overwrite` first removes its destination, then
  renames, or copies and removes its source: it is two steps, and one that fails
  may leave at the destination nothing, a part or all of the file (`HalfMoved`).
* `MediaJobs`: a title's queue item is imported, fails or is removed by whoever
  may remove it, Radarr or Sonarr themselves, their pages or tdr-bot. `taken` is
  history: the jobs whose title left the queue with nothing imported.
* `AuthAccess`: database tables and cache maps side by side; `due` and `check`
  are the page's need to check again and its calls in flight. A call whose host
  the registry does not list, whether no compose file names it or a scan failed,
  is answered "pending" without looking at a row: `check` is "unheard" then.
* `Reminders`: `sent` counts what Discord has posted, `unacked` the posts whose
  attempt ended in an error all the same, `tries` the attempts of the delivery
  under way. The retries of one kind of message and those of the plain message
  it falls back to are one sequence of at most `MaxAttempts`.
* `Workout`: a tab holds the page it last rendered and the call under way, a
  request or its answer. Weights are numbers of increments.
* `SeriesLibrary`, `MovieLibrary`: `op` is the frame of an operation; a call is
  what `executeWithRetry()` makes of it: it succeeds, is *refused* without an
  effect, or its answer is *lost* after its effect. What Sonarr is read to say
  may lag behind its writes (`seen`). `undone` of an operation is history: the
  episodes a failed call was about whose error is only logged.
* `MediaRequests`: the language model and the services answer anything the code
  tells apart.

Texts, titles, wording, logs, metrics, heartbeats that only a display reads,
and the lengths of timers are abstracted everywhere; a timer may fire at any
time after it was set, unless its length is what a property is about
(`Reminders`).

### What the environment may do: `Races` and `Faults`

Orders of events that are possible and that defeat a property are named, each
in its module's header, and guarded by a constant. The passing runs say in this
way under which assumption a property holds, and adding a name to the constant
shows what happens without it (section 6).

| Module | Names |
|---|---|
| `SessionManager` | `late_settle`: a killed agent's `prompt()` rejects only after the channel's next session is installed. `die_parked`: an agent dies of itself while its turn waits for the lock. `same_tick`: one poll tick tears down several channels. `join_image`: a message joins a creation begun by an image-only one |
| `Supervisor` (`Environments`) | `spawn_throws`, `spawn_error`, `boot_restart`, `boot_ready`, `ps_fails`, `old_agent`. A behaviour has one of the sets of faults in `Environments`, kept in `faults`: in the run the *calm* one, where spawns work or throw, and one with all the others |
| `CommandQueue` | `early_signal`: an edit looks for a running bot while one that has read the old configuration connects. `dispatch_throws` |
| `LiveUpdates` | `first_fetch`, `short_lapse`; and `Lossy`, the topics whose notification may be lost |
| `LogTail` | `overlap`, `rotate_open`, `regrow` |
| `DiscordOutput` | `flush_overlap`, `image_overlap`, `image_at_end`, `image_at_clear`, `slow_final` |
| `YtdlpUpdate` (`Faults`) | `step_fails`, `rollback_fails` and `leftovers` occur in both parts of the run, `late_download` and `stream_breaks` (the body of the download breaks off) in `retry`; `overlap` and `copy_fails` do not |
| `Reminders` | `sends` (an attempt fails) occurs in the run, `answers` (an attempt posts its message and fails all the same) in its part `reminders`, `cancels` in its part `overlap`; `creates` and `deletes` do not |
| `Workout` | `stale_undo`, `lost_undo`, `early_finish`, `late_append` |
| `SeriesLibrary`, `MovieLibrary` | `overlap`, `midway`, `slow_listing`, `late_monitor`; `Faults` of a call always occur |
| `MediaRequests` | `overlap`, `expires_midway` |

`AuthAccess` has booleans instead (`Revokes`, `RepeatedHosts`, `Restarts`;
revocations and restarts occur in the run) and `Unlisted`, the hosts the registry
may not list when it is asked (in the run, the host of the page), and
so have `DownloadScheduler` (`Cancels`), `MediaJobs` (`Deletes`) and
`LinkedQueue` (`LastDeletes`).

## 4. What is checked

Every run is exhaustive over its instance. `sessions_*` and `turns_end` are
`MCSessionManager`; a property conjoins the statements named with it, which are
defined and commented in the component's module.

| Run | Instance | Shows |
|---|---|---|
| `sessions_lock` | 2 channels, 2 slots, 3 messages (text or image), 1 `/clear` each | `MutualExclusion`, `NoStrandedWaiter`; `WaitingIsWoken`: a message behind a turn or the lock has something that will run it; `ClearAndStopAreFinal`; `TypeOK` |
| `sessions_plans` | 2 channels, 1 slot, 2 users, 3 messages, 1 plan approval, failing INSERTs and identity set-up | `AttributionFollowsTurn`: identity and transcript are the turn's; `ViewsFollowSession`: live row and plan gate are the session's |
| `sessions_eviction` | 3 channels, 2 slots, 4 messages | `NothingOutlivesItsSession`: lock and agent processes; `TurnsExclude`: the refinement of `TurnExclusion` |
| `turns_end` | 2 channels, 3 messages, 1 plan approval, fair | `TurnsEnd` |
| `supervisor` | 3 generations, 2 boots, threshold 2, calm and faulty | `ExitIsCurrent`, `RestartIntentKept`, `NothingIsLeftBehind` under all faults; `RowsAndBotsAgree`: rows follow the phase under all faults, and without the faults it names live bots are supervised or leaving, and never two serve; when calm and fair, `StopsEnd` |
| `commands` | 1 channel, 2 generations, 2 requests, 2 edits, fair | `RunsOnceAtItsBot`; `BothSidesAreCurrent`: live rows are the newest bot's, a stale bot is about to be told; `CommandsSettle` |
| `views` | 1 change, 1 broken stream, `session` and `bot-status` lossy; a file of 3 bytes, 1 truncation, 1 rotation (polled), fair | `PagesAreServed`: a page that is behind has a pull, signal, poll or reconnect under way; `LinesAreSent`; `ViewsCatchUp` |
| `download` | 4 jobs, 2 slots, cancellations; 2 checks, 3 releases, 2 retries; 3 nodes, 2 values; 2 calls, threshold 3; fair | `SlotsAreKept`, `JobsMoveOn`, `UpdateIsExclusive`; `FailuresAreUndone`: a binary that runs, or its backup, and retries that end, though steps, rollbacks and clean-ups fail; `IsAQueue` (the refinement of `FifoQueue`), `BreakerHeals` |
| `media` | 2 jobs for 1 movie, a movie and then a show, 1 job with 2 polls and deletions; 2 operations on a series of 2 seasons and a special (3 selections) or on a movie, 1 failing call; 3 messages, lists of 1 or 2 titles; fair | `StatusFollowsQueue`: a completed job's title was imported or taken out of the queue, and no status goes back; `QueueEndIsNoticed`, with the types of every part; `DoneButForFailures`: what a success leaves undone is what a failed call was about; `OnlyWhatWasAsked`; `QuestionIsRemembered`, `ActsOnce` |
| `access` | 1 user, 2 hosts with an admin, batches of up to 2 changes and restarts; 1 host, 2 requests, 2 overlapping checks, fair | `CacheIsDb`; `PendingIsQueued`; `DecisionReachesPage`: grants and rejections, and a page that waits unheard gets into the queue |
| `apps` | 2 reminders, 2 crashes, clock 3, 2 attempts; 2 tabs, 3 sets, 1 undo, 1 lost answer (2 and 2 with one weighted exercise); 2 turns, 3 items, 1 `/clear` | `DeliveriesAreDue`; `NoneIsForgotten`: a reminder that is due is dealt with, with the types, and silence after `cancel()`; `WorkoutIsRecorded`; `SaidIsShown` |
| `cancel_keeps_slot` | 2 jobs, 1 slot, cancellations, fair | violated: `QueuedStarts` (section 6) |

Every property of a passing run has a mutant in `PROJECT.json`: a change to one
definition, of the kind a slip in the code would be, under which TLC finds the
property violated. The mutated definitions stand before the ones they replace,
marked `(mutant of ...)`; nothing else uses them.

### Bounds, and why they are enough

* *Session manager.* `MaxMessages` bounds sessions and turns at once, since each
  is started by a message. Three suffice for a holder, a waiter and a follow-up
  queued behind either, or for a session, its successor and a contender; the
  fourth, with three channels, puts two waiters behind one holder and makes the
  LRU choice a choice. One plan approval or one `/clear` per channel meets every
  stage of the channel's life.
  Users matter only where identities are compared.
* *Supervisor.* Three generations are a bot, its replacement, and one more to
  confuse them with; two boots, a survivor and its finder; threshold 2 tells
  backing off from giving up. *Commands*: two generations overlap; a third
  relates to the second as the second to the first, and the proofs of section 5
  cover any number.
* *Views.* One change suffices because a signal carries no data; one broken
  stream leaves a page both behind and reconnecting. Three bytes are a line and
  a half, so a partial line exists at every cut.
* *Downloads.* Four jobs and two slots: two run, two wait. A retry chain of
  `MaxRetries` = 2 has a first, a middle and a last link. Three nodes give a
  middle to delete; two values give duplicates. Two calls overlap; threshold 3
  separates one failure, several and enough.
* *Media.* Two jobs share a title; two polls are one overtaken by another. Two
  operations, one after the other, let a deletion follow a download whose call
  failed, and the other way round; a selection names a season, or episodes of
  two seasons, or nothing. One failing call in a pair reaches each call of each
  operation. Three messages are a request, its choice, and something else.
* *Access.* One user: rows, caches and pages of different users never meet. Two
  hosts, because a batch changes several.
* *Apps.* Two one-time or recurring reminders compete for the limit and the
  delivery queue; the clock allows one hop of a long timer. Two attempts are one
  that fails and one more (the code makes three, and three more of the plain
  message after a search, an image or an equation; the proof covers any number).
  Two tabs, two
  exercises, one of them with two sets: a middle, a last set, and a change of
  exercise. Two turns, so that a late message of the first meets the second.

*Deadlock* is not checked (`CHECK_DEADLOCK FALSE`): with every bound used up
these systems rightly wait for ever. That nothing waits which should not is
what the liveness properties, `NoStrandedWaiter` and `WaitingIsWoken` say.

### Fairness, and what justifies it

Nothing is assumed of users, admins, or other programs' failures. Weakly fair
are:

* continuations and loops of an event loop (`RunCaller`, `RunWaiter`, the steps
  of a `span`, `SignalReread`, the steps of a check, of a pipeline, of a tail);
* Node timers and cron ticks (`PlanTimeout`, `GraceTimeout`, `StartTimeout`,
  `BackoffElapsed`, `LivenessPoll`, `FallbackTick`, `StalenessTick`,
  `WindowEnds`, `RetryFires`, `Tick`, `ResetTimeout`, `CommandQueue.Poll`);
* answers of processes and services, because each has a deadline or a pipe that
  closes: `AgentAnswers` (an ACP request settles also after the agent was
  killed; that an agent does not compute for ever is left to the user's Stop),
  `BotExits` (SIGKILL), `PollRead`, `End` of a call (its time limit);
* what a browser does of itself: reconnecting (`Subscribe`), its polls
  (`Poll`, `Recheck`), its queries (`Answer`, `Show`);
* `Restart` of tdr-bot, and calls through the breaker (`Start`): the container
  is restarted, and users keep asking.

Strongly fair are only `PollRead` and `PollApplies` of `MediaJobs`, and `Absorb`
of `AuthAccess`: a queue that is asked every five seconds answers again and
again, though it may fail in between, and the registry, read anew every 30
seconds, lists a host in one of the calls of a page that goes on asking.
`QueueEndIsNoticed` is false without the first, as it is in the code when Radarr
is down for good; `DecisionReachesPage` without the second, as it is in the code
for a host that no compose file names.

## 5. What is proved

For all values of the constants (channels, users, generations, jobs, caps,
bounds), under the named assumptions only:

| Theorem | Says |
|---|---|
| `SessionManagerProofs!TypeCorrect` | `Spec => []TypeOK`, whatever `Races` contains. No map, frame, waiter or row refers to an object or turn that does not exist |
| `SessionManagerProofs!NoWaiterStranded` | `Spec => []NoStrandedWaiter`, whatever `Races` contains |
| `SessionTurnsProofs!WaitersAreWoken` | `[]WaitingIsWoken`, whatever `Races` contains: a frame waits exactly where something will wake it, and a queued message has a running turn before it |
| `SessionTurnsProofs!AgentsAreNotLeaked`, `ClearIsFinal` | `[]NoLeakedAgent`, `[]ClearForgets`, whatever `Races` contains |
| `SessionTurnsProofs!ClearAndStopHold`, `GatesHaveOneOwner` | `[]ClearAndStopAreFinal`, `[]PlanGateHasOneOwner`, assuming no `late_settle` |
| `SessionTurnsProofs!ViewsAreTheSessions`, `TranscriptsAreTheTurns` | `[]ViewsFollowSession`, `[]TranscriptFollowsTurn`, assuming neither `late_settle` nor `join_image` |
| `SessionTurnsProofs!WritersAreExclusive`, `AttributionIsTheTurns`, `SessionsEndClean` | `[]MutualExclusion`, `[]AttributionFollowsTurn`, `[]NothingOutlivesItsSession`, assuming `Races = {}` |
| `SessionTurnsProofs!WorkspaceIsShared` | `Spec => TurnsExclude`, assuming `Races = {}`: the refinement of `TurnExclusion`, for any number of channels, slots, messages |
| `SupervisorProofs!TypeCorrect` | types, whatever the faults |
| `SupervisorProofs!ExitsAreCurrent` | `[]ExitIsCurrent`: an exit is booked to the process it belongs to |
| `SupervisorProofs!RestartIntentIsKept` | `[]RestartIntentKept`: a pending restart waits in Stopping for an exit that counts as expected |
| `SupervisorProofs!NothingLeftBehind` | `[]NothingIsLeftBehind`: agents and rows of dead bots |
| `SupervisorProofs!RowsAndBotsAlwaysAgree` | `[]RowsAndBotsAgree`: open rows and the phase, for all faults; supervised or leaving bots, without `ps_fails` and `boot_ready`; one serving bot, without `boot_restart` as well |
| `CommandQueueProofs!TypeCorrect` | types |
| `CommandQueueProofs!CommandsRunOnceAtTheirBot` | `[]RunsOnceAtItsBot`, whatever `Races` contains |
| `CommandQueueProofs!LiveRowsAreTheNewest` | a live row is never overwritten by an older generation |
| `CommandQueueProofs!BothSidesStayCurrent` | `[]BothSidesAreCurrent`, assuming `Races = {}` |
| `LiveUpdatesProofs!NoPageIsLeftBehind` | `[]PagesAreServed`, assuming `Races = {}` and that only `session` and `bot-status` are lossy |
| `DownloadProofs!TypeCorrect` | types |
| `DownloadProofs!SlotsStayKept` | `[]SlotsAreKept`, through failures, deletions and cancellations |
| `DownloadProofs!JobsStartInOrder` | first come first served, and a pipeline that waits is woken |
| `DownloadProofs!UpdatesExclude` | `[]UpdateIsExclusive`, without the fault `overlap` |
| `DownloadProofs!FailedUpdatesAreUndone` | `[]BinaryWorksAtRest`, `[][RollbackRestores]`, without `overlap` and `copy_fails`: also when downloads break off, clean-ups fail and rollbacks fail |
| `AuthAccessProofs!TypeCorrect` | types |
| `AuthAccessProofs!MapsFollowTheTables` | `[]CacheIsDb`, without `RepeatedHosts` |
| `AuthAccessProofs!OneRowIsPending` | `[]OnePending`: a pair's pending row is its latest and only one |
| `AuthAccessProofs!WhoWaitsIsQueued` | `PendingIsQueued`, whatever hosts are `Unlisted`: who is told to wait by a call that found the host listed is in the queue, granted, or had the grant taken away |
| `AuthAccessProofs!NobodyWaitsInVain` | `[][WaitIsQueued]`, without `Revokes` and with `Unlisted` empty: who is told to wait is in the queue or granted |
| `DownloadProofs!MediaTypeCorrect` | types of `MediaJobs`, whatever deletions and however many polls overlap |
| `DownloadProofs!CompletedJobsHaveLeft` | `[]CompletedHasLeft`, for any number of overlapping polls and with deletions: a completed job's title was imported, or taken out of the queue after the request |
| `DownloadProofs!StatusesFollowTheQueue` | `StatusFollowsQueue`, without `Deletes` and with one poll at a time: no status is followed by an earlier one either |
| `TdrBotProofs!RequestsActOnce` | `[]ActsOnce`, without `overlap` |
| `TdrBotProofs!QuestionsAreRemembered` | `[]QuestionIsRemembered`, assuming `Races = {}` |
| `TdrBotProofs!RemindersAreDue` | types and `DeliveriesAreDue`, assuming `Calm` (below): cancellations overlap anything, attempts fail or lose their answer, the process crashes |
| `TdrBotProofs!CancelledStaySilent` | `[][CancelledIsSilent]`, assuming `Calm` and no `cancels` |
| `TdrBotProofs!EpisodesStayWanted` | `OnlyWhatWasAsked`, assuming `Punctual` (below): for every series and selection, whichever calls fail, and with `midway` |

*Session manager.* The types need each other (the lock's waiters are turns,
turns are of sessions, sessions are indices into `obj`), and `NoStrandedWaiter`
needs the type of the queue; the conjunction, `TypeInv`, is inductive.
`SessionManagerProofs` first shows for an arbitrary set of callers that each
method of the lock maps a *served* lock (well-typed, and held if anyone waits)
to a served one. `TypeInv` is split into the variables the helpers assign
(`CoreType`) and the rest (`RestType`); one lemma per helper and action.

*Sessions and turns.* `SessionTurnsProofs` looks at an action through what it
does to frames, map and lock. `Base` says how these hang together: a turn that
writes or waits is its session's current one (`Frames`), a session in the map
is its channel's and lives (`MapAgrees`), and those who wait for the lock are
the acquiring turns, in their channels' names (`Waiting`). Every step is then
of one of nine kinds (`Kind`): it leaves turns and map alone, drops a session,
installs one, queues or starts a message, begins a turn, halts one, settles
one, fails one, or moves a plan gate. The invariants grow by what each race
breaks, and each is proved kind by kind:

* `Kept` holds under all races: queues are behind running turns, an ended
  session has no process, a caller's session is awaited, a session remembers no
  cleared conversation.
* `Orderly` adds, without `late_settle`, that the turns of a channel follow one
  another (`OneByOne`), so that a turn that is over cannot settle into its
  successor: then Stop empties what it stopped, and plan gates have one owner.
* `Faithful` adds, without `join_image` as well, that who joins a creation gets
  the session it creates (`Joined`): then live row and transcript are those of
  the session in the map (`Shown`).
* `Sound` adds, without any race and until the shutdown, `Owns`: the lock is
  held for each turn that writes or has been granted it, `activeTurns` and the
  identities are those of the writing turns, and whoever waits is of a living
  session. With `die_parked` the last part fails, and with `same_tick` a grant
  can be made within a loop that revokes it; hence also `Calm`: a loop has one
  round, and no continuation of `acquire()` is due in it.
* `Served`, for the refinement, adds that the queue of the lock stands in the
  order of the turns' numbers behind the granted one. `SessionManagerProofs` shows
  that each method keeps that order and gives no one a place but the turn that
  asks (`Yields`, `AcquireInOrder`), so only the first of those that wait can
  begin; a step of each kind is then `Enter`, `Change`, `Close` or a stutter of
  `TurnExclusion`.

*Supervisor.* `SupInv`: what lives of the bots of this run of the main server is
the current generation's and the machine is not at rest then (`LiveIsCurrent`),
so that an exit still to be delivered can only be the current child's
(`ExitsAreOwn`); a pending restart is for the next, expected, exit
(`RestartIsExpected`); an open row is of this run's living child or still to be
reconciled (`OwnRows`, `EarlierRows`); generations beyond `last` are untouched
(`Bounded`). On top of it stands `AgreeInv`: the only open row of this run is
the current generation's, and none is open at rest (`OwnRowIsCurrent`); a
serving bot has an open row with a pid that a reconciliation knows, so it is
killed before its row is finalized (`ServingIsRecorded`, which `ps_fails` and
`boot_ready` break); nothing is launched while rows are reconciled
(`NoStartWhileReconciling`, which `boot_restart` breaks); so at most one bot
serves or is on its way to (`OneCandidate`).

*Command queue.* `QueueInv`: only a claim runs a command, and takes it out of the
pending ones (`RunsFollowClaims`); there is one command per request and at most
one per edit that is over (`Counted`); the rows are those of the first
generations, and what a process left behind names one of them (`RowsAre`,
`OfRows`); `LiveRowIsTheNewest`. `HearsOfIt` (a newest bot with an old
configuration hears of it from the edit under way or from a command) is
inductive only without `early_signal`.

*Live updates.* `ServedInv` follows a change from its commit through window,
IPC, throttle, connection and fetch: wherever a page is behind, one of them
still holds something for it, or a watermark differs. *Scheduler*:
`SchedulerInv` relates list, slots, phases and listeners (`Queueing`,
`WorkConserving`, `ProcessesAreOfStarted`).

*Updater.* Without `overlap` a request for an update or a check of the timer
that passed `isUpdating` is the only one there is until it sets the flag
(`OneCheck`), so each step is taken with all other checks idle (`Local`).
`FilesAt` says, for every place an update can be in, which of binary, backup and
download are on the disk and which of them work: a failure anywhere then leaves
what the rollback needs, and the cleanup takes away only what the new binary has
replaced. An update may begin beside the backup an earlier rollback or clean-up
has left; until the copy of the current binary replaces it, a failure restores
that one, which runs but may be of another version, and so `RollbackRestores` is
about updates before any such failure. A rollback whose move fails may have
removed the binary; it leaves the backup, and the next check ends as it reads no
version.

*Auth.* `CacheIsDb` is inductive. The work is in the batch of
`setUserServices()`: `After` gives the grants once the first n changes were
applied (the last change of a host decides), and if no host is named twice,
granting first and revoking then, as the cache does, gives the same set,
whatever the length of the batch (`BatchAgrees`). For requests, a row is inserted only where the
latest of its pair is not pending, and decisions touch pending rows only
(`OnePending`). That nobody whose host was found waits for nothing needs, too,
that whoever asks has
signed up (`AskersSignedUp`), so that what was approved last is granted still
unless an admin took the grant away (`ApprovedIsGranted`).

*Conversation.* Every step of a message is of one of eight kinds (it passes on,
reads the slot, confirms, searches, asks, begins its operation, is answered,
performs), whichever node or strategy takes it (`StepKinds`). Without `overlap`
the others are idle or done meanwhile. A context is *live* for the message whose
request it stands for: nothing is live for a message that has not asked yet
(`Fresh`), nor for one whose operation is done (`Spent`), and once an operation
begins the slot is not live for it (`Acting`). For the memory, `SlotAt` says of each place of
the handling what the slot holds, up to the answer.

*Reminders.* `RemInv` says in whose hands a reminder may be, by its kind: a row
is being loaded after a restart, about to get its timer, has one, or, if it is
one-time, waits for the bot or is being delivered; and a one-time reminder is in
one of these hands only, with a timer that fires at its time or hops before it,
nothing of it posted until its delivery begins, and in that delivery nothing
but what an attempt has posted that ended in an error, no more than were made.
A delivery that finds the queue of 50
(`MAX_PENDING_DELIVERIES`) full is dropped, with its row still stored. That it
never is needs the limit: what waits are rows, each once (`QueueInv`), and a
user has at most 25 (`MAX_REMINDERS_PER_USER`, `LimitInv`), which holds as long
as creations do not overlap. `Calm` assumes that, MaxReminders <= MaxPending, that
every reminder is a date or a cron expression that can be scheduled, and that a
DELETE does not fail; without any one of the four TLC finds `DeliveriesAreDue` or
the limit violated (the table in section 6). The model has the reminders of one
user: 50 holds two users' worth, so a restart with more than 50 rows due while
Discord connects is the case with MaxReminders > MaxPending.

*Media jobs.* A status is read off the queue of Radarr or Sonarr, and a title
that is not in it counts as imported if the job was downloading. `ImportInv`
says what that is worth: a job shown downloading has a title that was grabbed,
one that is in the queue, or has its file, or was taken out of the queue since
the job was requested, and stays one of these; and an answer a poll still holds
speaks of what it saw the job to be. Two polls may overtake one another, which is why a status may go
back (section 6); with one at a time, what the poll captured is still the status
when it applies the answer, unless the request moved the job meanwhile
(`FreshInv`).

*Series.* `WantedInv` says of each place of an operation what it works with
there: entries of the selection, or whole seasons; episodes of the entry's
season; listed ones when they are put to monitored; and in the polls that
decide whether the whole series goes, that the seasons polled so far hold
nothing wanted, which Sonarr cannot change as it lists a series only once.
`Punctual` assumes one operation at a time, a Sonarr that lists a new series
before three reads of it are over and answers with what was put, finitely many
seasons, and one entry of a selection per season; section 6 says what happens
otherwise.

Each inductive invariant was checked with TLC before it was proved. Assumptions
are those the modules name (bounds are natural numbers, `NoChannel` is no
channel, and so on); TLC evaluates them in the runs.

*Only model-checked*: all liveness (fairness and `ENABLED` are outside the
prover's reach); `Workout`, `DiscordOutput` and `LogTail`, whose properties are
about what is left of a sequence when it is filtered or flattened, an induction
over data; the refinement of `FifoQueue`, as `LinkedQueue` walks its nodes with
recursive functions; `DoneButForFailures`, of both libraries; the breaker. What a
recursively defined operator computes cannot be proved with the installed
provers.

## 6. Where the repository says otherwise

One disagreement is kept as a run that TLC must find violated:
`cancel_keeps_slot`. Cancelling a running video job replaces the `close`
listener its pipeline waits on, so the pipeline never resumes and the id stays
in `inProgressJobs`; after `MAX_DOWNLOADS` cancellations no job is started
again, while `download-scheduler.service.ts:138` says "Max downloads reached,
waiting for slots". A slot of a cancelled job is therefore not counted among
those `SlotsAreKept` wants busy, and `JobsMoveOn` promises starts only without
cancellations.

The others are statements of comments, documents and tests that the model of the
code contradicts. They are defined in the modules, named below, and TLC finds
them violated with the constants given (instances of two of everything suffice
where nothing is said). The properties of the passing runs are stated so as to
hold beside them.

| Statement (module) | With | What the code does |
|---|---|---|
| `PromptingSessionNotIdle` (`SessionManager`) | | a message queued behind a running turn re-arms the idle timer the turn had cleared; `session-manager.service.ts:742` "a prompting session is by definition not idle" |
| `SessionCap` | | sessions being created do not count against the cap |
| `NoGhostGrant` | `die_parked` | an agent that dies while parked leaves its waiter, which is granted the lock until its frame notices |
| `NoOverlappingAgents` | | teardown hands the lock on while the old agent has only been sent SIGTERM |
| `MutualExclusion` | `late_settle` | the finally block of a torn-down turn ends the lock of its channel's next turn |
| `MutualExclusion` | `same_tick`, 4 channels | a release closure whose channel was aborted meanwhile wakes a waiter over the holder |
| `WritersExclude` | 4 channels, 4 slots, 4 messages | a creation that completes during shutdown installs a session after the sweep has begun (`session-manager.service.ts:708`) |
| `StopsEnd` (`Supervisor`), without `Calm` | `spawn_error` | a spawn that fails asynchronously emits `error` and no exit; Stopping waits for one |
| `NoSpawnWhileClosing` | | the main server closes while a restart is pending: the exit spawns a bot |
| `TimeoutIsRetried` | | a start timeout below the threshold is an expected stop: no backoff, no restart |
| `ManualStartForgives` | threshold 2 | the exit history survives a manual start from Failed |
| `OneLiveBot` | 2 boots | a row without a pid is finalized without looking for its process |
| `OneServingBot` | `boot_restart` | a restart request during reconciliation spawns beside the survivor |
| `SurvivorsReaped` | 2 boots | reconciliation never reaps the agents of a survivor |
| `ConfigSettles` (`CommandQueue`) | `early_signal` | an edit between a bot's read of the configuration and its running row reaches it neither way |
| `ClaimedIsRun` | `dispatch_throws` | one exception loses the rest of a claimed batch |
| `CancelledGoesNoFurther` (`DownloadScheduler`) | `Cancels` | between two children nobody tells the pipeline, which overwrites Cancelling |
| `OneUpdate` (`YtdlpUpdate`) | `overlap` | `isUpdating` is tested before two awaits and set after them |
| `RollbackRestores` | `copy_fails` | a rollback moves a half-made backup over a working binary |
| `BinaryRunsAtRest` | `step_fails`, `rollback_fails` | the move of a rollback removes the binary before it fails, which is logged: `ytdlp-update.service.ts:322` "Rollback failed - manual intervention may be required" |
| `UpdatesEnd` | `stream_breaks` | `downloadNewBinary()` listens to the file it writes, not to the answer it reads: when that breaks off, the update waits for ever and `isUpdating` stays set |
| `DryRunChangesNothing` | | a dry run updates, and edits only its answer |
| `InstalledWithoutDownloads` | `late_download` | a job starts while an update moves its binary |
| `StatusAdvances` (`JobStatus`, of `MediaJobs`) | 2 polls | a late answer turns a completed job back into a downloading one |
| `CancelledStaysEnded` (`MediaJobs`) | `Deletes` | a job deleted before Radarr answered goes on |
| `CompletedIsImported` (`JobStatus`) | | an item that was removed from the queue, as a failed download, by hand or by tdr-bot, counts as imported; `queue-status.util.ts:83` "its disappearance means Radarr/Sonarr finished the import and dropped it from the queue" |
| `CacheIsDb` (`AuthAccess`) | `RepeatedHosts` | grants of a batch reach the cache before revocations, in the database in array order |
| `WithdrawnStaysWithdrawn` | `Revokes` | a grant given directly leaves the pre-authorization behind, which grants again after a revocation |
| `WaitIsQueued` | `Revokes` | after a removal the approved row stays the latest; the page waits for a decision nobody is asked for |
| `WaitIsQueued` | `Unlisted` | a host the registry does not list, also because its scan failed, is answered "pending" and no row is inserted |
| `BlockReachesPage` | | a block revokes the session, and the page then sees "pending" |
| `SizeIsLength` (`LinkedQueue`) | `LastDeletes` | deleting the only value leaves a count of -1 |
| `CancelledIsSilent` (`Reminders`) | `cancels` | a reminder cancelled between its INSERT and its timer is sent |
| `WithinLimit` | `creates` | creations that overlap pass the limit together |
| `RowsAreScheduled` (`ReminderTable`) | `"undated"` in `Kinds` | such a row is stored and never scheduled |
| `RowsAreScheduled` | `deletes` | a failed DELETE leaves the row of a sent reminder without a timer |
| `RowsAreScheduled` | MaxReminders > MaxPending, 1 crash | timers that fire before Discord is ready find the queue full and drop their reminder |
| `UndeliveredIsKept` (`Reminders`) | `sends` | a failed send is logged and the row deleted |
| `PostedOnce` (`ReminderTable`) | `answers` | an attempt whose answer is lost has posted its message; the retry, or the plain message after it, posts another |
| `GaugeCountsRows` | 1 crash | the gauge starts at zero after a restart |
| `PagesCatchUp` (`LiveUpdates`) | `"live"` in `Lossy`, `short_lapse` or `first_fetch` | the digest leaves out what the page shows; ticks compare with ticks; a first query is not restarted |
| `EachLineOnceInOrder` (`LogTail`) | `overlap`, `rotate_open` or `regrow` | overlapping checks read one range twice; `open` finds another file than `stat`; a truncated file that has grown again is read on in its middle |
| `TailCatchesUp` | `Poll` false, 2 files | `fs.watch()` does not see the file that replaces a renamed one |
| `SaidIsShown` (`DiscordOutput`) | each name of `Races` | text or an image is shown twice, late or not at all; `discord-handler.service.ts:1001` "Flush buffered text first so the image appears in order" |
| `ChainIsKept` (`Workout`) | `stale_undo` or `lost_undo` | an undo another tab has not seen leaves a gap, after which logging is refused as a duplicate |
| `StartFollowsLog` | `early_finish` or `late_append` | starting weights are computed without the last set |
| `SuccessIsComplete` (`SeriesLibrary`) | one failing call | the failures of reading or removing downloads (`sonarr.service.ts:1203`, `1222`), of deleting files (`1872`) and of monitoring a season (`1142`) are only logged: success is reported with them left behind, and `warnings` is never set |
| `FailuresStayLocal` | `overlap`, `midway` or `slow_listing` | a report of success although an episode was grabbed meanwhile, or was not listed when it was to be monitored |
| `OnlyWhatWasAsked` (`WantedEpisodes`, of `SeriesLibrary`) | `overlap`, `slow_listing` or `late_monitor` | the whole series is deleted because what else is wanted is not yet to be seen |
| `EmptySeasonIsUnflagged` | | the season is read once, right after the PUT, which Sonarr may not show yet |
| `AdditionIsReported` | one failing call | a failure after the POST reports `seriesAdded` false |
| `SpecialsAreLeftOut` | | an existing series has all its seasons flagged; `sonarr.utils.ts` "Monitor all seasons except specials (season 0)" |
| `SuccessIsTrue` (`MovieLibrary`) | `overlap` or `midway` | the same for a movie |
| `UnmonitoredIsAdded` | | a movie that is in the library unmonitored cannot be downloaded, which `radarr.service.characterization.test.ts:584` expects |
| `FailureAddsNothing` | a lost answer | the movie was added, and the report says that it failed |
| `QuestionIsRemembered`, `ActsOnce` (`MediaRequests`) | `overlap` | a second message handled before the first is answered acts on the same question again |
| `QuestionIsRemembered` | `expires_midway` | the slot expires while the message that uses it is handled |

Smaller observations, visible in the definitions: an `error` of a yt-dlp or
ffmpeg child ends the download service, as its listener writes an Error object
to a file stream, which throws (`download-video.service.ts:488`); a plan approval
that still pends is overwritten by the next one of its channel, and its request
is never answered; `CircuitBreaker` counts
failures across successes as long as it is closed, lets all calls through when
half-open, and is closed by a success that began before it opened; a choice
given in an answer about what to delete of a show is not stored and must be
repeated; a vague or out-of-range choice means the first result, also of a
deletion; a reminder list keeps an unfinished question; a selection that named a
season in two entries would unmonitor with the second what it had monitored with
the first (`MonitorOthers`).

## 7. What is not modelled

* **Generated and vendored code**: `packages/media` (Radarr and Sonarr clients
  made from OpenAPI documents) is most of the TypeScript in the repository. It
  converts calls to HTTP and has no state; Radarr and Sonarr appear as external
  actions of `MediaJobs`, `SeriesLibrary` and `MovieLibrary`.
* **Front ends**: pages, styles and components, but for those that hold a
  protocol with the server (the pending page, the session runner, the live
  stream).
* **Request handlers without state**: the tdr-code console and log search, the
  auth redirects and admin pages, swole's editing of routines and
  its time-based and cardio sets, tdr-bot's browsing and download status. They
  are reads, or single transactions on rows nothing else here depends on.
* **equations, portal, dashcam, me-token-tracker, cli, infra**: pipelines of
  child processes with a deadline, static pages, a scheduled poster, deployment.
* **Code nothing imports**: tdr-bot's `message-handler/services/media`.
* **In the modelled components**: process-group bookkeeping and heartbeats that
  only a display reads; the text of anything; encryption of identities; SQLite
  being busy; a restart of the download service in the middle of an update; a
  reminder's message that Discord posts after its attempt was given up; the
  admin's own check of a host against the registry (the model lets the admin name
  any host); typing indicators, tool summaries and plan messages in Discord;
  auth's session cache with its in-flight lookups; prompts, images and
  equations of tdr-bot's graph; a call to Radarr or Sonarr whose timed-out
  attempt takes effect after all retries are over (`executeWithTimeout()` does
  not cancel it).

## 8. Plan

| Order | Step | State |
|---|---|---|
| 1 | tdr-code: lock, session manager, supervisor, command queue | modelled, checked, proved |
| 2 | `TurnExclusion` implemented by `SessionManager`; `FifoQueue` by `LinkedQueue` | checked; the first proved |
| 3 | Discord output, live updates, log tail | checked; live updates proved |
| 4 | download: scheduler, updater, media jobs | checked and proved |
| 5 | auth, swole, reminders, media of tdr-bot | checked; auth, reminders, the conversation and `OnlyWhatWasAsked` proved |
| 6 | proof of `MutualExclusion` and of the refinement of `TurnExclusion` with `Races = {}` | done |
| 7 | proofs of `CacheIsDb`, `PendingIsQueued`, `UpdateIsExclusive`, `RollbackRestores` | done |
| 8 | proofs of `QuestionIsRemembered` and `ActsOnce` | done |
| 9 | auth's session cache; the plan messages of Discord output | |
