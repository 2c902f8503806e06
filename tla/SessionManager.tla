--------------------------- MODULE SessionManager ---------------------------
(***************************************************************************)
(* The agent sessions of tdr-code's bot process                            *)
(* (src/apps/tdr-code/src/agent/session-manager.service.ts): creation and  *)
(* reactivation, turns under the git-write lock, queued follow-ups, Stop,  *)
(* /clear, idle eviction, plan approval, process death and shutdown.       *)
(*                                                                         *)
(* The bot is one Node.js process.  An action is what it runs between two  *)
(* returns to the event loop: a callback (macrotask), or a continuation of *)
(* a settled promise (microtask).  Every microtask runs before the next    *)
(* callback, and a callback that loops is a `span' of steps nothing else   *)
(* interleaves.  Session objects and turns are numbered in creation order  *)
(* and outlive the maps that name them, as the closures that hold them do. *)
(***************************************************************************)
EXTENDS GitTurnContext

CONSTANTS
    MaxConcurrentSessions, \* the configured cap
    Races,         \* what the environment may do, see RaceNames
    Images,        \* may a message consist of images only?
    Faults,        \* may a sessions INSERT or the identity set-up throw?
    MaxMessages,   \* bound: messages ever sent, hence sessions and turns
    MaxPlans,      \* bound: plan-approval gates ever presented
    MaxClears      \* bound: /clear commands per channel

\* Orders of events the code does not exclude and its comments do not expect.
\*   late_settle: a killed agent's prompt settles after its channel's next
\*                session is installed
\*   die_parked:  an agent dies while its turn waits for the lock
\*   same_tick:   one command-poll tick tears down several channels
\*   join_image:  a message joins the creation an image-only message started
RaceNames == {"late_settle", "die_parked", "same_tick", "join_image"}

ASSUME BoundsAssumption ==
    /\ MaxConcurrentSessions \in Nat \ {0}
    /\ MaxMessages \in Nat /\ MaxPlans \in Nat /\ MaxClears \in Nat
    /\ Races \subseteq RaceNames
    /\ Images \in BOOLEAN /\ Faults \in BOOLEAN

VARIABLES
    git,       \* the lock, activeTurns and the identity directories
    sessions,  \* sessions map: channel -> session object, 0 if absent
    recency,   \* the mapped sessions in lastActivity order, oldest first
    obj,       \* every ManagedSession ever created
    turns,     \* every executePrompt() frame ever started
    pending,   \* pendingSessions map
    callers,   \* prompt() frames whose awaited session has just resolved
    span,      \* rest of the synchronous loop being run
    openTurn,  \* SqliteWriter: the channel's open transcript turn, 0 if none
    live,      \* live_status row of each channel
    killed,    \* killedPlanApprovals map: channel -> gate, 0 if absent
    gates,     \* plan-approval gates ever presented: whose turn asked
    sent,      \* messages sent so far
    epoch,     \* how often /clear wiped the channel's memory (history)
    shutdown   \* shutdownRequested

vars == <<git, sessions, recency, obj, turns, pending, callers, span,
          openTurn, live, killed, gates, sent, epoch, shutdown>>

-----------------------------------------------------------------------------
(* Data *)

Message == [user : User, image : {FALSE, Images}]   \* image: no text

ManagedSession ==
    [channelId : Channel, process : {"running", "terminating", "exited"},
     prompting : BOOLEAN, currentTurnId : Nat, cancelRequested : BOOLEAN,
     queue : Seq(Message), imageCapable : BOOLEAN,
     activeUserId : User,
     idleTimer : BOOLEAN,      \* armed
     plan : Nat,               \* pendingPlanApproval's gate, 0 if none
     row  : {"none", "open", "closed"},   \* its sessions row
     acp  : BOOLEAN,           \* the row's acp_session_id is not null
     epoch : Nat]              \* epoch of the conversation it remembers

SessionId == 1 .. Len(obj)
TurnId    == 1 .. Len(turns)

Turn == [session : SessionId, phase : {"acquiring", "prompting", "done"},
         user : User]

NoPending == [stage |-> "none"]
Pending == {NoPending} \cup
    [stage : {"load", "create"}, cancelled : BOOLEAN,
     callers : Seq(Message) \ {<<>>}, epoch : Nat]

NoLive == [present |-> FALSE]
LiveRow == {NoLive} \cup
    [present : {TRUE}, prompting : BOOLEAN, queueDepth : Nat]

Caller == [session : SessionId, message : Message]

\* A round of a poll tick's loop, the shutdown's loop, an eviction loop.
Teardown     == [op : {"teardown"}, channel : Channel]
TeardownRest == [op |-> "shutdown"]
Create       == [op : {"create"}, channel : Channel, message : Message]

TypeOK ==
    /\ git \in Git(TurnId)
    /\ sessions \in [Channel -> 0 .. Len(obj)]
    /\ recency \in Seq(SessionId)
    /\ obj \in Seq(ManagedSession)
    /\ turns \in Seq(Turn)
    /\ pending \in [Channel -> Pending]
    /\ callers \in Seq(Caller)
    /\ span \in Seq(Teardown \cup {TeardownRest} \cup Create)
    /\ openTurn \in [Channel -> Nat]
    /\ live \in [Channel -> LiveRow]
    /\ killed \in [Channel -> Nat]
    /\ gates \in Seq(User)
    /\ sent \in Nat
    /\ epoch \in [Channel -> Nat]
    /\ shutdown \in BOOLEAN

Init ==
    /\ git = SweptGit
    /\ sessions = [c \in Channel |-> 0]
    /\ recency = <<>>
    /\ obj = <<>>
    /\ turns = <<>>
    /\ pending = [c \in Channel |-> NoPending]
    /\ callers = <<>>
    /\ span = <<>>
    /\ openTurn = [c \in Channel |-> 0]
    /\ live = [c \in Channel |-> NoLive]
    /\ killed = [c \in Channel |-> 0]
    /\ gates = <<>>
    /\ sent = 0
    /\ epoch = [c \in Channel |-> 0]
    /\ shutdown = FALSE

-----------------------------------------------------------------------------
(* Derived state *)

\* Promise continuations are due; callbacks wait for them.
MicrotasksDue == callers # <<>> \/ git.lock.settled # <<>>

\* The process is back in its event loop and takes the next callback.
AtRest == span = <<>> /\ ~MicrotasksDue

ChannelOf(t) == obj[turns[t].session].channelId

InMap(s) == sessions[obj[s].channelId] = s

\* The turn runs against the session its channel's map names.
InLiveSession(t) == InMap(turns[t].session)

LiveSessions == {c \in Channel : sessions[c] # 0}

\* (mutant of LiveOf) The running turn is counted out of the queue.
LiveOfOffByOne(s) == [present |-> TRUE, prompting |-> s.prompting,
                      queueDepth |-> Len(s.queue) - 1]

\* The values syncLiveStatus() writes.
LiveOf(s) == [present |-> TRUE, prompting |-> s.prompting,
              queueDepth |-> Len(s.queue)]

\* getLatestSessionForChannel(): the channel's newest row, 0 if it has none.
LatestRow(c) ==
    LET rows == {i \in SessionId : obj[i].channelId = c /\ obj[i].row # "none"}
    IN  IF rows = {} THEN 0 ELSE Max(rows)

\* (mutant of Resumable) A nulled acp_session_id is ignored.
ResumableAlways(c) == LatestRow(c) # 0

\* The newest row still links to a conversation the agent can reload.
Resumable(c) == LatestRow(c) # 0 /\ obj[LatestRow(c)].acp

\* The index in recency of the mapped session that has been idle longest and
\* is not prompting, 0 if there is none.
LongestIdle ==
    SelectInSeq(recency, LAMBDA s : InMap(s) /\ ~obj[s].prompting)

\* Some turn of the channel has not returned from executePrompt() yet.
HasFrame(c) ==
    \E t \in TurnId : turns[t].phase # "done" /\ ChannelOf(t) = c

Parked(c) == \E i \in 1 .. Len(git.lock.queue) : git.lock.queue[i].channel = c

-----------------------------------------------------------------------------
(* What the handlers share.  Each operator takes the objects, turns, maps or *)
(* git record as its caller has left them and gives the next-state value.    *)

\* The bot's own generation is the newest here, so both guards hold.
RemoveLiveStatus(rows, c) == [rows EXCEPT ![c] = NoLive]

SyncLiveStatus(rows, s) == [rows EXCEPT ![s.channelId] = LiveOf(s)]

\* (mutant of CloseSession) The row stays open.
KeepSessionOpen(row) == row

\* closeSession(): only an open row changes.
CloseSession(row) == IF row = "open" THEN "closed" ELSE row

\* SqliteWriter's onPromptStart() and onPromptComplete(): one open turn per
\* channel, overwritten by the former, closed by the latter whichever it is.
PromptStart(open, c, t) == [open EXCEPT ![c] = t]
PromptComplete(open, c) == [open EXCEPT ![c] = 0]

\* (mutant of ForgetKilledPlan) The marker outlives the next prompt.
KeepKilledPlan(k, c) == k

\* killedPlanApprovals.delete()
ForgetKilledPlan(k, c) == [k EXCEPT ![c] = 0]

\* gitTurnContext.abort() and cancelWaiter(), the two calls of teardown().
AbortTurn(g, c) == [Abort(g, c) EXCEPT !.lock = CancelWaiter(@, c)]

\* Everything teardown() and the process handlers do to a mapped session apart
\* from the lock; k is killedPlanApprovals.
EndSession(c, o, k, process) ==
    LET s     == sessions[c]
        ended == [o[s] EXCEPT !.process   = process,
                              !.idleTimer = FALSE,
                              !.plan      = 0,
                              !.row       = CloseSession(@)]
    IN  /\ obj' = [o EXCEPT ![s] = ended]
        /\ sessions' = [sessions EXCEPT ![c] = 0]
        /\ recency' = RemoveFirst(recency, s)
        /\ openTurn' = PromptComplete(openTurn, c)
        /\ live' = RemoveLiveStatus(live, c)
        /\ killed' = [k EXCEPT ![c] = IF o[s].plan # 0 THEN o[s].plan ELSE @]

\* executePrompt() from its first line to `await acquire()'.
ExecutePrompt(s, m, o, ts, g) ==
    LET t == Len(ts) + 1
        c == o[s].channelId
        started == [o[s] EXCEPT !.currentTurnId   = t,
                                !.cancelRequested = FALSE,
                                !.prompting       = TRUE,
                                !.activeUserId    = m.user,
                                !.idleTimer       = FALSE]
    IN  /\ turns' = Append(ts, [session |-> s, phase |-> "acquiring",
                                user |-> m.user])
        /\ obj' = [o EXCEPT ![s] = started]
        /\ openTurn' = PromptStart(openTurn, c, t)
        /\ live' = SyncLiveStatus(live, started)
        /\ git' = [g EXCEPT !.lock = Acquire(@, t, c)]

\* (mutant of SettleTurn) The finally block does not drain the queue.
SettleTurnNoDrain(t, g) ==
    LET s == turns[t].session
        c == ChannelOf(t)
    IN  /\ obj' = [obj EXCEPT ![s].prompting = FALSE,
                              ![s].idleTimer = @ \/ sessions[c] # 0]
        /\ openTurn' = PromptComplete(openTurn, c)
        /\ live' = IF sessions[c] = 0 THEN live ELSE SyncLiveStatus(live, obj'[s])
        /\ turns' = [turns EXCEPT ![t].phase = "done"]
        /\ git' = g
        /\ UNCHANGED <<sessions, recency, killed>>

\* onPromptComplete() and the finally block of executePrompt() when no error
\* was thrown; g is the git record after the release.  The finally block asks
\* whether the CHANNEL has a session and then works on the turn's own one.
SettleTurn(t, g) ==
    LET s  == turns[t].session
        c  == ChannelOf(t)
        q  == obj[s].queue
        ts == [turns EXCEPT ![t].phase = "done"]
    IN  /\ \/ /\ sessions[c] = 0
              /\ obj' = [obj EXCEPT ![s].prompting = FALSE]
              /\ openTurn' = PromptComplete(openTurn, c)
              /\ turns' = ts /\ git' = g
              /\ UNCHANGED live
           \/ /\ sessions[c] # 0 /\ q = <<>>
              /\ obj' = [obj EXCEPT ![s] =
                          [@ EXCEPT !.prompting = FALSE, !.idleTimer = TRUE]]
              /\ openTurn' = PromptComplete(openTurn, c)
              /\ live' = SyncLiveStatus(live, obj'[s])
              /\ turns' = ts /\ git' = g
           \/ /\ sessions[c] # 0 /\ q # <<>>
              /\ ExecutePrompt(s, Head(q), [obj EXCEPT ![s].queue = Tail(q)], ts, g)
        /\ UNCHANGED <<sessions, recency, killed>>

\* The catch block's teardown() of the CHANNEL's session, and the finally
\* block; g is the git record after both.
FailTurn(t, g) ==
    LET c == ChannelOf(t)
        o == [obj EXCEPT ![turns[t].session].prompting = FALSE]
    IN  /\ turns' = [turns EXCEPT ![t].phase = "done"]
        /\ git' = g
        /\ \/ /\ sessions[c] = 0
              /\ obj' = o
              /\ openTurn' = PromptComplete(openTurn, c)
              /\ UNCHANGED <<sessions, recency, live, killed>>
           \/ /\ sessions[c] # 0
              /\ EndSession(c, o, killed, "terminating")

\* The git record after the catch block's teardown().
AfterCatch(g, c) == IF sessions[c] = 0 THEN g ELSE AbortTurn(g, c)

\* cancel() on a prompting session, apart from the lock.
Cancelled(s) == [s EXCEPT !.plan = 0, !.queue = <<>>, !.cancelRequested = TRUE]

StopWaiting(g, c) == [g EXCEPT !.lock = CancelWaiter(@, c)]

\* prompt() once its session is there: from `session.lastActivity =' on.
ContinuePrompt(s, m) ==
    LET c == obj[s].channelId
        superseded == obj[s].plan # 0 /\ obj[s].prompting
        touched == [obj[s] EXCEPT !.idleTimer = TRUE]
        now == IF superseded THEN Cancelled(touched) ELSE touched
        o == [obj EXCEPT ![s] = now]
        g == IF superseded THEN StopWaiting(git, c) ELSE git
        k == ForgetKilledPlan(killed, c)
        noImageSupport == m.image /\ ~now.imageCapable
        neverUsed == now.currentTurnId = 0 /\ now.queue = <<>>
        touch == recency' = IF sessions[c] = s
                            THEN Append(RemoveFirst(recency, s), s)
                            ELSE recency
    IN  \/ /\ noImageSupport /\ neverUsed /\ sessions[c] # 0
           /\ EndSession(c, o, k, "terminating")
           /\ git' = AbortTurn(g, c)
           /\ UNCHANGED turns
        \/ /\ noImageSupport /\ ~(neverUsed /\ sessions[c] # 0)
           /\ obj' = o /\ git' = g /\ killed' = k
           /\ live' = IF superseded THEN SyncLiveStatus(live, now) ELSE live
           /\ touch
           /\ UNCHANGED <<sessions, turns, openTurn>>
        \/ /\ ~noImageSupport /\ now.prompting
           /\ obj' = [o EXCEPT ![s].queue = Append(@, m)]
           /\ git' = g /\ killed' = k
           /\ live' = SyncLiveStatus(live, obj'[s])
           /\ touch
           /\ UNCHANGED <<sessions, turns, openTurn>>
        \/ /\ ~noImageSupport /\ ~now.prompting
           /\ ExecutePrompt(s, m, o, turns, g)
           /\ killed' = k
           /\ touch
           /\ UNCHANGED sessions

\* prompt() and getOrCreate() up to their first await; k is the caller's
\* killedPlanApprovals.
RequestPrompt(c, m, k) ==
    /\ ~shutdown
    /\ sent < MaxMessages
    /\ sent' = sent + 1
    /\ \/ /\ sessions[c] # 0
          /\ ContinuePrompt(sessions[c], m)
          /\ UNCHANGED <<pending, span>>
       \/ /\ sessions[c] = 0 /\ pending[c].stage # "none"
          /\ "join_image" \in Races \/ ~Head(pending[c].callers).image
          /\ pending' = [pending EXCEPT ![c].callers = Append(@, m)]
          /\ killed' = k
          /\ UNCHANGED <<git, sessions, recency, obj, turns, span, openTurn, live>>
       \/ /\ sessions[c] = 0 /\ pending[c].stage = "none"
          /\ span' = <<[op |-> "create", channel |-> c, message |-> m]>>
          /\ killed' = k
          /\ UNCHANGED <<git, sessions, recency, obj, turns, pending, openTurn, live>>
    /\ UNCHANGED <<callers, gates, epoch, shutdown>>

-----------------------------------------------------------------------------
(* Messages, and the creation or reactivation of sessions *)

Prompt(c, m) == AtRest /\ RequestPrompt(c, m, killed)

\* createOrReactivateSession() up to its first await: evict one idle session
\* per round of evictIfNeeded()'s loop, give up when all are prompting, or
\* spawn the agent.
CreateStep ==
    /\ span # <<>> /\ Head(span).op = "create"
    /\ LET c    == Head(span).channel
           m    == Head(span).message
           full == Cardinality(LiveSessions) >= MaxConcurrentSessions
       IN  \/ /\ full /\ LongestIdle # 0
              /\ LET victim == obj[recency[LongestIdle]].channelId
                 IN  /\ EndSession(victim, obj, killed, "terminating")
                     /\ git' = AbortTurn(git, victim)
              /\ UNCHANGED <<pending, span>>
           \/ /\ full /\ LongestIdle = 0
              /\ span' = Tail(span)
              /\ UNCHANGED <<git, sessions, recency, obj, pending, openTurn,
                             live, killed>>
           \/ /\ ~full
              /\ span' = Tail(span)
              /\ pending' = [pending EXCEPT ![c] =
                    [stage     |-> IF Resumable(c) THEN "load" ELSE "create",
                     cancelled |-> FALSE,
                     callers   |-> <<m>>,
                     epoch     |-> IF Resumable(c) THEN obj[LatestRow(c)].epoch
                                                   ELSE 0]]
              /\ UNCHANGED <<git, sessions, recency, obj, openTurn, live, killed>>
    /\ UNCHANGED <<turns, callers, gates, sent, epoch, shutdown>>

\* A session object enters the map: insertSession(), sessions.set(), and the
\* continuations of every prompt() that awaits the attempt.
InstallSession(c, o, memory, imageCapable, inserted) ==
    LET s == Len(o) + 1
        p == pending[c]
        new == [channelId |-> c, process |-> "running", prompting |-> FALSE,
                currentTurnId |-> 0, cancelRequested |-> FALSE,
                queue |-> <<>>, imageCapable |-> imageCapable,
                activeUserId |-> Head(p.callers).user, idleTimer |-> TRUE,
                plan |-> 0, row |-> IF inserted THEN "open" ELSE "none",
                acp |-> inserted, epoch |-> memory]
    IN  /\ "late_settle" \in Races \/ ~HasFrame(c)
        /\ obj' = Append(o, new)
        /\ sessions' = [sessions EXCEPT ![c] = s]
        /\ recency' = Append(recency, s)
        /\ live' = SyncLiveStatus(live, new)
        /\ pending' = [pending EXCEPT ![c] = NoPending]
        /\ callers' = [i \in 1 .. Len(p.callers) |->
                         [session |-> s, message |-> p.callers[i]]]
        /\ UNCHANGED <<git, turns, span, openTurn, killed, gates, sent, epoch,
                       shutdown>>

\* Fall through to createSession(), which spawns another agent.
FallBackToCreate(c) ==
    /\ pending' = [pending EXCEPT ![c].stage = "create"]
    /\ UNCHANGED <<git, sessions, recency, obj, turns, callers, span, openTurn,
                   live, killed, gates, sent, epoch, shutdown>>

\* loadSession() resolves: re-check for a /clear, close the prior row, insert
\* the new one and register the session.
LoadResolves(c) ==
    /\ AtRest /\ pending[c].stage = "load"
    /\ \/ /\ pending[c].cancelled \/ ~Resumable(c)
          /\ FallBackToCreate(c)
       \/ /\ ~pending[c].cancelled /\ Resumable(c)
          /\ \E imageCapable \in {TRUE, ~Images}, inserted \in {TRUE, ~Faults} :
               InstallSession(c, [obj EXCEPT ![LatestRow(c)].row = CloseSession(@)],
                              pending[c].epoch, imageCapable, inserted)

\* No loadSession capability, loadSession() rejects, or the 30 s race is lost.
LoadRejects(c) ==
    /\ AtRest /\ pending[c].stage = "load"
    /\ FallBackToCreate(c)

CreateResolves(c) ==
    /\ AtRest /\ pending[c].stage = "create"
    /\ \E imageCapable \in {TRUE, ~Images}, inserted \in {TRUE, ~Faults} :
         InstallSession(c, obj, epoch[c], imageCapable, inserted)

\* initialize() or newSession() rejects, and with it every waiting prompt().
CreateRejects(c) ==
    /\ AtRest /\ pending[c].stage = "create"
    /\ pending' = [pending EXCEPT ![c] = NoPending]
    /\ UNCHANGED <<git, sessions, recency, obj, turns, callers, span, openTurn,
                   live, killed, gates, sent, epoch, shutdown>>

\* The next prompt() frame resumes behind `await getOrCreate()'.
RunCaller ==
    /\ span = <<>> /\ callers # <<>>
    /\ callers' = Tail(callers)
    /\ ContinuePrompt(Head(callers).session, Head(callers).message)
    /\ UNCHANGED <<pending, span, gates, sent, epoch, shutdown>>

-----------------------------------------------------------------------------
(* Turns *)

NoOtherFrame == UNCHANGED <<pending, callers, span, gates, sent, epoch, shutdown>>

\* The next executePrompt() frame resumes behind `await acquire()': granted,
\* it applies the identity, tests cancelRequested and sends the prompt;
\* rejected, it ends as cancelled.
RunWaiter ==
    /\ span = <<>> /\ callers = <<>> /\ git.lock.settled # <<>>
    /\ LET next == Head(git.lock.settled)
           t == next.turn
           s == turns[t].session
           c == ChannelOf(t)
           g == [git EXCEPT !.lock.settled = Tail(@)]
           begun == Begin(g, c, obj[s].activeUserId)
       IN  \/ /\ next.granted /\ ~obj[s].cancelRequested
              /\ git' = begun
              /\ turns' = [turns EXCEPT ![t].phase = "prompting"]
              /\ UNCHANGED <<sessions, recency, obj, openTurn, live, killed>>
           \/ /\ next.granted /\ obj[s].cancelRequested
              /\ SettleTurn(t, End(begun, c))
           \/ /\ next.granted /\ Faults
              /\ \E thrown \in BeginThrows(g, c) :
                   LET caught == AfterCatch(thrown, c)
                   IN  FailTurn(t, [caught EXCEPT !.lock = ReleaseIfHeldBy(@, c)])
           \/ /\ ~next.granted
              /\ SettleTurn(t, [g EXCEPT !.lock = ReleaseIfHeldBy(@, c)])
    /\ NoOtherFrame

\* connection.prompt() resolves.  An agent waiting for a plan approval does
\* not answer its prompt.
PromptResolves(t) ==
    /\ AtRest /\ turns[t].phase = "prompting" /\ obj[turns[t].session].plan = 0
    /\ SettleTurn(t, End(git, ChannelOf(t)))
    /\ NoOtherFrame

PromptRejects(t) ==
    /\ AtRest /\ turns[t].phase = "prompting"
    /\ FailTurn(t, End(AfterCatch(git, ChannelOf(t)), ChannelOf(t)))
    /\ NoOtherFrame

\* The Stop button of turn t.
Stop(t) ==
    LET c == ChannelOf(t)
        s == sessions[c]
    IN  /\ AtRest
        /\ s # 0 /\ obj[s].prompting /\ obj[s].currentTurnId = t
        /\ obj' = [obj EXCEPT ![s] = Cancelled(@)]
        /\ live' = SyncLiveStatus(live, obj'[s])
        /\ git' = StopWaiting(git, c)
        /\ UNCHANGED <<sessions, recency, turns, openTurn, killed>>
        /\ NoOtherFrame

-----------------------------------------------------------------------------
(* The ends of a session *)

\* teardown(c) and nothing else, as a callback of its own.
TeardownCallback(c, o) ==
    /\ EndSession(c, o, killed, "terminating")
    /\ git' = AbortTurn(git, c)
    /\ UNCHANGED turns
    /\ NoOtherFrame

\* A session object's idle timer fires and tears its CHANNEL down.
IdleTimeout(s) ==
    LET c == obj[s].channelId
        o == [obj EXCEPT ![s].idleTimer = FALSE]
    IN  /\ AtRest /\ obj[s].idleTimer
        /\ \/ sessions[c] # 0 /\ TeardownCallback(c, o)
           \/ /\ sessions[c] = 0 /\ obj' = o
              /\ UNCHANGED <<git, sessions, recency, turns, openTurn, live, killed>>
              /\ NoOtherFrame

\* One command-poll tick has claimed teardown_channel commands.
PollTick ==
    /\ AtRest
    /\ \E targets \in [1 .. (IF "same_tick" \in Races THEN 2 ELSE 1) -> LiveSessions] :
         span' = [i \in DOMAIN targets |->
                    [op |-> "teardown", channel |-> targets[i]]]
    /\ UNCHANGED <<git, sessions, recency, obj, turns, pending, callers,
                   openTurn, live, killed, gates, sent, epoch, shutdown>>

\* SIGTERM: no more prompts from here on.
Shutdown ==
    /\ AtRest /\ ~shutdown
    /\ shutdown' = TRUE
    /\ span' = <<TeardownRest>>
    /\ UNCHANGED <<git, sessions, recency, obj, turns, pending, callers,
                   openTurn, live, killed, gates, sent, epoch>>

\* One round of the loop of a poll tick.
TeardownStep ==
    /\ span # <<>> /\ Head(span).op = "teardown"
    /\ span' = Tail(span)
    /\ LET c == Head(span).channel
       IN  \/ /\ sessions[c] # 0
              /\ EndSession(c, obj, killed, "terminating")
              /\ git' = AbortTurn(git, c)
           \/ /\ sessions[c] = 0
              /\ UNCHANGED <<git, sessions, recency, obj, openTurn, live, killed>>
    /\ UNCHANGED <<turns, pending, callers, gates, sent, epoch, shutdown>>

\* One round of the shutdown's loop over the map, in insertion order, which is
\* creation order; then sweep the identities.
ShutdownStep ==
    /\ span # <<>> /\ Head(span).op = "shutdown"
    /\ \/ \E c \in LiveSessions :
             /\ \A d \in LiveSessions : sessions[c] <= sessions[d]
             /\ EndSession(c, obj, killed, "terminating")
             /\ git' = AbortTurn(git, c)
             /\ UNCHANGED span
       \/ /\ LiveSessions = {}
          /\ git' = Sweep(git)
          /\ span' = <<>>
          /\ UNCHANGED <<sessions, recency, obj, openTurn, live, killed>>
    /\ UNCHANGED <<turns, pending, callers, gates, sent, epoch, shutdown>>

\* /clear: teardown(), cancelPending(), clearAcpSessionId().
Clear(c) ==
    LET o == IF LatestRow(c) = 0 THEN obj
             ELSE [obj EXCEPT ![LatestRow(c)].acp = FALSE]
    IN  /\ AtRest /\ epoch[c] < MaxClears
        /\ epoch' = [epoch EXCEPT ![c] = @ + 1]
        /\ pending' = IF pending[c].stage = "none" THEN pending
                      ELSE [pending EXCEPT ![c].cancelled = TRUE]
        /\ \/ /\ sessions[c] # 0
              /\ EndSession(c, o, killed, "terminating")
              /\ git' = AbortTurn(git, c)
           \/ /\ sessions[c] = 0
              /\ obj' = o
              /\ UNCHANGED <<git, sessions, recency, openTurn, live, killed>>
        /\ UNCHANGED <<turns, callers, span, gates, sent, shutdown>>

\* The 'exit' (or 'error') event of a session's agent process.
ProcessExits(s) ==
    LET c == obj[s].channelId
    IN  /\ AtRest /\ obj[s].process # "exited"
        /\ \/ /\ sessions[c] = s
              /\ "die_parked" \in Races \/ ~Parked(c)
              /\ EndSession(c, obj, killed, "exited")
              /\ git' = Abort(git, c)
           \/ /\ sessions[c] # s
              /\ obj' = [obj EXCEPT ![s].process = "exited"]
              /\ UNCHANGED <<git, sessions, recency, openTurn, live, killed>>
        /\ UNCHANGED turns
        /\ NoOtherFrame

-----------------------------------------------------------------------------
(* Plan approval *)

\* The agent of turn t asks for a plan approval; the gate belongs to whatever
\* session its channel maps. One that still pends there is overwritten: its
\* request is not answered any more, and its timer finds another gate.
PlanNeeded(t) ==
    LET c == ChannelOf(t)
        s == sessions[c]
    IN  /\ AtRest /\ turns[t].phase = "prompting"
        /\ obj[turns[t].session].process # "exited"
        /\ s # 0 /\ Len(gates) < MaxPlans
        /\ gates' = Append(gates, obj[s].activeUserId)
        /\ obj' = [obj EXCEPT ![s].plan = Len(gates) + 1]
        /\ UNCHANGED <<git, sessions, recency, turns, pending, callers, span,
                       openTurn, live, killed, sent, epoch, shutdown>>

\* PLAN_APPROVAL_TIMEOUT_MS without an answer.
PlanTimeout(c) ==
    /\ AtRest /\ sessions[c] # 0 /\ obj[sessions[c]].plan # 0
    /\ TeardownCallback(c, obj)

\* Accept or Reject is clicked on gate p: answer the waiting agent, or prompt
\* a reactivated session when the one that asked is gone.
PlanClick(c, p) ==
    LET s == sessions[c]
    IN  /\ AtRest
        /\ \/ /\ s # 0 /\ obj[s].plan = p
              /\ obj' = [obj EXCEPT ![s].plan = 0]
              /\ UNCHANGED <<git, sessions, recency, turns, openTurn, live, killed>>
              /\ NoOtherFrame
           \/ /\ ~(s # 0 /\ obj[s].plan = p)
              /\ killed[c] = p
              /\ RequestPrompt(c, [user |-> gates[p], image |-> FALSE],
                               ForgetKilledPlan(killed, c))

-----------------------------------------------------------------------------
Next ==
    \/ \E c \in Channel : \/ \E m \in Message : Prompt(c, m)
                          \/ LoadResolves(c) \/ LoadRejects(c)
                          \/ CreateResolves(c) \/ CreateRejects(c)
                          \/ Clear(c) \/ PlanTimeout(c)
                          \/ \E p \in 1 .. Len(gates) : PlanClick(c, p)
    \/ \E t \in TurnId : PromptResolves(t) \/ PromptRejects(t)
                                  \/ Stop(t) \/ PlanNeeded(t)
    \/ \E s \in SessionId : IdleTimeout(s) \/ ProcessExits(s)
    \/ CreateStep \/ TeardownStep \/ ShutdownStep \/ RunCaller \/ RunWaiter
    \/ PollTick \/ Shutdown

Spec == Init /\ [][Next]_vars

-----------------------------------------------------------------------------
(* Properties *)

\* Turn t may be running git in the shared workspace: its prompt is out and
\* its session has not been given up.
Writing(t) == turns[t].phase = "prompting" /\ InLiveSession(t)

WritersExclude == \A t, u \in TurnId : Writing(t) /\ Writing(u) => t = u

\* The point of GitWriteLock: at any moment at most one turn, of all channels,
\* runs against the shared workspace, until onModuleDestroy starts. (A creation
\* that resolves after it still installs its session, and a release on behalf
\* of that channel can let a second one in: WritersExclude alone is not kept.)
MutualExclusion == ~shutdown => WritersExclude

\* A free lock has no waiter (no release forgets to wake the next one).
NoStrandedWaiter == git.lock.holder = NoChannel => git.lock.queue = <<>>

\* Between callbacks the lock is held exactly on behalf of a turn that writes:
\* teardown, process death, Stop and errors at any point of a turn neither
\* leave it held nor free it early.
LockFollowsTurn ==
    AtRest /\ ~shutdown =>
        \A c \in Channel :
            git.lock.holder = c <=> \E t \in TurnId : Writing(t) /\ ChannelOf(t) = c

\* Every suspended `await acquire()' is still in the lock's queue, and no
\* queue entry is left of a frame that ended: cancelWaiter() settles what it
\* splices out.
WaitersAreFrames ==
    AtRest => {git.lock.queue[i].turn : i \in DOMAIN git.lock.queue}
              = {t \in TurnId : turns[t].phase = "acquiring"}

\* While a turn writes, its channel's identity directory is its own user's;
\* a channel without a writing turn has none, so its git wrapper blocks.
IdentityFollowsTurn ==
    AtRest /\ ~shutdown =>
        \A c \in Channel :
            LET writers == {t \in TurnId : Writing(t) /\ ChannelOf(t) = c}
            IN  IF writers = {} THEN git.identity[c] = NoUser
                ELSE \A t \in writers : git.identity[c] = turns[t].user

\* The transcript writer's open turn is the turn the session is running, and
\* none when it runs none: no completion closes another turn's transcript.
TranscriptFollowsTurn ==
    AtRest => \A c \in Channel :
        openTurn[c] = IF sessions[c] # 0 /\ obj[sessions[c]].prompting
                      THEN obj[sessions[c]].currentTurnId ELSE 0

\* The git identity and the transcript both follow the turn.
AttributionFollowsTurn == IdentityFollowsTurn /\ TranscriptFollowsTurn

\* The console's live_status row shows the session the bot has, in the state
\* it is in, and no row outlives its session.
LiveStatusFollowsSession ==
    AtRest => \A c \in Channel :
        live[c] = IF sessions[c] = 0 THEN NoLive ELSE LiveOf(obj[sessions[c]])

\* A queued follow-up always has an unfinished turn in front of it whose
\* finally block will start it.
QueuedMessageWillRun ==
    AtRest => \A c \in LiveSessions :
        obj[sessions[c]].queue # <<>> =>
            \E t \in TurnId : /\ turns[t].phase # "done"
                               /\ turns[t].session = sessions[c]
                               /\ obj[sessions[c]].currentTurnId = t

\* Nothing waits for a wake-up that has been lost: neither a turn for the git
\* lock nor a follow-up for the turn in front of it.
WaitingIsWoken == WaitersAreFrames /\ QueuedMessageWillRun

\* A session remembers nothing from before its channel's last /clear, even if
\* the /clear landed while an agent was being started or reloaded.
ClearForgets ==
    \A c \in LiveSessions : obj[sessions[c]].epoch = epoch[c]

\* Stop takes effect on a turn that waits for the lock: between callbacks no
\* turn is both cancelled and waiting.
StopEndsWaiting ==
    AtRest => \A t \in TurnId :
        turns[t].phase = "acquiring" => ~obj[turns[t].session].cancelRequested

\* /clear and Stop are final, wherever in a turn, a start or a reload they land.
ClearAndStopAreFinal == ClearForgets /\ StopEndsWaiting

\* An agent that is not the channel's session has been killed and its
\* sessions row closed.
NoLeakedAgent ==
    AtRest => \A s \in SessionId :
        obj[s].process = "running" \/ obj[s].row = "open"
            => sessions[obj[s].channelId] = s

\* A plan-approval gate is held open only by a turn in flight, and a gate kept
\* for reactivation never competes with a live session.
PlanGateHasOneOwner ==
    AtRest => \A c \in Channel :
        /\ killed[c] # 0 => sessions[c] = 0
        /\ sessions[c] # 0 /\ obj[sessions[c]].plan # 0 =>
             \E t \in TurnId : Writing(t) /\ ChannelOf(t) = c

\* Nothing is held for a session that is gone: the lock is held on behalf of a
\* turn that writes, and only a channel's current session has an agent and an
\* open row.
NothingOutlivesItsSession == LockFollowsTurn /\ NoLeakedAgent

\* The console's row and the plan gate of a channel are those of its session.
ViewsFollowSession == LiveStatusFollowsSession /\ PlanGateHasOneOwner

-----------------------------------------------------------------------------
(* What comments and documents say that the code does not keep *)

\* "a prompting session is by definition not idle": no idle timer is armed
\* while a turn of the session is in flight.
PromptingSessionNotIdle ==
    \A c \in LiveSessions : obj[sessions[c]].prompting => ~obj[sessions[c]].idleTimer

\* Sessions are "bounded only by the max-concurrent cap".
SessionCap == Cardinality(LiveSessions) <= MaxConcurrentSessions

\* The lock is never granted to a channel whose session is gone.
NoGhostGrant ==
    AtRest /\ ~shutdown /\ git.lock.holder # NoChannel
        => git.lock.holder \in LiveSessions

\* No two agent processes with a prompt in flight exist at a time.
NoOverlappingAgents ==
    \A t, u \in TurnId :
        /\ turns[t].phase = "prompting" /\ obj[turns[t].session].process # "exited"
        /\ turns[u].phase = "prompting" /\ obj[turns[u].session].process # "exited"
        => t = u

-----------------------------------------------------------------------------
(* Liveness *)

\* An agent that waits for no plan approval settles its prompt, also after
\* having been killed. (One whose approval was overwritten waits for ever: the
\* assumption is for at most one gate.)
AgentAnswers(t) == /\ obj[turns[t].session].plan = 0
                   /\ PromptResolves(t) \/ PromptRejects(t)

\* Continuations always run; agents answer; the plan timer fires.  Nothing is
\* assumed of users, of creations or of idle timers.
Fairness ==
    /\ WF_vars(RunCaller) /\ WF_vars(RunWaiter)
    /\ WF_vars(CreateStep) /\ WF_vars(TeardownStep) /\ WF_vars(ShutdownStep)
    /\ \A t \in 1 .. MaxMessages : WF_vars(t \in TurnId /\ AgentAnswers(t))
    /\ \A c \in Channel : WF_vars(PlanTimeout(c))

FairSpec == Spec /\ Fairness

\* Every started turn ends, whatever holds the lock when it starts.
TurnsEnd ==
    \A t \in 1 .. MaxMessages :
        t \in TurnId ~> (t \in TurnId /\ turns[t].phase = "done")

=============================================================================
