------------------------- MODULE SessionTurnsProofs -------------------------
(***************************************************************************)
(* What SessionManager promises, for every set of channels and users, every*)
(* cap and every bound.  Four inductive invariants, each on top of the one *)
(* before, and each with the races it needs to be left out:                *)
(*                                                                         *)
(*   Kept      all races.  Frames, sessions and the lock's queue agree: a  *)
(*             turn that waits is in the queue, a queued message has a turn*)
(*             in front of it, no agent outlives its place in the map, and *)
(*             what a session remembers is from after its last /clear.     *)
(*   Orderly   no late_settle.  A channel has one unfinished turn at most, *)
(*             who is stopped does not wait, and a plan gate has an asker. *)
(*   Faithful  no join_image either.  Views and transcripts are those of   *)
(*             the channel's session.                                      *)
(*   Sound     no race at all.  The lock, the active turns and the git     *)
(*             identity are those of the one turn that writes.             *)
(*                                                                         *)
(* The steps of Next are sorted into nine kinds first (Kind), and the      *)
(* invariants are kept kind by kind: most conjuncts do not tell a teardown *)
(* by the idle timer from one by /clear.                                   *)
(***************************************************************************)
EXTENDS SessionTurns, SessionManagerProofs

-----------------------------------------------------------------------------
(* What the helpers do, field by field *)

\* What no handler changes while the row lives on, and what becomes of it.
SameBody(a, b) ==
    /\ b.channelId = a.channelId /\ b.epoch = a.epoch /\ b.process = a.process
    /\ b.row = a.row /\ b.acp = a.acp

\* b is a but perhaps for prompting, the timers, the agent, the plan and the row.
Held(a, b) ==
    /\ b.channelId = a.channelId /\ b.epoch = a.epoch
    /\ b.currentTurnId = a.currentTurnId /\ b.activeUserId = a.activeUserId
    /\ b.cancelRequested = a.cancelRequested /\ b.queue = a.queue
    /\ b.imageCapable = a.imageCapable

\* Neither the agent nor the plan nor the row changes.
SameFate(a, b) == b.process = a.process /\ b.row = a.row /\ b.plan = a.plan

\* Channel c's session, if it has one, is given up; o are the objects before.
EndFacts(c, o, process) ==
    /\ Len(obj') = Len(obj)
    /\ \A i \in SessionId :
         /\ Held(o[i], obj'[i]) /\ obj'[i].prompting = o[i].prompting
         /\ obj'[i].acp => o[i].acp
         /\ i # sessions[c] => SameFate(o[i], obj'[i])
    /\ sessions[c] # 0 =>
         LET s == sessions[c]
         IN  /\ obj'[s].process = process /\ obj'[s].plan = 0
             /\ obj'[s].row = CloseSession(o[s].row)
    /\ \A d \in Channel :
         /\ sessions'[d] = IF d = c THEN 0 ELSE sessions[d]
         /\ openTurn'[d] = IF d = c THEN 0 ELSE openTurn[d]
         /\ live'[d] = IF d = c /\ sessions[c] # 0 THEN NoLive ELSE live[d]
         /\ d # c => killed'[d] = killed[d]

\* endSession() of a mapped session.
LEMMA EndSessionFacts ==
    ASSUME CoreType, NEW c \in Channel, sessions[c] # 0,
           NEW o \in Seq(ManagedSession), Len(o) = Len(obj),
           NEW k \in [Channel -> Nat], \A d \in Channel : d # c => k[d] = killed[d],
           NEW process \in {"running", "terminating", "exited"},
           EndSession(c, o, k, process)
    PROVE  EndFacts(c, o, process)
<1> DEFINE s == sessions[c]
           ended == [o[s] EXCEPT !.process   = process,
                                 !.idleTimer = FALSE,
                                 !.plan      = 0,
                                 !.row       = CloseSession(@)]
<1>1. s \in 1 .. Len(o) /\ Len(obj) \in Nat
  BY DEF CoreType
<1>2. o[s] \in ManagedSession
  BY <1>1
<1>3. /\ Held(o[s], ended) /\ ended.prompting = o[s].prompting
      /\ ended.acp = o[s].acp
      /\ ended.process = process /\ ended.plan = 0
      /\ ended.row = CloseSession(o[s].row)
  BY <1>2 DEF Held, ManagedSession
<1>4. /\ obj' = [o EXCEPT ![s] = ended]
      /\ sessions' = [sessions EXCEPT ![c] = 0]
      /\ openTurn' = [openTurn EXCEPT ![c] = 0]
      /\ live' = [live EXCEPT ![c] = NoLive]
      /\ killed' = [k EXCEPT ![c] = IF o[s].plan # 0 THEN o[s].plan ELSE @]
  BY DEF EndSession, PromptComplete, RemoveLiveStatus
<1> HIDE DEF ended
<1>5. Len(obj') = Len(obj) /\ obj'[s] = ended
      /\ \A i \in 1 .. Len(obj) : i # s => obj'[i] = o[i]
  BY <1>1, <1>4
<1>6. \A i \in SessionId : /\ Held(o[i], obj'[i]) /\ obj'[i].prompting = o[i].prompting
                           /\ obj'[i].acp = o[i].acp
                           /\ i # s => SameFate(o[i], obj'[i])
  BY <1>3, <1>5 DEF SessionId, Held, SameFate
<1>7. \A d \in Channel : /\ sessions'[d] = IF d = c THEN 0 ELSE sessions[d]
                         /\ openTurn'[d] = IF d = c THEN 0 ELSE openTurn[d]
                         /\ live'[d] = IF d = c THEN NoLive ELSE live[d]
                         /\ d # c => killed'[d] = k[d]
  BY <1>4 DEF CoreType
<1> QED
  BY <1>3, <1>5, <1>6, <1>7 DEF EndFacts, SessionId

\* A turn of session s starts, for message m, with q left in the queue.
StartFacts(s, m, q, ts, g) ==
    LET t == Len(ts) + 1
        c == obj[s].channelId
    IN  /\ Len(obj') = Len(obj) /\ Len(turns') = t
        /\ \A u \in 1 .. Len(ts) : turns'[u] = ts[u]
        /\ turns'[t] = [session |-> s, phase |-> "acquiring", user |-> m.user]
        /\ \A i \in SessionId : i # s => obj'[i] = obj[i]
        /\ SameBody(obj[s], obj'[s]) /\ SameFate(obj[s], obj'[s])
        /\ obj'[s].currentTurnId = t /\ obj'[s].prompting
        /\ ~obj'[s].cancelRequested /\ obj'[s].activeUserId = m.user
        /\ obj'[s].queue = q
        /\ obj'[s].imageCapable = obj[s].imageCapable
        /\ \A d \in Channel : /\ openTurn'[d] = IF d = c THEN t ELSE openTurn[d]
                              /\ live'[d] = IF d = c THEN LiveOf(obj'[s]) ELSE live[d]
        /\ git' = [g EXCEPT !.lock = Acquire(g.lock, t, c)]
        /\ UNCHANGED sessions

\* executePrompt() up to its await; o and ts are what its caller made of the
\* objects and the turns.
LEMMA ExecutePromptFacts ==
    ASSUME CoreType, NEW o \in Seq(ManagedSession), Len(o) = Len(obj),
           NEW s \in 1 .. Len(o), NEW m \in Message,
           NEW ts \in Seq(Turn), Len(ts) = Len(turns), NEW g,
           \A i \in SessionId : i # s => o[i] = obj[i],
           SameBody(obj[s], o[s]), SameFate(obj[s], o[s]),
           o[s].imageCapable = obj[s].imageCapable,
           ExecutePrompt(s, m, o, ts, g), UNCHANGED sessions
    PROVE  StartFacts(s, m, o[s].queue, ts, g)
<1> DEFINE t == Len(ts) + 1
           c == o[s].channelId
           started == [o[s] EXCEPT !.currentTurnId   = t,
                                   !.cancelRequested = FALSE,
                                   !.prompting       = TRUE,
                                   !.activeUserId    = m.user,
                                   !.idleTimer       = FALSE]
           turn == [session |-> s, phase |-> "acquiring", user |-> m.user]
<1>1. /\ turns' = Append(ts, turn)
      /\ obj' = [o EXCEPT ![s] = started]
      /\ openTurn' = [openTurn EXCEPT ![c] = t]
      /\ live' = [live EXCEPT ![started.channelId] = LiveOf(started)]
      /\ git' = [g EXCEPT !.lock = Acquire(g.lock, t, c)]
  BY DEF ExecutePrompt, PromptStart, SyncLiveStatus
<1>2. o[s] \in ManagedSession
  OBVIOUS
<1>3. /\ SameBody(o[s], started) /\ SameFate(o[s], started)
      /\ started.channelId = c
      /\ started.currentTurnId = t /\ started.prompting
      /\ ~started.cancelRequested /\ started.activeUserId = m.user
      /\ started.queue = o[s].queue
      /\ started.imageCapable = o[s].imageCapable
  BY <1>2 DEF SameBody, SameFate, ManagedSession
<1>4. Len(ts) \in Nat /\ turn \in Turn
  BY DEF Turn, SessionId, Message
<1> HIDE DEF started, turn
<1>5. /\ Len(obj') = Len(obj) /\ obj'[s] = started
      /\ \A i \in 1 .. Len(obj) : i # s => obj'[i] = o[i]
  BY <1>1
<1>6. /\ Len(turns') = t /\ turns'[t] = turn
      /\ \A u \in 1 .. Len(ts) : turns'[u] = ts[u]
  BY <1>1, <1>4
<1>7. \A d \in Channel : /\ openTurn'[d] = IF d = c THEN t ELSE openTurn[d]
                         /\ live'[d] = IF d = c THEN LiveOf(obj'[s]) ELSE live[d]
  <2> HIDE DEF c, t
  <2> QED
    BY <1>1, <1>3, <1>5 DEF CoreType
<1>8. c = obj[s].channelId
  BY DEF SameBody
<1>9. SameBody(obj[s], started) /\ SameFate(obj[s], started)
  BY <1>3 DEF SameBody, SameFate
<1> QED
  BY <1>1, <1>3, <1>5, <1>6, <1>7, <1>8, <1>9 DEF StartFacts, SessionId, turn

\* A plan approval is pending: the next message supersedes it.
Asked(s) == obj[s].plan # 0 /\ obj[s].prompting

\* The follow-ups prompt() leaves in the queue in front of its own.
QueueKept(s) == IF Asked(s) THEN <<>> ELSE obj[s].queue

\* prompt() ends with q as the session's queue.
TouchFacts(s, q) ==
    LET c == obj[s].channelId
    IN  /\ Len(obj') = Len(obj)
        /\ \A i \in SessionId : i # s => obj'[i] = obj[i]
        /\ SameBody(obj[s], obj'[s])
        /\ obj'[s].prompting = obj[s].prompting
        /\ obj'[s].currentTurnId = obj[s].currentTurnId
        /\ obj'[s].activeUserId = obj[s].activeUserId
        /\ obj'[s].imageCapable = obj[s].imageCapable
        /\ obj'[s].queue = q
        /\ IF Asked(s)
           THEN obj'[s].cancelRequested /\ obj'[s].plan = 0
           ELSE /\ obj'[s].cancelRequested = obj[s].cancelRequested
                /\ obj'[s].plan = obj[s].plan
        /\ \A d \in Channel :
             IF d # c THEN live'[d] = live[d]
             ELSE \/ live'[d] = LiveOf(obj'[s])
                  \/ live'[d] = live[d] /\ obj'[s].queue = obj[s].queue
        /\ git' = IF Asked(s) THEN StopWaiting(git, c) ELSE git
        /\ UNCHANGED <<sessions, turns, openTurn>>

\* prompt() with its session: refused by a session without image support that
\* was never used, refused by one that was, queued, or run at once.
PromptFacts(s, m) ==
    LET c == obj[s].channelId
    IN  /\ \/ /\ m.image /\ obj[s].currentTurnId = 0
              /\ sessions[c] # 0 /\ EndFacts(c, obj, "terminating")
              /\ git' = AbortTurn(git, c) /\ UNCHANGED turns
           \/ /\ m.image
              /\ TouchFacts(s, QueueKept(s)) /\ killed'[c] = 0
           \/ /\ obj[s].prompting
              /\ TouchFacts(s, Append(QueueKept(s), m)) /\ killed'[c] = 0
           \/ /\ ~obj[s].prompting
              /\ StartFacts(s, m, obj[s].queue, turns, git) /\ killed'[c] = 0
        /\ \A d \in Channel : d # c => killed'[d] = killed[d]

\* prompt() once its session is there.
LEMMA ContinuePromptFacts ==
    ASSUME CoreType, NEW s \in SessionId, NEW m \in Message, ContinuePrompt(s, m),
           obj[s].prompting => obj[s].currentTurnId # 0
    PROVE  PromptFacts(s, m)
<1> DEFINE c == obj[s].channelId
           superseded == Asked(s)
           touched == [obj[s] EXCEPT !.idleTimer = TRUE]
           now == IF superseded THEN Cancelled(touched) ELSE touched
           o == [obj EXCEPT ![s] = now]
           g == IF superseded THEN StopWaiting(git, c) ELSE git
           k == ForgetKilledPlan(killed, c)
           queued == [now EXCEPT !.queue = Append(@, m)]
<1>1. /\ s \in 1 .. Len(obj) /\ obj \in Seq(ManagedSession) /\ Len(obj) \in Nat
      /\ killed \in [Channel -> Nat] /\ live \in [Channel -> LiveRow]
      /\ turns \in Seq(Turn)
  BY DEF CoreType, SessionId
<1>2. obj[s] \in ManagedSession
  BY <1>1
<1>3. c \in Channel /\ touched \in ManagedSession
  BY <1>2 DEF ManagedSession
<1>4. now \in ManagedSession
  BY <1>3, CancelledType
<1>5. o \in Seq(ManagedSession) /\ Len(o) = Len(obj) /\ o[s] = now
      /\ \A i \in SessionId : i # s => o[i] = obj[i]
  <2> HIDE DEF now
  <2> QED
    BY <1>1, <1>4, UpdateType DEF SessionId
<1>6. k \in [Channel -> Nat] /\ k[c] = 0
      /\ \A d \in Channel : d # c => k[d] = killed[d]
  BY <1>1, <1>3 DEF ForgetKilledPlan
<1>7. /\ SameBody(obj[s], now) /\ now.prompting = obj[s].prompting
      /\ now.currentTurnId = obj[s].currentTurnId
      /\ now.activeUserId = obj[s].activeUserId
      /\ now.imageCapable = obj[s].imageCapable
      /\ now.queue = QueueKept(s)
      /\ IF Asked(s) THEN now.cancelRequested /\ now.plan = 0
         ELSE now.cancelRequested = obj[s].cancelRequested /\ now.plan = obj[s].plan
  <2>1. CASE superseded
    BY <1>2, <2>1 DEF SameBody, Cancelled, ManagedSession, QueueKept
  <2>2. CASE ~superseded
    BY <1>2, <2>2 DEF SameBody, ManagedSession, QueueKept
  <2> QED
    BY <2>1, <2>2
<1>8. /\ SameBody(obj[s], queued) /\ queued.prompting = obj[s].prompting
      /\ queued.currentTurnId = obj[s].currentTurnId
      /\ queued.activeUserId = obj[s].activeUserId
      /\ queued.imageCapable = obj[s].imageCapable
      /\ queued.queue = Append(QueueKept(s), m)
      /\ queued.cancelRequested = now.cancelRequested /\ queued.plan = now.plan
  <2> HIDE DEF now
  <2> QED
    BY <1>4, <1>7 DEF SameBody, ManagedSession
<1>9. \/ /\ m.image /\ now.currentTurnId = 0 /\ sessions[c] # 0
         /\ EndSession(c, o, k, "terminating")
         /\ git' = AbortTurn(g, c)
         /\ UNCHANGED turns
      \/ /\ m.image
         /\ obj' = o /\ git' = g /\ killed' = k
         /\ live' = IF superseded THEN SyncLiveStatus(live, now) ELSE live
         /\ UNCHANGED <<sessions, turns, openTurn>>
      \/ /\ now.prompting
         /\ obj' = [o EXCEPT ![s].queue = Append(@, m)]
         /\ git' = g /\ killed' = k
         /\ live' = SyncLiveStatus(live, obj'[s])
         /\ UNCHANGED <<sessions, turns, openTurn>>
      \/ /\ ~now.prompting
         /\ ExecutePrompt(s, m, o, turns, g)
         /\ killed' = k
         /\ UNCHANGED sessions
  BY DEF ContinuePrompt, Asked
<1> HIDE DEF now, o, k, touched
<1>10. CASE /\ m.image /\ now.currentTurnId = 0 /\ sessions[c] # 0
            /\ EndSession(c, o, k, "terminating")
            /\ git' = AbortTurn(g, c)
            /\ UNCHANGED turns
  <2>1. EndFacts(c, o, "terminating")
    BY <1>3, <1>5, <1>6, <1>10, EndSessionFacts
  <2>2. ~superseded
    BY <1>7, <1>10 DEF Asked
  <2>3. /\ Held(obj[s], now) /\ SameFate(obj[s], now) /\ now.acp = obj[s].acp
        /\ now.prompting = obj[s].prompting
    BY <1>7, <2>2 DEF Held, SameFate, SameBody, QueueKept
  <2>4. \A i \in SessionId : /\ Held(obj[i], o[i]) /\ SameFate(obj[i], o[i])
                             /\ o[i].acp = obj[i].acp
                             /\ o[i].prompting = obj[i].prompting
    BY <1>5, <2>3 DEF Held, SameFate
  <2>5. sessions[c] \in SessionId
    BY <1>3, <1>10 DEF CoreType, SessionId
  <2>6. EndFacts(c, obj, "terminating")
    BY <2>1, <2>4, <2>5 DEF EndFacts, Held, SameFate
  <2> QED
    BY <1>7, <1>10, <2>2, <2>6 DEF PromptFacts, EndFacts
<1>11. CASE /\ m.image
            /\ obj' = o /\ git' = g /\ killed' = k
            /\ live' = IF superseded THEN SyncLiveStatus(live, now) ELSE live
            /\ UNCHANGED <<sessions, turns, openTurn>>
  <2>1. \A d \in Channel :
          IF d # c THEN live'[d] = live[d]
          ELSE \/ live'[d] = LiveOf(obj'[s])
               \/ live'[d] = live[d] /\ obj'[s].queue = obj[s].queue
    <3>1. now.channelId = c
      BY <1>7 DEF SameBody
    <3>2. CASE superseded
      <4>1. live' = [live EXCEPT ![c] = LiveOf(now)] /\ obj'[s] = now
        BY <1>5, <1>11, <3>1, <3>2 DEF SyncLiveStatus
      <4> QED
        BY <1>1, <4>1
    <3>3. CASE ~superseded
      BY <1>5, <1>7, <1>11, <3>3 DEF QueueKept
    <3> QED
      BY <3>2, <3>3
  <2>2. TouchFacts(s, QueueKept(s))
    BY <1>5, <1>7, <1>11, <2>1 DEF TouchFacts
  <2> QED
    BY <1>6, <1>11, <2>2 DEF PromptFacts
<1>12. CASE /\ now.prompting
            /\ obj' = [o EXCEPT ![s].queue = Append(@, m)]
            /\ git' = g /\ killed' = k
            /\ live' = SyncLiveStatus(live, obj'[s])
            /\ UNCHANGED <<sessions, turns, openTurn>>
  <2>1. obj' = [o EXCEPT ![s] = queued]
    BY <1>5, <1>12
  <2> HIDE DEF queued
  <2>2. /\ obj'[s] = queued /\ Len(obj') = Len(obj)
        /\ \A i \in SessionId : i # s => obj'[i] = obj[i]
    BY <1>1, <1>5, <2>1 DEF SessionId
  <2>3. queued.channelId = c
    BY <1>8 DEF SameBody
  <2>4. \A d \in Channel : live'[d] = IF d # c THEN live[d] ELSE LiveOf(obj'[s])
    <3>1. live' = [live EXCEPT ![c] = LiveOf(obj'[s])]
      BY <1>12, <2>2, <2>3 DEF SyncLiveStatus
    <3> QED
      BY <1>1, <3>1
  <2>5. TouchFacts(s, Append(QueueKept(s), m))
    BY ZenonT(40), <1>7, <1>8, <1>12, <2>2, <2>4 DEF TouchFacts
  <2> QED
    BY <1>6, <1>7, <1>12, <2>5 DEF PromptFacts
<1>13. CASE /\ ~now.prompting
            /\ ExecutePrompt(s, m, o, turns, g)
            /\ killed' = k
            /\ UNCHANGED sessions
  <2>1. ~superseded
    BY <1>7, <1>13 DEF Asked
  <2>2. SameFate(obj[s], now)
    BY <1>7, <2>1 DEF SameFate, SameBody
  <2>3. StartFacts(s, m, o[s].queue, turns, g)
    BY <1>1, <1>5, <1>7, <1>13, <2>2, ExecutePromptFacts
  <2>4. o[s].queue = obj[s].queue /\ g = git
    BY <1>5, <1>7, <2>1 DEF QueueKept
  <2> QED
    BY <1>6, <1>7, <1>13, <2>3, <2>4 DEF PromptFacts
<1> QED
  BY <1>9, <1>10, <1>11, <1>12, <1>13


\* Turn t returns: nothing else about turns changes.
ReturnFacts(t) ==
    /\ Len(turns') = Len(turns)
    /\ \A u \in TurnId : /\ turns'[u].session = turns[u].session
                         /\ turns'[u].user = turns[u].user
                         /\ turns'[u].phase = IF u = t THEN "done" ELSE turns[u].phase

\* A turn whose phase is set.
LEMMA DoneFacts ==
    ASSUME CoreType, NEW t \in TurnId, NEW phase
    PROVE  LET ts == [turns EXCEPT ![t].phase = phase]
           IN  /\ Len(ts) = Len(turns)
               /\ \A u \in TurnId :
                    /\ ts[u].session = turns[u].session
                    /\ ts[u].user = turns[u].user
                    /\ ts[u].phase = IF u = t THEN phase ELSE turns[u].phase
<1>1. turns \in Seq(Turn) /\ t \in 1 .. Len(turns)
  BY DEF CoreType, TurnId
<1>2. turns[t] \in Turn
  BY <1>1
<1> DEFINE v == [turns[t] EXCEPT !.phase = phase]
<1>3. v.session = turns[t].session /\ v.user = turns[t].user /\ v.phase = phase
  BY <1>2 DEF Turn
<1>4. [turns EXCEPT ![t].phase = phase] = [turns EXCEPT ![t] = v]
  OBVIOUS
<1> HIDE DEF v
<1>5. /\ Len([turns EXCEPT ![t] = v]) = Len(turns)
      /\ \A u \in 1 .. Len(turns) :
           [turns EXCEPT ![t] = v][u] = IF u = t THEN v ELSE turns[u]
  BY <1>1
<1> QED
  BY <1>3, <1>4, <1>5 DEF TurnId

\* The finally block leaves the session without a turn.
RestFacts(t, g) ==
    LET s == turns[t].session
        c == ChannelOf(t)
    IN  /\ ReturnFacts(t) /\ git' = g
        /\ Len(obj') = Len(obj)
        /\ \A i \in SessionId : i # s => obj'[i] = obj[i]
        /\ SameBody(obj[s], obj'[s]) /\ SameFate(obj[s], obj'[s])
        /\ Held(obj[s], obj'[s]) /\ ~obj'[s].prompting
        /\ \A d \in Channel :
             /\ openTurn'[d] = IF d = c THEN 0 ELSE openTurn[d]
             /\ live'[d] = IF d = c /\ sessions[c] # 0 THEN LiveOf(obj'[s]) ELSE live[d]

\* It leaves the session at rest or starts its next turn.
SettleFacts(t, g) ==
    LET s == turns[t].session
    IN  /\ UNCHANGED <<sessions, killed>>
        /\ \/ /\ sessions[ChannelOf(t)] = 0 \/ obj[s].queue = <<>>
              /\ RestFacts(t, g)
           \/ /\ sessions[ChannelOf(t)] # 0 /\ obj[s].queue # <<>>
              /\ StartFacts(s, Head(obj[s].queue), Tail(obj[s].queue),
                            [turns EXCEPT ![t].phase = "done"], g)

\* The end of a turn without an error.
LEMMA SettleTurnFacts ==
    ASSUME CoreType, NEW t \in TurnId, NEW g, SettleTurn(t, g)
    PROVE  SettleFacts(t, g)
<1> DEFINE s  == turns[t].session
           c  == ChannelOf(t)
           q  == obj[s].queue
           ts == [turns EXCEPT ![t].phase = "done"]
           idle  == [obj[s] EXCEPT !.prompting = FALSE]
           armed == [obj[s] EXCEPT !.prompting = FALSE, !.idleTimer = TRUE]
           drained == [obj[s] EXCEPT !.queue = Tail(q)]
<1>1. s \in SessionId /\ c \in Channel /\ c = obj[s].channelId
  BY ChannelOfType DEF ChannelOf
<1>2. s \in 1 .. Len(obj) /\ obj \in Seq(ManagedSession)
  BY <1>1 DEF SessionId, CoreType
<1>3. obj[s] \in ManagedSession
  BY <1>2
<1>4. ts \in Seq(Turn) /\ Len(ts) = Len(turns)
  BY DoneType
<1>5. \A v \in {idle, armed} :
        /\ SameBody(obj[s], v) /\ SameFate(obj[s], v)
        /\ Held(obj[s], v) /\ ~v.prompting
  BY <1>3 DEF SameBody, SameFate, Held, ManagedSession
<1>6. UNCHANGED <<sessions, killed>>
  BY DEF SettleTurn
<1>7. turns' = ts => ReturnFacts(t)
  BY DoneFacts DEF ReturnFacts
<1>8. CASE /\ sessions[c] = 0
           /\ obj' = [obj EXCEPT ![s].prompting = FALSE]
           /\ openTurn' = PromptComplete(openTurn, c)
           /\ turns' = ts /\ git' = g
           /\ UNCHANGED live
  <2>1. obj' = [obj EXCEPT ![s] = idle]
    BY <1>8
  <2> HIDE DEF idle, s, ts, c
  <2>2. Len(obj') = Len(obj) /\ obj'[s] = idle
        /\ \A i \in SessionId : i # s => obj'[i] = obj[i]
    BY <1>2, <2>1 DEF SessionId
  <2>3. \A d \in Channel : openTurn'[d] = IF d = c THEN 0 ELSE openTurn[d]
    BY <1>1, <1>8 DEF CoreType, PromptComplete
  <2>4. RestFacts(t, g)
    BY <1>5, <1>7, <1>8, <2>2, <2>3 DEF RestFacts, s, c
  <2> QED
    BY <1>6, <1>8, <2>4 DEF SettleFacts, c
<1>9. CASE /\ sessions[c] # 0 /\ q = <<>>
           /\ obj' = [obj EXCEPT ![s] = armed]
           /\ openTurn' = PromptComplete(openTurn, c)
           /\ live' = SyncLiveStatus(live, obj'[s])
           /\ turns' = ts /\ git' = g
  <2> HIDE DEF armed, s, ts, c
  <2>2. Len(obj') = Len(obj) /\ obj'[s] = armed
        /\ \A i \in SessionId : i # s => obj'[i] = obj[i]
    BY <1>2, <1>9 DEF SessionId
  <2>3. armed.channelId = c
    BY <1>1, <1>5 DEF SameBody
  <2>4. \A d \in Channel : openTurn'[d] = IF d = c THEN 0 ELSE openTurn[d]
    BY <1>1, <1>9 DEF CoreType, PromptComplete
  <2>5. \A d \in Channel : live'[d] = IF d = c THEN LiveOf(obj'[s]) ELSE live[d]
    BY <1>1, <1>9, <2>2, <2>3 DEF CoreType, SyncLiveStatus
  <2>6. RestFacts(t, g)
    BY SMTT(60), <1>5, <1>7, <1>9, <2>2, <2>4, <2>5 DEF RestFacts, s, c
  <2> QED
    BY <1>6, <1>9, <2>6 DEF SettleFacts, s, c
<1>10. CASE /\ sessions[c] # 0 /\ q # <<>>
            /\ ExecutePrompt(s, Head(q), [obj EXCEPT ![s].queue = Tail(q)], ts, g)
  <2>1. q \in Seq(Message) /\ q # <<>>
    BY <1>3, <1>10 DEF ManagedSession
  <2>2. Head(q) \in Message /\ Tail(q) \in Seq(Message)
    BY <2>1
  <2>3. drained \in ManagedSession
    BY <1>3, <2>2 DEF ManagedSession
  <2>4. [obj EXCEPT ![s].queue = Tail(q)] = [obj EXCEPT ![s] = drained]
    OBVIOUS
  <2>5. ExecutePrompt(s, Head(q), [obj EXCEPT ![s] = drained], ts, g)
    BY <1>10, <2>4
  <2>6. /\ drained.queue = Tail(q) /\ SameBody(obj[s], drained)
        /\ SameFate(obj[s], drained) /\ drained.imageCapable = obj[s].imageCapable
    BY <1>3 DEF SameBody, SameFate, ManagedSession
  <2> DEFINE o == [obj EXCEPT ![s] = drained]
  <2> HIDE DEF drained, s, ts, q
  <2>7. /\ o \in Seq(ManagedSession) /\ Len(o) = Len(obj)
        /\ o[s] = drained /\ \A i \in SessionId : i # s => o[i] = obj[i]
    BY <1>2, <2>3, UpdateType DEF SessionId
  <2>8. StartFacts(s, Head(q), o[s].queue, ts, g)
    <3> HIDE DEF o
    <3>1. ExecutePrompt(s, Head(q), o, ts, g)
      BY <2>5 DEF o
    <3> QED
      BY <1>2, <1>4, <1>6, <2>2, <2>6, <2>7, <3>1, ExecutePromptFacts
  <2> QED
    BY <1>6, <1>10, <2>6, <2>7, <2>8 DEF SettleFacts, s, q, ts
<1> QED
  BY <1>8, <1>9, <1>10 DEF SettleTurn

\* The catch and finally blocks end the turn and its channel's session.
FailFacts(t, g) ==
    LET s == turns[t].session
        c == ChannelOf(t)
    IN  /\ ReturnFacts(t) /\ git' = g
        /\ \E o \in Seq(ManagedSession) :
             /\ Len(o) = Len(obj)
             /\ \A i \in SessionId : i # s => o[i] = obj[i]
             /\ SameBody(obj[s], o[s]) /\ SameFate(obj[s], o[s])
             /\ Held(obj[s], o[s]) /\ ~o[s].prompting
             /\ EndFacts(c, o, "terminating")

\* The end of a turn with an error.
LEMMA FailTurnFacts ==
    ASSUME CoreType, NEW t \in TurnId, NEW g, FailTurn(t, g)
    PROVE  FailFacts(t, g)
<1> DEFINE s == turns[t].session
           c == ChannelOf(t)
           idle == [obj[s] EXCEPT !.prompting = FALSE]
           o == [obj EXCEPT ![s] = idle]
<1>1. s \in SessionId /\ c \in Channel
  BY ChannelOfType
<1>2. s \in 1 .. Len(obj) /\ obj \in Seq(ManagedSession)
  BY <1>1 DEF SessionId, CoreType
<1>3. obj[s] \in ManagedSession
  BY <1>2
<1>4. /\ idle \in ManagedSession
      /\ SameBody(obj[s], idle) /\ SameFate(obj[s], idle)
      /\ Held(obj[s], idle) /\ ~idle.prompting
  BY <1>3 DEF ManagedSession, SameBody, SameFate, Held
<1>5. ReturnFacts(t) /\ git' = g
  <2>1. turns' = [turns EXCEPT ![t].phase = "done"] /\ git' = g
    BY DEF FailTurn
  <2> QED
    BY <2>1, DoneFacts DEF ReturnFacts
<1>6. [obj EXCEPT ![turns[t].session].prompting = FALSE] = o
  OBVIOUS
<1> HIDE DEF s, c, idle
<1>7. /\ o \in Seq(ManagedSession) /\ Len(o) = Len(obj) /\ o[s] = idle
      /\ \A i \in SessionId : i # s => o[i] = obj[i]
  BY <1>2, <1>4, UpdateType DEF SessionId
<1> HIDE DEF o
<1>8. ASSUME /\ sessions[c] = 0
             /\ obj' = o
             /\ openTurn' = PromptComplete(openTurn, c)
             /\ UNCHANGED <<sessions, recency, live, killed>>
      PROVE  EndFacts(c, o, "terminating")
  <2>1. \A d \in Channel : openTurn'[d] = IF d = c THEN 0 ELSE openTurn[d]
    BY <1>8 DEF CoreType, PromptComplete
  <2> QED
    BY <1>7, <1>8, <2>1 DEF EndFacts, Held, SameFate
<1>9. ASSUME /\ sessions[c] # 0
             /\ EndSession(c, o, killed, "terminating")
      PROVE  EndFacts(c, o, "terminating")
  <2>1. killed \in [Channel -> Nat]
    BY DEF CoreType
  <2> QED
    BY <1>1, <1>7, <1>9, <2>1, EndSessionFacts
<1>10. EndFacts(c, o, "terminating")
  <2>1. c = ChannelOf(t)
    BY DEF c
  <2> QED
    BY <1>6, <1>8, <1>9, <2>1 DEF FailTurn
<1> QED
  BY <1>4, <1>5, <1>7, <1>10 DEF FailFacts, s, c


\* Channel c gets a session, which remembers what `memory' says.
InstallFacts(c, memory) ==
    LET s == Len(obj) + 1
        p == pending[c]
    IN  /\ "late_settle" \in Races \/ ~HasFrame(c)
        /\ Len(obj') = s
        /\ \A i \in SessionId :
             /\ Held(obj[i], obj'[i]) /\ obj'[i].prompting = obj[i].prompting
             /\ obj'[i].acp = obj[i].acp /\ obj'[i].process = obj[i].process
             /\ obj'[i].plan = obj[i].plan
             /\ obj'[i].row \in {obj[i].row, CloseSession(obj[i].row)}
        /\ obj'[s].channelId = c /\ obj'[s].epoch = memory
        /\ ~obj'[s].prompting /\ obj'[s].currentTurnId = 0
        /\ ~obj'[s].cancelRequested /\ obj'[s].queue = <<>> /\ obj'[s].plan = 0
        /\ obj'[s].row = "none" => ~obj'[s].acp
        /\ \A d \in Channel :
             /\ sessions'[d] = IF d = c THEN s ELSE sessions[d]
             /\ live'[d] = IF d = c THEN LiveOf(obj'[s]) ELSE live[d]
             /\ pending'[d] = IF d = c THEN NoPending ELSE pending[d]
        /\ callers' = [i \in 1 .. Len(p.callers) |->
                         [session |-> s, message |-> p.callers[i]]]
        /\ UNCHANGED <<git, turns, span, openTurn, killed, epoch, shutdown>>

\* insertSession() and sessions.set().
LEMMA InstallSessionFacts ==
    ASSUME TypeInv, NEW c \in Channel, pending[c].stage # "none",
           NEW o \in Seq(ManagedSession), Len(o) = Len(obj),
           \A i \in SessionId :
             /\ Held(obj[i], o[i]) /\ o[i].prompting = obj[i].prompting
             /\ o[i].acp = obj[i].acp /\ o[i].process = obj[i].process
             /\ o[i].plan = obj[i].plan
             /\ o[i].row \in {obj[i].row, CloseSession(obj[i].row)},
           NEW memory \in Nat, NEW imageCapable \in BOOLEAN, NEW inserted \in BOOLEAN,
           InstallSession(c, o, memory, imageCapable, inserted)
    PROVE  InstallFacts(c, memory)
<1> DEFINE s == Len(o) + 1
           p == pending[c]
           new == [channelId |-> c, process |-> "running", prompting |-> FALSE,
                   currentTurnId |-> 0, cancelRequested |-> FALSE,
                   queue |-> <<>>, imageCapable |-> imageCapable,
                   activeUserId |-> Head(p.callers).user, idleTimer |-> TRUE,
                   plan |-> 0, row |-> IF inserted THEN "open" ELSE "none",
                   acp |-> inserted, epoch |-> memory]
<1>1. /\ "late_settle" \in Races \/ ~HasFrame(c)
      /\ obj' = Append(o, new)
      /\ sessions' = [sessions EXCEPT ![c] = s]
      /\ live' = [live EXCEPT ![new.channelId] = LiveOf(new)]
      /\ pending' = [pending EXCEPT ![c] = NoPending]
      /\ callers' = [i \in 1 .. Len(p.callers) |->
                       [session |-> s, message |-> p.callers[i]]]
      /\ UNCHANGED <<git, turns, span, openTurn, killed, epoch, shutdown>>
  BY DEF InstallSession, SyncLiveStatus
<1>2. /\ new.channelId = c /\ new.epoch = memory
      /\ ~new.prompting /\ new.currentTurnId = 0
      /\ ~new.cancelRequested /\ new.queue = <<>> /\ new.plan = 0
      /\ new.row = "none" => ~new.acp
  <2>1. new.row = IF inserted THEN "open" ELSE "none"
    OBVIOUS
  <2>2. new.acp = inserted
    OBVIOUS
  <2>3. new.row = "none" => ~new.acp
    BY <2>1, <2>2
  <2> QED
    BY <2>3
<1>3. /\ sessions \in [Channel -> 0 .. Len(obj)] /\ live \in [Channel -> LiveRow]
      /\ pending \in [Channel -> Pending]
  BY DEF TypeInv, CoreType, RestType
<1> HIDE DEF new, p
<1>4. /\ Len(obj') = s /\ obj'[s] = new
      /\ \A i \in 1 .. Len(obj) : obj'[i] = o[i]
  BY <1>1
<1>5. \A d \in Channel :
        /\ sessions'[d] = IF d = c THEN s ELSE sessions[d]
        /\ live'[d] = IF d = c THEN LiveOf(obj'[s]) ELSE live[d]
        /\ pending'[d] = IF d = c THEN NoPending ELSE pending[d]
  BY <1>1, <1>2, <1>3, <1>4
<1> QED
  BY <1>1, <1>2, <1>4, <1>5 DEF InstallFacts, SessionId, p

\* The Stop button: what cancel() does to the channel's session.
StopFacts(c) ==
    LET s == sessions[c]
    IN  /\ s # 0 /\ obj[s].prompting
        /\ Len(obj') = Len(obj)
        /\ \A i \in SessionId : i # s => obj'[i] = obj[i]
        /\ SameBody(obj[s], obj'[s])
        /\ obj'[s].prompting = obj[s].prompting
        /\ obj'[s].currentTurnId = obj[s].currentTurnId
        /\ obj'[s].activeUserId = obj[s].activeUserId
        /\ obj'[s].imageCapable = obj[s].imageCapable
        /\ obj'[s].queue = <<>> /\ obj'[s].cancelRequested /\ obj'[s].plan = 0
        /\ \A d \in Channel :
             live'[d] = IF d = obj[s].channelId THEN LiveOf(obj'[s]) ELSE live[d]
        /\ git' = StopWaiting(git, c)
        /\ UNCHANGED <<sessions, turns, openTurn, killed>>

\* The Stop button does so to the session of the turn it belongs to.
LEMMA StopHasFacts ==
    ASSUME CoreType, NEW t \in TurnId, Stop(t)
    PROVE  StopFacts(ChannelOf(t))
<1> DEFINE c == ChannelOf(t)
           s == sessions[c]
           new == Cancelled(obj[s])
<1>1. c \in Channel
  BY ChannelOfType
<1>2. /\ s # 0 /\ obj[s].prompting
      /\ obj' = [obj EXCEPT ![s] = new]
      /\ live' = SyncLiveStatus(live, obj'[s])
      /\ git' = StopWaiting(git, c)
      /\ UNCHANGED <<sessions, turns, openTurn, killed>>
  BY DEF Stop
<1>3. s \in 1 .. Len(obj) /\ obj \in Seq(ManagedSession) /\ live \in [Channel -> LiveRow]
  BY <1>1, <1>2 DEF CoreType
<1>4. obj[s] \in ManagedSession
  BY <1>3
<1>5. /\ SameBody(obj[s], new) /\ new.prompting = obj[s].prompting
      /\ new.currentTurnId = obj[s].currentTurnId
      /\ new.activeUserId = obj[s].activeUserId
      /\ new.imageCapable = obj[s].imageCapable
      /\ new.queue = <<>> /\ new.cancelRequested /\ new.plan = 0
  BY <1>4 DEF Cancelled, SameBody, ManagedSession
<1> HIDE DEF new, s
<1>6. /\ obj'[s] = new /\ Len(obj') = Len(obj)
      /\ \A i \in SessionId : i # s => obj'[i] = obj[i]
  BY <1>2, <1>3 DEF SessionId
<1>7. \A d \in Channel :
        live'[d] = IF d = obj[s].channelId THEN LiveOf(obj'[s]) ELSE live[d]
  <2>1. new.channelId = obj[s].channelId
    BY <1>5 DEF SameBody
  <2>2. live' = [live EXCEPT ![obj[s].channelId] = LiveOf(new)]
    BY <1>2, <1>6, <2>1 DEF SyncLiveStatus
  <2> QED
    BY <1>3, <1>6, <2>2
<1> QED
  BY <1>2, <1>5, <1>6, <1>7 DEF StopFacts, s


-----------------------------------------------------------------------------
(* What frames, objects and the map know of each other *)

\* An executePrompt() frame that has not returned is the current turn of its
\* session, which prompts for the turn's user; a session that prompts has such
\* a frame.
Frames ==
    /\ \A t \in TurnId : turns[t].phase # "done" =>
         LET s == turns[t].session
         IN  /\ obj[s].prompting /\ obj[s].currentTurnId = t
             /\ obj[s].activeUserId = turns[t].user
    /\ \A s \in SessionId : obj[s].prompting =>
         LET t == obj[s].currentTurnId
         IN  t \in TurnId /\ turns[t].phase # "done" /\ turns[t].session = s

\* The map has a session under its own channel.
MapAgrees == \A c \in Channel : sessions[c] # 0 => obj[sessions[c]].channelId = c

\* The turns whose acquire() has not returned.
Acquiring == {t \in TurnId : turns[t].phase = "acquiring"}

\* They wait in the lock, in their channel's name.
Waiting ==
    /\ Awaits(git.lock, Acquiring)
    /\ \A w \in Waiters(git.lock) : w.channel = ChannelOf(w.turn)

\* A loop runs in a callback, which finds no prompt() frame to be resumed.
SpanIsAlone == span # <<>> => callers = <<>>

Base == TypeInv /\ Frames /\ MapAgrees /\ Waiting /\ SpanIsAlone

-----------------------------------------------------------------------------
(* Every step is of one of nine kinds *)

\* No prompt() frame waits to be resumed, before or after.
NoCallers == callers = <<>> /\ callers' = <<>>

\* The git record once the next continuation of acquire() has been taken.
Resumed == [git EXCEPT !.lock.settled = Tail(@)]

\* No turn, no session and no lock is touched.
Quiet ==
    /\ NoCallers
    /\ UNCHANGED <<sessions, turns, openTurn, live>>
    /\ git' = git \/ (ShutdownStep /\ git' = Sweep(git))
    /\ Len(obj') = Len(obj)
    /\ \A i \in SessionId :
         /\ Held(obj[i], obj'[i]) /\ obj'[i].prompting = obj[i].prompting
         /\ obj'[i].row = obj[i].row /\ (obj'[i].acp => obj[i].acp)
         /\ obj'[i].plan \in {obj[i].plan, 0}
         /\ obj'[i].process \in {obj[i].process, "exited"}
    /\ \A d \in Channel : killed'[d] \in {killed[d], 0}

\* The session of channel c ends in a callback or in a loop.
Drops(c, process) ==
    /\ NoCallers
    /\ git.lock.settled = <<>> \/ span # <<>>
    /\ sessions[c] # 0 /\ EndFacts(c, obj, process)
    /\ \/ git' = AbortTurn(git, c)
       \/ git' = Abort(git, c) /\ ("die_parked" \in Races \/ ~Parked(c))
    /\ UNCHANGED turns

\* prompt() goes on with session s, at once or behind its await.
Asks(s, m) ==
    /\ PromptFacts(s, m) /\ span = <<>>
    /\ \/ NoCallers /\ git.lock.settled = <<>> /\ InMap(s)
       \/ /\ callers # <<>> /\ callers' = Tail(callers)
          /\ s = Head(callers).session /\ m = Head(callers).message

\* Channel c's creation or reactivation succeeds.
Installs(c, memory) ==
    AtRest /\ pending[c].stage # "none" /\ InstallFacts(c, memory)

\* The next continuation of acquire() belongs to turn t.
Resumes(t) ==
    /\ NoCallers /\ span = <<>>
    /\ git.lock.settled # <<>> /\ t = Head(git.lock.settled).turn

\* Turn t has the lock and sends its prompt.
Begins(t) ==
    /\ Resumes(t) /\ Head(git.lock.settled).granted
    /\ git' = Begin(Resumed, ChannelOf(t), obj[turns[t].session].activeUserId)
    /\ Len(turns') = Len(turns)
    /\ \A u \in TurnId :
         /\ turns'[u].session = turns[u].session /\ turns'[u].user = turns[u].user
         /\ turns'[u].phase = IF u = t THEN "prompting" ELSE turns[u].phase
    /\ UNCHANGED <<sessions, obj, openTurn, live, killed>>

\* Turn t ends without an error, and with g as the git record: its agent has
\* answered, or it was stopped before or after it got the lock.
Settles(t, g) ==
    /\ SettleFacts(t, g)
    /\ \/ /\ NoCallers /\ AtRest /\ turns[t].phase = "prompting"
          /\ obj[turns[t].session].plan = 0
          /\ g = End(git, ChannelOf(t))
       \/ /\ Resumes(t) /\ Head(git.lock.settled).granted
          /\ g = End(Begin(Resumed, ChannelOf(t), obj[turns[t].session].activeUserId),
                     ChannelOf(t))
       \/ /\ Resumes(t) /\ ~Head(git.lock.settled).granted
          /\ g = [Resumed EXCEPT !.lock = ReleaseIfHeldBy(@, ChannelOf(t))]

\* Turn t ends with an error, and with g as the git record.
Fails(t, g) ==
    /\ FailFacts(t, g)
    /\ \/ /\ NoCallers /\ AtRest /\ turns[t].phase = "prompting"
          /\ g = End(AfterCatch(git, ChannelOf(t)), ChannelOf(t))
       \/ /\ Resumes(t) /\ Head(git.lock.settled).granted
          /\ \E thrown \in BeginThrows(Resumed, ChannelOf(t)) :
               g = [AfterCatch(thrown, ChannelOf(t)) EXCEPT
                      !.lock = ReleaseIfHeldBy(@, ChannelOf(t))]

\* The running turn t of its channel is stopped.
Halts(t) ==
    /\ NoCallers /\ AtRest
    /\ sessions[ChannelOf(t)] # 0 /\ obj[sessions[ChannelOf(t)]].currentTurnId = t
    /\ StopFacts(ChannelOf(t))

\* A plan gate opens for the session of turn t's channel.
Gates(t) ==
    LET s == sessions[ChannelOf(t)]
    IN  /\ NoCallers /\ AtRest /\ turns[t].phase = "prompting" /\ s # 0
        /\ Len(obj') = Len(obj)
        /\ \A i \in SessionId :
             /\ Held(obj[i], obj'[i]) /\ obj'[i].prompting = obj[i].prompting
             /\ obj'[i].row = obj[i].row /\ (obj'[i].acp => obj[i].acp)
             /\ obj'[i].process = obj[i].process
             /\ i # s => obj'[i].plan = obj[i].plan
        /\ UNCHANGED <<git, sessions, turns, openTurn, live, killed>>

Kind ==
    \/ Quiet
    \/ \E c \in Channel : \/ \E process \in {"terminating", "exited"} : Drops(c, process)
                          \/ \E memory \in Nat : Installs(c, memory)
    \/ \E s \in SessionId, m \in Message : Asks(s, m)
    \/ \E t \in TurnId : \/ Begins(t) \/ Halts(t)
                         \/ Gates(t)
                         \/ \E g \in ServedGit(TurnId) : Settles(t, g) \/ Fails(t, g)

\* The objects as a callback leaves them when it touches none.
LEMMA SameObjects ==
    ASSUME UNCHANGED obj
    PROVE  /\ Len(obj') = Len(obj)
           /\ \A i \in SessionId :
                /\ Held(obj[i], obj'[i]) /\ obj'[i].prompting = obj[i].prompting
                /\ obj'[i].row = obj[i].row /\ (obj'[i].acp => obj[i].acp)
                /\ obj'[i].plan \in {obj[i].plan, 0}
                /\ obj'[i].process \in {obj[i].process, "exited"}
  BY DEF Held

\* A callback that touches no object.
LEMMA NothingIsQuiet ==
    ASSUME NoCallers, UNCHANGED <<git, sessions, obj, turns, openTurn, live>>,
           \A d \in Channel : killed'[d] \in {killed[d], 0}
    PROVE  Quiet
  BY SameObjects DEF Quiet

\* A callback that only gives object s other values of the fields that turns
\* do not read.
LEMMA ObjectIsQuiet ==
    ASSUME CoreType, NEW s \in SessionId, NEW v \in ManagedSession,
           obj' = [obj EXCEPT ![s] = v],
           Held(obj[s], v), v.prompting = obj[s].prompting,
           v.row = obj[s].row, v.acp => obj[s].acp, v.plan \in {obj[s].plan, 0},
           v.process \in {obj[s].process, "exited"},
           NoCallers, UNCHANGED <<git, sessions, turns, openTurn, live, killed>>
    PROVE  Quiet
<1>1. /\ Len(obj') = Len(obj)
      /\ \A i \in SessionId : obj'[i] = IF i = s THEN v ELSE obj[i]
  BY DEF CoreType, SessionId
<1> QED
  BY <1>1 DEF Quiet, Held

\* prompt() up to its first await.
LEMMA RequestPromptKind ==
    ASSUME Base, NEW c \in Channel, NEW m \in Message, NEW k, AtRest,
           \A d \in Channel : k[d] \in {killed[d], 0}, RequestPrompt(c, m, k)
    PROVE  Kind
<1>1. NoCallers /\ span = <<>> /\ git.lock.settled = <<>>
  BY DEF RequestPrompt, AtRest, MicrotasksDue, NoCallers
<1>2. CASE sessions[c] # 0 /\ ContinuePrompt(sessions[c], m)
  <2> DEFINE s == sessions[c]
  <2>1. s \in SessionId /\ CoreType
    BY <1>2 DEF Base, TypeInv, CoreType, SessionId
  <2>2. InMap(s) /\ (obj[s].prompting => obj[s].currentTurnId # 0)
    <3>1. obj[s].prompting => obj[s].currentTurnId \in TurnId
      BY <2>1 DEF Base, Frames
    <3> QED
      BY <1>2, <3>1 DEF Base, MapAgrees, InMap, TurnId
  <2> HIDE DEF s
  <2>3. PromptFacts(s, m)
    BY <1>2, <2>1, <2>2, ContinuePromptFacts DEF s
  <2> QED
    BY <1>1, <2>1, <2>2, <2>3 DEF Kind, Asks
<1>3. CASE killed' = k /\ UNCHANGED <<git, sessions, obj, turns, openTurn, live>>
  BY <1>1, <1>3, NothingIsQuiet DEF Kind
<1> QED
  BY <1>2, <1>3 DEF RequestPrompt

\* A message from Discord.
LEMMA PromptKind ==
    ASSUME Base, NEW c \in Channel, NEW m \in Message, Prompt(c, m)
    PROVE  Kind
  BY RequestPromptKind DEF Prompt

\* The end of a session in a callback.
LEMMA TeardownIsDrops ==
    ASSUME TypeInv, NoCallers, git.lock.settled = <<>> \/ span # <<>>,
           NEW c \in Channel, sessions[c] # 0,
           NEW process \in {"terminating", "exited"},
           EndSession(c, obj, killed, process),
           \/ git' = AbortTurn(git, c)
           \/ git' = Abort(git, c) /\ ("die_parked" \in Races \/ ~Parked(c)),
           UNCHANGED turns
    PROVE  Kind
<1>1. CoreType /\ killed \in [Channel -> Nat] /\ obj \in Seq(ManagedSession)
  BY DEF TypeInv, CoreType
<1>2. EndFacts(c, obj, process)
  BY <1>1, EndSessionFacts
<1> QED
  BY <1>2 DEF Kind, Drops

\* The same, of objects a callback has touched first.
LEMMA TouchedIsDrops ==
    ASSUME TypeInv, NoCallers, git.lock.settled = <<>>,
           NEW c \in Channel, sessions[c] # 0,
           NEW s \in SessionId, NEW v \in ManagedSession,
           Held(obj[s], v), v.prompting = obj[s].prompting, SameFate(obj[s], v),
           v.acp => obj[s].acp,
           EndSession(c, [obj EXCEPT ![s] = v], killed, "terminating"),
           git' = AbortTurn(git, c), UNCHANGED turns
    PROVE  Kind
<1> DEFINE o == [obj EXCEPT ![s] = v]
<1>1. CoreType /\ killed \in [Channel -> Nat] /\ obj \in Seq(ManagedSession)
      /\ s \in 1 .. Len(obj) /\ sessions[c] \in SessionId
  BY DEF TypeInv, CoreType, SessionId
<1>2. /\ o \in Seq(ManagedSession) /\ Len(o) = Len(obj)
      /\ \A i \in SessionId : o[i] = IF i = s THEN v ELSE obj[i]
  BY <1>1, UpdateType DEF SessionId
<1> HIDE DEF o
<1>3. EndFacts(c, o, "terminating")
  BY <1>1, <1>2, EndSessionFacts DEF o
<1>4. \A i \in SessionId : /\ Held(obj[i], o[i]) /\ o[i].prompting = obj[i].prompting
                           /\ SameFate(obj[i], o[i]) /\ (o[i].acp => obj[i].acp)
  BY <1>2 DEF Held, SameFate
<1>5. \A i \in SessionId :
        /\ Held(obj[i], obj'[i]) /\ obj'[i].prompting = obj[i].prompting
        /\ obj'[i].acp => obj[i].acp
        /\ i # sessions[c] => SameFate(obj[i], obj'[i])
  <2> TAKE i \in SessionId
  <2>1. /\ Held(o[i], obj'[i]) /\ obj'[i].prompting = o[i].prompting
        /\ obj'[i].acp => o[i].acp
        /\ i # sessions[c] => SameFate(o[i], obj'[i])
    BY <1>3 DEF EndFacts
  <2>2. Held(obj[i], obj'[i])
    BY <1>4, <2>1 DEF Held
  <2>3. i # sessions[c] => SameFate(obj[i], obj'[i])
    BY <1>4, <2>1 DEF SameFate
  <2> QED
    BY <1>4, <2>1, <2>2, <2>3
<1>6. o[sessions[c]].row = obj[sessions[c]].row
  BY <1>1, <1>4 DEF SameFate
<1>7. EndFacts(c, obj, "terminating")
  BY <1>1, <1>3, <1>5, <1>6 DEF EndFacts
<1> QED
  BY <1>7 DEF Kind, Drops

\* The object of a mapped session.
LEMMA MappedObject ==
    ASSUME TypeInv, NEW c \in Channel, sessions[c] # 0
    PROVE  sessions[c] \in SessionId /\ obj[sessions[c]] \in ManagedSession
  BY DEF TypeInv, CoreType, SessionId

\* An agent is reloaded, or the attempt falls back to a new one.
LEMMA LoadResolvesKind ==
    ASSUME Base, NEW c \in Channel, LoadResolves(c)
    PROVE  /\ Kind
           /\ \/ FallBackToCreate(c)
              \/ ~pending[c].cancelled /\ Installs(c, pending[c].epoch)
<1> DEFINE r == LatestRow(c)
           closed == [obj[r] EXCEPT !.row = CloseSession(@)]
           o == [obj EXCEPT ![r] = closed]
<1>1. TypeInv /\ CoreType /\ AtRest /\ callers = <<>> /\ pending[c].stage # "none"
  BY DEF Base, TypeInv, LoadResolves, AtRest, MicrotasksDue
<1>2. CASE FallBackToCreate(c)
  BY <1>1, <1>2, NothingIsQuiet DEF FallBackToCreate, NoCallers, Kind
<1>3. CASE /\ Resumable(c) /\ ~pending[c].cancelled
           /\ \E imageCapable \in {TRUE, ~Images}, inserted \in {TRUE, ~Faults} :
                InstallSession(c, [obj EXCEPT ![r].row = CloseSession(@)],
                               pending[c].epoch, imageCapable, inserted)
  <2>1. r \in 1 .. Len(obj) /\ obj \in Seq(ManagedSession)
    BY <1>1, <1>3, LatestRowType DEF Resumable, CoreType
  <2>2. obj[r] \in ManagedSession
    BY <2>1
  <2>3. closed \in ManagedSession
    BY <2>2 DEF ManagedSession, CloseSession
  <2>4. /\ Held(obj[r], closed) /\ closed.prompting = obj[r].prompting
        /\ closed.acp = obj[r].acp /\ closed.process = obj[r].process
        /\ closed.plan = obj[r].plan
        /\ closed.row = CloseSession(obj[r].row)
    BY <2>2 DEF ManagedSession, Held
  <2>5. [obj EXCEPT ![r].row = CloseSession(@)] = o
    OBVIOUS
  <2>6. pending[c].epoch \in Nat
    <3>1. pending[c] \in Pending \ {NoPending}
      BY <1>1 DEF TypeInv, RestType, Pending, NoPending
    <3> QED
      BY <3>1 DEF Pending
  <2>7. PICK imageCapable \in BOOLEAN, inserted \in BOOLEAN :
          InstallSession(c, o, pending[c].epoch, imageCapable, inserted)
    BY <1>3, <2>5, BoundsAssumption, Zenon
  <2> HIDE DEF r, closed
  <2>8. /\ o \in Seq(ManagedSession) /\ Len(o) = Len(obj)
        /\ \A i \in SessionId : o[i] = IF i = r THEN closed ELSE obj[i]
    BY <2>1, <2>2, <2>3, UpdateType DEF SessionId
  <2> HIDE DEF o
  <2>9. \A i \in SessionId :
          /\ Held(obj[i], o[i]) /\ o[i].prompting = obj[i].prompting
          /\ o[i].acp = obj[i].acp /\ o[i].process = obj[i].process
          /\ o[i].plan = obj[i].plan
          /\ o[i].row \in {obj[i].row, CloseSession(obj[i].row)}
    BY <2>4, <2>8 DEF Held
  <2>10. InstallFacts(c, pending[c].epoch)
    BY <1>1, <2>6, <2>7, <2>8, <2>9, InstallSessionFacts
  <2> QED
    BY <1>1, <1>3, <2>6, <2>10 DEF Kind, Installs
<1> QED
  BY <1>2, <1>3 DEF LoadResolves

\* An agent is started.
LEMMA CreateResolvesKind ==
    ASSUME Base, NEW c \in Channel, CreateResolves(c)
    PROVE  Kind /\ Installs(c, epoch[c])
<1>1. TypeInv /\ AtRest /\ pending[c].stage # "none"
  BY DEF Base, CreateResolves
<1>2. obj \in Seq(ManagedSession) /\ epoch[c] \in Nat
  BY <1>1 DEF TypeInv, CoreType, RestType
<1>3. PICK imageCapable \in BOOLEAN, inserted \in BOOLEAN :
        InstallSession(c, obj, epoch[c], imageCapable, inserted)
  BY BoundsAssumption, Zenon DEF CreateResolves
<1>4. InstallFacts(c, epoch[c])
  BY <1>1, <1>2, <1>3, InstallSessionFacts DEF Held
<1> QED
  BY <1>1, <1>2, <1>4 DEF Kind, Installs

\* The attempts that end without a session.
LEMMA RejectsKind ==
    ASSUME Base, NEW c \in Channel, LoadRejects(c) \/ CreateRejects(c)
    PROVE  Kind
  BY NothingIsQuiet DEF LoadRejects, CreateRejects, FallBackToCreate, NoCallers,
     Kind, AtRest, MicrotasksDue

\* One round of evictIfNeeded(), or what comes behind it.
LEMMA CreateStepKind ==
    ASSUME Base, CreateStep
    PROVE  Kind
<1>1. TypeInv /\ CoreType /\ NoCallers /\ UNCHANGED turns /\ span # <<>>
  BY DEF Base, TypeInv, SpanIsAlone, CreateStep, NoCallers
<1>2. CASE /\ LongestIdle # 0
           /\ LET victim == obj[recency[LongestIdle]].channelId
              IN  /\ EndSession(victim, obj, killed, "terminating")
                  /\ git' = AbortTurn(git, victim)
  <2> DEFINE s == recency[LongestIdle]
             c == obj[s].channelId
  <2>1. s \in 1 .. Len(obj) /\ InMap(s)
    BY <1>1, <1>2, LongestIdleType DEF CoreType, SessionId
  <2>2. obj[s] \in ManagedSession
    BY <1>1, <2>1 DEF CoreType
  <2>3. c \in Channel /\ sessions[c] # 0
    BY <2>1, <2>2 DEF ManagedSession, InMap
  <2>4. /\ EndSession(c, obj, killed, "terminating")
        /\ git' = AbortTurn(git, c)
    BY <1>2
  <2> HIDE DEF c
  <2> QED
    BY <1>1, <2>3, <2>4, TeardownIsDrops
<1>3. CASE UNCHANGED <<git, sessions, recency, obj, openTurn, live, killed>>
  BY <1>1, <1>3, NothingIsQuiet DEF Kind
<1> QED
  BY <1>2, <1>3 DEF CreateStep

\* /clear.
LEMMA ClearKind ==
    ASSUME Base, NEW c \in Channel, Clear(c)
    PROVE  Kind
<1> DEFINE r == LatestRow(c)
           v == [obj[r] EXCEPT !.acp = FALSE]
<1>1. /\ TypeInv /\ CoreType /\ NoCallers /\ UNCHANGED turns
      /\ git.lock.settled = <<>>
  BY DEF Base, TypeInv, Clear, NoCallers, AtRest, MicrotasksDue
<1>2. CASE r = 0
  <2>1. \/ /\ sessions[c] # 0
           /\ EndSession(c, obj, killed, "terminating")
           /\ git' = AbortTurn(git, c)
        \/ UNCHANGED <<git, sessions, obj, openTurn, live, killed>>
    BY <1>2 DEF Clear
  <2> QED
    BY <1>1, <2>1, TeardownIsDrops, NothingIsQuiet DEF Kind
<1>3. CASE r # 0
  <2>1. r \in SessionId
    BY <1>1, <1>3, LatestRowType DEF SessionId
  <2>2. obj[r] \in ManagedSession
    BY <1>1, <2>1 DEF CoreType, SessionId
  <2>3. /\ v \in ManagedSession
        /\ Held(obj[r], v) /\ v.prompting = obj[r].prompting
        /\ SameFate(obj[r], v) /\ ~v.acp
    BY <2>2 DEF ManagedSession, Held, SameFate
  <2>4. \/ /\ sessions[c] # 0
           /\ EndSession(c, [obj EXCEPT ![r] = v], killed, "terminating")
           /\ git' = AbortTurn(git, c)
        \/ /\ obj' = [obj EXCEPT ![r] = v]
           /\ UNCHANGED <<git, sessions, openTurn, live, killed>>
    BY <1>3 DEF Clear
  <2> HIDE DEF r, v
  <2>5. CASE /\ sessions[c] # 0
             /\ EndSession(c, [obj EXCEPT ![r] = v], killed, "terminating")
             /\ git' = AbortTurn(git, c)
    BY <1>1, <2>1, <2>3, <2>5, TouchedIsDrops
  <2>6. CASE /\ obj' = [obj EXCEPT ![r] = v]
             /\ UNCHANGED <<git, sessions, openTurn, live, killed>>
    <3>1. v.row = obj[r].row /\ v.plan = obj[r].plan /\ v.process = obj[r].process
      BY <2>3 DEF SameFate
    <3> QED
      BY <1>1, <2>1, <2>3, <2>6, <3>1, ObjectIsQuiet DEF Kind
  <2> QED
    BY <2>4, <2>5, <2>6
<1> QED
  BY <1>2, <1>3

\* An idle timer fires.
LEMMA IdleTimeoutKind ==
    ASSUME Base, NEW s \in SessionId, IdleTimeout(s)
    PROVE  Kind
<1> DEFINE c == obj[s].channelId
           v == [obj[s] EXCEPT !.idleTimer = FALSE]
<1>1. /\ TypeInv /\ CoreType /\ NoCallers /\ UNCHANGED turns
      /\ git.lock.settled = <<>>
  BY DEF Base, TypeInv, IdleTimeout, TeardownCallback, NoOtherFrame, NoCallers,
         AtRest, MicrotasksDue
<1>2. obj[s] \in ManagedSession
  BY <1>1 DEF CoreType, SessionId
<1>3. /\ v \in ManagedSession /\ c \in Channel
      /\ Held(obj[s], v) /\ v.prompting = obj[s].prompting
      /\ SameFate(obj[s], v) /\ v.acp = obj[s].acp
  BY <1>2 DEF ManagedSession, Held, SameFate
<1>4. [obj EXCEPT ![s].idleTimer = FALSE] = [obj EXCEPT ![s] = v]
  OBVIOUS
<1>5. \/ /\ sessions[c] # 0
         /\ EndSession(c, [obj EXCEPT ![s] = v], killed, "terminating")
         /\ git' = AbortTurn(git, c)
      \/ /\ obj' = [obj EXCEPT ![s] = v]
         /\ UNCHANGED <<git, sessions, openTurn, live, killed>>
  BY <1>4 DEF IdleTimeout, TeardownCallback
<1> HIDE DEF c, v
<1>6. CASE /\ sessions[c] # 0
           /\ EndSession(c, [obj EXCEPT ![s] = v], killed, "terminating")
           /\ git' = AbortTurn(git, c)
  BY <1>1, <1>3, <1>6, TouchedIsDrops
<1>7. CASE /\ obj' = [obj EXCEPT ![s] = v]
           /\ UNCHANGED <<git, sessions, openTurn, live, killed>>
  <2>1. v.row = obj[s].row /\ v.plan = obj[s].plan /\ v.process = obj[s].process
    BY <1>3 DEF SameFate
  <2> QED
    BY <1>1, <1>3, <1>7, <2>1, ObjectIsQuiet DEF Kind
<1> QED
  BY <1>5, <1>6, <1>7

\* An agent process exits.
LEMMA ProcessExitsKind ==
    ASSUME Base, NEW s \in SessionId, ProcessExits(s)
    PROVE  Kind
<1> DEFINE c == obj[s].channelId
           v == [obj[s] EXCEPT !.process = "exited"]
<1>1. /\ TypeInv /\ CoreType /\ NoCallers /\ UNCHANGED turns
      /\ git.lock.settled = <<>> /\ s \in 1 .. Len(obj) /\ s # 0
  BY DEF Base, TypeInv, CoreType, ProcessExits, NoOtherFrame, NoCallers,
         AtRest, MicrotasksDue, SessionId
<1>2. obj[s] \in ManagedSession
  BY <1>1 DEF CoreType
<1>3. /\ v \in ManagedSession /\ c \in Channel
      /\ Held(obj[s], v) /\ v.prompting = obj[s].prompting
      /\ v.row = obj[s].row /\ v.acp = obj[s].acp /\ v.plan = obj[s].plan
      /\ v.process = "exited"
  BY <1>2 DEF ManagedSession, Held
<1>4. [obj EXCEPT ![s].process = "exited"] = [obj EXCEPT ![s] = v]
  OBVIOUS
<1>5. \/ /\ sessions[c] = s
         /\ "die_parked" \in Races \/ ~Parked(c)
         /\ EndSession(c, obj, killed, "exited")
         /\ git' = Abort(git, c)
      \/ /\ obj' = [obj EXCEPT ![s] = v]
         /\ UNCHANGED <<git, sessions, openTurn, live, killed>>
  BY <1>4 DEF ProcessExits
<1> HIDE DEF c, v
<1>6. CASE /\ sessions[c] = s
           /\ "die_parked" \in Races \/ ~Parked(c)
           /\ EndSession(c, obj, killed, "exited")
           /\ git' = Abort(git, c)
  BY <1>1, <1>3, <1>6, TeardownIsDrops
<1>7. CASE /\ obj' = [obj EXCEPT ![s] = v]
           /\ UNCHANGED <<git, sessions, openTurn, live, killed>>
  BY <1>1, <1>3, <1>7, ObjectIsQuiet DEF Kind
<1> QED
  BY <1>5, <1>6, <1>7

\* The loops of a poll tick and of the shutdown, and their beginnings.
LEMMA LoopsKind ==
    ASSUME Base, TeardownStep \/ ShutdownStep \/ PollTick \/ Shutdown
    PROVE  Kind
<1>1. TypeInv /\ CoreType /\ RestType /\ NoCallers /\ UNCHANGED turns
  BY DEF Base, TypeInv, SpanIsAlone, TeardownStep, ShutdownStep, PollTick,
         Shutdown, NoCallers, AtRest, MicrotasksDue
<1>2. CASE PollTick \/ Shutdown
  BY <1>1, <1>2, NothingIsQuiet DEF PollTick, Shutdown, Kind
<1>3. CASE TeardownStep
  <2> DEFINE c == Head(span).channel
  <2>1. span \in Seq(Teardown \cup {TeardownRest} \cup Create) /\ span # <<>>
    BY <1>1, <1>3 DEF TeardownStep, RestType
  <2>2. Head(span) \in Teardown \cup {TeardownRest} \cup Create
    BY <2>1
  <2>3. c \in Channel
    BY <1>3, <2>2 DEF TeardownStep, Teardown, TeardownRest, Create
  <2>4. \/ /\ sessions[c] # 0
           /\ EndSession(c, obj, killed, "terminating")
           /\ git' = AbortTurn(git, c)
        \/ UNCHANGED <<git, sessions, recency, obj, openTurn, live, killed>>
    BY <1>3 DEF TeardownStep
  <2> HIDE DEF c
  <2> QED
    BY <1>1, <2>1, <2>3, <2>4, TeardownIsDrops, NothingIsQuiet DEF Kind
<1>4. CASE ShutdownStep
  <2>1. \/ \E c \in Channel : /\ sessions[c] # 0
                              /\ EndSession(c, obj, killed, "terminating")
                              /\ git' = AbortTurn(git, c)
        \/ /\ git' = Sweep(git)
           /\ UNCHANGED <<sessions, recency, obj, openTurn, live, killed>>
    BY <1>4 DEF ShutdownStep, LiveSessions
  <2>2. CASE \E c \in Channel : /\ sessions[c] # 0
                                /\ EndSession(c, obj, killed, "terminating")
                                /\ git' = AbortTurn(git, c)
    BY <1>1, <1>4, <2>2, TeardownIsDrops DEF ShutdownStep
  <2>3. CASE /\ git' = Sweep(git)
             /\ UNCHANGED <<sessions, recency, obj, openTurn, live, killed>>
    BY <1>1, <1>4, <2>3, SameObjects DEF Quiet, Kind
  <2> QED
    BY <2>1, <2>2, <2>3
<1> QED
  BY <1>2, <1>3, <1>4

\* The plan timer fires, or a button of a gate is clicked.
LEMMA PlansKind ==
    ASSUME Base, NEW c \in Channel,
           PlanTimeout(c) \/ \E p \in 1 .. Len(gates) : PlanClick(c, p)
    PROVE  Kind
<1>1. TypeInv /\ CoreType /\ RestType /\ AtRest /\ callers = <<>> /\ git.lock.settled = <<>>
  BY DEF Base, TypeInv, PlanTimeout, PlanClick, AtRest, MicrotasksDue
<1>2. CASE PlanTimeout(c)
  BY <1>1, <1>2, TeardownIsDrops DEF PlanTimeout, TeardownCallback, NoOtherFrame, NoCallers
<1>3. ASSUME NEW p \in 1 .. Len(gates), PlanClick(c, p)
      PROVE  Kind
  <2> DEFINE s == sessions[c]
             v == [obj[s] EXCEPT !.plan = 0]
             m == [user |-> gates[p], image |-> FALSE]
             k == ForgetKilledPlan(killed, c)
  <2>1. CASE /\ s # 0
             /\ obj' = [obj EXCEPT ![s].plan = 0]
             /\ UNCHANGED <<git, sessions, recency, turns, openTurn, live, killed>>
             /\ NoOtherFrame
    <3>1. s \in SessionId /\ obj[s] \in ManagedSession
      BY <1>1, <2>1, MappedObject
    <3>2. /\ v \in ManagedSession
          /\ Held(obj[s], v) /\ v.prompting = obj[s].prompting
          /\ v.row = obj[s].row /\ v.acp = obj[s].acp /\ v.plan = 0
          /\ v.process = obj[s].process
      BY <3>1 DEF ManagedSession, Held
    <3>3. obj' = [obj EXCEPT ![s] = v]
      BY <2>1
    <3> HIDE DEF s, v
    <3> QED
      BY <1>1, <2>1, <3>1, <3>2, <3>3, ObjectIsQuiet DEF NoOtherFrame, NoCallers, Kind
  <2>2. CASE RequestPrompt(c, m, k)
    <3>1. m \in Message
      BY <1>1 DEF Message, RestType
    <3>2. \A d \in Channel : k[d] \in {killed[d], 0}
      BY <1>1 DEF ForgetKilledPlan, CoreType
    <3> HIDE DEF m, k
    <3> QED
      BY <1>1, <2>2, <3>1, <3>2, RequestPromptKind
  <2> QED
    BY <1>3, <2>1, <2>2 DEF PlanClick
<1> QED
  BY <1>2, <1>3

\* A prompt() frame resumes.
LEMMA RunCallerKind ==
    ASSUME Base, RunCaller
    PROVE  Kind
<1> DEFINE s == Head(callers).session
           m == Head(callers).message
<1>1. TypeInv /\ CoreType /\ RestType /\ callers \in Seq(Caller) /\ callers # <<>> /\ span = <<>>
  BY DEF Base, TypeInv, RestType, RunCaller
<1>2. Head(callers) \in Caller
  BY <1>1
<1>3. s \in SessionId /\ m \in Message
  BY <1>2 DEF Caller
<1>4. obj[s].prompting => obj[s].currentTurnId # 0
  BY <1>3 DEF Base, Frames, TurnId
<1>5. PromptFacts(s, m)
  BY <1>1, <1>3, <1>4, ContinuePromptFacts DEF RunCaller
<1> QED
  BY <1>1, <1>3, <1>5 DEF Kind, Asks, RunCaller

\* An executePrompt() frame resumes behind acquire().
LEMMA RunWaiterKind ==
    ASSUME Base, RunWaiter
    PROVE  Kind
<1> DEFINE next == Head(git.lock.settled)
           t == next.turn
           s == turns[t].session
           c == ChannelOf(t)
           g == Resumed
           begun == Begin(g, c, obj[s].activeUserId)
<1>1. CoreType /\ NoOtherFrame /\ git.lock.settled # <<>>
  BY DEF Base, TypeInv, RunWaiter
<1>2. /\ git \in ServedGit(TurnId) /\ git.lock \in ServedLock(TurnId)
      /\ git.lock.settled \in Seq(Settlement(TurnId))
  BY <1>1 DEF CoreType, ServedGit, ServedLock, Lock
<1>3. next \in Settlement(TurnId)
  BY <1>1, <1>2
<1>4. t \in TurnId
  BY <1>3 DEF Settlement
<1>5. Resumes(t)
  BY <1>1 DEF RunWaiter, NoOtherFrame, NoCallers, Resumes
<1>6. s \in SessionId /\ c \in Channel
  BY <1>1, <1>4, ChannelOfType
<1>7. g \in ServedGit(TurnId)
  <2> DEFINE rest == [git.lock EXCEPT !.settled = Tail(git.lock.settled)]
  <2>1. rest \in ServedLock(TurnId)
    <3>1. Tail(git.lock.settled) \in Seq(Settlement(TurnId))
      BY <1>1, <1>2
    <3> QED
      BY <1>2, <3>1 DEF ServedLock, Lock
  <2>2. g = [git EXCEPT !.lock = rest]
    BY DEF Resumed
  <2> QED
    BY <1>2, <2>1, <2>2, LockUpdateType
<1>8. begun \in ServedGit(TurnId)
  <2>1. obj[s] \in ManagedSession
    BY <1>1, <1>6 DEF CoreType, SessionId
  <2>2. obj[s].activeUserId \in User
    BY <2>1 DEF ManagedSession
  <2> QED
    BY <1>6, <1>7, <2>2, BeginType
<1>9. \/ /\ next.granted
         /\ git' = begun
         /\ turns' = [turns EXCEPT ![t].phase = "prompting"]
         /\ UNCHANGED <<sessions, recency, obj, openTurn, live, killed>>
      \/ next.granted /\ SettleTurn(t, End(begun, c))
      \/ /\ next.granted
         /\ \E thrown \in BeginThrows(g, c) :
              LET caught == AfterCatch(thrown, c)
              IN  FailTurn(t, [caught EXCEPT !.lock = ReleaseIfHeldBy(@, c)])
      \/ ~next.granted /\ SettleTurn(t, [g EXCEPT !.lock = ReleaseIfHeldBy(@, c)])
  BY DEF RunWaiter, Resumed
<1> HIDE DEF next, t, s, c, g, begun
<1>10. CASE /\ next.granted
            /\ git' = begun
            /\ turns' = [turns EXCEPT ![t].phase = "prompting"]
            /\ UNCHANGED <<sessions, recency, obj, openTurn, live, killed>>
  <2>1. /\ Len(turns') = Len(turns)
        /\ \A u \in TurnId :
             /\ turns'[u].session = turns[u].session /\ turns'[u].user = turns[u].user
             /\ turns'[u].phase = IF u = t THEN "prompting" ELSE turns[u].phase
    <3>1. turns' = [turns EXCEPT ![t].phase = "prompting"]
      BY <1>10
    <3> QED
      BY <1>1, <1>4, <3>1, DoneFacts
  <2>2. Begins(t)
    BY <1>5, <1>10, <2>1 DEF Begins, next, begun, s, c, g
  <2> QED
    BY <1>4, <2>2 DEF Kind
<1>11. CASE next.granted /\ SettleTurn(t, End(begun, c))
  <2>1. End(begun, c) \in ServedGit(TurnId)
    BY <1>6, <1>8, EndType
  <2>2. SettleFacts(t, End(begun, c))
    BY <1>1, <1>4, <1>11, SettleTurnFacts
  <2>3. Settles(t, End(begun, c))
    BY <1>5, <1>11, <2>2 DEF Settles, next, begun, s, c, g
  <2> QED
    BY <1>4, <2>1, <2>3 DEF Kind
<1>12. CASE /\ next.granted
            /\ \E thrown \in BeginThrows(g, c) :
                 LET caught == AfterCatch(thrown, c)
                 IN  FailTurn(t, [caught EXCEPT !.lock = ReleaseIfHeldBy(@, c)])
  <2>1. PICK thrown \in BeginThrows(g, c) :
          FailTurn(t, [AfterCatch(thrown, c) EXCEPT !.lock = ReleaseIfHeldBy(@, c)])
    BY <1>12
  <2> DEFINE caught == AfterCatch(thrown, c)
             after == [caught EXCEPT !.lock = ReleaseIfHeldBy(@, c)]
  <2>2. thrown \in ServedGit(TurnId)
    BY <1>6, <1>7, BeginThrowsType
  <2>3. caught \in ServedGit(TurnId)
    BY <1>6, <2>2, AfterCatchType
  <2>4. ReleaseIfHeldBy(caught.lock, c) \in ServedLock(TurnId)
    BY <1>6, <2>3, ReleaseIfHeldByType DEF ServedGit
  <2>5. after \in ServedGit(TurnId)
    BY <2>3, <2>4, LockUpdateType
  <2>6. FailFacts(t, after)
    BY <1>1, <1>4, <2>1, FailTurnFacts
  <2>7. Fails(t, after)
    BY <1>5, <1>12, <2>6 DEF Fails, next, c, g
  <2> QED
    BY <1>4, <2>5, <2>7 DEF Kind
<1>13. CASE ~next.granted /\ SettleTurn(t, [g EXCEPT !.lock = ReleaseIfHeldBy(@, c)])
  <2> DEFINE after == [g EXCEPT !.lock = ReleaseIfHeldBy(@, c)]
  <2>1. ReleaseIfHeldBy(g.lock, c) \in ServedLock(TurnId)
    BY <1>6, <1>7, ReleaseIfHeldByType DEF ServedGit
  <2>2. after \in ServedGit(TurnId)
    BY <1>7, <2>1, LockUpdateType
  <2>3. SettleFacts(t, after)
    BY <1>1, <1>4, <1>13, SettleTurnFacts
  <2>4. Settles(t, after)
    BY <1>5, <1>13, <2>3 DEF Settles, next, c, g
  <2> QED
    BY <1>4, <2>2, <2>4 DEF Kind
<1> QED
  BY <1>9, <1>10, <1>11, <1>12, <1>13

\* An agent answers or fails, a turn is stopped, a plan gate opens.
LEMMA TurnKind ==
    ASSUME Base, NEW t \in TurnId,
           PromptResolves(t) \/ PromptRejects(t) \/ Stop(t) \/ PlanNeeded(t)
    PROVE  Kind
<1> DEFINE c == ChannelOf(t)
<1>1. CoreType /\ git \in ServedGit(TurnId)
  BY DEF Base, TypeInv, CoreType
<1>2. c \in Channel
  BY <1>1, ChannelOfType
<1>3. ASSUME AtRest, NoOtherFrame PROVE NoCallers
  BY <1>3 DEF AtRest, MicrotasksDue, NoOtherFrame, NoCallers
<1>4. CASE PromptResolves(t)
  <2>1. End(git, c) \in ServedGit(TurnId)
    BY <1>1, <1>2, EndType
  <2>2. SettleFacts(t, End(git, c))
    BY <1>1, <1>4, SettleTurnFacts DEF PromptResolves
  <2>3. Settles(t, End(git, c))
    BY <1>3, <1>4, <2>2 DEF PromptResolves, Settles
  <2> QED
    BY <2>1, <2>3 DEF Kind
<1>5. CASE PromptRejects(t)
  <2> DEFINE g == End(AfterCatch(git, c), c)
  <2>1. g \in ServedGit(TurnId)
    BY <1>1, <1>2, AfterCatchType, EndType
  <2>2. FailFacts(t, g)
    BY <1>1, <1>5, FailTurnFacts DEF PromptRejects
  <2>3. Fails(t, g)
    BY <1>3, <1>5, <2>2 DEF PromptRejects, Fails
  <2> QED
    BY <2>1, <2>3 DEF Kind
<1>6. CASE Stop(t)
  <2>1. StopFacts(c)
    BY <1>1, <1>6, StopHasFacts
  <2>2. Halts(t)
    BY <1>3, <1>6, <2>1 DEF Stop, Halts
  <2> QED
    BY <2>2 DEF Kind
<1>7. CASE PlanNeeded(t)
  <2> DEFINE s == sessions[c]
             v == [obj[s] EXCEPT !.plan = Len(gates) + 1]
  <2>1. s # 0 /\ AtRest /\ NoCallers
    BY <1>7 DEF PlanNeeded, NoCallers, AtRest, MicrotasksDue
  <2>2. s \in 1 .. Len(obj) /\ obj \in Seq(ManagedSession)
    BY <1>1, <1>2, <2>1 DEF CoreType
  <2>3. obj[s] \in ManagedSession
    BY <2>2
  <2>4. /\ Held(obj[s], v) /\ v.prompting = obj[s].prompting
        /\ v.row = obj[s].row /\ v.acp = obj[s].acp /\ v.process = obj[s].process
    BY <2>3 DEF ManagedSession, Held
  <2>5. obj' = [obj EXCEPT ![s] = v]
    BY <1>7 DEF PlanNeeded
  <2> HIDE DEF v, s
  <2>6. /\ Len(obj') = Len(obj)
        /\ \A i \in SessionId : obj'[i] = IF i = s THEN v ELSE obj[i]
    BY <2>2, <2>5 DEF SessionId
  <2>7. Gates(t)
    BY ZenonT(40), <1>7, <2>1, <2>4, <2>6 DEF PlanNeeded, Gates, Held, s
  <2> QED
    BY <2>7 DEF Kind
<1> QED
  BY <1>4, <1>5, <1>6, <1>7

\* Every step of the bot is of one of these kinds.
LEMMA StepIsKind ==
    ASSUME Base, Next
    PROVE  Kind
  BY PromptKind, LoadResolvesKind, RejectsKind, CreateResolvesKind, ClearKind,
     PlansKind, TurnKind, IdleTimeoutKind, ProcessExitsKind, CreateStepKind,
     LoopsKind, RunCallerKind, RunWaiterKind
  DEF Next

-----------------------------------------------------------------------------
(* What no step takes back *)

\* b is what a step may make of the object a: its channel and its memory are
\* its own, an agent does not come back to life, nor is a row opened again.
Fate(a, b) ==
    /\ b.channelId = a.channelId /\ b.epoch = a.epoch
    /\ b.process = "running" => a.process = "running"
    /\ b.row = "none" <=> a.row = "none"
    /\ b.row = "open" => a.row = "open"
    /\ b.acp => a.acp

\* A session leaves the map with its agent killed and its row closed.
Given == \A c \in Channel :
            \/ sessions'[c] = sessions[c]
            \/ /\ sessions'[c] = 0
               /\ obj'[sessions[c]].process # "running"
               /\ obj'[sessions[c]].row # "open"

\* No session enters the map.
NoneInstalled == Len(obj') = Len(obj) /\ Given

Evolves ==
    /\ \A i \in SessionId : Fate(obj[i], obj'[i])
    /\ Len(turns') \in {Len(turns), Len(turns) + 1}
    /\ \A t \in TurnId : /\ turns'[t].session = turns[t].session
                         /\ turns'[t].user = turns[t].user
    /\ \/ NoneInstalled
       \/ \E c \in Channel, memory \in Nat : Installs(c, memory)

\* A session that is given up.
LEMMA EndFates ==
    ASSUME CoreType, NEW c \in Channel, NEW o \in Seq(ManagedSession), Len(o) = Len(obj),
           \A i \in SessionId : Fate(obj[i], o[i]),
           NEW process \in {"terminating", "exited"}, EndFacts(c, o, process)
    PROVE  NoneInstalled /\ \A i \in SessionId : Fate(obj[i], obj'[i])
<1>1. sessions[c] # 0 => sessions[c] \in SessionId
  BY DEF CoreType, SessionId
<1>2. ASSUME NEW i \in SessionId, i # sessions[c]
      PROVE  Fate(obj[i], obj'[i])
  BY <1>2 DEF EndFacts, Held, SameFate, Fate
<1>3. ASSUME NEW i \in SessionId, i = sessions[c], i # 0
      PROVE  /\ Fate(obj[i], obj'[i])
             /\ obj'[i].process # "running" /\ obj'[i].row # "open"
  <2>1. /\ Held(o[i], obj'[i]) /\ (obj'[i].acp => o[i].acp)
        /\ obj'[i].process = process /\ obj'[i].row = CloseSession(o[i].row)
    BY <1>3 DEF EndFacts
  <2> QED
    BY <2>1 DEF Held, Fate, CloseSession
<1>4. Len(obj') = Len(obj)
      /\ \A d \in Channel : sessions'[d] = IF d = c THEN 0 ELSE sessions[d]
  BY DEF EndFacts
<1>5. Given
  BY <1>1, <1>3, <1>4 DEF Given
<1>6. 0 \notin SessionId
  BY DEF SessionId
<1> QED
  BY <1>2, <1>3, <1>4, <1>5, <1>6 DEF NoneInstalled

\* Nothing that the fate of an object depends on has changed.
LEMMA BodyFates ==
    ASSUME Len(obj') = Len(obj), UNCHANGED sessions, NEW s \in SessionId,
           SameBody(obj[s], obj'[s]), \A i \in SessionId : i # s => obj'[i] = obj[i]
    PROVE  NoneInstalled /\ \A i \in SessionId : Fate(obj[i], obj'[i])
  BY DEF NoneInstalled, Given, SameBody, Fate

\* A turn that starts keeps those before it.
LEMMA StartFates ==
    ASSUME CoreType, NEW s \in SessionId, NEW m, NEW q, NEW g,
           NEW ts, Len(ts) = Len(turns),
           \A t \in TurnId : ts[t].session = turns[t].session /\ ts[t].user = turns[t].user,
           StartFacts(s, m, q, ts, g)
    PROVE  Evolves
<1>1. NoneInstalled /\ \A i \in SessionId : Fate(obj[i], obj'[i])
  BY BodyFates DEF StartFacts
<1>2. /\ Len(turns') = Len(turns) + 1
      /\ \A t \in TurnId : /\ turns'[t].session = turns[t].session
                           /\ turns'[t].user = turns[t].user
  BY DEF StartFacts, TurnId
<1> QED
  BY <1>1, <1>2 DEF Evolves

\* An object's fields have their types.
LEMMA ObjectType ==
    ASSUME CoreType, NEW s \in SessionId
    PROVE  /\ obj[s] \in ManagedSession /\ obj[s].channelId \in Channel
           /\ obj[s].queue \in Seq(Message) /\ obj[s].currentTurnId \in Nat
<1>1. obj[s] \in ManagedSession
  BY DEF CoreType, SessionId
<1> QED
  BY <1>1 DEF ManagedSession

\* prompt() with its session.
LEMMA AsksEvolves ==
    ASSUME CoreType, NEW s \in SessionId, NEW m \in Message, PromptFacts(s, m)
    PROVE  Evolves
<1> DEFINE c == obj[s].channelId
<1>1. c \in Channel
  BY ObjectType
<1>2. ASSUME EndFacts(c, obj, "terminating"), UNCHANGED turns
      PROVE  Evolves
  <2>1. \A i \in SessionId : Fate(obj[i], obj[i])
    BY DEF Fate
  <2>2. obj \in Seq(ManagedSession)
    BY DEF CoreType
  <2> HIDE DEF c
  <2>3. NoneInstalled /\ \A i \in SessionId : Fate(obj[i], obj'[i])
    BY <1>1, <1>2, <2>1, <2>2, EndFates
  <2> QED
    BY <1>2, <2>3 DEF Evolves
<1>3. ASSUME NEW q, TouchFacts(s, q)
      PROVE  Evolves
  <2>1. NoneInstalled /\ \A i \in SessionId : Fate(obj[i], obj'[i])
    BY <1>3, BodyFates DEF TouchFacts
  <2> QED
    BY <1>3, <2>1 DEF TouchFacts, Evolves
<1>4. ASSUME StartFacts(s, m, obj[s].queue, turns, git)
      PROVE  Evolves
  BY <1>4, StartFates
<1> QED
  BY <1>2, <1>3, <1>4 DEF PromptFacts

\* A turn that returns, with what its finally block does.
LEMMA SettlesEvolves ==
    ASSUME CoreType, NEW t \in TurnId, NEW g, SettleFacts(t, g)
    PROVE  Evolves
<1> DEFINE s == turns[t].session
           ts == [turns EXCEPT ![t].phase = "done"]
<1>1. s \in SessionId
  BY ChannelOfType
<1>2. CASE RestFacts(t, g) /\ UNCHANGED sessions
  <2>1. NoneInstalled /\ \A i \in SessionId : Fate(obj[i], obj'[i])
    BY <1>1, <1>2, BodyFates DEF RestFacts
  <2> QED
    BY <1>2, <2>1 DEF RestFacts, ReturnFacts, Evolves
<1>3. CASE StartFacts(s, Head(obj[s].queue), Tail(obj[s].queue), ts, g)
  <2>1. /\ Len(ts) = Len(turns)
        /\ \A u \in TurnId : ts[u].session = turns[u].session /\ ts[u].user = turns[u].user
    BY DoneFacts
  <2> HIDE DEF ts, s
  <2> QED
    BY <1>1, <1>3, <2>1, StartFates
<1> QED
  BY <1>2, <1>3 DEF SettleFacts

\* A turn that fails, and its channel's session with it.
LEMMA FailsEvolves ==
    ASSUME CoreType, NEW t \in TurnId, NEW g, FailFacts(t, g)
    PROVE  Evolves
<1> DEFINE s == turns[t].session
           c == ChannelOf(t)
<1>1. s \in SessionId /\ c \in Channel
  BY ChannelOfType
<1>2. PICK o \in Seq(ManagedSession) :
        /\ Len(o) = Len(obj)
        /\ \A i \in SessionId : i # s => o[i] = obj[i]
        /\ SameBody(obj[s], o[s])
        /\ EndFacts(c, o, "terminating")
  BY DEF FailFacts
<1>3. \A i \in SessionId : Fate(obj[i], o[i])
  BY <1>1, <1>2 DEF SameBody, Fate
<1>4. NoneInstalled /\ \A i \in SessionId : Fate(obj[i], obj'[i])
  BY <1>1, <1>2, <1>3, EndFates
<1> QED
  BY <1>4 DEF FailFacts, ReturnFacts, Evolves

\* Whatever its kind, a step takes none of this back.
LEMMA KindEvolves ==
    ASSUME Base, Kind
    PROVE  Evolves
<1>1. CoreType /\ obj \in Seq(ManagedSession) /\ \A i \in SessionId : Fate(obj[i], obj[i])
  BY DEF Base, TypeInv, CoreType, Fate
<1>2. CASE Quiet
  <2>1. \A i \in SessionId : Fate(obj[i], obj'[i])
    BY <1>2 DEF Quiet, Held, Fate
  <2> QED
    BY <1>2, <2>1 DEF Quiet, Evolves, NoneInstalled, Given
<1>3. ASSUME NEW c \in Channel, NEW process \in {"terminating", "exited"},
             Drops(c, process)
      PROVE  Evolves
  <2>1. EndFacts(c, obj, process) /\ UNCHANGED turns
    BY <1>3 DEF Drops
  <2>2. NoneInstalled /\ \A i \in SessionId : Fate(obj[i], obj'[i])
    BY <1>1, <2>1, EndFates
  <2> QED
    BY <2>1, <2>2 DEF Evolves
<1>4. ASSUME NEW c \in Channel, NEW memory \in Nat, Installs(c, memory)
      PROVE  Evolves
  <2>1. \A i \in SessionId : Fate(obj[i], obj'[i])
    BY <1>4 DEF Installs, InstallFacts, Held, Fate, CloseSession
  <2> QED
    BY <1>4, <2>1 DEF Installs, InstallFacts, Evolves
<1>5. ASSUME NEW s \in SessionId, NEW m \in Message, Asks(s, m)
      PROVE  Evolves
  BY <1>1, <1>5, AsksEvolves DEF Asks
<1>6. ASSUME NEW t \in TurnId, Begins(t)
      PROVE  Evolves
  BY <1>1, <1>6 DEF Begins, Evolves, NoneInstalled, Given
<1>7. ASSUME NEW t \in TurnId, Halts(t)
      PROVE  Evolves
  <2>1. sessions[ChannelOf(t)] \in SessionId
    BY <1>1, <1>7, ChannelOfType DEF Halts, CoreType, SessionId
  <2>2. NoneInstalled /\ \A i \in SessionId : Fate(obj[i], obj'[i])
    BY <1>7, <2>1, BodyFates DEF Halts, StopFacts
  <2> QED
    BY <1>7, <2>2 DEF Halts, StopFacts, Evolves
<1>8. ASSUME NEW t \in TurnId, Gates(t)
      PROVE  Evolves
  <2>1. \A i \in SessionId : Fate(obj[i], obj'[i])
    BY <1>8 DEF Gates, Held, Fate
  <2> QED
    BY <1>8, <2>1 DEF Gates, Evolves, NoneInstalled, Given
<1>9. ASSUME NEW t \in TurnId, NEW g \in ServedGit(TurnId), Settles(t, g) \/ Fails(t, g)
      PROVE  Evolves
  BY <1>1, <1>9, SettlesEvolves, FailsEvolves DEF Settles, Fails
<1> QED
  BY <1>2, <1>3, <1>4, <1>5, <1>6, <1>7, <1>8, <1>9 DEF Kind

\* The map goes on naming sessions by their own channels.
LEMMA MapAgreesKept ==
    ASSUME TypeInv, MapAgrees, Evolves
    PROVE  MapAgrees'
<1>1. sessions \in [Channel -> 0 .. Len(obj)]
  BY DEF TypeInv, CoreType
<1>2. CASE NoneInstalled
  BY <1>1, <1>2 DEF Evolves, NoneInstalled, Given, MapAgrees, Fate, SessionId
<1>3. ASSUME NEW c \in Channel, NEW memory \in Nat, Installs(c, memory)
      PROVE  MapAgrees'
  BY <1>1, <1>3 DEF Evolves, Installs, InstallFacts, MapAgrees, Fate, SessionId
<1> QED
  BY <1>2, <1>3 DEF Evolves

\* An agent that runs, and a row that is open, are those of a mapped session.
Ended ==
    \A s \in SessionId : obj[s].process = "running" \/ obj[s].row = "open" => InMap(s)

\* A channel whose agent is being started has no session.
NoSessionYet == \A c \in Channel : pending[c].stage # "none" => sessions[c] = 0

\* No step leaves an agent running, or a row open, outside the map.
LEMMA EndedKept ==
    ASSUME TypeInv, MapAgrees, Ended, NoSessionYet, Evolves
    PROVE  Ended'
<1>1. sessions \in [Channel -> 0 .. Len(obj)]
  BY DEF TypeInv, CoreType
<1>2. \A s \in SessionId : obj[s].channelId \in Channel
  BY ObjectType DEF TypeInv
<1>3. ASSUME NEW s \in SessionId, obj'[s].process = "running" \/ obj'[s].row = "open"
      PROVE  InMap(s)
  BY <1>3 DEF Evolves, Fate, Ended
<1>4. CASE NoneInstalled
  <2> SUFFICES ASSUME NEW s \in SessionId,
                      obj'[s].process = "running" \/ obj'[s].row = "open"
               PROVE  sessions'[obj'[s].channelId] = s
    BY <1>4 DEF Ended, InMap, NoneInstalled, SessionId
  <2>1. sessions[obj[s].channelId] = s /\ obj'[s].channelId = obj[s].channelId
    BY <1>3 DEF InMap, Evolves, Fate
  <2> QED
    BY <1>2, <1>4, <2>1 DEF NoneInstalled, Given
<1>5. ASSUME NEW c \in Channel, NEW memory \in Nat, Installs(c, memory)
      PROVE  Ended'
  <2>1. /\ sessions[c] = 0 /\ Len(obj') = Len(obj) + 1
        /\ obj'[Len(obj) + 1].channelId = c
        /\ \A d \in Channel : sessions'[d] = IF d = c THEN Len(obj) + 1 ELSE sessions[d]
    BY <1>5 DEF Installs, InstallFacts, NoSessionYet
  <2> SUFFICES ASSUME NEW s \in 1 .. Len(obj'),
                      obj'[s].process = "running" \/ obj'[s].row = "open"
               PROVE  sessions'[obj'[s].channelId] = s
    BY DEF Ended, InMap, SessionId
  <2>2. CASE s = Len(obj) + 1
    BY <2>1, <2>2
  <2>3. CASE s \in SessionId
    <3>1. sessions[obj[s].channelId] = s /\ obj'[s].channelId = obj[s].channelId
      BY <1>3, <2>3 DEF InMap, Evolves, Fate
    <3> QED
      BY <1>2, <2>1, <2>3, <3>1 DEF SessionId
  <2>4. Len(obj) \in Nat
    BY DEF TypeInv, CoreType
  <2> QED
    BY <2>1, <2>2, <2>3, <2>4 DEF SessionId
<1> QED
  BY <1>4, <1>5 DEF Evolves

-----------------------------------------------------------------------------
(* Frames *)

\* No turn starts or returns, and no session changes its part in one.
SameFrames ==
    /\ Len(turns') = Len(turns) /\ Len(obj') >= Len(obj)
    /\ \A t \in TurnId : /\ turns'[t].session = turns[t].session
                         /\ turns'[t].user = turns[t].user
                         /\ turns'[t].phase = "done" <=> turns[t].phase = "done"
    /\ \A i \in SessionId : /\ obj'[i].prompting = obj[i].prompting
                            /\ obj'[i].currentTurnId = obj[i].currentTurnId
                            /\ obj'[i].activeUserId = obj[i].activeUserId
    /\ \A i \in SessionId' : i \notin SessionId => ~obj'[i].prompting

\* Frames stay what they are in a step that leaves them alone.
LEMMA SameFramesKept ==
    ASSUME TypeInv, Frames, SameFrames
    PROVE  Frames'
<1>1. /\ TurnId' = TurnId /\ Len(obj) \in Nat
      /\ \A t \in TurnId : turns[t].session \in SessionId
  BY ChannelOfType DEF SameFrames, TypeInv, CoreType, TurnId
<1>2. \A t \in TurnId : turns'[t].phase # "done" =>
         LET s == turns'[t].session
         IN  /\ obj'[s].prompting /\ obj'[s].currentTurnId = t
             /\ obj'[s].activeUserId = turns'[t].user
  BY <1>1 DEF SameFrames, Frames
<1>3. \A s \in SessionId' : obj'[s].prompting =>
         LET t == obj'[s].currentTurnId
         IN  t \in TurnId /\ turns'[t].phase # "done" /\ turns'[t].session = s
  BY <1>1 DEF SameFrames, Frames
<1> QED
  BY <1>1, <1>2, <1>3 DEF Frames

\* Turn t returns, and leaves its session s without one.
Returned(t) ==
    LET s == turns[t].session
    IN  /\ turns[t].phase # "done"
        /\ ReturnFacts(t) /\ Len(obj') = Len(obj)
        /\ \A i \in SessionId : i # s =>
             /\ obj'[i].prompting = obj[i].prompting
             /\ obj'[i].currentTurnId = obj[i].currentTurnId
             /\ obj'[i].activeUserId = obj[i].activeUserId
        /\ ~obj'[s].prompting

\* They do in a step that ends a turn and its session's part in it.
LEMMA ReturnedKeptFrames ==
    ASSUME TypeInv, Frames, NEW t \in TurnId, Returned(t)
    PROVE  Frames'
<1> DEFINE s == turns[t].session
<1>1. /\ TurnId' = TurnId /\ SessionId' = SessionId
      /\ \A u \in TurnId : turns[u].session \in SessionId
  BY ChannelOfType DEF Returned, ReturnFacts, TypeInv, TurnId, SessionId
<1>2. \A u \in TurnId : turns[u].phase # "done" /\ turns[u].session = s => u = t
  BY DEF Returned, Frames
<1>3. ASSUME NEW u \in TurnId, turns'[u].phase # "done"
      PROVE  /\ obj'[turns'[u].session].prompting
             /\ obj'[turns'[u].session].currentTurnId = u
             /\ obj'[turns'[u].session].activeUserId = turns'[u].user
  <2>1. /\ turns'[u].session = turns[u].session /\ turns'[u].user = turns[u].user
        /\ turns[u].phase # "done" /\ u # t
    BY <1>3 DEF Returned, ReturnFacts
  <2>2. turns[u].session \in SessionId /\ turns[u].session # s
    BY <1>1, <1>2, <2>1
  <2> QED
    BY <2>1, <2>2 DEF Returned, Frames
<1>4. ASSUME NEW i \in SessionId, obj'[i].prompting
      PROVE  LET u == obj'[i].currentTurnId
             IN  u \in TurnId /\ turns'[u].phase # "done" /\ turns'[u].session = i
  <2> DEFINE u == obj[i].currentTurnId
  <2>1. i # s /\ obj[i].prompting /\ obj'[i].currentTurnId = u
    BY <1>4 DEF Returned
  <2>2. u \in TurnId /\ turns[u].phase # "done" /\ turns[u].session = i
    BY <2>1 DEF Frames
  <2>3. turns'[u].session = i /\ turns'[u].phase # "done"
    BY <2>1, <2>2 DEF Returned, ReturnFacts
  <2> QED
    BY <2>1, <2>2, <2>3
<1> QED
  BY <1>1, <1>3, <1>4 DEF Frames

\* No turn of session s is left in ts, and the others are as they were.
Cleared(s, ts) ==
    /\ Len(ts) = Len(turns)
    /\ \A t \in TurnId :
         /\ ts[t].session = turns[t].session /\ ts[t].user = turns[t].user
         /\ IF turns[t].session = s THEN ts[t].phase = "done"
            ELSE ts[t].phase = turns[t].phase

\* They do when a turn starts on a session that no frame works on any more.
LEMMA StartKeptFrames ==
    ASSUME TypeInv, Frames, NEW s \in SessionId, NEW m \in Message, NEW q, NEW ts, NEW g,
           Cleared(s, ts), StartFacts(s, m, q, ts, g)
    PROVE  Frames'
<1> DEFINE t == Len(turns) + 1
<1>1. /\ Len(turns) \in Nat /\ Len(ts) = Len(turns)
      /\ \A u \in TurnId : turns[u].session \in SessionId
  BY ChannelOfType DEF Cleared, TypeInv, CoreType
<1>2. /\ Len(turns') = t /\ Len(obj') = Len(obj)
      /\ \A u \in 1 .. Len(turns) : turns'[u] = ts[u]
      /\ turns'[t] = [session |-> s, phase |-> "acquiring", user |-> m.user]
      /\ \A i \in SessionId : i # s => obj'[i] = obj[i]
      /\ obj'[s].prompting /\ obj'[s].currentTurnId = t
      /\ obj'[s].activeUserId = m.user
  BY <1>1 DEF StartFacts
<1>3. /\ TurnId' = TurnId \cup {t} /\ SessionId' = SessionId
      /\ turns'[t].session = s /\ turns'[t].user = m.user /\ turns'[t].phase # "done"
  BY <1>1, <1>2 DEF TurnId, SessionId
<1>4. ASSUME NEW u \in TurnId, turns'[u].phase # "done"
      PROVE  /\ obj'[turns'[u].session].prompting
             /\ obj'[turns'[u].session].currentTurnId = u
             /\ obj'[turns'[u].session].activeUserId = turns'[u].user
  <2>1. /\ turns'[u].session = turns[u].session /\ turns'[u].user = turns[u].user
        /\ turns[u].session # s /\ turns[u].phase # "done"
    BY <1>1, <1>2, <1>4 DEF Cleared, TurnId
  <2> QED
    BY <1>1, <1>2, <2>1 DEF Frames
<1>5. ASSUME NEW i \in SessionId, i # s, obj'[i].prompting
      PROVE  LET u == obj'[i].currentTurnId
             IN  u \in TurnId /\ turns'[u].phase # "done" /\ turns'[u].session = i
  <2>1. obj[i].prompting /\ obj'[i].currentTurnId = obj[i].currentTurnId
    BY <1>2, <1>5
  <2> DEFINE u == obj[i].currentTurnId
  <2>2. u \in TurnId /\ turns[u].phase # "done" /\ turns[u].session = i
    BY <2>1 DEF Frames
  <2>3. ts[u].phase = turns[u].phase /\ ts[u].session = turns[u].session
    BY <1>5, <2>2 DEF Cleared
  <2>4. turns'[u] = ts[u]
    BY <1>2, <2>2 DEF TurnId
  <2> QED
    BY <2>1, <2>2, <2>3, <2>4
<1> QED
  BY <1>2, <1>3, <1>4, <1>5 DEF Frames

-----------------------------------------------------------------------------
(* Who waits *)

\* The lock of h is that of g but for promises settled and waiters gone, and
\* those that are left are still in order.
Tends(g, h, T) ==
    Awaits(g.lock, T) =>
      Awaits(h.lock, T) /\ Waiters(h.lock) \subseteq Waiters(g.lock) /\ Yields(g.lock, h.lock)

\* The calls of GitTurnContext by which a turn begins or ends.
LEMMA GitTends ==
    ASSUME NEW S, NEW T, NEW g \in ServedGit(S), NEW c \in Channel
    PROVE  /\ Tends(g, Abort(g, c), T)
           /\ Tends(g, AbortTurn(g, c), T)
           /\ Tends(g, StopWaiting(g, c), T)
           /\ Tends(g, End(g, c), T)
           /\ Tends(g, AfterCatch(g, c), T)
           /\ Tends(g, [g EXCEPT !.lock = ReleaseIfHeldBy(@, c)], T)
<1>1. g.lock \in Lock(S) /\ g \in Git(S)
  BY DEF ServedGit, ServedLock
<1>2. CASE ~Awaits(g.lock, T)
  BY <1>2 DEF Tends
<1>3. CASE Awaits(g.lock, T)
  <2> DEFINE free == ReleaseIfHeldBy(g.lock, c)
  <2>1. /\ free \in Lock(S) /\ Awaits(free, T) /\ Waiters(free) \subseteq Waiters(g.lock)
        /\ Yields(g.lock, free) /\ Yields(g.lock, Release(g.lock, c))
        /\ Awaits(Release(g.lock, c), T)
        /\ Waiters(Release(g.lock, c)) \subseteq Waiters(g.lock)
    <3>1. free \in ServedLock(S)
      BY ReleaseIfHeldByType DEF ServedGit
    <3> QED
      BY <1>1, <1>3, <3>1, ReleaseAwaits DEF ServedLock
  <2>2. /\ Awaits(CancelWaiter(g.lock, c), T)
        /\ Waiters(CancelWaiter(g.lock, c)) \subseteq Waiters(g.lock)
        /\ Yields(g.lock, CancelWaiter(g.lock, c))
    BY <1>1, <1>3, CancelAwaits
  <2> HIDE DEF free
  <2>3. /\ Awaits(CancelWaiter(free, c), T)
        /\ Waiters(CancelWaiter(free, c)) \subseteq Waiters(g.lock)
        /\ Yields(g.lock, CancelWaiter(free, c)) /\ Yields(g.lock, g.lock)
    BY <2>1, CancelAwaits, YieldsTwice DEF Yields
  <2>4. /\ Abort(g, c).lock = free
        /\ AbortTurn(g, c).lock = CancelWaiter(free, c)
        /\ StopWaiting(g, c).lock = CancelWaiter(g.lock, c)
        /\ [g EXCEPT !.lock = ReleaseIfHeldBy(@, c)].lock = free
        /\ End(g, c).lock \in {g.lock, Release(g.lock, c)}
        /\ AfterCatch(g, c).lock \in {g.lock, AbortTurn(g, c).lock}
    BY <1>1 DEF Git, Abort, AbortTurn, StopWaiting, End, AfterCatch, free
  <2> QED
    BY <1>3, <2>1, <2>2, <2>3, <2>4 DEF Tends
<1> QED
  BY <1>2, <1>3

\* g's lock is awaited by the turns that are acquiring in ts, and by none that
\* did not wait before the step; they are in order if those were.
Left(g, ts) ==
    /\ g \in ServedGit(TurnId)
    /\ Awaits(g.lock, {t \in TurnId : ts[t].phase = "acquiring"})
    /\ Waiters(g.lock) \subseteq Waiters(git.lock)
    /\ Yields(git.lock, g.lock)

\* Session s may start a turn: prompt() has found it in the map, or resumes
\* with it behind its await, or a turn of its own is just returning.
Due(s) ==
    \/ callers = <<>> /\ InMap(s)
    \/ callers # <<>> /\ s = Head(callers).session
    \/ \E t \in TurnId : turns[t].phase # "done" /\ turns[t].session = s

\* A step that neither starts nor ends a turn, one that ends one, and one that
\* starts one.
Passing      == SameFrames /\ Left(git', turns')
Returning(t) == Returned(t) /\ Left(git', turns')
Starting(s, m, q, ts, g) ==
    Due(s) /\ Cleared(s, ts) /\ Left(g, ts) /\ StartFacts(s, m, q, ts, g)

\* Whatever is done to the lock for channel c, the same turns wait.
LEMMA LeftAsWas ==
    ASSUME Base, NEW g \in ServedGit(TurnId), Tends(git, g, Acquiring),
           NEW ts, \A t \in TurnId : ts[t].phase = "acquiring" <=> turns[t].phase = "acquiring"
    PROVE  Left(g, ts)
<1>1. {t \in TurnId : ts[t].phase = "acquiring"} = Acquiring
  BY DEF Acquiring
<1> QED
  BY <1>1 DEF Left, Base, Waiting, Tends

\* The git record when turn t's continuation of acquire() runs.
LEMMA ResumedFacts ==
    ASSUME Base, NEW t, Resumes(t)
    PROVE  /\ t \in TurnId /\ turns[t].phase = "acquiring"
           /\ Resumed \in ServedGit(TurnId)
           /\ Awaits(Resumed.lock, Acquiring \ {t})
           /\ Waiters(Resumed.lock) = Waiters(git.lock)
           /\ Resumed.lock.holder = git.lock.holder
           /\ Granted(Resumed.lock) = Granted(git.lock) \ {t}
           /\ t \in Granted(git.lock) <=> Head(git.lock.settled).granted
           /\ Yields(git.lock, Resumed.lock)
           /\ Resumed.activeTurns = git.activeTurns /\ Resumed.identity = git.identity
<1>1. /\ git \in ServedGit(TurnId) /\ git.lock \in ServedLock(TurnId)
      /\ git.lock \in Lock(TurnId) /\ git.lock.settled \in Seq(Settlement(TurnId))
      /\ Awaits(git.lock, Acquiring) /\ git.lock.settled # <<>>
  BY DEF Base, TypeInv, CoreType, ServedGit, ServedLock, Lock, Waiting, Resumes
<1> DEFINE rest == Resume(git.lock)
<1>2. /\ t \in Acquiring /\ rest \in Lock(TurnId) /\ Awaits(rest, Acquiring \ {t})
      /\ rest.holder = git.lock.holder /\ rest.queue = git.lock.queue
      /\ Waiters(rest) = Waiters(git.lock)
      /\ Granted(rest) = Granted(git.lock) \ {t}
      /\ t \in Granted(git.lock) <=> Head(git.lock.settled).granted
      /\ Yields(git.lock, rest)
  <2> DEFINE u == Head(git.lock.settled).turn
  <2>1. /\ u \in Acquiring /\ rest \in Lock(TurnId) /\ Awaits(rest, Acquiring \ {u})
        /\ Waiters(rest) = Waiters(git.lock)
        /\ Granted(rest) = Granted(git.lock) \ {u}
        /\ u \in Granted(git.lock) <=> Head(git.lock.settled).granted
        /\ Yields(git.lock, rest)
    BY ZenonT(40), <1>1, ResumeAwaits
  <2>2. rest.holder = git.lock.holder /\ rest.queue = git.lock.queue
    BY <1>1 DEF Lock, Resume
  <2>3. t = u
    BY DEF Resumes
  <2> HIDE DEF u, rest
  <2> QED
    BY <2>1, <2>2, <2>3
<1> HIDE DEF rest
<1>3. rest \in ServedLock(TurnId)
  BY <1>1, <1>2 DEF ServedLock
<1>4. Resumed = [git EXCEPT !.lock = rest]
  BY DEF Resumed, Resume, rest
<1>5. Resumed \in ServedGit(TurnId)
  BY <1>1, <1>3, <1>4, LockUpdateType
<1>6. /\ Resumed.lock = rest
      /\ Resumed.activeTurns = git.activeTurns /\ Resumed.identity = git.identity
  BY <1>1, <1>4 DEF ServedGit, Git
<1> QED
  BY <1>2, <1>5, <1>6 DEF Acquiring

\* Turn t returns from the wait, and the lock is given back for it.
LEMMA LeftResumed ==
    ASSUME Base, NEW t, Resumes(t), NEW g \in ServedGit(TurnId),
           Tends(Resumed, g, Acquiring \ {t}),
           NEW ts, \A u \in TurnId :
             ts[u].phase = "acquiring" <=> u # t /\ turns[u].phase = "acquiring"
    PROVE  Left(g, ts)
<1>1. {u \in TurnId : ts[u].phase = "acquiring"} = Acquiring \ {t}
  BY DEF Acquiring
<1>2. /\ Awaits(Resumed.lock, Acquiring \ {t}) /\ Waiters(Resumed.lock) = Waiters(git.lock)
      /\ Yields(git.lock, Resumed.lock)
  BY ResumedFacts
<1>3. Yields(Resumed.lock, g.lock) => Yields(git.lock, g.lock)
  BY <1>2, YieldsTwice
<1> QED
  BY <1>1, <1>2, <1>3 DEF Left, Tends

\* A lock that is not touched.
LEMMA SameTends == \A g, h, T : h.lock = g.lock => Tends(g, h, T)
  BY DEF Tends, Yields

\* One thing done to the lock after the other.
LEMMA TendsTwice ==
    ASSUME NEW g, NEW h, NEW k, NEW T, Tends(g, h, T), Tends(h, k, T)
    PROVE  Tends(g, k, T)
  BY YieldsTwice DEF Tends

\* begin() leaves the lock alone, also when it throws.
LEMMA BeginLocks ==
    ASSUME NEW S, NEW g \in ServedGit(S), NEW c \in Channel, NEW u \in User
    PROVE  /\ Begin(g, c, u).lock = g.lock
           /\ \A h \in BeginThrows(g, c) : h.lock = g.lock
  BY DEF ServedGit, Git, Begin, BeginThrows

\* A turn that returns has not returned before, and the lock it leaves behind
\* is awaited by the others.
LEMMA ReturnLeft ==
    ASSUME Base, NEW t \in TurnId, NEW g \in ServedGit(TurnId),
           Settles(t, g) \/ Fails(t, g),
           NEW ts, \A u \in TurnId : ts[u].phase = IF u = t THEN "done" ELSE turns[u].phase
    PROVE  turns[t].phase # "done" /\ Left(g, ts)
<1> DEFINE c == ChannelOf(t)
           u == obj[turns[t].session].activeUserId
<1>1. CoreType /\ git \in ServedGit(TurnId)
  BY DEF Base, TypeInv, CoreType
<1>2. c \in Channel /\ u \in User
  <2>1. c \in Channel /\ turns[t].session \in SessionId
    BY <1>1, ChannelOfType
  <2>2. obj[turns[t].session] \in ManagedSession
    BY <1>1, <2>1, ObjectType
  <2> QED
    BY <2>1, <2>2 DEF ManagedSession
<1> HIDE DEF c, u
<1>3. CASE /\ turns[t].phase = "prompting"
           /\ g \in {End(git, c), End(AfterCatch(git, c), c)}
  <2>1. /\ Tends(git, End(git, c), Acquiring)
        /\ Tends(git, AfterCatch(git, c), Acquiring)
        /\ AfterCatch(git, c) \in ServedGit(TurnId)
    BY <1>1, <1>2, GitTends, AfterCatchType
  <2>2. Tends(AfterCatch(git, c), End(AfterCatch(git, c), c), Acquiring)
    BY <1>2, <2>1, GitTends
  <2>3. Tends(git, g, Acquiring)
    BY <1>3, <2>1, <2>2, TendsTwice
  <2>4. \A v \in TurnId : ts[v].phase = "acquiring" <=> turns[v].phase = "acquiring"
    BY <1>3
  <2> QED
    BY <1>3, <2>3, <2>4, LeftAsWas
<1>4. ASSUME Resumes(t), Tends(Resumed, g, Acquiring \ {t})
      PROVE  turns[t].phase # "done" /\ Left(g, ts)
  <2>1. turns[t].phase = "acquiring"
    BY <1>4, ResumedFacts
  <2>2. \A v \in TurnId : ts[v].phase = "acquiring" <=> v # t /\ turns[v].phase = "acquiring"
    OBVIOUS
  <2> QED
    BY <1>4, <2>1, <2>2, LeftResumed
<1>5. ASSUME Resumes(t) PROVE Resumed \in ServedGit(TurnId)
  BY <1>5, ResumedFacts
<1>6. CASE Resumes(t) /\ g = End(Begin(Resumed, c, u), c)
  <2> DEFINE b == Begin(Resumed, c, u)
  <2>1. b \in ServedGit(TurnId) /\ b.lock = Resumed.lock
    BY <1>2, <1>5, <1>6, BeginType, BeginLocks
  <2> HIDE DEF b
  <2>2. Tends(Resumed, b, Acquiring \ {t}) /\ Tends(b, End(b, c), Acquiring \ {t})
    BY <1>2, <2>1, SameTends, GitTends
  <2>3. Tends(Resumed, g, Acquiring \ {t})
    BY <1>6, <2>2, TendsTwice DEF b
  <2> QED
    BY <1>4, <1>6, <2>3
<1>7. CASE Resumes(t) /\ g = [Resumed EXCEPT !.lock = ReleaseIfHeldBy(@, c)]
  <2>1. Tends(Resumed, g, Acquiring \ {t})
    BY <1>2, <1>5, <1>7, GitTends
  <2> QED
    BY <1>4, <1>7, <2>1
<1>8. ASSUME Resumes(t), NEW thrown \in BeginThrows(Resumed, c),
             g = [AfterCatch(thrown, c) EXCEPT !.lock = ReleaseIfHeldBy(@, c)]
      PROVE  turns[t].phase # "done" /\ Left(g, ts)
  <2> DEFINE caught == AfterCatch(thrown, c)
  <2>1. thrown \in ServedGit(TurnId) /\ thrown.lock = Resumed.lock
    BY <1>2, <1>5, <1>8, BeginThrowsType, BeginLocks
  <2>2. caught \in ServedGit(TurnId) /\ Tends(thrown, caught, Acquiring \ {t})
        /\ Tends(Resumed, thrown, Acquiring \ {t})
    BY <1>2, <2>1, AfterCatchType, GitTends, SameTends
  <2> HIDE DEF caught
  <2>3. Tends(caught, [caught EXCEPT !.lock = ReleaseIfHeldBy(@, c)], Acquiring \ {t})
    BY <1>2, <2>2, GitTends
  <2>4. Tends(Resumed, caught, Acquiring \ {t})
    BY <2>2, TendsTwice
  <2>5. Tends(Resumed, g, Acquiring \ {t})
    BY <1>8, <2>3, <2>4, TendsTwice DEF caught
  <2> QED
    BY <1>4, <1>8, <2>5
<1>9. CASE Settles(t, g)
  BY <1>3, <1>6, <1>7, <1>9 DEF Settles, c, u
<1>10. CASE Fails(t, g)
  BY <1>3, <1>8, <1>10 DEF Fails, c
<1> QED
  BY <1>9, <1>10

\* No turn of a session at rest is unfinished.
LEMMA RestingCleared ==
    ASSUME Base, NEW s \in SessionId, ~obj[s].prompting
    PROVE  Cleared(s, turns)
<1>1. \A t \in TurnId : turns[t].phase # "done" => turns[t].session # s
  BY DEF Base, Frames
<1> QED
  BY <1>1 DEF Cleared

\* Nor is another turn of the session of one that is.
LEMMA DoneCleared ==
    ASSUME Base, NEW t \in TurnId, turns[t].phase # "done",
           NEW ts, Len(ts) = Len(turns),
           \A u \in TurnId : /\ ts[u].session = turns[u].session
                             /\ ts[u].user = turns[u].user
                             /\ ts[u].phase = IF u = t THEN "done" ELSE turns[u].phase
    PROVE  Cleared(turns[t].session, ts)
<1>1. \A u \in TurnId :
        turns[u].phase # "done" /\ turns[u].session = turns[t].session => u = t
  BY DEF Base, Frames
<1> QED
  BY <1>1 DEF Cleared

\* A session's part in a turn.
SamePart(a, b) ==
    /\ b.prompting = a.prompting /\ b.currentTurnId = a.currentTurnId
    /\ b.activeUserId = a.activeUserId

\* A step that only changes other things about sessions.
LEMMA PartsSameFrames ==
    ASSUME TypeInv, UNCHANGED turns, Len(obj') = Len(obj),
           \A i \in SessionId : SamePart(obj[i], obj'[i])
    PROVE  SameFrames
<1>1. SessionId' = SessionId /\ Len(obj) \in Nat
  BY DEF SessionId, TypeInv, CoreType
<1> QED
  BY <1>1 DEF SamePart, SameFrames

\* Nothing in Held() is missing but prompting.
LEMMA HeldPart ==
    \A a, b : Held(a, b) /\ b.prompting = a.prompting => SamePart(a, b)
  BY DEF Held, SamePart

\* The session that goes keeps its frame.
LEMMA EndSameFrames ==
    ASSUME TypeInv, NEW c, NEW process, EndFacts(c, obj, process), UNCHANGED turns
    PROVE  SameFrames
<1>1. \A i \in SessionId : SamePart(obj[i], obj'[i])
  BY HeldPart DEF EndFacts
<1> QED
  BY <1>1, PartsSameFrames DEF EndFacts

\* prompt() with its session.
LEMMA AsksPasses ==
    ASSUME Base, NEW s \in SessionId, NEW m \in Message, Asks(s, m)
    PROVE  Passing \/ \E q, ts, g : Starting(s, m, q, ts, g)
<1> DEFINE c == obj[s].channelId
<1>1. TypeInv /\ CoreType /\ git \in ServedGit(TurnId) /\ c \in Channel
  BY ObjectType DEF Base, TypeInv, CoreType
<1> HIDE DEF c
<1>2. \A g : g.lock = git.lock => Tends(git, g, Acquiring)
  BY SameTends
<1>3. CASE /\ EndFacts(c, obj, "terminating")
           /\ git' = AbortTurn(git, c) /\ UNCHANGED turns
  <2>1. SameFrames
    BY <1>1, <1>3, EndSameFrames
  <2>2. git' \in ServedGit(TurnId) /\ Tends(git, git', Acquiring)
    BY <1>1, <1>3, AbortTurnType, GitTends
  <2>3. Left(git', turns')
    BY <1>3, <2>2, LeftAsWas
  <2> QED
    BY <2>1, <2>3 DEF Passing
<1>4. ASSUME NEW q, TouchFacts(s, q)
      PROVE  Passing
  <2>1. SameFrames
    <3>1. \A i \in SessionId : SamePart(obj[i], obj'[i])
      BY <1>4 DEF TouchFacts, SamePart
    <3> QED
      BY <1>1, <1>4, <3>1, PartsSameFrames DEF TouchFacts
  <2>2. git' \in {git, StopWaiting(git, c)} /\ UNCHANGED turns
    BY <1>4 DEF TouchFacts, c
  <2>3. git' \in ServedGit(TurnId) /\ Tends(git, git', Acquiring)
    BY <1>1, <1>2, <2>2, StopWaitingType, GitTends
  <2>4. Left(git', turns')
    BY <2>2, <2>3, LeftAsWas
  <2> QED
    BY <2>1, <2>4 DEF Passing
<1>5. CASE ~obj[s].prompting /\ StartFacts(s, m, obj[s].queue, turns, git)
  <2>1. Left(git, turns)
    BY <1>1, <1>2, LeftAsWas
  <2> QED
    BY <1>5, <2>1, RestingCleared DEF Starting, Asks, NoCallers, Due
<1> QED
  BY <1>3, <1>4, <1>5 DEF Asks, PromptFacts, c

\* What the steps of each kind mean for the turns and for the lock.
LEMMA KindPasses ==
    ASSUME Base, Kind
    PROVE  \/ Passing
           \/ \E t \in TurnId : Returning(t)
           \/ \E s \in SessionId, m \in Message : \E q, ts, g : Starting(s, m, q, ts, g)
<1>1. TypeInv /\ CoreType /\ git \in ServedGit(TurnId)
  BY DEF Base, TypeInv, CoreType
<1>2. ASSUME UNCHANGED turns, git' \in ServedGit(TurnId), Tends(git, git', Acquiring)
      PROVE  Left(git', turns')
  BY <1>2, LeftAsWas
<1>3. ASSUME UNCHANGED turns, git'.lock = git.lock, git' \in ServedGit(TurnId)
      PROVE  Left(git', turns')
  BY <1>2, <1>3, SameTends
<1>4. CASE Quiet
  <2>1. SameFrames
    <3>1. \A i \in SessionId : SamePart(obj[i], obj'[i])
      BY <1>4, HeldPart DEF Quiet
    <3> QED
      BY <1>1, <1>4, <3>1, PartsSameFrames DEF Quiet
  <2>2. git' \in ServedGit(TurnId) /\ git'.lock = git.lock
    BY <1>1, <1>4, SweepType DEF Quiet, Sweep, ServedGit, Git
  <2> QED
    BY <1>3, <1>4, <2>1, <2>2 DEF Quiet, Passing
<1>5. ASSUME NEW c \in Channel, NEW process \in {"terminating", "exited"},
             Drops(c, process)
      PROVE  Passing
  <2>1. SameFrames /\ UNCHANGED turns
    BY <1>1, <1>5, EndSameFrames DEF Drops
  <2>2. git' \in ServedGit(TurnId) /\ Tends(git, git', Acquiring)
    BY <1>1, <1>5, AbortTurnType, AbortType, GitTends DEF Drops
  <2> QED
    BY <1>2, <2>1, <2>2 DEF Passing
<1>6. ASSUME NEW c \in Channel, NEW memory \in Nat, Installs(c, memory)
      PROVE  Passing
  <2>1. SameFrames
    <3>1. \A i \in SessionId : SamePart(obj[i], obj'[i])
      BY <1>6, HeldPart DEF Installs, InstallFacts
    <3>2. /\ UNCHANGED turns /\ Len(obj') = Len(obj) + 1
          /\ ~obj'[Len(obj) + 1].prompting
      BY <1>6 DEF Installs, InstallFacts
    <3>3. Len(obj) \in Nat /\ SessionId' = SessionId \cup {Len(obj) + 1}
      BY <1>1, <3>2 DEF SessionId, CoreType
    <3> QED
      BY <3>1, <3>2, <3>3 DEF SamePart, SameFrames
  <2> QED
    BY <1>1, <1>3, <1>6, <2>1 DEF Installs, InstallFacts, Passing
<1>7. ASSUME NEW s \in SessionId, NEW m \in Message, Asks(s, m)
      PROVE  Passing \/ \E q, ts, g : Starting(s, m, q, ts, g)
  BY <1>7, AsksPasses
<1>8. ASSUME NEW t \in TurnId, Begins(t)
      PROVE  Passing
  <2> DEFINE c == ChannelOf(t)
             u == obj[turns[t].session].activeUserId
  <2>1. c \in Channel /\ u \in User
    BY <1>1, ChannelOfType, ObjectType DEF ManagedSession
  <2>2. Resumes(t) /\ turns[t].phase = "acquiring" /\ Resumed \in ServedGit(TurnId)
    BY <1>8, ResumedFacts DEF Begins
  <2>3. git' = Begin(Resumed, c, u)
    BY <1>8 DEF Begins
  <2>4. SameFrames
    BY <1>1, <1>8, <2>2 DEF Begins, SameFrames, SessionId, CoreType
  <2> HIDE DEF c, u
  <2>5. git' \in ServedGit(TurnId) /\ Tends(Resumed, git', Acquiring \ {t})
    BY <2>1, <2>2, <2>3, BeginType, BeginLocks, SameTends
  <2>6. \A v \in TurnId :
          turns'[v].phase = "acquiring" <=> v # t /\ turns[v].phase = "acquiring"
    BY <1>8 DEF Begins
  <2>7. Left(git', turns')
    BY <2>2, <2>5, <2>6, LeftResumed
  <2> QED
    BY <2>4, <2>7 DEF Passing
<1>9. ASSUME NEW t \in TurnId, Halts(t)
      PROVE  Passing
  <2>1. ChannelOf(t) \in Channel
    BY <1>1, ChannelOfType
  <2>2. SameFrames
    <3>1. \A i \in SessionId : SamePart(obj[i], obj'[i])
      BY <1>9 DEF Halts, StopFacts, SamePart
    <3> QED
      BY <1>1, <1>9, <3>1, PartsSameFrames DEF Halts, StopFacts
  <2>3. git' \in ServedGit(TurnId) /\ Tends(git, git', Acquiring) /\ UNCHANGED turns
    BY <1>1, <1>9, <2>1, StopWaitingType, GitTends DEF Halts, StopFacts
  <2> QED
    BY <1>2, <2>2, <2>3 DEF Passing
<1>10. ASSUME NEW t \in TurnId, Gates(t)
       PROVE  Passing
  <2>1. SameFrames
    <3>1. \A i \in SessionId : SamePart(obj[i], obj'[i])
      BY <1>10, HeldPart DEF Gates
    <3> QED
      BY <1>1, <1>10, <3>1, PartsSameFrames DEF Gates
  <2> QED
    BY <1>1, <1>3, <1>10, <2>1 DEF Gates, Passing
<1>11. ASSUME NEW t \in TurnId, NEW g \in ServedGit(TurnId),
              Settles(t, g) \/ Fails(t, g)
       PROVE  \/ Returning(t)
              \/ \E m \in Message : \E q, ts : Starting(turns[t].session, m, q, ts, g)
  <2> DEFINE s == turns[t].session
  <2>1. s \in SessionId
    BY <1>1, ChannelOfType
  <2>2. turns[t].phase # "done"
    <3> DEFINE ts == [turns EXCEPT ![t].phase = "done"]
    <3>1. /\ Len(ts) = Len(turns)
          /\ \A u \in TurnId : /\ ts[u].session = turns[u].session
                               /\ ts[u].user = turns[u].user
                               /\ ts[u].phase = IF u = t THEN "done" ELSE turns[u].phase
      BY <1>1, DoneFacts
    <3> HIDE DEF ts
    <3> QED
      BY <1>11, <3>1, ReturnLeft
  <2>3. ASSUME ReturnFacts(t), git' = g, Len(obj') = Len(obj), ~obj'[s].prompting,
               \A i \in SessionId : i # s =>
                 /\ obj'[i].prompting = obj[i].prompting
                 /\ obj'[i].currentTurnId = obj[i].currentTurnId
                 /\ obj'[i].activeUserId = obj[i].activeUserId
        PROVE  Returning(t)
    <3>1. Returned(t)
      BY <2>2, <2>3 DEF Returned
    <3>2. \A u \in TurnId : turns'[u].phase = IF u = t THEN "done" ELSE turns[u].phase
      BY <2>3 DEF ReturnFacts
    <3>3. Left(git', turns')
      BY <1>11, <2>3, <3>2, ReturnLeft
    <3> QED
      BY <3>1, <3>3 DEF Returning
  <2>4. CASE RestFacts(t, g)
    BY <2>3, <2>4 DEF RestFacts
  <2>5. CASE FailFacts(t, g)
    <3>1. PICK o \in Seq(ManagedSession) :
            /\ Len(o) = Len(obj)
            /\ \A i \in SessionId : i # s => o[i] = obj[i]
            /\ ~o[s].prompting
            /\ EndFacts(ChannelOf(t), o, "terminating")
      BY <2>5 DEF FailFacts
    <3>2. /\ Len(obj') = Len(obj)
          /\ \A i \in SessionId : Held(o[i], obj'[i]) /\ obj'[i].prompting = o[i].prompting
      BY <3>1 DEF EndFacts
    <3> QED
      BY SMTT(30), <2>1, <2>3, <2>5, <3>1, <3>2 DEF FailFacts, Held
  <2>6. CASE /\ obj[s].queue # <<>>
             /\ StartFacts(s, Head(obj[s].queue), Tail(obj[s].queue),
                           [turns EXCEPT ![t].phase = "done"], g)
    <3> DEFINE ts == [turns EXCEPT ![t].phase = "done"]
    <3>1. /\ Len(ts) = Len(turns)
          /\ \A u \in TurnId : /\ ts[u].session = turns[u].session
                               /\ ts[u].user = turns[u].user
                               /\ ts[u].phase = IF u = t THEN "done" ELSE turns[u].phase
      BY <1>1, DoneFacts
    <3> HIDE DEF ts
    <3>2. Cleared(s, ts) /\ Left(g, ts) /\ Due(s)
      BY <1>11, <2>2, <3>1, DoneCleared, ReturnLeft DEF Due
    <3>3. Head(obj[s].queue) \in Message
      BY <1>1, <2>1, <2>6, ObjectType
    <3> QED
      BY <2>6, <3>2, <3>3 DEF Starting, ts
  <2> QED
    BY <1>11, <2>4, <2>5, <2>6 DEF Settles, Fails, SettleFacts
<1> QED
  BY <1>4, <1>5, <1>6, <1>7, <1>8, <1>9, <1>10, <1>11, ChannelOfType, <1>1 DEF Kind

\* Turns keep their channels.
LEMMA ChannelsKept ==
    ASSUME TypeInv, Evolves, NEW t \in TurnId
    PROVE  ChannelOf(t)' = ChannelOf(t)
<1>1. turns[t].session \in SessionId /\ turns'[t].session = turns[t].session
  BY ChannelOfType DEF TypeInv, Evolves
<1>2. obj'[turns[t].session].channelId = obj[turns[t].session].channelId
  BY <1>1 DEF Evolves, Fate
<1> QED
  BY <1>1, <1>2 DEF ChannelOf

\* Frames agree with their sessions after every step.
LEMMA FramesKept ==
    ASSUME Base, Kind
    PROVE  Frames'
<1>1. TypeInv /\ Frames
  BY DEF Base
<1> QED
  BY <1>1, KindPasses, SameFramesKept, ReturnedKeptFrames, StartKeptFrames
  DEF Passing, Returning, Starting

\* The entries that were in the queue before the step.
LEMMA WaitersKept ==
    ASSUME Base, Evolves, NEW w \in Waiters(git.lock)
    PROVE  w.turn \in TurnId /\ w.channel = ChannelOf(w.turn)'
<1>1. git.lock \in Lock(TurnId)
  BY DEF Base, TypeInv, CoreType, ServedGit, ServedLock
<1>2. w \in Waiter(TurnId)
  BY <1>1 DEF Lock, Waiters
<1>3. w.turn \in TurnId /\ w.channel = ChannelOf(w.turn)
  BY <1>2 DEF Waiter, Base, Waiting
<1>4. TypeInv
  BY DEF Base
<1> QED
  BY <1>3, <1>4, ChannelsKept

\* The frames that await acquire() are in the lock after every step.
LEMMA WaitingKept ==
    ASSUME Base, Kind, TypeInv'
    PROVE  Waiting'
<1>1. TypeInv /\ CoreType /\ Evolves
  BY KindEvolves DEF Base, TypeInv
<1>2. ASSUME Len(turns') = Len(turns), Left(git', turns')
      PROVE  Waiting'
  <2>1. TurnId' = TurnId
    BY <1>2 DEF TurnId
  <2>2. Acquiring' = {t \in TurnId : turns'[t].phase = "acquiring"}
    BY <2>1 DEF Acquiring
  <2>3. Waiters(git.lock)' = Waiters(git'.lock)
    BY DEF Waiters
  <2>4. Awaits(git.lock, Acquiring)' = Awaits(git'.lock, Acquiring')
    BY DEF Awaits, Waiters, Woken, Answers, Distinct
  <2>5. \A w \in Waiters(git'.lock) : w.channel = ChannelOf(w.turn)'
    BY <1>1, <1>2, WaitersKept DEF Left
  <2>6. Awaits(git'.lock, Acquiring')
    BY <1>2, <2>2 DEF Left
  <2> QED
    BY <2>3, <2>4, <2>5, <2>6 DEF Waiting, ChannelOf
<1>3. ASSUME NEW s \in SessionId, NEW m \in Message, NEW q, NEW ts, NEW g,
             Starting(s, m, q, ts, g)
      PROVE  Waiting'
  <2> DEFINE t == Len(turns) + 1
             c == obj[s].channelId
             T == {u \in TurnId : ts[u].phase = "acquiring"}
             w == [turn |-> t, channel |-> c]
  <2>1. /\ g \in ServedGit(TurnId) /\ Awaits(g.lock, T)
        /\ Waiters(g.lock) \subseteq Waiters(git.lock)
        /\ Len(ts) = Len(turns) /\ Len(turns) \in Nat
        /\ git' = [g EXCEPT !.lock = Acquire(g.lock, t, c)]
        /\ Len(turns') = t /\ \A u \in TurnId : turns'[u] = ts[u]
        /\ turns'[t] = [session |-> s, phase |-> "acquiring", user |-> m.user]
        /\ obj'[s].channelId = c
    BY <1>1, <1>3 DEF Starting, Left, Cleared, StartFacts, SameBody, CoreType, TurnId
  <2>2. c \in Channel /\ g.lock \in Lock(TurnId) /\ t \notin T
    BY <1>1, <2>1, ObjectType DEF ServedGit, ServedLock, TurnId
  <2>3. git'.lock = Acquire(g.lock, t, c)
    BY <2>1 DEF ServedGit, Git
  <2>4. w.turn = t /\ w.channel = c
    OBVIOUS
  <2>5. TurnId' = TurnId \cup {t} /\ turns'[t].session = s /\ turns'[t].phase = "acquiring"
    BY <2>1 DEF TurnId
  <2>6. Acquiring' = T \cup {t}
    BY <2>1, <2>5 DEF Acquiring
  <2> HIDE DEF t, c, T
  <2>7. Awaits(Acquire(g.lock, t, c), T \cup {t})
        /\ Waiters(Acquire(g.lock, t, c)) \subseteq Waiters(g.lock) \cup {w}
    BY <2>1, <2>2, AcquireAwaits
  <2>8. \A v \in Waiters(git'.lock) : v.channel = obj'[turns'[v.turn].session].channelId
    <3> HIDE DEF w
    <3> TAKE v \in Waiters(git'.lock)
    <3>1. CASE v = w
      BY <2>1, <2>4, <2>5, <3>1
    <3>2. CASE v \in Waiters(git.lock)
      BY <1>1, <3>2, WaitersKept DEF ChannelOf
    <3> QED
      BY <2>1, <2>3, <2>7, <3>1, <3>2
  <2>9. Awaits(git.lock, Acquiring)' = Awaits(git'.lock, Acquiring')
    BY DEF Awaits, Waiters, Woken, Answers, Distinct
  <2>10. Waiters(git.lock)' = Waiters(git'.lock)
    BY DEF Waiters
  <2> QED
    BY <2>3, <2>6, <2>7, <2>8, <2>9, <2>10 DEF Waiting, ChannelOf
<1> QED
  BY <1>2, <1>3, KindPasses DEF Passing, Returning, SameFrames, Returned, ReturnFacts

-----------------------------------------------------------------------------
(* The attempts to get a session, and what a channel remembers *)

\* What a step may make of an attempt p other than to start it: it can end,
\* fall back, be cancelled by /clear or be joined by another prompt().
Fades(p, q) ==
    q.stage # "none" =>
        /\ p.stage # "none"
        /\ q.stage = "load" /\ ~q.cancelled =>
             p.stage = "load" /\ ~p.cancelled /\ q.epoch = p.epoch
        /\ \/ q.callers = p.callers
           \/ /\ "join_image" \in Races \/ ~Head(p.callers).image
              /\ Head(q.callers) = Head(p.callers)

\* No attempt starts or succeeds, and no memory is wiped.
Aside ==
    /\ callers' = callers \/ (callers # <<>> /\ callers' = Tail(callers))
    /\ span' # <<>> => callers' = <<>>
    /\ span' = span \/ \A i \in DOMAIN span' : span'[i].op # "create"
    /\ \A d \in Channel : Fades(pending[d], pending'[d])
    /\ UNCHANGED epoch

\* prompt() calls createOrReactivateSession() for channel c.
Opens(c) ==
    /\ AtRest /\ sessions[c] = 0 /\ pending[c].stage = "none"
    /\ \E m \in Message : span' = <<[op |-> "create", channel |-> c, message |-> m]>>
    /\ UNCHANGED <<callers, pending, epoch>>

\* It starts or reloads an agent.
Launches(c) ==
    /\ span # <<>> /\ Head(span).op = "create" /\ Head(span).channel = c
    /\ span' = Tail(span)
    /\ pending'[c].stage = "load" =>
         Resumable(c) /\ pending'[c].epoch = obj[LatestRow(c)].epoch
    /\ Len(pending'[c].callers) = 1
    /\ \A d \in Channel : d # c => pending'[d] = pending[d]
    /\ UNCHANGED <<callers, epoch>>

\* /clear wipes what channel c remembers.
Wipes(c) ==
    /\ AtRest /\ sessions'[c] = 0
    /\ LatestRow(c) # 0 => ~obj'[LatestRow(c)].acp
    /\ pending'[c].stage = pending[c].stage
    /\ pending[c].stage # "none" =>
         pending'[c].cancelled /\ pending'[c].callers = pending[c].callers
    /\ \A d \in Channel : d # c => pending'[d] = pending[d] /\ epoch'[d] = epoch[d]
    /\ UNCHANGED <<callers, span>>

Attempt ==
    \/ Aside
    \/ \E c \in Channel : Opens(c) \/ Launches(c) \/ Wipes(c) \/ Installs(c, epoch[c])

\* A channel whose agent is being started has no session, and the start itself
\* runs in a callback of its own, in which it is the only thing to do.
Awaited ==
    /\ NoSessionYet
    /\ \A i \in DOMAIN span : span[i].op = "create" =>
         /\ Len(span) = 1
         /\ sessions[span[i].channel] = 0 /\ pending[span[i].channel].stage = "none"

\* What a channel's session, its resumable row and the reload in progress
\* remember is from after its last /clear.
Remembers == \A c \in Channel :
    /\ sessions[c] # 0 => obj[sessions[c]].epoch = epoch[c]
    /\ Resumable(c) => obj[LatestRow(c)].epoch = epoch[c]
    /\ pending[c].stage = "load" /\ ~pending[c].cancelled => pending[c].epoch = epoch[c]

\* Most callbacks have nothing to do with the attempts.
LEMMA NoOtherFrameIsAside ==
    ASSUME Base, NoOtherFrame
    PROVE  Attempt
  BY DEF Base, SpanIsAlone, NoOtherFrame, Attempt, Aside, Fades

\* Nor has prompt() with a session, or with an attempt to join.
LEMMA RequestPromptAttempt ==
    ASSUME Base, NEW c \in Channel, NEW m \in Message, NEW k, AtRest,
           RequestPrompt(c, m, k)
    PROVE  Attempt
<1>1. callers = <<>> /\ callers' = callers /\ span = <<>> /\ UNCHANGED epoch
  BY DEF RequestPrompt, AtRest, MicrotasksDue
<1>2. CASE UNCHANGED <<pending, span>>
  BY <1>1, <1>2 DEF Attempt, Aside, Fades
<1>3. CASE /\ pending[c].stage # "none"
           /\ "join_image" \in Races \/ ~Head(pending[c].callers).image
           /\ pending' = [pending EXCEPT ![c].callers = Append(@, m)]
           /\ UNCHANGED span
  <2> DEFINE p == pending[c]
             q == [p EXCEPT !.callers = Append(@, m)]
  <2>1. pending \in [Channel -> Pending]
    BY DEF Base, TypeInv, RestType
  <2>2. p \in Pending \ {NoPending}
    BY <1>3, <2>1 DEF NoPending
  <2>3. /\ q.stage = p.stage /\ q.cancelled = p.cancelled /\ q.epoch = p.epoch
        /\ q.callers = Append(p.callers, m)
        /\ p.callers \in Seq(Message) \ {<<>>}
    BY <2>2 DEF Pending
  <2>4. Head(q.callers) = Head(p.callers)
    <3> HIDE DEF q
    <3> QED
      BY <2>3
  <2>5. Fades(p, q)
    <3> HIDE DEF q
    <3> QED
      BY <1>3, <2>3, <2>4 DEF Fades
  <2>6. pending' = [pending EXCEPT ![c] = q]
    BY <1>3
  <2> HIDE DEF q
  <2>7. \A d \in Channel : Fades(pending[d], pending'[d])
    BY <2>1, <2>5, <2>6 DEF Fades
  <2> QED
    BY <1>1, <1>3, <2>7 DEF Attempt, Aside
<1>4. CASE /\ sessions[c] = 0 /\ pending[c].stage = "none"
           /\ span' = <<[op |-> "create", channel |-> c, message |-> m]>>
           /\ UNCHANGED pending
  BY <1>1, <1>4 DEF Attempt, Opens
<1> QED
  BY <1>2, <1>3, <1>4 DEF RequestPrompt

\* The rest of a loop's steps has no attempt to make.
LEMMA RestOfSpan ==
    ASSUME Base, Awaited, span # <<>>
    PROVE  \A i \in DOMAIN Tail(span) : Tail(span)[i].op # "create"
<1>1. span \in Seq(Teardown \cup {TeardownRest} \cup Create)
  BY DEF Base, TypeInv, RestType
<1>2. /\ Len(Tail(span)) = Len(span) - 1 /\ Len(span) \in Nat
      /\ \A i \in 1 .. Len(Tail(span)) : i + 1 \in DOMAIN span /\ Tail(span)[i] = span[i + 1]
      /\ DOMAIN Tail(span) = 1 .. Len(Tail(span))
  BY <1>1
<1> QED
  BY <1>2 DEF Awaited

\* Starting an agent.
LEMMA CreateStepAttempt ==
    ASSUME Base, Awaited, CreateStep
    PROVE  Attempt
<1> DEFINE c == Head(span).channel
           p == [stage     |-> IF Resumable(c) THEN "load" ELSE "create",
                 cancelled |-> FALSE,
                 callers   |-> <<Head(span).message>>,
                 epoch     |-> IF Resumable(c) THEN obj[LatestRow(c)].epoch ELSE 0]
<1>1. /\ span # <<>> /\ Head(span).op = "create" /\ UNCHANGED <<callers, epoch>>
      /\ callers = <<>>
      /\ \A i \in DOMAIN Tail(span) : Tail(span)[i].op # "create"
  BY RestOfSpan DEF CreateStep, Base, SpanIsAlone
<1>2. CASE UNCHANGED <<pending, span>>
  BY <1>1, <1>2 DEF Attempt, Aside, Fades
<1>3. CASE span' = Tail(span) /\ UNCHANGED pending
  BY <1>1, <1>3 DEF Attempt, Aside, Fades
<1>4. CASE span' = Tail(span) /\ pending' = [pending EXCEPT ![c] = p]
  <2>1. c \in Channel /\ pending \in [Channel -> Pending]
    <3>1. Head(span) \in Teardown \cup {TeardownRest} \cup Create
      BY <1>1 DEF Base, TypeInv, RestType
    <3> QED
      BY <1>1, <3>1 DEF Base, TypeInv, RestType, Teardown, TeardownRest, Create
  <2>2. /\ p.stage = "load" => Resumable(c) /\ p.epoch = obj[LatestRow(c)].epoch
        /\ Len(p.callers) = 1
    <3>1. p.stage = IF Resumable(c) THEN "load" ELSE "create"
      OBVIOUS
    <3>2. p.epoch = IF Resumable(c) THEN obj[LatestRow(c)].epoch ELSE 0
      OBVIOUS
    <3>3. p.callers = <<Head(span).message>>
      OBVIOUS
    <3> HIDE DEF p
    <3> QED
      BY <3>1, <3>2, <3>3
  <2>3. Head(span).channel = c
    OBVIOUS
  <2> HIDE DEF p, c
  <2>4. pending'[c] = p /\ \A d \in Channel : d # c => pending'[d] = pending[d]
    BY <1>4, <2>1
  <2> QED
    BY <1>1, <1>4, <2>1, <2>2, <2>3, <2>4 DEF Attempt, Launches
<1> QED
  BY <1>2, <1>3, <1>4 DEF CreateStep

\* A row that loses its acp_session_id.
LEMMA ForgottenRow ==
    ASSUME Base, NEW c \in Channel, Clear(c), LatestRow(c) # 0
    PROVE  ~obj'[LatestRow(c)].acp
<1> DEFINE r == LatestRow(c)
           v == [obj[r] EXCEPT !.acp = FALSE]
           o == [obj EXCEPT ![r] = v]
<1>1. CoreType /\ r \in SessionId
  BY LatestRowType DEF Base, TypeInv, SessionId
<1>2. obj[r] \in ManagedSession
  BY <1>1 DEF CoreType, SessionId
<1>3. v \in ManagedSession /\ ~v.acp
  BY <1>2 DEF ManagedSession
<1>4. \/ sessions[c] # 0 /\ EndSession(c, o, killed, "terminating")
      \/ obj' = o
  BY DEF Clear
<1>5. r \in SessionId
  BY <1>1
<1> HIDE DEF r, v
<1>6. o \in Seq(ManagedSession) /\ Len(o) = Len(obj) /\ o[r] = v
  BY <1>1, <1>3, UpdateType DEF CoreType, SessionId
<1> HIDE DEF o
<1>7. CASE sessions[c] # 0 /\ EndSession(c, o, killed, "terminating")
  <2>1. EndFacts(c, o, "terminating")
    BY <1>1, <1>6, <1>7, EndSessionFacts DEF CoreType
  <2>2. obj'[r].acp => o[r].acp
    BY <1>5, <2>1 DEF EndFacts
  <2> QED
    BY <1>3, <1>6, <2>2 DEF r
<1>8. CASE obj' = o
  BY <1>3, <1>6, <1>8 DEF r
<1> QED
  BY <1>4, <1>7, <1>8

\* /clear and the attempt in progress.
LEMMA ClearAttempt ==
    ASSUME Base, NEW c \in Channel, Clear(c)
    PROVE  Attempt
<1> DEFINE p == pending[c]
           q == [p EXCEPT !.cancelled = TRUE]
<1>1. AtRest /\ UNCHANGED <<callers, span>>
  BY DEF Clear
<1>2. pending \in [Channel -> Pending] /\ epoch \in [Channel -> Nat]
      /\ sessions \in [Channel -> 0 .. Len(obj)]
  BY DEF Base, TypeInv, CoreType, RestType
<1>3. sessions'[c] = 0
  BY <1>2 DEF Clear, EndSession
<1>4. \A d \in Channel : d # c => epoch'[d] = epoch[d]
  BY <1>2 DEF Clear
<1>5. /\ pending'[c].stage = pending[c].stage
      /\ pending[c].stage # "none" =>
           pending'[c].cancelled /\ pending'[c].callers = pending[c].callers
      /\ \A d \in Channel : d # c => pending'[d] = pending[d]
  <2>1. CASE p.stage = "none"
    BY <2>1 DEF Clear
  <2>2. CASE p.stage # "none"
    <3>1. p \in Pending \ {NoPending}
      BY <1>2, <2>2 DEF NoPending
    <3>2. q.stage = p.stage /\ q.cancelled /\ q.callers = p.callers
      BY <3>1 DEF Pending
    <3>3. pending' = [pending EXCEPT ![c] = q]
      BY <2>2 DEF Clear
    <3> HIDE DEF q
    <3>4. pending'[c] = q /\ \A d \in Channel : d # c => pending'[d] = pending[d]
      BY <1>2, <3>3
    <3> QED
      BY <3>2, <3>4
  <2> QED
    BY <2>1, <2>2
<1> QED
  BY <1>1, <1>3, <1>4, <1>5, ForgottenRow DEF Attempt, Wipes

\* The attempts that fall back to a new agent, or fail.
LEMMA FallBackAttempt ==
    ASSUME Base, NEW c \in Channel, AtRest, pending[c].stage # "none",
           UNCHANGED <<callers, span, epoch>>,
           \/ pending' = [pending EXCEPT ![c].stage = "create"]
           \/ pending' = [pending EXCEPT ![c] = NoPending]
    PROVE  Attempt
<1> DEFINE p == pending[c]
           q == [p EXCEPT !.stage = "create"]
<1>1. pending \in [Channel -> Pending] /\ callers = <<>>
  BY DEF Base, TypeInv, RestType, AtRest, MicrotasksDue
<1>2. p \in Pending \ {NoPending}
  BY <1>1 DEF NoPending
<1>3. q.stage = "create" /\ q.callers = p.callers /\ NoPending.stage = "none"
  BY <1>2 DEF Pending, NoPending
<1>4. \/ pending' = [pending EXCEPT ![c] = q]
      \/ pending' = [pending EXCEPT ![c] = NoPending]
  OBVIOUS
<1> HIDE DEF q
<1>5. \A d \in Channel : Fades(pending[d], pending'[d])
  BY <1>1, <1>3, <1>4 DEF Fades
<1> QED
  BY <1>1, <1>5 DEF Attempt, Aside, AtRest

\* A reload that succeeds remembers what the channel remembers.
LEMMA LoadResolvesAttempt ==
    ASSUME Base, Remembers, NEW c \in Channel, LoadResolves(c)
    PROVE  Attempt
<1>1. AtRest /\ pending[c].stage = "load"
  BY DEF LoadResolves
<1>2. CASE FallBackToCreate(c)
  BY <1>1, <1>2, FallBackAttempt DEF FallBackToCreate
<1>3. CASE ~pending[c].cancelled /\ Installs(c, pending[c].epoch)
  <2>1. pending[c].epoch = epoch[c]
    BY <1>1, <1>3 DEF Remembers
  <2> QED
    BY <1>3, <2>1 DEF Attempt
<1> QED
  BY <1>2, <1>3, LoadResolvesKind

\* What each step does to the attempts.
LEMMA StepIsAttempt ==
    ASSUME Base, Awaited, Remembers, Next
    PROVE  Attempt
<1>1. ASSUME NEW c \in Channel, LoadRejects(c) \/ CreateRejects(c)
      PROVE  Attempt
  BY <1>1, FallBackAttempt DEF LoadRejects, CreateRejects, FallBackToCreate
<1>2. ASSUME NEW c \in Channel, \/ \E m \in Message : Prompt(c, m)
                                \/ LoadResolves(c) \/ CreateResolves(c) \/ Clear(c)
                                \/ PlanTimeout(c)
      PROVE  Attempt
  BY <1>2, RequestPromptAttempt, LoadResolvesAttempt, CreateResolvesKind, ClearAttempt,
     NoOtherFrameIsAside
  DEF Prompt, PlanTimeout, TeardownCallback, Attempt
<1>3. ASSUME NEW c \in Channel, NEW p \in 1 .. Len(gates), PlanClick(c, p)
      PROVE  Attempt
  <2>1. gates[p] \in User
    BY DEF Base, TypeInv, RestType
  <2>2. [user |-> gates[p], image |-> FALSE] \in Message
    BY <2>1 DEF Message
  <2> QED
    BY <1>3, <2>2, RequestPromptAttempt, NoOtherFrameIsAside DEF PlanClick
<1>4. ASSUME NEW t \in TurnId, PromptResolves(t) \/ PromptRejects(t) \/ Stop(t)
                                  \/ PlanNeeded(t)
      PROVE  Attempt
  BY <1>4, NoOtherFrameIsAside
  DEF PromptResolves, PromptRejects, Stop, PlanNeeded, Base, SpanIsAlone, Attempt,
      Aside, Fades
<1>5. ASSUME NEW s \in SessionId, IdleTimeout(s) \/ ProcessExits(s)
      PROVE  Attempt
  BY <1>5, NoOtherFrameIsAside DEF IdleTimeout, ProcessExits, TeardownCallback
<1>6. CASE TeardownStep
  BY <1>6, RestOfSpan DEF TeardownStep, Base, SpanIsAlone, Attempt, Aside, Fades
<1>7. CASE ShutdownStep
  BY <1>7 DEF ShutdownStep, Base, SpanIsAlone, Attempt, Aside, Fades
<1>8. CASE RunCaller
  BY <1>8 DEF RunCaller, Attempt, Aside, Fades
<1>9. CASE RunWaiter
  BY <1>9, NoOtherFrameIsAside DEF RunWaiter
<1>10. CASE PollTick
  <2>1. callers = <<>> /\ UNCHANGED <<callers, pending, epoch>>
    BY <1>10 DEF PollTick, AtRest, MicrotasksDue
  <2>2. \E targets \in [1 .. (IF "same_tick" \in Races THEN 2 ELSE 1) -> LiveSessions] :
          span' = [i \in DOMAIN targets |-> [op |-> "teardown", channel |-> targets[i]]]
    BY <1>10 DEF PollTick
  <2>3. \A i \in DOMAIN span' : span'[i].op # "create"
    BY <2>2
  <2> QED
    BY <2>1, <2>3 DEF Attempt, Aside, Fades
<1>11. CASE Shutdown
  <2>1. /\ callers = <<>> /\ UNCHANGED <<callers, pending, epoch>>
        /\ span' = <<TeardownRest>>
    BY <1>11 DEF Shutdown, AtRest, MicrotasksDue
  <2>2. \A i \in DOMAIN span' : span'[i].op # "create"
    BY <2>1 DEF TeardownRest
  <2> QED
    BY <2>1, <2>2 DEF Attempt, Aside, Fades
<1> QED
  BY <1>1, <1>2, <1>3, <1>4, <1>5, <1>6, <1>7, <1>8, <1>9, <1>10, <1>11,
     CreateStepAttempt
  DEF Next

\* An attempt that succeeds has somebody waiting for it.
LEMMA SomebodyWaits ==
    ASSUME TypeInv, NEW c \in Channel, pending[c].stage # "none"
    PROVE  pending[c].callers \in Seq(Message) \ {<<>>}
<1>1. pending[c] \in Pending \ {NoPending}
  BY DEF TypeInv, RestType, NoPending
<1> QED
  BY <1>1 DEF Pending

\* The prompt() frames that waited for the attempt are due.
LEMMA InstalledCallers ==
    ASSUME TypeInv, NEW c \in Channel, NEW memory, Installs(c, memory)
    PROVE  /\ callers' # <<>> /\ span = <<>> /\ UNCHANGED span
           /\ Len(callers') = Len(pending[c].callers)
           /\ \A i \in 1 .. Len(callers') :
                /\ callers'[i].session = Len(obj) + 1
                /\ callers'[i].message = pending[c].callers[i]
<1> DEFINE p == pending[c].callers
           w == [i \in 1 .. Len(p) |-> [session |-> Len(obj) + 1, message |-> p[i]]]
<1>1. p \in Seq(Message) \ {<<>>} /\ span = <<>>
  BY SomebodyWaits DEF Installs, AtRest
<1>2. callers' = w
  BY DEF Installs, InstallFacts
<1>3. Len(w) = Len(p) /\ Len(p) > 0
  BY <1>1
<1>4. \A i \in 1 .. Len(p) : w[i].session = Len(obj) + 1 /\ w[i].message = p[i]
  OBVIOUS
<1> HIDE DEF w
<1> QED
  BY <1>1, <1>2, <1>3, <1>4 DEF Installs, InstallFacts

\* Only a step that installs a session resumes prompt() frames at rest.
LEMMA NotInstalled ==
    ASSUME TypeInv, Evolves, UNCHANGED callers \/ callers # <<>>
    PROVE  NoneInstalled
<1> SUFFICES ASSUME NEW c \in Channel, NEW memory \in Nat, Installs(c, memory)
             PROVE  callers = <<>> /\ callers' # <<>>
  BY DEF Evolves
<1> QED
  BY InstalledCallers DEF Installs, AtRest, MicrotasksDue

\* The attempts stay where no session is.
LEMMA AwaitedKept ==
    ASSUME TypeInv, Awaited, SpanIsAlone, Evolves, Attempt
    PROVE  Awaited' /\ SpanIsAlone'
<1>1. ASSUME NoneInstalled
      PROVE  \A d \in Channel : sessions[d] = 0 => sessions'[d] = 0
  BY <1>1 DEF NoneInstalled, Given
<1>2. span \in Seq(Teardown \cup {TeardownRest} \cup Create)
      /\ sessions \in [Channel -> 0 .. Len(obj)]
  BY DEF TypeInv, CoreType, RestType
<1>3. \A i \in DOMAIN span : span[i].op = "create" => span[i].channel \in Channel
  BY <1>2 DEF Teardown, TeardownRest, Create
<1>4. CASE Aside
  <2>1. NoneInstalled
    BY <1>4, NotInstalled DEF Aside
  <2>2. \A d \in Channel : pending'[d].stage # "none" => pending[d].stage # "none"
    BY <1>4 DEF Aside, Fades
  <2>3. NoSessionYet'
    BY <1>1, <2>1, <2>2 DEF Awaited, NoSessionYet
  <2>4. SpanIsAlone'
    BY <1>4 DEF Aside, SpanIsAlone
  <2>5. CASE span' = span
    BY <1>1, <1>3, <2>1, <2>2, <2>3, <2>4, <2>5 DEF Awaited
  <2>6. CASE \A i \in DOMAIN span' : span'[i].op # "create"
    BY <2>3, <2>4, <2>6 DEF Awaited
  <2> QED
    BY <1>4, <2>5, <2>6 DEF Aside
<1>5. ASSUME NEW c \in Channel, Opens(c)
      PROVE  Awaited' /\ SpanIsAlone'
  <2>1. NoneInstalled /\ callers = <<>>
    BY <1>5, NotInstalled DEF Opens, AtRest, MicrotasksDue
  <2>2. /\ Len(span') = 1 /\ span'[1].channel = c /\ DOMAIN span' = {1}
    <3>1. PICK m \in Message : span' = <<[op |-> "create", channel |-> c, message |-> m]>>
      BY <1>5 DEF Opens
    <3> QED
      BY <3>1
  <2>3. sessions'[c] = 0 /\ pending'[c].stage = "none"
    BY <1>1, <1>5, <2>1 DEF Opens
  <2>4. NoSessionYet'
    BY <1>1, <1>5, <2>1 DEF Opens, Awaited, NoSessionYet
  <2> QED
    BY <1>5, <2>1, <2>2, <2>3, <2>4 DEF Opens, Awaited, SpanIsAlone
<1>6. ASSUME NEW c \in Channel, Launches(c)
      PROVE  Awaited' /\ SpanIsAlone'
  <2>1. NoneInstalled
    BY <1>6, NotInstalled DEF Launches
  <2>2. Head(span) = span[1] /\ 1 \in DOMAIN span /\ Tail(span) \in Seq(Teardown \cup {TeardownRest} \cup Create)
        /\ Len(Tail(span)) = Len(span) - 1
    BY <1>2, <1>6 DEF Launches
  <2>3. Len(span) = 1 /\ sessions[c] = 0
    BY <1>6, <2>2 DEF Launches, Awaited
  <2>4. span' = <<>>
    BY <1>6, <2>2, <2>3 DEF Launches
  <2>5. NoSessionYet'
    BY <1>1, <1>6, <2>1, <2>3 DEF Launches, Awaited, NoSessionYet
  <2> QED
    BY <2>4, <2>5 DEF Awaited, SpanIsAlone
<1>7. ASSUME NEW c \in Channel, Wipes(c)
      PROVE  Awaited' /\ SpanIsAlone'
  <2>1. NoneInstalled /\ span' = <<>>
    BY <1>7, NotInstalled DEF Wipes, AtRest
  <2>2. \A d \in Channel : pending'[d].stage # "none" => pending[d].stage # "none"
    BY <1>7 DEF Wipes
  <2>3. NoSessionYet'
    BY <1>1, <2>1, <2>2 DEF Awaited, NoSessionYet
  <2> QED
    BY <2>1, <2>3 DEF Awaited, SpanIsAlone
<1>8. ASSUME NEW c \in Channel, Installs(c, epoch[c])
      PROVE  Awaited' /\ SpanIsAlone'
  <2>1. span' = <<>>
    BY <1>8, InstalledCallers
  <2>2. \A d \in Channel : /\ d # c => sessions'[d] = sessions[d]
                           /\ pending'[d] = IF d = c THEN NoPending ELSE pending[d]
    BY <1>8 DEF Installs, InstallFacts
  <2>3. NoSessionYet'
    BY <2>2 DEF Awaited, NoSessionYet, NoPending
  <2> QED
    BY <2>1, <2>3 DEF Awaited, SpanIsAlone
<1> QED
  BY <1>4, <1>5, <1>6, <1>7, <1>8 DEF Attempt

\* Rows are neither added nor taken away by a step that installs no session.
LEMMA LatestRowKept ==
    ASSUME TypeInv, Evolves, NoneInstalled, NEW c \in Channel
    PROVE  /\ LatestRow(c)' = LatestRow(c)
           /\ Resumable(c)' => Resumable(c) /\ obj'[LatestRow(c)].acp
           /\ LatestRow(c) # 0 => obj'[LatestRow(c)].epoch = obj[LatestRow(c)].epoch
<1> DEFINE R == {i \in 1 .. Len(obj) : obj[i].channelId = c /\ obj[i].row # "none"}
<1>1. \A i \in 1 .. Len(obj) : Fate(obj[i], obj'[i])
  BY DEF Evolves, SessionId
<1>2. R = {i \in 1 .. Len(obj) : obj'[i].channelId = c /\ obj'[i].row # "none"}
  BY <1>1 DEF Fate
<1>3. LatestRow(c) = IF R = {} THEN 0 ELSE Max(R)
  BY DEF LatestRow, SessionId
<1>4. Len(obj') = Len(obj)
  BY DEF NoneInstalled
<1> HIDE DEF R
<1>5. LatestRow(c)' = IF R = {} THEN 0 ELSE Max(R)
  BY <1>2, <1>4 DEF LatestRow, SessionId
<1>6. LatestRow(c)' = LatestRow(c)
  BY <1>3, <1>5
<1>7. LatestRow(c) # 0 => Fate(obj[LatestRow(c)], obj'[LatestRow(c)])
  BY <1>1, LatestRowType DEF TypeInv, CoreType
<1> QED
  BY <1>6, <1>7 DEF Resumable, Fate

\* The row of a session that enters the map is its channel's newest.
LEMMA InstalledRow ==
    ASSUME TypeInv, TypeInv', Evolves, NEW c \in Channel, NEW memory \in Nat,
           Installs(c, memory), NEW d \in Channel, Resumable(d)'
    PROVE  \/ d = c /\ LatestRow(d)' = Len(obj) + 1
           \/ /\ LatestRow(d)' = LatestRow(d) /\ Resumable(d)
              /\ obj'[LatestRow(d)].epoch = obj[LatestRow(d)].epoch
<1> DEFINE n == Len(obj) + 1
           R == {i \in 1 .. Len(obj) : obj[i].channelId = d /\ obj[i].row # "none"}
           Q == {i \in 1 .. n : obj'[i].channelId = d /\ obj'[i].row # "none"}
<1>1. Len(obj) \in Nat
  BY DEF TypeInv, CoreType
<1>2. \A i \in 1 .. Len(obj) : Fate(obj[i], obj'[i])
  BY DEF Evolves, SessionId
<1>3. Len(obj') = n /\ obj'[n].channelId = c /\ (obj'[n].row = "none" => ~obj'[n].acp)
  BY DEF Installs, InstallFacts
<1>4. LatestRow(d) = IF R = {} THEN 0 ELSE Max(R)
  BY DEF LatestRow, SessionId
<1>5. LatestRow(d)' = IF Q = {} THEN 0 ELSE Max(Q)
  BY <1>3 DEF LatestRow, SessionId
<1>6. CASE n \in Q
  <2>1. Q \in SUBSET (1 .. n) /\ n \in Nat
    BY <1>1
  <2>2. d = c
    BY <1>3, <1>6
  <2> HIDE DEF Q, n
  <2>3. Max(Q) \in Q /\ \A i \in Q : i <= Max(Q)
    BY <1>6, <2>1, MaxType
  <2>4. Max(Q) \in 1 .. n /\ n <= Max(Q)
    BY <1>6, <2>1, <2>3
  <2>5. Max(Q) = n
    BY <2>1, <2>4
  <2> QED
    BY <1>5, <1>6, <2>2, <2>5 DEF n
<1>7. CASE n \notin Q
  <2>1. Q = R
    <3>1. \A i \in 1 .. n : i = n \/ i \in 1 .. Len(obj)
      BY <1>1
    <3>2. \A i \in 1 .. Len(obj) : i \in 1 .. n
      BY <1>1
    <3> QED
      BY <1>2, <1>7, <3>1, <3>2 DEF Fate
  <2> HIDE DEF Q, R
  <2>2. LatestRow(d)' = LatestRow(d)
    BY <1>4, <1>5, <2>1
  <2>3. LatestRow(d) \in 0 .. Len(obj)
    BY LatestRowType DEF TypeInv
  <2>4. LatestRow(d) # 0 => Fate(obj[LatestRow(d)], obj'[LatestRow(d)])
    BY <1>1, <1>2, <2>3
  <2> QED
    BY <2>2, <2>4 DEF Resumable, Fate
<1> QED
  BY <1>6, <1>7

\* What a channel remembers stays from after its last /clear.
LEMMA RemembersKept ==
    ASSUME TypeInv, TypeInv', Awaited, Remembers, Evolves, Attempt
    PROVE  Remembers'
<1>1. sessions \in [Channel -> 0 .. Len(obj)] /\ epoch \in [Channel -> Nat]
  BY DEF TypeInv, CoreType, RestType
<1>2. ASSUME NoneInstalled, NEW d \in Channel, epoch'[d] = epoch[d],
             \/ pending'[d].stage # "load"
             \/ pending'[d].cancelled
             \/ pending'[d].epoch = epoch[d]
      PROVE  /\ sessions'[d] # 0 => obj'[sessions'[d]].epoch = epoch'[d]
             /\ Resumable(d)' => obj'[LatestRow(d)'].epoch = epoch'[d]
             /\ pending'[d].stage = "load" /\ ~pending'[d].cancelled
                  => pending'[d].epoch = epoch'[d]
  <2>1. sessions'[d] # 0 => obj'[sessions'[d]].epoch = epoch'[d]
    BY <1>1, <1>2 DEF NoneInstalled, Given, Remembers, Evolves, Fate, SessionId
  <2>2. Resumable(d)' => obj'[LatestRow(d)'].epoch = epoch'[d]
    BY <1>2, LatestRowKept DEF Remembers, Resumable
  <2> QED
    BY <1>2, <2>1, <2>2
<1>3. CASE Aside
  <2>1. NoneInstalled /\ UNCHANGED epoch
    BY <1>3, NotInstalled DEF Aside
  <2>2. \A d \in Channel : \/ pending'[d].stage # "load"
                           \/ pending'[d].cancelled
                           \/ pending'[d].epoch = epoch[d]
    BY <1>3 DEF Aside, Fades, Remembers
  <2> QED
    BY <1>2, <2>1, <2>2 DEF Remembers
<1>4. ASSUME NEW c \in Channel, Opens(c)
      PROVE  Remembers'
  <2>1. NoneInstalled /\ UNCHANGED <<epoch, pending>>
    BY <1>4, NotInstalled DEF Opens
  <2>2. \A d \in Channel : \/ pending'[d].stage # "load"
                           \/ pending'[d].cancelled
                           \/ pending'[d].epoch = epoch[d]
    BY <2>1 DEF Remembers
  <2> QED
    BY <1>2, <2>1, <2>2 DEF Remembers
<1>5. ASSUME NEW c \in Channel, Launches(c)
      PROVE  Remembers'
  <2>1. NoneInstalled /\ UNCHANGED epoch
    BY <1>5, NotInstalled DEF Launches
  <2>2. \A d \in Channel : \/ pending'[d].stage # "load"
                           \/ pending'[d].cancelled
                           \/ pending'[d].epoch = epoch[d]
    BY <1>5 DEF Launches, Remembers
  <2> QED
    BY <1>2, <2>1, <2>2 DEF Remembers
<1>6. ASSUME NEW c \in Channel, Wipes(c)
      PROVE  Remembers'
  <2>1. NoneInstalled
    BY <1>6, NotInstalled DEF Wipes
  <2>2. \A d \in Channel : d # c =>
          /\ epoch'[d] = epoch[d]
          /\ \/ pending'[d].stage # "load"
             \/ pending'[d].cancelled
             \/ pending'[d].epoch = epoch[d]
    BY <1>6 DEF Wipes, Remembers
  <2>3. /\ sessions'[c] = 0
        /\ pending'[c].stage = "load" => pending'[c].cancelled
    BY <1>6 DEF Wipes
  <2>4. ~Resumable(c)'
    BY <1>6, <2>1, LatestRowKept DEF Wipes, Resumable
  <2>5. ASSUME NEW d \in Channel, d # c
        PROVE  /\ sessions'[d] # 0 => obj'[sessions'[d]].epoch = epoch'[d]
               /\ Resumable(d)' => obj'[LatestRow(d)'].epoch = epoch'[d]
               /\ pending'[d].stage = "load" /\ ~pending'[d].cancelled
                    => pending'[d].epoch = epoch'[d]
    BY <1>2, <2>1, <2>2, <2>5
  <2> QED
    BY <2>3, <2>4, <2>5 DEF Remembers
<1>7. ASSUME NEW c \in Channel, Installs(c, epoch[c])
      PROVE  Remembers'
  <2>1. /\ UNCHANGED epoch /\ epoch[c] \in Nat
        /\ \A d \in Channel : /\ sessions'[d] = IF d = c THEN Len(obj) + 1 ELSE sessions[d]
                              /\ pending'[d] = IF d = c THEN NoPending ELSE pending[d]
        /\ obj'[Len(obj) + 1].epoch = epoch[c]
    BY <1>1, <1>7 DEF Installs, InstallFacts
  <2>2. \A i \in 1 .. Len(obj) : Fate(obj[i], obj'[i])
    BY DEF Evolves, SessionId
  <2> SUFFICES ASSUME NEW d \in Channel
               PROVE  /\ sessions'[d] # 0 => obj'[sessions'[d]].epoch = epoch[d]
                      /\ Resumable(d)' => obj'[LatestRow(d)'].epoch = epoch[d]
                      /\ pending'[d].stage = "load" /\ ~pending'[d].cancelled
                           => pending'[d].epoch = epoch[d]
    BY <2>1 DEF Remembers
  <2>3. sessions'[d] # 0 => obj'[sessions'[d]].epoch = epoch[d]
    <3>1. CASE d = c
      BY <2>1, <3>1
    <3>2. CASE d # c
      BY <1>1, <2>1, <2>2, <3>2 DEF Remembers, Fate
    <3> QED
      BY <3>1, <3>2
  <2>4. ASSUME Resumable(d)'
        PROVE  obj'[LatestRow(d)'].epoch = epoch[d]
    <3>1. CASE d = c /\ LatestRow(d)' = Len(obj) + 1
      BY <2>1, <3>1
    <3>2. CASE /\ LatestRow(d)' = LatestRow(d) /\ Resumable(d)
               /\ obj'[LatestRow(d)].epoch = obj[LatestRow(d)].epoch
      BY <3>2 DEF Remembers
    <3> QED
      BY <1>7, <2>1, <2>4, <3>1, <3>2, InstalledRow
  <2>5. pending'[d].stage = "load" /\ ~pending'[d].cancelled => pending'[d].epoch = epoch[d]
    BY <2>1 DEF Remembers, NoPending
  <2> QED
    BY <2>3, <2>4, <2>5
<1> QED
  BY <1>3, <1>4, <1>5, <1>6, <1>7 DEF Attempt

\* A session that holds follow-ups back is in the middle of a turn.
QueuesAre == \A s \in SessionId : InMap(s) /\ obj[s].queue # <<>> => obj[s].prompting

\* No step leaves a follow-up behind that no turn will start.
LEMMA QueuesAreKept ==
    ASSUME Base, QueuesAre, Kind
    PROVE  QueuesAre'
<1>1. /\ TypeInv /\ CoreType /\ Evolves /\ MapAgrees
      /\ \A s \in SessionId : obj[s].channelId \in Channel
  BY KindEvolves, ObjectType DEF Base, TypeInv
<1>2. ASSUME NEW c \in Channel, NEW memory \in Nat, Installs(c, memory)
      PROVE  QueuesAre'
  <2>1. /\ sessions \in [Channel -> 0 .. Len(obj)] /\ Len(obj') = Len(obj) + 1
        /\ Len(obj) \in Nat /\ obj'[Len(obj) + 1].queue = <<>>
        /\ \A i \in SessionId : /\ obj'[i].queue = obj[i].queue
                                /\ obj'[i].channelId = obj[i].channelId
                                /\ obj'[i].prompting = obj[i].prompting
        /\ \A d \in Channel : sessions'[d] = IF d = c THEN Len(obj) + 1 ELSE sessions[d]
    BY <1>1, <1>2 DEF Installs, InstallFacts, Held, CoreType
  <2>2. \A i \in SessionId' : i \in SessionId \/ i = Len(obj) + 1
    BY <2>1 DEF SessionId
  <2>3. ASSUME NEW i \in SessionId, InMap(i)'
        PROVE  InMap(i)
    BY <1>1, <2>1, <2>3 DEF InMap, SessionId
  <2> QED
    BY <2>1, <2>2, <2>3 DEF QueuesAre
<1>3. ASSUME NoneInstalled
      PROVE  QueuesAre'
  <2>1. \A i \in SessionId : InMap(i)' => InMap(i)
    BY <1>1, <1>3 DEF NoneInstalled, Given, InMap, Evolves, Fate, SessionId
  <2> SUFFICES ASSUME NEW i \in SessionId, InMap(i)', obj'[i].queue # <<>>
               PROVE  obj'[i].prompting
    BY <1>3 DEF QueuesAre, NoneInstalled, SessionId
  <2>2. ASSUME obj'[i].queue = obj[i].queue, obj'[i].prompting = obj[i].prompting
        PROVE  obj'[i].prompting
    BY <2>1, <2>2 DEF QueuesAre
  <2>3. CASE Quiet
    BY <2>2, <2>3 DEF Quiet, Held
  <2>4. ASSUME NEW c \in Channel, EndFacts(c, obj, "terminating") \/ EndFacts(c, obj, "exited")
        PROVE  obj'[i].prompting
    BY <2>2, <2>4 DEF EndFacts, Held
  <2>5. ASSUME NEW s \in SessionId, NEW m, NEW q, NEW ts, NEW g, StartFacts(s, m, q, ts, g)
        PROVE  obj'[i].prompting
    BY <2>2, <2>5 DEF StartFacts
  <2>6. ASSUME NEW s \in SessionId, NEW m \in Message, Asks(s, m)
        PROVE  obj'[i].prompting
    <3>1. CASE \E q : TouchFacts(s, q) /\ q \in {QueueKept(s), Append(QueueKept(s), m)}
                        /\ (q = QueueKept(s) \/ obj[s].prompting)
      BY <2>1, <2>2, <3>1 DEF TouchFacts, QueueKept, Asked, QueuesAre
    <3>2. obj[s].channelId \in Channel
      BY <1>1
    <3> QED
      BY <2>4, <2>5, <2>6, <3>1, <3>2 DEF Asks, PromptFacts
  <2>7. ASSUME NEW t \in TurnId, Begins(t) \/ Gates(t)
        PROVE  obj'[i].prompting
    BY <2>2, <2>7 DEF Begins, Gates, Held
  <2>8. ASSUME NEW t \in TurnId, Halts(t)
        PROVE  obj'[i].prompting
    BY <2>2, <2>8 DEF Halts, StopFacts
  <2>9. ASSUME NEW t \in TurnId, NEW g, SettleFacts(t, g)
        PROVE  obj'[i].prompting
    <3> DEFINE s == turns[t].session
    <3>1. s \in SessionId /\ ChannelOf(t) = obj[s].channelId
      BY <1>1, ChannelOfType DEF ChannelOf
    <3>2. CASE /\ sessions[ChannelOf(t)] = 0 \/ obj[s].queue = <<>>
               /\ RestFacts(t, g)
      <4>1. CASE i = s
        <5>1. obj'[i].queue = obj[s].queue
          BY <3>2, <4>1 DEF RestFacts, Held
        <5>2. sessions[ChannelOf(t)] = s /\ s # 0
          BY <2>1, <3>1, <4>1 DEF InMap, SessionId
        <5> QED
          BY <3>2, <5>1, <5>2
      <4>2. CASE i # s
        BY <2>2, <3>2, <4>2 DEF RestFacts
      <4> QED
        BY <4>1, <4>2
    <3> HIDE DEF s
    <3>3. CASE \E m, q, ts : StartFacts(s, m, q, ts, g)
      BY <2>5, <3>1, <3>3
    <3> QED
      BY <2>9, <3>2, <3>3 DEF SettleFacts, s
  <2>10. ASSUME NEW t \in TurnId, NEW g, FailFacts(t, g)
         PROVE  obj'[i].prompting
    <3> DEFINE s == turns[t].session
               c == ChannelOf(t)
    <3>1. s \in SessionId /\ c \in Channel /\ c = obj[s].channelId
      BY <1>1, ChannelOfType DEF ChannelOf
    <3>2. PICK o : /\ \A j \in SessionId : j # s => o[j] = obj[j]
                   /\ EndFacts(c, o, "terminating")
      BY <2>10 DEF FailFacts
    <3>3. sessions'[c] = 0
      BY <3>1, <3>2 DEF EndFacts
    <3>4. i # s
      BY <1>1, <3>1, <3>3 DEF InMap, Evolves, Fate, SessionId
    <3>5. obj'[i].queue = obj[i].queue /\ obj'[i].prompting = obj[i].prompting
      BY <3>2, <3>4 DEF EndFacts, Held
    <3> QED
      BY <2>2, <3>5
  <2>11. \A c \in Channel : \A memory : ~Installs(c, memory)
    <3>1. Len(obj) \in Nat
      BY <1>1 DEF CoreType
    <3> QED
      BY <1>3, <3>1 DEF Installs, InstallFacts, NoneInstalled
  <2> QED
    BY <2>3, <2>4, <2>6, <2>7, <2>8, <2>9, <2>10, <2>11 DEF Kind, Drops, Settles, Fails
<1> QED
  BY <1>1, <1>2, <1>3 DEF Evolves

-----------------------------------------------------------------------------
(* What holds whatever the environment does *)

\* The inductive invariant for all the races.
Kept == Base /\ QueuesAre /\ Ended /\ Awaited /\ Remembers

\* It holds at the start.
LEMMA InitKept == Init => Kept
<1> SUFFICES ASSUME Init PROVE Kept
  OBVIOUS
<1>1. TypeInv
  BY InitTypeInv
<1>2. /\ obj = <<>> /\ turns = <<>> /\ span = <<>> /\ callers = <<>>
      /\ \A c \in Channel : sessions[c] = 0 /\ pending[c] = NoPending
      /\ git.lock = FreeLock
  BY DEF Init, SweptGit
<1>3. SessionId = {} /\ TurnId = {}
  BY <1>2 DEF SessionId, TurnId
<1>4. /\ FreeLock.queue = <<>> /\ FreeLock.settled = <<>>
  BY DEF FreeLock
<1>5. /\ Waiters(FreeLock) = {} /\ Woken(FreeLock) = {}
      /\ Distinct(FreeLock.queue) /\ Distinct(FreeLock.settled)
  BY <1>4 DEF Waiters, Woken, Answers, Distinct
<1>6. Acquiring = {}
  BY <1>3 DEF Acquiring
<1>7. Waiting
  BY <1>2, <1>5, <1>6 DEF Waiting, Awaits
<1>8. \A c \in Channel : LatestRow(c) = 0
  BY <1>3 DEF LatestRow
<1> QED
  BY <1>1, <1>2, <1>3, <1>7, <1>8
  DEF Kept, Base, Frames, MapAgrees, SpanIsAlone, QueuesAre, Ended, Awaited, NoSessionYet,
      Remembers, Resumable, NoPending

\* Every step keeps it.
LEMMA NextKept ==
    ASSUME Kept, [Next]_vars
    PROVE  Kept'
<1>1. TypeInv'
  BY NextTypeInv DEF Kept, Base
<1>2. CASE Next
  <2>1. Base /\ TypeInv /\ MapAgrees /\ SpanIsAlone
    BY DEF Kept, Base
  <2>2. Kind /\ Attempt
    BY <1>2, <2>1, StepIsKind, StepIsAttempt DEF Kept
  <2>3. Evolves
    BY <2>1, <2>2, KindEvolves
  <2>4. MapAgrees' /\ Ended'
    BY <2>1, <2>3, MapAgreesKept, EndedKept DEF Kept, Awaited
  <2>5. Frames' /\ Waiting' /\ QueuesAre'
    BY <1>1, <2>1, <2>2, FramesKept, WaitingKept, QueuesAreKept DEF Kept
  <2>6. Awaited' /\ SpanIsAlone' /\ Remembers'
    BY <1>1, <2>1, <2>2, <2>3, AwaitedKept, RemembersKept DEF Kept
  <2> QED
    BY <1>1, <2>4, <2>5, <2>6 DEF Kept, Base
<1>3. CASE UNCHANGED vars
  <2>1. UNCHANGED <<git, sessions, obj, turns, pending, callers, span, epoch>>
    BY <1>3 DEF vars
  <2>2. SessionId' = SessionId /\ TurnId' = TurnId
    BY <2>1 DEF SessionId, TurnId
  <2>3. Frames' /\ MapAgrees' /\ SpanIsAlone'
    BY <2>1, <2>2 DEF Kept, Base, Frames, MapAgrees, SpanIsAlone
  <2>4. Acquiring' = Acquiring
    BY <2>1, <2>2 DEF Acquiring
  <2>5. Waiting'
    BY <2>1, <2>4 DEF Kept, Base, Waiting, Awaits, Waiters, Woken, Answers, Distinct, ChannelOf
  <2>6. QueuesAre' /\ Ended' /\ Awaited'
    BY <2>1, <2>2 DEF Kept, QueuesAre, Ended, Awaited, NoSessionYet, InMap
  <2>7. \A c \in Channel : LatestRow(c)' = LatestRow(c)
    BY <2>1, <2>2 DEF LatestRow
  <2>8. Remembers'
    BY <2>1, <2>7 DEF Kept, Remembers, Resumable
  <2> QED
    BY <1>1, <2>3, <2>5, <2>6, <2>8 DEF Kept, Base
<1> QED
  BY <1>2, <1>3

\* What Kept says holds in every state of every behaviour.
THEOREM AlwaysKept == Spec => []Kept
  BY InitKept, NextKept, PTL DEF Spec

\* Nothing waits for a wake-up that has been lost, whatever the races: between
\* callbacks each suspended acquire() is in the lock's queue, and a queued
\* follow-up has an unfinished turn in front of it whose finally block starts it.
THEOREM WaitersAreWoken == Spec => []WaitingIsWoken
<1>1. ASSUME Kept
      PROVE  WaitingIsWoken
  <2>1. ASSUME AtRest
        PROVE  {git.lock.queue[i].turn : i \in DOMAIN git.lock.queue}
                 = {t \in TurnId : turns[t].phase = "acquiring"}
    <3>1. git.lock.settled = <<>>
      BY <2>1 DEF AtRest, MicrotasksDue
    <3>2. Woken(git.lock) = {}
      BY <3>1 DEF Woken, Answers
    <3>3. Acquiring = {w.turn : w \in Waiters(git.lock)}
      BY <1>1, <3>2 DEF Kept, Base, Waiting, Awaits
    <3>4. {w.turn : w \in Waiters(git.lock)}
            = {git.lock.queue[i].turn : i \in DOMAIN git.lock.queue}
      <4>1. git.lock.queue \in Seq(Waiter(TurnId))
        BY <1>1 DEF Kept, Base, TypeInv, CoreType, ServedGit, ServedLock, Lock
      <4>2. DOMAIN git.lock.queue = 1 .. Len(git.lock.queue)
        BY <4>1
      <4> QED
        BY <4>2 DEF Waiters
    <3> QED
      BY <3>3, <3>4 DEF Acquiring
  <2>2. ASSUME NEW c \in LiveSessions, obj[sessions[c]].queue # <<>>
        PROVE  \E t \in TurnId : /\ turns[t].phase # "done"
                                 /\ turns[t].session = sessions[c]
                                 /\ obj[sessions[c]].currentTurnId = t
    <3>1. c \in Channel /\ sessions[c] \in SessionId /\ InMap(sessions[c])
      BY <1>1, MappedObject DEF LiveSessions, Kept, Base, MapAgrees, InMap
    <3>2. obj[sessions[c]].prompting
      BY <1>1, <2>2, <3>1 DEF Kept, QueuesAre
    <3> QED
      BY <1>1, <3>1, <3>2 DEF Kept, Base, Frames
  <2> QED
    BY <2>1, <2>2 DEF WaitingIsWoken, WaitersAreFrames, QueuedMessageWillRun
<1> QED
  BY <1>1, AlwaysKept, PTL

\* Whatever the races, an agent runs, and a sessions row is open, only for the
\* session its channel's map names.
THEOREM AgentsAreNotLeaked == Spec => []NoLeakedAgent
<1>1. Kept => NoLeakedAgent
  BY DEF Kept, Ended, NoLeakedAgent, InMap
<1> QED
  BY <1>1, AlwaysKept, PTL

\* Whatever the races, no session remembers anything from before its channel's
\* last /clear, also when that landed while its agent was started or reloaded.
THEOREM ClearIsFinal == Spec => []ClearForgets
<1>1. Kept => ClearForgets
  BY DEF Kept, Remembers, ClearForgets, LiveSessions
<1> QED
  BY <1>1, AlwaysKept, PTL

-----------------------------------------------------------------------------
(* One frame per channel, when no killed agent's prompt settles late *)

\* All unfinished frames of the session's channel work on this session.
Sole(s) ==
    \A u \in TurnId : turns[u].phase # "done" /\ ChannelOf(u) = obj[s].channelId
                        => turns[u].session = s

\* The channel has no other session.
Alone(s) == sessions[obj[s].channelId] \in {0, s} /\ Sole(s)

\* At most one executePrompt() frame of a channel has not returned, it works on
\* the channel's session if that has one, and so does each prompt() that is to
\* be resumed.
OneFrame ==
    \A t, u \in TurnId :
        turns[t].phase # "done" /\ turns[u].phase # "done" /\ ChannelOf(t) = ChannelOf(u)
            => t = u

OnTheirSession ==
    \A t \in TurnId : turns[t].phase # "done" => sessions[ChannelOf(t)] \in {0, turns[t].session}

CallersAgree ==
    /\ \A i, j \in DOMAIN callers : callers[i].session = callers[j].session
    /\ \A i \in DOMAIN callers : Alone(callers[i].session)

OneByOne == OneFrame /\ OnTheirSession /\ CallersAgree

\* No turn of a session that is not s starts in the step.
Newcomer(s) ==
    /\ Due(s) /\ Len(turns') = Len(turns) + 1
    /\ turns'[Len(turns) + 1].session = s
    /\ \A u \in TurnId : turns'[u].phase # "done" => turns[u].session # s

\* Frames come one at a time and do not come back.
Succeeds ==
    /\ \A t \in TurnId : /\ turns'[t].session = turns[t].session
                         /\ turns'[t].phase # "done" => turns[t].phase # "done"
    /\ \/ Len(turns') = Len(turns)
       \/ \E s \in SessionId : Newcomer(s)

\* Whatever its kind, a step starts at most one turn.
LEMMA KindSucceeds ==
    ASSUME Base, Kind
    PROVE  Succeeds
<1>1. Len(turns) \in Nat
  BY DEF Base, TypeInv, CoreType
<1>2. CASE Passing
  BY <1>2 DEF Passing, SameFrames, Succeeds
<1>3. ASSUME NEW t \in TurnId, Returning(t)
      PROVE  Succeeds
  BY <1>3 DEF Returning, Returned, ReturnFacts, Succeeds
<1>4. ASSUME NEW s \in SessionId, NEW m, NEW q, NEW ts, NEW g, Starting(s, m, q, ts, g)
      PROVE  Succeeds
  <2>1. /\ Due(s) /\ Len(ts) = Len(turns) /\ Len(turns') = Len(turns) + 1
        /\ turns'[Len(turns) + 1] = [session |-> s, phase |-> "acquiring", user |-> m.user]
        /\ \A u \in TurnId : turns'[u] = ts[u]
    BY <1>4 DEF Starting, Cleared, StartFacts, TurnId
  <2>2. turns'[Len(turns) + 1].session = s
    BY <2>1
  <2>3. \A u \in TurnId : /\ ts[u].session = turns[u].session
                          /\ ts[u].phase # "done" => turns[u].session # s
                          /\ ts[u].phase # "done" => turns[u].phase # "done"
    BY <1>4 DEF Starting, Cleared
  <2> QED
    BY <2>1, <2>2, <2>3 DEF Newcomer, Succeeds
<1> QED
  BY <1>2, <1>3, <1>4, KindPasses

\* A session that may start a turn has its channel to itself.
LEMMA DueAlone ==
    ASSUME Base, OneByOne, NEW s \in SessionId, Due(s)
    PROVE  Alone(s)
<1>1. \A t \in TurnId : ChannelOf(t) = obj[turns[t].session].channelId
  BY DEF ChannelOf
<1>2. CASE InMap(s)
  <2>1. s # 0
    BY DEF SessionId
  <2> QED
    BY <1>2, <2>1 DEF InMap, OneByOne, OnTheirSession, Alone, Sole
<1>3. CASE callers # <<>> /\ s = Head(callers).session
  <2>1. callers \in Seq(Caller)
    BY DEF Base, TypeInv, RestType
  <2>2. 1 \in DOMAIN callers /\ Head(callers) = callers[1]
    BY <1>3, <2>1
  <2> QED
    BY <1>3, <2>2 DEF OneByOne, CallersAgree
<1>4. CASE \E t \in TurnId : turns[t].phase # "done" /\ turns[t].session = s
  BY <1>1, <1>4 DEF OneByOne, OneFrame, OnTheirSession, Alone, Sole
<1> QED
  BY <1>2, <1>3, <1>4 DEF Due

\* prompt() frames resume one by one, and no other joins them meanwhile.
LEMMA CallersPass ==
    ASSUME Base, Attempt
    PROVE  \/ /\ \A i \in DOMAIN callers' : \E j \in DOMAIN callers : callers'[i] = callers[j]
              /\ UNCHANGED callers \/ callers # <<>>
           \/ \E c \in Channel : Installs(c, epoch[c])
<1>1. callers \in Seq(Caller)
  BY DEF Base, TypeInv, RestType
<1>2. CASE callers # <<>> /\ callers' = Tail(callers)
  BY <1>1, <1>2
<1> QED
  BY <1>2 DEF Attempt, Aside, Opens, Launches, Wipes

\* A new turn's session has its channel to itself, so nothing of this changes.
LEMMA OneByOneKept ==
    ASSUME "late_settle" \notin Races, Base, OneByOne, Succeeds, Evolves, Attempt
    PROVE  OneByOne'
<1> DEFINE n == Len(turns) + 1
           ch(t) == obj'[turns'[t].session].channelId
           apart(r) == /\ sessions'[obj'[r].channelId] \in {0, r}
                       /\ \A u \in TurnId' :
                            turns'[u].phase # "done" /\ ch(u) = obj'[r].channelId
                              => turns'[u].session = r
<1>1. /\ TypeInv /\ Len(turns) \in Nat
      /\ \A t \in TurnId : turns[t].session \in SessionId /\ ChannelOf(t) \in Channel
      /\ \A i \in SessionId : /\ obj[i].channelId \in Channel
                              /\ obj'[i].channelId = obj[i].channelId
  BY ObjectType, ChannelOfType DEF Base, TypeInv, CoreType, Evolves, Fate
<1>2. \A t \in TurnId : ch(t) = ChannelOf(t)
  <2>1. \A t \in TurnId : ChannelOf(t)' = ChannelOf(t)
    BY <1>1, ChannelsKept
  <2> QED
    BY <2>1 DEF ChannelOf
<1>3. \A s \in SessionId : Newcomer(s) => Alone(s)
  BY DueAlone DEF Newcomer
<1>4. \A s \in SessionId : Newcomer(s) => ch(n) = obj[s].channelId
  BY <1>1 DEF Newcomer
<1>5. \A t \in TurnId' : \/ t \in TurnId
                         \/ t = n /\ \E s \in SessionId : Newcomer(s)
  BY <1>1 DEF Succeeds, Newcomer, TurnId
<1>6. \A t \in TurnId : turns'[t].phase # "done" => turns[t].phase # "done"
  BY DEF Succeeds
<1>7. \A t \in TurnId : turns'[t].session = turns[t].session
  BY DEF Succeeds
<1>0. CallersAgree' <=>
        /\ \A i, j \in DOMAIN callers' : callers'[i].session = callers'[j].session
        /\ \A i \in DOMAIN callers' : apart(callers'[i].session)
  BY DEF CallersAgree, Alone, Sole, ChannelOf
<1> HIDE DEF n, ch, apart
<1>8. ASSUME NEW s \in SessionId, Newcomer(s), NEW t \in TurnId, turns'[t].phase # "done"
      PROVE  ChannelOf(t) # obj[s].channelId
  BY <1>3, <1>6, <1>8 DEF Newcomer, Alone, Sole
<1>9. OneFrame'
  <2> SUFFICES ASSUME NEW t \in TurnId', NEW u \in TurnId', turns'[t].phase # "done",
                      turns'[u].phase # "done", ch(t) = ch(u)
               PROVE  t = u
    BY DEF OneFrame, ChannelOf, ch
  <2>1. CASE t \in TurnId /\ u \in TurnId
    BY <1>2, <1>6, <2>1 DEF OneByOne, OneFrame
  <2>2. CASE t \in TurnId /\ u = n /\ \E s \in SessionId : Newcomer(s)
    BY <1>2, <1>4, <1>8, <2>2
  <2>3. CASE u \in TurnId /\ t = n /\ \E s \in SessionId : Newcomer(s)
    BY <1>2, <1>4, <1>8, <2>3
  <2> QED
    BY <1>5, <2>1, <2>2, <2>3
<1>10. ASSUME NEW c \in Channel, Installs(c, epoch[c])
       PROVE  /\ TurnId' = TurnId /\ UNCHANGED turns /\ sessions'[c] = Len(obj) + 1
              /\ \A d \in Channel : d # c => sessions'[d] = sessions[d]
              /\ \A t \in TurnId : turns[t].phase # "done" => ChannelOf(t) # c
  BY <1>10 DEF Installs, InstallFacts, HasFrame, TurnId
<1>11. OnTheirSession'
  <2> SUFFICES ASSUME NEW t \in TurnId', turns'[t].phase # "done"
               PROVE  sessions'[ch(t)] \in {0, turns'[t].session}
    BY DEF OnTheirSession, ChannelOf, ch
  <2>1. CASE NoneInstalled
    <3>1. CASE t \in TurnId
      BY <1>1, <1>2, <1>6, <1>7, <2>1, <3>1
      DEF NoneInstalled, Given, OneByOne, OnTheirSession
    <3>2. ASSUME NEW s \in SessionId, Newcomer(s), t = n
          PROVE  sessions'[ch(t)] \in {0, turns'[t].session}
      BY <1>1, <1>3, <1>4, <2>1, <3>2 DEF NoneInstalled, Given, Newcomer, Alone, n
    <3> QED
      BY <1>5, <3>1, <3>2
  <2>2. ASSUME NEW c \in Channel, Installs(c, epoch[c])
        PROVE  sessions'[ch(t)] \in {0, turns'[t].session}
    BY <1>1, <1>2, <1>10, <2>2 DEF OneByOne, OnTheirSession
  <2> QED
    BY <1>1, <2>1, <2>2, CallersPass, NotInstalled
<1>12. CallersAgree'
  <2>1. CASE /\ \A i \in DOMAIN callers' : \E j \in DOMAIN callers : callers'[i] = callers[j]
             /\ UNCHANGED callers \/ callers # <<>>
    <3>1. NoneInstalled
      BY <1>1, <2>1, NotInstalled
    <3>2. callers \in Seq(Caller)
      BY <1>1 DEF TypeInv, RestType
    <3> SUFFICES ASSUME NEW j \in DOMAIN callers
                 PROVE  apart(callers[j].session)
      <4>1. \A i, k \in DOMAIN callers' : callers'[i].session = callers'[k].session
        BY <2>1 DEF OneByOne, CallersAgree
      <4> QED
        BY <1>0, <2>1, <4>1
    <3> DEFINE r == callers[j].session
    <3>3. /\ r \in SessionId /\ Alone(r)
          /\ callers # <<>> /\ Head(callers).session = r
      <4>1. callers[j] \in Caller /\ 1 \in DOMAIN callers /\ Head(callers) = callers[1]
        BY <3>2
      <4> QED
        BY <4>1 DEF Caller, OneByOne, CallersAgree
    <3> HIDE DEF r
    <3>4. ASSUME NEW s \in SessionId, Due(s), obj[s].channelId = obj[r].channelId
          PROVE  s = r
      BY <3>3, <3>4 DEF Due, Alone, Sole, ChannelOf
    <3>5. sessions'[obj'[r].channelId] \in {0, r}
      BY <1>1, <3>1, <3>3 DEF NoneInstalled, Given, Alone
    <3>6. ASSUME NEW u \in TurnId', turns'[u].phase # "done", ch(u) = obj'[r].channelId
          PROVE  turns'[u].session = r
      <4>1. CASE u \in TurnId
        BY <1>1, <1>2, <1>6, <1>7, <3>3, <3>6, <4>1 DEF Alone, Sole
      <4>2. ASSUME NEW s \in SessionId, Newcomer(s), u = n
            PROVE  turns'[u].session = r
        BY <1>1, <1>4, <3>3, <3>4, <3>6, <4>2 DEF Newcomer, n
      <4> QED
        BY <1>5, <4>1, <4>2
    <3> QED
      BY <3>5, <3>6 DEF apart, r
  <2>2. ASSUME NEW c \in Channel, Installs(c, epoch[c])
        PROVE  CallersAgree'
    <3>1. \A i \in DOMAIN callers' : callers'[i].session = Len(obj) + 1
      <4>1. DOMAIN callers' = 1 .. Len(callers')
        BY <2>2 DEF Installs, InstallFacts
      <4> QED
        BY <1>1, <2>2, <4>1, InstalledCallers
    <3>2. obj'[Len(obj) + 1].channelId = c
      BY <2>2 DEF Installs, InstallFacts
    <3>3. apart(Len(obj) + 1)
      BY <1>2, <1>10, <2>2, <3>2 DEF apart
    <3> QED
      BY <1>0, <3>1, <3>3
  <2> QED
    BY <2>1, <2>2, CallersPass
<1> QED
  BY <1>9, <1>11, <1>12 DEF OneByOne

-----------------------------------------------------------------------------
(* Stop *)

\* No session whose turn was stopped has a turn in the lock's queue.
Stopped == \A w \in Waiters(git.lock) : ~obj[turns[w.turn].session].cancelRequested

\* A channel waits once.
LEMMA OneWaiter ==
    ASSUME Base, OneByOne
    PROVE  \A v, w \in Waiters(git.lock) : v.channel = w.channel => v = w
<1>1. Awaits(git.lock, Acquiring) /\ \A w \in Waiters(git.lock) : w.channel = ChannelOf(w.turn)
  BY DEF Base, Waiting
<1>2. \A w \in Waiters(git.lock) : w.turn \in Acquiring
  BY <1>1 DEF Awaits
<1>3. \A v, w \in Waiters(git.lock) : v.turn = w.turn => v = w
  BY <1>1 DEF Awaits, Distinct, Waiters
<1>4. \A w \in Waiters(git.lock) : w.turn \in TurnId /\ turns[w.turn].phase # "done"
  BY <1>2 DEF Acquiring
<1> QED
  BY <1>1, <1>3, <1>4 DEF OneByOne, OneFrame

\* No turn of another session is stopped, and the waiting one is sent away.
Interrupts(s) ==
    /\ UNCHANGED turns /\ git' = StopWaiting(git, obj[s].channelId)
    /\ \A i \in SessionId : i # s /\ obj'[i].cancelRequested => obj[i].cancelRequested

\* Only Stop, and a message that supersedes a plan, request a cancellation.
LEMMA KindInterrupts ==
    ASSUME Base, Kind
    PROVE  \/ \A i \in SessionId : obj'[i].cancelRequested => obj[i].cancelRequested
           \/ \E s \in SessionId : Interrupts(s)
<1>1. TypeInv /\ CoreType /\ MapAgrees
  BY DEF Base, TypeInv
<1>2. ASSUME NEW c, NEW process, NEW o, EndFacts(c, o, process),
             \A i \in SessionId : o[i].cancelRequested = obj[i].cancelRequested
      PROVE  \A i \in SessionId : obj'[i].cancelRequested => obj[i].cancelRequested
  BY <1>2 DEF EndFacts, Held
<1>3. ASSUME NEW s \in SessionId, NEW m, NEW q, NEW ts, NEW g, StartFacts(s, m, q, ts, g)
      PROVE  \A i \in SessionId : obj'[i].cancelRequested => obj[i].cancelRequested
  BY <1>3 DEF StartFacts
<1>4. CASE Quiet \/ \E t \in TurnId : Begins(t) \/ Gates(t)
  BY <1>4 DEF Quiet, Begins, Gates, Held
<1>5. ASSUME NEW c \in Channel, NEW memory, Installs(c, memory)
      PROVE  \A i \in SessionId : obj'[i].cancelRequested => obj[i].cancelRequested
  BY <1>5 DEF Installs, InstallFacts, Held
<1>6. ASSUME NEW s \in SessionId, NEW m \in Message, PromptFacts(s, m)
      PROVE  \/ \A i \in SessionId : obj'[i].cancelRequested => obj[i].cancelRequested
             \/ \E r \in SessionId : Interrupts(r)
  <2>1. ASSUME NEW q, TouchFacts(s, q)
        PROVE  \/ \A i \in SessionId : obj'[i].cancelRequested => obj[i].cancelRequested
               \/ Interrupts(s)
    BY <2>1 DEF TouchFacts, Interrupts
  <2> QED
    BY <1>2, <1>3, <1>6, <2>1 DEF PromptFacts
<1>7. ASSUME NEW t \in TurnId, Halts(t)
      PROVE  \E s \in SessionId : Interrupts(s)
  <2>1. ChannelOf(t) \in Channel /\ sessions[ChannelOf(t)] # 0
    BY <1>1, <1>7, ChannelOfType DEF Halts
  <2>2. /\ sessions[ChannelOf(t)] \in SessionId
        /\ obj[sessions[ChannelOf(t)]].channelId = ChannelOf(t)
    BY <1>1, <2>1, MappedObject DEF MapAgrees
  <2>3. Interrupts(sessions[ChannelOf(t)])
    BY <1>7, <2>2 DEF Halts, StopFacts, Interrupts
  <2> QED
    BY <2>2, <2>3
<1>8. ASSUME NEW t \in TurnId, NEW g, SettleFacts(t, g)
      PROVE  \A i \in SessionId : obj'[i].cancelRequested => obj[i].cancelRequested
  <2>1. turns[t].session \in SessionId
    BY <1>1, ChannelOfType
  <2> QED
    BY <1>3, <1>8, <2>1 DEF SettleFacts, RestFacts, Held
<1>9. ASSUME NEW t \in TurnId, NEW g, FailFacts(t, g)
      PROVE  \A i \in SessionId : obj'[i].cancelRequested => obj[i].cancelRequested
  <2>1. PICK o : /\ \A i \in SessionId : o[i].cancelRequested = obj[i].cancelRequested
                 /\ EndFacts(ChannelOf(t), o, "terminating")
    BY <1>9 DEF FailFacts, Held
  <2> QED
    BY <1>2, <2>1
<1> QED
  BY <1>2, <1>4, <1>5, <1>6, <1>7, <1>8, <1>9 DEF Kind, Drops, Asks, Settles, Fails

\* Who is in the lock's queue after a step.
LEMMA KindWaiters ==
    ASSUME Base, Kind, NEW w \in Waiters(git'.lock)
    PROVE  \/ w \in Waiters(git.lock)
           \/ w.turn = Len(turns) + 1 /\ ~obj'[turns'[w.turn].session].cancelRequested
<1>1. CoreType
  BY DEF Base, TypeInv
<1>2. CASE Left(git', turns')
  BY <1>2 DEF Left
<1>3. ASSUME NEW s \in SessionId, NEW m \in Message, NEW q, NEW ts, NEW g,
             Starting(s, m, q, ts, g)
      PROVE  \/ w \in Waiters(git.lock)
             \/ w.turn = Len(turns) + 1 /\ ~obj'[turns'[w.turn].session].cancelRequested
  <2> DEFINE t == Len(turns) + 1
             c == obj[s].channelId
             T == {u \in TurnId : ts[u].phase = "acquiring"}
             e == [turn |-> t, channel |-> c]
  <2>1. /\ g \in ServedGit(TurnId) /\ Awaits(g.lock, T)
        /\ Waiters(g.lock) \subseteq Waiters(git.lock)
        /\ Len(ts) = Len(turns) /\ Len(turns) \in Nat
        /\ git' = [g EXCEPT !.lock = Acquire(g.lock, t, c)]
        /\ turns'[t] = [session |-> s, phase |-> "acquiring", user |-> m.user]
        /\ ~obj'[s].cancelRequested
    BY <1>1, <1>3 DEF Starting, Left, Cleared, StartFacts, CoreType, TurnId
  <2>2. c \in Channel /\ g.lock \in Lock(TurnId) /\ t \notin T
    BY <1>1, <2>1, ObjectType DEF ServedGit, ServedLock, TurnId
  <2>3. git'.lock = Acquire(g.lock, t, c) /\ e.turn = t /\ turns'[t].session = s
    BY <2>1 DEF ServedGit, Git
  <2> HIDE DEF t, c, T
  <2>4. Waiters(Acquire(g.lock, t, c)) \subseteq Waiters(g.lock) \cup {e}
    BY <2>1, <2>2, AcquireAwaits
  <2> HIDE DEF e
  <2>5. w \in Waiters(git.lock) \/ w = e
    BY <2>1, <2>3, <2>4
  <2> QED
    BY <2>1, <2>3, <2>5 DEF t
<1> QED
  BY <1>2, <1>3, KindPasses DEF Passing, Returning

\* After every step those who were stopped are out of the queue.
LEMMA StoppedKept ==
    ASSUME Base, OneByOne, Stopped, Kind
    PROVE  Stopped'
<1>1. /\ TypeInv /\ CoreType /\ Evolves /\ OneFrame
      /\ Awaits(git.lock, Acquiring)
      /\ \A w \in Waiters(git.lock) : w.channel = ChannelOf(w.turn)
  BY KindEvolves DEF Base, TypeInv, Waiting, OneByOne
<1>2. \A w \in Waiters(git.lock) :
        /\ w.turn \in TurnId /\ turns'[w.turn].session = turns[w.turn].session
        /\ turns[w.turn].session \in SessionId
  BY <1>1, ChannelOfType DEF Awaits, Acquiring, Evolves
<1>3. Waiters(git.lock)' = Waiters(git'.lock)
  BY DEF Waiters
<1>4. CASE \A i \in SessionId : obj'[i].cancelRequested => obj[i].cancelRequested
  BY <1>2, <1>3, <1>4, KindWaiters DEF Stopped
<1>5. ASSUME NEW s \in SessionId, Interrupts(s)
      PROVE  Stopped'
  <2> DEFINE c == obj[s].channelId
  <2>1. c \in Channel /\ git.lock \in Lock(TurnId) /\ git \in Git(TurnId)
    BY <1>1, ObjectType DEF CoreType, ServedGit, ServedLock, Git
  <2>2. git'.lock = CancelWaiter(git.lock, c)
    BY <1>5, <2>1 DEF Interrupts, StopWaiting, Git
  <2>3. \A w \in Waiters(git'.lock) : w.channel # c /\ w \in Waiters(git.lock)
    <3> HIDE DEF c
    <3> QED
      BY <1>1, <2>1, <2>2, OneWaiter, CancelAwaits
  <2>4. ASSUME NEW w \in Waiters(git'.lock)
        PROVE  ~obj'[turns'[w.turn].session].cancelRequested
    <3>1. turns[w.turn].session # s
      BY <1>1, <2>3 DEF ChannelOf
    <3> QED
      BY <1>2, <1>5, <2>3, <3>1 DEF Interrupts, Stopped
  <2> QED
    BY <1>3, <2>4 DEF Stopped
<1> QED
  BY <1>4, <1>5, KindInterrupts

-----------------------------------------------------------------------------
(* Plan gates *)

\* A gate is kept for reactivation only until the prompt() that reactivates the
\* session is resumed.
Spent ==
    \A c \in Channel : sessions[c] # 0 /\ killed[c] # 0 =>
        callers # <<>> /\ Head(callers).session = sessions[c]

\* A session of the map has a gate open only while its turn's prompt is out.
Gated(o, ts, s) ==
    o[s].plan # 0 => o[s].prompting /\ ts[o[s].currentTurnId].phase = "prompting"

Asking == \A c \in Channel : sessions[c] # 0 => Gated(obj, turns, sessions[c])

\* Only the end of a session keeps a gate.
LEMMA KindKilled ==
    ASSUME Base, Kind, NEW d \in Channel, sessions'[d] # 0
    PROVE  /\ killed'[d] \in {killed[d], 0}
           /\ callers # <<>> /\ obj[Head(callers).session].channelId = d
                => killed'[d] = 0
<1>1. CASE Quiet \/ \E t \in TurnId : Begins(t) \/ Gates(t)
  BY <1>1 DEF Quiet, Begins, Resumes, Gates, NoCallers
<1>2. CASE \E c \in Channel, process \in {"terminating", "exited"} : Drops(c, process)
  BY <1>2 DEF Drops, NoCallers, EndFacts
<1>3. CASE \E c \in Channel, memory \in Nat : Installs(c, memory)
  BY <1>3 DEF Installs, InstallFacts, AtRest, MicrotasksDue
<1>4. CASE \E s \in SessionId, m \in Message : Asks(s, m)
  BY <1>4 DEF Asks, PromptFacts, EndFacts, NoCallers
<1>5. CASE \E t \in TurnId : Halts(t)
  BY <1>5 DEF Halts, StopFacts, NoCallers
<1>6. CASE \E t \in TurnId, g \in ServedGit(TurnId) : Settles(t, g)
  BY <1>6 DEF Settles, SettleFacts, Resumes, NoCallers
<1>7. CASE \E t \in TurnId, g \in ServedGit(TurnId) : Fails(t, g)
  BY <1>7 DEF Fails, FailFacts, EndFacts, Resumes, NoCallers
<1> QED
  BY <1>1, <1>2, <1>3, <1>4, <1>5, <1>6, <1>7 DEF Kind

\* No gate is left for reactivation beside a session that lives on.
LEMMA SpentKept ==
    ASSUME Base, Spent, Kind
    PROVE  Spent'
<1>1. TypeInv /\ Evolves /\ MapAgrees
  BY KindEvolves DEF Base
<1> SUFFICES ASSUME NEW d \in Channel, sessions'[d] # 0, killed'[d] # 0
             PROVE  callers' # <<>> /\ Head(callers').session = sessions'[d]
  BY DEF Spent
<1>2. killed[d] # 0
  BY KindKilled
<1>3. CASE NoneInstalled
  <2>1. sessions[d] = sessions'[d]
    BY <1>3 DEF NoneInstalled, Given
  <2>2. callers # <<>> /\ Head(callers).session = sessions[d]
    BY <1>2, <2>1 DEF Spent
  <2>3. obj[Head(callers).session].channelId = d
    BY <1>1, <2>1, <2>2 DEF MapAgrees
  <2> QED
    BY <2>2, <2>3, KindKilled
<1>4. ASSUME NEW c \in Channel, NEW memory \in Nat, Installs(c, memory)
      PROVE  callers' # <<>> /\ Head(callers').session = sessions'[d]
  <2>1. callers = <<>> /\ sessions'[c] = Len(obj) + 1
        /\ \A e \in Channel : e # c => sessions'[e] = sessions[e]
    BY <1>4 DEF Installs, InstallFacts, AtRest, MicrotasksDue
  <2>2. d = c
    BY <1>2, <2>1 DEF Spent
  <2>3. callers' # <<>> /\ Len(callers') \in Nat \ {0} /\ callers'[1].session = Len(obj) + 1
    <3>1. pending[c].callers \in Seq(Message) \ {<<>>}
      BY <1>1, <1>4, SomebodyWaits DEF Installs
    <3>2. Len(callers') \in Nat \ {0}
      BY <1>1, <1>4, <3>1, InstalledCallers
    <3> QED
      BY <1>1, <1>4, <3>2, InstalledCallers
  <2> QED
    BY <2>1, <2>2, <2>3
<1> QED
  BY <1>1, <1>3, <1>4 DEF Evolves

\* A session whose gate, turn and turn's phase stay as they are.
LEMMA SameGate ==
    ASSUME NEW s, obj'[s].plan \in {obj[s].plan, 0}, Gated(obj, turns, s),
           obj'[s].prompting = obj[s].prompting, obj'[s].currentTurnId = obj[s].currentTurnId,
           obj[s].prompting => \/ turns'[obj[s].currentTurnId].phase
                                    = turns[obj[s].currentTurnId].phase
                               \/ turns'[obj[s].currentTurnId].phase = "prompting"
    PROVE  Gated(obj', turns', s)
  BY DEF Gated

\* Gates open and close with the turns they belong to.
LEMMA AskingKept ==
    ASSUME Base, OneByOne, Asking, Kind
    PROVE  Asking'
<1>1. /\ TypeInv /\ CoreType /\ Evolves /\ MapAgrees /\ Frames
      /\ \A t \in TurnId : turns[t].session \in SessionId /\ ChannelOf(t) \in Channel
  BY KindEvolves, ChannelOfType DEF Base, TypeInv
<1>2. \A i \in SessionId : obj[i].prompting =>
         /\ obj[i].currentTurnId \in TurnId
         /\ turns[obj[i].currentTurnId].session = i
  BY <1>1 DEF Frames
<1>3. ASSUME NEW c \in Channel, NEW memory \in Nat, Installs(c, memory)
      PROVE  Asking'
  <2>1. /\ \A i \in SessionId : /\ Held(obj[i], obj'[i]) /\ obj'[i].prompting = obj[i].prompting
                                /\ obj'[i].plan = obj[i].plan
        /\ obj'[Len(obj) + 1].plan = 0 /\ UNCHANGED turns
        /\ \A d \in Channel : sessions'[d] = IF d = c THEN Len(obj) + 1 ELSE sessions[d]
    BY <1>3 DEF Installs, InstallFacts
  <2>2. Gated(obj', turns', Len(obj) + 1)
    BY <2>1 DEF Gated
  <2>3. \A d \in Channel : sessions[d] # 0 => Gated(obj', turns', sessions[d])
    <3> TAKE d \in Channel
    <3> HAVE sessions[d] # 0
    <3> DEFINE s == sessions[d]
    <3>1. s \in SessionId /\ Gated(obj, turns, s)
      BY <1>1, MappedObject DEF Asking
    <3> HIDE DEF s
    <3>2. Gated(obj', turns', s)
      BY <2>1, <3>1, SameGate DEF Held
    <3> QED
      BY <3>2 DEF s
  <2> QED
    BY <2>1, <2>2, <2>3 DEF Asking
<1>4. ASSUME NoneInstalled
      PROVE  Asking'
  <2> SUFFICES ASSUME NEW d \in Channel, sessions'[d] # 0
               PROVE  Gated(obj', turns', sessions'[d])
    BY DEF Asking, Gated
  <2> DEFINE s == sessions'[d]
  <2>1. sessions[d] = s /\ s \in SessionId /\ Gated(obj, turns, s) /\ obj[s].channelId = d
    BY <1>1, <1>4, MappedObject DEF NoneInstalled, Given, Asking, MapAgrees
  <2> HIDE DEF s
  <2> SUFFICES Gated(obj', turns', s)
    BY DEF s
  <2>2. ASSUME obj'[s].plan \in {obj[s].plan, 0}, Held(obj[s], obj'[s]),
               obj'[s].prompting = obj[s].prompting,
               \A t \in TurnId : turns[t].session = s =>
                 \/ turns'[t].phase = turns[t].phase
                 \/ turns'[t].phase = "prompting"
        PROVE  Gated(obj', turns', s)
    BY <1>2, <2>1, <2>2, SameGate DEF Held
  <2>3. CASE Quiet \/ \E t \in TurnId : Begins(t)
    BY <2>1, <2>2, <2>3 DEF Quiet, Begins, Held
  <2>4. ASSUME NEW c \in Channel, NEW o, NEW process, EndFacts(c, o, process), o[s] = obj[s],
               \A t \in TurnId : turns[t].session = s => turns'[t].phase = turns[t].phase
        PROVE  Gated(obj', turns', s)
    <3>1. c # d
      BY <2>4 DEF EndFacts
    <3>2. sessions[c] # s
      BY <1>1, <2>1, <3>1 DEF MapAgrees, SessionId
    <3> QED
      BY <2>1, <2>2, <2>4, <3>2 DEF EndFacts, SameFate
  <2>5. ASSUME NEW r \in SessionId, NEW m, NEW q, NEW ts, NEW g, StartFacts(r, m, q, ts, g),
               r = s => obj[s].plan = 0, Len(ts) = Len(turns),
               \A t \in TurnId : turns[t].session = s /\ s # r => ts[t].phase = turns[t].phase
        PROVE  Gated(obj', turns', s)
    <3>1. CASE s = r
      BY <2>5, <3>1 DEF StartFacts, SameFate, Gated
    <3>2. CASE s # r
      BY <2>1, <2>2, <2>5, <3>2 DEF StartFacts, Held, TurnId
    <3> QED
      BY <3>1, <3>2
  <2>6. ASSUME NEW r \in SessionId, NEW m \in Message, Asks(r, m)
        PROVE  Gated(obj', turns', s)
    <3>1. ASSUME NEW q, TouchFacts(r, q)
          PROVE  Gated(obj', turns', s)
      <4>1. CASE s = r
        BY <1>1, <1>2, <2>1, <3>1, <4>1 DEF TouchFacts, Asked, Gated
      <4>2. CASE s # r
        BY <2>1, <2>2, <3>1, <4>2 DEF TouchFacts, Held
      <4> QED
        BY <4>1, <4>2
    <3>2. CASE ~obj[r].prompting /\ StartFacts(r, m, obj[r].queue, turns, git)
      BY <2>1, <2>5, <3>2 DEF Gated
    <3>3. obj[r].channelId \in Channel
      BY <1>1, ObjectType
    <3>4. CASE EndFacts(obj[r].channelId, obj, "terminating") /\ UNCHANGED turns
      BY <2>4, <3>3, <3>4
    <3> QED
      BY <2>6, <3>1, <3>2, <3>4 DEF Asks, PromptFacts
  <2>7. ASSUME NEW t \in TurnId, Halts(t)
        PROVE  Gated(obj', turns', s)
    <3>1. CASE s = sessions[ChannelOf(t)]
      BY <2>7, <3>1 DEF Halts, StopFacts, Gated
    <3>2. CASE s # sessions[ChannelOf(t)]
      BY <2>1, <2>2, <2>7, <3>2 DEF Halts, StopFacts, Held
    <3> QED
      BY <3>1, <3>2
  <2>8. ASSUME NEW t \in TurnId, Gates(t)
        PROVE  Gated(obj', turns', s)
    <3>1. CASE s = sessions[ChannelOf(t)]
      <4>1. turns[t].phase = "prompting" /\ turns[t].session = s
        BY <1>1, <2>1, <2>8, <3>1 DEF Gates, OneByOne, OnTheirSession, SessionId
      <4>2. obj[s].prompting /\ obj[s].currentTurnId = t
        BY <1>1, <4>1 DEF Frames
      <4> QED
        BY <2>1, <2>8, <4>1, <4>2 DEF Gates, Held, Gated
    <3>2. CASE s # sessions[ChannelOf(t)]
      BY <2>1, <2>2, <2>8, <3>2 DEF Gates
    <3> QED
      BY <3>1, <3>2
  <2>9. ASSUME NEW t \in TurnId, NEW g, Settles(t, g)
        PROVE  Gated(obj', turns', s)
    <3>1. turns[t].session = s => obj[s].plan = 0
      <4>1. CASE obj[turns[t].session].plan = 0
        BY <4>1
      <4>2. CASE Resumes(t)
        <5>1. turns[t].phase = "acquiring"
          BY <4>2, ResumedFacts
        <5>2. turns[t].session = s => obj[s].currentTurnId = t
          BY <1>1, <5>1 DEF Frames
        <5> QED
          BY <2>1, <5>1, <5>2 DEF Gated
      <4> QED
        BY <2>9, <4>1, <4>2 DEF Settles
    <3>2. ASSUME RestFacts(t, g)
          PROVE  Gated(obj', turns', s)
      <4>1. CASE turns[t].session = s
        BY <3>1, <3>2, <4>1 DEF RestFacts, SameFate, Gated
      <4>2. CASE turns[t].session # s
        BY <2>1, <2>2, <3>2, <4>2 DEF RestFacts, ReturnFacts, Held
      <4> QED
        BY <4>1, <4>2
    <3>3. ASSUME NEW m, NEW q,
                 StartFacts(turns[t].session, m, q, [turns EXCEPT ![t].phase = "done"], g)
          PROVE  Gated(obj', turns', s)
      <4> DEFINE ts == [turns EXCEPT ![t].phase = "done"]
      <4>0. CoreType
        BY <1>1
      <4>1. /\ Len(ts) = Len(turns)
            /\ \A u \in TurnId : /\ ts[u].session = turns[u].session
                                 /\ ts[u].user = turns[u].user
                                 /\ ts[u].phase = IF u = t THEN "done" ELSE turns[u].phase
        BY <4>0, DoneFacts
      <4>2. StartFacts(turns[t].session, m, q, ts, g)
        BY <3>3, Zenon
      <4> HIDE DEF ts
      <4> QED
        BY <1>1, <2>5, <3>1, <4>1, <4>2
    <3> QED
      BY <2>9, <3>2, <3>3 DEF Settles, SettleFacts
  <2>10. ASSUME NEW t \in TurnId, NEW g, FailFacts(t, g)
         PROVE  Gated(obj', turns', s)
    <3>1. PICK o : /\ \A i \in SessionId : i # turns[t].session => o[i] = obj[i]
                   /\ EndFacts(ChannelOf(t), o, "terminating")
      BY <2>10 DEF FailFacts
    <3>2. ChannelOf(t) # d
      BY <3>1 DEF EndFacts, s
    <3>3. turns[t].session # s
      BY <2>1, <3>2 DEF ChannelOf
    <3>4. o[s] = obj[s]
      BY <2>1, <3>1, <3>3
    <3>5. \A u \in TurnId : turns[u].session = s => turns'[u].phase = turns[u].phase
      BY <2>10, <3>3 DEF FailFacts, ReturnFacts
    <3> QED
      BY <1>1, <2>4, <3>1, <3>4, <3>5
  <2>11. \A c \in Channel : \A memory : ~Installs(c, memory)
    <3>1. Len(obj) \in Nat
      BY <1>1 DEF CoreType
    <3> QED
      BY <1>4, <3>1 DEF Installs, InstallFacts, NoneInstalled
  <2>12. ASSUME NEW c \in Channel, NEW process, Drops(c, process)
         PROVE  Gated(obj', turns', s)
    <3>1. EndFacts(c, obj, process) /\ UNCHANGED turns
      BY <2>12 DEF Drops
    <3> QED
      BY <2>4, <3>1
  <2>13. ASSUME NEW t \in TurnId, NEW g, Fails(t, g)
         PROVE  Gated(obj', turns', s)
    BY <2>10, <2>13 DEF Fails
  <2> QED
    BY <2>3, <2>6, <2>7, <2>8, <2>9, <2>11, <2>12, <2>13 DEF Kind
<1> QED
  BY <1>1, <1>3, <1>4 DEF Evolves

-----------------------------------------------------------------------------
(* What holds when no killed agent's prompt settles late *)

\* The inductive invariant.
Orderly == Kept /\ OneByOne /\ Stopped /\ Spent /\ Asking

\* It holds at the start.
LEMMA InitOrderly == Init => Orderly
<1> SUFFICES ASSUME Init PROVE Orderly
  OBVIOUS
<1>1. turns = <<>> /\ callers = <<>> /\ \A c \in Channel : sessions[c] = 0
  BY DEF Init
<1>2. git.lock = FreeLock /\ FreeLock.queue = <<>>
  BY DEF Init, SweptGit, FreeLock
<1>3. TurnId = {} /\ Waiters(git.lock) = {}
  BY <1>1, <1>2 DEF TurnId, Waiters
<1> QED
  BY <1>1, <1>3, InitKept
  DEF Orderly, OneByOne, OneFrame, OnTheirSession, CallersAgree, Stopped, Spent, Asking

\* Every step keeps it.
LEMMA NextOrderly ==
    ASSUME "late_settle" \notin Races, Orderly, [Next]_vars
    PROVE  Orderly'
<1>1. Kept'
  BY NextKept DEF Orderly
<1>2. CASE Next
  <2>1. Base /\ Awaited /\ Remembers
    BY DEF Orderly, Kept
  <2>2. Kind /\ Attempt
    BY <1>2, <2>1, StepIsKind, StepIsAttempt
  <2>3. Evolves /\ Succeeds
    BY <2>1, <2>2, KindEvolves, KindSucceeds
  <2>4. OneByOne'
    BY <2>1, <2>2, <2>3, OneByOneKept DEF Orderly
  <2>5. Stopped' /\ Spent' /\ Asking'
    BY <2>1, <2>2, StoppedKept, SpentKept, AskingKept DEF Orderly
  <2> QED
    BY <1>1, <2>4, <2>5 DEF Orderly
<1>3. CASE UNCHANGED vars
  <2>1. UNCHANGED <<git, sessions, obj, turns, callers, killed>> /\ TurnId' = TurnId
    BY <1>3 DEF vars, TurnId
  <2>2. OneByOne'
    BY <2>1 DEF Orderly, OneByOne, OneFrame, OnTheirSession, CallersAgree, Alone, Sole, ChannelOf
  <2>3. Stopped' /\ Spent' /\ Asking'
    BY <2>1 DEF Orderly, Stopped, Waiters, Spent, Asking, Gated
  <2> QED
    BY <1>1, <2>2, <2>3 DEF Orderly
<1> QED
  BY <1>2, <1>3

\* What Orderly says holds in every state of such a behaviour.
THEOREM AlwaysOrderly ==
    ASSUME "late_settle" \notin Races
    PROVE  Spec => []Orderly
<1>1. Orderly /\ [Next]_vars => Orderly'
  BY NextOrderly
<1> QED
  BY <1>1, InitOrderly, PTL DEF Spec

\* /clear and Stop are final: no session remembers anything from before its
\* channel's last /clear, and no turn that was stopped waits for the lock
\* between callbacks, as long as a killed agent's prompt settles before its
\* channel's next session is installed.
THEOREM ClearAndStopHold ==
    ASSUME "late_settle" \notin Races
    PROVE  Spec => []ClearAndStopAreFinal
<1>1. ASSUME Orderly
      PROVE  ClearAndStopAreFinal
  <2>1. ClearForgets
    BY <1>1 DEF Orderly, Kept, Remembers, ClearForgets, LiveSessions
  <2>2. ASSUME AtRest, NEW t \in TurnId, turns[t].phase = "acquiring"
        PROVE  ~obj[turns[t].session].cancelRequested
    <3>1. Woken(git.lock) = {}
      BY <2>2 DEF AtRest, MicrotasksDue, Woken, Answers
    <3>2. Acquiring = {w.turn : w \in Waiters(git.lock)}
      BY <1>1, <3>1 DEF Orderly, Kept, Base, Waiting, Awaits
    <3>3. t \in Acquiring
      BY <2>2 DEF Acquiring
    <3>4. PICK w \in Waiters(git.lock) : t = w.turn
      BY <3>2, <3>3
    <3> QED
      BY <1>1, <3>4 DEF Orderly, Stopped
  <2> QED
    BY <2>1, <2>2 DEF ClearAndStopAreFinal, StopEndsWaiting
<1> QED
  BY <1>1, AlwaysOrderly, PTL

\* Between callbacks a plan-approval gate is open only for a turn in flight,
\* and one kept for reactivation never competes with a live session.
THEOREM GatesHaveOneOwner ==
    ASSUME "late_settle" \notin Races
    PROVE  Spec => []PlanGateHasOneOwner
<1>1. ASSUME Orderly
      PROVE  PlanGateHasOneOwner
  <2> SUFFICES ASSUME AtRest, NEW c \in Channel, sessions[c] # 0
               PROVE  /\ killed[c] = 0
                      /\ obj[sessions[c]].plan # 0 =>
                           \E t \in TurnId : Writing(t) /\ ChannelOf(t) = c
    BY DEF PlanGateHasOneOwner
  <2>1. killed[c] = 0
    BY <1>1 DEF Orderly, Spent, AtRest, MicrotasksDue
  <2>2. ASSUME obj[sessions[c]].plan # 0
        PROVE  \E t \in TurnId : Writing(t) /\ ChannelOf(t) = c
    <3> DEFINE s == sessions[c]
               t == obj[s].currentTurnId
    <3>1. s \in SessionId /\ obj[s].channelId = c
      BY <1>1, MappedObject DEF Orderly, Kept, Base, MapAgrees
    <3>2. obj[s].prompting /\ turns[t].phase = "prompting"
      BY <1>1, <2>2 DEF Orderly, Asking, Gated
    <3>3. t \in TurnId /\ turns[t].session = s
      BY <1>1, <3>1, <3>2 DEF Orderly, Kept, Base, Frames
    <3> QED
      BY <3>1, <3>2, <3>3 DEF Writing, InLiveSession, InMap, ChannelOf
  <2> QED
    BY <2>1, <2>2
<1> QED
  BY <1>1, AlwaysOrderly, PTL

-----------------------------------------------------------------------------
(* Messages that join an attempt *)

\* The prompt() frames behind an image-only message are no concern: none joins
\* such an attempt, and of those that are due none takes the session away that
\* the next ones have awaited.
JoinsAttempts ==
    \A c \in Channel : pending[c].stage # "none" =>
        Len(pending[c].callers) = 1 \/ ~Head(pending[c].callers).image

CallersInMap == \A i \in DOMAIN callers : InMap(callers[i].session)

FirstStays ==
    Len(callers) > 1 =>
        ~Head(callers).message.image \/ obj[Head(callers).session].currentTurnId # 0

Joined == JoinsAttempts /\ CallersInMap /\ FirstStays

\* No step lets anybody join behind an image-only message.
LEMMA JoinsAttemptsKept ==
    ASSUME "join_image" \notin Races, JoinsAttempts, Attempt
    PROVE  JoinsAttempts'
<1>1. CASE Aside
  <2> SUFFICES ASSUME NEW d \in Channel, pending'[d].stage # "none"
               PROVE  Len(pending'[d].callers) = 1 \/ ~Head(pending'[d].callers).image
    BY DEF JoinsAttempts
  <2>1. /\ pending[d].stage # "none"
        /\ \/ pending'[d].callers = pending[d].callers
           \/ /\ ~Head(pending[d].callers).image
              /\ Head(pending'[d].callers) = Head(pending[d].callers)
    BY <1>1 DEF Aside, Fades
  <2> QED
    BY <2>1 DEF JoinsAttempts
<1>2. ASSUME NEW c \in Channel, Opens(c)
      PROVE  JoinsAttempts'
  BY <1>2 DEF Opens, JoinsAttempts
<1>3. ASSUME NEW c \in Channel, Launches(c)
      PROVE  JoinsAttempts'
  BY <1>3 DEF Launches, JoinsAttempts
<1>4. ASSUME NEW c \in Channel, Wipes(c)
      PROVE  JoinsAttempts'
  BY <1>4 DEF Wipes, JoinsAttempts
<1>5. ASSUME NEW c \in Channel, Installs(c, epoch[c])
      PROVE  JoinsAttempts'
  BY <1>5 DEF Installs, InstallFacts, JoinsAttempts, NoPending
<1> QED
  BY <1>1, <1>2, <1>3, <1>4, <1>5 DEF Attempt

\* The next prompt() frame is resumed.
LEMMA AskedKept ==
    ASSUME Base, OneByOne, Joined, NEW s \in SessionId, NEW m \in Message, Asks(s, m),
           callers # <<>>
    PROVE  CallersInMap' /\ FirstStays'
<1> DEFINE n == Len(callers)
<1>1. /\ callers \in Seq(Caller) /\ n \in Nat \ {0}
      /\ callers' = Tail(callers) /\ s = Head(callers).session /\ m = Head(callers).message
  BY DEF Base, TypeInv, RestType, Asks, NoCallers
<1>2. /\ Len(callers') = n - 1 /\ DOMAIN callers' = 1 .. n - 1
      /\ \A i \in 1 .. n - 1 : i + 1 \in 1 .. n /\ callers'[i] = callers[i + 1]
      /\ DOMAIN callers = 1 .. n /\ Head(callers) = callers[1]
  BY <1>1
<1>3. \A i \in 1 .. n - 1 : callers'[i].session = s
  BY <1>1, <1>2 DEF OneByOne, CallersAgree
<1>4. InMap(s)
  BY <1>1, <1>2 DEF Joined, CallersInMap
<1>5. n > 1 => ~m.image \/ obj[s].currentTurnId # 0
  BY <1>1 DEF Joined, FirstStays
<1>6. obj[s].prompting => obj[s].currentTurnId # 0
  BY DEF Base, Frames, TurnId
<1>7. CASE n = 1
  BY <1>2, <1>7 DEF CallersInMap, FirstStays
<1>8. CASE n > 1
  <2>1. PromptFacts(s, m)
    BY DEF Asks
  <2>2. ASSUME NEW q, TouchFacts(s, q), obj[s].currentTurnId # 0
        PROVE  UNCHANGED sessions /\ SameBody(obj[s], obj'[s]) /\ obj'[s].currentTurnId # 0
    BY <2>2 DEF TouchFacts
  <2>3. ASSUME StartFacts(s, m, obj[s].queue, turns, git)
        PROVE  UNCHANGED sessions /\ SameBody(obj[s], obj'[s]) /\ obj'[s].currentTurnId # 0
    <3>1. Len(turns) \in Nat
      BY DEF Base, TypeInv, CoreType
    <3> QED
      BY <2>3, <3>1 DEF StartFacts
  <2>4. UNCHANGED sessions /\ SameBody(obj[s], obj'[s]) /\ obj'[s].currentTurnId # 0
    BY <1>5, <1>6, <1>8, <2>1, <2>2, <2>3 DEF PromptFacts
  <2>5. InMap(s)'
    BY <1>4, <2>4 DEF InMap, SameBody
  <2>6. CallersInMap'
    BY <1>2, <1>3, <2>5 DEF CallersInMap, InMap
  <2>7. Head(callers').session = s
    BY <1>1, <1>2, <1>3, <1>8
  <2> QED
    BY <2>4, <2>6, <2>7 DEF FirstStays
<1>9. n = 1 \/ n > 1
  <2> HIDE DEF n
  <2> QED
    BY <1>1
<1> QED
  BY <1>7, <1>8, <1>9

\* After every step the frames that are due find their session in the map.
LEMMA JoinedKept ==
    ASSUME "join_image" \notin Races, Base, OneByOne, Joined, Kind, Attempt
    PROVE  Joined'
<1>1. TypeInv /\ JoinsAttempts'
  BY JoinsAttemptsKept DEF Base, Joined
<1>2. CASE callers' = <<>>
  BY <1>1, <1>2 DEF Joined, CallersInMap, FirstStays
<1>3. ASSUME NEW c \in Channel, NEW memory \in Nat, Installs(c, memory)
      PROVE  CallersInMap' /\ FirstStays'
  <2> DEFINE n == Len(obj) + 1
             p == pending[c].callers
  <2>1. /\ p \in Seq(Message) \ {<<>>} /\ Len(callers') = Len(p)
        /\ \A i \in 1 .. Len(callers') : callers'[i].session = n /\ callers'[i].message = p[i]
        /\ DOMAIN callers' = 1 .. Len(callers')
    BY <1>1, <1>3, SomebodyWaits, InstalledCallers DEF Installs, InstallFacts
  <2>2. sessions'[c] = n /\ obj'[n].channelId = c
    BY <1>3 DEF Installs, InstallFacts
  <2>3. Len(p) = 1 \/ ~Head(p).image
    BY <1>3 DEF Installs, Joined, JoinsAttempts
  <2> HIDE DEF n, p
  <2>4. CallersInMap'
    BY <2>1, <2>2 DEF CallersInMap, InMap
  <2>5. Head(callers').message = Head(p)
    <3>1. Len(p) \in Nat \ {0} /\ Head(p) = p[1]
      BY <2>1
    <3> QED
      BY <2>1, <3>1
  <2> QED
    BY <2>1, <2>3, <2>4, <2>5 DEF FirstStays
<1>4. CASE \E s \in SessionId, m \in Message : Asks(s, m)
  BY <1>1, <1>2, <1>4, AskedKept DEF Asks, NoCallers, Joined
<1>5. CASE NoCallers
  BY <1>2, <1>5 DEF NoCallers
<1>6. Kind => \/ NoCallers
              \/ \E s \in SessionId, m \in Message : Asks(s, m)
              \/ \E c \in Channel, memory \in Nat : Installs(c, memory)
  BY DEF Kind, Quiet, Drops, Begins, Halts, Gates, Settles, Fails, Resumes
<1> QED
  BY <1>1, <1>3, <1>4, <1>5, <1>6 DEF Joined

-----------------------------------------------------------------------------
(* The console's and the transcript's views *)

\* What the transcript writer and live_status say of a session, 0 for none.
TurnOf(o, s) == IF s # 0 /\ o[s].prompting THEN o[s].currentTurnId ELSE 0
RowOf(o, s) == IF s = 0 THEN NoLive ELSE LiveOf(o[s])

\* They say it of channel c.
ShowsOf(c, map, o, open, rows) ==
    open[c] = TurnOf(o, map[c]) /\ rows[c] = RowOf(o, map[c])

Shown == \A c \in Channel : ShowsOf(c, sessions, obj, openTurn, live)

\* Channel d's views stay as they are, and what they show does too.
SameViews(d) ==
    /\ sessions'[d] = sessions[d] /\ openTurn'[d] = openTurn[d] /\ live'[d] = live[d]
    /\ sessions[d] # 0 =>
         LET s == sessions[d]
         IN  /\ obj'[s].prompting = obj[s].prompting
             /\ obj'[s].currentTurnId = obj[s].currentTurnId
             /\ obj'[s].queue = obj[s].queue

\* Views that stay and show the same are right.
LEMMA SameViewsShown ==
    ASSUME Shown, NEW d \in Channel, SameViews(d)
    PROVE  ShowsOf(d, sessions', obj', openTurn', live')
  BY DEF Shown, ShowsOf, SameViews, TurnOf, RowOf, LiveOf

\* The end of a channel's session takes its views away and leaves the others.
LEMMA EndShown ==
    ASSUME Base, Shown, NEW c \in Channel, NEW o, NEW process,
           EndFacts(c, o, process),
           \A i \in SessionId : obj[i].channelId # c =>
             Held(obj[i], o[i]) /\ o[i].prompting = obj[i].prompting,
           NEW d \in Channel
    PROVE  ShowsOf(d, sessions', obj', openTurn', live')
<1>1. sessions[d] # 0 => sessions[d] \in SessionId /\ obj[sessions[d]].channelId = d
  BY MappedObject DEF Base, MapAgrees
<1>2. CASE d = c
  BY <1>2 DEF EndFacts, Shown, ShowsOf, TurnOf, RowOf
<1>3. CASE d # c
  <2>1. SameViews(d)
    BY <1>1, <1>3 DEF EndFacts, SameViews, Held
  <2> QED
    BY <2>1, SameViewsShown
<1> QED
  BY <1>2, <1>3

\* A channel whose session nothing touches keeps its views.
LEMMA OthersShown ==
    ASSUME Base, Shown, NEW s, \A i \in SessionId : i # s => obj'[i] = obj[i],
           NEW d \in Channel, d # obj[s].channelId,
           sessions'[d] = sessions[d], openTurn'[d] = openTurn[d], live'[d] = live[d]
    PROVE  ShowsOf(d, sessions', obj', openTurn', live')
<1>1. sessions[d] # 0 => sessions[d] \in SessionId /\ sessions[d] # s
  BY MappedObject DEF Base, MapAgrees
<1>2. SameViews(d)
  BY <1>1 DEF SameViews
<1> QED
  BY <1>2, SameViewsShown

\* A turn that starts shows up in both views.
LEMMA StartShown ==
    ASSUME Base, Shown, NEW s \in SessionId, InMap(s), NEW m, NEW q, NEW ts, NEW g,
           StartFacts(s, m, q, ts, g), NEW d \in Channel
    PROVE  ShowsOf(d, sessions', obj', openTurn', live')
<1>1. CASE d # obj[s].channelId
  BY <1>1, OthersShown DEF StartFacts
<1>2. CASE d = obj[s].channelId
  <2>1. /\ sessions'[d] = s /\ s # 0
        /\ obj'[s].prompting /\ obj'[s].currentTurnId = openTurn'[d]
        /\ live'[d] = LiveOf(obj'[s])
    BY <1>2 DEF StartFacts, InMap, SessionId
  <2> QED
    BY <2>1 DEF ShowsOf, TurnOf, RowOf
<1> QED
  BY <1>1, <1>2

\* A change of the queue shows up in live_status.
LEMMA TouchShown ==
    ASSUME Base, Shown, NEW s \in SessionId, InMap(s), NEW q, TouchFacts(s, q),
           NEW d \in Channel
    PROVE  ShowsOf(d, sessions', obj', openTurn', live')
<1>1. CASE d # obj[s].channelId
  BY <1>1, OthersShown DEF TouchFacts
<1>2. CASE d = obj[s].channelId
  <2>1. /\ sessions[d] = s /\ sessions'[d] = s /\ s # 0 /\ openTurn'[d] = openTurn[d]
        /\ obj'[s].prompting = obj[s].prompting
        /\ obj'[s].currentTurnId = obj[s].currentTurnId
        /\ \/ live'[d] = LiveOf(obj'[s])
           \/ live'[d] = live[d] /\ obj'[s].queue = obj[s].queue
    BY <1>2 DEF TouchFacts, InMap, SessionId
  <2> QED
    BY <2>1 DEF Shown, ShowsOf, TurnOf, RowOf, LiveOf
<1> QED
  BY <1>1, <1>2

\* Whatever happens to a turn or a session shows.
LEMMA ShownKept ==
    ASSUME Base, OneByOne, NoSessionYet, Joined, Shown, Kind
    PROVE  Shown'
<1>1. /\ TypeInv /\ CoreType /\ MapAgrees
      /\ \A t \in TurnId : turns[t].session \in SessionId /\ ChannelOf(t) \in Channel
      /\ \A t \in TurnId : ChannelOf(t) = obj[turns[t].session].channelId
  BY ChannelOfType DEF Base, TypeInv, ChannelOf
<1> SUFFICES ASSUME NEW d \in Channel
             PROVE  ShowsOf(d, sessions', obj', openTurn', live')
  BY DEF Shown, ShowsOf, TurnOf, RowOf, LiveOf
<1>2. sessions[d] # 0 => sessions[d] \in SessionId /\ obj[sessions[d]].channelId = d
  BY <1>1, MappedObject DEF MapAgrees
<1>3. CASE Quiet \/ \E t \in TurnId : Begins(t) \/ Gates(t)
  <2>1. SameViews(d)
    BY <1>2, <1>3 DEF Quiet, Begins, Gates, SameViews, Held
  <2> QED
    BY <2>1, SameViewsShown
<1>4. ASSUME NEW c \in Channel, NEW process, Drops(c, process)
      PROVE  ShowsOf(d, sessions', obj', openTurn', live')
  <2>1. EndFacts(c, obj, process) /\ \A i \in SessionId : Held(obj[i], obj[i])
    BY <1>4 DEF Drops, Held
  <2> QED
    BY <2>1, EndShown
<1>5. ASSUME NEW c \in Channel, NEW memory, Installs(c, memory)
      PROVE  ShowsOf(d, sessions', obj', openTurn', live')
  <2>1. CASE d = c
    <3>1. /\ sessions[d] = 0 /\ openTurn'[d] = openTurn[d]
          /\ sessions'[d] = Len(obj) + 1 /\ ~obj'[Len(obj) + 1].prompting
          /\ live'[d] = LiveOf(obj'[Len(obj) + 1])
      BY <1>5, <2>1 DEF Installs, InstallFacts, NoSessionYet
    <3>2. Len(obj) + 1 # 0
      BY <1>1 DEF CoreType
    <3> QED
      BY <3>1, <3>2 DEF Shown, ShowsOf, TurnOf, RowOf
  <2>2. CASE d # c
    <3>1. SameViews(d)
      BY <1>2, <1>5, <2>2 DEF Installs, InstallFacts, SameViews, Held
    <3> QED
      BY <3>1, SameViewsShown
  <2> QED
    BY <2>1, <2>2
<1>6. ASSUME NEW s \in SessionId, NEW m \in Message, Asks(s, m)
      PROVE  ShowsOf(d, sessions', obj', openTurn', live')
  <2>1. InMap(s)
    <3>1. callers \in Seq(Caller)
      BY <1>1 DEF TypeInv, RestType
    <3>2. callers # <<>> => 1 \in DOMAIN callers /\ Head(callers) = callers[1]
      BY <3>1
    <3> QED
      BY <1>6, <3>2 DEF Asks, Joined, CallersInMap
  <2>2. PromptFacts(s, m) /\ obj[s].channelId \in Channel
    BY <1>1, <1>6, ObjectType DEF Asks
  <2>3. ASSUME EndFacts(obj[s].channelId, obj, "terminating")
        PROVE  ShowsOf(d, sessions', obj', openTurn', live')
    <3>1. \A i \in SessionId : Held(obj[i], obj[i])
      BY DEF Held
    <3> QED
      BY <2>2, <2>3, <3>1, EndShown
  <2>4. ASSUME NEW q, TouchFacts(s, q)
        PROVE  ShowsOf(d, sessions', obj', openTurn', live')
    BY <2>1, <2>4, TouchShown
  <2>5. ASSUME StartFacts(s, m, obj[s].queue, turns, git)
        PROVE  ShowsOf(d, sessions', obj', openTurn', live')
    BY <2>1, <2>5, StartShown
  <2> QED
    BY <2>2, <2>3, <2>4, <2>5 DEF PromptFacts
<1>7. ASSUME NEW t \in TurnId, Halts(t)
      PROVE  ShowsOf(d, sessions', obj', openTurn', live')
  <2> DEFINE s == sessions[ChannelOf(t)]
  <2>1. s \in SessionId /\ obj[s].channelId = ChannelOf(t) /\ StopFacts(ChannelOf(t))
    BY <1>1, <1>7, MappedObject DEF Halts, MapAgrees
  <2> HIDE DEF s
  <2>2. s = sessions[obj[s].channelId] /\ s # 0 /\ StopFacts(obj[s].channelId)
    BY <1>7, <2>1 DEF Halts, s
  <2>5. /\ \A i \in SessionId : i # s => obj'[i] = obj[i]
        /\ sessions' = sessions /\ openTurn' = openTurn
        /\ \A e \in Channel :
             live'[e] = IF e = obj[s].channelId THEN LiveOf(obj'[s]) ELSE live[e]
    BY <2>2 DEF StopFacts
  <2>3. CASE d # obj[s].channelId
    <3>1. sessions'[d] = sessions[d] /\ openTurn'[d] = openTurn[d] /\ live'[d] = live[d]
      BY <2>3, <2>5
    <3> QED
      BY <2>3, <2>5, <3>1, OthersShown
  <2>4. CASE d = obj[s].channelId
    <3>1. /\ sessions[d] = s /\ sessions'[d] = s /\ openTurn'[d] = openTurn[d]
          /\ obj'[s].prompting = obj[s].prompting
          /\ obj'[s].currentTurnId = obj[s].currentTurnId
          /\ live'[d] = LiveOf(obj'[s])
      BY <2>2, <2>4 DEF StopFacts
    <3> QED
      BY <2>2, <3>1 DEF Shown, ShowsOf, TurnOf, RowOf
  <2> QED
    BY <2>3, <2>4
<1>8. ASSUME NEW t \in TurnId, NEW g \in ServedGit(TurnId), Settles(t, g)
      PROVE  ShowsOf(d, sessions', obj', openTurn', live')
  <2> DEFINE s == turns[t].session
             c == ChannelOf(t)
  <2>1. SettleFacts(t, g) /\ turns[t].phase # "done"
    BY <1>8, ResumedFacts DEF Settles
  <2>2. sessions[c] \in {0, s} /\ s \in SessionId /\ obj[s].channelId = c /\ c \in Channel
    BY <1>1, <2>1 DEF OneByOne, OnTheirSession
  <2>3. CASE sessions[c] # 0 /\ obj[s].queue # <<>>
             /\ StartFacts(s, Head(obj[s].queue), Tail(obj[s].queue),
                           [turns EXCEPT ![t].phase = "done"], g)
    <3>1. InMap(s)
      BY <2>2, <2>3 DEF InMap
    <3> QED
      BY <2>2, <2>3, <3>1, StartShown
  <2>4. CASE RestFacts(t, g) /\ UNCHANGED sessions
    <3> HIDE DEF s, c
    <3>1. CASE d # c
      BY <2>2, <2>4, <3>1, OthersShown DEF RestFacts, s, c
    <3>2. CASE d = c
      <4>1. /\ openTurn'[d] = 0 /\ ~obj'[s].prompting /\ sessions'[d] = sessions[d]
            /\ live'[d] = IF sessions[d] # 0 THEN LiveOf(obj'[s]) ELSE live[d]
        BY <2>4, <3>2 DEF RestFacts, s, c
      <4> QED
        BY <2>2, <3>2, <4>1 DEF Shown, ShowsOf, TurnOf, RowOf
    <3> QED
      BY <3>1, <3>2
  <2> QED
    BY <2>1, <2>3, <2>4 DEF SettleFacts
<1>9. ASSUME NEW t \in TurnId, NEW g, Fails(t, g)
      PROVE  ShowsOf(d, sessions', obj', openTurn', live')
  <2>1. PICK o : /\ \A i \in SessionId : i # turns[t].session => o[i] = obj[i]
                 /\ EndFacts(ChannelOf(t), o, "terminating")
    BY <1>9 DEF Fails, FailFacts
  <2>2. \A i \in SessionId : obj[i].channelId # ChannelOf(t) =>
          Held(obj[i], o[i]) /\ o[i].prompting = obj[i].prompting
    BY <1>1, <2>1 DEF Held
  <2> QED
    BY <1>1, <2>1, <2>2, EndShown
<1> QED
  BY <1>3, <1>4, <1>5, <1>6, <1>7, <1>8, <1>9 DEF Kind

\* The inductive invariant when, besides, no message joins a creation that an
\* image-only message started.
Faithful == Orderly /\ Joined /\ Shown

\* It holds at the start.
LEMMA InitFaithful == Init => Faithful
<1> SUFFICES ASSUME Init PROVE Faithful
  OBVIOUS
<1>1. /\ callers = <<>> /\ \A c \in Channel : pending[c].stage = "none"
      /\ \A c \in Channel : sessions[c] = 0 /\ openTurn[c] = 0 /\ live[c] = NoLive
  BY DEF Init, NoPending
<1>2. DOMAIN callers = {} /\ Len(callers) = 0
  BY <1>1
<1> QED
  BY <1>1, <1>2, InitOrderly
  DEF Faithful, Joined, JoinsAttempts, CallersInMap, FirstStays,
      Shown, ShowsOf, TurnOf, RowOf

\* Every step keeps it.
LEMMA NextFaithful ==
    ASSUME "late_settle" \notin Races, "join_image" \notin Races, Faithful, [Next]_vars
    PROVE  Faithful'
<1>1. Orderly'
  BY NextOrderly DEF Faithful
<1>2. CASE Next
  <2>1. Base /\ OneByOne /\ Awaited /\ Remembers
    BY DEF Faithful, Orderly, Kept
  <2>2. Kind /\ Attempt
    BY <1>2, <2>1, StepIsKind, StepIsAttempt
  <2>3. Joined' /\ Shown'
    BY <2>1, <2>2, JoinedKept, ShownKept DEF Faithful, Awaited
  <2> QED
    BY <1>1, <2>3 DEF Faithful
<1>3. CASE UNCHANGED vars
  <2>1. UNCHANGED <<pending, callers, sessions, obj, openTurn, live>>
    BY <1>3 DEF vars
  <2>2. Joined'
    BY <2>1 DEF Faithful, Joined, JoinsAttempts, CallersInMap, FirstStays, InMap
  <2>3. Shown'
    BY <2>1 DEF Faithful, Shown, ShowsOf, TurnOf, RowOf, LiveOf
  <2> QED
    BY <1>1, <2>2, <2>3 DEF Faithful
<1> QED
  BY <1>2, <1>3

\* What Faithful says holds in every state of such a behaviour.
THEOREM AlwaysFaithful ==
    ASSUME "late_settle" \notin Races, "join_image" \notin Races
    PROVE  Spec => []Faithful
<1>1. Faithful /\ [Next]_vars => Faithful'
  BY NextFaithful
<1> QED
  BY <1>1, InitFaithful, PTL DEF Spec

\* Between callbacks a channel's live_status row is its session's, in the state
\* that is in, and its plan gates are those of that session's turn, as long as
\* neither of the two races happens.
THEOREM ViewsAreTheSessions ==
    ASSUME "late_settle" \notin Races, "join_image" \notin Races
    PROVE  Spec => []ViewsFollowSession
<1>1. ASSUME Faithful
      PROVE  LiveStatusFollowsSession
  BY <1>1 DEF Faithful, Shown, ShowsOf, RowOf, LiveStatusFollowsSession
<1>2. Faithful /\ PlanGateHasOneOwner => ViewsFollowSession
  BY <1>1 DEF ViewsFollowSession
<1> QED
  BY <1>2, AlwaysFaithful, GatesHaveOneOwner, PTL

\* Nor does a completion close another turn's transcript: the open one is that
\* of the turn the channel's session runs.
THEOREM TranscriptsAreTheTurns ==
    ASSUME "late_settle" \notin Races, "join_image" \notin Races
    PROVE  Spec => []TranscriptFollowsTurn
<1>1. ASSUME Faithful
      PROVE  TranscriptFollowsTurn
  BY <1>1 DEF Faithful, Shown, ShowsOf, TurnOf, TranscriptFollowsTurn
<1> QED
  BY <1>1, AlwaysFaithful, PTL

-----------------------------------------------------------------------------
(* The lock's owners *)

\* The turns of L may have the lock: their sessions are in the map.  Of these W
\* write, and g is the git record that fits: the lock is held in the name of
\* each turn that writes or was granted the lock, and in nobody's if there is no
\* such turn; those that wait are of L; and the active turns and the identities
\* are the writers'.
Owned(g, W, L) ==
    /\ \A t \in W \cup Granted(g.lock) : t \in L /\ g.lock.holder = ChannelOf(t)
    /\ g.lock.holder # NoChannel => W \cup Granted(g.lock) # {}
    /\ \A w \in Waiters(g.lock) : w.turn \in L
    /\ \A c \in Channel :
         /\ c \in g.activeTurns <=> \E t \in W : ChannelOf(t) = c
         /\ c \notin g.activeTurns => g.identity[c] = NoUser
    /\ \A t \in W : g.identity[ChannelOf(t)] = turns[t].user

\* The turns of the sessions in the map, and those of them that write.
Living(map) == {t \in TurnId : map[ChannelOf(t)] = turns[t].session}
Writers(ts, map) == {t \in Living(map) : ts[t].phase = "prompting"}

Owns == Owned(git, Writers(turns, sessions), Living(sessions))

\* Those of another channel.
Besides(c, T) == {t \in T : ChannelOf(t) # c}

\* Who waits is an acquiring turn, in its channel's name.
LEMMA WaitersAcquire ==
    ASSUME Base, NEW w \in Waiters(git.lock)
    PROVE  /\ w.turn \in TurnId /\ turns[w.turn].phase = "acquiring"
           /\ w.channel = ChannelOf(w.turn)
<1>1. w.turn \in Acquiring
  BY DEF Base, Waiting, Awaits
<1> QED
  BY <1>1 DEF Base, Waiting, Acquiring

\* No turn of its channel waits behind one that has the lock.
LEMMA NobodyBehind ==
    ASSUME Base, OneByOne, NEW t \in TurnId,
           turns[t].phase = "prompting" \/ t \in Granted(git.lock),
           NEW w \in Waiters(git.lock)
    PROVE  w.channel # ChannelOf(t) /\ turns[t].phase # "done"
<1>1. Awaits(git.lock, Acquiring)
  BY DEF Base, Waiting
<1>2. t \in Granted(git.lock) => t \in Woken(git.lock)
  BY DEF Granted, Woken
<1>3. turns[t].phase # "done"
  BY <1>1, <1>2 DEF Awaits, Acquiring
<1>4. w.turn # t
  BY <1>1, <1>2, WaitersAcquire DEF Awaits
<1> QED
  BY <1>3, <1>4, WaitersAcquire DEF OneByOne, OneFrame

\* A lock that nobody owns any more goes to the next one who waits.
LEMMA PassedOn ==
    ASSUME Base, NEW lock \in Lock(TurnId), NEW T, Awaits(lock, T),
           Waiters(lock) \subseteq Waiters(git.lock), Granted(lock) = {},
           NEW L, \A w \in Waiters(lock) : w.turn \in L,
           NEW h, h.lock = GrantNext([lock EXCEPT !.holder = NoChannel]),
           h.activeTurns = {}, \A d \in Channel : h.identity[d] = NoUser
    PROVE  /\ Owned(h, {}, L)
           /\ Waiters(h.lock) \subseteq Waiters(lock) /\ Awaits(h.lock, T)
           /\ \/ h.lock.holder = NoChannel
              \/ \E w \in Waiters(lock) : h.lock.holder = w.channel
<1> DEFINE freed == [lock EXCEPT !.holder = NoChannel]
<1>1. /\ freed \in Lock(TurnId) /\ Awaits(freed, T) /\ freed.holder = NoChannel
      /\ Waiters(freed) = Waiters(lock) /\ Granted(freed) = {}
  BY FreedLock
<1>2. h.lock = GrantNext(freed)
  OBVIOUS
<1> HIDE DEF freed
<1>3. /\ Awaits(h.lock, T) /\ Waiters(h.lock) \subseteq Waiters(lock)
      /\ \/ h.lock.holder = NoChannel /\ Granted(h.lock) = {}
         \/ \E w \in Waiters(lock) :
              h.lock.holder = w.channel /\ Granted(h.lock) = {w.turn}
  <2> DEFINE next == Head(freed.queue)
  <2>1. /\ Awaits(GrantNext(freed), T)
        /\ Waiters(GrantNext(freed)) \subseteq Waiters(freed)
        /\ freed.queue = <<>> => GrantNext(freed) = freed
        /\ freed.queue # <<>> =>
             /\ next \in Waiters(freed)
             /\ GrantNext(freed).holder = next.channel
             /\ Granted(GrantNext(freed)) = Granted(freed) \cup {next.turn}
    BY <1>1, GrantNextWakes
  <2> HIDE DEF next
  <2>2. CASE freed.queue = <<>>
    BY <1>1, <1>2, <2>1, <2>2
  <2>3. CASE freed.queue # <<>>
    <3>1. /\ next \in Waiters(lock) /\ h.lock.holder = next.channel
          /\ Granted(h.lock) = {next.turn}
      BY <1>1, <1>2, <2>1, <2>3
    <3> QED
      BY <1>1, <1>2, <2>1, <3>1
  <2> QED
    BY <2>2, <2>3
<1>4. \A w \in Waiters(lock) : w.channel = ChannelOf(w.turn)
  BY WaitersAcquire
<1> QED
  BY <1>3, <1>4 DEF Owned

\* A lock whose owners stay the same.
LEMMA SameOwners ==
    ASSUME NEW g, NEW h, NEW W, NEW L, Owned(g, W, L), NEW M,
           h.lock.holder = g.lock.holder, Granted(h.lock) = Granted(g.lock),
           h.activeTurns = g.activeTurns, h.identity = g.identity,
           \A w \in Waiters(h.lock) : w.turn \in M,
           \A t \in W \cup Granted(g.lock) : t \in M
    PROVE  Owned(h, W, M)
  BY DEF Owned

\* abort() and teardown() field by field.
LEMMA AbortParts ==
    ASSUME NEW S, NEW g \in ServedGit(S), NEW c \in Channel
    PROVE  LET free == ReleaseIfHeldBy(g.lock, c)
           IN  /\ Abort(g, c).lock = free
               /\ AbortTurn(g, c).lock = CancelWaiter(free, c)
               /\ \A h \in {Abort(g, c), AbortTurn(g, c)} :
                    /\ h.activeTurns = g.activeTurns \ {c}
                    /\ h.identity = [g.identity EXCEPT ![c] =
                                       IF c \in g.activeTurns THEN NoUser ELSE @]
               /\ free = IF g.lock.holder = c THEN GrantNext([g.lock EXCEPT !.holder = NoChannel])
                         ELSE g.lock
<1> DEFINE free == ReleaseIfHeldBy(g.lock, c)
           a == [g EXCEPT !.activeTurns = @ \ {c}, !.lock = free,
                          !.identity[c] = IF c \in g.activeTurns THEN NoUser ELSE @]
<1>1. free = IF g.lock.holder = c THEN GrantNext([g.lock EXCEPT !.holder = NoChannel])
             ELSE g.lock
  BY DEF ReleaseIfHeldBy
<1> HIDE DEF free
<1>2. Abort(g, c) = a
  BY DEF Abort, free
<1>3. /\ a.lock = free /\ a.activeTurns = g.activeTurns \ {c}
      /\ a.identity = [g.identity EXCEPT ![c] = IF c \in g.activeTurns THEN NoUser ELSE @]
  BY DEF ServedGit, Git
<1>4. AbortTurn(g, c) = [a EXCEPT !.lock = CancelWaiter(a.lock, c)]
  BY <1>2 DEF AbortTurn
<1>5. /\ AbortTurn(g, c).lock = CancelWaiter(a.lock, c)
      /\ AbortTurn(g, c).activeTurns = a.activeTurns
      /\ AbortTurn(g, c).identity = a.identity
  BY <1>4 DEF ServedGit, Git
<1> QED
  BY <1>1, <1>2, <1>3, <1>5 DEF free

\* cancelWaiter() on behalf of channel c, none of whose turns owns the lock.
LEMMA CancelOwned ==
    ASSUME Base, OneByOne, NEW g \in ServedGit(TurnId), NEW T, Awaits(g.lock, T),
           Waiters(g.lock) \subseteq Waiters(git.lock), NEW c \in Channel,
           NEW W, NEW L, Owned(g, W, L), g.lock.holder # c,
           NEW h, h.lock = CancelWaiter(g.lock, c),
           h.activeTurns = g.activeTurns, h.identity = g.identity
    PROVE  Owned(h, W, Besides(c, L))
<1>1. g.lock \in Lock(TurnId)
  BY DEF ServedGit, ServedLock
<1>2. \A w \in Waiters(git.lock) : w.channel = ChannelOf(w.turn)
  BY WaitersAcquire
<1>3. \A v, w \in Waiters(g.lock) : v.channel = w.channel => v = w
  BY OneWaiter
<1>4. /\ Waiters(h.lock) \subseteq Waiters(g.lock)
      /\ h.lock.holder = g.lock.holder /\ Granted(h.lock) = Granted(g.lock)
      /\ \A w \in Waiters(h.lock) : w.channel # c
  BY <1>1, <1>3, CancelAwaits
<1>5. \A w \in Waiters(h.lock) : w.turn \in Besides(c, L)
  BY <1>2, <1>4 DEF Owned, Besides
<1>6. \A t \in W \cup Granted(g.lock) : t \in Besides(c, L)
  BY DEF Owned, Besides
<1> QED
  BY <1>4, <1>5, <1>6, SameOwners

\* abort() and teardown() of channel c, none of whose turns has been granted the
\* lock and not gone on yet: the writer, if it is c's, hands the lock over.
LEMMA AbortOwned ==
    ASSUME Base, OneByOne, NEW W, W = Writers(turns, sessions),
           NEW L, Owned(git, W, L), NEW c \in Channel,
           \A t \in Granted(git.lock) : ChannelOf(t) # c
    PROVE  /\ Owned(AbortTurn(git, c), Besides(c, W), Besides(c, L))
           /\ ~Parked(c) => Owned(Abort(git, c), Besides(c, W), Besides(c, L))
           /\ AbortTurn(git, c).lock.holder # c
           /\ c \notin AbortTurn(git, c).activeTurns
<1> DEFINE a == Abort(git, c)
           h == AbortTurn(git, c)
<1>1. /\ git \in ServedGit(TurnId) /\ git.lock \in Lock(TurnId)
      /\ Awaits(git.lock, Acquiring)
      /\ git.identity \in [Channel -> User \cup {NoUser}]
      /\ git.lock \in ServedLock(TurnId)
  BY DEF Base, TypeInv, CoreType, ServedGit, ServedLock, Waiting, Git
<1>2. /\ h.lock = CancelWaiter(a.lock, c)
      /\ a.lock = IF git.lock.holder = c THEN GrantNext([git.lock EXCEPT !.holder = NoChannel])
                  ELSE git.lock
      /\ a.activeTurns = git.activeTurns \ {c} /\ h.activeTurns = a.activeTurns
      /\ \A d \in Channel : a.identity[d] = IF d = c /\ c \in git.activeTurns THEN NoUser
                                            ELSE git.identity[d]
      /\ h.identity = a.identity
  <2>1. /\ h.lock = CancelWaiter(a.lock, c)
        /\ a.lock = IF git.lock.holder = c THEN GrantNext([git.lock EXCEPT !.holder = NoChannel])
                    ELSE git.lock
        /\ a.activeTurns = git.activeTurns \ {c} /\ h.activeTurns = git.activeTurns \ {c}
        /\ a.identity = [git.identity EXCEPT ![c] =
                           IF c \in git.activeTurns THEN NoUser ELSE @]
        /\ h.identity = [git.identity EXCEPT ![c] =
                           IF c \in git.activeTurns THEN NoUser ELSE @]
    BY <1>1, AbortParts
  <2> HIDE DEF a, h
  <2> QED
    BY <1>1, <2>1
<1>3. /\ a \in ServedGit(TurnId) /\ h.lock.holder = a.lock.holder
      /\ Awaits(a.lock, Acquiring) /\ Waiters(a.lock) \subseteq Waiters(git.lock)
  <2>1. a \in ServedGit(TurnId)
    BY <1>1, AbortType
  <2>2. Awaits(a.lock, Acquiring) /\ Waiters(a.lock) \subseteq Waiters(git.lock)
    BY <1>1, GitTends DEF Tends
  <2>3. a.lock \in Lock(TurnId)
    BY <2>1 DEF ServedGit, ServedLock
  <2> HIDE DEF a, h
  <2> QED
    BY <1>2, <2>1, <2>2, <2>3, CancelAwaits
<1> HIDE DEF a, h
<1>4. \A t \in W : t \in TurnId /\ turns[t].phase = "prompting"
  BY DEF Writers, Living
<1>5. \A w \in Waiters(git.lock) : w.channel = ChannelOf(w.turn) /\ w.turn \in L
  BY WaitersAcquire DEF Owned
<1>6. CASE git.lock.holder = c
  <2>1. Granted(git.lock) = {} /\ W # {} /\ \A t \in W : ChannelOf(t) = c
    BY <1>6, NoChannelAssumption DEF Owned
  <2>2. \A w \in Waiters(git.lock) : w.channel # c
    BY <1>4, <2>1, NobodyBehind
  <2>3. /\ a.activeTurns = {} /\ \A d \in Channel : a.identity[d] = NoUser
    <3>1. git.activeTurns \in SUBSET Channel
      BY <1>1 DEF ServedGit, Git
    <3>2. \A d \in Channel : d \in git.activeTurns <=> d = c
      BY <2>1 DEF Owned
    <3>3. \A d \in Channel : d # c => git.identity[d] = NoUser
      BY <3>2 DEF Owned
    <3> QED
      BY <1>2, <3>1, <3>2, <3>3
  <2>4. \A w \in Waiters(git.lock) : w.turn \in Besides(c, L)
    BY <1>5, <2>2 DEF Besides
  <2>5. Besides(c, W) = {}
    BY <2>1 DEF Besides
  <2>6. /\ Owned(a, {}, Besides(c, L))
        /\ \/ a.lock.holder = NoChannel
           \/ \E w \in Waiters(git.lock) : a.lock.holder = w.channel
    BY <1>1, <1>2, <1>6, <2>1, <2>3, <2>4, PassedOn
  <2>7. a.lock.holder # c
    BY <2>2, <2>6, NoChannelAssumption
  <2>8. Besides(c, Besides(c, L)) = Besides(c, L)
    BY DEF Besides
  <2>9. Owned(h, {}, Besides(c, L))
    BY <1>2, <1>3, <2>6, <2>7, <2>8, CancelOwned
  <2> QED
    BY <1>2, <1>3, <2>5, <2>6, <2>7, <2>9 DEF a, h
<1>7. CASE git.lock.holder # c
  <2>1. \A t \in W : ChannelOf(t) # c
    BY <1>7 DEF Owned
  <2>2. Besides(c, W) = W
    BY <2>1 DEF Besides
  <2>3. c \notin git.activeTurns
    BY <2>1 DEF Owned
  <2>4. /\ a.lock = git.lock /\ a.activeTurns = git.activeTurns
        /\ a.identity = git.identity
    <3>1. a.identity = git.identity
      <4>1. a.identity \in [Channel -> User \cup {NoUser}]
        BY <1>3 DEF ServedGit, Git
      <4> QED
        BY <1>1, <1>2, <2>3, <4>1
    <3> QED
      BY <1>2, <1>7, <2>3, <3>1
  <2>5. Owned(h, W, Besides(c, L))
    <3>1. /\ h.lock = CancelWaiter(git.lock, c) /\ h.activeTurns = git.activeTurns
          /\ h.identity = git.identity
      BY <1>2, <2>4
    <3> QED
      BY <1>1, <1>7, <3>1, CancelOwned
  <2>6. ~Parked(c) => Owned(a, W, Besides(c, L))
    <3> SUFFICES ASSUME ~Parked(c) PROVE Owned(a, W, Besides(c, L))
      OBVIOUS
    <3>1. \A w \in Waiters(git.lock) : w.turn \in Besides(c, L)
      BY <1>5 DEF Besides, Parked, Waiters
    <3>2. \A t \in W \cup Granted(git.lock) : t \in Besides(c, L)
      BY <2>1 DEF Owned, Besides
    <3> QED
      BY <2>4, <3>1, <3>2, SameOwners
  <2> QED
    BY <1>2, <1>3, <1>7, <2>2, <2>3, <2>4, <2>5, <2>6 DEF a, h
<1> QED
  BY <1>6, <1>7

\* end() field by field.
LEMMA EndParts ==
    ASSUME NEW S, NEW g \in ServedGit(S), NEW c \in Channel
    PROVE  /\ c \notin g.activeTurns => End(g, c) = g
           /\ c \in g.activeTurns /\ g.lock.holder = c =>
                /\ End(g, c).lock = GrantNext([g.lock EXCEPT !.holder = NoChannel])
                /\ End(g, c).activeTurns = g.activeTurns \ {c}
                /\ End(g, c).identity = [g.identity EXCEPT ![c] = NoUser]
<1>1. SUFFICES ASSUME c \in g.activeTurns, g.lock.holder = c
               PROVE  /\ End(g, c).lock = GrantNext([g.lock EXCEPT !.holder = NoChannel])
                      /\ End(g, c).activeTurns = g.activeTurns \ {c}
                      /\ End(g, c).identity = [g.identity EXCEPT ![c] = NoUser]
  BY DEF End
<1> DEFINE free == GrantNext([g.lock EXCEPT !.holder = NoChannel])
<1>2. Release(g.lock, c) = free
  <2>1. [g.lock EXCEPT !.holder = IF @ = c THEN NoChannel ELSE @]
          = [g.lock EXCEPT !.holder = NoChannel]
    BY <1>1
  <2> QED
    BY <2>1 DEF Release
<1>3. End(g, c) = [g EXCEPT !.activeTurns = @ \ {c}, !.lock = free, !.identity[c] = NoUser]
  BY <1>1, <1>2 DEF End
<1> HIDE DEF free
<1>4. /\ End(g, c).lock = free
      /\ End(g, c).activeTurns = g.activeTurns \ {c}
      /\ End(g, c).identity = [g.identity EXCEPT ![c] = NoUser]
  BY <1>3 DEF ServedGit, Git
<1> QED
  BY <1>4 DEF free

\* The agent of turn t has answered: if t still writes, the lock goes on.
LEMMA EndOwned ==
    ASSUME Base, OneByOne, NEW W, W = Writers(turns, sessions), NEW L, Owned(git, W, L),
           NEW t \in TurnId, turns[t].phase = "prompting", git.lock.settled = <<>>
    PROVE  Owned(End(git, ChannelOf(t)), W \ {t}, L)
<1> DEFINE c == ChannelOf(t)
           h == End(git, c)
<1>1. /\ git \in ServedGit(TurnId) /\ git.lock \in Lock(TurnId) /\ CoreType
      /\ Awaits(git.lock, Acquiring) /\ c \in Channel
      /\ git.identity \in [Channel -> User \cup {NoUser}]
      /\ git.activeTurns \in SUBSET Channel
  BY ChannelOfType DEF Base, TypeInv, CoreType, ServedGit, ServedLock, Waiting, Git
<1>2. Granted(git.lock) = {}
  BY DEF Granted, Answers
<1>3. \A u \in W : u \in TurnId /\ turns[u].phase = "prompting"
  BY DEF Writers, Living
<1>4. \A u \in W : ChannelOf(u) = c => u = t
  BY <1>3 DEF OneByOne, OneFrame
<1>5. /\ c \notin git.activeTurns => h = git
      /\ c \in git.activeTurns /\ git.lock.holder = c =>
           /\ h.lock = GrantNext([git.lock EXCEPT !.holder = NoChannel])
           /\ h.activeTurns = git.activeTurns \ {c}
           /\ h.identity = [git.identity EXCEPT ![c] = NoUser]
  BY <1>1, EndParts
<1> HIDE DEF c, h
<1>6. CASE t \in W
  <2>1. git.lock.holder = c /\ W = {t}
    BY <1>4, <1>6 DEF Owned, c
  <2>2. \A d \in Channel : d \in git.activeTurns <=> d = c
    BY <2>1 DEF Owned, c
  <2>3. \A d \in Channel : d # c => git.identity[d] = NoUser
    BY <2>2 DEF Owned
  <2>4. /\ h.lock = GrantNext([git.lock EXCEPT !.holder = NoChannel])
        /\ h.activeTurns = {} /\ \A d \in Channel : h.identity[d] = NoUser
    BY <1>1, <1>5, <2>1, <2>2, <2>3
  <2>5. \A w \in Waiters(git.lock) : w.turn \in L
    BY DEF Owned
  <2>6. Owned(h, {}, L)
    BY <1>1, <1>2, <2>4, <2>5, PassedOn
  <2>7. W \ {t} = {}
    BY <2>1
  <2> QED
    BY <2>6, <2>7 DEF h, c
<1>7. CASE t \notin W
  <2>1. c \notin git.activeTurns
    BY <1>1, <1>4, <1>7 DEF Owned
  <2>2. W \ {t} = W
    BY <1>7
  <2> QED
    BY <1>5, <2>1, <2>2 DEF h, c
<1> QED
  BY <1>6, <1>7

\* The turn that has been granted the lock is alone with it.
LEMMA GrantedAlone ==
    ASSUME Base, OneByOne, NEW W, W = Writers(turns, sessions), NEW L, Owned(git, W, L),
           NEW t \in TurnId, t \in Granted(git.lock), turns[t].phase # "prompting"
    PROVE  /\ git.lock.holder = ChannelOf(t) /\ t \in L
           /\ W = {} /\ Granted(git.lock) = {t} /\ git.activeTurns = {}
           /\ \A d \in Channel : git.identity[d] = NoUser
           /\ \A w \in Waiters(git.lock) : w.channel # ChannelOf(t)
<1>1. git.lock.holder = ChannelOf(t) /\ t \in L
  BY DEF Owned
<1>2. \A u \in W \cup Granted(git.lock) :
        /\ u \in TurnId /\ turns[u].phase # "done" /\ ChannelOf(u) = ChannelOf(t)
  <2>1. \A u \in W : u \in TurnId /\ turns[u].phase = "prompting"
    BY DEF Writers, Living
  <2>2. \A u \in Granted(git.lock) : u \in Acquiring
    BY DEF Base, Waiting, Awaits, Granted, Woken
  <2> QED
    BY <1>1, <2>1, <2>2 DEF Owned, Acquiring
<1>3. \A u \in W \cup Granted(git.lock) : u = t
  <2>1. turns[t].phase # "done"
    BY <1>2
  <2> QED
    BY <1>2, <2>1 DEF OneByOne, OneFrame
<1>4. t \notin W
  BY DEF Writers
<1>5. W = {} /\ Granted(git.lock) = {t}
  BY <1>3, <1>4
<1>6. git.activeTurns \in SUBSET Channel
  BY DEF Base, TypeInv, CoreType, ServedGit, Git
<1>7. git.activeTurns = {} /\ \A d \in Channel : git.identity[d] = NoUser
  BY <1>5, <1>6 DEF Owned
<1> QED
  BY <1>1, <1>5, <1>7, NobodyBehind

\* The same when its continuation runs.
LEMMA ResumedAlone ==
    ASSUME Base, OneByOne, NEW W, W = Writers(turns, sessions), NEW L, Owned(git, W, L),
           NEW t, Resumes(t), Head(git.lock.settled).granted
    PROVE  /\ t \in TurnId /\ ChannelOf(t) \in Channel /\ t \in L /\ W = {}
           /\ Resumed \in ServedGit(TurnId) /\ Resumed.lock \in Lock(TurnId)
           /\ Awaits(Resumed.lock, Acquiring \ {t})
           /\ Waiters(Resumed.lock) = Waiters(git.lock)
           /\ Resumed.lock.holder = ChannelOf(t) /\ Granted(Resumed.lock) = {}
           /\ Resumed.activeTurns = {} /\ \A d \in Channel : Resumed.identity[d] = NoUser
           /\ \A w \in Waiters(git.lock) : w.channel # ChannelOf(t) /\ w.turn \in Besides(ChannelOf(t), L)
<1>1. /\ t \in TurnId /\ turns[t].phase = "acquiring"
      /\ Resumed \in ServedGit(TurnId)
      /\ Awaits(Resumed.lock, Acquiring \ {t})
      /\ Waiters(Resumed.lock) = Waiters(git.lock)
      /\ Resumed.lock.holder = git.lock.holder
      /\ Granted(Resumed.lock) = Granted(git.lock) \ {t}
      /\ t \in Granted(git.lock)
      /\ Resumed.activeTurns = git.activeTurns /\ Resumed.identity = git.identity
  BY ResumedFacts
<1>2. /\ git.lock.holder = ChannelOf(t) /\ t \in L
      /\ W = {} /\ Granted(git.lock) = {t} /\ git.activeTurns = {}
      /\ \A d \in Channel : git.identity[d] = NoUser
      /\ \A w \in Waiters(git.lock) : w.channel # ChannelOf(t)
  <2>1. turns[t].phase # "prompting"
    BY <1>1
  <2> QED
    BY <1>1, <2>1, GrantedAlone
<1>3. CoreType
  BY DEF Base, TypeInv
<1>4. ChannelOf(t) \in Channel
  BY <1>1, <1>3, ChannelOfType
<1>5. Resumed.lock \in Lock(TurnId)
  BY <1>1 DEF ServedGit, ServedLock
<1>6. \A w \in Waiters(git.lock) : w.turn \in Besides(ChannelOf(t), L)
  BY <1>2, WaitersAcquire DEF Owned, Besides
<1> QED
  BY <1>1, <1>2, <1>4, <1>5, <1>6

\* It begins its turn: from now on it writes.
LEMMA BeginOwned ==
    ASSUME Base, OneByOne, NEW W, W = Writers(turns, sessions), NEW L, Owned(git, W, L),
           NEW t, Resumes(t), Head(git.lock.settled).granted
    PROVE  Owned(Begin(Resumed, ChannelOf(t), turns[t].user), {t}, L)
<1> DEFINE c == ChannelOf(t)
           h == Begin(Resumed, c, turns[t].user)
<1>1. /\ c \in Channel /\ t \in L
      /\ Resumed \in ServedGit(TurnId)
      /\ Waiters(Resumed.lock) = Waiters(git.lock)
      /\ Resumed.lock.holder = c /\ Granted(Resumed.lock) = {}
      /\ Resumed.activeTurns = {} /\ \A d \in Channel : Resumed.identity[d] = NoUser
  BY ResumedAlone
<1>2. h = [Resumed EXCEPT !.activeTurns = @ \cup {c}, !.identity[c] = turns[t].user]
  BY DEF Begin
<1> HIDE DEF h
<1>3. /\ h.lock = Resumed.lock /\ h.activeTurns = {c}
      /\ h.identity = [Resumed.identity EXCEPT ![c] = turns[t].user]
  BY <1>1, <1>2 DEF ServedGit, Git
<1>4. Resumed.identity \in [Channel -> User \cup {NoUser}]
  BY <1>1 DEF ServedGit, Git
<1>5. \A d \in Channel : h.identity[d] = IF d = c THEN turns[t].user ELSE NoUser
  BY <1>1, <1>3, <1>4
<1>6. \A w \in Waiters(git.lock) : w.turn \in L
  BY DEF Owned
<1> HIDE DEF c
<1>7. Owned(h, {t}, L)
  BY <1>1, <1>3, <1>5, <1>6 DEF Owned, c
<1> QED
  BY <1>7 DEF h, c

\* It was stopped meanwhile: it begins its turn only to end it.
LEMMA BegunOwned ==
    ASSUME Base, OneByOne, NEW W, W = Writers(turns, sessions), NEW L, Owned(git, W, L),
           NEW t, Resumes(t), Head(git.lock.settled).granted, NEW u \in User
    PROVE  Owned(End(Begin(Resumed, ChannelOf(t), u), ChannelOf(t)), {}, L)
<1> DEFINE c == ChannelOf(t)
           b == Begin(Resumed, c, u)
           h == End(b, c)
<1>1. /\ c \in Channel
      /\ Resumed \in ServedGit(TurnId) /\ Resumed.lock \in Lock(TurnId)
      /\ Awaits(Resumed.lock, Acquiring \ {t})
      /\ Waiters(Resumed.lock) = Waiters(git.lock)
      /\ Resumed.lock.holder = c /\ Granted(Resumed.lock) = {}
      /\ Resumed.activeTurns = {} /\ \A d \in Channel : Resumed.identity[d] = NoUser
  BY ResumedAlone
<1>2. b = [Resumed EXCEPT !.activeTurns = @ \cup {c}, !.identity[c] = u]
  BY DEF Begin
<1>3. b \in ServedGit(TurnId)
  BY <1>1, BeginType
<1> HIDE DEF b
<1>4. /\ b.lock = Resumed.lock /\ b.activeTurns = {c}
      /\ b.identity = [Resumed.identity EXCEPT ![c] = u]
  BY <1>1, <1>2 DEF ServedGit, Git
<1>5. /\ h.lock = GrantNext([b.lock EXCEPT !.holder = NoChannel])
      /\ h.activeTurns = b.activeTurns \ {c}
      /\ h.identity = [b.identity EXCEPT ![c] = NoUser]
  BY <1>1, <1>3, <1>4, EndParts
<1>6. Resumed.identity \in [Channel -> User \cup {NoUser}]
  BY <1>1 DEF ServedGit, Git
<1> HIDE DEF h
<1>7. h.activeTurns = {} /\ \A d \in Channel : h.identity[d] = NoUser
  BY <1>1, <1>4, <1>5, <1>6
<1>8. \A w \in Waiters(git.lock) : w.turn \in L
  BY DEF Owned
<1>9. Owned(h, {}, L)
  BY <1>1, <1>4, <1>5, <1>7, <1>8, PassedOn
<1> QED
  BY <1>9 DEF h, b

\* begin() throws: teardown() gives the lock away, and the release that follows
\* finds it elsewhere.
LEMMA ThrownOwned ==
    ASSUME Base, OneByOne, NEW W, W = Writers(turns, sessions), NEW L, Owned(git, W, L),
           NEW t, Resumes(t), Head(git.lock.settled).granted,
           NEW thrown \in BeginThrows(Resumed, ChannelOf(t)),
           NEW h, h = [AbortTurn(thrown, ChannelOf(t)) EXCEPT
                         !.lock = ReleaseIfHeldBy(@, ChannelOf(t))]
    PROVE  Owned(h, {}, Besides(ChannelOf(t), L))
<1> DEFINE c == ChannelOf(t)
           M == Besides(c, L)
           a == AbortTurn(thrown, c)
           free == ReleaseIfHeldBy(thrown.lock, c)
<1>1. /\ c \in Channel
      /\ Resumed \in ServedGit(TurnId) /\ Resumed.lock \in Lock(TurnId)
      /\ Awaits(Resumed.lock, Acquiring \ {t})
      /\ Waiters(Resumed.lock) = Waiters(git.lock)
      /\ Resumed.lock.holder = c /\ Granted(Resumed.lock) = {}
      /\ Resumed.activeTurns = {} /\ \A d \in Channel : Resumed.identity[d] = NoUser
      /\ \A w \in Waiters(git.lock) : w.channel # c /\ w.turn \in M
  BY ResumedAlone
<1>2. Resumed.identity \in [Channel -> User \cup {NoUser}]
  BY <1>1 DEF ServedGit, Git
<1>3. /\ thrown \in ServedGit(TurnId) /\ thrown.lock = Resumed.lock
      /\ thrown.activeTurns \subseteq {c} /\ \A d \in Channel : thrown.identity[d] = NoUser
  <2> DEFINE begun == [Resumed EXCEPT !.activeTurns = @ \cup {c}, !.identity[c] = NoUser]
  <2>1. thrown \in ServedGit(TurnId)
    BY <1>1, BeginThrowsType
  <2>2. /\ begun.lock = Resumed.lock /\ begun.activeTurns = {c}
        /\ begun.identity = [Resumed.identity EXCEPT ![c] = NoUser]
    BY <1>1 DEF ServedGit, Git
  <2>3. thrown = Resumed \/ thrown = begun
    BY DEF BeginThrows
  <2> HIDE DEF begun
  <2>4. \A d \in Channel : begun.identity[d] = NoUser
    BY <1>1, <1>2, <2>2
  <2> QED
    BY <1>1, <2>1, <2>2, <2>3, <2>4
<1>4. /\ a.lock = CancelWaiter(free, c)
      /\ free = GrantNext([Resumed.lock EXCEPT !.holder = NoChannel])
      /\ a.activeTurns = thrown.activeTurns \ {c}
      /\ a.identity = [thrown.identity EXCEPT ![c] =
                         IF c \in thrown.activeTurns THEN NoUser ELSE @]
  BY SMTT(20), <1>1, <1>3, AbortParts
<1>5. a \in ServedGit(TurnId) /\ thrown.identity \in [Channel -> User \cup {NoUser}]
  BY <1>1, <1>3, AbortTurnType DEF ServedGit, Git
<1> HIDE DEF a, free, M
<1>6. a.activeTurns = {} /\ \A d \in Channel : a.identity[d] = NoUser
  BY <1>1, <1>3, <1>4, <1>5
<1> DEFINE k == [a EXCEPT !.lock = free]
<1>7. k.lock = free /\ k.activeTurns = a.activeTurns /\ k.identity = a.identity
  BY <1>5 DEF ServedGit, Git
<1>8. free \in Lock(TurnId)
  BY <1>3, <1>1, ReleaseIfHeldByType DEF free, ServedGit, ServedLock
<1> HIDE DEF k
<1>9. /\ Owned(k, {}, M) /\ Waiters(free) \subseteq Waiters(git.lock)
      /\ Awaits(free, Acquiring \ {t})
      /\ \/ free.holder = NoChannel
         \/ \E w \in Waiters(git.lock) : free.holder = w.channel
  <2> DEFINE lock == Resumed.lock
  <2>1. /\ lock \in Lock(TurnId) /\ Awaits(lock, Acquiring \ {t})
        /\ Waiters(lock) = Waiters(git.lock) /\ Granted(lock) = {}
        /\ k.lock = GrantNext([lock EXCEPT !.holder = NoChannel])
        /\ k.activeTurns = {} /\ \A d \in Channel : k.identity[d] = NoUser
        /\ \A w \in Waiters(lock) : w.turn \in M
    BY <1>1, <1>4, <1>6, <1>7
  <2> HIDE DEF lock
  <2>2. /\ Owned(k, {}, M) /\ Waiters(k.lock) \subseteq Waiters(lock)
        /\ Awaits(k.lock, Acquiring \ {t})
        /\ \/ k.lock.holder = NoChannel
           \/ \E w \in Waiters(lock) : k.lock.holder = w.channel
    BY <2>1, PassedOn
  <2> QED
    BY <1>7, <2>1, <2>2
<1>10. free.holder # c
  BY <1>1, <1>9, NoChannelAssumption
<1>11. CancelWaiter(free, c) = free
  BY <1>1, <1>8, <1>9, CancelAwaits
<1>12. ReleaseIfHeldBy(a.lock, c) = free
  BY <1>4, <1>10, <1>11 DEF ReleaseIfHeldBy
<1>13. h = [a EXCEPT !.lock = free]
  BY <1>12 DEF a
<1> QED
  BY <1>9, <1>13 DEF k, M

\* A turn that was sent away does not have the lock.
LEMMA RejectedOwned ==
    ASSUME Base, OneByOne, NEW W, W = Writers(turns, sessions), NEW L, Owned(git, W, L),
           NEW t, Resumes(t), ~Head(git.lock.settled).granted,
           NEW h, h = [Resumed EXCEPT !.lock = ReleaseIfHeldBy(@, ChannelOf(t))]
    PROVE  Owned(h, W, L)
<1> DEFINE c == ChannelOf(t)
<1>1. /\ t \in TurnId /\ turns[t].phase = "acquiring"
      /\ Resumed \in ServedGit(TurnId)
      /\ Waiters(Resumed.lock) = Waiters(git.lock)
      /\ Resumed.lock.holder = git.lock.holder
      /\ Granted(Resumed.lock) = Granted(git.lock)
      /\ t \notin Granted(git.lock)
      /\ Resumed.activeTurns = git.activeTurns /\ Resumed.identity = git.identity
  BY ResumedFacts
<1>2. \A u \in W \cup Granted(git.lock) : u \in TurnId /\ u # t /\ turns[u].phase # "done"
  <2>1. \A u \in W : u \in TurnId /\ turns[u].phase = "prompting"
    BY DEF Writers, Living
  <2>2. \A u \in Granted(git.lock) : u \in Acquiring
    BY DEF Base, Waiting, Awaits, Granted, Woken
  <2> QED
    BY <1>1, <2>1, <2>2 DEF Acquiring
<1>3. \A u \in W \cup Granted(git.lock) : ChannelOf(u) # c
  BY <1>1, <1>2 DEF OneByOne, OneFrame
<1>4. git.lock.holder # c
  <2>1. c # NoChannel
    BY <1>1, ChannelOfType, NoChannelAssumption DEF Base, TypeInv
  <2> QED
    BY <1>3, <2>1 DEF Owned
<1>5. ReleaseIfHeldBy(Resumed.lock, c) = Resumed.lock
  BY <1>1, <1>4 DEF ReleaseIfHeldBy
<1>6. h.lock = Resumed.lock /\ h.activeTurns = Resumed.activeTurns /\ h.identity = Resumed.identity
  BY <1>1, <1>5 DEF ServedGit, Git
<1> QED
  BY <1>1, <1>6, SameOwners DEF Owned

\* The writers W and the living turns L are still that after a step that starts
\* no turn.
LEMMA OwnsPassed ==
    ASSUME Base, Evolves, Len(turns') = Len(turns),
           NEW W \in SUBSET TurnId, NEW L \in SUBSET TurnId, Owned(git', W, L),
           \A t \in L : sessions'[ChannelOf(t)] = turns[t].session,
           \A t \in TurnId : t \in W <=> /\ turns'[t].phase = "prompting"
                                         /\ sessions'[ChannelOf(t)] = turns[t].session
    PROVE  Owns'
<1> DEFINE ch(t) == obj'[turns'[t].session].channelId
           LL == {t \in TurnId' : sessions'[ch(t)] = turns'[t].session}
           WW == {t \in LL : turns'[t].phase = "prompting"}
<1>1. \A t \in TurnId : /\ ch(t) = ChannelOf(t) /\ turns'[t].session = turns[t].session
                        /\ turns'[t].user = turns[t].user
  <2>1. \A t \in TurnId : ChannelOf(t)' = ChannelOf(t)
    BY ChannelsKept DEF Base
  <2> QED
    BY <2>1 DEF ChannelOf, Evolves
<1>2. TurnId' = TurnId
  BY DEF TurnId
<1>3. Owns' <=>
        /\ \A t \in WW \cup Granted(git'.lock) : t \in LL /\ git'.lock.holder = ch(t)
        /\ git'.lock.holder # NoChannel => WW \cup Granted(git'.lock) # {}
        /\ \A w \in Waiters(git'.lock) : w.turn \in LL
        /\ \A c \in Channel :
             /\ c \in git'.activeTurns <=> \E t \in WW : ch(t) = c
             /\ c \notin git'.activeTurns => git'.identity[c] = NoUser
        /\ \A t \in WW : git'.identity[ch(t)] = turns'[t].user
  BY DEF Owns, Owned, Writers, Living, ChannelOf, Granted, Answers, Waiters
<1>4. WW = W /\ L \subseteq LL
  <2> HIDE DEF ch
  <2> QED
    BY <1>1, <1>2
<1> HIDE DEF ch, WW, LL
<1> QED
  BY <1>1, <1>3, <1>4 DEF Owned

\* What acquire() does to the owner and to the granted, as a fact to cite.
LEMMA AcquireGives ==
    ASSUME NEW S, NEW T, NEW lock \in Lock(S), Awaits(lock, T),
           NEW t, t \notin T, NEW c \in Channel,
           NEW new, new = Acquire(lock, t, c), NEW e, e = [turn |-> t, channel |-> c]
    PROVE  /\ Waiters(new) \subseteq Waiters(lock) \cup {e}
           /\ lock.holder = NoChannel =>
                /\ new.holder = c
                /\ Waiters(new) = Waiters(lock)
                /\ Granted(new) = Granted(lock) \cup {t}
           /\ lock.holder # NoChannel =>
                /\ new.holder = lock.holder
                /\ Granted(new) = Granted(lock)
<1>1. Waiters(new) \subseteq Waiters(lock) \cup {e}
  <2>1. Waiters(Acquire(lock, t, c)) \subseteq
          Waiters(lock) \cup {[turn |-> t, channel |-> c]}
    BY AcquireAwaits
  <2> QED
    BY <2>1
<1>2. CASE lock.holder = NoChannel
  <2> DEFINE a == [turn |-> t, granted |-> TRUE]
  <2>1. /\ new.holder = c /\ new.queue = lock.queue
        /\ new.settled = Append(lock.settled, a)
        /\ lock.settled \in Seq(Settlement(S)) /\ a.turn = t /\ a.granted
    BY <1>2 DEF Acquire, Grant, Lock
  <2> HIDE DEF a
  <2>2. /\ Len(new.settled) = Len(lock.settled) + 1 /\ Len(lock.settled) \in Nat
        /\ \A j \in 1 .. Len(lock.settled) : new.settled[j] = lock.settled[j]
        /\ new.settled[Len(lock.settled) + 1] = a
    BY <2>1
  <2>3. Answers(new) = Answers(lock) \cup {a}
    BY SMTT(20), <2>2 DEF Answers
  <2>4. Granted(new) = Granted(lock) \cup {t}
    BY ZenonT(40), <2>1, <2>3, AnswersGranted
  <2> QED
    BY <1>1, <1>2, <2>1, <2>4 DEF Waiters
<1>3. CASE lock.holder # NoChannel
  <2>1. new.holder = lock.holder /\ new.settled = lock.settled
    BY <1>3 DEF Acquire, Lock
  <2> QED
    BY <1>1, <1>3, <2>1 DEF Granted, Answers
<1> QED
  BY ONLY <1>2, <1>3

\* L are turns of sessions in the map, and W those that write if the turns are ts.
Fits(ts, W, L) ==
    /\ W \in SUBSET TurnId /\ L \in SUBSET TurnId
    /\ \A t \in L : sessions[ChannelOf(t)] = turns[t].session
    /\ \A t \in TurnId : t \in W <=> /\ ts[t].phase = "prompting"
                                     /\ sessions[ChannelOf(t)] = turns[t].session

\* So are they after one that starts a turn of session s, which gets the lock or
\* waits for it.
LEMMA OwnsStarted ==
    ASSUME Base, Evolves, NEW s \in SessionId, InMap(s),
           NEW m, NEW q, NEW ts, NEW g \in ServedGit(TurnId),
           StartFacts(s, m, q, ts, g), Len(ts) = Len(turns),
           NEW T \in SUBSET TurnId, Awaits(g.lock, T),
           NEW W, NEW L, Owned(g, W, L), Fits(ts, W, L)
    PROVE  Owns'
<1>a. /\ W \in SUBSET TurnId /\ L \in SUBSET TurnId
      /\ \A t \in L : sessions[ChannelOf(t)] = turns[t].session
      /\ \A t \in TurnId : t \in W <=> /\ ts[t].phase = "prompting"
                                       /\ sessions[ChannelOf(t)] = turns[t].session
  BY DEF Fits
<1> USE <1>a
<1> DEFINE n == Len(turns) + 1
           c == obj[s].channelId
           lock == g.lock
           ch(t) == obj'[turns'[t].session].channelId
           LL == {t \in TurnId' : sessions'[ch(t)] = turns'[t].session}
           WW == {t \in LL : turns'[t].phase = "prompting"}
<1>0. CoreType /\ Len(turns) \in Nat
  BY DEF Base, TypeInv, CoreType
<1>1. \A t \in TurnId : /\ ch(t) = ChannelOf(t) /\ turns'[t].session = turns[t].session
                        /\ turns'[t].user = turns[t].user /\ turns'[t] = ts[t]
  <2>1. \A t \in TurnId : ChannelOf(t)' = ChannelOf(t)
    BY ChannelsKept DEF Base
  <2>2. \A t \in TurnId : turns'[t] = ts[t]
    BY DEF StartFacts, TurnId
  <2> QED
    BY <2>1, <2>2 DEF ChannelOf, Evolves
<1>2. /\ TurnId' = TurnId \cup {n} /\ n \notin TurnId
      /\ turns'[n].session = s /\ turns'[n].phase = "acquiring"
      /\ ch(n) = c /\ sessions' = sessions /\ sessions[c] = s /\ c \in Channel
  <2>1. turns'[n] = [session |-> s, phase |-> "acquiring", user |-> m.user]
        /\ Len(turns') = n /\ obj'[s].channelId = c /\ sessions' = sessions
    BY DEF StartFacts, SameBody
  <2>2. turns'[n].session = s /\ turns'[n].phase = "acquiring"
    BY <2>1
  <2> QED
    BY <1>0, <2>1, <2>2, ObjectType DEF InMap, TurnId
<1>3. Owns' <=>
        /\ \A t \in WW \cup Granted(git'.lock) : t \in LL /\ git'.lock.holder = ch(t)
        /\ git'.lock.holder # NoChannel => WW \cup Granted(git'.lock) # {}
        /\ \A w \in Waiters(git'.lock) : w.turn \in LL
        /\ \A d \in Channel :
             /\ d \in git'.activeTurns <=> \E t \in WW : ch(t) = d
             /\ d \notin git'.activeTurns => git'.identity[d] = NoUser
        /\ \A t \in WW : git'.identity[ch(t)] = turns'[t].user
  BY DEF Owns, Owned, Writers, Living, ChannelOf, Granted, Answers, Waiters
<1>4. /\ git'.lock = Acquire(lock, n, c)
      /\ git'.activeTurns = g.activeTurns /\ git'.identity = g.identity
  BY DEF StartFacts, ServedGit, Git
<1>5. WW = W /\ L \cup {n} \subseteq LL
  <2> HIDE DEF ch, n, c
  <2> QED
    BY <1>1, <1>2
<1>6. /\ Waiters(git'.lock) \subseteq Waiters(lock) \cup {[turn |-> n, channel |-> c]}
      /\ lock.holder = NoChannel =>
           /\ git'.lock.holder = c /\ Waiters(git'.lock) = Waiters(lock)
           /\ Granted(git'.lock) = Granted(lock) \cup {n}
      /\ lock.holder # NoChannel =>
           git'.lock.holder = lock.holder /\ Granted(git'.lock) = Granted(lock)
  <2>1. /\ lock \in Lock(TurnId) /\ n \notin T /\ c \in Channel
        /\ Awaits(lock, T) /\ git'.lock = Acquire(lock, n, c)
    BY <1>2, <1>4 DEF ServedGit, ServedLock
  <2> DEFINE e == [turn |-> n, channel |-> c]
             new == Acquire(lock, n, c)
  <2> HIDE DEF lock, n, c, LL, WW, ch
  <2>4. new = Acquire(lock, n, c) /\ e = [turn |-> n, channel |-> c]
    OBVIOUS
  <2> HIDE DEF e, new
  <2>2. /\ Waiters(new) \subseteq Waiters(lock) \cup {e}
        /\ lock.holder = NoChannel =>
             /\ new.holder = c /\ Waiters(new) = Waiters(lock)
             /\ Granted(new) = Granted(lock) \cup {n}
        /\ lock.holder # NoChannel =>
             new.holder = lock.holder /\ Granted(new) = Granted(lock)
    BY ONLY <2>1, <2>4, AcquireGives
  <2>3. git'.lock = new
    BY <2>1, <2>4
  <2> QED
    BY <2>2, <2>3 DEF e
<1>7. [turn |-> n, channel |-> c].turn = n
  OBVIOUS
<1>8. \A t \in L : ch(t) = ChannelOf(t) /\ ChannelOf(t) # NoChannel
                   /\ turns'[t].user = turns[t].user
  BY <1>0, <1>1, ChannelOfType, NoChannelAssumption
<1> HIDE DEF ch, WW, LL, n, c
<1>9. CASE lock.holder = NoChannel
  <2>1. W = {} /\ Granted(lock) = {}
    BY <1>8, <1>9 DEF Owned
  <2>2. Granted(git'.lock) = {n} /\ git'.lock.holder = c /\ Waiters(git'.lock) = Waiters(lock)
    BY <1>6, <1>9, <2>1
  <2> QED
    BY <1>2, <1>3, <1>4, <1>5, <2>1, <2>2 DEF Owned
<1>10. CASE lock.holder # NoChannel
  <2>1. /\ Granted(git'.lock) = Granted(lock) /\ git'.lock.holder = lock.holder
        /\ \A w \in Waiters(git'.lock) : w.turn = n \/ w \in Waiters(lock)
    BY <1>6, <1>7, <1>10
  <2> HIDE DEF lock
  <2> QED
    BY <1>3, <1>4, <1>5, <1>8, <2>1 DEF Owned, lock
<1> QED
  BY <1>9, <1>10
\* Nobody was granted the lock when no continuation of acquire() is due.
LEMMA NoneGranted ==
    ASSUME git.lock.settled = <<>>
    PROVE  Granted(git.lock) = {}
  BY DEF Granted, Answers

\* A channel without a frame was not granted the lock, and does not wait for it.
LEMMA FramelessChannel ==
    ASSUME Base, NEW c, \A t \in TurnId : ChannelOf(t) = c => turns[t].phase = "done"
    PROVE  /\ \A t \in Granted(git.lock) : ChannelOf(t) # c
           /\ \A w \in Waiters(git.lock) : w.channel # c
<1>1. \A t \in Granted(git.lock) : t \in TurnId /\ turns[t].phase # "done"
  BY DEF Base, Waiting, Awaits, Granted, Woken, Acquiring
<1> QED
  BY <1>1, WaitersAcquire

\* The owners fit after a step that gives channel c's session up, with or
\* without its turn.
LEMMA OwnsWithout ==
    ASSUME Base, Evolves, Len(turns') = Len(turns), NEW c \in Channel,
           NEW W, W = Writers(turns, sessions), NEW L, L = Living(sessions),
           Owned(git', Besides(c, W), Besides(c, L)),
           \A d \in Channel : sessions'[d] = IF d = c THEN 0 ELSE sessions[d],
           \A t \in TurnId : ChannelOf(t) # c =>
               (turns'[t].phase = "prompting" <=> turns[t].phase = "prompting")
    PROVE  Owns'
<1> DEFINE B == Besides(c, W)
           M == Besides(c, L)
<1>1. \A t \in TurnId : turns[t].session # 0 /\ ChannelOf(t) \in Channel
  BY ChannelOfType DEF Base, TypeInv, CoreType, SessionId
<1>2. B \in SUBSET TurnId /\ M \in SUBSET TurnId
  BY DEF Besides, Writers, Living
<1>3. \A t \in M : sessions'[ChannelOf(t)] = turns[t].session
  BY <1>1 DEF Besides, Living
<1>4. \A t \in TurnId : t \in B <=> /\ turns'[t].phase = "prompting"
                                    /\ sessions'[ChannelOf(t)] = turns[t].session
  BY <1>1 DEF Besides, Living, Writers
<1> HIDE DEF B, M
<1> QED
  BY <1>2, <1>3, <1>4, OwnsPassed DEF B, M

\* They fit after a step that leaves the sessions, the turns and, but for
\* channel c's place in the queue, the lock alone.
LEMMA OwnsHalted ==
    ASSUME Base, OneByOne, Owns, Evolves, UNCHANGED <<sessions, turns>>,
           NEW c \in Channel, git' = git \/ git' = StopWaiting(git, c)
    PROVE  Owns'
<1> DEFINE W == Writers(turns, sessions)
           L == Living(sessions)
<1>1. W \in SUBSET TurnId /\ L \in SUBSET TurnId /\ Owned(git, W, L)
  BY DEF Writers, Living, Owns
<1>2. /\ \A t \in L : sessions'[ChannelOf(t)] = turns[t].session
      /\ \A t \in TurnId : t \in W <=> /\ turns'[t].phase = "prompting"
                                       /\ sessions'[ChannelOf(t)] = turns[t].session
  BY DEF Writers, Living
<1>3. git \in ServedGit(TurnId) /\ Awaits(git.lock, Acquiring)
  BY DEF Base, TypeInv, CoreType, Waiting
<1>4. \A t \in W : turns[t].phase = "prompting" /\ t \in TurnId
  BY DEF Writers, Living
<1> HIDE DEF W, L
<1>5. ASSUME git' # git
      PROVE  Owned(git', W, L)
  <2>1. /\ git'.lock = CancelWaiter(git.lock, c)
        /\ git'.activeTurns = git.activeTurns /\ git'.identity = git.identity
    BY <1>3, <1>5 DEF StopWaiting, ServedGit, Git
  <2>2. CASE git.lock.holder # c
    <3>1. Owned(git', W, Besides(c, L))
      BY <1>1, <1>3, <2>1, <2>2, CancelOwned
    <3> QED
      BY <3>1 DEF Owned, Besides
  <2>3. CASE git.lock.holder = c
    <3>1. PICK t \in W \cup Granted(git.lock) : ChannelOf(t) = c
      BY <1>1, <2>3, NoChannelAssumption DEF Owned
    <3>2. t \in TurnId /\ (turns[t].phase = "prompting" \/ t \in Granted(git.lock))
      BY <1>4, <3>1 DEF Base, Waiting, Awaits, Granted, Woken, Acquiring
    <3>3. \A w \in Waiters(git.lock) : w.channel # c
      BY <3>1, <3>2, NobodyBehind
    <3>4. git.lock \in Lock(TurnId)
      BY <1>3 DEF ServedGit, ServedLock
    <3>5. CancelWaiter(git.lock, c) = git.lock
      BY <1>3, <3>3, <3>4, CancelAwaits
    <3> QED
      BY <1>1, <2>1, <3>5 DEF Owned
  <2> QED
    BY <2>2, <2>3
<1>6. Owned(git', W, L)
  BY <1>1, <1>5
<1> QED
  BY <1>1, <1>2, <1>6, OwnsPassed
\* They fit after a session that was not granted the lock has been given up.
LEMMA OwnsAborted ==
    ASSUME Base, OneByOne, Owns, Evolves, UNCHANGED turns, NEW c \in Channel,
           \A t \in Granted(git.lock) : ChannelOf(t) # c,
           \A d \in Channel : sessions'[d] = IF d = c THEN 0 ELSE sessions[d],
           git' = AbortTurn(git, c) \/ (git' = Abort(git, c) /\ ~Parked(c))
    PROVE  Owns'
<1> DEFINE W == Writers(turns, sessions)
           L == Living(sessions)
<1>1. W = Writers(turns, sessions) /\ L = Living(sessions) /\ Owned(git, W, L)
  BY DEF Owns
<1> HIDE DEF W, L
<1>2. Owned(git', Besides(c, W), Besides(c, L))
  BY <1>1, AbortOwned
<1> QED
  BY <1>1, <1>2, OwnsWithout

\* ... by a callback, or by a loop of a single round.
LEMMA DropsOwns ==
    ASSUME Base, OneByOne, Owns, Evolves, Races = {},
           git.lock.settled = <<>>, NEW c \in Channel, NEW process, Drops(c, process)
    PROVE  Owns'
<1>1. /\ UNCHANGED turns
      /\ git' = AbortTurn(git, c) \/ (git' = Abort(git, c) /\ ~Parked(c))
      /\ EndFacts(c, obj, process)
  BY DEF Drops
<1>2. \A d \in Channel : sessions'[d] = IF d = c THEN 0 ELSE sessions[d]
  BY <1>1 DEF EndFacts
<1>3. \A t \in Granted(git.lock) : ChannelOf(t) # c
  BY NoneGranted
<1> QED
  BY <1>1, <1>2, <1>3, OwnsAborted

\* ... and after prompt() has gone on.
LEMMA AsksOwns ==
    ASSUME Base, OneByOne, Owns, Evolves, Joined,
           NEW s \in SessionId, NEW m \in Message, Asks(s, m)
    PROVE  Owns'
<1> DEFINE c == obj[s].channelId
<1>1. CoreType /\ c \in Channel /\ InMap(s) /\ sessions[c] = s /\ Len(turns) \in Nat
  <2>1. CoreType /\ c \in Channel /\ Len(turns) \in Nat
    BY ObjectType DEF Base, TypeInv, CoreType
  <2>2. CASE InMap(s)
    BY <2>1, <2>2 DEF InMap
  <2>3. CASE callers # <<>> /\ s = Head(callers).session
    <3>1. callers \in Seq(Caller)
      BY DEF Base, TypeInv, RestType
    <3>2. 1 \in DOMAIN callers /\ Head(callers) = callers[1]
      BY <2>3, <3>1
    <3> QED
      BY <2>1, <2>3, <3>2 DEF Joined, CallersInMap, InMap
  <2> QED
    BY <2>2, <2>3 DEF Asks
<1>2. ASSUME obj[s].currentTurnId = 0, UNCHANGED turns,
             EndFacts(c, obj, "terminating"), git' = AbortTurn(git, c)
      PROVE  Owns'
  <2>1. \A t \in TurnId : ChannelOf(t) = c => turns[t].phase = "done"
    <3> SUFFICES ASSUME NEW t \in TurnId, ChannelOf(t) = c, turns[t].phase # "done"
                 PROVE  FALSE
      OBVIOUS
    <3>1. obj[turns[t].session].currentTurnId = t /\ t # 0
      BY DEF Base, Frames, TurnId
    <3>2. s = turns[t].session
      BY <1>1 DEF OneByOne, OnTheirSession, SessionId
    <3> QED
      BY <1>2, <3>1, <3>2
  <2>2. \A t \in Granted(git.lock) : ChannelOf(t) # c
    BY <2>1, FramelessChannel
  <2>3. \A d \in Channel : sessions'[d] = IF d = c THEN 0 ELSE sessions[d]
    BY <1>2 DEF EndFacts
  <2> HIDE DEF c
  <2>4. UNCHANGED turns /\ (git' = AbortTurn(git, c) \/ (git' = Abort(git, c) /\ ~Parked(c)))
    BY <1>2
  <2> QED
    BY <1>1, <2>2, <2>3, <2>4, OwnsAborted
<1>3. ASSUME NEW q, TouchFacts(s, q)
      PROVE  Owns'
  <2>1. /\ UNCHANGED <<sessions, turns>>
        /\ git' = IF Asked(s) THEN StopWaiting(git, c) ELSE git
    BY <1>3 DEF TouchFacts
  <2> HIDE DEF c
  <2> QED
    BY <1>1, <2>1, OwnsHalted
<1>4. ASSUME StartFacts(s, m, obj[s].queue, turns, git)
      PROVE  Owns'
  <2> DEFINE W == Writers(turns, sessions)
             L == Living(sessions)
  <2>1. W \in SUBSET TurnId /\ L \in SUBSET TurnId /\ Owned(git, W, L)
    BY DEF Writers, Living, Owns
  <2>2. /\ \A t \in L : sessions[ChannelOf(t)] = turns[t].session
        /\ \A t \in TurnId : t \in W <=> /\ turns[t].phase = "prompting"
                                         /\ sessions[ChannelOf(t)] = turns[t].session
    BY DEF Writers, Living
  <2>3. git \in ServedGit(TurnId) /\ Awaits(git.lock, Acquiring) /\ Acquiring \in SUBSET TurnId
    BY DEF Base, TypeInv, CoreType, Waiting, Acquiring
  <2> DEFINE q == obj[s].queue
             T == Acquiring
  <2>4. StartFacts(s, m, q, turns, git) /\ T \in SUBSET TurnId /\ Awaits(git.lock, T)
    BY <1>4, <2>3
  <2> HIDE DEF W, L, q, T
  <2>5. Fits(turns, W, L)
    BY <2>1, <2>2 DEF Fits
  <2> HIDE DEF c
  <2> QED
    BY <1>1, <2>1, <2>3, <2>4, <2>5, OwnsStarted
<1> QED
  BY <1>2, <1>3, <1>4 DEF Asks, PromptFacts

\* ... and when a session enters the map.
LEMMA InstallsOwns ==
    ASSUME Base, Owns, Evolves, NoSessionYet,
           NEW c \in Channel, NEW memory, Installs(c, memory)
    PROVE  Owns'
<1> DEFINE W == Writers(turns, sessions)
           L == Living(sessions)
<1>1. W \in SUBSET TurnId /\ L \in SUBSET TurnId /\ Owned(git, W, L)
  BY DEF Writers, Living, Owns
<1>2. /\ UNCHANGED <<git, turns>> /\ sessions[c] = 0
      /\ \A d \in Channel : sessions'[d] = IF d = c THEN Len(obj) + 1 ELSE sessions[d]
  BY DEF Installs, InstallFacts, NoSessionYet
<1>3. \A t \in TurnId : turns[t].session \in SessionId /\ ChannelOf(t) \in Channel
  BY ChannelOfType DEF Base, TypeInv
<1>4. Len(obj) \in Nat
  BY DEF Base, TypeInv, CoreType
<1>5. \A t \in TurnId : turns[t].session # 0 /\ turns[t].session # Len(obj) + 1
  BY <1>3, <1>4 DEF SessionId
<1>6. \A t \in TurnId : sessions'[ChannelOf(t)] = turns[t].session
                          <=> sessions[ChannelOf(t)] = turns[t].session
  BY <1>2, <1>3, <1>5
<1>7. /\ \A t \in L : sessions'[ChannelOf(t)] = turns[t].session
      /\ \A t \in TurnId : t \in W <=> /\ turns'[t].phase = "prompting"
                                       /\ sessions'[ChannelOf(t)] = turns[t].session
  BY <1>2, <1>6 DEF Writers, Living
<1> HIDE DEF W, L
<1> QED
  BY <1>1, <1>2, <1>7, OwnsPassed
\* They fit after a step that leaves the lock, the sessions and the turns alone.
LEMMA OwnsLeft ==
    ASSUME Base, Owns, Evolves, UNCHANGED <<git, sessions, turns>>
    PROVE  Owns'
<1> DEFINE W == Writers(turns, sessions)
           L == Living(sessions)
<1>1. /\ W \in SUBSET TurnId /\ L \in SUBSET TurnId /\ Owned(git, W, L)
      /\ \A t \in L : sessions[ChannelOf(t)] = turns[t].session
      /\ \A t \in TurnId : t \in W <=> /\ turns[t].phase = "prompting"
                                       /\ sessions[ChannelOf(t)] = turns[t].session
  BY DEF Writers, Living, Owns
<1> HIDE DEF W, L
<1> QED
  BY <1>1, OwnsPassed

\* ... after a turn has begun to write.
LEMMA BeginsOwns ==
    ASSUME Base, OneByOne, Owns, Evolves, NEW t \in TurnId, Begins(t)
    PROVE  Owns'
<1> DEFINE W == Writers(turns, sessions)
           L == Living(sessions)
           c == ChannelOf(t)
<1>1. W = Writers(turns, sessions) /\ L \in SUBSET TurnId /\ Owned(git, W, L)
  BY DEF Living, Owns
<1>2. /\ \A u \in L : sessions[ChannelOf(u)] = turns[u].session
      /\ \A u \in TurnId : sessions[ChannelOf(u)] = turns[u].session => u \in L
      /\ \A u \in L : turns[u].phase = "prompting" => u \in W
  BY DEF Writers, Living
<1>3. Resumes(t) /\ Head(git.lock.settled).granted /\ UNCHANGED sessions
      /\ Len(turns') = Len(turns)
      /\ git' = Begin(Resumed, c, obj[turns[t].session].activeUserId)
      /\ \A u \in TurnId : turns'[u].phase = IF u = t THEN "prompting" ELSE turns[u].phase
  BY DEF Begins
<1> HIDE DEF W, L, c
<1>4. t \in L /\ W = {}
  BY <1>1, <1>3, ResumedAlone
<1>5. obj[turns[t].session].activeUserId = turns[t].user
  BY <1>3, ResumedFacts DEF Base, Frames
<1>6. Owned(git', {t}, L)
  BY <1>1, <1>3, <1>5, BeginOwned DEF c
<1>7. \A u \in TurnId : u \in {t} <=> /\ turns'[u].phase = "prompting"
                                      /\ sessions'[ChannelOf(u)] = turns[u].session
  BY <1>2, <1>3, <1>4
<1> QED
  BY <1>1, <1>2, <1>3, <1>6, <1>7, OwnsPassed

\* The owners when a turn has ended without an error.
LEMMA SettledOwned ==
    ASSUME Base, OneByOne, NEW W, W = Writers(turns, sessions), NEW L, Owned(git, W, L),
           NEW t \in TurnId, NEW g \in ServedGit(TurnId), Settles(t, g)
    PROVE  Owned(g, W \ {t}, L)
<1> DEFINE c == ChannelOf(t)
           u == obj[turns[t].session].activeUserId
<1>1. u \in User
  <2>1. obj[turns[t].session] \in ManagedSession
    BY ChannelOfType, ObjectType DEF Base, TypeInv
  <2> QED
    BY <2>1 DEF ManagedSession
<1>2. CASE /\ turns[t].phase = "prompting" /\ git.lock.settled = <<>>
           /\ g = End(git, c)
  BY <1>2, EndOwned
<1> HIDE DEF u
<1>3. CASE /\ Resumes(t) /\ Head(git.lock.settled).granted
           /\ g = End(Begin(Resumed, c, u), c)
  <2>1. W = {}
    BY <1>3, ResumedAlone
  <2>2. Owned(g, {}, L)
    BY <1>1, <1>3, BegunOwned
  <2>3. W \ {t} = {}
    BY <2>1
  <2> QED
    BY <2>2, <2>3
<1>4. CASE /\ Resumes(t) /\ ~Head(git.lock.settled).granted
           /\ g = [Resumed EXCEPT !.lock = ReleaseIfHeldBy(@, c)]
  <2>1. W \ {t} = W
    BY <1>4, ResumedFacts DEF Writers
  <2>2. Owned(g, W, L)
    BY <1>4, RejectedOwned
  <2> QED
    BY <2>1, <2>2
<1> QED
  BY <1>2, <1>3, <1>4 DEF Settles, AtRest, MicrotasksDue, u

\* The owners when a turn has ended with an error.
LEMMA FailedOwned ==
    ASSUME Base, OneByOne, NEW W, W = Writers(turns, sessions),
           NEW L, L = Living(sessions), Owned(git, W, L),
           NEW t \in TurnId, NEW g \in ServedGit(TurnId), Fails(t, g)
    PROVE  Owned(g, Besides(ChannelOf(t), W), Besides(ChannelOf(t), L))
<1> DEFINE c == ChannelOf(t)
           B == Besides(c, W)
           M == Besides(c, L)
<1>1. CoreType /\ git \in ServedGit(TurnId) /\ c \in Channel
      /\ \A u \in TurnId : turns[u].session # 0
  BY ChannelOfType DEF Base, TypeInv, CoreType, SessionId
<1>2. CASE /\ git.lock.settled = <<>> /\ g = End(AfterCatch(git, c), c)
  <2>1. CASE sessions[c] = 0
    <3>1. \A u \in L : ChannelOf(u) # c
      BY <1>1, <2>1 DEF Living
    <3>2. B = W /\ M = L
      BY <3>1 DEF Besides, Writers, Living
    <3>3. c \notin git.activeTurns
      BY <1>1, <3>1 DEF Owned, Writers
    <3>4. g = git
      BY <1>2, <2>1, <3>3 DEF AfterCatch, End
    <3> QED
      BY <3>2, <3>4
  <2>2. CASE sessions[c] # 0
    <3> HIDE DEF c, B, M
    <3>1. Owned(AbortTurn(git, c), B, M) /\ c \notin AbortTurn(git, c).activeTurns
      BY <1>1, <1>2, NoneGranted, AbortOwned DEF B, M
    <3>2. g = AbortTurn(git, c)
      BY <1>2, <2>2, <3>1 DEF AfterCatch, End
    <3> QED
      BY <3>1, <3>2 DEF B, M, c
  <2> QED
    BY <2>1, <2>2
<1>3. ASSUME Resumes(t), Head(git.lock.settled).granted,
             NEW thrown \in BeginThrows(Resumed, c),
             g = [AfterCatch(thrown, c) EXCEPT !.lock = ReleaseIfHeldBy(@, c)]
      PROVE  Owned(g, B, M)
  <2>1. t \in L /\ W = {}
    BY <1>3, ResumedAlone
  <2>2. sessions[c] # 0 /\ B = {}
    BY <1>1, <2>1 DEF Living, Besides
  <2>3. g = [AbortTurn(thrown, c) EXCEPT !.lock = ReleaseIfHeldBy(@, c)]
    BY <1>3, <2>2 DEF AfterCatch
  <2>4. Owned(g, {}, Besides(c, L))
    BY <1>3, <2>3, ThrownOwned
  <2> QED
    BY <2>2, <2>4
<1> QED
  BY <1>2, <1>3 DEF Fails, AtRest, MicrotasksDue
\* They fit after a turn that has ended without an error, whether its session
\* is left at rest or starts the next turn.
LEMMA SettlesOwns ==
    ASSUME Base, OneByOne, Owns, Evolves,
           NEW t \in TurnId, NEW g \in ServedGit(TurnId), Settles(t, g)
    PROVE  Owns'
<1> DEFINE W == Writers(turns, sessions)
           L == Living(sessions)
           s == turns[t].session
           B == W \ {t}
<1>1. W = Writers(turns, sessions) /\ L \in SUBSET TurnId /\ Owned(git, W, L)
      /\ B \in SUBSET TurnId
  BY DEF Writers, Living, Owns
<1>2. /\ \A u \in L : sessions[ChannelOf(u)] = turns[u].session
      /\ \A u \in TurnId : u \in B <=> /\ u # t /\ turns[u].phase = "prompting"
                                       /\ sessions[ChannelOf(u)] = turns[u].session
  BY DEF Writers, Living
<1>3. CoreType /\ s \in SessionId /\ Len(turns) \in Nat /\ ChannelOf(t) = obj[s].channelId
  BY ChannelOfType DEF Base, TypeInv, CoreType, ChannelOf
<1> HIDE DEF W, L, B
<1>4. Owned(g, B, L)
  BY <1>1, SettledOwned DEF B
<1>5. CASE RestFacts(t, g)
  <2>1. /\ git' = g /\ UNCHANGED sessions /\ Len(turns') = Len(turns)
        /\ \A u \in TurnId : turns'[u].phase = IF u = t THEN "done" ELSE turns[u].phase
    BY <1>5 DEF RestFacts, ReturnFacts, Settles, SettleFacts
  <2>2. \A u \in TurnId : u \in B <=> /\ turns'[u].phase = "prompting"
                                      /\ sessions'[ChannelOf(u)] = turns[u].session
    BY <1>2, <2>1
  <2> QED
    BY <1>1, <1>2, <1>4, <2>1, <2>2, OwnsPassed
<1>6. CASE /\ sessions[ChannelOf(t)] # 0 /\ obj[s].queue # <<>>
           /\ StartFacts(s, Head(obj[s].queue), Tail(obj[s].queue),
                         [turns EXCEPT ![t].phase = "done"], g)
  <2> DEFINE ts == [turns EXCEPT ![t].phase = "done"]
             T == {u \in TurnId : ts[u].phase = "acquiring"}
             m == Head(obj[s].queue)
             q == Tail(obj[s].queue)
  <2>0. CoreType
    BY <1>3
  <2>1. /\ Len(ts) = Len(turns)
        /\ \A u \in TurnId : /\ ts[u].session = turns[u].session
                             /\ ts[u].user = turns[u].user
                             /\ ts[u].phase = IF u = t THEN "done" ELSE turns[u].phase
    BY <2>0, DoneFacts
  <2>2. StartFacts(s, m, q, ts, g)
    BY <1>6
  <2> HIDE DEF ts, m, q
  <2>3. turns[t].phase # "done" /\ Awaits(g.lock, T) /\ T \in SUBSET TurnId
    <3>1. \A u \in TurnId : ts[u].phase = IF u = t THEN "done" ELSE turns[u].phase
      BY <2>1
    <3>2. turns[t].phase # "done" /\ Left(g, ts)
      BY <3>1, ReturnLeft
    <3> QED
      BY <3>2 DEF Left
  <2>4. Fits(ts, B, L)
    BY <1>1, <1>2, <2>1 DEF Fits
  <2>5. InMap(s)
    BY <1>3, <1>6, <2>3 DEF OneByOne, OnTheirSession, InMap
  <2> HIDE DEF s, T
  <2> QED
    BY <1>3, <1>4, <2>1, <2>2, <2>3, <2>4, <2>5, OwnsStarted
<1> QED
  BY <1>5, <1>6 DEF Settles, SettleFacts

\* They fit after a turn that has ended with an error, and its session with it.
LEMMA FailsOwns ==
    ASSUME Base, OneByOne, Owns, Evolves,
           NEW t \in TurnId, NEW g \in ServedGit(TurnId), Fails(t, g)
    PROVE  Owns'
<1> DEFINE W == Writers(turns, sessions)
           L == Living(sessions)
           c == ChannelOf(t)
<1>1. W = Writers(turns, sessions) /\ L = Living(sessions) /\ Owned(git, W, L)
      /\ c \in Channel
  BY ChannelOfType DEF Owns, Base, TypeInv
<1>2. /\ git' = g /\ Len(turns') = Len(turns)
      /\ \A u \in TurnId : turns'[u].phase = IF u = t THEN "done" ELSE turns[u].phase
      /\ \A d \in Channel : sessions'[d] = IF d = c THEN 0 ELSE sessions[d]
  <2>1. PICK o : EndFacts(c, o, "terminating")
    BY DEF Fails, FailFacts
  <2>2. \A d \in Channel : sessions'[d] = IF d = c THEN 0 ELSE sessions[d]
    BY <2>1 DEF EndFacts
  <2> QED
    BY <2>2 DEF Fails, FailFacts, ReturnFacts
<1> HIDE DEF W, L
<1>3. Owned(git', Besides(c, W), Besides(c, L))
  BY <1>1, <1>2, FailedOwned
<1>4. \A u \in TurnId : ChannelOf(u) # c =>
        (turns'[u].phase = "prompting" <=> turns[u].phase = "prompting")
  BY <1>2
<1> HIDE DEF c
<1> QED
  BY <1>1, <1>2, <1>3, <1>4, OwnsWithout

\* A loop has but one round, and no continuation of acquire() is due in it.
\* Only the shutdown's loop has more.
Calm ==
    span # <<>> =>
        /\ Len(span) = 1 /\ git.lock.settled = <<>>
        /\ Head(span).op = "shutdown" => shutdown

\* The lock and its owners fit after every step before the shutdown.
LEMMA OwnsKept ==
    ASSUME Base, OneByOne, Joined, NoSessionYet, Calm, Owns, Kind, Evolves,
           ~shutdown, Races = {}
    PROVE  Owns'
<1>1. CASE Quiet
  <2>1. git' = git /\ UNCHANGED <<sessions, turns>>
    BY <1>1 DEF Quiet, ShutdownStep, Calm
  <2> QED
    BY <2>1, OwnsLeft
<1>2. ASSUME NEW c \in Channel, NEW process, Drops(c, process)
      PROVE  Owns'
  <2>1. git.lock.settled = <<>>
    BY <1>2 DEF Drops, Calm
  <2> QED
    BY <1>2, <2>1, DropsOwns
<1>3. ASSUME NEW c \in Channel, NEW memory, Installs(c, memory)
      PROVE  Owns'
  BY <1>3, InstallsOwns
<1>4. ASSUME NEW s \in SessionId, NEW m \in Message, Asks(s, m)
      PROVE  Owns'
  BY <1>4, AsksOwns
<1>5. ASSUME NEW t \in TurnId, Begins(t)
      PROVE  Owns'
  BY <1>5, BeginsOwns
<1>6. ASSUME NEW t \in TurnId, Halts(t)
      PROVE  Owns'
  <2>1. ChannelOf(t) \in Channel
    BY ChannelOfType DEF Base, TypeInv
  <2>2. UNCHANGED <<sessions, turns>> /\ git' = StopWaiting(git, ChannelOf(t))
    BY <1>6 DEF Halts, StopFacts
  <2> QED
    BY <2>1, <2>2, OwnsHalted
<1>7. ASSUME NEW t \in TurnId, Gates(t)
      PROVE  Owns'
  <2>1. UNCHANGED <<git, sessions, turns>>
    BY <1>7 DEF Gates
  <2> QED
    BY <2>1, OwnsLeft
<1>8. ASSUME NEW t \in TurnId, NEW g \in ServedGit(TurnId), Settles(t, g)
      PROVE  Owns'
  BY <1>8, SettlesOwns
<1>9. ASSUME NEW t \in TurnId, NEW g \in ServedGit(TurnId), Fails(t, g)
      PROVE  Owns'
  BY <1>9, FailsOwns
<1> QED
  BY <1>1, <1>2, <1>3, <1>4, <1>5, <1>6, <1>7, <1>8, <1>9 DEF Kind
\* The session evicted first is in the map and has no turn in flight.
LEMMA LongestIdleRests ==
    ASSUME CoreType, LongestIdle # 0
    PROVE  LET s == recency[LongestIdle]
           IN  s \in SessionId /\ InMap(s) /\ ~obj[s].prompting
<1> DEFINE I == {i \in 1 .. Len(recency) :
                   InMap(recency[i]) /\ ~obj[recency[i]].prompting}
<1>1. LongestIdle = IF I # {} THEN Min(I) ELSE 0
  BY DEF LongestIdle, SelectInSeq
<1>2. I # {} /\ LongestIdle = Min(I)
  BY <1>1
<1>3. Len(recency) \in Nat /\ I \in SUBSET (1 .. Len(recency))
  BY DEF CoreType
<1>4. LongestIdle \in I
  <2> HIDE DEF I
  <2> QED
    BY <1>2, <1>3, MinType
<1> QED
  BY <1>4 DEF CoreType, SessionId

\* An eviction leaves the lock to whoever has it.
LEMMA EvictionKeepsLock ==
    ASSUME Base, OneByOne, Owns, NEW s \in SessionId, InMap(s), ~obj[s].prompting
    PROVE  AbortTurn(git, obj[s].channelId).lock = git.lock
<1> DEFINE c == obj[s].channelId
<1>1. CoreType /\ c \in Channel /\ sessions[c] = s /\ s # 0
  BY ObjectType DEF Base, TypeInv, InMap, SessionId
<1>2. \A t \in TurnId : ChannelOf(t) = c => turns[t].phase = "done"
  <2> SUFFICES ASSUME NEW t \in TurnId, ChannelOf(t) = c, turns[t].phase # "done"
               PROVE  FALSE
    OBVIOUS
  <2>1. s = turns[t].session
    BY <1>1 DEF OneByOne, OnTheirSession
  <2> QED
    BY <2>1 DEF Base, Frames
<1>3. /\ git \in ServedGit(TurnId) /\ git.lock \in Lock(TurnId)
      /\ Awaits(git.lock, Acquiring)
  BY DEF Base, TypeInv, CoreType, Waiting, ServedGit, ServedLock
<1> HIDE DEF c
<1>4. /\ \A t \in Granted(git.lock) : ChannelOf(t) # c
      /\ \A w \in Waiters(git.lock) : w.channel # c
  BY <1>2, FramelessChannel
<1>5. git.lock.holder # c
  <2>1. \A t \in Writers(turns, sessions) : ChannelOf(t) # c
    BY <1>2 DEF Writers, Living
  <2> QED
    BY <1>1, <1>4, <2>1, NoChannelAssumption DEF Owns, Owned
<1>6. CancelWaiter(git.lock, c) = git.lock
  BY <1>1, <1>3, <1>4, CancelAwaits
<1>7. AbortTurn(git, c).lock = CancelWaiter(ReleaseIfHeldBy(git.lock, c), c)
  <2>1. Abort(git, c).lock = ReleaseIfHeldBy(git.lock, c) /\ Abort(git, c) \in ServedGit(TurnId)
    BY <1>1, <1>3, AbortType DEF Abort, ServedGit, Git
  <2>2. Abort(git, c) \in Git(TurnId)
    BY <2>1 DEF ServedGit
  <2> QED
    BY <2>1, <2>2 DEF AbortTurn, Git
<1>8. ReleaseIfHeldBy(git.lock, c) = git.lock
  BY <1>5 DEF ReleaseIfHeldBy
<1> QED
  BY <1>6, <1>7, <1>8 DEF c

\* The handlers of the SDK's answers, /clear and a plan's timeout start when no
\* loop is running, start none and leave the shutdown flag alone.
LEMMA HandlersLeaveLoops ==
    ASSUME NEW c \in Channel,
           \/ LoadResolves(c) \/ LoadRejects(c)
           \/ CreateResolves(c) \/ CreateRejects(c)
           \/ Clear(c) \/ PlanTimeout(c)
    PROVE  AtRest /\ UNCHANGED <<span, shutdown>>
<1>1. ASSUME NEW cc \in Channel, FallBackToCreate(cc)
      PROVE  UNCHANGED <<span, shutdown>>
  BY <1>1 DEF FallBackToCreate
<1>2. ASSUME NEW o, NEW memory, NEW i, NEW r, InstallSession(c, o, memory, i, r)
      PROVE  UNCHANGED <<span, shutdown>>
  BY <1>2 DEF InstallSession
<1>3. CASE LoadResolves(c)
  BY <1>1, <1>2, <1>3 DEF LoadResolves
<1>4. CASE LoadRejects(c)
  BY <1>1, <1>4 DEF LoadRejects
<1>5. CASE CreateResolves(c)
  BY <1>2, <1>5 DEF CreateResolves
<1>6. CASE CreateRejects(c)
  BY <1>6 DEF CreateRejects
<1>7. CASE Clear(c)
  BY <1>7 DEF Clear
<1>8. CASE PlanTimeout(c)
  BY <1>8 DEF PlanTimeout, TeardownCallback, NoOtherFrame
<1> QED
  BY <1>3, <1>4, <1>5, <1>6, <1>7, <1>8

\* What a step makes of the loop that runs, until the shutdown.
LEMMA SpanMoves ==
    ASSUME Base, Calm, Races = {}, Next, ~shutdown'
    PROVE  \/ span' = <<>>
           \/ /\ git' = git /\ git.lock.settled = <<>>
              /\ Len(span') = 1 /\ Head(span').op # "shutdown"
           \/ /\ span' = span /\ CreateStep /\ LongestIdle # 0
              /\ git' = AbortTurn(git, obj[recency[LongestIdle]].channelId)
<1>1. span \in Seq(Teardown \cup {TeardownRest} \cup Create)
  BY DEF Base, TypeInv, RestType
<1>2. span # <<>> => Tail(span) = <<>>
  <2>1. span # <<>> => Len(span) = 1
    BY DEF Calm
  <2>2. span # <<>> => Tail(span) \in Seq(Teardown \cup {TeardownRest} \cup Create)
                       /\ Len(Tail(span)) = Len(span) - 1
    BY <1>1
  <2>3. span # <<>> => Len(Tail(span)) = 0
    BY <2>1, <2>2
  <2>4. \A S : \A x \in Seq(S) : Len(x) = 0 => x = <<>>
    OBVIOUS
  <2> QED
    BY <2>2, <2>3, <2>4
<1>3. ASSUME NEW c \in Channel, NEW m, NEW k, AtRest, RequestPrompt(c, m, k)
      PROVE  \/ span' = <<>>
             \/ /\ git' = git /\ git.lock.settled = <<>>
                /\ Len(span') = 1 /\ Head(span').op # "shutdown"
  <2>1. span = <<>> /\ git.lock.settled = <<>>
    BY <1>3 DEF AtRest, MicrotasksDue
  <2>2. CASE UNCHANGED span
    BY <2>1, <2>2
  <2>3. CASE git' = git /\ span' = <<[op |-> "create", channel |-> c, message |-> m]>>
    <3>1. Len(span') = 1 /\ Head(span').op = "create"
      BY <2>3
    <3> QED
      BY <2>1, <2>3, <3>1
  <2> QED
    BY <1>3, <2>2, <2>3 DEF RequestPrompt
<1>4. CASE \E c \in Channel : \/ \E m \in Message : Prompt(c, m)
                              \/ \E p \in 1 .. Len(gates) : PlanClick(c, p)
  <2>1. ASSUME NEW c \in Channel, NEW p \in 1 .. Len(gates), PlanClick(c, p), span' # <<>>
        PROVE  AtRest /\ RequestPrompt(c, [user |-> gates[p], image |-> FALSE],
                                       ForgetKilledPlan(killed, c))
    BY <2>1 DEF PlanClick, AtRest, NoOtherFrame
  <2> QED
    BY <1>3, <1>4, <2>1 DEF Prompt
<1>5. CASE \E c \in Channel : \/ LoadResolves(c) \/ LoadRejects(c)
                              \/ CreateResolves(c) \/ CreateRejects(c)
                              \/ Clear(c) \/ PlanTimeout(c)
  BY <1>5, HandlersLeaveLoops DEF AtRest
<1>6. CASE \E t \in TurnId : PromptResolves(t) \/ PromptRejects(t) \/ Stop(t) \/ PlanNeeded(t)
  BY <1>6 DEF PromptResolves, PromptRejects, Stop, PlanNeeded, NoOtherFrame, AtRest
<1>7. CASE \E s \in SessionId : IdleTimeout(s) \/ ProcessExits(s)
  BY <1>7 DEF IdleTimeout, ProcessExits, TeardownCallback, NoOtherFrame, AtRest
<1>8. CASE RunCaller \/ RunWaiter
  BY <1>8 DEF RunCaller, RunWaiter, NoOtherFrame
<1>9. CASE TeardownStep
  BY <1>2, <1>9 DEF TeardownStep
<1>10. CASE ShutdownStep
  BY <1>10 DEF ShutdownStep, Calm
<1>11. CASE CreateStep
  BY <1>2, <1>11 DEF CreateStep
<1>12. CASE PollTick
  <2>1. PICK targets \in [1 .. 1 -> LiveSessions] :
          span' = [i \in DOMAIN targets |-> [op |-> "teardown", channel |-> targets[i]]]
    BY <1>12 DEF PollTick
  <2>2. span' = [i \in 1 .. 1 |-> [op |-> "teardown", channel |-> targets[i]]]
    BY <2>1
  <2>3. Len(span') = 1 /\ Head(span').op = "teardown"
    BY <2>2
  <2> QED
    BY <1>12, <2>3 DEF PollTick, AtRest, MicrotasksDue
<1>13. CASE Shutdown
  BY <1>13 DEF Shutdown
<1> QED
  BY <1>4, <1>5, <1>6, <1>7, <1>8, <1>9, <1>10, <1>11, <1>12, <1>13 DEF Next

\* Loops stay short.
LEMMA CalmKept ==
    ASSUME Base, OneByOne, Owns, Calm, Races = {}, Next, ~shutdown'
    PROVE  Calm'
<1>1. CASE span' = span /\ CreateStep /\ LongestIdle # 0
           /\ git' = AbortTurn(git, obj[recency[LongestIdle]].channelId)
  <2>1. git'.lock = git.lock
    BY <1>1, LongestIdleRests, EvictionKeepsLock DEF Base, TypeInv
  <2>2. UNCHANGED shutdown
    BY <1>1 DEF CreateStep
  <2> QED
    BY <1>1, <2>1, <2>2 DEF Calm
<1> QED
  BY <1>1, SpanMoves DEF Calm
-----------------------------------------------------------------------------
(* The lock, the identity and the turn, when no race happens *)

\* Shutting down is final.
LEMMA ShutdownIsFinal ==
    ASSUME Next, shutdown
    PROVE  shutdown'
<1>1. CASE \E c \in Channel : \E m \in Message : Prompt(c, m)
  BY <1>1 DEF Prompt, RequestPrompt
<1>2. CASE \E c \in Channel : \E p \in 1 .. Len(gates) : PlanClick(c, p)
  BY <1>2 DEF PlanClick, RequestPrompt, NoOtherFrame
<1>3. CASE \E c \in Channel : \/ LoadResolves(c) \/ LoadRejects(c)
                              \/ CreateResolves(c) \/ CreateRejects(c)
                              \/ Clear(c) \/ PlanTimeout(c)
  BY <1>3, HandlersLeaveLoops
<1>4. CASE \E t \in TurnId : PromptResolves(t) \/ PromptRejects(t) \/ Stop(t) \/ PlanNeeded(t)
  BY <1>4 DEF PromptResolves, PromptRejects, Stop, PlanNeeded, NoOtherFrame
<1>5. CASE \E s \in SessionId : IdleTimeout(s) \/ ProcessExits(s)
  BY <1>5 DEF IdleTimeout, ProcessExits, TeardownCallback, NoOtherFrame
<1>6. CASE CreateStep \/ TeardownStep \/ ShutdownStep
  BY <1>6 DEF CreateStep, TeardownStep, ShutdownStep
<1>7. CASE RunCaller \/ RunWaiter \/ PollTick \/ Shutdown
  BY <1>7 DEF RunCaller, RunWaiter, NoOtherFrame, PollTick, Shutdown
<1> QED
  BY <1>1, <1>2, <1>3, <1>4, <1>5, <1>6, <1>7 DEF Next

\* The inductive invariant of MutualExclusion, IdentityFollowsTurn and
\* LockFollowsTurn.
Sound == Faithful /\ (~shutdown => Owns /\ Calm)

\* It holds at the start.
LEMMA InitSound == Init => Sound
<1> SUFFICES ASSUME Init PROVE Sound
  OBVIOUS
<1>1. /\ git = SweptGit /\ turns = <<>> /\ span = <<>>
  BY DEF Init
<1>2. TurnId = {}
  BY <1>1 DEF TurnId
<1>3. /\ git.lock.holder = NoChannel /\ git.lock.queue = <<>> /\ git.lock.settled = <<>>
      /\ git.activeTurns = {} /\ \A c \in Channel : git.identity[c] = NoUser
  BY <1>1 DEF SweptGit, FreeLock
<1>4. Waiters(git.lock) = {} /\ Granted(git.lock) = {}
  BY <1>3 DEF Waiters, Granted, Answers
<1>5. Owns
  BY <1>2, <1>3, <1>4 DEF Owns, Owned, Writers, Living
<1> QED
  BY <1>1, <1>5, InitFaithful DEF Sound, Calm

\* Every step keeps it.
LEMMA NextSound ==
    ASSUME Races = {}, Sound, [Next]_vars
    PROVE  Sound'
<1>1. Faithful'
  BY NextFaithful DEF Sound
<1>2. CASE Next
  <2>1. Base /\ OneByOne /\ Joined /\ NoSessionYet
    BY DEF Sound, Faithful, Orderly, Kept, Awaited
  <2>2. Kind /\ Evolves
    BY <1>2, <2>1, StepIsKind, KindEvolves DEF Base
  <2>3. ASSUME ~shutdown'
        PROVE  Owns' /\ Calm'
    <3>1. ~shutdown /\ Owns /\ Calm
      BY <1>2, <2>3, ShutdownIsFinal DEF Sound
    <3> QED
      BY <1>2, <2>1, <2>2, <2>3, <3>1, OwnsKept, CalmKept
  <2> QED
    BY <1>1, <2>3 DEF Sound
<1>3. CASE UNCHANGED vars
  <2>1. UNCHANGED <<git, sessions, obj, turns, span, shutdown>>
    BY <1>3 DEF vars
  <2>2. Owns' = Owns /\ Calm' = Calm
    BY <2>1 DEF Owns, Owned, Writers, Living, ChannelOf, TurnId, Granted, Answers,
       Waiters, Calm
  <2> QED
    BY <1>1, <2>1, <2>2 DEF Sound
<1> QED
  BY <1>2, <1>3

\* What Sound says holds in every state of such a behaviour.
THEOREM AlwaysSound ==
    ASSUME Races = {}
    PROVE  Spec => []Sound
<1>1. Sound /\ [Next]_vars => Sound'
  BY NextSound
<1> QED
  BY <1>1, InitSound, PTL DEF Spec

\* At any moment at most one turn, of all channels, writes in the workspace:
\* the point of GitWriteLock, for any number of channels, users and messages.
THEOREM WritersAreExclusive ==
    ASSUME Races = {}
    PROVE  Spec => []MutualExclusion
<1>1. ASSUME Sound
      PROVE  MutualExclusion
  <2> SUFFICES ASSUME ~shutdown, NEW t \in TurnId, NEW u \in TurnId, Writing(t), Writing(u)
               PROVE  t = u
    BY DEF MutualExclusion, WritersExclude
  <2>1. {t, u} \subseteq Writers(turns, sessions)
    BY DEF Writing, InLiveSession, InMap, ChannelOf, Writers, Living
  <2>2. ChannelOf(t) = ChannelOf(u)
    BY <1>1, <2>1 DEF Sound, Owns, Owned
  <2> QED
    BY <1>1, <2>2 DEF Writing, Sound, Faithful, Orderly, OneByOne, OneFrame
<1> QED
  BY <1>1, AlwaysSound, PTL

\* Between callbacks the lock, the active turns and the identity directories are
\* those of the turn that writes.
LEMMA RestingOwners ==
    ASSUME Sound, AtRest, ~shutdown
    PROVE  /\ \A t \in TurnId : t \in Writers(turns, sessions) <=> Writing(t)
           /\ \A t \in Writers(turns, sessions) :
                /\ git.lock.holder = ChannelOf(t)
                /\ git.identity[ChannelOf(t)] = turns[t].user
           /\ git.lock.holder # NoChannel => Writers(turns, sessions) # {}
           /\ \A c \in Channel :
                (\A t \in Writers(turns, sessions) : ChannelOf(t) # c) => git.identity[c] = NoUser
<1>1. Granted(git.lock) = {}
  BY NoneGranted DEF AtRest, MicrotasksDue
<1>2. \A t \in TurnId : t \in Writers(turns, sessions) <=> Writing(t)
  BY DEF Writing, InLiveSession, InMap, ChannelOf, Writers, Living
<1> QED
  BY <1>1, <1>2 DEF Sound, Owns, Owned

\* The git identity of a channel is its writing turn's user and is gone between
\* turns; the transcript that is open is that turn's.
THEOREM AttributionIsTheTurns ==
    ASSUME Races = {}
    PROVE  Spec => []AttributionFollowsTurn
<1>1. ASSUME Sound
      PROVE  IdentityFollowsTurn
  <2> SUFFICES ASSUME AtRest, ~shutdown, NEW c \in Channel
               PROVE  LET writers == {t \in TurnId : Writing(t) /\ ChannelOf(t) = c}
                      IN  IF writers = {} THEN git.identity[c] = NoUser
                          ELSE \A t \in writers : git.identity[c] = turns[t].user
    BY DEF IdentityFollowsTurn
  <2>1. Writers(turns, sessions) \subseteq TurnId
    BY DEF Writers, Living
  <2> QED
    BY <1>1, <2>1, RestingOwners
<1>2. "late_settle" \notin Races /\ "join_image" \notin Races
  OBVIOUS
<1>3. Spec => []TranscriptFollowsTurn
  BY <1>2, TranscriptsAreTheTurns
<1>4. Sound /\ TranscriptFollowsTurn => AttributionFollowsTurn
  BY <1>1 DEF AttributionFollowsTurn
<1> QED
  BY <1>3, <1>4, AlwaysSound, PTL

\* Teardown, process death, Stop and errors at any point of a turn neither leave
\* the lock held for a session that is gone nor free it early, and leave no agent
\* and no open row outside the map.
THEOREM SessionsEndClean ==
    ASSUME Races = {}
    PROVE  Spec => []NothingOutlivesItsSession
<1>1. ASSUME Sound
      PROVE  LockFollowsTurn
  <2> SUFFICES ASSUME AtRest, ~shutdown, NEW c \in Channel
               PROVE  git.lock.holder = c <=> \E t \in TurnId : Writing(t) /\ ChannelOf(t) = c
    BY DEF LockFollowsTurn
  <2>1. Writers(turns, sessions) \subseteq TurnId /\ c # NoChannel
    BY NoChannelAssumption DEF Writers, Living
  <2> QED
    BY <1>1, <2>1, RestingOwners
<1>2. Sound /\ NoLeakedAgent => NothingOutlivesItsSession
  BY <1>1 DEF NothingOutlivesItsSession
<1> QED
  BY <1>2, AlwaysSound, AgentsAreNotLeaked, PTL

-----------------------------------------------------------------------------
(* The turns share the workspace as TurnExclusion says *)

\* The turns of sessions in the map that have a place at the lock.
Queuing == Living(sessions) \cap Places(git.lock)

\* The places at the lock are of turns whose acquire() has not returned.
LEMMA PlacesAreAcquiring ==
    ASSUME Base
    PROVE  Places(git.lock) \subseteq Acquiring
<1>1. Granted(git.lock) \subseteq Woken(git.lock)
  BY DEF Granted, Woken
<1> QED
  BY <1>1 DEF Base, Waiting, Awaits, Places

\* What the abstract variables are.
LEMMA ExclusionVariables ==
    ASSUME Base
    PROVE  {t \in TurnId : Writing(t)} = Writers(turns, sessions) /\ WaitingTurns = Queuing
<1>1. \A t \in TurnId : InLiveSession(t) <=> t \in Living(sessions)
  BY DEF InLiveSession, InMap, ChannelOf, Living
<1>2. {t \in TurnId : Writing(t)} = Writers(turns, sessions)
  BY <1>1 DEF Writing, Writers, Living
<1>3. git.lock.queue \in Seq(Waiter(TurnId)) /\ git.lock.settled \in Seq(Settlement(TurnId))
  BY DEF Base, TypeInv, CoreType, ServedGit, ServedLock, Lock
<1>4. ToSet(git.lock.queue) = Waiters(git.lock) /\ ToSet(git.lock.settled) = Answers(git.lock)
  BY <1>3 DEF ToSet, Waiters, Answers
<1>5. WaitingTurns = {t \in Places(git.lock) : InLiveSession(t)}
  BY <1>4 DEF WaitingTurns, Places, Granted
<1>6. Places(git.lock) \subseteq TurnId
  BY PlacesAreAcquiring DEF Acquiring
<1> QED
  BY <1>1, <1>2, <1>5, <1>6 DEF Queuing, Living

\* A turn whose session is in the map was in it before.
LEMMA LivingKept ==
    ASSUME Base, Evolves, NoSessionYet, NEW t \in TurnId, t \in Living(sessions)'
    PROVE  t \in Living(sessions)
<1> DEFINE c == ChannelOf(t)
<1>1. ChannelOf(t)' = c /\ turns'[t].session = turns[t].session
  BY ChannelsKept DEF Base, Evolves
<1>2. sessions'[c] = turns[t].session
  BY <1>1 DEF Living
<1>3. c \in Channel /\ turns[t].session \in SessionId /\ Len(obj) \in Nat
  BY ChannelOfType DEF Base, TypeInv, CoreType
<1> HIDE DEF c
<1>4. CASE NoneInstalled
  BY <1>2, <1>3, <1>4 DEF NoneInstalled, Given, SessionId, Living, c
<1>5. ASSUME NEW d \in Channel, NEW memory, Installs(d, memory)
      PROVE  sessions[c] = turns[t].session
  <2>1. sessions'[c] = IF c = d THEN Len(obj) + 1 ELSE sessions[c]
    BY <1>3, <1>5 DEF Installs, InstallFacts
  <2> QED
    BY <1>2, <1>3, <2>1 DEF SessionId
<1> QED
  BY <1>4, <1>5 DEF Evolves, Living, c

\* The places at the lock after a step: some were given up, and a turn that
\* starts has the last one.
LEMMA PlacesMove ==
    ASSUME Base, Kind, InOrder(git.lock)
    PROVE  /\ InOrder(git'.lock)
           /\ \/ Len(turns') = Len(turns) /\ Places(git'.lock) \subseteq Places(git.lock)
              \/ /\ Len(turns') = Len(turns) + 1
                 /\ turns'[Len(turns')].phase = "acquiring"
                 /\ Len(turns') \in Places(git'.lock)
                 /\ Places(git'.lock) \subseteq Places(git.lock) \cup {Len(turns')}
<1>1. CASE Left(git', turns') /\ Len(turns') = Len(turns)
  BY <1>1 DEF Left, Yields
<1>2. ASSUME NEW s \in SessionId, NEW m, NEW q, NEW ts, NEW g, Starting(s, m, q, ts, g)
      PROVE  /\ InOrder(git'.lock)
             /\ Len(turns') = Len(turns) + 1
             /\ Places(git'.lock) \subseteq Places(git.lock) \cup {Len(turns')}
             /\ Len(turns') \in Places(git'.lock)
             /\ turns'[Len(turns')].phase = "acquiring"
  <2> DEFINE n == Len(turns) + 1
             c == obj[s].channelId
             lock == g.lock
             new == Acquire(lock, n, c)
  <2>1. /\ g \in ServedGit(TurnId) /\ Len(ts) = Len(turns)
        /\ Yields(git.lock, lock)
        /\ Len(turns') = Len(ts) + 1
        /\ git' = [g EXCEPT !.lock = Acquire(lock, Len(ts) + 1, c)]
        /\ turns'[Len(ts) + 1].phase = "acquiring"
    BY <1>2 DEF Starting, Left, Cleared, StartFacts
  <2>2. c \in Channel /\ Len(turns) \in Nat
    BY ObjectType DEF Base, TypeInv, CoreType
  <2>3. InOrder(lock) /\ Places(lock) \subseteq Places(git.lock)
    BY <2>1 DEF Yields
  <2>4. \A p \in Places(lock) : p < n
    BY <2>2, <2>3, PlacesAreAcquiring DEF Acquiring, TurnId
  <2>5. lock \in Lock(TurnId) /\ (lock.holder = NoChannel => lock.queue = <<>>)
    BY <2>1 DEF ServedGit, ServedLock
  <2>6. git'.lock = new
    BY <2>1 DEF ServedGit, Git
  <2> HIDE DEF n, c, lock, new
  <2>7. InOrder(new) /\ Places(new) = Places(lock) \cup {n}
    BY <2>2, <2>3, <2>4, <2>5, AcquireInOrder DEF new
  <2> QED
    BY <2>1, <2>3, <2>6, <2>7 DEF n
<1>3. CASE Passing
  BY <1>1, <1>3 DEF Passing, SameFrames
<1>4. ASSUME NEW t \in TurnId, Returning(t)
      PROVE  Left(git', turns') /\ Len(turns') = Len(turns)
  BY <1>4 DEF Returning, Returned, ReturnFacts
<1> QED
  BY <1>1, <1>2, <1>3, <1>4, KindPasses

\* Only a turn that begins becomes a writer.
LEMMA NobodyElseBegins ==
    ASSUME Base, Kind, \A t \in TurnId : ~Begins(t),
           NEW u \in TurnId, turns'[u].phase = "prompting"
    PROVE  turns[u].phase = "prompting"
<1>1. CASE Quiet
  BY <1>1 DEF Quiet
<1>2. ASSUME NEW c \in Channel, NEW process, Drops(c, process)
      PROVE  turns[u].phase = "prompting"
  BY <1>2 DEF Drops
<1>3. ASSUME NEW c \in Channel, NEW memory, Installs(c, memory)
      PROVE  turns[u].phase = "prompting"
  BY <1>3 DEF Installs, InstallFacts
<1>4. ASSUME NEW s \in SessionId, NEW m \in Message, Asks(s, m)
      PROVE  turns[u].phase = "prompting"
  <2>1. CASE UNCHANGED turns
    BY <2>1
  <2>2. CASE StartFacts(s, m, obj[s].queue, turns, git)
    BY <2>2 DEF StartFacts, TurnId
  <2> QED
    BY <1>4, <2>1, <2>2 DEF Asks, PromptFacts, TouchFacts
<1>5. ASSUME NEW t \in TurnId, Halts(t) \/ Gates(t)
      PROVE  turns[u].phase = "prompting"
  BY <1>5 DEF Halts, StopFacts, Gates
<1>6. ASSUME NEW t \in TurnId, ReturnFacts(t)
      PROVE  turns[u].phase = "prompting"
  BY <1>6 DEF ReturnFacts
<1>7. ASSUME NEW t \in TurnId, NEW g, Settles(t, g)
      PROVE  turns[u].phase = "prompting"
  <2> DEFINE ts == [turns EXCEPT ![t].phase = "done"]
             s  == turns[t].session
  <2>1. CoreType
    BY DEF Base, TypeInv
  <2>2. /\ Len(ts) = Len(turns)
        /\ ts[u].phase = IF u = t THEN "done" ELSE turns[u].phase
    BY <2>1, DoneFacts, SMTT(40)
  <2> HIDE DEF ts
  <2>3. CASE StartFacts(s, Head(obj[s].queue), Tail(obj[s].queue), ts, g)
    <3>1. turns'[u] = ts[u]
      BY <2>2, <2>3 DEF StartFacts, TurnId
    <3> QED
      BY <2>2, <3>1
  <2>4. CASE RestFacts(t, g)
    BY <1>6, <2>4 DEF RestFacts
  <2> QED
    BY <1>7, <2>3, <2>4 DEF Settles, SettleFacts, ts
<1>8. ASSUME NEW t \in TurnId, NEW g, Fails(t, g)
      PROVE  turns[u].phase = "prompting"
  BY <1>6, <1>8 DEF Fails, FailFacts
<1> QED
  BY <1>1, <1>2, <1>3, <1>4, <1>5, <1>7, <1>8 DEF Kind

\* A turn that gets the workspace finds it empty, and is the first of those that
\* wait.
LEMMA BeginsEnters ==
    ASSUME Base, OneByOne, Owns, Evolves, InOrder(git.lock), NEW t \in TurnId, Begins(t)
    PROVE  /\ Writers(turns, sessions) = {} /\ Writers(turns, sessions)' = {t}
           /\ t \in Queuing /\ \A u \in Queuing : t <= u
           /\ Queuing' = Queuing \ {t} /\ Len(turns') = Len(turns)
<1>1. /\ Resumes(t) /\ Head(git.lock.settled).granted
      /\ UNCHANGED <<sessions, obj>> /\ Len(turns') = Len(turns)
      /\ \A u \in TurnId : /\ turns'[u].session = turns[u].session
                           /\ turns'[u].phase = IF u = t THEN "prompting" ELSE turns[u].phase
      /\ git' = Begin(Resumed, ChannelOf(t), obj[turns[t].session].activeUserId)
  BY DEF Begins
<1>2. /\ Writers(turns, sessions) = {} /\ t \in Living(sessions)
      /\ Granted(Resumed.lock) = {} /\ Waiters(Resumed.lock) = Waiters(git.lock)
      /\ \A w \in Waiters(git.lock) : w.channel # ChannelOf(t)
      /\ Resumed \in ServedGit(TurnId)
  BY <1>1, ResumedAlone DEF Owns
<1>3. /\ Granted(Resumed.lock) = Granted(git.lock) \ {t} /\ t \in Granted(git.lock)
  BY <1>1, ResumedFacts
<1>4. Granted(git.lock) = {t}
  BY <1>2, <1>3
<1>5. \A w \in Waiters(git.lock) : w.turn # t
  BY <1>2, WaitersAcquire
<1>6. git'.lock = Resumed.lock
  BY <1>1, <1>2 DEF Begin, ServedGit, Git
<1>7. Places(git'.lock) = Places(git.lock) \ {t} /\ t \in Places(git.lock)
  BY <1>2, <1>4, <1>5, <1>6 DEF Places
<1>8. \A u \in Places(git.lock) : t <= u
  <2>1. \A u \in Places(git.lock) : u = t \/ t < u
    BY <1>4 DEF Places, InOrder
  <2>2. Places(git.lock) \subseteq Nat
    BY PlacesAreAcquiring DEF Acquiring, TurnId
  <2> QED
    BY <1>7, <2>1, <2>2
<1>9. Living(sessions)' = Living(sessions)
  <2>1. TurnId' = TurnId
    BY <1>1 DEF TurnId
  <2>2. \A u \in TurnId : ChannelOf(u)' = ChannelOf(u)
    BY ChannelsKept DEF Base
  <2> QED
    BY <1>1, <2>1, <2>2 DEF Living
<1>10. Writers(turns, sessions)' = {t}
  <2>1. \A u \in Living(sessions) : u \in TurnId /\ turns[u].phase # "prompting"
    BY <1>2 DEF Writers, Living
  <2>2. Writers(turns, sessions)' = {u \in Living(sessions)' : turns'[u].phase = "prompting"}
    BY DEF Writers, Living
  <2> QED
    BY <1>1, <1>2, <1>9, <2>1, <2>2
<1> QED
  BY <1>1, <1>2, <1>7, <1>8, <1>9, <1>10 DEF Queuing

\* Every step before the shutdown is one of TurnExclusion's.
LEMMA StepExcludes ==
    ASSUME Races = {}, Sound, Sound', InOrder(git.lock), Next, ~shutdown'
    PROVE  /\ UNCHANGED shutdown
           /\ \/ /\ Writers(turns, sessions) = {}
                 /\ \E t \in Queuing : /\ \A u \in Queuing : t <= u
                                       /\ Writers(turns, sessions)' = {t}
                                       /\ Queuing' = Queuing \ {t}
                 /\ Len(turns') = Len(turns)
              \/ /\ Writers(turns, sessions)' \subseteq Writers(turns, sessions)
                 /\ \/ Len(turns') = Len(turns) /\ Queuing' \subseteq Queuing
                    \/ /\ Len(turns') = Len(turns) + 1
                       /\ Len(turns') \in Queuing'
                       /\ Queuing' \subseteq Queuing \cup {Len(turns')}
<1> DEFINE W == Writers(turns, sessions)
           n == Len(turns')
<1>1. Base /\ OneByOne /\ Joined /\ NoSessionYet
  BY DEF Sound, Faithful, Orderly, Kept, Awaited
<1>2. Kind /\ Evolves
  BY <1>1, StepIsKind, KindEvolves DEF Base
<1>3. ~shutdown /\ Owns /\ Owns'
  BY ShutdownIsFinal DEF Sound
<1>4. ASSUME NEW t \in TurnId, Begins(t)
      PROVE  /\ W = {} /\ W' = {t} /\ t \in Queuing /\ \A u \in Queuing : t <= u
             /\ Queuing' = Queuing \ {t} /\ Len(turns') = Len(turns)
  BY <1>1, <1>2, <1>3, <1>4, BeginsEnters
<1>5. Len(turns) \in Nat /\ TurnId = 1 .. Len(turns) /\ TurnId' = 1 .. n
  BY <1>1 DEF Base, TypeInv, CoreType, TurnId
<1>6. /\ \/ Len(turns') = Len(turns) /\ Places(git'.lock) \subseteq Places(git.lock)
         \/ /\ Len(turns') = Len(turns) + 1
            /\ turns'[Len(turns')].phase = "acquiring"
            /\ Len(turns') \in Places(git'.lock)
            /\ Places(git'.lock) \subseteq Places(git.lock) \cup {Len(turns')}
  BY <1>1, <1>2, PlacesMove
<1>7. \A t \in TurnId : t \in Living(sessions)' => t \in Living(sessions)
  BY <1>1, <1>2, LivingKept
<1>8. Places(git.lock) \subseteq TurnId
  BY <1>1, PlacesAreAcquiring DEF Acquiring
<1>9. Queuing' = Living(sessions)' \cap Places(git'.lock)
  BY DEF Queuing, Places, Granted, Answers, Waiters
<1>10. Places(git'.lock) \subseteq Living(sessions)'
  <2>1. \A t \in Granted(git'.lock) : t \in Living(sessions)'
    BY <1>3 DEF Owns, Owned, Granted, Answers
  <2>2. \A w \in Waiters(git'.lock) : w.turn \in Living(sessions)'
    BY <1>3 DEF Owns, Owned, Waiters
  <2> QED
    BY <2>1, <2>2 DEF Places
<1>11. \/ Len(turns') = Len(turns) /\ Queuing' \subseteq Queuing
       \/ /\ Len(turns') = Len(turns) + 1
          /\ Len(turns') \in Queuing'
          /\ Queuing' \subseteq Queuing \cup {Len(turns')}
  BY <1>6, <1>7, <1>8, <1>9, <1>10 DEF Queuing
<1>12. ASSUME \A t \in TurnId : ~Begins(t)
       PROVE  W' \subseteq W
  <2> SUFFICES ASSUME NEW t \in W'
               PROVE  t \in W
    OBVIOUS
  <2>1. t \in Living(sessions)' /\ turns'[t].phase = "prompting" /\ t \in TurnId'
    BY DEF Writers, Living
  <2>2. t \in TurnId
    <3>1. CASE Len(turns') = Len(turns)
      BY <1>5, <2>1, <3>1
    <3>2. CASE t = n /\ turns'[n].phase = "acquiring"
      BY <2>1, <3>2
    <3> QED
      BY <1>5, <1>6, <2>1, <3>1, <3>2
  <2>3. turns[t].phase = "prompting"
    BY <1>1, <1>2, <1>12, <2>1, <2>2, NobodyElseBegins
  <2> QED
    BY <1>7, <2>1, <2>2, <2>3 DEF Writers
<1>15. UNCHANGED shutdown
  <2>1. shutdown \in BOOLEAN /\ shutdown' \in BOOLEAN
    BY DEF Sound, Faithful, Orderly, Kept, Base, TypeInv, RestType
  <2> QED
    BY <1>3, <2>1
<1>13. CASE \E t \in TurnId : Begins(t)
  <2>1. PICK t \in TurnId : Begins(t)
    BY <1>13
  <2> HIDE DEF W, n
  <2>2. /\ W = {} /\ W' = {t} /\ t \in Queuing /\ \A u \in Queuing : t <= u
        /\ Queuing' = Queuing \ {t} /\ Len(turns') = Len(turns)
    BY <1>4, <2>1
  <2> QED
    BY <1>15, <2>2 DEF W
<1>14. CASE \A t \in TurnId : ~Begins(t)
  <2>1. W' \subseteq W
    BY <1>12, <1>14
  <2> QED
    BY <1>11, <1>15, <2>1
<1> QED
  BY <1>13, <1>14

\* What TurnExclusion's variables are, in terms of the lock.
Maps ==
    {t \in TurnId : Writing(t)} = Writers(turns, sessions) /\ WaitingTurns = Queuing

\* The invariant of the refinement.
Served == Sound /\ InOrder(git.lock)

\* It is one.
LEMMA ServedKept ==
    ASSUME Races = {}, Served, [Next]_vars
    PROVE  Served'
<1>1. Sound'
  BY NextSound DEF Served
<1>2. CASE Next
  <2>1. Base
    BY DEF Served, Sound, Faithful, Orderly, Kept
  <2>2. Kind
    BY <1>2, <2>1, StepIsKind, KindEvolves DEF Base
  <2>3. InOrder(git'.lock)
    BY <2>1, <2>2, PlacesMove DEF Served
  <2> QED
    BY <1>1, <2>3 DEF Served, InOrder, Granted, Answers, Waiters
<1>3. CASE UNCHANGED vars
  BY <1>1, <1>3 DEF Served, vars, InOrder, Granted, Answers, Waiters
<1> QED
  BY <1>2, <1>3

\* Before the service closes the turns of all channels have the shared workspace
\* one at a time, in the order in which they asked for it, through every
\* creation, Stop, /clear, eviction and death: SessionManager implements
\* TurnExclusion.
THEOREM WorkspaceIsShared ==
    ASSUME Races = {}
    PROVE  Spec => TurnsExclude
<1>1. Init => Served /\ Exclusion!Init
  <2> SUFFICES ASSUME Init PROVE Served /\ Exclusion!Init
    OBVIOUS
  <2>1. Sound
    BY InitSound
  <2>2. git.lock.queue = <<>> /\ git.lock.settled = <<>> /\ turns = <<>> /\ ~shutdown
    BY DEF Init, SweptGit, FreeLock
  <2>3. Waiters(git.lock) = {} /\ Granted(git.lock) = {} /\ TurnId = {} /\ Len(turns) = 0
    BY <2>2 DEF Waiters, Granted, Answers, TurnId
  <2>4. InOrder(git.lock) /\ Places(git.lock) = {}
    BY <2>2, <2>3 DEF InOrder, Places
  <2>5. WaitingTurns = {} /\ {t \in TurnId : Writing(t)} = {}
    <3>1. Base
      BY <2>1 DEF Sound, Faithful, Orderly, Kept
    <3> QED
      BY <2>3, <2>4, <3>1, ExclusionVariables DEF Queuing
  <2> QED
    BY <2>1, <2>2, <2>3, <2>4, <2>5 DEF Served, Exclusion!Init
<1>2. Served /\ [Next]_vars => Served'
  BY ServedKept
<1>3. Served => Maps
  BY ExclusionVariables DEF Served, Sound, Faithful, Orderly, Kept, Maps
<1>4. Served' => Maps'
  BY <1>3, PTL
<1>5. Served /\ Served' /\ Maps /\ Maps' /\ [Next]_vars
        => [Exclusion!Next]_<<{t \in TurnId : Writing(t)}, WaitingTurns, Len(turns), shutdown>>
  <2> SUFFICES ASSUME Served, Served', Maps, Maps', Next \/ UNCHANGED vars
               PROVE  Exclusion!Next \/ UNCHANGED <<{t \in TurnId : Writing(t)}, WaitingTurns,
                                                    Len(turns), shutdown>>
    OBVIOUS
  <2>1. CASE Next /\ ~shutdown'
    BY <2>1, StepExcludes
    DEF Served, Maps, Exclusion!Next, Exclusion!Enter, Exclusion!Change
  <2>2. CASE shutdown'
    BY <2>2 DEF Exclusion!Next, Exclusion!Close
  <2>3. CASE UNCHANGED vars
    BY <2>3 DEF vars, WaitingTurns, Writing, InLiveSession, InMap, ChannelOf, TurnId
  <2> QED
    BY <2>1, <2>2, <2>3
<1> QED
  BY <1>1, <1>2, <1>3, <1>4, <1>5, PTL DEF Spec, TurnsExclude, Exclusion!Spec

=============================================================================
