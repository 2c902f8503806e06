----------------------------- MODULE LiveUpdates -----------------------------
(***************************************************************************)
(* How a change of the bot's data reaches an open console page: the bot's  *)
(* coalesced and fallible notifications (notify-emitter.service.ts), the   *)
(* throttled bus and the fallback ticks of the main server                 *)
(* (sse/sse-hub.service.ts), the event stream of each page and the         *)
(* refetches it causes (app/lib/use-live-stream.ts).                       *)
(*                                                                         *)
(* Signals carry no data, so signals of one topic that wait at the same    *)
(* place are one. A page is named by the one topic it subscribes to.       *)
(***************************************************************************)
EXTENDS Integers, FiniteSets

CONSTANTS
  Pages,       \* the open pages, a subset of Topics
  Lossy,       \* topics whose notification may be lost on its way
  Races,       \* what may overlap, among RaceNames
  MaxVersion,  \* bound: commits of the bot
  MaxDrops     \* bound: broken streams

Topics == {"live", "bot-status", "session"}

\*   first_fetch  a stream opens before its page's first answer
\*   short_lapse  the heartbeat lapses and returns between two ticks
RaceNames == {"first_fetch", "short_lapse"}

ASSUME LiveUpdatesAssumption ==
  /\ Pages \subseteq Topics /\ Lossy \subseteq Topics
  /\ Races \subseteq RaceNames
  /\ MaxVersion \in Nat /\ MaxDrops \in Nat

VARIABLES
  db,        \* database: data_version, heartbeat, one live_status row, turns
  window,    \* bot: topics whose coalescing window is open
  ipc,       \* topics on their way from the bot to the main server
  throttle,  \* main: state of each topic's throttle
  mark,      \* main: watermarks of the fallback ticks
  conn,      \* main: "none", "registered" or "listening" of each page's stream
  wire,      \* events sent to a page and not handled yet
  held,      \* page: a throttled invalidation waits
  fetch,     \* page: its query under way
  data,      \* page: what it shows
  drops      \* broken streams so far

server == <<throttle, mark, conn>>
page == <<held, fetch, data>>
vars == <<db, window, ipc, server, wire, page, drops>>

-----------------------------------------------------------------------------
(***************************************************************************)
(* What the server computes from the database                              *)
(***************************************************************************)
LiveState ==
  IF db.beat = "old" THEN "last-known" ELSE IF db.prompting THEN "working" ELSE "idle"

\* The part of getLive() that computeLiveDigest() covers.
Digest(t) == IF t = "live" THEN LiveState ELSE db.beat

Dto(t) ==
  CASE t = "live"       -> <<LiveState, db.depth>>
    [] t = "bot-status" -> <<db.beat>>
    [] t = "session"    -> <<db.turns>>

NoData == <<>>
Idle == [stage |-> "idle", answer |-> NoData]
Asked == [stage |-> "asked", answer |-> NoData]

Marks == [version |-> db.version, bot |-> Digest("bot-status"), live |-> Digest("live")]
NoMarks == [version |-> -1, bot |-> "none", live |-> "none"]

\* The timers run while a stream is open.
Running == \E p \in Pages : conn[p] # "none"

TickSawBeat == Running => mark.bot = db.beat

Init ==
  /\ db = [version |-> 0, beat |-> "fresh", prompting |-> FALSE, depth |-> 0, turns |-> 0]
  /\ window = {} /\ ipc = {}
  /\ throttle = [t \in Topics |-> "open"]
  /\ mark = NoMarks
  /\ conn = [p \in Pages |-> "none"]
  /\ wire = [p \in Pages |-> {}]
  /\ held = [p \in Pages |-> FALSE]
  /\ fetch = [p \in Pages |-> Asked]
  /\ data = [p \in Pages |-> NoData]
  /\ drops = 0

-----------------------------------------------------------------------------
(***************************************************************************)
(* The bot                                                                 *)
(***************************************************************************)
\* A commit, and the notification of its topic.
Commit(t, new) ==
  /\ db.version < MaxVersion /\ new # db
  /\ db' = [new EXCEPT !.version = db.version + 1]
  /\ window' = window \cup {t}
  /\ UNCHANGED <<ipc, server, wire, page, drops>>

WriteLive ==
  \E prompting \in BOOLEAN, depth \in 0..1 :
    Commit("live", [db EXCEPT !.prompting = prompting, !.depth = depth])

WriteTurn == Commit("session", [db EXCEPT !.turns = @ + 1])

Heartbeat ==
  /\ "short_lapse" \in Races \/ TickSawBeat
  /\ Commit("bot-status", [db EXCEPT !.beat = "fresh"])

\* No heartbeat for staleThresholdMs(), which is longer than a tick's interval:
\* nothing is written.
BeatLapses ==
  /\ db.beat = "fresh" /\ TickSawBeat
  /\ db' = [db EXCEPT !.beat = "old"]
  /\ UNCHANGED <<window, ipc, server, wire, page, drops>>

\* The coalescing window of a topic ends; process.send() may fail.
Send(t) ==
  /\ t \in window
  /\ window' = window \ {t}
  /\ \/ ipc' = ipc \cup {t}
     \/ t \in Lossy /\ UNCHANGED ipc
  /\ UNCHANGED <<db, server, wire, page, drops>>

-----------------------------------------------------------------------------
(***************************************************************************)
(* The hub                                                                 *)
(***************************************************************************)
\* fanOut(): only streams that have a listener get the event.
FanOut(topics) ==
  wire' = [p \in Pages |-> IF p \in topics /\ conn[p] = "listening"
                           THEN wire[p] \cup {"signal"} ELSE wire[p]]

\* A signal reaches the bus: the first of a window passes at once.
Publish(t) ==
  /\ t \in ipc
  /\ ipc' = ipc \ {t}
  /\ throttle' = [throttle EXCEPT ![t] = IF @ = "open" THEN "closed" ELSE "again"]
  /\ FanOut(IF throttle[t] = "open" THEN {t} ELSE {})
  /\ UNCHANGED <<db, window, mark, conn, page, drops>>

\* What the end of a throttle window emits.
Trailing(t) == IF throttle[t] = "again" THEN {t} ELSE {}

WindowEnds(t) ==
  /\ throttle[t] # "open"
  /\ throttle' = [throttle EXCEPT ![t] = IF Trailing(t) = {} THEN "open" ELSE "closed"]
  /\ FanOut(Trailing(t))
  /\ UNCHANGED <<db, window, ipc, mark, conn, page, drops>>

\* recomputeAndEmitBotStatus() and recomputeAndEmitLive()
Recomputed ==
  {t \in {"bot-status", "live"} :
     Digest(t) # IF t = "live" THEN mark.live ELSE mark.bot}

StalenessTick ==
  /\ Running
  /\ mark' = [Marks EXCEPT !.version = mark.version]
  /\ FanOut(Recomputed)
  /\ UNCHANGED <<db, window, ipc, throttle, conn, page, drops>>

\* Mutant of Advanced: the sessions are left to their notifications.
AdvancedDigests == Recomputed

\* The topics a commit may have changed: every subscribed session, and the digests.
Advanced == {"session"} \cup Recomputed

FallbackTick ==
  /\ Running /\ db.version # mark.version
  /\ mark' = Marks
  /\ FanOut(Advanced)
  /\ UNCHANGED <<db, window, ipc, throttle, conn, page, drops>>

\* subscribe(): the first stream starts the timers and seeds the watermarks.
Subscribe(p) ==
  /\ conn[p] = "none"
  /\ conn' = [conn EXCEPT ![p] = "registered"]
  /\ mark' = IF Running THEN mark ELSE Marks
  /\ UNCHANGED <<db, window, ipc, throttle, wire, page, drops>>

\* The response starts and its listener is registered.
Listen(p) ==
  /\ conn[p] = "registered"
  /\ "first_fetch" \in Races \/ data[p] # NoData
  /\ conn' = [conn EXCEPT ![p] = "listening"]
  /\ wire' = [wire EXCEPT ![p] = {"open"}]
  /\ UNCHANGED <<db, window, ipc, throttle, mark, page, drops>>

\* A stream breaks: unsubscribe(), and the browser will connect again. What was
\* sent is lost.
Drop(p) ==
  /\ conn[p] # "none" /\ drops < MaxDrops
  /\ drops' = drops + 1
  /\ conn' = [conn EXCEPT ![p] = "none"]
  /\ wire' = [wire EXCEPT ![p] = {}]
  /\ mark' = IF \E q \in Pages \ {p} : conn[q] # "none" THEN mark ELSE NoMarks
  /\ UNCHANGED <<db, window, ipc, throttle, page>>

-----------------------------------------------------------------------------
(***************************************************************************)
(* The page                                                                *)
(***************************************************************************)
\* invalidateQueries() with cancelRefetch: a query under way is asked again,
\* except the first one, which has no data to fall back to.
Invalidated(p) ==
  IF data[p] = NoData /\ fetch[p] # Idle THEN fetch ELSE [fetch EXCEPT ![p] = Asked]

\* Mutant of Opened: the open event is taken for a keepalive.
OpenedSilently(p) == fetch

\* onopen resyncs to the current snapshot.
Opened(p) == Invalidated(p)

Open(p) ==
  /\ "open" \in wire[p]
  /\ wire' = [wire EXCEPT ![p] = @ \ {"open"}]
  /\ fetch' = Opened(p)
  /\ UNCHANGED <<db, window, ipc, server, held, data, drops>>

\* An event of the page's topic; the session page throttles its invalidations.
Signal(p) ==
  /\ wire[p] = {"signal"}
  /\ wire' = [wire EXCEPT ![p] = {}]
  /\ IF p = "session"
     THEN held' = [held EXCEPT ![p] = TRUE] /\ UNCHANGED fetch
     ELSE fetch' = Invalidated(p) /\ UNCHANGED held
  /\ UNCHANGED <<db, window, ipc, server, data, drops>>

Flush(p) ==
  /\ held[p]
  /\ held' = [held EXCEPT ![p] = FALSE]
  /\ fetch' = Invalidated(p)
  /\ UNCHANGED <<db, window, ipc, server, wire, data, drops>>

\* The server reads the database for the page's query,
Answer(p) ==
  /\ fetch[p].stage = "asked"
  /\ fetch' = [fetch EXCEPT ![p] = [stage |-> "answered", answer |-> Dto(p)]]
  /\ UNCHANGED <<db, window, ipc, server, wire, held, data, drops>>

\* and the page shows the answer.
Show(p) ==
  /\ fetch[p].stage = "answered"
  /\ data' = [data EXCEPT ![p] = fetch[p].answer]
  /\ fetch' = [fetch EXCEPT ![p] = Idle]
  /\ UNCHANGED <<db, window, ipc, server, wire, held, drops>>

-----------------------------------------------------------------------------
Bot == WriteLive \/ WriteTurn \/ Heartbeat \/ BeatLapses

Next ==
  \/ Bot
  \/ \E t \in Topics : Send(t) \/ Publish(t) \/ WindowEnds(t)
  \/ StalenessTick \/ FallbackTick
  \/ \E p \in Pages :
       \/ Subscribe(p) \/ Listen(p) \/ Drop(p)
       \/ Open(p) \/ Signal(p) \/ Flush(p) \/ Answer(p) \/ Show(p)

Spec == Init /\ [][Next]_vars

\* Timers fire, messages arrive, streams reconnect and queries are answered;
\* the bot need not do anything.
Fairness ==
  /\ \A t \in Topics : WF_vars(Send(t)) /\ WF_vars(Publish(t)) /\ WF_vars(WindowEnds(t))
  /\ WF_vars(StalenessTick) /\ WF_vars(FallbackTick)
  /\ \A p \in Pages :
       /\ WF_vars(Subscribe(p)) /\ WF_vars(Listen(p))
       /\ WF_vars(Open(p)) /\ WF_vars(Signal(p)) /\ WF_vars(Flush(p))
       /\ WF_vars(Answer(p)) /\ WF_vars(Show(p))

FairSpec == Spec /\ Fairness

-----------------------------------------------------------------------------
TypeOK ==
  /\ db \in [version : 0..MaxVersion, beat : {"fresh", "old"}, prompting : BOOLEAN,
             depth : 0..1, turns : 0..MaxVersion]
  /\ window \subseteq Topics /\ ipc \subseteq Topics
  /\ throttle \in [Topics -> {"open", "closed", "again"}]
  /\ mark = NoMarks \/ mark.version \in 0..db.version
  /\ (mark = NoMarks) <=> ~Running
  /\ conn \in [Pages -> {"none", "registered", "listening"}]
  /\ wire \in [Pages -> SUBSET {"open", "signal"}]
  /\ held \in [Pages -> BOOLEAN]
  /\ \A p \in Pages : fetch[p].stage \in {"idle", "asked", "answered"}
  /\ drops \in 0..MaxDrops

\* The stream of page p will make it ask again.
StreamWillTell(p) == conn[p] # "listening" \/ wire[p] # {} \/ held[p]

\* Its notification is under way, or was not lost.
NotificationUnderWay(p) == p \in window \cup ipc \/ throttle[p] = "again"

\* The next tick will see the change.
TickWillTell(p) ==
  IF p = "session" THEN db.version # mark.version ELSE p \in Recomputed

\* A page that shows, or is about to show, something old will hear of it: no
\* order of commits, signals, ticks, broken streams and refetches that overlap
\* leaves it behind with nothing on its way ("the hub is a correctness backstop
\* for any lost notify").
BehindIsNoticed ==
  \A p \in Pages :
    \/ data[p] = Dto(p) /\ fetch[p] = Idle
    \/ fetch[p] \in {Asked, [stage |-> "answered", answer |-> Dto(p)]}
    \/ StreamWillTell(p) \/ NotificationUnderWay(p) \/ TickWillTell(p)

\* The variables have their types, and no page is left behind unnoticed.
PagesAreServed == TypeOK /\ BehindIsNoticed

\* "Catches any change a dropped notify missed": once the bot writes no more,
\* every page shows, and goes on showing, what the database holds.
Current == \A p \in Pages : data[p] = Dto(p)

PagesCatchUp == <>[]Current
=============================================================================
