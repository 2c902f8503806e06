-------------------------- MODULE LiveUpdatesProofs --------------------------
(***************************************************************************)
(* No open page is left behind with nothing on its way to it, for any set  *)
(* of pages, any number of commits and broken streams: as long as nothing  *)
(* of RaceNames overlaps and only notifications that a fallback tick       *)
(* covers can be lost.                                                     *)
(***************************************************************************)
EXTENDS LiveUpdates, TLAPS

Stages == {"idle", "asked", "answered"}
MarkType == [version : Int, bot : {"none", "fresh", "old"},
             live : {"none", "last-known", "working", "idle"}]

\* What the pages hold: an answer is never empty.
PagesTyped ==
  /\ fetch = [p \in Pages |-> fetch[p]] /\ data = [p \in Pages |-> data[p]]
  /\ \A p \in Pages :
       \/ fetch[p] = Idle \/ fetch[p] = Asked
       \/ /\ fetch[p] = [stage |-> "answered", answer |-> fetch[p].answer]
          /\ fetch[p].answer # NoData

\* No event is handled before the first answer, which is on its way until then.
FirstAnswerComes ==
  \A p \in Pages :
    /\ conn[p] = "listening" \/ wire[p] # {} \/ held[p] => data[p] # NoData
    /\ data[p] = NoData => fetch[p] # Idle

\* Both digests are of one moment: a lapsed heartbeat is in both or in neither.
MarksAgree ==
  /\ mark \in MarkType
  /\ mark # NoMarks =>
       /\ mark.bot # "none"
       /\ mark.bot = "old" <=> mark.live = "last-known"

\* Only the page of live states needs its notification.
Noticed(p) ==
  \/ data[p] = Dto(p) /\ fetch[p] = Idle
  \/ fetch[p] \in {Asked, [stage |-> "answered", answer |-> Dto(p)]}
  \/ StreamWillTell(p) \/ TickWillTell(p)
  \/ p = "live" /\ NotificationUnderWay(p)

AllNoticed == \A p \in Pages : Noticed(p)

\* A turn is written by a commit.
TurnsAreCommits == db.turns <= db.version

ServedInv ==
  TypeOK /\ PagesTyped /\ FirstAnswerComes /\ MarksAgree /\ AllNoticed /\ TurnsAreCommits

-----------------------------------------------------------------------------
(***************************************************************************)
(* Lemmas about the answers and the digests                                *)
(***************************************************************************)
\* getLive(), getBotStatus() and getSession() answer with something.
LEMMA DtoIsSomething == \A p \in Topics : Dto(p) # NoData
<1> SUFFICES ASSUME NEW p \in Topics PROVE Dto(p) # NoData
  OBVIOUS
<1>1. CASE p = "live"
  BY <1>1 DEF Dto, NoData
<1>2. CASE p = "bot-status"
  BY <1>2 DEF Dto, NoData
<1>3. CASE p = "session"
  BY <1>3 DEF Dto, NoData
<1> QED BY <1>1, <1>2, <1>3 DEF Topics

\* The digests as they are now are a pair that agrees.
LEMMA MarksAreMarks ==
  ASSUME TypeOK
  PROVE  /\ Marks \in MarkType /\ Marks.version = db.version
         /\ Marks.bot = db.beat /\ Marks.live = LiveState
         /\ Marks.bot # "none" /\ Marks # NoMarks
         /\ Marks.bot = "old" <=> Marks.live = "last-known"
<1>1. LiveState \in {"last-known", "working", "idle"} /\ (LiveState = "last-known" <=> db.beat = "old")
  BY DEF LiveState
<1>2. db.beat \in {"fresh", "old"} /\ db.version \in 0..MaxVersion
  BY DEF TypeOK
<1> QED BY <1>1, <1>2, LiveUpdatesAssumption DEF Marks, NoMarks, Digest, MarkType

\* What a tick finds to tell.
LEMMA RecomputedIs ==
  /\ "live" \in Recomputed <=> LiveState # mark.live
  /\ "bot-status" \in Recomputed <=> db.beat # mark.bot
  /\ "session" \notin Recomputed
BY DEF Recomputed, Digest

\* An event that finds an answer on the page makes it ask again.
LEMMA InvalidatedAsks ==
  ASSUME PagesTyped, NEW p \in Pages, data[p] # NoData
  PROVE  Invalidated(p) = [fetch EXCEPT ![p] = Asked] /\ Invalidated(p)[p] = Asked
BY DEF Invalidated, PagesTyped

\* A page that is noticed stays so while its data, its query and what is on its
\* way do not change.
LEMMA NoticedStays ==
  ASSUME NEW p \in Pages, Noticed(p), Dto(p)' = Dto(p), data'[p] = data[p],
         fetch'[p] = fetch[p], StreamWillTell(p) => StreamWillTell(p)',
         TickWillTell(p) => TickWillTell(p)' \/ StreamWillTell(p)',
         p = "live" /\ NotificationUnderWay(p) =>
           NotificationUnderWay(p)' \/ StreamWillTell(p)'
  PROVE  Noticed(p)'
BY DEF Noticed, Idle, Asked, NoData

-----------------------------------------------------------------------------
(***************************************************************************)
(* The invariant                                                           *)
(***************************************************************************)
\* What can be lost is what a tick can tell.
Covered == Races = {} /\ Lossy \subseteq {"session", "bot-status"}

LEMMA ServedInit ==
  ASSUME Init
  PROVE  ServedInv
<1> USE LiveUpdatesAssumption DEF Init
<1>1. ~Running
  BY DEF Running
<1>2. TypeOK
  BY <1>1 DEF TypeOK, Asked, NoData
<1>3. PagesTyped /\ FirstAnswerComes
  BY DEF PagesTyped, FirstAnswerComes, Asked, Idle, NoData
<1>4. MarksAgree
  BY DEF MarksAgree, MarkType, NoMarks
<1>5. AllNoticed
  BY DEF AllNoticed, Noticed
<1> QED BY <1>2, <1>3, <1>4, <1>5 DEF ServedInv, TurnsAreCommits

\* The database's type, and what of it the bot's steps can change.
DbType == [version : 0..MaxVersion, beat : {"fresh", "old"}, prompting : BOOLEAN,
           depth : 0..1, turns : 0..MaxVersion]

LEMMA Committed ==
  ASSUME NEW t \in Topics, NEW new \in DbType, db \in DbType, Commit(t, new),
         new.turns <= db.version + 1, window \subseteq Topics
  PROVE  /\ db' \in DbType /\ db'.version = db.version + 1 /\ TurnsAreCommits'
         /\ UNCHANGED <<ipc, server, wire, page, drops>>
         /\ window \subseteq window' /\ window' \subseteq Topics
<1>1. db' = [new EXCEPT !.version = db.version + 1] /\ db.version < MaxVersion
  BY DEF Commit
<1>2. db.version + 1 \in 0..MaxVersion
  BY <1>1, LiveUpdatesAssumption DEF DbType
<1> QED BY <1>1, <1>2 DEF Commit, DbType, TurnsAreCommits

LEMMA BotWrites ==
  ASSUME ServedInv, Bot
  PROVE  /\ db' \in DbType /\ TurnsAreCommits'
         /\ UNCHANGED <<ipc, server, wire, page, drops>>
         /\ window \subseteq window' /\ window' \subseteq Topics
         /\ \/ db'.version > db.version
            \/ BeatLapses /\ db'.version = db.version /\ db'.turns = db.turns
<1> USE LiveUpdatesAssumption
<1>1. db \in DbType /\ window \subseteq Topics /\ db.turns <= db.version
  BY DEF ServedInv, TypeOK, DbType, TurnsAreCommits
<1>2. CASE WriteLive
  <2>1. PICK prompting \in BOOLEAN, depth \in 0..1 :
          Commit("live", [db EXCEPT !.prompting = prompting, !.depth = depth])
    BY <1>2 DEF WriteLive
  <2> DEFINE new == [db EXCEPT !.prompting = prompting, !.depth = depth]
  <2>2. new \in DbType /\ new.turns = db.turns
    BY <1>1 DEF DbType
  <2>3. db.version \in Int /\ db.turns \in Int
    BY <1>1 DEF DbType
  <2>4. new.turns <= db.version + 1
    BY <1>1, <2>2, <2>3
  <2>5. Commit("live", new)
    BY <2>1
  <2> HIDE DEF new
  <2>6. /\ db' \in DbType /\ db'.version = db.version + 1 /\ TurnsAreCommits'
        /\ UNCHANGED <<ipc, server, wire, page, drops>>
        /\ window \subseteq window' /\ window' \subseteq Topics
    <3>1. "live" \in Topics
      BY DEF Topics
    <3> HIDE DEF DbType
    <3> QED BY <3>1, <2>2, <2>4, <2>5, <1>1, Committed
  <2> QED BY <2>3, <2>6
<1>3. CASE WriteTurn
  <2>1. Commit("session", [db EXCEPT !.turns = @ + 1])
    BY <1>3 DEF WriteTurn
  <2>2. db.version < MaxVersion
    BY <2>1 DEF Commit
  <2>3. [db EXCEPT !.turns = @ + 1] \in DbType
    BY <1>1, <2>2 DEF DbType
  <2> QED BY <2>1, <2>3, <1>1, Committed DEF DbType, Topics
<1>4. CASE Heartbeat
  <2>1. Commit("bot-status", [db EXCEPT !.beat = "fresh"])
    BY <1>4 DEF Heartbeat
  <2> QED BY <2>1, <1>1, Committed DEF DbType, Topics
<1>5. CASE BeatLapses
  BY <1>1, <1>5 DEF BeatLapses, DbType, TurnsAreCommits
<1> QED BY <1>2, <1>3, <1>4, <1>5 DEF Bot

\* The bot's commits and its silence.
LEMMA BotStep ==
  ASSUME Covered, ServedInv, Bot
  PROVE  ServedInv'
<1> USE LiveUpdatesAssumption
<1>a. TypeOK /\ PagesTyped /\ FirstAnswerComes /\ MarksAgree /\ AllNoticed
  BY DEF ServedInv
<1>b. /\ db' \in DbType /\ TurnsAreCommits'
      /\ UNCHANGED <<ipc, throttle, mark, conn, wire, held, fetch, data, drops>>
      /\ window \subseteq window' /\ window' \subseteq Topics
      /\ \/ db'.version > db.version
         \/ BeatLapses /\ db'.version = db.version /\ db'.turns = db.turns
  BY BotWrites DEF server, page
<1>c. Running' <=> Running
  BY <1>b DEF Running
<1>d. PagesTyped' /\ FirstAnswerComes' /\ MarksAgree'
  BY <1>a, <1>b DEF PagesTyped, FirstAnswerComes, MarksAgree, NoMarks, MarkType, NoData, Idle, Asked
<1>e. TypeOK'
  <2>1. db \in DbType
    BY <1>a DEF TypeOK, DbType
  <2>2. db.version <= db'.version
    BY <2>1, <1>b DEF DbType
  <2>3. mark' = NoMarks \/ mark'.version \in 0..db'.version
    BY <1>a, <1>b, <2>1, <2>2 DEF TypeOK, DbType
  <2>4. (mark' = NoMarks) <=> ~Running'
    BY <1>a, <1>b, <1>c DEF TypeOK, NoMarks
  <2> QED BY <1>a, <1>b, <2>3, <2>4 DEF TypeOK, DbType
<1>f. ASSUME NEW p \in Pages PROVE Noticed(p)'
  <2>1. CASE conn[p] # "listening"
    BY <2>1, <1>b DEF Noticed, StreamWillTell
  <2>2. CASE conn[p] = "listening"
    <3> Running /\ mark # NoMarks
      BY <2>2, <1>a DEF Running, TypeOK
    <3>1. mark.version \in 0..db.version /\ mark.bot # "none" /\ (mark.bot = "old" <=> mark.live = "last-known")
      BY <1>a DEF TypeOK, MarksAgree
    <3>2. db \in DbType /\ mark \in MarkType
      BY <1>a DEF TypeOK, DbType, MarksAgree
    <3>3. Noticed(p) /\ p \in Topics
      BY <1>a DEF AllNoticed
    <3>4. StreamWillTell(p) => StreamWillTell(p)'
      BY <1>b DEF StreamWillTell
    <3>5. NotificationUnderWay(p) => NotificationUnderWay(p)'
      BY <1>b DEF NotificationUnderWay
    <3>6. CASE p = "session"
      <4>1. CASE db'.version > db.version
        BY <3>1, <3>2, <3>6, <4>1, <1>b DEF Noticed, TickWillTell, DbType
      <4>2. CASE db'.version = db.version /\ db'.turns = db.turns
        BY <3>3, <3>4, <3>6, <4>2, <1>b, NoticedStays DEF Dto, TickWillTell
      <4> QED BY <4>1, <4>2, <1>b
    <3>7. CASE p # "session" /\ UNCHANGED db.beat
      <4>1. CASE WriteLive /\ p = "live"
        <5>1. "live" \in window'
          BY <4>1 DEF WriteLive, Commit
        <5> QED BY <4>1, <5>1 DEF Noticed, NotificationUnderWay
      <4>2. CASE p = "bot-status" \/ ~WriteLive
        <5>1. p = "live" => db'.prompting = db.prompting /\ db'.depth = db.depth
          BY <4>2, <3>2, <3>7 DEF Bot, WriteTurn, Heartbeat, BeatLapses, Commit, DbType
        <5>2. Dto(p)' = Dto(p) /\ (p = "live" => LiveState' = LiveState)
          BY <5>1, <3>7, <3>3 DEF Dto, LiveState, Topics
        <5>3. TickWillTell(p) => TickWillTell(p)'
          BY <5>2, <3>7, <3>3, <1>b, RecomputedIs DEF TickWillTell, Topics, Recomputed, Digest
        <5> QED BY <5>2, <5>3, <3>3, <3>4, <3>5, <1>b, NoticedStays
      <4> QED BY <4>1, <4>2, <3>3, <3>7 DEF Topics
    <3>8. CASE p # "session" /\ db'.beat # db.beat
      <4>1. mark.bot = db.beat
        BY <3>8, <3>2, <1>a DEF Bot, WriteLive, WriteTurn, Heartbeat, BeatLapses, Commit, DbType, TickSawBeat, Covered
      <4>2. mark.live = "last-known" <=> db.beat = "old"
        BY <4>1, <3>1
      <4>3. LiveState' = "last-known" <=> db'.beat = "old"
        BY DEF LiveState
      <4>4. mark.live # LiveState' /\ mark.bot # db'.beat
        BY <4>1, <4>2, <4>3, <3>8, <3>2, <1>b DEF DbType
      <4>5. p \in Recomputed'
        BY <4>4, <3>3, <3>8, <1>b DEF Recomputed, Digest, Topics
      <4> QED BY <4>5, <3>8 DEF Noticed, TickWillTell
    <3> QED BY <3>6, <3>7, <3>8
  <2> QED BY <2>1, <2>2
<1> QED BY <1>b, <1>d, <1>e, <1>f DEF ServedInv, AllNoticed

\* A notification leaves the bot, or is lost on its way.
LEMMA SendStep ==
  ASSUME Covered, ServedInv, NEW t \in Topics, Send(t)
  PROVE  ServedInv'
<1>a. TypeOK /\ PagesTyped /\ FirstAnswerComes /\ MarksAgree /\ AllNoticed
  BY DEF ServedInv
<1>b. UNCHANGED <<db, throttle, mark, conn, wire, held, fetch, data, drops>>
  BY DEF Send, server, page
<1>1. window' \subseteq Topics /\ ipc' \subseteq Topics
  BY <1>a DEF Send, TypeOK
<1>2. "live" \in window \cup ipc => "live" \in window' \cup ipc'
  BY DEF Send, Covered
<1>3. AllNoticed'
  BY <1>2, <1>a, <1>b DEF AllNoticed, Noticed, StreamWillTell, TickWillTell,
     NotificationUnderWay, Recomputed, Digest, LiveState, Dto
<1>4. TypeOK'
  BY <1>1, <1>a, <1>b DEF TypeOK, Running, NoMarks
<1>5. PagesTyped' /\ FirstAnswerComes' /\ MarksAgree' /\ TurnsAreCommits'
  BY <1>a, <1>b DEF ServedInv, PagesTyped, FirstAnswerComes, MarksAgree, TurnsAreCommits,
     NoMarks, MarkType
<1> QED BY <1>3, <1>4, <1>5 DEF ServedInv

\* What an event sent to the listening pages of some topics does: their streams
\* will tell them.
LEMMA FannedOut ==
  ASSUME ServedInv, NEW topics, FanOut(topics), UNCHANGED <<db, conn, page, drops>>,
         mark' \in MarkType, MarksAgree',
         mark' = NoMarks \/ mark'.version \in 0..db.version,
         (mark' = NoMarks) <=> ~Running,
         throttle' \in [Topics -> {"open", "closed", "again"}],
         window' \subseteq Topics, ipc' \subseteq Topics,
         \A p \in Pages : TickWillTell(p) => TickWillTell(p)' \/ p \in topics,
         NotificationUnderWay("live") => NotificationUnderWay("live")' \/ "live" \in topics
  PROVE  ServedInv'
<1>a. TypeOK /\ PagesTyped /\ FirstAnswerComes /\ MarksAgree /\ AllNoticed
  BY DEF ServedInv
<1>b. UNCHANGED <<db, conn, held, fetch, data, drops>>
  BY DEF page
<1>1. /\ wire' \in [Pages -> SUBSET {"open", "signal"}]
      /\ \A p \in Pages : /\ wire[p] \subseteq wire'[p]
                          /\ wire'[p] # {} => wire[p] # {} \/ conn[p] = "listening"
                          /\ p \in topics => StreamWillTell(p)'
  BY <1>a, <1>b DEF FanOut, TypeOK, StreamWillTell
<1>2. TypeOK'
  BY <1>1, <1>a, <1>b DEF TypeOK, Running, NoMarks
<1>3. PagesTyped' /\ FirstAnswerComes' /\ TurnsAreCommits'
  BY <1>1, <1>a, <1>b DEF ServedInv, PagesTyped, FirstAnswerComes, TurnsAreCommits
<1>4. ASSUME NEW p \in Pages PROVE Noticed(p)'
  <2>1. Noticed(p) /\ (StreamWillTell(p) => StreamWillTell(p)')
    BY <1>1, <1>a, <1>b DEF AllNoticed, StreamWillTell
  <2>2. Dto(p)' = Dto(p)
    BY <1>b DEF Dto, LiveState
  <2> QED BY <2>1, <2>2, <1>1, <1>b, NoticedStays
<1> QED BY <1>2, <1>3, <1>4 DEF ServedInv, AllNoticed

\* The bus and its throttle.
LEMMA PublishStep ==
  ASSUME ServedInv, NEW t \in Topics, Publish(t)
  PROVE  ServedInv'
<1>a. TypeOK /\ MarksAgree
  BY DEF ServedInv
<1> DEFINE told == IF throttle[t] = "open" THEN {t} ELSE {}
<1>1. FanOut(told) /\ UNCHANGED <<db, window, mark, conn, page, drops>>
  BY DEF Publish
<1>2. /\ throttle' \in [Topics -> {"open", "closed", "again"}] /\ ipc' = ipc \ {t}
      /\ throttle[t] # "open" => throttle'[t] = "again"
      /\ \A u \in Topics \ {t} : throttle'[u] = throttle[u]
  BY <1>a DEF Publish, TypeOK
<1>3. NotificationUnderWay("live") => NotificationUnderWay("live")' \/ "live" \in told
  BY <1>1, <1>2 DEF NotificationUnderWay, Topics
<1>4. \A p \in Pages : TickWillTell(p) => TickWillTell(p)' \/ p \in told
  BY <1>1 DEF TickWillTell, Recomputed, Digest, LiveState
<1>5. MarksAgree' /\ mark' \in MarkType
  BY <1>a, <1>1 DEF MarksAgree, NoMarks, MarkType
<1>6. window' \subseteq Topics /\ ipc' \subseteq Topics
  BY <1>a, <1>1, <1>2 DEF TypeOK
<1>7. (mark' = NoMarks \/ mark'.version \in 0..db.version) /\ ((mark' = NoMarks) <=> ~Running)
  BY <1>a, <1>1 DEF TypeOK
<1> HIDE DEF told
<1> QED BY <1>1, <1>2, <1>3, <1>4, <1>5, <1>6, <1>7, FannedOut

LEMMA WindowEndsStep ==
  ASSUME ServedInv, NEW t \in Topics, WindowEnds(t)
  PROVE  ServedInv'
<1>a. TypeOK /\ MarksAgree
  BY DEF ServedInv
<1>1. FanOut(Trailing(t)) /\ UNCHANGED <<db, window, ipc, mark, conn, page, drops>>
  BY DEF WindowEnds
<1>2. /\ throttle' \in [Topics -> {"open", "closed", "again"}]
      /\ throttle[t] = "again" => t \in Trailing(t)
      /\ \A u \in Topics \ {t} : throttle'[u] = throttle[u]
  BY <1>a DEF WindowEnds, TypeOK, Trailing
<1>3. NotificationUnderWay("live") => NotificationUnderWay("live")' \/ "live" \in Trailing(t)
  BY <1>1, <1>2 DEF NotificationUnderWay, Topics
<1>4. \A p \in Pages : TickWillTell(p) => TickWillTell(p)' \/ p \in Trailing(t)
  BY <1>1 DEF TickWillTell, Recomputed, Digest, LiveState
<1>5. MarksAgree' /\ mark' \in MarkType
  BY <1>a, <1>1 DEF MarksAgree, NoMarks, MarkType
<1>6. window' \subseteq Topics /\ ipc' \subseteq Topics
  BY <1>a, <1>1 DEF TypeOK
<1>7. (mark' = NoMarks \/ mark'.version \in 0..db.version) /\ ((mark' = NoMarks) <=> ~Running)
  BY <1>a, <1>1 DEF TypeOK
<1> QED BY <1>1, <1>2, <1>3, <1>4, <1>5, <1>6, <1>7, FannedOut

\* The ticks.
LEMMA StalenessTickStep ==
  ASSUME ServedInv, StalenessTick
  PROVE  ServedInv'
<1>a. TypeOK /\ MarksAgree /\ Running /\ mark # NoMarks
  BY DEF ServedInv, StalenessTick, TypeOK
<1>1. FanOut(Recomputed) /\ UNCHANGED <<db, window, ipc, throttle, conn, page, drops>>
  BY DEF StalenessTick
<1>2. /\ mark' = [Marks EXCEPT !.version = mark.version] /\ mark.version \in 0..db.version
      /\ Marks \in MarkType /\ Marks.bot # "none" /\ (Marks.bot = "old" <=> Marks.live = "last-known")
  BY <1>a, MarksAreMarks DEF StalenessTick, TypeOK
<1>3. /\ mark' \in MarkType /\ mark'.version = mark.version
      /\ mark'.bot = Marks.bot /\ mark'.live = Marks.live
  BY <1>2, <1>a DEF MarkType, MarksAgree
<1>4. mark' # NoMarks /\ MarksAgree' /\ mark'.version \in 0..db.version
  BY <1>2, <1>3 DEF MarksAgree, NoMarks
<1>5. \A p \in Pages : TickWillTell(p) => TickWillTell(p)' \/ p \in Recomputed
  BY <1>1, <1>3 DEF TickWillTell
<1>6. NotificationUnderWay("live") => NotificationUnderWay("live")'
  BY <1>1 DEF NotificationUnderWay
<1>7. throttle' \in [Topics -> {"open", "closed", "again"}] /\ window' \subseteq Topics /\ ipc' \subseteq Topics
  BY <1>a, <1>1 DEF TypeOK
<1> QED BY <1>a, <1>1, <1>3, <1>4, <1>5, <1>6, <1>7, FannedOut

LEMMA FallbackTickStep ==
  ASSUME ServedInv, FallbackTick
  PROVE  ServedInv'
<1>a. TypeOK /\ MarksAgree /\ Running
  BY DEF ServedInv, FallbackTick
<1>1. FanOut(Advanced) /\ mark' = Marks /\ UNCHANGED <<db, window, ipc, throttle, conn, page, drops>>
  BY DEF FallbackTick
<1>2. /\ mark' \in MarkType /\ mark'.version = db.version /\ mark' # NoMarks /\ mark'.bot # "none"
      /\ mark'.bot = "old" <=> mark'.live = "last-known"
  BY <1>a, <1>1, MarksAreMarks
<1>3. MarksAgree' /\ mark'.version \in 0..db.version
  BY <1>2, <1>a DEF MarksAgree, TypeOK
<1>5. \A p \in Pages : TickWillTell(p) => TickWillTell(p)' \/ p \in Advanced
  BY DEF TickWillTell, Advanced
<1>6. NotificationUnderWay("live") => NotificationUnderWay("live")'
  BY <1>1 DEF NotificationUnderWay
<1>7. throttle' \in [Topics -> {"open", "closed", "again"}] /\ window' \subseteq Topics /\ ipc' \subseteq Topics
  BY <1>a, <1>1 DEF TypeOK
<1> QED BY <1>a, <1>1, <1>2, <1>3, <1>5, <1>6, <1>7, FannedOut

-----------------------------------------------------------------------------
(***************************************************************************)
(* The streams and the pages                                               *)
(***************************************************************************)
\* A stream of page p opens or breaks: the watermarks go with the last stream.
LEMMA StreamStep ==
  ASSUME Covered, ServedInv, NEW p \in Pages, Subscribe(p) \/ Listen(p) \/ Drop(p)
  PROVE  ServedInv'
<1> USE LiveUpdatesAssumption
<1>a. TypeOK /\ PagesTyped /\ FirstAnswerComes /\ MarksAgree /\ AllNoticed
  BY DEF ServedInv
<1>b. UNCHANGED <<db, window, ipc, throttle, held, fetch, data>>
  BY DEF Subscribe, Listen, Drop, page
<1>1. /\ conn' \in [Pages -> {"none", "registered", "listening"}]
      /\ wire' \in [Pages -> SUBSET {"open", "signal"}]
      /\ \A q \in Pages \ {p} : conn'[q] = conn[q] /\ wire'[q] = wire[q]
  BY <1>a DEF Subscribe, Listen, Drop, TypeOK
<1>2. /\ conn'[p] = "listening" => wire'[p] # {} /\ data[p] # NoData
      /\ wire'[p] # {} => wire[p] # {} \/ conn'[p] = "listening"
  BY <1>a DEF Subscribe, Listen, Drop, TypeOK, Covered
<1>3. /\ mark' \in {mark, Marks, NoMarks}
      /\ (mark' = NoMarks) <=> ~Running'
      /\ \A q \in Pages \ {p} : conn[q] = "listening" => mark' = mark
  <2>m. Marks # NoMarks /\ ((mark = NoMarks) <=> ~Running)
    BY <1>a, MarksAreMarks DEF TypeOK
  <2>1. CASE Subscribe(p)
    BY <2>1, <2>m, <1>1, <1>a DEF Subscribe, Running, TypeOK
  <2>2. CASE Listen(p)
    BY <2>2, <2>m, <1>1, <1>a DEF Listen, Running, TypeOK
  <2>3. CASE Drop(p)
    <3>1. conn'[p] = "none"
      BY <2>3, <1>a DEF Drop, TypeOK
    <3>2. Running' <=> \E q \in Pages \ {p} : conn[q] # "none"
      BY <3>1, <1>1 DEF Running
    <3>3. Running
      BY <2>3 DEF Drop, Running
    <3> QED BY <2>3, <3>2, <3>3, <2>m DEF Drop
  <2> QED BY <2>1, <2>2, <2>3
<1>4. NoMarks \in MarkType
  BY DEF NoMarks, MarkType
<1>5. MarksAgree' /\ (mark' = NoMarks \/ mark'.version \in 0..db.version)
  BY <1>3, <1>4, <1>a, MarksAreMarks DEF MarksAgree, TypeOK
<1>6. TypeOK'
  <2>1. drops' \in 0..MaxDrops
    BY <1>a DEF Subscribe, Listen, Drop, page, TypeOK
  <2> QED BY <2>1, <1>1, <1>3, <1>5, <1>a, <1>b DEF TypeOK
<1>7. PagesTyped' /\ FirstAnswerComes' /\ TurnsAreCommits'
  BY <1>1, <1>2, <1>a, <1>b DEF ServedInv, PagesTyped, FirstAnswerComes, TurnsAreCommits
<1>8. ASSUME NEW q \in Pages PROVE Noticed(q)'
  <2>1. CASE q = p \/ conn[q] # "listening"
    BY <2>1, <1>1, <1>2, <1>b DEF Noticed, StreamWillTell
  <2>2. CASE q # p /\ conn[q] = "listening"
    <3>1. mark' = mark
      BY <2>2, <1>3
    <3> QED BY <2>2, <3>1, <1>1, <1>a, <1>b DEF AllNoticed, Noticed, StreamWillTell,
            TickWillTell, NotificationUnderWay, Recomputed, Digest, LiveState, Dto
  <2> QED BY <2>1, <2>2
<1> QED BY <1>5, <1>6, <1>7, <1>8 DEF ServedInv, AllNoticed

\* A page handles what reached it, asks, and shows what it was answered.
LEMMA PageStep ==
  ASSUME ServedInv, NEW p \in Pages, Open(p) \/ Signal(p) \/ Flush(p) \/ Answer(p) \/ Show(p)
  PROVE  ServedInv'
<1> USE LiveUpdatesAssumption
<1>a. TypeOK /\ PagesTyped /\ FirstAnswerComes /\ MarksAgree /\ AllNoticed
  BY DEF ServedInv
<1>b. UNCHANGED <<db, window, ipc, throttle, mark, conn, drops>>
  BY DEF Open, Signal, Flush, Answer, Show, server
<1>1. /\ wire' \in [Pages -> SUBSET {"open", "signal"}] /\ held' \in [Pages -> BOOLEAN]
      /\ \A q \in Pages \ {p} : wire'[q] = wire[q] /\ held'[q] = held[q]
      /\ wire'[p] \subseteq wire[p]
      /\ held'[p] => held[p] \/ wire[p] # {}
  <2>t. wire \in [Pages -> SUBSET {"open", "signal"}] /\ held \in [Pages -> BOOLEAN]
    BY <1>a DEF TypeOK
  <2>1. CASE Open(p)
    BY <2>1, <2>t DEF Open
  <2>2. CASE Signal(p)
    <3>1. wire' = [wire EXCEPT ![p] = {}] /\ wire[p] = {"signal"}
      BY <2>2 DEF Signal
    <3>2. held' = [held EXCEPT ![p] = TRUE] \/ held' = held
      BY <2>2 DEF Signal
    <3> QED BY <3>1, <3>2, <2>t
  <2>3. CASE Flush(p)
    BY <2>3, <2>t DEF Flush
  <2>4. CASE Answer(p) \/ Show(p)
    BY <2>4, <2>t DEF Answer, Show
  <2> QED BY <2>1, <2>2, <2>3, <2>4
<1>3. CASE Open(p) \/ Signal(p) \/ Flush(p)
  <2>1. data[p] # NoData /\ data' = data
    BY <1>3, <1>a DEF FirstAnswerComes, Open, Signal, Flush
  <2>2. Invalidated(p) = [fetch EXCEPT ![p] = Asked]
    BY <2>1, <1>a, InvalidatedAsks
  <2>3. \/ fetch' = [fetch EXCEPT ![p] = Asked]
        \/ fetch' = fetch /\ held'[p]
    BY <1>3, <2>2, <1>a DEF Open, Opened, Signal, Flush, TypeOK
  <2>4. /\ fetch' = [q \in Pages |-> fetch'[q]]
        /\ \A q \in Pages \ {p} : fetch'[q] = fetch[q]
        /\ fetch'[p] = Asked \/ (fetch'[p] = fetch[p] /\ held'[p])
    BY <2>3, <1>a DEF PagesTyped
  <2>5. PagesTyped' /\ FirstAnswerComes'
    BY <2>1, <2>4, <1>1, <1>a, <1>b DEF PagesTyped, FirstAnswerComes, Asked, Idle
  <2>6. TypeOK'
    BY <2>4, <1>1, <1>a, <1>b DEF TypeOK, Running, NoMarks, Asked
  <2>7. ASSUME NEW q \in Pages PROVE Noticed(q)'
    <3>1. CASE q = p
      BY <3>1, <2>4 DEF Noticed, StreamWillTell
    <3>2. CASE q # p
      BY <3>2, <2>1, <2>4, <1>1, <1>a, <1>b DEF AllNoticed, Noticed, StreamWillTell,
         TickWillTell, NotificationUnderWay, Recomputed, Digest, LiveState, Dto
    <3> QED BY <3>1, <3>2
  <2> QED BY <2>5, <2>6, <2>7, <1>a, <1>b DEF ServedInv, AllNoticed, MarksAgree, TurnsAreCommits
<1>4. CASE Answer(p) \/ Show(p)
  <2>1. UNCHANGED <<wire, held>>
    BY <1>4 DEF Answer, Show
  <2>2. CASE Answer(p)
    <3>1. /\ fetch' = [fetch EXCEPT ![p] = [stage |-> "answered", answer |-> Dto(p)]]
          /\ data' = data /\ fetch[p] # Idle
      BY <2>2 DEF Answer, Idle
    <3>2. /\ fetch' = [q \in Pages |-> fetch'[q]]
          /\ \A q \in Pages \ {p} : fetch'[q] = fetch[q]
          /\ fetch'[p] = [stage |-> "answered", answer |-> Dto(p)]
      BY <3>1, <1>a DEF PagesTyped
    <3>3. Dto(p) # NoData
      BY DtoIsSomething
    <3>4. PagesTyped' /\ FirstAnswerComes'
      BY <3>1, <3>2, <3>3, <2>1, <1>a, <1>b DEF PagesTyped, FirstAnswerComes, Idle
    <3>5. TypeOK'
      BY <3>2, <2>1, <1>a, <1>b DEF TypeOK, Running, NoMarks
    <3>6. ASSUME NEW q \in Pages PROVE Noticed(q)'
      <4>1. Dto(q)' = Dto(q)
        BY <1>b DEF Dto, LiveState
      <4>2. CASE q = p
        BY <4>1, <4>2, <3>2 DEF Noticed
      <4>3. CASE q # p
        BY <4>1, <4>3, <3>1, <3>2, <2>1, <1>a, <1>b DEF AllNoticed, Noticed, StreamWillTell,
           TickWillTell, NotificationUnderWay, Recomputed, Digest, LiveState
      <4> QED BY <4>2, <4>3
    <3> QED BY <3>4, <3>5, <3>6, <1>a, <1>b DEF ServedInv, AllNoticed, MarksAgree, TurnsAreCommits
  <2>3. CASE Show(p)
    <3>1. /\ fetch' = [fetch EXCEPT ![p] = Idle]
          /\ data' = [data EXCEPT ![p] = fetch[p].answer]
          /\ fetch[p].stage = "answered"
      BY <2>3 DEF Show
    <3>2. /\ fetch' = [q \in Pages |-> fetch'[q]] /\ data' = [q \in Pages |-> data'[q]]
          /\ \A q \in Pages \ {p} : fetch'[q] = fetch[q] /\ data'[q] = data[q]
          /\ fetch'[p] = Idle /\ data'[p] = fetch[p].answer
      BY <3>1, <1>a DEF PagesTyped
    <3>3. fetch[p] = [stage |-> "answered", answer |-> fetch[p].answer] /\ fetch[p].answer # NoData
      BY <3>1, <1>a DEF PagesTyped, Idle, Asked
    <3>4. PagesTyped' /\ FirstAnswerComes'
      BY <3>2, <3>3, <2>1, <1>a, <1>b DEF PagesTyped, FirstAnswerComes
    <3>5. TypeOK'
      BY <3>2, <2>1, <1>a, <1>b DEF TypeOK, Running, NoMarks, Idle
    <3>6. ASSUME NEW q \in Pages PROVE Noticed(q)'
      <4>1. Dto(q)' = Dto(q) /\ Noticed(q)
        BY <1>a, <1>b DEF Dto, LiveState, AllNoticed
      <4>2. CASE q = p
        <5>1. fetch[p] # Idle /\ fetch[p] # Asked
          BY <3>1 DEF Idle, Asked
        <5> QED BY <5>1, <4>1, <4>2, <3>2, <2>1, <1>b DEF Noticed, StreamWillTell,
                TickWillTell, NotificationUnderWay, Recomputed, Digest, LiveState
      <4>3. CASE q # p
        BY <4>1, <4>3, <3>2, <2>1, <1>b DEF Noticed, StreamWillTell,
           TickWillTell, NotificationUnderWay, Recomputed, Digest, LiveState
      <4> QED BY <4>2, <4>3
    <3> QED BY <3>4, <3>5, <3>6, <1>a, <1>b DEF ServedInv, AllNoticed, MarksAgree, TurnsAreCommits
  <2> QED BY <1>4, <2>2, <2>3
<1> QED BY <1>3, <1>4

-----------------------------------------------------------------------------
(***************************************************************************)
(* The theorem                                                             *)
(***************************************************************************)
LEMMA ServedStep ==
  ASSUME Covered, ServedInv, [Next]_vars
  PROVE  ServedInv'
<1>1. CASE Next
  <2>1. CASE \E t \in Topics : Send(t) \/ Publish(t) \/ WindowEnds(t)
    BY <2>1, SendStep, PublishStep, WindowEndsStep
  <2>2. CASE \E p \in Pages : Subscribe(p) \/ Listen(p) \/ Drop(p)
    BY <2>2, StreamStep
  <2>3. CASE \E p \in Pages : Open(p) \/ Signal(p) \/ Flush(p) \/ Answer(p) \/ Show(p)
    BY <2>3, PageStep
  <2> QED BY <1>1, <2>1, <2>2, <2>3, BotStep, StalenessTickStep, FallbackTickStep DEF Next
<1>2. CASE UNCHANGED vars
  <2>1. UNCHANGED <<db, window, ipc, throttle, mark, conn, wire, held, fetch, data, drops>>
    BY <1>2 DEF vars, server, page
  <2>2. TypeOK'
    BY <2>1 DEF ServedInv, TypeOK, Running, NoMarks
  <2>3. AllNoticed'
    BY <2>1 DEF ServedInv, AllNoticed, Noticed, StreamWillTell, TickWillTell,
       NotificationUnderWay, Recomputed, Digest, LiveState, Dto
  <2> QED BY <2>1, <2>2, <2>3 DEF ServedInv, PagesTyped, FirstAnswerComes, MarksAgree,
          TurnsAreCommits, NoMarks, MarkType, NoData, Idle
<1> QED BY <1>1, <1>2

\* However many pages are open, whatever the bot commits and whichever streams
\* break, a page that shows something old has a fetch, an event, a notification
\* or a tick on its way that will tell it: sse-hub.service.ts is "a correctness
\* backstop for any lost notify" for what its ticks can see.
THEOREM NoPageIsLeftBehind ==
  ASSUME Covered
  PROVE  Spec => []PagesAreServed
<1>1. Init => ServedInv
  BY ServedInit
<1>2. ServedInv /\ [Next]_vars => ServedInv'
  BY ServedStep
<1>3. ServedInv => PagesAreServed
  BY DEF ServedInv, PagesAreServed, AllNoticed, Noticed, BehindIsNoticed
<1> QED BY <1>1, <1>2, <1>3, PTL DEF Spec
=============================================================================
