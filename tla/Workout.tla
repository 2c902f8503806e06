------------------------------- MODULE Workout -------------------------------
(***************************************************************************)
(* One training session of swole, from its first set to its completion:    *)
(* the runner pages that log sets optimistically (SessionRunner.tsx,       *)
(* core/session-machine.ts), the page that saves the new starting weights  *)
(* (CompleteRunner.tsx) and the transactions of the server (db/setLogs.ts, *)
(* db/progressions.ts, db/sessions.ts). The session may be open in several *)
(* tabs; a request or its answer may be lost.                              *)
(*                                                                         *)
(* A page has one call under way. The answer of a call that changed the    *)
(* database carries the page as the server renders it then. An increment   *)
(* is 1; an exercise that is not weighted has weight 0.                    *)
(***************************************************************************)
EXTENDS Integers, FiniteSets, Sequences, SequencesExt

CONSTANTS
  Tabs,
  Sets,      \* the routine: the sets of each exercise, in order
  Weighted,  \* the exercises with a weight
  Start0,    \* their starting weight
  Acts,      \* what a user may press, among ActNames
  Races,     \* what may overlap, among RaceNames
  MaxUndos,  \* bound
  MaxLost    \* bound: requests and answers lost

Exercises == DOMAIN Sets
ActNames == {"Increment", "Stay", "Decrement", "Complete", "Failed"}

\*   stale_undo   an undo while another tab is open
\*   lost_undo    the answer of an undo is lost
\*   early_finish the last set is still being saved when the session is finished
\*   late_append  a set is logged after new starting weights were computed
RaceNames == {"stale_undo", "lost_undo", "early_finish", "late_append"}

WorkoutAssumption ==
  /\ Sets \in Seq(Nat \ {0}) /\ Weighted \subseteq Exercises /\ Start0 \in Nat
  /\ Acts \subseteq ActNames /\ Races \subseteq RaceNames
  /\ MaxUndos \in Nat /\ MaxLost \in Nat

VARIABLES
  db,     \* the session, its set logs, the starting weights, the progressions' exercises
  tabs,   \* each tab: its page and what it holds
  undos,  \* undos so far
  lost    \* requests and answers lost so far

vars == <<db, tabs, undos, lost>>

NoCall == [op |-> "none"]
NoPage == [page |-> "away", base |-> [logs |-> <<>>, start |-> <<>>], call |-> NoCall,
           prompts |-> <<>>, idx |-> 0]

-----------------------------------------------------------------------------
(***************************************************************************)
(* The state machine of a session                                          *)
(***************************************************************************)
Of(logs, e) == SelectSeq(logs, LAMBDA l : l.ex = e)
Count(logs, e) == Len(Of(logs, e))

\* The exercises that lack a set. findActivePosition() takes the first of them
\* unless resolveActiveOverride() keeps the one that was jumped to.
OpenIn(logs) == {e \in Exercises : Count(logs, e) < Sets[e]}

\* deriveNextWeight()
Step(l) == CASE l.act = "Increment" -> l.weight + 1
             [] l.act = "Decrement" -> l.weight - 1
             [] OTHER -> l.weight

NextWeight(page, e) ==
  IF e \notin Weighted THEN 0
  ELSE IF Of(page.logs, e) = <<>> THEN page.start[e] ELSE Step(Last(Of(page.logs, e)))

\* isValidActionForCell()
Valid(e, set) ==
  IF e \notin Weighted THEN Acts \cap {"Complete", "Failed"}
  ELSE Acts \ {IF set = Sets[e] THEN "Increment" ELSE "Complete"}

NewLog(page, e, act) ==
  [ex |-> e, set |-> Count(page.logs, e) + 1, weight |-> NextWeight(page, e), act |-> act]

\* classifyPostSession(): a weighted exercise goes on where it ended, unless its
\* last set failed.
NewStart(logs, start, e) ==
  IF Last(Of(logs, e)).act = "Failed" THEN start[e] ELSE Last(Of(logs, e)).weight

Prompts(page) ==
  LET logged == {e \in Weighted : Of(page.logs, e) # <<>>}
  IN  [i \in 1..Cardinality(logged) |->
         LET e == SetToSortSeq(logged, <)[i]
         IN  [ex |-> e, weight |-> NewStart(page.logs, page.start, e)]]

-----------------------------------------------------------------------------
(***************************************************************************)
(* The server                                                              *)
(***************************************************************************)
\* buildSessionState()
Hydrated == [logs |-> db.logs, start |-> db.start]

Init ==
  /\ db = [session |-> "active", logs |-> <<>>, start |-> [e \in Exercises |-> Start0],
           rows |-> {}]
  /\ tabs = [t \in Tabs |-> NoPage]
  /\ undos = 0 /\ lost = 0

Taken(l) == \E i \in DOMAIN db.logs : db.logs[i].ex = l.ex /\ db.logs[i].set = l.set

\* appendSetLog(): what it answers.
AppendAnswer(l) ==
  CASE l.ex \in Weighted /\ l.weight < 1 -> "ValidationError"
    [] db.session = "deleted" -> "NotFoundError"
    [] db.session = "completed" -> "SessionAlreadyCompleted"
    [] db.session = "active" /\ Taken(l) -> "DuplicateSetLog"
    [] OTHER -> "ok"

\* undoLastSetLog()
UndoAnswer ==
  CASE db.session = "deleted" -> "NotFoundError"
    [] db.session = "completed" -> "UndoBlockedBySessionCompleted"
    [] db.session = "active" /\ db.rows # {} -> "UndoBlockedByCommittedProgression"
    [] OTHER -> "ok"

\* The transaction of a call, and the answer on its way.
Served(t) ==
  LET call == tabs[t].call
      answer == IF call.op = "append" THEN AppendAnswer(call.log) ELSE UndoAnswer
      logs == IF answer # "ok" THEN db.logs
              ELSE IF call.op = "append" THEN Append(db.logs, call.log)
              ELSE IF db.logs = <<>> THEN <<>> ELSE Front(db.logs)
  IN  /\ call.op \in {"append", "undo"}
      /\ db' = [db EXCEPT !.logs = logs]
      /\ tabs' = [tabs EXCEPT ![t].call = [op |-> "answer", kind |-> answer, of |-> call.op,
                                           page |-> [logs |-> logs, start |-> db.start]]]
      /\ UNCHANGED <<undos, lost>>

-----------------------------------------------------------------------------
(***************************************************************************)
(* The runner                                                              *)
(***************************************************************************)
Shows(t, page) == tabs[t].page = page
Goes(t, tab) == tabs' = [tabs EXCEPT ![t] = tab]
Away(t) == [NoPage EXCEPT !.call = tabs[t].call]

Under(race, calm) == race \in Races \/ calm

Open(t) ==
  /\ Shows(t, "away") /\ tabs[t].call = NoCall /\ db.session = "active"
  /\ Under("stale_undo", \A u \in Tabs : tabs[u].call.op # "undo")
  /\ Goes(t, [tabs[t] EXCEPT !.page = "runner", !.base = Hydrated])
  /\ UNCHANGED <<db, undos, lost>>

Leave(t) ==
  /\ ~Shows(t, "away") /\ tabs[t].call = NoCall
  /\ Goes(t, Away(t))
  /\ UNCHANGED <<db, undos, lost>>

Calm == db.rows = {} /\ \A t \in Tabs : ~Shows(t, "finish")

\* onAction(), after the user has jumped to exercise e or not.
Log(t, e, act) ==
  LET page == tabs[t].base
      new == NewLog(page, e, act)
  IN  /\ Shows(t, "runner") /\ tabs[t].call = NoCall /\ e \in OpenIn(page.logs)
      /\ Under("late_append", Calm)
      /\ act \in Valid(e, new.set)
      /\ Goes(t, [tabs[t] EXCEPT !.call = [op |-> "append", log |-> new]])
      /\ UNCHANGED <<db, undos, lost>>

\* onUndo()
Undo(t) ==
  /\ Shows(t, "runner") /\ tabs[t].call = NoCall /\ tabs[t].base.logs # <<>>
  /\ undos < MaxUndos /\ undos' = undos + 1
  /\ Under("stale_undo", \A u \in Tabs \ {t} : Shows(u, "away"))
  /\ Goes(t, [tabs[t] EXCEPT !.call = [op |-> "undo"]])
  /\ UNCHANGED <<db, lost>>

\* What the runner does with an answer; router.refresh() answers at once.
AfterAnswer(tab, answer) ==
  CASE answer.kind = "ok" -> [tab EXCEPT !.base = answer.page]
    [] answer.kind = "DuplicateSetLog" ->
         IF db.session = "active" THEN [tab EXCEPT !.base = Hydrated] ELSE NoPage
    [] answer.kind \in {"SessionAlreadyCompleted", "UndoBlockedBySessionCompleted"} -> NoPage
    [] OTHER -> tab

Answered(t) ==
  LET tab == [tabs[t] EXCEPT !.call = NoCall]
  IN  /\ tabs[t].call.op = "answer"
      /\ Goes(t, IF Shows(t, "runner") THEN AfterAnswer(tab, tabs[t].call) ELSE tab)
      /\ UNCHANGED <<db, undos, lost>>

\* The request or its answer is lost: the call throws, the page shows its error
\* boundary, and on "Try again" the runner starts from the props it had.
Lost(t) ==
  /\ tabs[t].call # NoCall /\ lost < MaxLost
  /\ lost' = lost + 1
  /\ tabs[t].call.op = "answer" /\ tabs[t].call.of = "undo" => "lost_undo" \in Races
  /\ Goes(t, [tabs[t] EXCEPT !.call = NoCall])
  /\ UNCHANGED <<db, undos>>

-----------------------------------------------------------------------------
(***************************************************************************)
(* Finishing                                                               *)
(***************************************************************************)
\* What the runner shows while a call is under way.
Optimistic(t) ==
  IF tabs[t].call.op = "append" THEN Append(tabs[t].base.logs, tabs[t].call.log)
  ELSE tabs[t].base.logs

\* The finish button waits for the calls of the page, the one after the last set
\* does not. The page of a session that is not active is left at once.
Finish(t) ==
  /\ Shows(t, "runner") /\ Optimistic(t) # <<>>
  /\ Under("late_append", \A u \in Tabs \ {t} : tabs[u].call.op # "append")
  /\ tabs[t].call = NoCall \/ ("early_finish" \in Races /\ OpenIn(Optimistic(t)) = {})
  /\ Goes(t, IF db.session # "active" THEN Away(t)
             ELSE [Away(t) EXCEPT !.page = "finish", !.prompts = Prompts(Hydrated), !.idx = 1])
  /\ UNCHANGED <<db, undos, lost>>

Saves(t) == Shows(t, "finish") /\ tabs[t].idx <= Len(tabs[t].prompts)

\* Mutant of AfterCommit: the last weight is left out.
AfterCommitOneShort(tab) == IF tab.idx + 1 >= Len(tab.prompts) THEN Len(tab.prompts) + 1 ELSE tab.idx + 1

\* The prompt that follows, past the last one when they are all done.
AfterCommit(tab) == tab.idx + 1

\* commitProgressionDecision() for one exercise, in one transaction; the page is
\* rendered again with its answer.
Commit(t) ==
  LET p == tabs[t].prompts[tabs[t].idx]
      new == [db EXCEPT !.rows = @ \cup {p.ex}, !.start[p.ex] = p.weight]
  IN  /\ Saves(t) /\ db.session = "active"
      /\ db' = new
      /\ LET next == AfterCommit(tabs[t])
             done == next > Len(tabs[t].prompts)
             fresh == Prompts([logs |-> new.logs, start |-> new.start])
         IN  Goes(t, IF done THEN [tabs[t] EXCEPT !.idx = next]
                     ELSE [tabs[t] EXCEPT !.idx = next, !.prompts = fresh])
      /\ UNCHANGED <<undos, lost>>

\* completeSession(), which a second call finds done.
Complete(t) ==
  /\ Shows(t, "finish") /\ ~Saves(t) /\ db.session # "deleted"
  /\ db' = [db EXCEPT !.session = "completed"]
  /\ Goes(t, Away(t))
  /\ UNCHANGED <<undos, lost>>

\* A call of the page fails or is lost, before or after it was carried out: the
\* weights are saved again from the first one.
SaveLost(t) ==
  /\ Shows(t, "finish") /\ tabs[t].idx > 1 /\ lost < MaxLost
  /\ lost' = lost + 1
  /\ Goes(t, [tabs[t] EXCEPT !.idx = 1])
  /\ UNCHANGED <<db, undos>>

\* A commit finds the session completed by another tab.
SaveRefused(t) ==
  /\ Saves(t) /\ db.session # "active"
  /\ Goes(t, Away(t))
  /\ UNCHANGED <<db, undos, lost>>

\* deleteSession(): a completed session without progressions.
Delete ==
  /\ db.session = "completed" /\ db.rows = {}
  /\ db' = [db EXCEPT !.session = "deleted", !.logs = <<>>]
  /\ UNCHANGED <<tabs, undos, lost>>

-----------------------------------------------------------------------------
Next ==
  \/ Delete
  \/ \E t \in Tabs :
       \/ Open(t) \/ Leave(t) \/ Undo(t) \/ Served(t) \/ Answered(t) \/ Lost(t)
       \/ Finish(t) \/ Commit(t) \/ Complete(t) \/ SaveLost(t) \/ SaveRefused(t)
       \/ \E e \in Exercises, act \in Acts : Log(t, e, act)

Spec == Init /\ [][Next]_vars

-----------------------------------------------------------------------------
TypeOK ==
  /\ db.session \in {"active", "completed", "deleted"}
  /\ \A i \in DOMAIN db.logs : db.logs[i].ex \in Exercises /\ db.logs[i].act \in ActNames
  /\ DOMAIN db.start = Exercises
  /\ \A t \in Tabs : tabs[t].page \in {"runner", "finish", "away"}

\* The sets of each exercise are numbered without a gap, and each weight follows
\* from the set before it, however many tabs log, whatever calls are lost and
\* repeated.
ChainIsKept ==
  \A e \in Exercises :
    LET logs == Of(db.logs, e)
    IN  /\ Len(logs) <= Sets[e]
        /\ \A i \in DOMAIN logs :
             /\ logs[i].set = i
             /\ logs[i].weight = IF e \notin Weighted THEN 0
                                 ELSE IF i = 1 THEN Start0 ELSE Step(logs[i - 1])

\* A completed session goes on from where its log ended: the starting weight of
\* each exercise is the one its log calls for, although weights are saved one at
\* a time, by more than one tab, and again after a failure.
StartFollowsLog ==
  db.session = "completed" =>
    \A e \in Weighted :
      db.start[e] = IF Of(db.logs, e) = <<>> THEN Start0
                    ELSE NewStart(db.logs, [f \in Exercises |-> Start0], e)

\* The log of a completed session is sealed: it is deleted as a whole or stays.
LogStaysSealed == db.session # "active" => db'.logs = db.logs \/ db'.session = "deleted"
=============================================================================
