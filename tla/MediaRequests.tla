--------------------------- MODULE MediaRequests ---------------------------
(***************************************************************************)
(* One user's conversation with tdr-bot about movies, shows and reminders: *)
(* the chat handler, the nodes of the LLM graph (messages/llm), the media  *)
(* request handler and its strategies (media-operations/request-handling), *)
(* and the user's slot in ContextManagementService, which holds the        *)
(* question the bot has last asked.                                        *)
(*                                                                         *)
(* An action is what one message does up to its next await of the language *)
(* model, of Radarr or of Sonarr; what those answer is any of the answers  *)
(* the code tells apart. Nothing makes the second message of a user wait   *)
(* for the first.                                                          *)
(***************************************************************************)
EXTENDS Naturals, Sequences, FiniteSets

CONSTANTS
  Messages,  \* bound: the messages the user ever writes
  Lists,     \* results a search may have: sequences of titles, never empty
  Races,     \* orders of events that are allowed
  Fails      \* whether the language model, a service or a reply may fail

\* overlap         a message is handled before the last one is answered
\* expires_midway  CONTEXT_TTL_MS passes while a message is being handled
RequestsAssumption ==
  /\ <<>> \notin Lists
  /\ Races \subseteq {"overlap", "expires_midway"} /\ Fails \in BOOLEAN

VARIABLES
  slot,    \* the user's entry in contexts
  asked,   \* the question of the last answer the user got
  frame,   \* the messages being handled
  acts     \* per message that began a request: the operations done for it

vars == <<slot, asked, frame, acts>>

Media == {"movie", "tv", "movieDelete", "tvDelete"}

\* SearchSelection: nothing could be parsed, an ordinal or a year, or something
\* else; TvShowSelection: nothing, {} (the whole series), or with a selection.
NoChoice == [given |-> FALSE, exact |-> FALSE, n |-> 0]
Vague == [given |-> TRUE, exact |-> FALSE, n |-> 0]
Nth(n) == [given |-> TRUE, exact |-> TRUE, n |-> n]
Choices == {NoChoice, Vague} \cup {Nth(n) : n \in UNION {DOMAIN l : l \in Lists}}
Parts == {"none", "whole", "some"}

\* A context and the question it stands for: contextType, searchResults,
\* originalSearchSelection, originalTvSelection; of: the message that searched.
Question(m, type, list, choice, part) ==
  [of |-> m, type |-> type, list |-> list, choice |-> choice, part |-> part]
Nothing == [of |-> "none", type |-> "none", list |-> <<>>, choice |-> NoChoice, part |-> "none"]
Error == [Nothing EXCEPT !.type = "error"]
Reminder(m) == [Nothing EXCEPT !.of = m, !.type = "reminder"]

\* ctx: the context read, or the question being asked.
NoFrame == [pc |-> "idle", ctx |-> Nothing]

Init ==
  /\ slot = Nothing /\ asked = Nothing
  /\ frame = [m \in Messages |-> NoFrame]
  /\ acts = [m \in Messages |-> 0]

Busy(m) == frame[m].pc \notin {"idle", "done"}
Quiet == \A m \in Messages : ~Busy(m)

Go(m, pc) == frame' = [frame EXCEPT ![m].pc = pc]
With(m, pc, ctx) == frame' = [frame EXCEPT ![m].pc = pc, ![m].ctx = ctx]

\* The user gets an answer: a question, or none, or that something failed.
Answer(m, question) == With(m, "done", Nothing) /\ asked' = question

-----------------------------------------------------------------------------
\* onMessage() and IntentDetectionNode.

\* The type of the context is read first.
Receive(m) ==
  /\ frame[m].pc = "idle"
  /\ Quiet \/ "overlap" \in Races
  /\ Go(m, IF slot.type = "reminder" THEN "reminder_topic" ELSE "media_check")
  /\ UNCHANGED <<slot, asked, acts>>

\* detectReminderTopicSwitch(); a failure counts as a switch.
ReminderTopic(m) ==
  /\ frame[m].pc = "reminder_topic"
  /\ \/ Go(m, "remind") /\ UNCHANGED slot
     \/ Go(m, "media_check") /\ slot' = Nothing
  /\ UNCHANGED <<asked, acts>>

\* hasActiveMediaContext(), which takes a context of any type.
MediaCheck(m) ==
  /\ frame[m].pc = "media_check"
  /\ Go(m, IF slot.type = "none" THEN "intent" ELSE "media_topic")
  /\ UNCHANGED <<slot, asked, acts>>

\* detectTopicSwitch(); a failure counts as no switch.
MediaTopic(m) ==
  /\ frame[m].pc = "media_topic"
  /\ \/ Go(m, "active") /\ UNCHANGED slot
     \/ Go(m, "intent") /\ slot' = Nothing
  /\ UNCHANGED <<asked, acts>>

\* The classification of the message: a reminder, media, or anything else.
Intent(m) ==
  /\ frame[m].pc = "intent"
  /\ \/ \E pc \in {"remind", "active"} : Go(m, pc) /\ UNCHANGED asked
     \/ Answer(m, Nothing)
     \/ Fails /\ Answer(m, Error)
  /\ UNCHANGED <<slot, acts>>

-----------------------------------------------------------------------------
\* ReminderResponseNode.

\* Lists and cancellations leave the context; a reminder that is complete ends
\* it; of one that is not the known part is kept, and the rest asked for.
Remind(m) ==
  /\ frame[m].pc = "remind"
  /\ \/ Answer(m, Nothing) /\ UNCHANGED slot
     \/ Answer(m, Nothing) /\ slot' = Nothing
     \/ slot' = Reminder(m) /\ With(m, "ask", Reminder(m)) /\ UNCHANGED asked
     \/ Fails /\ Answer(m, Error) /\ slot' \in {slot, Nothing}
  /\ UNCHANGED acts

-----------------------------------------------------------------------------
\* MediaRequestHandler.

\* getActiveContext() up to its own detectTopicSwitch().
Active(m) ==
  /\ frame[m].pc = "active"
  /\ IF slot.type = "none" THEN Go(m, "route") ELSE With(m, "active_topic", slot)
  /\ UNCHANGED <<slot, asked, acts>>

\* The context that was read before is used, or the slot cleared whatever it
\* holds by now; a context of a reminder is cleared too.
ActiveTopic(m) ==
  /\ frame[m].pc = "active_topic"
  /\ \/ frame[m].ctx.type \in Media /\ Go(m, "select") /\ UNCHANGED slot
     \/ Go(m, "route") /\ slot' = Nothing
  /\ UNCHANGED <<asked, acts>>

\* getMediaTypeAndIntent() and the routing; status and browsing only answer.
Route(m) ==
  /\ frame[m].pc = "route"
  /\ \/ \E type \in Media : With(m, "search", [Nothing EXCEPT !.of = m, !.type = type])
                            /\ UNCHANGED asked
     \/ Answer(m, Nothing)
     \/ Fails /\ Answer(m, Error)
  /\ UNCHANGED <<slot, acts>>

-----------------------------------------------------------------------------
\* The strategies.

\* findSelectedMovie(), findSelectedShow() and their library variants: what is
\* out of range, or not exact, is the first.
FindSelected(choice, list) ==
  IF choice.exact /\ choice.n \in DOMAIN list THEN list[choice.n] ELSE list[1]

Ask(m, q) == slot' = q /\ With(m, "ask", q) /\ UNCHANGED <<asked, acts>>
Act(m, q) == With(m, "act", q) /\ UNCHANGED <<asked, acts>>

\* When a new request says enough to act at once.
Complete(q) ==
  CASE q.type \in {"movie", "movieDelete"} -> q.choice.exact \/ Len(q.list) = 1
    [] q.type = "tv" -> q.part = "some" /\ (q.choice.exact \/ Len(q.list) = 1)
    [] q.type = "tvDelete" -> q.part # "none" /\ (q.choice.given \/ Len(q.list) = 1)

\* What is stored and asked for otherwise. Only the shows' contexts keep what was
\* said already; of a show to download that was named exactly, the others go.
Stored(q) ==
  CASE q.type \in {"movie", "movieDelete"} -> [q EXCEPT !.choice = NoChoice, !.part = "none"]
    [] q.type = "tv" /\ q.choice.exact -> [q EXCEPT !.list = <<FindSelected(q.choice, q.list)>>]
    [] OTHER -> q

\* handleNewMovieSearch(), handleNewTvShowSearch(), handleNewMovieDelete() and
\* handleNewTvShowDelete(): without a query or a result there is only an answer.
\* A movie named exactly for deletion clears the slot first.
Search(m) ==
  /\ frame[m].pc = "search"
  /\ \/ Answer(m, Nothing) /\ UNCHANGED <<slot, acts>>
     \/ Fails /\ Answer(m, Error) /\ UNCHANGED <<slot, acts>>
     \/ \E list \in Lists, choice \in Choices, part \in Parts :
          LET type == frame[m].ctx.type
              q == Question(m, type, list, choice, part)
          IN
          IF ~Complete(q) THEN Ask(m, Stored(q))
          ELSE /\ Act(m, q)
               /\ slot' = IF type = "movieDelete" /\ choice.exact THEN Nothing ELSE slot

\* The prompt for the question is generated and sent. A failure is answered with
\* an error; the context has been set.
SendQuestion(m) ==
  /\ frame[m].pc = "ask"
  /\ Answer(m, frame[m].ctx) \/ (Fails /\ Answer(m, Error))
  /\ UNCHANGED <<slot, acts>>

\* (mutant of AskAgain) The question is forgotten, also when asking succeeds.
AskAgainForgets(m) ==
  (Answer(m, frame[m].ctx) \/ (Fails /\ Answer(m, Error))) /\ slot' = Nothing /\ UNCHANGED acts

\* The same question again; a failure to ask clears the context.
AskAgain(m) ==
  \/ Answer(m, frame[m].ctx) /\ UNCHANGED <<slot, acts>>
  \/ Fails /\ Answer(m, Error) /\ slot' = Nothing /\ UNCHANGED acts

\* (mutant of Settle) The slot is kept.
SettleOnly(m, q) == UNCHANGED slot /\ Act(m, q)

\* The slot is cleared and the operation begins.
Settle(m, q) == slot' = Nothing /\ Act(m, q)

\* handleMovieSelection() and handleMovieDeleteSelection().
SelectMovie(m, choice) ==
  LET ctx == frame[m].ctx IN
  /\ ctx.type \in {"movie", "movieDelete"}
  /\ IF choice.given THEN Settle(m, [ctx EXCEPT !.choice = choice]) ELSE AskAgain(m)

\* handleTvShowSelection(): first the show, then its parts, unless they were
\* given with the search.
SelectShow(m, choice, part) ==
  LET ctx == frame[m].ctx
      one == <<FindSelected(choice, ctx.list)>>
  IN
  /\ ctx.type = "tv"
  /\ CASE Len(ctx.list) > 1 /\ ~choice.given -> AskAgain(m)
       [] Len(ctx.list) > 1 /\ ctx.part = "some" -> Settle(m, [ctx EXCEPT !.list = one])
       [] Len(ctx.list) > 1 -> Ask(m, [ctx EXCEPT !.list = one])
       [] part = "none" -> AskAgain(m)
       [] OTHER -> Settle(m, [ctx EXCEPT !.part = part])

\* handleTvShowDeleteSelection(): what this message says, or else the search said.
SelectShowToDelete(m, choice, part) ==
  LET ctx == frame[m].ctx
      final == [ctx EXCEPT !.choice = IF choice.given THEN choice ELSE @,
                           !.part = IF part # "none" THEN part ELSE @]
  IN
  /\ ctx.type = "tvDelete"
  /\ IF Complete(final) THEN Settle(m, final) ELSE AskAgain(m)

Select(m) ==
  /\ frame[m].pc = "select"
  /\ \E choice \in Choices, part \in Parts :
       \/ SelectMovie(m, choice)
       \/ SelectShow(m, choice, part)
       \/ SelectShowToDelete(m, choice, part)

\* downloadMovie(), downloadTvShow(), deleteMovie(), deleteTvShow(): the operation,
\* and its outcome as the answer.
Perform(m) ==
  /\ frame[m].pc = "act"
  /\ acts' = [acts EXCEPT ![frame[m].ctx.of] = @ + 1]
  /\ Answer(m, Nothing) \/ (Fails /\ Answer(m, Error))
  /\ UNCHANGED slot

-----------------------------------------------------------------------------
\* CONTEXT_TTL_MS has passed: every access and the cron job drop the entry. The
\* user's answer would not be taken as one any more.
Expire ==
  /\ slot # Nothing
  /\ Quiet \/ "expires_midway" \in Races
  /\ slot' = Nothing
  /\ asked' = Nothing
  /\ UNCHANGED <<frame, acts>>

Next ==
  \/ Expire
  \/ \E m \in Messages :
       \/ Receive(m) \/ ReminderTopic(m) \/ MediaCheck(m) \/ MediaTopic(m) \/ Intent(m)
       \/ Remind(m) \/ Active(m) \/ ActiveTopic(m) \/ Route(m)
       \/ Search(m) \/ SendQuestion(m) \/ Select(m) \/ Perform(m)

Spec == Init /\ [][Next]_vars

-----------------------------------------------------------------------------
Pcs == {"idle", "reminder_topic", "media_check", "media_topic", "intent", "remind",
        "active", "active_topic", "route", "search", "ask", "select", "act", "done"}

\* The variables have their types.
TypeOK ==
  /\ slot.type \in Media \cup {"none", "reminder"}
  /\ asked.type \in Media \cup {"none", "reminder", "error"}
  /\ \A m \in Messages : frame[m].pc \in Pcs /\ acts[m] \in 0..Cardinality(Messages)

\* When no message is being handled, the slot holds the question the user was last
\* asked, with the list that was shown, so that the answer is taken for what it is;
\* and after an answer that settled or dropped the matter no list is left for the
\* next message to be taken as a choice from.
QuestionIsRemembered ==
  Quiet => /\ asked.type \in Media \cup {"reminder"} => slot = asked
           /\ asked.type = "none" => slot.type \notin Media

\* One request of the user moves Radarr or Sonarr at most once, however many
\* messages it takes to say what is meant.
ActsOnce == \A m \in Messages : acts[m] <= 1

=============================================================================
