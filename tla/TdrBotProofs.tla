---------------------------- MODULE TdrBotProofs ----------------------------
(***************************************************************************)
(* The conversation with tdr-bot, its reminders, and what it does to a     *)
(* series, for any number of messages, titles, reminders, crashes,         *)
(* episodes and failed calls.                                              *)
(*                                                                         *)
(* One request of the user moves Radarr or Sonarr at most once, and        *)
(* between messages the user's slot holds what was last asked.  Both rest  *)
(* on one message being handled at a time (OneBusy).  For the first,       *)
(* ActInv follows the message a question or an operation is of: once its   *)
(* operation is done neither the slot nor a message under way stands for   *)
(* it.  For the second, SlotAt says of every place of the handling what    *)
(* the slot may hold.                                                      *)
(*                                                                         *)
(* Every row of the reminders table is looked after by something of the    *)
(* process, and a one-time reminder is posted in one delivery, never after *)
(* a post the service knows of.  RemInv says where a reminder may be: a    *)
(* one-time reminder has a timer, or waits for the bot, or is being        *)
(* delivered, never two of these, and what waits for the bot are rows, so  *)
(* that the queue has room for them.                                       *)
(*                                                                         *)
(* An operation on a series takes from an episode only what was asked.     *)
(* WantedInv says of every place what the operation works with there, and  *)
(* that the seasons a deletion has polled still hold nothing wanted.       *)
(***************************************************************************)
EXTENDS MediaRequests, ReminderTable, WantedEpisodes, FiniteSetTheorems, TLAPS

\* A context is a record of these fields, whatever is in them.
IsContext(q) ==
    q = [of |-> q.of, type |-> q.type, list |-> q.list, choice |-> q.choice, part |-> q.part]

FrameType ==
    /\ DOMAIN frame = Messages /\ frame = [m \in Messages |-> frame[m]]
    /\ \A m \in Messages : /\ frame[m] = [pc |-> frame[m].pc, ctx |-> frame[m].ctx]
                           /\ IsContext(frame[m].ctx)

TypeInv ==
    /\ IsContext(slot) /\ FrameType
    /\ acts \in [Messages -> Nat]

\* One message is handled at a time.
OneBusy == \A m, n \in Messages : Busy(m) /\ Busy(n) => m = n

\* A message goes to another place, with this context.
Moved(m, pc, ctx) ==
    /\ frame'[m].pc = pc /\ frame'[m].ctx = ctx
    /\ FrameType'
    /\ \A n \in Messages \ {m} : frame'[n] = frame[n]

-----------------------------------------------------------------------------
(* Contexts and frames *)

\* The contexts the handling makes.
LEMMA ContextForms ==
    /\ IsContext(Nothing) /\ Nothing.type = "none"
    /\ IsContext(Error) /\ Error.type = "error"
    /\ \A m : IsContext(Reminder(m)) /\ Reminder(m).type = "reminder"
<1>1. IsContext(Nothing) /\ Nothing.type = "none"
  BY DEF IsContext, Nothing
<1>2. IsContext(Error) /\ Error.type = "error"
  BY DEF IsContext, Nothing, Error
<1>3. ASSUME NEW m PROVE IsContext(Reminder(m)) /\ Reminder(m).type = "reminder"
  <2> DEFINE q == Nothing  type == "reminder"  r == Reminder(m)
  <2>1. IsContext(q) /\ r = [q EXCEPT !.of = m, !.type = type]
    BY <1>1 DEF Reminder
  <2> HIDE DEF q, type, r
  <2>2. IsContext(r) /\ r.type = type
    BY <2>1 DEF IsContext
  <2> QED
    BY <2>2 DEF r, type
<1> QED
  BY <1>1, <1>2, <1>3

LEMMA QuestionForm ==
    ASSUME NEW m, NEW type, NEW list, NEW choice, NEW part,
           NEW q, q = Question(m, type, list, choice, part)
    PROVE  IsContext(q) /\ q.of = m /\ q.type = type
  BY DEF IsContext, Question

\* Filling in what was chosen changes neither the request nor its kind.
LEMMA ContextExcept ==
    ASSUME NEW q, IsContext(q), NEW x, NEW y,
           NEW r, \/ r = [q EXCEPT !.choice = x]
                  \/ r = [q EXCEPT !.list = x]
                  \/ r = [q EXCEPT !.part = x]
                  \/ r = [q EXCEPT !.choice = x, !.part = y]
                  \/ r = q
    PROVE  IsContext(r) /\ r.of = q.of /\ r.type = q.type
  BY DEF IsContext

\* A message moves by Go, With or an answer.
LEMMA Moves ==
    ASSUME FrameType, NEW m \in Messages
    PROVE  /\ \A pc : Go(m, pc) => Moved(m, pc, frame[m].ctx)
           /\ \A pc, ctx : IsContext(ctx) /\ With(m, pc, ctx) => Moved(m, pc, ctx)
           /\ \A q : Answer(m, q) => Moved(m, "done", Nothing) /\ asked' = q
<1>1. ASSUME NEW pc, NEW ctx, IsContext(ctx),
             \/ frame' = [frame EXCEPT ![m].pc = pc] /\ ctx = frame[m].ctx
             \/ frame' = [frame EXCEPT ![m].pc = pc, ![m].ctx = ctx]
      PROVE  Moved(m, pc, ctx)
  <2> DEFINE new == [pc |-> pc, ctx |-> ctx]
  <2>1. new.pc = pc /\ new.ctx = ctx /\ new = [pc |-> new.pc, ctx |-> new.ctx]
    OBVIOUS
  <2>2. frame[m] = [pc |-> frame[m].pc, ctx |-> frame[m].ctx]
    BY DEF FrameType
  <2>3. frame' = [frame EXCEPT ![m] = new]
    BY <1>1, <2>2
  <2> HIDE DEF new
  <2>4. /\ frame'[m] = new /\ \A n \in Messages \ {m} : frame'[n] = frame[n]
        /\ DOMAIN frame' = Messages /\ frame' = [n \in Messages |-> frame'[n]]
    BY <2>3 DEF FrameType
  <2>5. FrameType'
    BY <1>1, <2>1, <2>4 DEF FrameType
  <2> QED
    BY <2>1, <2>4, <2>5 DEF Moved
<1>2. IsContext(frame[m].ctx) /\ IsContext(Nothing)
  BY ContextForms DEF FrameType
<1> QED
  BY <1>1, <1>2 DEF Go, With, Answer

\* What is stored of a request is of the same request and kind.
LEMMA StoredForm ==
    ASSUME NEW q, IsContext(q), NEW r, r = Stored(q)
    PROVE  IsContext(r) /\ r.of = q.of /\ r.type = q.type
<1>1. \/ r = [q EXCEPT !.choice = NoChoice, !.part = "none"]
      \/ r = [q EXCEPT !.list = <<FindSelected(q.choice, q.list)>>]
      \/ r = q
  BY DEF Stored
<1>2. CASE r = [q EXCEPT !.choice = NoChoice, !.part = "none"]
  BY <1>2 DEF IsContext
<1>3. CASE r = [q EXCEPT !.list = <<FindSelected(q.choice, q.list)>>]
  <2> DEFINE one == <<FindSelected(q.choice, q.list)>>
  <2>1. r = [q EXCEPT !.list = one]
    BY <1>3
  <2> HIDE DEF one
  <2> QED
    BY <2>1 DEF IsContext
<1> QED
  BY <1>1, <1>2, <1>3

-----------------------------------------------------------------------------
(* What a message does *)

\* The places where a message has a context of its own, and those before it has
\* asked or acted.
Carries == {"active_topic", "select", "search", "ask", "act"}
Early == Pcs \ {"ask", "act", "done"}

Passes(m) ==
    /\ frame[m].pc \in Early /\ frame'[m].pc \in (Early \ Carries) \ {"idle"}
    /\ slot' = slot \/ slot' = Nothing
    /\ frame'[m].pc \in {"intent", "route"} => slot'.type = "none"
    /\ frame'[m].pc = "remind" => slot' = slot /\ frame[m].pc \in {"intent", "reminder_topic"}
    /\ frame'[m].pc = "reminder_topic" => slot'.type = "reminder"
    /\ UNCHANGED acts

Reads(m) ==
    /\ frame[m].pc = "active" /\ frame'[m].pc = "active_topic"
    /\ frame'[m].ctx = slot /\ UNCHANGED <<slot, acts>>

Confirms(m) ==
    /\ frame[m].pc = "active_topic" /\ frame'[m].pc = "select"
    /\ frame'[m].ctx = frame[m].ctx /\ frame[m].ctx.type \in Media
    /\ UNCHANGED <<slot, acts>>

Searches(m) ==
    /\ frame[m].pc = "route" /\ frame'[m].pc = "search"
    /\ frame'[m].ctx.of = m /\ frame'[m].ctx.type \in Media
    /\ UNCHANGED <<slot, acts>>

Asks(m) ==
    /\ frame'[m].pc = "ask" /\ slot' = frame'[m].ctx
    /\ \/ /\ frame[m].pc \in {"search", "select"}
          /\ slot'.of = frame[m].ctx.of /\ slot'.type = frame[m].ctx.type
       \/ frame[m].pc = "remind" /\ slot'.type = "reminder"
    /\ UNCHANGED acts

Begins(m) ==
    /\ frame[m].pc \in {"search", "select"} /\ frame'[m].pc = "act"
    /\ frame'[m].ctx.of = frame[m].ctx.of /\ frame'[m].ctx.type = frame[m].ctx.type
    /\ slot' = Nothing \/ (slot' = slot /\ frame[m].pc = "search")
    /\ UNCHANGED acts

\* The answer says that something failed; or it ends the matter; or it is the
\* question the message stands for.
Answered(m) ==
    \/ asked'.type = "error"
    \/ asked' = Nothing /\ frame[m].pc \in {"intent", "remind", "route", "search"}
    \/ asked' = frame[m].ctx /\ slot' = slot /\ frame[m].pc \in {"ask", "select"}

Answers(m) ==
    /\ frame[m].pc \in Pcs \ {"idle", "act", "done"} /\ frame'[m].pc = "done"
    /\ Answered(m)
    /\ slot' = slot \/ slot' = Nothing
    /\ UNCHANGED acts

Performs(m) ==
    /\ frame[m].pc = "act" /\ frame'[m].pc = "done"
    /\ acts' = [acts EXCEPT ![frame[m].ctx.of] = @ + 1]
    /\ asked' = Nothing \/ asked'.type = "error"
    /\ UNCHANGED slot

StepKind(m) ==
    \/ Passes(m) \/ Reads(m) \/ Confirms(m) \/ Searches(m)
    \/ Asks(m) \/ Begins(m) \/ Answers(m) \/ Performs(m)

\* Only this message moves, and contexts stay contexts.
Alone(m) ==
    /\ FrameType' /\ IsContext(slot)'
    /\ \A n \in Messages \ {m} : frame'[n] = frame[n]

Step(m) ==
    \/ Receive(m) \/ ReminderTopic(m) \/ MediaCheck(m) \/ MediaTopic(m) \/ Intent(m)
    \/ Remind(m) \/ Active(m) \/ ActiveTopic(m) \/ Route(m)
    \/ Search(m) \/ SendQuestion(m) \/ Select(m) \/ Perform(m)

\* A message on its way to a question or an operation.
LEMMA FirstSteps ==
    ASSUME TypeInv, NEW m \in Messages,
           \/ Receive(m) \/ ReminderTopic(m) \/ MediaCheck(m) \/ MediaTopic(m)
           \/ Intent(m) \/ Active(m) \/ ActiveTopic(m) \/ Route(m)
    PROVE  Alone(m) /\ StepKind(m)
<1>1. IsContext(slot) /\ FrameType /\ IsContext(frame[m].ctx)
  BY DEF TypeInv, FrameType
<1>2. IsContext(Nothing) /\ Nothing.type = "none" /\ Error.type = "error"
  BY ContextForms
<1> USE DEF Early, Carries, Pcs, StepKind, Alone, Moved
<1>3. CASE Receive(m)
  BY <1>1, <1>3, Moves DEF Receive, Passes
<1>4. CASE ReminderTopic(m)
  BY <1>1, <1>2, <1>4, Moves DEF ReminderTopic, Passes
<1>5. CASE MediaCheck(m)
  BY <1>1, <1>5, Moves DEF MediaCheck, Passes
<1>6. CASE MediaTopic(m)
  BY <1>1, <1>2, <1>6, Moves DEF MediaTopic, Passes
<1>7. CASE Intent(m)
  <2>1. \/ \E pc \in {"remind", "active"} : Moved(m, pc, frame[m].ctx)
        \/ Moved(m, "done", Nothing) /\ (asked' = Nothing \/ asked' = Error)
    BY <1>1, <1>7, Moves DEF Intent
  <2>2. frame[m].pc = "intent" /\ slot' = slot /\ acts' = acts
    BY <1>7 DEF Intent
  <2> QED
    BY <1>1, <1>2, <2>1, <2>2 DEF Passes, Answers, Answered
<1>8. CASE Active(m)
  <2>1. CASE slot.type = "none"
    BY <1>1, <1>8, <2>1, Moves DEF Active, Passes
  <2>2. CASE slot.type # "none"
    BY <1>1, <1>8, <2>2, Moves DEF Active, Reads
  <2> QED
    BY <2>1, <2>2
<1>9. CASE ActiveTopic(m)
  <2>1. CASE slot' = slot /\ frame[m].ctx.type \in Media /\ Go(m, "select")
    BY <1>1, <1>9, <2>1, Moves DEF ActiveTopic, Confirms
  <2>2. CASE Go(m, "route") /\ slot' = Nothing
    BY <1>1, <1>2, <1>9, <2>2, Moves DEF ActiveTopic, Passes
  <2> QED
    BY <1>9, <2>1, <2>2 DEF ActiveTopic
<1>10. CASE Route(m)
  <2>1. frame[m].pc = "route" /\ slot' = slot /\ acts' = acts
    BY <1>10 DEF Route
  <2>2. CASE \E type \in Media : With(m, "search", [Nothing EXCEPT !.of = m, !.type = type])
    <3>1. PICK type \in Media : With(m, "search", [Nothing EXCEPT !.of = m, !.type = type])
      BY <2>2
    <3> DEFINE q == Nothing  r == [q EXCEPT !.of = m, !.type = type]
    <3>2. With(m, "search", r) /\ IsContext(q) /\ r = [q EXCEPT !.of = m, !.type = type]
      BY <1>2, <3>1
    <3> HIDE DEF q, r
    <3>3. IsContext(r) /\ r.of = m /\ r.type = type
      BY ONLY <3>2 DEF IsContext
    <3>4. Moved(m, "search", r)
      BY <1>1, <3>2, <3>3, Moves
    <3> QED
      BY <1>1, <2>1, <3>3, <3>4 DEF Searches
  <2>3. CASE Answer(m, Nothing) \/ Answer(m, Error)
    BY <1>1, <1>2, <2>1, <2>3, Moves DEF Answers, Answered
  <2> QED
    BY <1>10, <2>2, <2>3 DEF Route
<1> QED
  BY <1>3, <1>4, <1>5, <1>6, <1>7, <1>8, <1>9, <1>10

\* A reminder.
LEMMA RemindStep ==
    ASSUME TypeInv, NEW m \in Messages, Remind(m)
    PROVE  Alone(m) /\ StepKind(m)
<1>1. IsContext(slot) /\ FrameType
  BY DEF TypeInv
<1>2. /\ IsContext(Nothing) /\ Error.type = "error"
      /\ IsContext(Reminder(m)) /\ Reminder(m).type = "reminder"
  BY ContextForms
<1>3. frame[m].pc = "remind" /\ acts' = acts
  BY DEF Remind
<1>4. CASE slot' = Reminder(m) /\ With(m, "ask", Reminder(m))
  <2>1. Moved(m, "ask", Reminder(m))
    BY <1>1, <1>2, <1>4, Moves
  <2> QED
    BY <1>2, <1>3, <1>4, <2>1 DEF Alone, StepKind, Asks, Moved
<1>5. CASE (Answer(m, Nothing) \/ Answer(m, Error)) /\ (slot' = slot \/ slot' = Nothing)
  <2>1. Moved(m, "done", Nothing) /\ (asked' = Nothing \/ asked' = Error)
    BY <1>1, <1>5, Moves
  <2> QED
    BY <1>1, <1>2, <1>3, <1>5, <2>1 DEF Alone, StepKind, Answers, Answered, Moved, Pcs
<1> QED
  BY <1>4, <1>5 DEF Remind

\* A question or an operation, however it is come by.
LEMMA AskOrAct ==
    ASSUME TypeInv, NEW m \in Messages, frame[m].pc \in {"search", "select"},
           NEW q, IsContext(q), q.of = frame[m].ctx.of, q.type = frame[m].ctx.type,
           \/ Ask(m, q)
           \/ Settle(m, q)
           \/ Act(m, q) /\ frame[m].pc = "search" /\ (slot' = slot \/ slot' = Nothing)
    PROVE  Alone(m) /\ StepKind(m)
<1>1. IsContext(slot) /\ FrameType /\ IsContext(Nothing)
  BY ContextForms DEF TypeInv
<1>2. CASE Ask(m, q)
  <2>1. Moved(m, "ask", q) /\ slot' = q /\ acts' = acts
    BY <1>1, <1>2, Moves DEF Ask
  <2> QED
    BY <2>1 DEF Alone, StepKind, Asks, Moved
<1>3. CASE Act(m, q) /\ (slot' = Nothing \/ (slot' = slot /\ frame[m].pc = "search"))
  <2>1. Moved(m, "act", q) /\ acts' = acts
    BY <1>1, <1>3, Moves DEF Act
  <2> QED
    BY <1>1, <1>3, <2>1 DEF Alone, StepKind, Begins, Moved
<1> QED
  BY <1>2, <1>3 DEF Settle

\* An answer.
LEMMA AnswerStep ==
    ASSUME TypeInv, NEW m \in Messages, frame[m].pc \in Pcs \ {"idle", "act", "done"},
           NEW q, Answer(m, q), slot' = slot \/ slot' = Nothing, acts' = acts,
           \/ q = Error
           \/ q = Nothing /\ frame[m].pc \in {"intent", "remind", "route", "search"}
           \/ q = frame[m].ctx /\ slot' = slot /\ frame[m].pc \in {"ask", "select"}
    PROVE  Alone(m) /\ StepKind(m)
<1>1. IsContext(slot) /\ FrameType /\ IsContext(Nothing) /\ Error.type = "error"
  BY ContextForms DEF TypeInv
<1>2. Moved(m, "done", Nothing) /\ asked' = q
  BY <1>1, Moves
<1>3. Answered(m)
  BY <1>1, <1>2 DEF Answered
<1> QED
  BY <1>1, <1>2, <1>3 DEF Alone, StepKind, Answers, Moved

\* What is asked or done when a search comes back is of the message that searched.
LEMMA SearchStep ==
    ASSUME TypeInv, NEW m \in Messages, Search(m),
           frame[m].ctx.of = m
    PROVE  Alone(m) /\ StepKind(m)
<1>1. frame[m].pc = "search"
  BY DEF Search
<1>2. CASE (Answer(m, Nothing) \/ Answer(m, Error)) /\ UNCHANGED <<slot, acts>>
  BY <1>1, <1>2, AnswerStep DEF Pcs
<1>3. CASE ~((Answer(m, Nothing) \/ Answer(m, Error)) /\ UNCHANGED <<slot, acts>>)
  <2> DEFINE type == frame[m].ctx.type
  <2>1. PICK list \in Lists, choice \in Choices, part \in Parts :
          LET q == Question(m, type, list, choice, part) IN
          IF ~Complete(q) THEN Ask(m, Stored(q))
          ELSE /\ Act(m, q)
               /\ slot' = IF type = "movieDelete" /\ choice.exact THEN Nothing ELSE slot
    BY <1>3 DEF Search
  <2> DEFINE q == Question(m, type, list, choice, part)  r == Stored(q)
  <2>2. Ask(m, r) \/ (Act(m, q) /\ (slot' = slot \/ slot' = Nothing))
    BY <2>1
  <2>3. IsContext(q) /\ q.of = m /\ q.type = type
    BY QuestionForm
  <2> HIDE DEF q
  <2>4. IsContext(r) /\ r.of = m /\ r.type = type
    BY <2>3, StoredForm
  <2> HIDE DEF r
  <2> QED
    BY <1>1, <2>2, <2>3, <2>4, AskOrAct
<1> QED
  BY <1>2, <1>3

\* So it is when a choice is made.
LEMMA SelectStep ==
    ASSUME TypeInv, NEW m \in Messages, Select(m)
    PROVE  Alone(m) /\ StepKind(m)
<1>1. frame[m].pc = "select" /\ IsContext(frame[m].ctx)
  BY DEF Select, TypeInv, FrameType
<1> DEFINE ctx == frame[m].ctx
<1>2. ASSUME AskAgain(m) PROVE Alone(m) /\ StepKind(m)
  <2>1. CASE Answer(m, ctx) /\ slot' = slot /\ acts' = acts
    BY <1>1, <2>1, AnswerStep DEF Pcs
  <2>2. CASE Answer(m, Error) /\ slot' = Nothing /\ acts' = acts
    BY <1>1, <2>2, AnswerStep DEF Pcs
  <2> QED
    BY <1>2, <2>1, <2>2 DEF AskAgain
<1>3. PICK choice \in Choices, part \in Parts :
        SelectMovie(m, choice) \/ SelectShow(m, choice, part) \/ SelectShowToDelete(m, choice, part)
  BY DEF Select
<1>4. ASSUME NEW q, IsContext(q), q.of = ctx.of, q.type = ctx.type, Ask(m, q) \/ Settle(m, q)
      PROVE  Alone(m) /\ StepKind(m)
  BY <1>1, <1>4, AskOrAct
<1>5. CASE SelectMovie(m, choice)
  <2> DEFINE q == [ctx EXCEPT !.choice = choice]
  <2>1. AskAgain(m) \/ Settle(m, q)
    BY <1>5 DEF SelectMovie
  <2>2. IsContext(q) /\ q.of = ctx.of /\ q.type = ctx.type
    <3> HIDE DEF ctx
    <3> QED
      BY <1>1 DEF ctx, IsContext
  <2> HIDE DEF q
  <2> QED
    BY <1>2, <1>4, <2>1, <2>2
<1>6. CASE SelectShow(m, choice, part)
  <2> DEFINE one == <<FindSelected(choice, ctx.list)>>
             q == [ctx EXCEPT !.list = one]
             r == [ctx EXCEPT !.part = part]
  <2>1. AskAgain(m) \/ Settle(m, q) \/ Ask(m, q) \/ Settle(m, r)
    BY <1>6 DEF SelectShow
  <2> HIDE DEF one
  <2>2. IsContext(q) /\ q.of = ctx.of /\ q.type = ctx.type
    BY <1>1 DEF IsContext
  <2>3. IsContext(r) /\ r.of = ctx.of /\ r.type = ctx.type
    BY <1>1 DEF IsContext
  <2> HIDE DEF q, r
  <2> QED
    BY <1>2, <1>4, <2>1, <2>2, <2>3
<1>7. CASE SelectShowToDelete(m, choice, part)
  <2> DEFINE x == IF choice.given THEN choice ELSE ctx.choice
             y == IF part # "none" THEN part ELSE ctx.part
             q == [ctx EXCEPT !.choice = x, !.part = y]
  <2>1. AskAgain(m) \/ Settle(m, q)
    BY <1>7 DEF SelectShowToDelete
  <2> HIDE DEF x, y
  <2>2. IsContext(q) /\ q.of = ctx.of /\ q.type = ctx.type
    <3>1. IsContext(ctx) /\ q = [ctx EXCEPT !.choice = x, !.part = y]
      BY <1>1
    <3> HIDE DEF q, ctx
    <3> QED
      BY ONLY <3>1 DEF IsContext
  <2> HIDE DEF q
  <2> QED
    BY <1>2, <1>4, <2>1, <2>2
<1> QED
  BY <1>3, <1>5, <1>6, <1>7

\* A message that searches or acts for a request, on behalf of the one it is of.
CarriesOwn(m) == frame[m].pc = "search" => frame[m].ctx.of = m

\* Every step of a message is of one of these kinds.
LEMMA StepKinds ==
    ASSUME TypeInv, NEW m \in Messages, Step(m), CarriesOwn(m)
    PROVE  Alone(m) /\ StepKind(m)
<1>1. CASE \/ Receive(m) \/ ReminderTopic(m) \/ MediaCheck(m) \/ MediaTopic(m)
           \/ Intent(m) \/ Active(m) \/ ActiveTopic(m) \/ Route(m)
  BY <1>1, FirstSteps
<1>2. CASE Remind(m)
  BY <1>2, RemindStep
<1>3. CASE Search(m)
  <2>1. frame[m].ctx.of = m
    BY <1>3 DEF Search, CarriesOwn
  <2> QED
    BY <1>3, <2>1, SearchStep
<1>4. CASE SendQuestion(m)
  <2>1. frame[m].pc = "ask" /\ slot' = slot /\ acts' = acts
    BY <1>4 DEF SendQuestion
  <2>2. Answer(m, frame[m].ctx) \/ Answer(m, Error)
    BY <1>4 DEF SendQuestion
  <2> QED
    BY <2>1, <2>2, AnswerStep DEF Pcs
<1>5. CASE Select(m)
  BY <1>5, SelectStep
<1>6. CASE Perform(m)
  <2>1. IsContext(slot) /\ FrameType
    BY DEF TypeInv
  <2>2. Moved(m, "done", Nothing)
    BY <1>6, <2>1, Moves DEF Perform
  <2>3. /\ frame[m].pc = "act" /\ slot' = slot
        /\ acts' = [acts EXCEPT ![frame[m].ctx.of] = @ + 1]
    BY <1>6 DEF Perform
  <2>4. asked' = Nothing \/ asked'.type = "error"
    BY <1>6, ContextForms DEF Perform, Answer
  <2> QED
    BY <2>1, <2>2, <2>3, <2>4 DEF Alone, StepKind, Performs, Moved
<1> QED
  BY <1>1, <1>2, <1>3, <1>4, <1>5, <1>6 DEF Step

-----------------------------------------------------------------------------
(* One message at a time *)

\* Unless messages overlap, a step is of the one that is busy, or begins one when
\* none is.
LEMMA OneBusyKept ==
    ASSUME "overlap" \notin Races, OneBusy, NEW m \in Messages, Step(m), Alone(m), StepKind(m)
    PROVE  /\ OneBusy'
           /\ \A n \in Messages \ {m} : ~Busy(n) /\ ~Busy(n)'
<1>1. \A n \in Messages \ {m} : ~Busy(n)
  <2>1. CASE Receive(m)
    BY <2>1 DEF Receive, Quiet
  <2>2. CASE ~Receive(m)
    <3>1. frame[m].pc \notin {"idle", "done"}
      BY <2>2 DEF Step, ReminderTopic, MediaCheck, MediaTopic, Intent, Remind, Active,
                  ActiveTopic, Route, Search, SendQuestion, Select, Perform
    <3> QED
      BY <3>1 DEF OneBusy, Busy
  <2> QED
    BY <2>1, <2>2
<1>2. \A n \in Messages \ {m} : ~Busy(n)'
  BY <1>1 DEF Alone, Busy
<1> QED
  BY <1>1, <1>2 DEF OneBusy

-----------------------------------------------------------------------------
(* One operation for one request *)

\* A question or an operation stands for the request of message x.
Live(q, x) == q.type \in Media /\ q.of = x

Carrying(m) == frame[m].pc \in Carries

\* Whose request it is; that of a message that has not come as far as to ask or
\* act is its own search only; once the operation is done nothing stands for it.
Owned ==
    /\ slot.type \in Media => slot.of \in Messages
    /\ \A m \in Messages : Carrying(m) /\ frame[m].ctx.type \in Media
         => frame[m].ctx.of \in Messages
    /\ \A m \in Messages : frame[m].pc = "search"
         => frame[m].ctx.type \in Media /\ frame[m].ctx.of = m
    /\ \A m \in Messages : frame[m].pc \in {"select", "act"} => frame[m].ctx.type \in Media

Fresh ==
    \A m \in Messages : frame[m].pc \in Early =>
      /\ acts[m] = 0 /\ ~Live(slot, m)
      /\ \A n \in Messages : Carrying(n) /\ frame[n].pc # "search" => ~Live(frame[n].ctx, m)

Spent ==
    \A x \in Messages :
      /\ acts[x] \in {0, 1}
      /\ acts[x] = 1 => ~Live(slot, x) /\ \A m \in Messages : Carrying(m) => ~Live(frame[m].ctx, x)

Acting == \A m \in Messages : frame[m].pc = "act" => ~Live(slot, frame[m].ctx.of)

ActInv == TypeInv /\ OneBusy /\ Owned /\ Fresh /\ Spent /\ Acting

\* Of the others, none is on its way when one takes a step.
Others(m) ==
    \A n \in Messages \ {m} :
      /\ frame[n].pc \in {"idle", "done"} /\ frame'[n] = frame[n]
      /\ ~Carrying(n) /\ ~Carrying(n)'

LEMMA OthersIdle ==
    ASSUME NEW m \in Messages, Alone(m), \A n \in Messages \ {m} : ~Busy(n) /\ ~Busy(n)'
    PROVE  Others(m)
  BY DEF Others, Alone, Busy, Carrying, Carries

\* Neither Nothing nor a reminder stands for a request.
LEMMA NothingLive ==
    /\ \A q, x : q.type \notin Media => ~Live(q, x)
    /\ Nothing.type \notin Media /\ "none" \notin Media /\ "reminder" \notin Media
  BY ContextForms DEF Live, Media

ActRules == Owned /\ Fresh /\ Spent /\ Acting

\* A message on its way takes nothing with it.
LEMMA PassesKeeps ==
    ASSUME ActRules, NEW m \in Messages, Others(m), Passes(m)
    PROVE  ActRules'
<1>1. /\ frame[m].pc \in Early /\ ~Carrying(m)' /\ frame'[m].pc \notin {"search", "select", "act"}
      /\ slot' = slot \/ slot'.type \notin Media
      /\ acts' = acts
  BY NothingLive DEF Passes, Carrying, Carries, Early
<1>2. \A x : Live(slot', x) => Live(slot, x)
  BY <1>1 DEF Live
<1>3. \A n \in Messages : ~Carrying(n)'
  BY <1>1 DEF Others
<1>4. Owned'
  BY <1>1, <1>3 DEF ActRules, Owned, Others, Carrying, Carries
<1>5. Fresh'
  <2>1. \A n \in Messages : frame'[n].pc \in Early => frame[n].pc \in Early
    BY <1>1 DEF Others
  <2> QED
    BY <1>1, <1>2, <1>3, <2>1 DEF ActRules, Fresh
<1>6. Spent'
  BY <1>1, <1>2, <1>3 DEF ActRules, Spent
<1>7. Acting'
  BY <1>3 DEF Acting, Carrying, Carries
<1> QED
  BY <1>4, <1>5, <1>6, <1>7 DEF ActRules

\* What is taken up is the slot's question.
LEMMA ReadsKeeps ==
    ASSUME ActRules, NEW m \in Messages, Others(m), Reads(m)
    PROVE  ActRules'
<1>1. /\ frame[m].pc = "active" /\ frame'[m].pc = "active_topic"
      /\ frame'[m].ctx = slot /\ slot' = slot /\ acts' = acts
  BY DEF Reads
<1>2. \A n \in Messages : Carrying(n)' => n = m
  BY DEF Others
<1>3. Owned'
  BY <1>1, <1>2 DEF ActRules, Owned, Others, Carrying, Carries
<1>4. Fresh'
  <2>1. \A n \in Messages : frame'[n].pc \in Early => frame[n].pc \in Early
    BY <1>1 DEF Others, Early, Pcs
  <2> QED
    BY <1>1, <1>2, <2>1 DEF ActRules, Fresh
<1>5. Spent'
  BY <1>1, <1>2 DEF ActRules, Spent
<1>6. Acting'
  BY <1>1, <1>2 DEF Acting, Carrying, Carries
<1> QED
  BY <1>3, <1>4, <1>5, <1>6 DEF ActRules

\* It is still when it is confirmed.
LEMMA ConfirmsKeeps ==
    ASSUME ActRules, NEW m \in Messages, Others(m), Confirms(m)
    PROVE  ActRules'
<1>1. /\ frame[m].pc = "active_topic" /\ frame'[m].pc = "select"
      /\ frame'[m].ctx = frame[m].ctx /\ frame[m].ctx.type \in Media
      /\ slot' = slot /\ acts' = acts
  BY DEF Confirms
<1>2. (\A n \in Messages : Carrying(n)' => n = m) /\ Carrying(m)
  BY <1>1 DEF Others, Carrying, Carries
<1>3. Owned'
  BY <1>1, <1>2 DEF ActRules, Owned, Others, Carrying, Carries
<1>4. Fresh'
  <2>1. \A n \in Messages : frame'[n].pc \in Early => frame[n].pc \in Early
    BY <1>1 DEF Others, Early, Pcs
  <2> QED
    BY <1>1, <1>2, <2>1 DEF ActRules, Fresh
<1>5. Spent'
  BY <1>1, <1>2 DEF ActRules, Spent
<1>6. Acting'
  BY <1>1, <1>2 DEF Acting, Carrying, Carries
<1> QED
  BY <1>3, <1>4, <1>5, <1>6 DEF ActRules

\* A search stands for the request of its own message, for which nothing was done.
LEMMA SearchesKeeps ==
    ASSUME ActRules, NEW m \in Messages, Others(m), Searches(m)
    PROVE  ActRules'
<1>1. /\ frame[m].pc = "route" /\ frame'[m].pc = "search"
      /\ frame'[m].ctx.of = m /\ frame'[m].ctx.type \in Media
      /\ slot' = slot /\ acts' = acts
  BY DEF Searches
<1>2. \A n \in Messages : Carrying(n)' => n = m
  BY DEF Others
<1>3. acts[m] = 0
  BY <1>1 DEF ActRules, Fresh, Early, Pcs
<1>4. Owned'
  BY <1>1, <1>2 DEF ActRules, Owned, Others, Carrying, Carries
<1>5. Fresh'
  <2>1. \A n \in Messages : frame'[n].pc \in Early => frame[n].pc \in Early
    BY <1>1 DEF Others, Early, Pcs
  <2> QED
    BY <1>1, <1>2, <2>1 DEF ActRules, Fresh
<1>6. Spent'
  BY <1>1, <1>2, <1>3 DEF ActRules, Spent, Live
<1>7. Acting'
  BY <1>1, <1>2 DEF Acting, Carrying, Carries
<1> QED
  BY <1>4, <1>5, <1>6, <1>7 DEF ActRules

\* Whose request a message that searches or selects stands for: nothing was done
\* for it, and it is not that of a message still on its way, save its own search.
LEMMA RequestOf ==
    ASSUME ActRules, NEW m \in Messages, frame[m].pc \in {"search", "select"},
           NEW q, q.of = frame[m].ctx.of, q.type = frame[m].ctx.type
    PROVE  /\ q.type \in Media /\ q.of \in Messages
           /\ \A x \in Messages : acts[x] = 1 => ~Live(q, x)
           /\ \A x \in Messages \ {m} : frame[x].pc \in Early => ~Live(q, x)
           /\ frame[m].pc = "search" => q.of = m
<1>1. Carrying(m) /\ q.type \in Media /\ q.of \in Messages
  BY DEF ActRules, Owned, Carrying, Carries
<1>2. \A x : Live(q, x) <=> Live(frame[m].ctx, x)
  BY DEF Live
<1>3. frame[m].pc = "search" => q.of = m
  BY DEF ActRules, Owned
<1>4. \A x \in Messages : acts[x] = 1 => ~Live(q, x)
  BY <1>1, <1>2 DEF ActRules, Spent
<1>5. ASSUME NEW x \in Messages \ {m}, frame[x].pc \in Early PROVE ~Live(q, x)
  <2>1. CASE frame[m].pc = "search"
    BY <1>3, <2>1 DEF Live
  <2>2. CASE frame[m].pc # "search"
    BY <1>1, <1>2, <1>5, <2>2 DEF ActRules, Fresh
  <2> QED
    BY <2>1, <2>2
<1> QED
  BY <1>1, <1>3, <1>4, <1>5

\* The question that is asked stands for the request of the search.
LEMMA AsksKeeps ==
    ASSUME ActRules, NEW m \in Messages, Others(m), Asks(m)
    PROVE  ActRules'
<1>1. frame'[m].pc = "ask" /\ slot' = frame'[m].ctx /\ acts' = acts
  BY DEF Asks
<1>2. \A n \in Messages : Carrying(n)' => n = m
  BY DEF Others
<1>3. /\ slot'.type \in Media => slot'.of \in Messages
      /\ \A x \in Messages : acts[x] = 1 => ~Live(slot', x)
      /\ \A x \in Messages \ {m} : frame[x].pc \in Early => ~Live(slot', x)
  <2>1. CASE /\ frame[m].pc \in {"search", "select"}
             /\ slot'.of = frame[m].ctx.of /\ slot'.type = frame[m].ctx.type
    BY <2>1, RequestOf
  <2>2. CASE slot'.type = "reminder"
    BY <2>2, NothingLive
  <2> QED
    BY <2>1, <2>2 DEF Asks
<1>4. Owned'
  BY <1>1, <1>2, <1>3 DEF ActRules, Owned, Others, Carrying, Carries
<1>5. Fresh'
  <2>1. \A n \in Messages : frame'[n].pc \in Early => n # m /\ frame[n].pc \in Early
    BY <1>1 DEF Others, Early, Pcs
  <2> QED
    BY <1>1, <1>2, <1>3, <2>1 DEF ActRules, Fresh
<1>6. Spent'
  BY <1>1, <1>2, <1>3 DEF ActRules, Spent
<1>7. Acting'
  BY <1>1, <1>2 DEF Acting, Carrying, Carries
<1> QED
  BY <1>4, <1>5, <1>6, <1>7 DEF ActRules

\* When the operation begins the slot does not stand for its request any more.
LEMMA BeginsKeeps ==
    ASSUME ActRules, NEW m \in Messages, Others(m), Begins(m)
    PROVE  ActRules'
<1> DEFINE q == frame'[m].ctx
<1>1. /\ frame[m].pc \in {"search", "select"} /\ frame'[m].pc = "act"
      /\ q.of = frame[m].ctx.of /\ q.type = frame[m].ctx.type
      /\ slot'.type \notin Media \/ (slot' = slot /\ frame[m].pc = "search")
      /\ acts' = acts
  BY NothingLive DEF Begins
<1>2. \A n \in Messages : Carrying(n)' => n = m
  BY DEF Others
<1> HIDE DEF q
<1>3. /\ q.type \in Media /\ q.of \in Messages
      /\ \A x \in Messages : acts[x] = 1 => ~Live(q, x)
      /\ \A x \in Messages \ {m} : frame[x].pc \in Early => ~Live(q, x)
      /\ frame[m].pc = "search" => q.of = m
  BY <1>1, RequestOf
<1>4. \A x : Live(slot', x) => Live(slot, x)
  BY <1>1 DEF Live
<1>5. ~Live(slot', q.of)
  BY <1>1, <1>3 DEF Live, ActRules, Fresh, Early, Pcs
<1>6. Owned'
  BY <1>1, <1>2, <1>3 DEF ActRules, Owned, Others, Carrying, Carries, q
<1>7. Fresh'
  <2>1. \A n \in Messages : frame'[n].pc \in Early => n # m /\ frame[n].pc \in Early
    BY <1>1 DEF Others, Early, Pcs
  <2> QED
    BY <1>1, <1>2, <1>3, <1>4, <2>1 DEF ActRules, Fresh, q
<1>8. Spent'
  BY <1>1, <1>2, <1>3, <1>4 DEF ActRules, Spent, q
<1>9. Acting'
  BY <1>1, <1>2, <1>5 DEF Acting, Carrying, Carries, q
<1> QED
  BY <1>6, <1>7, <1>8, <1>9 DEF ActRules

\* A message that is answered stands for nothing.
LEMMA AnswersKeeps ==
    ASSUME ActRules, NEW m \in Messages, Others(m), Answers(m)
    PROVE  ActRules'
<1>1. /\ frame'[m].pc = "done" /\ acts' = acts
      /\ slot' = slot \/ slot'.type \notin Media
  BY NothingLive DEF Answers
<1>2. \A n \in Messages : ~Carrying(n)'
  BY <1>1 DEF Others, Carrying, Carries
<1>3. \A x : Live(slot', x) => Live(slot, x)
  BY <1>1 DEF Live
<1>4. Owned'
  BY <1>1, <1>2 DEF ActRules, Owned, Carrying, Carries
<1>5. Fresh'
  <2>1. \A n \in Messages : frame'[n].pc \in Early => frame[n].pc \in Early
    BY <1>1 DEF Others, Early, Pcs
  <2> QED
    BY <1>1, <1>2, <1>3, <2>1 DEF ActRules, Fresh
<1>6. Spent'
  BY <1>1, <1>2, <1>3 DEF ActRules, Spent
<1>7. Acting'
  BY <1>2 DEF Acting, Carrying, Carries
<1> QED
  BY <1>4, <1>5, <1>6, <1>7 DEF ActRules

\* The operation is the first one of its request, and nothing stands for it then.
LEMMA PerformsKeeps ==
    ASSUME ActRules, acts \in [Messages -> Nat], NEW m \in Messages, Others(m), Performs(m)
    PROVE  ActRules'
<1> DEFINE x == frame[m].ctx.of
<1>1. /\ frame[m].pc = "act" /\ frame'[m].pc = "done" /\ slot' = slot
      /\ acts' = [acts EXCEPT ![x] = @ + 1]
  BY DEF Performs
<1>2. \A n \in Messages : ~Carrying(n)'
  BY <1>1 DEF Others, Carrying, Carries
<1>3. Carrying(m) /\ x \in Messages /\ Live(frame[m].ctx, x) /\ ~Live(slot, x)
  BY <1>1 DEF ActRules, Owned, Acting, Live, Carrying, Carries
<1>4. acts[x] = 0
  BY <1>3 DEF ActRules, Spent
<1>5. frame[x].pc \notin Early
  BY <1>1, <1>3 DEF ActRules, Fresh
<1> HIDE DEF x
<1>6. acts'[x] = 1 /\ \A n \in Messages \ {x} : acts'[n] = acts[n]
  BY <1>1, <1>3, <1>4
<1>7. Owned'
  BY <1>1, <1>2 DEF ActRules, Owned, Carrying, Carries
<1>8. Fresh'
  <2>1. \A n \in Messages : frame'[n].pc \in Early => n # x /\ frame[n].pc \in Early
    BY <1>1, <1>5 DEF Others, Early, Pcs
  <2> QED
    BY <1>1, <1>2, <1>6, <2>1 DEF ActRules, Fresh
<1>9. Spent'
  BY <1>1, <1>2, <1>3, <1>6 DEF ActRules, Spent
<1>10. Acting'
  BY <1>2 DEF Acting, Carrying, Carries
<1> QED
  BY <1>7, <1>8, <1>9, <1>10 DEF ActRules

\* The counts stay counts.
LEMMA ActsType ==
    ASSUME acts \in [Messages -> Nat], NEW m \in Messages, StepKind(m)
    PROVE  acts' \in [Messages -> Nat]
<1>1. acts' = acts \/ acts' = [acts EXCEPT ![frame[m].ctx.of] = @ + 1]
  BY DEF StepKind, Passes, Reads, Confirms, Searches, Asks, Begins, Answers, Performs
<1> QED
  BY <1>1

\* A step of a message.
LEMMA ActStep ==
    ASSUME "overlap" \notin Races, ActInv, NEW m \in Messages, Step(m)
    PROVE  ActInv' /\ Others(m) /\ Alone(m) /\ StepKind(m)
<1>1. TypeInv /\ OneBusy /\ ActRules
  BY DEF ActInv, ActRules
<1>2. Alone(m) /\ StepKind(m)
  <2>1. CarriesOwn(m)
    BY <1>1 DEF ActRules, Owned, CarriesOwn
  <2> QED
    BY <1>1, <2>1, StepKinds
<1>3. OneBusy' /\ Others(m)
  BY <1>1, <1>2, OneBusyKept, OthersIdle
<1>4. acts \in [Messages -> Nat]
  BY <1>1 DEF TypeInv
<1>5. TypeInv'
  BY <1>2, <1>4, ActsType DEF TypeInv, Alone
<1>6. ActRules'
  BY <1>1, <1>2, <1>3, <1>4, PassesKeeps, ReadsKeeps, ConfirmsKeeps, SearchesKeeps, AsksKeeps,
     BeginsKeeps, AnswersKeeps, PerformsKeeps DEF StepKind
<1> QED
  BY <1>2, <1>3, <1>5, <1>6 DEF ActInv, ActRules

\* The slot expires.
LEMMA ActExpire ==
    ASSUME ActInv, Expire
    PROVE  ActInv'
<1>1. slot' = Nothing /\ frame' = frame /\ acts' = acts
  BY DEF Expire
<1>2. IsContext(slot') /\ slot'.type \notin Media
  BY <1>1, ContextForms, NothingLive
<1>3. \A x : ~Live(slot', x)
  BY <1>2 DEF Live
<1>4. TypeInv'
  BY <1>1, <1>2 DEF ActInv, TypeInv, FrameType
<1>5. OneBusy' /\ Owned'
  BY <1>1, <1>2 DEF ActInv, OneBusy, Busy, Owned, Carrying
<1>6. Fresh' /\ Spent' /\ Acting'
  BY <1>1, <1>3 DEF ActInv, Fresh, Spent, Acting, Carrying
<1> QED
  BY <1>4, <1>5, <1>6 DEF ActInv

\* Nothing is under way at first.
LEMMA ActInit ==
    ASSUME Init
    PROVE  ActInv
<1>1. /\ slot = Nothing /\ acts = [m \in Messages |-> 0]
      /\ \A m \in Messages : frame[m].pc = "idle" /\ frame[m].ctx = Nothing
      /\ \A m \in Messages : frame[m] = [pc |-> frame[m].pc, ctx |-> frame[m].ctx]
      /\ DOMAIN frame = Messages /\ frame = [m \in Messages |-> frame[m]]
  BY DEF Init, NoFrame
<1>2. IsContext(Nothing) /\ slot.type \notin Media
  BY <1>1, ContextForms, NothingLive
<1>3. TypeInv
  BY <1>1, <1>2 DEF TypeInv, FrameType
<1>4. \A m \in Messages : ~Carrying(m) /\ ~Busy(m) /\ frame[m].pc \notin {"search", "select", "act"}
  BY <1>1 DEF Carrying, Carries, Busy
<1>5. \A x : ~Live(slot, x)
  BY <1>2 DEF Live
<1>6. OneBusy /\ Owned
  BY <1>2, <1>4 DEF OneBusy, Owned
<1>7. Fresh /\ Spent /\ Acting
  BY <1>1, <1>4, <1>5 DEF Fresh, Spent, Acting
<1> QED
  BY <1>3, <1>6, <1>7 DEF ActInv

\* Between steps nothing happens.
LEMMA ActStutter ==
    ASSUME ActInv, UNCHANGED vars
    PROVE  ActInv'
  BY DEF vars, ActInv, TypeInv, FrameType, IsContext, OneBusy, Busy, Owned, Fresh, Spent, Acting,
         Carrying, Live

\* What holds while messages are handled one after the other.
LEMMA ActInvariant ==
    ASSUME "overlap" \notin Races
    PROVE  Spec => []ActInv
<1>1. Init => ActInv
  BY ActInit
<1>2. ActInv /\ [Next]_vars => ActInv'
  <2> SUFFICES ASSUME ActInv, [Next]_vars PROVE ActInv'
    OBVIOUS
  <2>1. CASE Expire
    BY <2>1, ActExpire
  <2>2. ASSUME NEW m \in Messages, Step(m) PROVE ActInv'
    BY <2>2, ActStep
  <2>3. CASE UNCHANGED vars
    BY <2>3, ActStutter
  <2> QED
    BY <2>1, <2>2, <2>3 DEF Next, Step
<1> QED
  BY <1>1, <1>2, PTL DEF Spec

\* Unless a message is handled before the last one is answered, one request moves
\* Radarr or Sonarr at most once, however many messages it takes, whatever the
\* model and the services answer, and even if the question expires meanwhile.
THEOREM RequestsActOnce ==
    ASSUME "overlap" \notin Races
    PROVE  Spec => []ActsOnce
<1>1. ActInv => ActsOnce
  BY DEF ActInv, Spent, ActsOnce
<1> QED
  BY <1>1, ActInvariant, PTL

-----------------------------------------------------------------------------
(* What the slot holds *)

\* Where a message is and what the slot holds then.
SlotAt ==
    \A m \in Messages :
      /\ frame[m].pc \in {"intent", "route", "search", "act"} => slot.type = "none"
      /\ frame[m].pc = "reminder_topic" => slot.type = "reminder"
      /\ frame[m].pc = "remind" => slot.type \notin Media
      /\ frame[m].pc \in {"active_topic", "select", "ask"} => slot = frame[m].ctx
      /\ frame[m].pc = "ask" => slot.type \in Media \cup {"reminder"}

RememberInv == SlotAt /\ QuestionIsRemembered

\* A step of a message.
LEMMA RememberStep ==
    ASSUME ActInv, RememberInv, NEW m \in Messages, Others(m), Alone(m), StepKind(m)
    PROVE  RememberInv'
<1>1. /\ frame[m].pc \in {"intent", "route", "search", "act"} => slot.type = "none"
      /\ frame[m].pc = "reminder_topic" => slot.type = "reminder"
      /\ frame[m].pc = "remind" => slot.type \notin Media
      /\ frame[m].pc \in {"active_topic", "select", "ask"} => slot = frame[m].ctx
      /\ frame[m].pc = "ask" => slot.type \in Media \cup {"reminder"}
      /\ frame[m].pc \in {"search", "select"} => frame[m].ctx.type \in Media
  BY DEF RememberInv, SlotAt, ActInv, Owned
<1>2. Nothing.type = "none" /\ "none" \notin Media /\ "reminder" \notin Media /\ "error" \notin Media
  BY ContextForms DEF Media
<1>3. \A n \in Messages \ {m} : frame'[n] = frame[n] /\ frame'[n].pc \in {"idle", "done"}
  BY DEF Others
<1>4. ASSUME frame'[m].pc \notin {"idle", "done"},
             /\ frame'[m].pc \in {"intent", "route", "search", "act"} => slot'.type = "none"
             /\ frame'[m].pc = "reminder_topic" => slot'.type = "reminder"
             /\ frame'[m].pc = "remind" => slot'.type \notin Media
             /\ frame'[m].pc \in {"active_topic", "select", "ask"} => slot' = frame'[m].ctx
             /\ frame'[m].pc = "ask" => slot'.type \in Media \cup {"reminder"}
      PROVE  RememberInv'
  <2>1. SlotAt'
    BY <1>3, <1>4 DEF SlotAt
  <2>2. ~Quiet'
    BY <1>4 DEF Quiet, Busy
  <2> QED
    BY <2>1, <2>2 DEF RememberInv, QuestionIsRemembered
<1>5. ASSUME frame'[m].pc = "done",
             /\ asked'.type \in Media \cup {"reminder"} => slot' = asked'
             /\ asked'.type = "none" => slot'.type \notin Media
      PROVE  RememberInv'
  <2>1. SlotAt'
    BY <1>3, <1>5 DEF SlotAt
  <2> QED
    BY <1>5, <2>1 DEF RememberInv, QuestionIsRemembered
<1>6. CASE Passes(m)
  BY <1>1, <1>2, <1>4, <1>6 DEF Passes, Early, Carries, Pcs
<1>7. CASE Reads(m)
  BY <1>4, <1>7 DEF Reads
<1>8. CASE Confirms(m)
  BY <1>1, <1>4, <1>8 DEF Confirms
<1>9. CASE Searches(m)
  BY <1>1, <1>4, <1>9 DEF Searches
<1>10. CASE Asks(m)
  BY <1>1, <1>4, <1>10 DEF Asks
<1>11. CASE Begins(m)
  BY <1>1, <1>2, <1>4, <1>11 DEF Begins
<1>12. CASE Answers(m)
  <2>1. asked'.type \in Media \cup {"reminder"} => slot' = asked'
    BY <1>1, <1>2, <1>12 DEF Answers, Answered
  <2>2. asked'.type = "none" => slot'.type \notin Media
    BY <1>1, <1>2, <1>12 DEF Answers, Answered
  <2> QED
    BY <1>5, <1>12, <2>1, <2>2 DEF Answers
<1>13. CASE Performs(m)
  BY <1>1, <1>2, <1>5, <1>13 DEF Performs
<1> QED
  BY <1>6, <1>7, <1>8, <1>9, <1>10, <1>11, <1>12, <1>13 DEF StepKind

\* The slot expires while no message is being handled.
LEMMA RememberExpire ==
    ASSUME "expires_midway" \notin Races, RememberInv, Expire
    PROVE  RememberInv'
<1>1. Quiet /\ slot' = Nothing /\ asked' = Nothing /\ frame' = frame
  BY DEF Expire
<1>2. Nothing.type = "none" /\ "none" \notin Media
  BY ContextForms DEF Media
<1>3. \A m \in Messages : frame'[m].pc \in {"idle", "done"}
  BY <1>1 DEF Quiet, Busy
<1>4. SlotAt'
  BY <1>3 DEF SlotAt
<1> QED
  BY <1>1, <1>2, <1>4 DEF RememberInv, QuestionIsRemembered

\* If messages are handled one after the other and a question does not expire while
\* its answer is being handled, then between messages the slot holds the question
\* the user was last asked, with the list that was shown, or no list at all if the
\* matter is settled or dropped.
THEOREM QuestionsAreRemembered ==
    ASSUME Races = {}
    PROVE  Spec => []QuestionIsRemembered
<1>0. "overlap" \notin Races /\ "expires_midway" \notin Races
  OBVIOUS
<1>1. Spec => []ActInv
  BY <1>0, ActInvariant
<1>2. Init => RememberInv
  <2> SUFFICES ASSUME Init PROVE RememberInv
    OBVIOUS
  <2>1. /\ slot = Nothing /\ asked = Nothing /\ Nothing.type = "none" /\ "none" \notin Media
        /\ \A m \in Messages : frame[m].pc = "idle"
    BY ContextForms DEF Init, NoFrame, Media
  <2>2. SlotAt
    BY <2>1 DEF SlotAt
  <2> QED
    BY <2>1, <2>2 DEF RememberInv, QuestionIsRemembered
<1>3. ActInv /\ RememberInv /\ [Next]_vars => RememberInv'
  <2> SUFFICES ASSUME ActInv, RememberInv, [Next]_vars PROVE RememberInv'
    OBVIOUS
  <2>1. CASE Expire
    BY <1>0, <2>1, RememberExpire
  <2>2. ASSUME NEW m \in Messages, Step(m) PROVE RememberInv'
    BY <1>0, <2>2, ActStep, RememberStep
  <2>3. CASE UNCHANGED vars
    BY <2>3 DEF vars, RememberInv, SlotAt, QuestionIsRemembered, Quiet, Busy
  <2> QED
    BY <2>1, <2>2, <2>3 DEF Next, Step
<1>4. RememberInv => QuestionIsRemembered
  BY DEF RememberInv
<1> QED
  BY <1>1, <1>2, <1>3, <1>4, PTL DEF Spec

-----------------------------------------------------------------------------
(***************************************************************************)
(* The reminders                                                           *)
(***************************************************************************)

\* What Reminders has besides the table and what looks after it; Overlaps are its
\* Races.
CONSTANTS Kinds, MaxReminders, MaxPending, MaxTimeout, MaxCrashes, MaxSends, Overlaps
VARIABLES crashes, registered, gauge, tries, cancelled, failed

Rem == INSTANCE Reminders WITH Races <- Overlaps

\* What is created can be scheduled, creations do not overlap, a DELETE does not
\* fail, and the queue has room for the rows of the user.
Calm ==
    /\ Rem!RemindersAssumption
    /\ Kinds \subseteq {"once", "recurring"} /\ {"creates", "deletes"} \cap Overlaps = {}
    /\ MaxReminders <= MaxPending

Once(r) == Rem!Kind(r) = "once"

\* Nothing of this process has begun to deliver the reminder.
Resting(r) == timer[r] = Rem!NoTimer /\ task[r] = "none" /\ r \notin Range(pending)

\* The limit is kept: one creation at a time is past its test.
LimitInv ==
    /\ IsFiniteSet(rows) /\ Cardinality(rows) <= MaxReminders
    /\ \A r, s \in Ids : creating[r] = "counted" /\ creating[s] = "counted" => r = s
    /\ \A r \in Ids : creating[r] = "counted" => Cardinality(rows) < MaxReminders

\* What waits for the bot are rows, each once.
QueueInv ==
    /\ IsFiniteSet(Range(pending)) /\ Len(pending) = Cardinality(Range(pending))
    /\ Range(pending) \subseteq rows
    /\ registered => pending = <<>>
    /\ ~up => ~registered /\ booting = {} /\ pending = <<>>

\* A call of the user was let in after the bot was ready.
CallsInv(r) ==
    /\ creating[r] \in {"counted", "inserted"} \/ r \in cancelling => registered /\ booting = {}
    /\ creating[r] \in {"new", "counted"} => r \notin cancelling \cup rows
    /\ r \in cancelling => r \notin rows
    /\ creating[r] = "new" \/ Rem!Kind(r) \in Kinds
    /\ creating[r] # "over" => sent[r] = 0
    /\ creating[r] # "over" \/ r \in booting \/ ~up => Resting(r)

\* What is left to do for a row, and for nothing else while the bot is not ready.
ProcessInv(r) ==
    /\ r \in booting => r \in rows
    /\ ~registered => /\ timer[r] # Rem!NoTimer \/ task[r] # "none" => r \in rows
                      /\ task[r] \in {"none", "found"}
    /\ task[r] = "found" => Rem!Kind(r) = "recurring" /\ r \notin Range(pending)
    /\ task[r] = "deleting" => Once(r)
    /\ task[r] # "sending" => tries[r] = 0
    /\ sent[r] = 0 => unacked[r] = 0

\* A one-time reminder is in one hand, and was not sent before its time; what was
\* sent of it during a delivery are attempts that ended in an error.
OnceInv(r) ==
    /\ timer[r] # Rem!NoTimer => task[r] = "none" /\ r \notin Range(pending)
    /\ timer[r] # Rem!NoTimer /\ ~timer[r].hop => timer[r].fires = what[r].at
    /\ timer[r] # Rem!NoTimer => sent[r] = 0
    /\ r \in Range(pending) => task[r] = "none"
    /\ r \in Range(pending) => sent[r] = 0 /\ what[r].at <= now
    /\ task[r] = "sending" => /\ what[r].at <= now
                              /\ sent[r] = unacked[r] /\ sent[r] <= tries[r]
    /\ sent[r] # 0 => what[r].at <= now

HeldInv(r) ==
    up /\ r \in rows =>
      \/ r \in booting \/ creating[r] = "inserted" \/ timer[r] # Rem!NoTimer
      \/ Once(r) /\ (r \in Range(pending) \/ task[r] # "none")

RowInv(r) == CallsInv(r) /\ ProcessInv(r) /\ (Once(r) => OnceInv(r)) /\ HeldInv(r)

RemInv == Rem!TypeOK /\ LimitInv /\ QueueInv /\ \A r \in Ids : RowInv(r)

SilentInv ==
    \A r \in Ids :
      /\ r \in cancelling \cup cancelled => task[r] = "none" /\ creating[r] = "over"
      /\ r \in cancelled => r \notin rows /\ timer[r] = Rem!NoTimer

-----------------------------------------------------------------------------
Timers == [fires : 0..Horizon, hop : BOOLEAN]

\* scheduleTimeout() arms a timer that fires at the time of the reminder, or
\* hops first.
LEMMA NextTimeoutArms ==
    ASSUME Calm, Rem!TypeOK, NEW at \in 0..Horizon
    PROVE  /\ Rem!NextTimeout(at) \in Timers /\ Rem!NextTimeout(at) # Rem!NoTimer
           /\ ~Rem!NextTimeout(at).hop => Rem!NextTimeout(at).fires = at
<1> DEFINE f == IF at - now > MaxTimeout THEN now + MaxTimeout ELSE at
           h == at - now > MaxTimeout
<1>1. Rem!NextTimeout(at) = [fires |-> f, hop |-> h]
  BY DEF Rem!NextTimeout
<1>2. f \in 0..Horizon /\ h \in BOOLEAN /\ (~h => f = at) /\ f # Horizon + 1
  BY DEF Rem!TypeOK, Calm, Rem!RemindersAssumption
<1> HIDE DEF f, h
<1>3. [fires |-> f, hop |-> h] # Rem!NoTimer
  BY <1>2 DEF Rem!NoTimer
<1> QED
  BY <1>1, <1>2, <1>3 DEF Timers

\* A timer of the registry is not that of an empty entry.
LEMMA TimerTypes ==
    ASSUME Calm, Rem!TypeOK
    PROVE  /\ timer \in [Ids -> Timers \cup {Rem!NoTimer}]
           /\ Rem!CronTimer \in Timers /\ Rem!CronTimer # Rem!NoTimer
           /\ Rem!NoTimer.fires = Horizon + 1
           /\ Horizon \in Nat /\ now \in 0..Horizon
BY DEF Rem!TypeOK, Timers, Rem!CronTimer, Rem!NoTimer, Calm, Rem!RemindersAssumption

\* The members of a queue with one more.
LEMMA RaisedSet ==
    ASSUME NEW q \in Seq(Ids), NEW r \in Ids
    PROVE  /\ Append(q, r) \in Seq(Ids) /\ Len(Append(q, r)) = Len(q) + 1
           /\ Range(Append(q, r)) = Range(q) \cup {r}
<1>1. /\ Append(q, r) \in Seq(Ids) /\ Len(Append(q, r)) = Len(q) + 1 /\ Len(q) \in Nat
      /\ DOMAIN q = 1..Len(q) /\ DOMAIN Append(q, r) = 1..(Len(q) + 1)
      /\ \A i \in 1..Len(q) : Append(q, r)[i] = q[i]
      /\ Append(q, r)[Len(q) + 1] = r
  OBVIOUS
<1>2. Range(q) = {q[i] : i \in 1..Len(q)}
  BY <1>1 DEF Range
<1>3. Range(Append(q, r)) = {Append(q, r)[i] : i \in 1..(Len(q) + 1)}
  BY <1>1 DEF Range
<1> DEFINE a == Append(q, r)
<1> HIDE DEF a
<1>4. ASSUME NEW x \in Range(a) PROVE x \in Range(q) \cup {r}
  <2>1. PICK i \in 1..(Len(q) + 1) : x = a[i]
    BY <1>3 DEF a
  <2> QED
    BY <2>1, <1>1, <1>2 DEF a
<1>5. ASSUME NEW x \in Range(q) PROVE x \in Range(a)
  <2>1. PICK i \in 1..Len(q) : x = q[i]
    BY <1>2
  <2>2. i \in 1..(Len(q) + 1) /\ a[i] = x
    BY <2>1, <1>1 DEF a
  <2> QED
    BY <2>2, <1>3 DEF a
<1>6. r \in Range(a)
  <2>1. Len(q) + 1 \in 1..(Len(q) + 1)
    BY <1>1
  <2> QED
    BY <2>1, <1>1, <1>3 DEF a
<1> QED
  BY <1>1, <1>4, <1>5, <1>6 DEF a

\* An empty queue.
LEMMA EmptyQueue == Range(<<>>) = {} /\ <<>> \in Seq(Ids) /\ Len(<<>>) = 0
<1>1. DOMAIN <<>> = {}
  OBVIOUS
<1> QED
  BY <1>1 DEF Range

\* The first state: nothing was created.
LEMMA InitHolds ==
    ASSUME Calm
    PROVE  Rem!Init => RemInv /\ SilentInv
<1> SUFFICES ASSUME Rem!Init PROVE RemInv /\ SilentInv
  OBVIOUS
<1>1. Rem!NoTimer \in [fires : 0..Horizon, hop : BOOLEAN] \cup {Rem!NoTimer}
  OBVIOUS
<1>2. Rem!TypeOK
  <2>1. [kind |-> "none", at |-> 0] \in [kind : Rem!KindNames \cup {"none"}, at : 0..Horizon]
    BY DEF Calm, Rem!RemindersAssumption
  <2>2. what \in [Ids -> [kind : Rem!KindNames \cup {"none"}, at : 0..Horizon]]
    BY <2>1 DEF Rem!Init
  <2>3. timer \in [Ids -> [fires : 0..Horizon, hop : BOOLEAN] \cup {Rem!NoTimer}]
    BY <1>1 DEF Rem!Init
  <2>4. pending \in Seq(Ids) /\ Len(pending) <= MaxPending
    BY EmptyQueue DEF Rem!Init, Calm, Rem!RemindersAssumption
  <2>5. /\ now \in 0..Horizon /\ crashes \in 0..MaxCrashes
        /\ gauge \in Int /\ sent \in [Ids -> Nat]
        /\ unacked \in [Ids -> Nat] /\ tries \in [Ids -> 0..(MaxAttempts - 1)]
    BY DEF Rem!Init, Calm, Rem!RemindersAssumption
  <2>7. up \in BOOLEAN /\ registered \in BOOLEAN
    BY DEF Rem!Init
  <2>6. /\ rows \subseteq Ids /\ booting \subseteq Ids /\ cancelling \subseteq Ids
        /\ cancelled \subseteq Ids /\ failed \subseteq Ids
        /\ creating \in [Ids -> {"new", "counted", "inserted", "over"}]
        /\ task \in [Ids -> {"none", "found", "sending", "deleting"}]
    BY DEF Rem!Init
  <2> QED
    BY <2>2, <2>3, <2>4, <2>5, <2>6, <2>7 DEF Rem!TypeOK
<1>3. LimitInv /\ QueueInv
  <2>1. IsFiniteSet(rows) /\ Cardinality(rows) = 0
    BY FS_EmptySet DEF Rem!Init
  <2>2. Range(pending) = {} /\ Len(pending) = 0
    BY EmptyQueue DEF Rem!Init
  <2>3. IsFiniteSet(Range(pending)) /\ Cardinality(Range(pending)) = 0
    BY <2>2, FS_EmptySet
  <2>4. LimitInv
    BY <2>1 DEF Rem!Init, LimitInv, Calm, Rem!RemindersAssumption
  <2>5. QueueInv
    BY <2>2, <2>3 DEF Rem!Init, QueueInv
  <2> QED
    BY <2>4, <2>5
<1>4. \A r \in Ids : RowInv(r)
  BY EmptyQueue DEF Rem!Init, RowInv, CallsInv, ProcessInv, OnceInv, HeldInv, Resting, Once, Rem!Kind
<1> QED
  BY <1>2, <1>3, <1>4 DEF RemInv, SilentInv, Rem!Init

-----------------------------------------------------------------------------
\* create() passes its test: the row is not there yet.
LEMMA CreateKeeps == ASSUME Calm, RemInv, NEW r \in Ids, Rem!Create(r) PROVE RemInv'
<1>0. Rem!TypeOK /\ LimitInv /\ QueueInv
  BY DEF RemInv
<1>t. Rem!TypeOK'
  <2>1. what' \in [Ids -> [kind : Rem!KindNames \cup {"none"}, at : 0..Horizon]]
    <3>0. PICK kind \in Kinds : \E at \in IF kind = "once" THEN 1..Horizon ELSE {0} :
               what' = [what EXCEPT ![r] = [kind |-> kind, at |-> at]]
      BY DEF Rem!Create
    <3>1. PICK at \in IF kind = "once" THEN 1..Horizon ELSE {0} :
               what' = [what EXCEPT ![r] = [kind |-> kind, at |-> at]]
      BY <3>0
    <3>2. [kind |-> kind, at |-> at] \in [kind : Rem!KindNames \cup {"none"}, at : 0..Horizon]
      BY DEF Calm, Rem!RemindersAssumption
    <3> QED
      BY <3>1, <3>2, <1>0 DEF Rem!TypeOK
  <2> QED
    BY <1>0, <2>1 DEF Rem!TypeOK, Rem!Create, Rem!clock, Rem!history
<1>l. LimitInv'
  <2>1. "creates" \notin Overlaps
    BY DEF Calm
  <2>2. /\ \A s \in Ids : creating[s] # "counted"
        /\ \A s \in Ids \ {r} : creating'[s] = creating[s]
        /\ Cardinality(rows) < MaxReminders /\ rows' = rows
    <3>1. \A s \in Ids : creating[s] # "counted"
      BY <2>1 DEF Rem!Create
    <3>2. creating' = [creating EXCEPT ![r] = "counted"] /\ rows' = rows
      BY DEF Rem!Create
    <3>3. \A s \in Ids \ {r} : creating'[s] = creating[s]
      BY <3>2, <1>0 DEF Rem!TypeOK
    <3>4. Cardinality(rows) < MaxReminders
      BY DEF Rem!Create, Rem!BelowLimit, Cardinality, Rem!Cardinality
    <3> QED
      BY <3>1, <3>2, <3>3, <3>4
  <2> QED
    BY <2>2, <1>0 DEF LimitInv
<1>q. QueueInv'
  BY <1>0 DEF QueueInv, Rem!Create, Rem!clock
<1>r. ASSUME NEW s \in Ids PROVE RowInv(s)'
  <2>1. RowInv(s)
    BY DEF RemInv
  <2>2. CASE s = r
    <3>1. what'[r].kind \in Kinds
      BY <1>0 DEF Rem!Create, Rem!TypeOK
    <3> QED
      BY <2>1, <2>2, <3>1, <1>0 DEF Rem!TypeOK, Rem!Create, Rem!Serving, Rem!clock, Rem!history,
         RowInv, CallsInv,
           ProcessInv, OnceInv, HeldInv, Resting, Once, Rem!Kind
  <2>3. CASE s # r
    <3>1. what'[s] = what[s] /\ creating'[s] = creating[s]
      BY <2>3, <1>0 DEF Rem!Create, Rem!TypeOK
    <3> QED
      BY <2>1, <2>3, <3>1, <1>0 DEF Rem!Create, Rem!Serving, Rem!clock, Rem!history, RowInv,
         CallsInv,
           ProcessInv, OnceInv, HeldInv, Resting, Once, Rem!Kind
  <2> QED
    BY <2>2, <2>3
<1> QED
  BY <1>t, <1>l, <1>q, <1>r DEF RemInv

\* The INSERT of create().
LEMMA InsertKeeps == ASSUME Calm, RemInv, NEW r \in Ids, Rem!Insert(r) PROVE RemInv'
<1>0. Rem!TypeOK /\ LimitInv /\ QueueInv
  BY DEF RemInv
<1>t. Rem!TypeOK'
  BY <1>0 DEF Rem!TypeOK, Rem!Insert, Rem!clock, Rem!history
<1>l. LimitInv'
  <2>0. rows' = rows \cup {r} /\ IsFiniteSet(rows) /\ Cardinality(rows) < MaxReminders
    BY <1>0 DEF Rem!Insert, LimitInv
  <2>1. IsFiniteSet(rows') /\ Cardinality(rows) \in Nat
        /\ (Cardinality(rows') = Cardinality(rows) \/ Cardinality(rows') = Cardinality(rows) + 1)
    BY <2>0, FS_AddElement, FS_CardinalityType
  <2>2. Cardinality(rows') <= MaxReminders
    BY <2>0, <2>1 DEF Calm, Rem!RemindersAssumption
  <2>3. \A s \in Ids : creating'[s] # "counted"
    BY <1>0 DEF Rem!Insert, LimitInv, Rem!TypeOK
  <2> QED
    BY <2>1, <2>2, <2>3 DEF LimitInv
<1>q. QueueInv'
  BY <1>0 DEF QueueInv, Rem!Insert, Rem!clock
<1>r. ASSUME NEW s \in Ids PROVE RowInv(s)'
  <2>1. RowInv(s) /\ RowInv(r)
    BY DEF RemInv
  <2>2. CASE s = r
    <3>1. /\ creating'[r] = "inserted" /\ creating[r] = "counted"
          /\ registered /\ booting = {} /\ Rem!Kind(r) \in Kinds /\ sent[r] = 0 /\ Resting(r) /\ up
      BY <2>1, <1>0 DEF Rem!TypeOK, Rem!Insert, RowInv, CallsInv
    <3>2. /\ UNCHANGED <<registered, booting, sent, unacked, tries, what, timer, pending, task, now, up>>
          /\ r \notin cancelling' /\ r \in rows'
      BY <2>1, <1>0, <3>1 DEF Rem!Insert, Rem!clock, Rem!history, RowInv, CallsInv
    <3>3. Resting(r)' /\ (Rem!Kind(r) \in Kinds)' /\ (Once(r) <=> Once(r)')
      BY <3>1, <3>2 DEF Resting, Rem!Kind, Once
    <3>4. CallsInv(r)'
      BY <3>1, <3>2, <3>3 DEF CallsInv
    <3>5. ProcessInv(r)'
      BY <2>1, <3>1, <3>2, <3>3 DEF RowInv, ProcessInv, Resting
    <3>6. OnceInv(r)'
      BY <3>1, <3>2, <3>3 DEF OnceInv, Resting
    <3>7. HeldInv(r)'
      BY <3>1, <3>2, <3>3 DEF HeldInv
    <3> QED
      BY <2>2, <3>4, <3>5, <3>6, <3>7 DEF RowInv
  <2>3. CASE s # r
    BY <2>1, <2>3, <1>0 DEF Rem!TypeOK, Rem!Insert, Rem!clock, Rem!history, RowInv, CallsInv,
         ProcessInv, OnceInv, HeldInv, Resting, Once, Rem!Kind
  <2> QED
    BY <2>2, <2>3
<1> QED
  BY <1>t, <1>l, <1>q, <1>r DEF RemInv
\* A step that leaves what concerns a reminder alone, but for the clock.
LEMMA Untouched ==
    ASSUME NEW s \in Ids, RowInv(s),
           now \in Int, now' \in Int, what[s].at \in Int, now <= now',
           what'[s] = what[s], creating'[s] = creating[s], timer'[s] = timer[s],
           task'[s] = task[s], sent'[s] = sent[s],
           unacked'[s] = unacked[s], tries'[s] = tries[s],
           s \in rows' <=> s \in rows, s \in booting' <=> s \in booting,
           s \in cancelling' <=> s \in cancelling,
           s \in Range(pending') <=> s \in Range(pending),
           booting = {} => booting' = {}, up' = up, registered' = registered
    PROVE  RowInv(s)'
<1>1. Resting(s)' <=> Resting(s)
  BY DEF Resting
<1>2. Rem!Kind(s)' = Rem!Kind(s) /\ (Once(s)' <=> Once(s))
  BY DEF Rem!Kind, Once
<1>3. CallsInv(s)'
  BY <1>1, <1>2 DEF RowInv, CallsInv
<1>4. ProcessInv(s)'
  BY <1>2 DEF RowInv, ProcessInv
<1>5. OnceInv(s) => OnceInv(s)'
  BY DEF OnceInv
<1>6. HeldInv(s)'
  BY <1>2 DEF RowInv, HeldInv
<1> QED
  BY <1>2, <1>3, <1>4, <1>5, <1>6 DEF RowInv

\* What is known of one reminder.
LEMMA RowTypes ==
    ASSUME Calm, RemInv, NEW s \in Ids
    PROVE  /\ now \in Nat /\ what[s].at \in Nat /\ what[s].at \in 0..Horizon
           /\ RowInv(s) /\ (creating[s] = "new" \/ Rem!Kind(s) \in {"once", "recurring"})
<1>1. Rem!TypeOK /\ RowInv(s)
  BY DEF RemInv
<1>2. what[s] \in [kind : Rem!KindNames \cup {"none"}, at : 0..Horizon]
  BY <1>1 DEF Rem!TypeOK
<1>3. what[s].at \in 0..Horizon /\ now \in 0..Horizon /\ Horizon \in Nat
  BY <1>1, <1>2 DEF Rem!TypeOK, Calm, Rem!RemindersAssumption
<1>4. creating[s] = "new" \/ Rem!Kind(s) \in {"once", "recurring"}
  BY <1>1 DEF RowInv, CallsInv, Calm
<1> QED
  BY <1>1, <1>3, <1>4

\* scheduleReminder() deletes a row that comes too late, or arms its timer.
LEMMA ScheduleArms ==
    ASSUME Calm, RemInv, NEW r \in Ids, Rem!Schedule(r), Rem!Kind(r) \in {"once", "recurring"}
    PROVE  \/ /\ Once(r) /\ what[r].at <= now
              /\ rows' = rows \ {r} /\ timer' = timer
           \/ /\ rows' = rows
              /\ ~(Once(r) /\ what[r].at <= now)
              /\ timer' \in [Ids -> Timers \cup {Rem!NoTimer}]
              /\ timer'[r] # Rem!NoTimer
              /\ Once(r) /\ ~timer'[r].hop => timer'[r].fires = what[r].at
              /\ \A s \in Ids \ {r} : timer'[s] = timer[s]
<1>0. Rem!TypeOK /\ what[r].at \in 0..Horizon
  BY RowTypes DEF RemInv
<1>1. CASE Rem!Kind(r) = "once" /\ Rem!Overdue(what[r].at)
  <2>1. rows' = rows \ {r} /\ timer' = timer
    BY <1>1 DEF Rem!Schedule
  <2> QED
    BY <1>1, <2>1 DEF Once, Rem!Overdue
<1>2. CASE Rem!Kind(r) = "once" /\ ~Rem!Overdue(what[r].at)
  <2> DEFINE n == Rem!NextTimeout(what[r].at)
  <2>1. n \in Timers /\ n # Rem!NoTimer /\ (~n.hop => n.fires = what[r].at)
    BY <1>0, NextTimeoutArms
  <2>2. rows' = rows /\ timer' = [timer EXCEPT ![r] = n]
    BY <1>2 DEF Rem!Schedule
  <2> HIDE DEF n
  <2> QED
    BY <2>1, <2>2, <1>0, <1>2, TimerTypes DEF Once, Rem!Overdue
<1>3. CASE Rem!Kind(r) = "recurring"
  <2> DEFINE n == Rem!CronTimer
  <2>1. rows' = rows /\ timer' = [timer EXCEPT ![r] = n]
    BY <1>3 DEF Rem!Schedule
  <2>2. n \in Timers /\ n # Rem!NoTimer
    BY <1>0, TimerTypes
  <2> HIDE DEF n
  <2> QED
    BY <2>1, <2>2, <1>0, <1>3, TimerTypes DEF Once
<1> QED
  BY <1>1, <1>2, <1>3

\* Rows that go leave the limit as it was.
LEMMA FewerRows ==
    ASSUME Calm, LimitInv, rows' \subseteq rows,
           \A s \in Ids : creating'[s] = "counted" => creating[s] = "counted"
    PROVE  LimitInv'
<1>1. IsFiniteSet(rows') /\ Cardinality(rows') <= Cardinality(rows)
      /\ Cardinality(rows') \in Nat /\ Cardinality(rows) \in Nat
  BY FS_Subset, FS_CardinalityType DEF LimitInv
<1> QED
  BY <1>1 DEF LimitInv, Calm, Rem!RemindersAssumption

\* create() goes on after its INSERT.
LEMMA ScheduleCreatedKeeps ==
    ASSUME Calm, RemInv, NEW r \in Ids, Rem!ScheduleCreated(r)
    PROVE  RemInv'
<1>0. Rem!TypeOK /\ LimitInv /\ QueueInv /\ RowInv(r) /\ Rem!TypeOK'
  <2>1. Rem!TypeOK /\ LimitInv /\ QueueInv /\ RowInv(r)
    BY DEF RemInv
  <2>2. Rem!Kind(r) \in {"once", "recurring"}
    BY <2>1, RowTypes DEF Rem!ScheduleCreated
  <2>3. rows' \subseteq rows /\ timer' \in [Ids -> Timers \cup {Rem!NoTimer}]
    BY <2>1, <2>2, ScheduleArms, TimerTypes DEF Rem!ScheduleCreated
  <2>4. gauge' \in Int
    BY <2>1 DEF Rem!ScheduleCreated, Rem!Purged, Rem!TypeOK
  <2>5. creating' \in [Ids -> {"new", "counted", "inserted", "over"}]
    BY <2>1 DEF Rem!ScheduleCreated, Rem!TypeOK
  <2> QED
    BY <2>1, <2>3, <2>4, <2>5 DEF Rem!ScheduleCreated, Rem!TypeOK, Timers, Rem!clock, Rem!history
<1>1. /\ creating[r] = "inserted" /\ creating'[r] = "over" /\ up
      /\ registered /\ booting = {} /\ Rem!Kind(r) \in {"once", "recurring"}
      /\ Resting(r) /\ sent[r] = 0 /\ Rem!Schedule(r) /\ pending = <<>>
  BY <1>0, RowTypes DEF Rem!ScheduleCreated, Rem!TypeOK, RowInv, CallsInv, QueueInv
<1>2. /\ UNCHANGED <<now, up, booting, registered, what, pending, task, sent, unacked, tries, cancelling>>
      /\ \A s \in Ids \ {r} : creating'[s] = creating[s]
  BY <1>0 DEF Rem!ScheduleCreated, Rem!clock, Rem!history, Rem!TypeOK
<1>3. /\ rows' \subseteq rows /\ rows \ {r} \subseteq rows'
      /\ \A s \in Ids \ {r} : timer'[s] = timer[s]
      /\ r \in rows' => timer'[r] # Rem!NoTimer
      /\ Once(r) /\ timer'[r] # Rem!NoTimer /\ ~timer'[r].hop => timer'[r].fires = what[r].at
  BY <1>1, ScheduleArms DEF Resting
<1>l. LimitInv'
  BY <1>0, <1>1, <1>2, <1>3, FewerRows
<1>q. QueueInv'
  BY <1>0, <1>1, <1>2, <1>3, EmptyQueue DEF QueueInv
<1>r. ASSUME NEW s \in Ids PROVE RowInv(s)'
  <2>1. CASE s # r
    BY <2>1, <1>2, <1>3, RowTypes, Untouched
  <2>2. CallsInv(r)'
    BY <1>0, <1>1, <1>2, <1>3 DEF RowInv, CallsInv, Rem!Kind, Resting
  <2>3. ProcessInv(r)'
    BY <1>0, <1>1, <1>2, <1>3 DEF RowInv, ProcessInv, Resting
  <2>4. Once(r)' => OnceInv(r)'
    BY <1>0, <1>1, <1>2, <1>3 DEF OnceInv, Resting, Once, Rem!Kind
  <2>5. HeldInv(r)'
    BY <1>1, <1>2, <1>3 DEF HeldInv
  <2> QED
    BY <2>1, <2>2, <2>3, <2>4, <2>5 DEF RowInv
<1> QED
  BY <1>0, <1>l, <1>q, <1>r DEF RemInv

\* The DELETE of cancel().
LEMMA CancelKeeps == ASSUME Calm, RemInv, NEW r \in Ids, Rem!Cancel(r) PROVE RemInv'
<1>0. Rem!TypeOK /\ LimitInv /\ QueueInv /\ RowInv(r) /\ Rem!TypeOK'
  <2>1. Rem!TypeOK /\ LimitInv /\ QueueInv /\ RowInv(r)
    BY DEF RemInv
  <2> QED
    BY <2>1 DEF Rem!Cancel, Rem!TypeOK, Rem!clock, Rem!history
<1>1. r \in rows /\ registered /\ booting = {} /\ pending = <<>> /\ up
  BY <1>0 DEF Rem!Cancel, Rem!Serving, QueueInv
<1>2. /\ UNCHANGED <<now, up, booting, registered, what, pending, task, sent, unacked, tries, timer, creating>>
      /\ rows' = rows \ {r} /\ cancelling' = cancelling \cup {r}
  BY DEF Rem!Cancel, Rem!clock, Rem!history
<1>l. LimitInv'
  BY <1>0, <1>2, FewerRows
<1>q. QueueInv'
  BY <1>0, <1>1, <1>2, EmptyQueue DEF QueueInv
<1>r. ASSUME NEW s \in Ids PROVE RowInv(s)'
  <2>1. CASE s # r
    BY <2>1, <1>2, RowTypes, Untouched
  <2>2. CallsInv(r)'
    BY <1>0, <1>1, <1>2 DEF RowInv, CallsInv, Rem!Kind, Resting
  <2>3. ProcessInv(r)'
    BY <1>0, <1>1, <1>2 DEF RowInv, ProcessInv, Resting, Once, Rem!Kind
  <2>4. Once(r)' => OnceInv(r)'
    BY <1>0, <1>2 DEF RowInv, OnceInv, Once, Rem!Kind
  <2>5. HeldInv(r)'
    BY <1>2 DEF HeldInv
  <2> QED
    BY <2>1, <2>2, <2>3, <2>4, <2>5 DEF RowInv
<1> QED
  BY <1>0, <1>l, <1>q, <1>r DEF RemInv

\* cancel() goes on and returns.
LEMMA CancelReturnsKeeps == ASSUME Calm, RemInv, NEW r \in Ids, Rem!CancelReturns(r) PROVE RemInv'
<1>0. Rem!TypeOK /\ LimitInv /\ QueueInv /\ RowInv(r) /\ Rem!TypeOK'
  <2>1. Rem!TypeOK /\ LimitInv /\ QueueInv /\ RowInv(r)
    BY DEF RemInv
  <2>2. timer' \in [Ids -> Timers \cup {Rem!NoTimer}]
    BY <2>1, TimerTypes DEF Rem!CancelReturns, Rem!Unscheduled
  <2> QED
    BY <2>1, <2>2 DEF Rem!CancelReturns, Rem!TypeOK, Rem!clock, Timers
<1>1. r \in cancelling /\ r \notin rows /\ registered /\ booting = {} /\ up
  BY <1>0 DEF Rem!CancelReturns, RowInv, CallsInv, QueueInv
<1>2. /\ UNCHANGED <<now, up, booting, registered, what, pending, task, sent, unacked, tries, rows, creating>>
      /\ cancelling' = cancelling \ {r}
      /\ timer'[r] = Rem!NoTimer /\ \A s \in Ids \ {r} : timer'[s] = timer[s]
  BY <1>0 DEF Rem!CancelReturns, Rem!Unscheduled, Rem!clock, Rem!history, Rem!TypeOK
<1>l. LimitInv'
  BY <1>0, <1>2, FewerRows
<1>q. QueueInv'
  BY <1>0, <1>1, <1>2 DEF QueueInv
<1>r. ASSUME NEW s \in Ids PROVE RowInv(s)'
  <2>1. CASE s # r
    BY <2>1, <1>2, RowTypes, Untouched
  <2>2. CallsInv(r)'
    BY <1>0, <1>1, <1>2 DEF RowInv, CallsInv, Rem!Kind, Resting
  <2>3. ProcessInv(r)'
    BY <1>0, <1>1, <1>2 DEF RowInv, ProcessInv, Resting, Once, Rem!Kind
  <2>4. Once(r)' => OnceInv(r)'
    BY <1>0, <1>2 DEF RowInv, OnceInv, Once, Rem!Kind
  <2>5. HeldInv(r)'
    BY <1>1, <1>2 DEF HeldInv
  <2> QED
    BY <2>1, <2>2, <2>3, <2>4, <2>5 DEF RowInv
<1> QED
  BY <1>0, <1>l, <1>q, <1>r DEF RemInv
-----------------------------------------------------------------------------
\* What is delivered before the bot is ready waits in the queue, which has room.
LEMMA DeliverQueues ==
    ASSUME Calm, RemInv, NEW r \in Ids, NEW tasks, Rem!Deliver(r, tasks),
           r \notin Range(pending), ~registered => r \in rows
    PROVE  \/ /\ registered
              /\ task' = [tasks EXCEPT ![r] = "sending"] /\ pending' = pending
           \/ /\ ~registered
              /\ task' = tasks
              /\ pending' \in Seq(Ids) /\ Len(pending') <= MaxPending
              /\ Range(pending') = Range(pending) \cup {r}
              /\ IsFiniteSet(Range(pending')) /\ Len(pending') = Cardinality(Range(pending'))
<1>1. CASE registered
  BY <1>1 DEF Rem!Deliver
<1>2. CASE ~registered
  <2>0. Rem!TypeOK /\ LimitInv /\ QueueInv
    BY DEF RemInv
  <2> DEFINE q == Append(pending, r)
  <2>1. /\ pending \in Seq(Ids) /\ q \in Seq(Ids) /\ Len(q) = Len(pending) + 1
        /\ Len(pending) \in Nat /\ Range(q) = Range(pending) \cup {r}
    BY <2>0, RaisedSet DEF Rem!TypeOK
  <2>2. /\ IsFiniteSet(Range(q)) /\ Cardinality(Range(q)) = Cardinality(Range(pending)) + 1
    BY <2>0, <2>1, FS_AddElement DEF QueueInv
  <2>3. Range(q) \subseteq rows
    BY <1>2, <2>0, <2>1 DEF QueueInv
  <2>4. Cardinality(Range(q)) <= Cardinality(rows) /\ Cardinality(rows) \in Nat
    BY <2>0, <2>3, FS_Subset, FS_CardinalityType DEF LimitInv
  <2>5. Len(q) = Cardinality(Range(q))
    BY <2>0, <2>1, <2>2 DEF QueueInv
  <2>6. Len(pending) < MaxPending /\ Len(q) <= MaxPending
    BY <2>0, <2>1, <2>4, <2>5 DEF LimitInv, Calm, Rem!RemindersAssumption
  <2>7. task' = tasks /\ pending' = q
    BY <1>2, <2>6 DEF Rem!Deliver
  <2> HIDE DEF q
  <2> QED
    BY <1>2, <2>1, <2>2, <2>5, <2>6, <2>7
<1> QED
  BY <1>1, <1>2

\* The timer of a one-time reminder: a hop, or its delivery.
LEMMA TimerFiresKeeps == ASSUME Calm, RemInv, NEW r \in Ids, Rem!TimerFires(r) PROVE RemInv'
<1>0. Rem!TypeOK /\ LimitInv /\ QueueInv /\ RowInv(r) /\ now \in Nat /\ what[r].at \in Nat
  BY RowTypes DEF RemInv
<1>1. /\ Once(r) /\ timer[r].fires <= now /\ timer[r] # Rem!NoTimer /\ OnceInv(r) /\ up
      /\ timer \in [Ids -> Timers \cup {Rem!NoTimer}]
  BY <1>0, TimerTypes DEF Rem!TimerFires, Once, RowInv
<1>2. /\ UNCHANGED <<now, up, booting, registered, what, sent, unacked, tries, rows, creating, cancelling>>
  BY DEF Rem!TimerFires, Rem!clock, Rem!history
<1>3. /\ task[r] = "none" /\ r \notin Range(pending) /\ sent[r] = 0
      /\ r \notin booting /\ creating[r] = "over" /\ (~registered => r \in rows)
  BY <1>0, <1>1 DEF OnceInv, RowInv, CallsInv, ProcessInv, Resting
<1>l. LimitInv'
  BY <1>0, <1>2, FewerRows
<1>4. CASE timer[r].hop /\ ~Rem!Overdue(what[r].at)
           /\ timer' = [timer EXCEPT ![r] = Rem!NextTimeout(what[r].at)]
           /\ UNCHANGED <<pending, task>>
  <2> DEFINE n == Rem!NextTimeout(what[r].at)
  <2>1. n \in Timers /\ n # Rem!NoTimer /\ (~n.hop => n.fires = what[r].at)
    BY <1>0, NextTimeoutArms, RowTypes
  <2>2. timer' = [timer EXCEPT ![r] = n]
    BY <1>4
  <2> HIDE DEF n
  <2>3. /\ timer' \in [Ids -> Timers \cup {Rem!NoTimer}]
        /\ timer'[r] = n /\ \A s \in Ids \ {r} : timer'[s] = timer[s]
        /\ UNCHANGED <<pending, task>>
    BY <1>1, <1>4, <2>1, <2>2
  <2>t. Rem!TypeOK'
    BY <1>0, <2>3 DEF Rem!TypeOK, Rem!TimerFires, Timers, Rem!clock, Rem!history
  <2>q. QueueInv'
    BY <1>0, <1>2, <2>3 DEF QueueInv
  <2>r. ASSUME NEW s \in Ids PROVE RowInv(s)'
    <3>1. CASE s # r
      BY <3>1, <1>2, <2>3, RowTypes, Untouched
    <3>2. CallsInv(r)'
      BY <1>0, <1>1, <1>2, <1>3, <2>3 DEF RowInv, CallsInv, Rem!Kind, Resting
    <3>3. ProcessInv(r)'
      BY <1>0, <1>2, <1>3, <2>3 DEF RowInv, ProcessInv, Resting, Once, Rem!Kind
    <3>4. OnceInv(r)'
      BY <1>1, <1>2, <1>3, <2>1, <2>3 DEF OnceInv
    <3>5. HeldInv(r)'
      BY <2>1, <2>3 DEF HeldInv
    <3> QED
      BY <3>1, <3>2, <3>3, <3>4, <3>5 DEF RowInv
  <2> QED
    BY <2>t, <1>l, <2>q, <2>r DEF RemInv
<1>5. CASE /\ ~timer[r].hop \/ Rem!Overdue(what[r].at)
           /\ timer' = [timer EXCEPT ![r] = Rem!NoTimer]
           /\ Rem!Deliver(r, task)
  <2>1. what[r].at <= now
    BY <1>0, <1>1, <1>5 DEF Rem!Overdue, OnceInv
  <2>2. /\ timer' \in [Ids -> Timers \cup {Rem!NoTimer}]
        /\ timer'[r] = Rem!NoTimer /\ \A s \in Ids \ {r} : timer'[s] = timer[s]
    BY <1>1, <1>5
  <2>3. /\ task' \in [Ids -> {"none", "found", "sending", "deleting"}]
        /\ \A s \in Ids \ {r} : /\ task'[s] = task[s]
                                /\ s \in Range(pending') <=> s \in Range(pending)
        /\ \/ registered /\ task'[r] = "sending" /\ pending' = pending
           \/ /\ ~registered /\ task'[r] = "none" /\ Range(pending') = Range(pending) \cup {r}
              /\ pending' \in Seq(Ids) /\ Len(pending') <= MaxPending
              /\ IsFiniteSet(Range(pending')) /\ Len(pending') = Cardinality(Range(pending'))
    <3> HIDE DEF RemInv
    <3>1. task \in [Ids -> {"none", "found", "sending", "deleting"}]
      BY <1>0 DEF Rem!TypeOK
    <3>2. CASE registered /\ task' = [task EXCEPT ![r] = "sending"] /\ pending' = pending
      BY <3>1, <3>2
    <3>3. CASE /\ ~registered
               /\ task' = task
               /\ pending' \in Seq(Ids) /\ Len(pending') <= MaxPending
               /\ Range(pending') = Range(pending) \cup {r}
               /\ IsFiniteSet(Range(pending')) /\ Len(pending') = Cardinality(Range(pending'))
      BY <3>1, <3>3, <1>3
    <3> QED
      BY <3>2, <3>3, <1>3, <1>5, DeliverQueues
  <2>t. Rem!TypeOK'
    BY <1>0, <2>2, <2>3 DEF Rem!TypeOK, Rem!TimerFires, Timers, Rem!clock, Rem!history
  <2>q. QueueInv'
    BY <1>0, <1>1, <1>2, <1>3, <2>3 DEF QueueInv
  <2>r. ASSUME NEW s \in Ids PROVE RowInv(s)'
    <3>1. CASE s # r
      BY <3>1, <1>2, <2>2, <2>3, RowTypes, Untouched
    <3>2. CallsInv(r)'
      BY <1>0, <1>1, <1>2, <1>3 DEF RowInv, CallsInv, Rem!Kind
    <3>3. ProcessInv(r)'
      <4>1. tries'[r] = 0 /\ (sent'[r] = 0 => unacked'[r] = 0)
        BY <1>0, <1>2, <1>3 DEF RowInv, ProcessInv
      <4>2. /\ r \notin booting' /\ task'[r] \notin {"found", "deleting"}
            /\ ~registered' => r \in rows' /\ task'[r] = "none"
        BY <1>2, <1>3, <2>3
      <4> QED
        BY <4>1, <4>2 DEF ProcessInv
    <3>4. OnceInv(r)'
      <4>1. sent'[r] = 0 /\ unacked'[r] = 0 /\ tries'[r] = 0
        BY <1>0, <1>2, <1>3 DEF RowInv, ProcessInv
      <4>2. what'[r].at <= now' /\ timer'[r] = Rem!NoTimer
        BY <1>2, <2>1, <2>2
      <4>3. r \in Range(pending') => task'[r] = "none"
        BY <1>3, <2>3
      <4> QED
        BY <4>1, <4>2, <4>3 DEF OnceInv
    <3>5. HeldInv(r)'
      BY <1>1, <1>2, <2>3 DEF HeldInv, Once, Rem!Kind
    <3> QED
      BY <3>1, <3>2, <3>3, <3>4, <3>5 DEF RowInv
  <2> QED
    BY <2>t, <1>l, <2>q, <2>r DEF RemInv
<1> QED
  BY <1>4, <1>5 DEF Rem!TimerFires

\* A cron job asks for its row.
LEMMA CronFiresKeeps == ASSUME Calm, RemInv, NEW r \in Ids, Rem!CronFires(r) PROVE RemInv'
<1>0. Rem!TypeOK /\ LimitInv /\ QueueInv /\ RowInv(r) /\ Rem!TypeOK'
  <2>1. Rem!TypeOK /\ LimitInv /\ QueueInv /\ RowInv(r)
    BY DEF RemInv
  <2> QED
    BY <2>1 DEF Rem!CronFires, Rem!TypeOK, Rem!clock, Rem!history
<1>1. /\ UNCHANGED <<now, up, booting, registered, what, pending, sent, unacked, tries, rows, creating, cancelling,
                     timer>>
      /\ task[r] = "none" /\ timer[r] # Rem!NoTimer
      /\ r \notin Range(pending) /\ Rem!Kind(r) = "recurring"
      /\ task'[r] = "none" \/ (task'[r] = "found" /\ r \in rows)
      /\ \A s \in Ids \ {r} : task'[s] = task[s]
  <2>1. task[r] = "none" /\ timer[r] = Rem!CronTimer /\ r \notin Range(pending)
        /\ Rem!Kind(r) = "recurring"
    BY DEF Rem!CronFires, Range, Rem!Range
  <2>2. Rem!CronTimer # Rem!NoTimer
    BY <1>0, TimerTypes
  <2>3. task' = [task EXCEPT ![r] = IF r \in rows THEN "found" ELSE "none"]
    BY DEF Rem!CronFires
  <2>4. /\ task'[r] = "none" \/ (task'[r] = "found" /\ r \in rows)
        /\ \A s \in Ids \ {r} : task'[s] = task[s]
    <3>1. task \in [Ids -> {"none", "found", "sending", "deleting"}]
      BY <1>0 DEF Rem!TypeOK
    <3>2. CASE r \in rows
      BY <2>3, <3>1, <3>2
    <3>3. CASE r \notin rows
      <4>1. task' = [task EXCEPT ![r] = "none"]
        BY <2>3, <3>3
      <4> QED
        BY <3>1, <4>1
    <3> QED
      BY <3>2, <3>3
  <2>5. UNCHANGED <<now, up, booting, registered, what, pending, sent, unacked, tries, rows, creating, cancelling,
                    timer>>
    BY DEF Rem!CronFires, Rem!clock, Rem!history
  <2> QED
    BY <2>1, <2>2, <2>4, <2>5
<1>l. LimitInv'
  BY <1>0, <1>1, FewerRows
<1>q. QueueInv'
  BY <1>0, <1>1 DEF QueueInv
<1>r. ASSUME NEW s \in Ids PROVE RowInv(s)'
  <2>1. CASE s # r
    BY <2>1, <1>1, RowTypes, Untouched
  <2>2. CallsInv(r)'
    BY <1>0, <1>1 DEF RowInv, CallsInv, Rem!Kind, Resting
  <2>3. ProcessInv(r)'
    BY <1>0, <1>1 DEF RowInv, ProcessInv, Resting, Once, Rem!Kind
  <2>4. ~Once(r)'
    BY <1>1 DEF Once, Rem!Kind
  <2>5. HeldInv(r)'
    BY <1>1 DEF HeldInv
  <2> QED
    BY <2>1, <2>2, <2>3, <2>4, <2>5 DEF RowInv
<1> QED
  BY <1>0, <1>l, <1>q, <1>r DEF RemInv
\* The row of a cron job is delivered.
LEMMA FoundKeeps == ASSUME Calm, RemInv, NEW r \in Ids, Rem!Found(r) PROVE RemInv'
<1>0. Rem!TypeOK /\ LimitInv /\ QueueInv /\ RowInv(r)
  BY DEF RemInv
<1>1. /\ UNCHANGED <<now, up, booting, registered, what, sent, unacked, tries, rows, creating, cancelling, timer>>
      /\ task[r] = "found" /\ Rem!Kind(r) = "recurring" /\ r \notin Range(pending)
      /\ ~registered => r \in rows
      /\ creating[r] = "over" /\ r \notin booting /\ up
  BY <1>0 DEF Rem!Found, RowInv, CallsInv, ProcessInv, Resting, Rem!clock, Rem!history
<1>3. /\ task' \in [Ids -> {"none", "found", "sending", "deleting"}]
      /\ \A s \in Ids \ {r} : /\ task'[s] = task[s]
                              /\ s \in Range(pending') <=> s \in Range(pending)
      /\ \/ registered /\ task'[r] = "sending" /\ pending' = pending
         \/ /\ ~registered /\ task'[r] = "none" /\ Range(pending') = Range(pending) \cup {r}
            /\ pending' \in Seq(Ids) /\ Len(pending') <= MaxPending
            /\ IsFiniteSet(Range(pending')) /\ Len(pending') = Cardinality(Range(pending'))
  <2> DEFINE tasks == [task EXCEPT ![r] = "none"]
  <2>1. /\ tasks \in [Ids -> {"none", "found", "sending", "deleting"}] /\ tasks[r] = "none"
        /\ \A s \in Ids \ {r} : tasks[s] = task[s]
    BY <1>0 DEF Rem!TypeOK
  <2>2. Rem!Deliver(r, tasks)
    BY DEF Rem!Found
  <2> HIDE DEF tasks, RemInv
  <2>3. CASE registered /\ task' = [tasks EXCEPT ![r] = "sending"] /\ pending' = pending
    BY <2>1, <2>3
  <2>4. CASE /\ ~registered
             /\ task' = tasks
             /\ pending' \in Seq(Ids) /\ Len(pending') <= MaxPending
             /\ Range(pending') = Range(pending) \cup {r}
             /\ IsFiniteSet(Range(pending')) /\ Len(pending') = Cardinality(Range(pending'))
    BY <2>1, <2>4
  <2> QED
    BY <2>2, <2>3, <2>4, <1>1, DeliverQueues
<1>t. Rem!TypeOK'
  BY <1>0, <1>1, <1>3 DEF Rem!TypeOK, Rem!Found, Rem!clock, Rem!history
<1>l. LimitInv'
  BY <1>0, <1>1, FewerRows
<1>q. QueueInv'
  BY <1>0, <1>1, <1>3 DEF QueueInv
<1>r. ASSUME NEW s \in Ids PROVE RowInv(s)'
  <2>1. CASE s # r
    BY <2>1, <1>1, <1>3, RowTypes, Untouched
  <2>2. CallsInv(r)'
    BY <1>0, <1>1 DEF RowInv, CallsInv, Rem!Kind
  <2>3. ProcessInv(r)'
    BY <1>0, <1>1, <1>3 DEF RowInv, ProcessInv, Once, Rem!Kind
  <2>4. ~Once(r)'
    BY <1>1 DEF Once, Rem!Kind
  <2>5. HeldInv(r)'
    BY <1>0, <1>1 DEF RowInv, HeldInv, Once
  <2> QED
    BY <2>1, <2>2, <2>3, <2>4, <2>5 DEF RowInv
<1> QED
  BY <1>t, <1>l, <1>q, <1>r DEF RemInv

\* An attempt to send a message is made, and is the last one of its delivery or not.
LEMMA SendsKeeps == ASSUME Calm, RemInv, NEW r \in Ids, Rem!Sends(r) PROVE RemInv'
<1>0. Rem!TypeOK /\ LimitInv /\ QueueInv /\ RowInv(r) /\ now \in Nat /\ what[r].at \in Nat
  BY RowTypes DEF RemInv
<1>1. /\ UNCHANGED <<now, up, booting, registered, what, pending, rows, creating, cancelling>>
      /\ UNCHANGED timer /\ task[r] = "sending" /\ registered /\ up
      /\ creating[r] = "over" /\ r \notin booting
      /\ Once(r) \/ Rem!Kind(r) = "recurring"
  <2>1. /\ UNCHANGED <<now, up, booting, registered, what, pending, rows, creating, cancelling>>
        /\ UNCHANGED timer /\ task[r] = "sending"
    BY DEF Rem!Sends, Rem!clock
  <2>2. registered /\ creating[r] = "over" /\ r \notin booting /\ up
    BY <1>0, <2>1 DEF RowInv, CallsInv, ProcessInv, Resting
  <2>3. Once(r) \/ Rem!Kind(r) = "recurring"
    BY <2>2, RowTypes DEF Once
  <2> QED
    BY <2>1, <2>2, <2>3
<1>2. /\ task' \in [Ids -> {"none", "found", "sending", "deleting"}]
      /\ tries' \in [Ids -> 0..(MaxAttempts - 1)] /\ failed' \subseteq Ids
      /\ \A s \in Ids \ {r} : task'[s] = task[s] /\ tries'[s] = tries[s]
      /\ \/ tries'[r] = 0 /\ ((task'[r] = "none" /\ ~Once(r)) \/ (task'[r] = "deleting" /\ Once(r)))
         \/ tries'[r] = tries[r] + 1 /\ task'[r] = "sending" /\ sent'[r] - unacked'[r] = sent[r] - unacked[r]
  <2>0. /\ task \in [Ids -> {"none", "found", "sending", "deleting"}] /\ failed \subseteq Ids
        /\ tries \in [Ids -> 0..(MaxAttempts - 1)] /\ MaxAttempts \in Nat \ {0}
        /\ sent \in [Ids -> Nat] /\ unacked \in [Ids -> Nat]
    BY <1>0 DEF Rem!TypeOK, Calm, Rem!RemindersAssumption
  <2>1. ASSUME NEW b \in BOOLEAN, Rem!Delivered(r, b)
        PROVE  /\ task' \in [Ids -> {"none", "found", "sending", "deleting"}]
               /\ tries' \in [Ids -> 0..(MaxAttempts - 1)] /\ failed' \subseteq Ids
               /\ \A s \in Ids \ {r} : task'[s] = task[s] /\ tries'[s] = tries[s]
               /\ tries'[r] = 0
               /\ (task'[r] = "none" /\ ~Once(r)) \/ (task'[r] = "deleting" /\ Once(r))
    <3>1. tries' = [tries EXCEPT ![r] = 0] /\ failed' \subseteq Ids
      BY <2>0, <2>1 DEF Rem!Delivered
    <3>2. CASE Once(r)
      <4>1. task' = [task EXCEPT ![r] = "deleting"]
        BY <2>1, <3>2 DEF Rem!Delivered, Rem!Recurring, Once
      <4> QED
        BY <2>0, <3>1, <3>2, <4>1
    <3>3. CASE ~Once(r)
      <4>1. task' = [task EXCEPT ![r] = "none"]
        BY <2>1, <1>1, <3>3 DEF Rem!Delivered, Rem!Recurring, Once
      <4> QED
        BY <2>0, <3>1, <3>3, <4>1
    <3> QED
      BY <3>2, <3>3
  <2>2. ASSUME \/ UNCHANGED <<sent, unacked>>
               \/ sent' = [sent EXCEPT ![r] = @ + 1] /\ unacked' = [unacked EXCEPT ![r] = @ + 1],
               tries[r] + 1 < MaxAttempts, tries' = [tries EXCEPT ![r] = @ + 1],
               UNCHANGED <<task, failed>>
        PROVE  /\ task' \in [Ids -> {"none", "found", "sending", "deleting"}]
               /\ tries' \in [Ids -> 0..(MaxAttempts - 1)] /\ failed' \subseteq Ids
               /\ \A s \in Ids \ {r} : task'[s] = task[s] /\ tries'[s] = tries[s]
               /\ tries'[r] = tries[r] + 1 /\ task'[r] = "sending"
               /\ sent'[r] - unacked'[r] = sent[r] - unacked[r]
    <3>1. sent'[r] - unacked'[r] = sent[r] - unacked[r]
      BY <2>0, <2>2
    <3>2. /\ tries' \in [Ids -> 0..(MaxAttempts - 1)] /\ tries'[r] = tries[r] + 1
          /\ \A s \in Ids \ {r} : tries'[s] = tries[s]
      BY <2>0, <2>2
    <3> QED
      BY <2>0, <2>2, <1>1, <3>1, <3>2
  <2> QED
    BY <2>1, <2>2 DEF Rem!Sends
<1>3. /\ sent' \in [Ids -> Nat] /\ unacked' \in [Ids -> Nat]
      /\ \A s \in Ids \ {r} : sent'[s] = sent[s] /\ unacked'[s] = unacked[s]
      /\ sent'[r] \in {sent[r], sent[r] + 1} /\ (sent'[r] = sent[r] => unacked'[r] = unacked[r])
      /\ sent[r] \in Nat /\ unacked[r] \in Nat /\ tries[r] \in Nat
  <2>1. sent \in [Ids -> Nat] /\ unacked \in [Ids -> Nat] /\ tries[r] \in Nat
    BY <1>0 DEF Rem!TypeOK, Calm, Rem!RemindersAssumption
  <2>2. \/ UNCHANGED <<sent, unacked>>
        \/ sent' = [sent EXCEPT ![r] = @ + 1] /\ unacked' = unacked
        \/ sent' = [sent EXCEPT ![r] = @ + 1] /\ unacked' = [unacked EXCEPT ![r] = @ + 1]
    BY DEF Rem!Sends
  <2> QED
    BY <2>1, <2>2
<1>t. Rem!TypeOK'
  BY <1>0, <1>1, <1>2, <1>3 DEF Rem!TypeOK, Rem!Sends, Rem!clock
<1>l. LimitInv'
  BY <1>0, <1>1, FewerRows
<1>q. QueueInv'
  BY <1>0, <1>1 DEF QueueInv
<1>r. ASSUME NEW s \in Ids PROVE RowInv(s)'
  <2>1. CASE s # r
    BY <2>1, <1>1, <1>2, <1>3, RowTypes, Untouched
  <2>2. CallsInv(r)'
    BY <1>0, <1>1 DEF RowInv, CallsInv, Rem!Kind
  <2>3. ProcessInv(r)'
    <3>1. sent'[r] = 0 => unacked'[r] = 0
      BY <1>0, <1>3 DEF RowInv, ProcessInv
    <3> QED
      BY <3>1, <1>0, <1>1, <1>2 DEF RowInv, ProcessInv, Once, Rem!Kind
  <2>4. Once(r)' => OnceInv(r)'
    <3> SUFFICES ASSUME Once(r)' PROVE OnceInv(r)'
      OBVIOUS
    <3>1. Once(r) /\ OnceInv(r)
      BY <1>0, <1>1 DEF Once, Rem!Kind, RowInv
    <3>2. /\ r \notin Range(pending) /\ timer[r] = Rem!NoTimer /\ what[r].at <= now
          /\ sent[r] = unacked[r] /\ sent[r] <= tries[r]
      BY <3>1, <1>1 DEF OnceInv
    <3>3. task'[r] = "sending" => /\ tries'[r] = tries[r] + 1
                                  /\ sent'[r] - unacked'[r] = sent[r] - unacked[r]
      BY <1>2
    <3>4. task'[r] = "sending" => sent'[r] = unacked'[r] /\ sent'[r] <= tries'[r]
      BY <3>2, <3>3, <1>3
    <3> QED
      BY <3>1, <3>2, <3>4, <1>1, <1>2 DEF OnceInv
  <2>5. HeldInv(r)'
    BY <1>0, <1>1, <1>2 DEF RowInv, HeldInv, Once, Rem!Kind
  <2> QED
    BY <2>1, <2>2, <2>3, <2>4, <2>5 DEF RowInv
<1> QED
  BY <1>t, <1>l, <1>q, <1>r DEF RemInv

\* The DELETE after a delivery.
LEMMA DeletesKeeps == ASSUME Calm, RemInv, NEW r \in Ids, Rem!Deletes(r) PROVE RemInv'
<1>0. Rem!TypeOK /\ LimitInv /\ QueueInv /\ RowInv(r)
  BY DEF RemInv
<1>1. /\ UNCHANGED <<now, up, booting, registered, what, pending, sent, unacked, tries, creating, cancelling>>
      /\ UNCHANGED timer /\ task[r] = "deleting" /\ registered /\ up
      /\ creating[r] = "over" /\ r \notin booting
      /\ rows' = rows \ {r} /\ Once(r)
  BY <1>0 DEF Rem!Deletes, RowInv, CallsInv, ProcessInv, Resting, Rem!clock, Rem!history, Calm
<1>2. /\ task' \in [Ids -> {"none", "found", "sending", "deleting"}]
      /\ \A s \in Ids \ {r} : task'[s] = task[s]
      /\ task'[r] = "none"
  BY <1>0 DEF Rem!Deletes, Rem!TypeOK
<1>t. Rem!TypeOK'
  <2>1. gauge' \in Int
    BY <1>0 DEF Rem!Deletes, Rem!TypeOK, Calm
  <2> QED
    BY <1>0, <1>1, <1>2, <2>1 DEF Rem!TypeOK, Rem!Deletes, Rem!clock, Rem!history
<1>l. LimitInv'
  BY <1>0, <1>1, FewerRows
<1>q. QueueInv'
  BY <1>0, <1>1, EmptyQueue DEF QueueInv
<1>r. ASSUME NEW s \in Ids PROVE RowInv(s)'
  <2>1. CASE s # r
    BY <2>1, <1>1, <1>2, RowTypes, Untouched
  <2>2. CallsInv(r)'
    BY <1>0, <1>1 DEF RowInv, CallsInv, Rem!Kind
  <2>3. ProcessInv(r)'
    BY <1>0, <1>1, <1>2 DEF RowInv, ProcessInv, Once, Rem!Kind
  <2>4. Once(r)' => OnceInv(r)'
    BY <1>0, <1>1, <1>2 DEF OnceInv, RowInv, Once, Rem!Kind
  <2>5. HeldInv(r)'
    BY <1>1 DEF HeldInv
  <2> QED
    BY <2>1, <2>2, <2>3, <2>4, <2>5 DEF RowInv
<1> QED
  BY <1>t, <1>l, <1>q, <1>r DEF RemInv
\* The bot is ready: what waited is delivered.
LEMMA RegisterKeeps == ASSUME Calm, RemInv, Rem!Register PROVE RemInv'
<1>0. Rem!TypeOK /\ LimitInv /\ QueueInv
  BY DEF RemInv
<1>1. /\ UNCHANGED <<now, up, booting, what, rows, sent, unacked, tries, creating, cancelling, timer>>
      /\ up /\ ~registered /\ registered' /\ registered' \in BOOLEAN
      /\ pending' = <<>> /\ Range(pending') = {}
  <2>1. /\ UNCHANGED <<now, up, booting, what, rows, sent, unacked, tries, creating, cancelling, timer>>
        /\ up /\ ~registered
    BY DEF Rem!Register, Rem!history
  <2>2. pending' = <<>> /\ Range(pending') = {}
    BY EmptyQueue DEF Rem!Register
  <2>3. registered' /\ registered' \in BOOLEAN
    BY DEF Rem!Register
  <2> QED
    BY <2>1, <2>2, <2>3
<1>2. /\ task' \in [Ids -> {"none", "found", "sending", "deleting"}]
      /\ \A s \in Ids : task'[s] = IF s \in Range(pending) THEN "sending" ELSE task[s]
  <2>1. task' = [s \in Ids |-> IF s \in Range(pending) THEN "sending" ELSE task[s]]
    BY DEF Rem!Register, Rem!Flushed, Range, Rem!Range
  <2> QED
    BY <2>1, <1>0 DEF Rem!TypeOK
<1>t. Rem!TypeOK'
  BY <1>0, <1>1, <1>2, EmptyQueue DEF Rem!TypeOK, Rem!Register, Rem!history, Calm,
     Rem!RemindersAssumption
<1>l. LimitInv'
  BY <1>0, <1>1, FewerRows
<1>q. QueueInv'
  <2>1. IsFiniteSet(Range(pending')) /\ Cardinality(Range(pending')) = 0 /\ Len(pending') = 0
    BY <1>1, EmptyQueue, FS_EmptySet
  <2> QED
    BY <1>1, <2>1 DEF QueueInv
<1>r. ASSUME NEW s \in Ids PROVE RowInv(s)'
  <2>0. RowInv(s)
    BY DEF RemInv
  <2>1. CASE s \in Range(pending)
    <3>1. /\ task'[s] = "sending" /\ s \notin Range(pending') /\ s \in rows /\ s \in rows'
          /\ creating[s] = "over" /\ s \notin booting /\ s \notin cancelling
      BY <2>0, <2>1, <1>0, <1>1, <1>2 DEF QueueInv, RowInv, CallsInv, Resting
    <3>2. CallsInv(s)'
      BY <2>0, <3>1, <1>1 DEF RowInv, CallsInv, Rem!Kind
    <3>3. ProcessInv(s)'
      BY <2>0, <3>1, <1>1 DEF RowInv, ProcessInv
    <3>4. Once(s)' => OnceInv(s)'
      <4>1. Once(s)' => OnceInv(s)
        BY <2>0, <1>1 DEF RowInv, Once, Rem!Kind
      <4>2. OnceInv(s) => OnceInv(s)'
        <5>1. sent[s] = 0 => unacked[s] = 0
          BY <2>0 DEF RowInv, ProcessInv
        <5>2. task[s] = "none" => tries[s] = 0
          BY <2>0 DEF RowInv, ProcessInv
        <5> QED
          BY <2>1, <3>1, <5>1, <5>2, <1>1 DEF OnceInv
      <4> QED
        BY <4>1, <4>2
    <3>5. HeldInv(s)'
      BY <2>0, <2>1, <3>1, <1>1 DEF RowInv, HeldInv, Once, Rem!Kind
    <3> QED
      BY <3>2, <3>3, <3>4, <3>5 DEF RowInv
  <2>2. CASE s \notin Range(pending)
    <3>1. task'[s] = task[s] /\ s \notin Range(pending')
      BY <2>2, <1>1, <1>2
    <3>2. CallsInv(s)'
      BY <2>0, <2>2, <3>1, <1>1 DEF RowInv, CallsInv, Rem!Kind, Resting
    <3>3. ProcessInv(s)'
      BY <2>0, <3>1, <1>1 DEF RowInv, ProcessInv, Once, Rem!Kind
    <3>4. Once(s)' => OnceInv(s)'
      BY <2>0, <2>2, <3>1, <1>1 DEF RowInv, OnceInv, Once, Rem!Kind
    <3>5. HeldInv(s)'
      BY <2>0, <2>2, <3>1, <1>1 DEF RowInv, HeldInv, Once, Rem!Kind
    <3> QED
      BY <3>2, <3>3, <3>4, <3>5 DEF RowInv
  <2> QED
    BY <2>1, <2>2
<1> QED
  BY <1>t, <1>l, <1>q, <1>r DEF RemInv

\* onModuleInit() schedules a row, or deletes one that comes too late.
LEMMA BootSchedulesKeeps == ASSUME Calm, RemInv, NEW r \in Ids, Rem!BootSchedules(r) PROVE RemInv'
<1>0. Rem!TypeOK /\ LimitInv /\ QueueInv /\ RowInv(r)
  BY DEF RemInv
<1>1. /\ r \in booting /\ r \in rows /\ up /\ booting # {} /\ Resting(r) /\ creating[r] = "over"
      /\ Rem!Kind(r) \in {"once", "recurring"} /\ Rem!Schedule(r) /\ r \notin cancelling
      /\ Once(r) /\ sent[r] # 0 => what[r].at <= now
  <2>1. r \in booting /\ up /\ Rem!Schedule(r) /\ booting # {}
    BY DEF Rem!BootSchedules
  <2>2. r \in rows /\ Resting(r) /\ creating[r] = "over" /\ r \notin cancelling
    BY <1>0, <2>1 DEF RowInv, CallsInv, ProcessInv, Rem!TypeOK
  <2>3. Rem!Kind(r) \in {"once", "recurring"}
    BY <2>2, RowTypes
  <2>4. Once(r) /\ sent[r] # 0 => what[r].at <= now
    BY <1>0 DEF RowInv, OnceInv
  <2> QED
    BY <2>1, <2>2, <2>3, <2>4
<1>2. /\ UNCHANGED <<now, up, registered, what, pending, task, sent, unacked, tries, cancelling, creating>>
      /\ booting' = booting \ {r}
  BY DEF Rem!BootSchedules, Rem!history
<1>3. /\ rows' \subseteq rows /\ rows \ {r} \subseteq rows'
      /\ timer' \in [Ids -> Timers \cup {Rem!NoTimer}]
      /\ \A s \in Ids \ {r} : timer'[s] = timer[s]
      /\ r \in rows' <=> timer'[r] # Rem!NoTimer
      /\ Once(r) /\ timer'[r] # Rem!NoTimer => /\ ~timer'[r].hop => timer'[r].fires = what[r].at
                                           /\ ~(what[r].at <= now)
  <2>1. timer \in [Ids -> Timers \cup {Rem!NoTimer}]
    BY <1>0, TimerTypes
  <2> QED
    BY <1>1, <2>1, ScheduleArms DEF Resting
<1>t. Rem!TypeOK'
  <2>1. gauge' \in Int
    BY <1>0 DEF Rem!BootSchedules, Rem!Purged, Rem!TypeOK
  <2> QED
    BY <1>0, <1>2, <1>3, <2>1 DEF Rem!BootSchedules, Rem!TypeOK, Timers, Rem!history
<1>l. LimitInv'
  BY <1>0, <1>2, <1>3, FewerRows
<1>q. QueueInv'
  BY <1>0, <1>1, <1>2, <1>3 DEF QueueInv, Resting
<1>r. ASSUME NEW s \in Ids PROVE RowInv(s)'
  <2>1. CASE s # r
    BY <2>1, <1>1, <1>2, <1>3, RowTypes, Untouched
  <2>2. CallsInv(r)'
    BY <1>0, <1>1, <1>2, <1>3 DEF RowInv, CallsInv, Rem!Kind
  <2>3. ProcessInv(r)'
    BY <1>0, <1>1, <1>2, <1>3 DEF RowInv, ProcessInv, Resting, Once, Rem!Kind
  <2>4. Once(r)' => OnceInv(r)'
    BY <1>0, <1>1, <1>2, <1>3 DEF RowInv, OnceInv, Resting, Once, Rem!Kind
  <2>5. HeldInv(r)'
    BY <1>1, <1>2, <1>3 DEF HeldInv
  <2> QED
    BY <2>1, <2>2, <2>3, <2>4, <2>5 DEF RowInv
<1> QED
  BY <1>t, <1>l, <1>q, <1>r DEF RemInv

\* The process ends: nothing of it is left but the rows.
LEMMA CrashKeeps == ASSUME Calm, RemInv, Rem!Crash PROVE RemInv'
<1>0. Rem!TypeOK /\ LimitInv /\ QueueInv
  BY DEF RemInv
<1>1. /\ UNCHANGED <<now, what, rows, sent, unacked>>
      /\ up' = FALSE /\ registered' = FALSE /\ booting' = {} /\ cancelling' = {}
      /\ pending' = <<>> /\ Range(pending') = {}
      /\ \A s \in Ids : /\ timer'[s] = Rem!NoTimer /\ task'[s] = "none" /\ tries'[s] = 0
                        /\ creating'[s] = IF creating[s] = "new" THEN "new" ELSE "over"
  BY EmptyQueue DEF Rem!Crash, Rem!history
<1>t. Rem!TypeOK'
  <2>1. /\ creating' \in [Ids -> {"new", "counted", "inserted", "over"}]
        /\ task' \in [Ids -> {"none", "found", "sending", "deleting"}]
        /\ timer' \in [Ids -> [fires : 0..Horizon, hop : BOOLEAN] \cup {Rem!NoTimer}]
    BY <1>0 DEF Rem!TypeOK, Rem!Crash
  <2>5. tries' \in [Ids -> 0..(MaxAttempts - 1)]
    BY DEF Rem!Crash, Calm, Rem!RemindersAssumption
  <2>2. crashes' \in 0..MaxCrashes /\ gauge' \in Int
    BY <1>0 DEF Rem!TypeOK, Rem!Crash, Calm, Rem!RemindersAssumption
  <2>3. pending' \in Seq(Ids) /\ Len(pending') <= MaxPending
    BY <1>1, EmptyQueue DEF Calm, Rem!RemindersAssumption
  <2>4. up' \in BOOLEAN /\ registered' \in BOOLEAN
    BY <1>1
  <2> QED
    BY <1>0, <1>1, <2>1, <2>2, <2>3, <2>4, <2>5 DEF Rem!TypeOK, Rem!Crash, Rem!history
<1>l. LimitInv'
  BY <1>0, <1>1, FewerRows
<1>q. QueueInv'
  <2>1. IsFiniteSet(Range(pending')) /\ Cardinality(Range(pending')) = 0 /\ Len(pending') = 0
    BY <1>1, EmptyQueue, FS_EmptySet
  <2> QED
    BY <1>1, <2>1 DEF QueueInv
<1>r. ASSUME NEW s \in Ids PROVE RowInv(s)'
  <2>0. RowInv(s)
    BY DEF RemInv
  <2>1. Resting(s)'
    BY <1>1 DEF Resting
  <2>2. CallsInv(s)'
    BY <2>0, <2>1, <1>1 DEF RowInv, CallsInv, Rem!Kind
  <2>3. ProcessInv(s)'
    BY <2>0, <1>1 DEF RowInv, ProcessInv
  <2>4. Once(s)' => OnceInv(s)'
    BY <2>0, <1>1 DEF RowInv, OnceInv, Once, Rem!Kind
  <2>5. HeldInv(s)'
    BY <1>1 DEF HeldInv
  <2> QED
    BY <2>2, <2>3, <2>4, <2>5 DEF RowInv
<1> QED
  BY <1>t, <1>l, <1>q, <1>r DEF RemInv

\* The process starts and loads the rows.
LEMMA RestartKeeps == ASSUME Calm, RemInv, Rem!Restart PROVE RemInv'
<1>0. Rem!TypeOK /\ LimitInv /\ QueueInv
  BY DEF RemInv
<1>1. /\ UNCHANGED <<now, what, rows, sent, unacked, tries, registered, cancelling, pending>>
      /\ UNCHANGED <<timer, task, creating>> /\ ~up /\ up' = TRUE /\ booting' = rows /\ ~registered
  BY <1>0 DEF Rem!Restart, Rem!memory, Rem!history, QueueInv
<1>t. Rem!TypeOK'
  BY <1>0, <1>1 DEF Rem!TypeOK, Rem!Restart, Rem!memory, Rem!history
<1>l. LimitInv'
  BY <1>0, <1>1, FewerRows
<1>q. QueueInv'
  BY <1>0, <1>1 DEF QueueInv
<1>r. ASSUME NEW s \in Ids PROVE RowInv(s)'
  <2>0. RowInv(s) /\ Resting(s)
    BY <1>1 DEF RemInv, RowInv, CallsInv
  <2>1. Resting(s)'
    BY <2>0, <1>1 DEF Resting
  <2>2. CallsInv(s)'
    BY <2>0, <2>1, <1>1 DEF RowInv, CallsInv, Rem!Kind
  <2>3. ProcessInv(s)'
    BY <2>0, <1>1 DEF RowInv, ProcessInv, Once, Rem!Kind
  <2>4. Once(s)' => OnceInv(s)'
    BY <2>0, <1>1 DEF RowInv, OnceInv, Once, Rem!Kind
  <2>5. HeldInv(s)'
    BY <1>1 DEF HeldInv
  <2> QED
    BY <2>2, <2>3, <2>4, <2>5 DEF RowInv
<1> QED
  BY <1>t, <1>l, <1>q, <1>r DEF RemInv

\* The clock goes on.
LEMMA TickKeeps == ASSUME Calm, RemInv, Rem!Tick PROVE RemInv'
<1>0. Rem!TypeOK /\ LimitInv /\ QueueInv
  BY DEF RemInv
<1>1. /\ UNCHANGED <<up, booting, registered, what, rows, sent, unacked, tries, cancelling, pending, timer, task,
                     creating>>
      /\ now' = now + 1 /\ now < Horizon /\ now \in 0..Horizon
  BY <1>0 DEF Rem!Tick, Rem!memory, Rem!history, Rem!TypeOK
<1>t. Rem!TypeOK'
  <2>1. now' \in 0..Horizon
    BY <1>1 DEF Calm, Rem!RemindersAssumption
  <2> QED
    BY <1>0, <1>1, <2>1 DEF Rem!TypeOK, Rem!Tick, Rem!memory, Rem!history
<1>l. LimitInv'
  BY <1>0, <1>1, FewerRows
<1>q. QueueInv'
  BY <1>0, <1>1 DEF QueueInv
<1>r. ASSUME NEW s \in Ids PROVE RowInv(s)'
  BY <1>1, <1>t, RowTypes, Untouched DEF Calm, Rem!RemindersAssumption
<1> QED
  BY <1>t, <1>l, <1>q, <1>r DEF RemInv

\* RemInv is inductive.
LEMMA RemStays ==
    ASSUME Calm
    PROVE  RemInv /\ [Rem!Next]_(Rem!vars) => RemInv'
<1> SUFFICES ASSUME RemInv, [Rem!Next]_(Rem!vars) PROVE RemInv'
  OBVIOUS
<1>1. CASE UNCHANGED Rem!vars
  <2>0. Rem!TypeOK /\ LimitInv /\ QueueInv
    BY DEF RemInv
  <2>1. /\ UNCHANGED <<now, crashes, up, booting, registered, what, rows, creating, cancelling>>
        /\ UNCHANGED <<timer, pending, task, gauge, sent, unacked, tries, cancelled, failed>>
    BY <1>1 DEF Rem!vars, Rem!clock, Rem!memory, Rem!history
  <2>2. Rem!TypeOK'
    BY <2>0, <2>1 DEF Rem!TypeOK
  <2>3. LimitInv' /\ QueueInv'
    BY <2>0, <2>1 DEF LimitInv, QueueInv
  <2>4. ASSUME NEW s \in Ids PROVE RowInv(s)'
    BY <2>1, RowTypes, Untouched
  <2> QED
    BY <2>2, <2>3, <2>4 DEF RemInv
<1>2. ASSUME NEW r \in Ids,
         Rem!Create(r) \/ Rem!Cancel(r) \/ Rem!CronFires(r) \/ Rem!Service(r) PROVE RemInv'
  BY <1>2, CreateKeeps, CancelKeeps, CronFiresKeeps, InsertKeeps, ScheduleCreatedKeeps,
     CancelReturnsKeeps, TimerFiresKeeps, FoundKeeps, SendsKeeps, DeletesKeeps,
     BootSchedulesKeeps DEF Rem!Service
<1> QED
  BY <1>1, <1>2, RegisterKeeps, CrashKeeps, RestartKeeps, TickKeeps DEF Rem!Next
\* RemInv holds in every state.
LEMMA RemInvariant ==
    ASSUME Calm
    PROVE  Rem!Spec => []RemInv
<1>1. Rem!Init => RemInv
  BY InitHolds
<1>2. RemInv /\ [Rem!Next]_(Rem!vars) => RemInv'
  BY RemStays
<1> QED
  BY <1>1, <1>2, PTL DEF Rem!Spec

\* Only the delivery of a reminder sends it, and OnceInv knows when.
LEMMA SentInTime ==
    ASSUME Calm
    PROVE  RemInv /\ [Rem!Next]_(Rem!vars) => [SentOnceInTime]_sent
<1> SUFFICES ASSUME RemInv, [Rem!Next]_(Rem!vars) PROVE SentOnceInTime
  OBVIOUS
<1> SUFFICES ASSUME NEW r \in Ids, Rem!Kind(r) = "once", sent'[r] # sent[r]
             PROVE  /\ Rem!Overdue(what[r].at) /\ sent[r] = unacked[r]
                    /\ sent'[r] <= MaxAttempts
  BY DEF SentOnceInTime, Kind, Rem!Kind, Overdue, Rem!Overdue
<1>1. sent' # sent
  OBVIOUS
<1>2. PICK s \in Ids : Rem!Sends(s)
  <2>1. ASSUME NEW s \in Ids, Rem!Create(s) \/ Rem!Cancel(s) \/ Rem!CronFires(s) PROVE sent' = sent
    BY <2>1 DEF Rem!Create, Rem!Cancel, Rem!CronFires, Rem!history
  <2>2. ASSUME NEW s \in Ids,
           Rem!Insert(s) \/ Rem!ScheduleCreated(s) \/ Rem!CancelReturns(s) PROVE sent' = sent
    BY <2>2 DEF Rem!Insert, Rem!ScheduleCreated, Rem!CancelReturns, Rem!history
  <2>3. ASSUME NEW s \in Ids,
           Rem!TimerFires(s) \/ Rem!Found(s) \/ Rem!Deletes(s) \/ Rem!BootSchedules(s)
        PROVE sent' = sent
    BY <2>3 DEF Rem!TimerFires, Rem!Found, Rem!Deletes, Rem!BootSchedules, Rem!history
  <2>4. ASSUME Rem!Register \/ Rem!Crash \/ Rem!Restart \/ Rem!Tick \/ UNCHANGED Rem!vars
        PROVE  sent' = sent
    BY <2>4 DEF Rem!Register, Rem!Crash, Rem!Restart, Rem!Tick, Rem!vars, Rem!history
  <2> QED
    BY <1>1, <2>1, <2>2, <2>3, <2>4 DEF Rem!Next, Rem!Service
<1>3. /\ task[s] = "sending" /\ sent \in [Ids -> Nat] /\ tries[s] \in 0..(MaxAttempts - 1)
      /\ MaxAttempts \in Nat
  BY <1>2 DEF Rem!Sends, RemInv, Rem!TypeOK, Calm, Rem!RemindersAssumption
<1>4. sent' = [sent EXCEPT ![s] = @ + 1]
  BY <1>1, <1>2 DEF Rem!Sends
<1>5. s = r /\ sent'[r] = sent[r] + 1
  BY <1>3, <1>4
<1>6. OnceInv(r)
  BY DEF RemInv, RowInv, Once
<1> QED
  BY <1>3, <1>5, <1>6 DEF OnceInv, Rem!Overdue

\* Every stored reminder is in the hands of a timer, a queue or a call under way,
\* and a one-time reminder is posted after its time, never after a post the service
\* knows of, and in one delivery, of at most MaxAttempts messages: across
\* cancellations that overlap anything, attempts that fail or lose their answer,
\* deliveries before the bot is ready, and any number of crashes (ReminderService).
THEOREM RemindersAreDue ==
    ASSUME Calm
    PROVE  Rem!Spec => []Rem!TypeOK /\ DeliveriesAreDue
<1>1. RemInv => Rem!TypeOK /\ RowsAreScheduled
  <2> SUFFICES ASSUME RemInv PROVE Rem!TypeOK /\ RowsAreScheduled
    OBVIOUS
  <2>1. Rem!TypeOK /\ \A r \in Ids : HeldInv(r)
    BY DEF RemInv, RowInv
  <2>2. rows \subseteq Ids
    BY <2>1 DEF Rem!TypeOK
  <2> QED
    BY <2>1, <2>2 DEF RowsAreScheduled, InHand, HeldInv, NoTimer, Rem!NoTimer
<1>2. RemInv /\ [Rem!Next]_(Rem!vars) => [SentOnceInTime]_sent
  BY SentInTime
<1>3. Rem!Spec => []RemInv
  BY RemInvariant
<1> QED
  BY <1>1, <1>2, <1>3, PTL DEF Rem!Spec, DeliveriesAreDue

-----------------------------------------------------------------------------
\* What a cancellation leaves behind has no timer, delivery or row.
LEMMA SilentStays ==
    ASSUME Calm, "cancels" \notin Overlaps
    PROVE  RemInv /\ SilentInv /\ [Rem!Next]_(Rem!vars) => SilentInv' /\ Rem!CancelledIsSilent
<1> SUFFICES ASSUME RemInv, SilentInv,
   [Rem!Next]_(Rem!vars) PROVE SilentInv' /\ Rem!CancelledIsSilent
  OBVIOUS
<1>0. Rem!TypeOK /\ (\A s \in Ids : RowInv(s))
  BY DEF RemInv
<1> DEFINE Same(S) == \A s \in S : /\ task'[s] = task[s] /\ creating'[s] = creating[s]
                                   /\ timer'[s] = timer[s] /\ sent'[s] = sent[s]
<1>1. ASSUME NEW r \in Ids, Rem!Create(r) PROVE SilentInv' /\ Rem!CancelledIsSilent
  BY <1>0, <1>1 DEF Rem!Create, SilentInv, Rem!CancelledIsSilent, Rem!TypeOK, Rem!history
<1>2. ASSUME NEW r \in Ids, Rem!Cancel(r) PROVE SilentInv' /\ Rem!CancelledIsSilent
  BY <1>0, <1>2 DEF Rem!Cancel, SilentInv, Rem!CancelledIsSilent, Rem!TypeOK, Rem!history, RowInv,
     CallsInv
<1>3. ASSUME NEW r \in Ids, Rem!CronFires(r) PROVE SilentInv' /\ Rem!CancelledIsSilent
  <2>1. timer[r] # Rem!NoTimer
    BY <1>0, <1>3, TimerTypes DEF Rem!CronFires
  <2> QED
  BY <2>1, <1>0, <1>3 DEF Rem!CronFires, SilentInv, Rem!CancelledIsSilent, Rem!TypeOK, Rem!history
<1>4. ASSUME NEW r \in Ids, Rem!Insert(r) PROVE SilentInv' /\ Rem!CancelledIsSilent
  BY <1>0, <1>4 DEF Rem!Insert, SilentInv, Rem!CancelledIsSilent, Rem!TypeOK, Rem!history
<1>5. ASSUME NEW r \in Ids, Rem!ScheduleCreated(r) PROVE SilentInv' /\ Rem!CancelledIsSilent
  <2>1. Rem!Kind(r) \in {"once", "recurring"} /\ creating[r] = "inserted"
    BY <1>5, RowTypes DEF Rem!ScheduleCreated
  <2>2. rows' \subseteq rows /\ \A s \in Ids \ {r} : timer'[s] = timer[s]
    BY <1>5, <2>1, ScheduleArms DEF Rem!ScheduleCreated
  <2> QED
    BY <1>0, <1>5, <2>1, <2>2 DEF Rem!ScheduleCreated, SilentInv, Rem!CancelledIsSilent,
       Rem!TypeOK, Rem!history
<1>6. ASSUME NEW r \in Ids, Rem!CancelReturns(r) PROVE SilentInv' /\ Rem!CancelledIsSilent
  BY <1>0, <1>6 DEF Rem!CancelReturns, Rem!Unscheduled, SilentInv, Rem!CancelledIsSilent,
     Rem!TypeOK, Rem!history, RowInv,
     CallsInv
<1>7. ASSUME NEW r \in Ids, Rem!TimerFires(r) PROVE SilentInv' /\ Rem!CancelledIsSilent
  <2>1. r \notin cancelling /\ r \notin cancelled
    <3>1. timer[r] # Rem!NoTimer
      BY <1>0, <1>7, TimerTypes DEF Rem!TimerFires
    <3> QED
      BY <3>1, <1>7 DEF Rem!TimerFires, SilentInv
  <2>2. /\ UNCHANGED <<rows, creating, cancelling, cancelled, sent>>
        /\ \A s \in Ids \ {r} : timer'[s] = timer[s] /\ task'[s] = task[s]
    BY <1>0, <1>7 DEF Rem!TimerFires, Rem!Deliver, Rem!TypeOK, Rem!history
  <2> QED
    BY <2>1, <2>2 DEF SilentInv, Rem!CancelledIsSilent
<1>8. ASSUME NEW r \in Ids, Rem!Found(r) PROVE SilentInv' /\ Rem!CancelledIsSilent
  <2>1. r \notin cancelling /\ r \notin cancelled
    BY <1>8 DEF Rem!Found, SilentInv
  <2>2. /\ UNCHANGED <<rows, creating, cancelling, cancelled, sent, timer>>
        /\ \A s \in Ids \ {r} : task'[s] = task[s]
    BY <1>0, <1>8 DEF Rem!Found, Rem!Deliver, Rem!TypeOK, Rem!history
  <2> QED
    BY <2>1, <2>2 DEF SilentInv, Rem!CancelledIsSilent
<1>9. ASSUME NEW r \in Ids, Rem!Sends(r) PROVE SilentInv' /\ Rem!CancelledIsSilent
  <2>1. r \notin cancelling /\ r \notin cancelled
    BY <1>9 DEF Rem!Sends, SilentInv
  <2>2. /\ UNCHANGED <<rows, creating, cancelling, cancelled, timer>>
        /\ \A s \in Ids \ {r} : task'[s] = task[s] /\ sent'[s] = sent[s]
    <3>1. UNCHANGED <<rows, creating, cancelling, cancelled, timer>>
      BY <1>9 DEF Rem!Sends
    <3>2. task' = task \/ task' = [task EXCEPT ![r] = task'[r]]
      BY <1>0, <1>9 DEF Rem!Sends, Rem!Delivered, Rem!TypeOK
    <3>3. sent' = sent \/ sent' = [sent EXCEPT ![r] = @ + 1]
      BY <1>9 DEF Rem!Sends
    <3> QED
      BY <1>0, <3>1, <3>2, <3>3 DEF Rem!TypeOK
  <2> QED
    BY <2>1, <2>2, <1>0 DEF SilentInv, Rem!CancelledIsSilent, Rem!TypeOK
<1>10. ASSUME NEW r \in Ids, Rem!Deletes(r) PROVE SilentInv' /\ Rem!CancelledIsSilent
  <2>1. r \notin cancelling /\ r \notin cancelled
    BY <1>10 DEF Rem!Deletes, SilentInv
  <2>2. /\ UNCHANGED <<creating, cancelling, cancelled, sent, timer>> /\ rows' \subseteq rows
        /\ \A s \in Ids \ {r} : task'[s] = task[s]
    BY <1>0, <1>10 DEF Rem!Deletes, Rem!TypeOK, Rem!history
  <2> QED
    BY <2>1, <2>2 DEF SilentInv, Rem!CancelledIsSilent
<1>11. ASSUME NEW r \in Ids, Rem!BootSchedules(r) PROVE SilentInv' /\ Rem!CancelledIsSilent
  <2>1. r \in rows /\ Rem!Kind(r) \in {"once", "recurring"} /\ r \notin cancelling \cup cancelled
    BY <1>0, <1>11, RowTypes DEF Rem!BootSchedules, RowInv, ProcessInv, CallsInv, SilentInv
  <2>2. rows' \subseteq rows /\ \A s \in Ids \ {r} : timer'[s] = timer[s]
    BY <1>11, <2>1, ScheduleArms DEF Rem!BootSchedules
  <2> QED
    BY <1>0, <1>11, <2>1, <2>2 DEF Rem!BootSchedules, SilentInv, Rem!CancelledIsSilent, Rem!history
<1>12. ASSUME Rem!Register PROVE SilentInv' /\ Rem!CancelledIsSilent
  <2>1. Range(pending) \subseteq rows
    BY DEF RemInv, QueueInv
  <2>2. /\ UNCHANGED <<rows, creating, cancelling, cancelled, sent, timer>>
        /\ \A s \in Ids : s \notin rows => task'[s] = task[s]
    BY <1>12, <2>1, <1>0 DEF Rem!Register, Rem!Flushed, Range, Rem!Range, Rem!TypeOK, Rem!history
  <2> QED
    BY <2>2, <1>0 DEF SilentInv, Rem!CancelledIsSilent, RowInv, CallsInv
<1>13. ASSUME Rem!Crash PROVE SilentInv' /\ Rem!CancelledIsSilent
  BY <1>13 DEF Rem!Crash, SilentInv, Rem!CancelledIsSilent, Rem!history
<1>14. ASSUME Rem!Restart \/ Rem!Tick \/ UNCHANGED Rem!vars
       PROVE  SilentInv' /\ Rem!CancelledIsSilent
  BY <1>14 DEF Rem!Restart, Rem!Tick, Rem!vars, Rem!clock, Rem!memory, Rem!history, SilentInv,
     Rem!CancelledIsSilent
<1> QED
  BY <1>1, <1>2, <1>3, <1>4, <1>5, <1>6, <1>7, <1>8, <1>9, <1>10, <1>11, <1>12, <1>13, <1>14
     DEF Rem!Next, Rem!Service

\* A reminder is not sent any more once cancel() has returned, when a cancellation
\* does not fall between the steps of a creation or a delivery.
THEOREM CancelledStaySilent ==
    ASSUME Calm, "cancels" \notin Overlaps
    PROVE  Rem!Spec => [][Rem!CancelledIsSilent]_(Rem!vars)
<1>1. RemInv /\ SilentInv /\ [Rem!Next]_(Rem!vars) => SilentInv' /\ Rem!CancelledIsSilent
  BY SilentStays
<1>2. Rem!Init => SilentInv
  BY InitHolds
<1>3. Rem!Spec => []RemInv
  BY RemInvariant
<1> QED
  BY <1>1, <1>2, <1>3, PTL DEF Rem!Spec

-----------------------------------------------------------------------------
(***************************************************************************)
(* Operations on a series                                                  *)
(***************************************************************************)

\* What SeriesLibrary has besides the episodes and the operations; SeriesRaces
\* are its Races.
CONSTANTS Ops, Requests, Libraries, SeriesRaces, Faults, MaxFailures
VARIABLES seen, failedCalls

Ser == INSTANCE SeriesLibrary WITH Races <- SeriesRaces, failed <- failedCalls

\* A selection has one entry for a season.
Entries == [season : Nat, numbers : SUBSET Nat]
RequestType ==
  {r \in [kind : {"download", "delete"}, sel : Seq(Entries)] :
     \A i, k \in DOMAIN r.sel : r.sel[i].season = r.sel[k].season => i = k}

LibType ==
  [present : BOOLEAN, monitored : BOOLEAN, listed : SUBSET Episodes, flagged : SUBSET Nat,
   wanted : SUBSET Episodes, files : SUBSET Episodes, queue : SUBSET Episodes]

\* Sonarr wants, and shows as wanted, what it lists of a series it has.
Listing(l, shown) ==
  l \in LibType /\ l.wanted \subseteq l.listed \cap shown /\ (~l.present => l.listed = {})

\* A series has finitely many seasons, and one operation at a time; Sonarr lists a
\* series before the reads of a season are used up, and answers with what was put.
Punctual ==
  /\ Ser!LibraryAssumption /\ IsFiniteSet(Seasons) /\ Requests \subseteq RequestType
  /\ \A l \in Libraries : Listing(l, l.wanted)
  /\ {"overlap", "slow_listing", "late_monitor"} \cap SeriesRaces = {}

OperationType ==
  [pc : Ser!Pcs, req : RequestType, todo : Seq(Entries), known : SUBSET Nat,
   eps : SUBSET Episodes, held : SUBSET Episodes, left : SUBSET (Nat \cup Episodes),
   tries : 0..3, some : BOOLEAN, swallow : BOOLEAN, undone : SUBSET Episodes, changed : BOOLEAN,
   searched : BOOLEAN, added : BOOLEAN, deleted : BOOLEAN, success : BOOLEAN]

\* The operation is at an entry.
AtEntry(f) ==
  \/ f.pc \in {"list", "monitor", "others", "unlink", "unflag", "unflag_empty", "recheck"}
  \/ f.pc \in {"queue", "remove"} /\ f.req.sel # <<>>

\* The entries to visit are those of the selection, or whole seasons.
VisitsAsked(f) ==
  /\ f.req.kind = "delete" => f.req.sel # <<>>
  /\ \A i \in DOMAIN f.todo :
       IF f.req.sel = <<>> THEN f.todo[i].numbers = {}
       ELSE \E k \in DOMAIN f.req.sel : f.todo[i] = f.req.sel[k]

\* What an operation works with at each place.
Place(f) ==
  /\ f.pc \in {"lookup", "add", "flag", "monitor", "others", "search"} => f.req.kind = "download"
  /\ f.pc \in {"queue", "remove", "unlink", "unflag", "unflag_empty", "recheck", "poll", "drop"}
       => f.req.kind = "delete"
  /\ f.pc \in {"flag"} => f.req.sel = <<>>
  /\ f.pc \in {"unlink", "unflag", "unflag_empty", "recheck", "poll"} => f.req.sel # <<>>
  /\ AtEntry(f) => f.todo # <<>> /\ VisitsAsked(f)
  /\ AtEntry(f) /\ f.pc # "list" => f.eps \subseteq InSeason(Ser!Entry(f).season)
  /\ f.pc = "remove" => f.left \subseteq Episodes
  /\ f.pc = "unlink" => f.left \subseteq Ser!Targets(f)

\* What the operation has read is still so: the episodes it puts to monitored are
\* listed, and the seasons that were polled hold nothing that is wanted.
StillSo(f, l) ==
  /\ f.pc = "monitor" => f.eps \subseteq l.listed
  /\ f.pc = "poll" /\ f.left # Seasons \ {0} => l.listed # {}
  /\ f.pc = "poll" /\ ~f.some =>
       \A n \in Seasons \ {0} : n \notin f.left => l.wanted \cap InSeason(n) = {}
  /\ f.pc = "drop" /\ f.req.sel # <<>> => l.listed # {} /\ l.wanted \subseteq InSeason(0)

WantedInv ==
  /\ Listing(lib, seen)
  /\ op \in [Ops -> OperationType]
  /\ \A o \in Ops : Place(op[o]) /\ StillSo(op[o], lib)
  /\ \A o, p \in Ops : ~Idle(o) /\ ~Idle(p) => o = p

-----------------------------------------------------------------------------
(***************************************************************************)
(* Operations from one place to the next                                   *)
(***************************************************************************)

\* What an operation may become at a place where it relies on nothing it has read.
Fits(g) == g \in OperationType /\ Place(g) /\ (\A l : StillSo(g, l))

\* A frame moved to another place.
LEMMA MovedTo ==
  ASSUME NEW f \in OperationType, NEW pc \in Ser!Pcs
  PROVE  /\ Ser!At(f, pc) \in OperationType
         /\ Ser!At(f, pc).pc = pc /\ Ser!At(f, pc).req = f.req /\ Ser!At(f, pc).todo = f.todo
         /\ Ser!At(f, pc).eps = f.eps /\ Ser!At(f, pc).left = f.left /\ Ser!At(f, pc).some = f.some
BY DEF OperationType, Ser!At

\* An operation that ends.
LEMMA EndsFit ==
  ASSUME NEW f \in OperationType
  PROVE  /\ Fits(Ser!Fail(f)) /\ Ser!Fail(f).pc = "done"
         /\ Fits(Ser!Succeed(f)) /\ Ser!Succeed(f).pc = "done"
<1>0. "done" \in Ser!Pcs
  BY DEF Ser!Pcs
<1>1. Ser!Fail(f) \in OperationType /\ Ser!Fail(f).pc = "done"
  BY <1>0 DEF OperationType, Ser!Fail
<1>2. Ser!Succeed(f) \in OperationType /\ Ser!Succeed(f).pc = "done"
  BY <1>0 DEF OperationType, Ser!Succeed
<1> QED BY <1>1, <1>2 DEF Fits, Place, StillSo, AtEntry

\* What follows the entries.
LEMMA AfterAllFits ==
  ASSUME NEW f \in OperationType, f.req.kind = "delete" => f.req.sel # <<>>,
         Seasons \subseteq Nat
  PROVE  Fits(Ser!AfterAll(f))
<1> DEFINE g == [f EXCEPT !.pc = "poll", !.tries = 1, !.left = Seasons \ {0}, !.some = FALSE]
<1>0. /\ "poll" \in Ser!Pcs /\ 1 \in 0..3 /\ FALSE \in BOOLEAN
      /\ Seasons \ {0} \in SUBSET (Nat \cup Episodes)
  BY DEF Ser!Pcs
<1>1. /\ g \in OperationType /\ g.pc = "poll" /\ g.req = f.req
      /\ g.left = Seasons \ {0}
  BY <1>0 DEF OperationType
<1> HIDE DEF g
<1>2. CASE f.req.kind = "delete"
  <2>1. Fits(g)
    BY <1>1, <1>2 DEF Fits, Place, StillSo, AtEntry
  <2>2. Ser!AfterAll(f) = g
    BY <1>2 DEF Ser!AfterAll, g, Ser!Seasons, Seasons, Ser!SeasonOf, SeasonOf
  <2> QED BY <2>1, <2>2
<1>3. CASE f.req.kind # "delete"
  <2>1. f.req.kind = "download"
    BY <1>3 DEF OperationType, RequestType
  <2>2. "search" \in Ser!Pcs
    BY DEF Ser!Pcs
  <2>3. Fits(Ser!At(f, "search"))
    BY <2>1, <2>2, MovedTo DEF Fits, Place, StillSo, AtEntry
  <2>4. Fits(Ser!Succeed(f))
    BY EndsFit
  <2> QED BY <1>3, <2>3, <2>4 DEF Ser!AfterAll
<1> QED BY <1>2, <1>3

\* The next entry, or what follows the last one.
LEMMA ContinueFits ==
  ASSUME NEW f \in OperationType, VisitsAsked(f), Seasons \subseteq Nat
  PROVE  Fits(IF f.todo = <<>> THEN Ser!AfterAll(f) ELSE Ser!At(f, "list"))
<1>1. Fits(Ser!AfterAll(f))
  BY AfterAllFits DEF VisitsAsked
<1>2. CASE f.todo # <<>>
  <2>1. "list" \in Ser!Pcs
    BY DEF Ser!Pcs
  <2>2. VisitsAsked(Ser!At(f, "list"))
    BY <2>1, MovedTo DEF VisitsAsked
  <2> QED BY <1>2, <2>1, <2>2, MovedTo DEF Fits, Place, StillSo, AtEntry
<1> QED BY <1>1, <1>2

LEMMA StartFits ==
  ASSUME NEW f \in OperationType, NEW todo \in Seq(Entries), Seasons \subseteq Nat,
         f.req.kind = "delete" => f.req.sel # <<>>,
         \A i \in DOMAIN todo : IF f.req.sel = <<>> THEN todo[i].numbers = {}
                                ELSE \E k \in DOMAIN f.req.sel : todo[i] = f.req.sel[k]
  PROVE  Fits(Ser!StartEntries(f, todo))
<1> DEFINE g == [f EXCEPT !.todo = todo, !.tries = 1]
<1>0. 1 \in 0..3
  OBVIOUS
<1>1. g \in OperationType /\ g.req = f.req /\ g.todo = todo
  BY <1>0 DEF OperationType
<1>2. Ser!StartEntries(f, todo) = IF todo = <<>> THEN Ser!AfterAll(g) ELSE Ser!At(g, "list")
  BY DEF Ser!StartEntries
<1> HIDE DEF g
<1>3. VisitsAsked(g)
  BY <1>1 DEF VisitsAsked
<1> QED BY <1>1, <1>2, <1>3, ContinueFits

LEMMA NextFits ==
  ASSUME NEW f \in OperationType, f.todo # <<>>, VisitsAsked(f), Seasons \subseteq Nat
  PROVE  Fits(Ser!NextEntry(f))
<1> DEFINE g == [f EXCEPT !.todo = Tail(f.todo), !.tries = 1, !.eps = {}, !.held = {}]
<1>1. f.todo \in Seq(Entries)
  BY DEF OperationType
<1>2. /\ Tail(f.todo) \in Seq(Entries)
      /\ \A i \in DOMAIN Tail(f.todo) : i + 1 \in DOMAIN f.todo /\ Tail(f.todo)[i] = f.todo[i + 1]
  BY <1>1
<1>0. 1 \in 0..3 /\ {} \in SUBSET Episodes
  OBVIOUS
<1>3. g \in OperationType /\ g.req = f.req /\ g.todo = Tail(f.todo)
  BY <1>0, <1>2 DEF OperationType
<1>4. Ser!NextEntry(f) = IF g.todo = <<>> THEN Ser!AfterAll(g) ELSE Ser!At(g, "list")
  BY DEF Ser!NextEntry
<1> HIDE DEF g
<1>5. VisitsAsked(g)
  BY <1>2, <1>3 DEF VisitsAsked
<1> QED BY <1>3, <1>4, <1>5, ContinueFits

LEMMA EntryFailsFits ==
  ASSUME NEW f \in OperationType, f.todo # <<>>, VisitsAsked(f), Seasons \subseteq Nat
  PROVE  Fits(Ser!EntryFails(f))
<1> DEFINE slips == f.undone \cup InSeason(Ser!Entry(f).season)
           g == [f EXCEPT !.undone = slips]
<1>0. slips \in SUBSET Episodes
  BY DEF OperationType, InSeason
<1>3. Ser!InSeason(Ser!Entry(f).season) = InSeason(Ser!Entry(f).season)
  BY DEF Ser!InSeason, InSeason, Ser!SeasonOf, SeasonOf
<1> HIDE DEF slips
<1>1. g \in OperationType /\ g.req = f.req /\ g.todo = f.todo
  BY <1>0 DEF OperationType
<1>2. Ser!EntryFails(f) = IF f.swallow THEN Ser!NextEntry(g) ELSE Ser!Fail(f)
  BY <1>3 DEF Ser!EntryFails, slips
<1> HIDE DEF g
<1>4. VisitsAsked(g)
  BY <1>1 DEF VisitsAsked
<1> QED BY <1>1, <1>2, <1>4, NextFits, EndsFit

\* A finite set in some order.
LEMMA OrderIs ==
  ASSUME NEW S, IsFiniteSet(S)
  PROVE  Ser!SetToSeq(S) \in Seq(S)
<1>1. Cardinality(S) \in Nat /\ ExistsBijection(1..Cardinality(S), S)
  BY FS_CardinalityType
<1>2. \E m \in [1..Cardinality(S) -> S] : Ser!IsInjective(m)
  BY <1>1 DEF ExistsBijection, Bijection, Injection, IsInjective, Ser!IsInjective
<1>3. Ser!SetToSeq(S) \in [1..Cardinality(S) -> S]
  BY <1>2 DEF Ser!SetToSeq, Ser!Cardinality, Cardinality
<1> QED BY <1>1, <1>3

LEMMA AllSeasonsFits ==
  ASSUME NEW f \in OperationType, NEW flagged \in SUBSET Seasons, f.req.sel = <<>>,
         f.req.kind = "download", IsFiniteSet(Seasons), Seasons \subseteq Nat
  PROVE  Fits(Ser!AllSeasons(f, flagged))
<1> DEFINE g == [f EXCEPT !.swallow = TRUE, !.known = flagged]
           order == Ser!SetToSeq(flagged \ {0})
           todo == [i \in DOMAIN order |-> [season |-> order[i], numbers |-> {}]]
<1>1. g \in OperationType /\ g.req = f.req
  BY DEF OperationType
<1>2. Ser!AllSeasons(f, flagged) = Ser!StartEntries(g, todo)
  BY DEF Ser!AllSeasons
<1>3. order \in Seq(flagged \ {0})
  BY OrderIs, FS_Subset
<1> HIDE DEF order
<1>s. /\ DOMAIN order = 1..Len(order) /\ Len(order) \in Nat
      /\ \A i \in DOMAIN order : order[i] \in flagged \ {0}
  BY <1>3
<1>a. /\ DOMAIN order = 1..Len(order) /\ Len(order) \in Nat
      /\ \A i \in DOMAIN order : order[i] \in Nat
  BY <1>s
<1>b. \A i \in DOMAIN order : [season |-> order[i], numbers |-> {}] \in Entries
  BY <1>a DEF Entries
<1>c. todo \in [1..Len(order) -> Entries]
  BY <1>a, <1>b
<1>4. todo \in Seq(Entries) /\ \A i \in DOMAIN todo : todo[i].numbers = {}
  BY <1>a, <1>c
<1> HIDE DEF g, todo
<1> QED BY <1>1, <1>2, <1>4, StartFits

-----------------------------------------------------------------------------
(***************************************************************************)
(* Every step keeps WantedInv, and loses what was asked                    *)
(***************************************************************************)

\* The instance's words for the episodes are those of WantedEpisodes.
LEMMA SameWords ==
  /\ Ser!Seasons = Seasons /\ \A n : Ser!InSeason(n) = InSeason(n)
  /\ \A entry : Ser!Named(entry) = Named(entry)
  /\ \A o : Ser!Idle(o) <=> Idle(o)
BY DEF Ser!Seasons, Seasons, Ser!InSeason, InSeason, Ser!SeasonOf, SeasonOf, Ser!Named, Named,
       Ser!Idle, Idle

\* The only running operation goes on as g.
LEMMA GoesOnAs ==
  ASSUME WantedInv, NEW o \in Ops, ~Idle(o), NEW g \in OperationType, Place(g),
         StillSo(g, lib'), Listing(lib', seen'), op' = [op EXCEPT ![o] = g]
  PROVE  WantedInv'
<1>1. op' \in [Ops -> OperationType]
  BY DEF WantedInv
<1>2. /\ op'[o] = g
      /\ \A p \in Ops : p # o => op'[p] = op[p] /\ op[p].pc \in {"idle", "done"}
  BY DEF WantedInv, Idle
<1>3. ASSUME NEW p \in Ops
      PROVE  Place(op'[p]) /\ StillSo(op'[p], lib')
  <2>1. CASE p = o
    BY <1>2, <2>1
  <2>2. CASE p # o
    <3>1. StillSo(op'[p], lib')
      BY <1>2, <2>2 DEF StillSo
    <3> QED BY <1>2, <2>2, <3>1 DEF WantedInv
  <2> QED BY <2>1, <2>2
<1>4. \A p, q \in Ops : ~Idle(p)' /\ ~Idle(q)' => p = q
  BY <1>2 DEF Idle
<1>5. (\A p \in Ops : Place(op[p]) /\ StillSo(op[p], lib))'
  BY <1>3
<1> QED BY <1>1, <1>4, <1>5 DEF WantedInv

LEMMA GoesOnFit ==
  ASSUME WantedInv, NEW o \in Ops, ~Idle(o), NEW g, Fits(g), Listing(lib', seen'),
         op' = [op EXCEPT ![o] = g]
  PROVE  WantedInv'
BY GoesOnAs DEF Fits

\* An operation that changes nothing of Sonarr.
LEMMA OnlyGoesOn ==
  ASSUME WantedInv, NEW o \in Ops, ~Idle(o), NEW g, Fits(g), UNCHANGED <<lib, seen>>,
         op' = [op EXCEPT ![o] = g]
  PROVE  WantedInv' /\ LosesWhatWasAsked
<1>1. Listing(lib', seen')
  BY DEF WantedInv
<1> QED BY <1>1, GoesOnFit DEF LosesWhatWasAsked

\* Nothing is lost by a step that only adds.
LEMMA NothingLost ==
  ASSUME lib.wanted \subseteq lib'.wanted, lib.files \subseteq lib'.files
  PROVE  LosesWhatWasAsked
BY DEF LosesWhatWasAsked

\* What the invariant says of the operation that runs.
LEMMA Running ==
  ASSUME WantedInv, NEW o \in Ops
  PROVE  /\ op[o] \in OperationType /\ Place(op[o]) /\ StillSo(op[o], lib)
         /\ op[o].req \in RequestType /\ op[o].req.kind \in {"download", "delete"}
         /\ Listing(lib, seen)
BY DEF WantedInv, OperationType, RequestType

LEMMA FindKeeps ==
  ASSUME Punctual, WantedInv, NEW o \in Ops, NEW r, Ser!Find(o, r), Seasons \subseteq Nat
  PROVE  WantedInv' /\ LosesWhatWasAsked
<1> DEFINE f == op[o]
           there == [f EXCEPT !.known = lib.flagged]
           whole == [there EXCEPT !.pc = "queue", !.eps = Episodes]
           g == IF r # "ok" THEN Ser!Fail(f)
                ELSE IF ~lib.present
                  THEN IF f.req.kind = "delete" THEN Ser!Fail(f) ELSE Ser!At(f, "lookup")
                ELSE IF f.req.sel # <<>> THEN Ser!StartEntries(there, f.req.sel)
                ELSE IF f.req.kind = "download" THEN Ser!At(there, "flag")
                ELSE whole
<1>1. /\ f.pc = "find" /\ op' = [op EXCEPT ![o] = g] /\ UNCHANGED <<lib, seen>>
  BY DEF Ser!Find, Ser!Go
<1>2. f \in OperationType /\ f.req.kind \in {"download", "delete"} /\ f.req \in RequestType
      /\ lib.flagged \in SUBSET Nat
  BY Running DEF Listing, LibType
<1>3. there \in OperationType /\ there.req = f.req
  BY <1>2 DEF OperationType
<1>4. Fits(Ser!Fail(f))
  BY <1>2, EndsFit
<1>5. {"lookup", "flag", "queue"} \subseteq Ser!Pcs
  BY DEF Ser!Pcs
<1>6. ~Idle(o)
  BY <1>1 DEF Idle
<1>7. whole \in OperationType /\ whole.pc = "queue" /\ whole.req = f.req
  BY <1>3, <1>5 DEF OperationType
<1>8. f.req.sel \in Seq(Entries)
  BY <1>2 DEF RequestType
<1> HIDE DEF f, there, whole
<1>9. f.req.kind = "download" => Fits(Ser!At(f, "lookup"))
  BY <1>2, <1>5, MovedTo DEF Fits, Place, StillSo, AtEntry
<1>10. f.req.kind = "download" /\ f.req.sel = <<>> => Fits(Ser!At(there, "flag"))
  BY <1>3, <1>5, MovedTo DEF Fits, Place, StillSo, AtEntry
<1>11. f.req.kind = "delete" /\ f.req.sel = <<>> => Fits(whole)
  BY <1>7 DEF Fits, Place, StillSo, AtEntry
<1>12. f.req.sel # <<>> => Fits(Ser!StartEntries(there, f.req.sel))
  BY <1>3, <1>8, StartFits
<1>13. Fits(g)
  BY <1>2, <1>4, <1>9, <1>10, <1>11, <1>12
<1> HIDE DEF g
<1> QED BY <1>1, <1>6, <1>13, OnlyGoesOn

\* The episodes of an entry of the selection.
LEMMA EntryIsVisited ==
  ASSUME NEW f \in OperationType, f.todo # <<>>, VisitsAsked(f)
  PROVE  /\ Ser!Entry(f) \in Entries
         /\ f.req.sel = <<>> => Ser!Entry(f).numbers = {}
         /\ f.req.sel # <<>> => \E k \in DOMAIN f.req.sel : Ser!Entry(f) = f.req.sel[k]
<1>1. f.todo \in Seq(Entries)
  BY DEF OperationType
<1>2. 1 \in DOMAIN f.todo /\ Ser!Entry(f) = f.todo[1] /\ f.todo[1] \in Entries
  BY <1>1 DEF Ser!Entry
<1> QED BY <1>2 DEF VisitsAsked

LEMMA ListKeeps ==
  ASSUME Punctual, WantedInv, NEW o \in Ops, NEW r, Ser!List(o, r), Seasons \subseteq Nat
  PROVE  WantedInv' /\ LosesWhatWasAsked
<1> DEFINE f == op[o]
           read == lib.listed \cap Ser!InSeason(Ser!Entry(f).season)
           found == [f EXCEPT !.eps = read, !.held = read \cap lib.files]
           again == [f EXCEPT !.tries = @ + 1]
           g == IF r # "ok" THEN Ser!EntryFails(f)
                ELSE IF read = {} THEN IF f.tries = 3 THEN Ser!NextEntry(f) ELSE again
                ELSE IF f.req.kind = "download" THEN Ser!At(found, "monitor")
                ELSE IF Ser!Targets(found) = {} THEN Ser!NextEntry(found)
                ELSE Ser!At(found, "queue")
<1>1. f.pc = "list" /\ op' = [op EXCEPT ![o] = g] /\ UNCHANGED <<lib, seen>>
  BY DEF Ser!List, Ser!Go
<1>2. /\ f \in OperationType /\ f.req.kind \in {"download", "delete"} /\ f.tries \in 0..3
      /\ f.todo # <<>> /\ VisitsAsked(f) /\ lib.listed \subseteq Episodes
  BY <1>1, Running DEF Listing, LibType, Place, AtEntry, OperationType
<1>3. ~Idle(o)
  BY <1>1 DEF Idle
<1>4. /\ found \in OperationType /\ found.req = f.req /\ found.todo = f.todo
      /\ found.eps = lib.listed \cap Ser!InSeason(Ser!Entry(f).season)
  <2>1. read \in SUBSET Episodes /\ read \cap lib.files \in SUBSET Episodes
    BY <1>2
  <2> QED BY <1>2, <2>1 DEF OperationType
<1>5. f.tries # 3 =>
        again \in OperationType /\ again.pc = f.pc /\ again.req = f.req /\ again.todo = f.todo
  <2>1. f.tries # 3 => f.tries + 1 \in 0..3
    BY <1>2
  <2> QED BY <1>2, <2>1 DEF OperationType
<1>6. {"monitor", "queue"} \subseteq Ser!Pcs
  BY DEF Ser!Pcs
<1> HIDE DEF f, found, again
<1>7. VisitsAsked(found) /\ Ser!Entry(found) = Ser!Entry(f)
      /\ found.eps \subseteq InSeason(Ser!Entry(found).season)
  BY <1>2, <1>4, SameWords DEF VisitsAsked, Ser!Entry
<1>8. Fits(Ser!EntryFails(f)) /\ Fits(Ser!NextEntry(f)) /\ Fits(Ser!NextEntry(found))
  BY <1>2, <1>4, <1>7, EntryFailsFits, NextFits
<1>9. f.tries # 3 => Fits(again)
  <2>1. f.tries # 3 => VisitsAsked(again)
    BY <1>2, <1>5 DEF VisitsAsked
  <2> QED BY <1>1, <1>2, <1>5, <2>1 DEF Fits, Place, StillSo, AtEntry
<1>10. ASSUME NEW pc \in {"monitor", "queue"}
       PROVE  /\ VisitsAsked(Ser!At(found, pc))
              /\ Ser!At(found, pc).eps \subseteq InSeason(Ser!Entry(Ser!At(found, pc)).season)
  BY <1>4, <1>6, <1>7, MovedTo DEF VisitsAsked, Ser!Entry
<1>11. f.req.kind = "download" =>
         /\ Ser!At(found, "monitor") \in OperationType /\ Place(Ser!At(found, "monitor"))
         /\ StillSo(Ser!At(found, "monitor"), lib)
  BY <1>2, <1>4, <1>6, <1>10, MovedTo DEF Place, StillSo, AtEntry
<1>12. f.req.kind = "delete" => Fits(Ser!At(found, "queue"))
  BY <1>2, <1>4, <1>6, <1>10, MovedTo DEF Fits, Place, StillSo, AtEntry
<1>13. g \in OperationType /\ Place(g) /\ StillSo(g, lib)
  BY <1>2, <1>8, <1>9, <1>11, <1>12 DEF Fits
<1> HIDE DEF g
<1>14. StillSo(g, lib') /\ Listing(lib', seen') /\ LosesWhatWasAsked
  BY <1>1, <1>13, Running DEF LosesWhatWasAsked
<1> QED BY <1>1, <1>3, <1>13, <1>14, GoesOnAs

LEMMA LookupKeeps ==
  ASSUME WantedInv, NEW o \in Ops, NEW r, Ser!Lookup(o, r)
  PROVE  WantedInv' /\ LosesWhatWasAsked
<1> DEFINE f == op[o]
           g == IF r = "ok" THEN Ser!At(f, "add") ELSE Ser!Fail(f)
<1>1. f.pc = "lookup" /\ op' = [op EXCEPT ![o] = g] /\ UNCHANGED <<lib, seen>>
  BY DEF Ser!Lookup, Ser!Go
<1>2. f \in OperationType /\ f.req.kind = "download"
  BY <1>1, Running DEF Place
<1>3. ~Idle(o)
  BY <1>1 DEF Idle
<1>4. "add" \in Ser!Pcs
  BY DEF Ser!Pcs
<1> HIDE DEF f
<1>5. Fits(Ser!At(f, "add"))
  BY <1>2, <1>4, MovedTo DEF Fits, Place, StillSo, AtEntry
<1>6. Fits(g)
  BY <1>2, <1>5, EndsFit
<1> HIDE DEF g
<1> QED BY <1>1, <1>3, <1>6, OnlyGoesOn

LEMMA AddKeeps ==
  ASSUME Punctual, WantedInv, NEW o \in Ops, NEW r, Ser!Add(o, r), Seasons \subseteq Nat
  PROVE  WantedInv' /\ LosesWhatWasAsked
<1> DEFINE f == [op[o] EXCEPT !.added = TRUE]
           flagged == Ser!Strategy(f.req.sel)
           known == [f EXCEPT !.known = flagged]
           there == [lib EXCEPT !.present = TRUE, !.monitored = TRUE, !.listed = {}, !.wanted = {},
                                !.files = {}, !.flagged = flagged]
           refused == r = "refused" \/ lib.present
           g == IF r # "ok" \/ lib.present THEN Ser!Fail(f)
                ELSE IF f.req.sel = <<>> THEN Ser!AllSeasons(f, flagged)
                ELSE Ser!StartEntries(known, f.req.sel)
<1>1. /\ f.pc = "add" /\ op' = [op EXCEPT ![o] = g]
      /\ lib' = IF refused THEN lib ELSE there
      /\ seen' = IF refused THEN seen ELSE {}
  BY DEF Ser!Add, Ser!Go
<1>2. /\ op[o] \in OperationType /\ Place(op[o]) /\ Listing(lib, seen)
      /\ op[o].req \in RequestType
  BY Running
<1>3. f \in OperationType /\ f.req = op[o].req /\ op[o].pc = "add"
  BY <1>1, <1>2 DEF OperationType
<1>4. ~Idle(o) /\ f.req.kind = "download"
  BY <1>2, <1>3 DEF Idle, Place
<1>5. f.req.sel \in Seq(Entries)
  BY <1>2, <1>3 DEF RequestType
<1> HIDE DEF f
<1>6. flagged \in SUBSET Nat
  <2>1. \A i \in DOMAIN f.req.sel : f.req.sel[i] \in Entries
    BY <1>5
  <2>2. \A i \in DOMAIN f.req.sel : f.req.sel[i].season \in Nat
    BY <2>1 DEF Entries
  <2> QED BY <2>2, SameWords DEF Ser!Strategy
<1>7. f.req.sel = <<>> => flagged \in SUBSET Seasons
  BY SameWords DEF Ser!Strategy
<1>8. known \in OperationType /\ known.req = f.req
  BY <1>3, <1>6 DEF OperationType
<1>9. /\ there \in LibType /\ there.present /\ there.wanted = {} /\ there.files = {}
      /\ there.listed = {}
  <2>1. lib \in LibType
    BY <1>2 DEF Listing
  <2> QED BY <1>6, <2>1 DEF LibType
<1> HIDE DEF flagged, known, there
<1>10. f.req.sel = <<>> => Fits(Ser!AllSeasons(f, flagged))
  BY <1>3, <1>4, <1>7, AllSeasonsFits DEF Punctual
<1>11. f.req.sel # <<>> => Fits(Ser!StartEntries(known, f.req.sel))
  BY <1>4, <1>5, <1>8, StartFits
<1>12. Fits(g)
  BY <1>3, <1>10, <1>11, EndsFit
<1> HIDE DEF g
<1>13. Listing(lib', seen')
  BY <1>1, <1>2, <1>9 DEF Listing
<1>14. WantedInv'
  BY <1>1, <1>4, <1>12, <1>13, GoesOnFit
<1>15. ~lib.present => lib.wanted = {}
  BY <1>2 DEF Listing
<1>16. LosesWhatWasAsked
  BY <1>1, <1>15 DEF LosesWhatWasAsked
<1> QED BY <1>14, <1>16

LEMMA FlagKeeps ==
  ASSUME Punctual, WantedInv, NEW o \in Ops, NEW r, Ser!Flag(o, r), Seasons \subseteq Nat
  PROVE  WantedInv' /\ LosesWhatWasAsked
<1> DEFINE f == op[o]
           changes == (Ser!Seasons \ {0}) \ f.known # {}
           all == [f EXCEPT !.changed = changes]
           there == [lib EXCEPT !.monitored = TRUE, !.flagged = Ser!Seasons]
           g == IF r = "ok" /\ lib.present THEN Ser!AllSeasons(all, Ser!Seasons)
                ELSE Ser!Fail(f)
<1>1. /\ f.pc = "flag" /\ op' = [op EXCEPT ![o] = g] /\ UNCHANGED seen
      /\ lib' = IF r # "refused" /\ lib.present THEN there ELSE lib
  BY DEF Ser!Flag, Ser!Go
<1>2. /\ f \in OperationType /\ Listing(lib, seen)
      /\ f.req.kind = "download" /\ f.req.sel = <<>>
  BY <1>1, Running DEF Place
<1>3. ~Idle(o)
  BY <1>1 DEF Idle
<1>4. changes \in BOOLEAN
  OBVIOUS
<1> HIDE DEF f, changes
<1>5. all \in OperationType /\ all.req = f.req
  BY <1>2, <1>4 DEF OperationType
<1>6. /\ there \in LibType /\ there.present = lib.present /\ there.listed = lib.listed
      /\ there.wanted = lib.wanted /\ there.files = lib.files
  <2>1. lib \in LibType /\ Ser!Seasons \in SUBSET Nat
    BY <1>2, SameWords DEF Listing
  <2> QED BY <2>1 DEF LibType
<1> HIDE DEF all, there
<1>7. Fits(Ser!AllSeasons(all, Ser!Seasons))
  BY <1>2, <1>5, SameWords, AllSeasonsFits DEF Punctual
<1>8. Fits(g)
  BY <1>2, <1>7, EndsFit
<1> HIDE DEF g
<1>9. Listing(lib', seen')
  BY <1>1, <1>2, <1>6 DEF Listing
<1>10. LosesWhatWasAsked
  BY <1>1, <1>6, NothingLost
<1> QED BY <1>1, <1>3, <1>8, <1>9, <1>10, GoesOnFit

\* Episodes put to monitored, or not, are still listed ones that are shown.
LEMMA PutKeeps ==
  ASSUME Punctual, Listing(lib, seen), NEW eps \in SUBSET Episodes,
         NEW monitored \in BOOLEAN, NEW r, Ser!Put(eps, monitored, r),
         monitored => eps \subseteq lib.listed
  PROVE  /\ Listing(lib', seen') /\ lib'.files = lib.files
         /\ monitored => lib.wanted \subseteq lib'.wanted
         /\ ~monitored => lib.wanted \ eps \subseteq lib'.wanted
<1> DEFINE more == [lib EXCEPT !.wanted = @ \cup eps]
           less == [lib EXCEPT !.wanted = @ \ eps]
<1>1. /\ more \in LibType /\ more.present = lib.present /\ more.listed = lib.listed
      /\ more.wanted = lib.wanted \cup eps /\ more.files = lib.files
  BY DEF Listing, LibType
<1>2. /\ less \in LibType /\ less.present = lib.present /\ less.listed = lib.listed
      /\ less.wanted = lib.wanted \ eps /\ less.files = lib.files
  BY DEF Listing, LibType
<1>3. \/ lib' = lib /\ seen' = seen
      \/ monitored /\ lib' = more /\ seen' = seen \cup eps
      \/ ~monitored /\ lib' = less /\ seen' = seen
  BY DEF Ser!Put, Punctual
<1> HIDE DEF more, less
<1> QED BY <1>1, <1>2, <1>3 DEF Listing

LEMMA MonitorKeeps ==
  ASSUME Punctual, WantedInv, NEW o \in Ops, NEW r, Ser!Monitor(o, r), Seasons \subseteq Nat
  PROVE  WantedInv' /\ LosesWhatWasAsked
<1> DEFINE f == op[o]
           next == [f EXCEPT !.changed = TRUE]
<1>1. f.pc = "monitor"
  BY DEF Ser!Monitor
<1>2. /\ f \in OperationType /\ Listing(lib, seen) /\ f.req.kind = "download"
      /\ f.todo # <<>> /\ VisitsAsked(f) /\ f.eps \subseteq lib.listed
      /\ f.eps \subseteq InSeason(Ser!Entry(f).season) /\ f.eps \subseteq Episodes
  BY <1>1, Running DEF Place, StillSo, AtEntry, OperationType
<1>3. ~Idle(o)
  BY <1>1 DEF Idle
<1>4. "others" \in Ser!Pcs
  BY DEF Ser!Pcs
<1>5. next \in OperationType /\ next.req = f.req /\ next.todo = f.todo /\ next.eps = f.eps
  BY <1>2 DEF OperationType
<1>6. \/ op' = [op EXCEPT ![o] = Ser!At(f, "others")] /\ UNCHANGED <<lib, seen>>
      \/ /\ Ser!Put(Ser!Targets(f), TRUE, r)
         /\ \/ op' = [op EXCEPT ![o] = Ser!EntryFails(f)]
            \/ op' = [op EXCEPT ![o] = Ser!NextEntry(next)]
            \/ op' = [op EXCEPT ![o] = Ser!At(next, "others")]
  BY DEF Ser!Monitor, Ser!Go
<1> HIDE DEF f, next
<1>7. VisitsAsked(next) /\ Ser!Entry(next) = Ser!Entry(f)
  BY <1>2, <1>5 DEF VisitsAsked, Ser!Entry
<1>8. ASSUME NEW h \in {f, next}
      PROVE  Fits(Ser!At(h, "others"))
  <2>1. h \in OperationType /\ h.req = f.req /\ h.todo = f.todo /\ h.eps = f.eps
    BY <1>2, <1>5
  <2>2. /\ VisitsAsked(Ser!At(h, "others"))
        /\ Ser!Entry(Ser!At(h, "others")) = Ser!Entry(f)
    BY <1>2, <1>4, <2>1, MovedTo DEF VisitsAsked, Ser!Entry
  <2> QED BY <1>2, <1>4, <2>1, <2>2, MovedTo DEF Fits, Place, StillSo, AtEntry
<1>9. Fits(Ser!EntryFails(f)) /\ Fits(Ser!NextEntry(next))
  BY <1>2, <1>5, <1>7, EntryFailsFits, NextFits
<1>10. CASE op' = [op EXCEPT ![o] = Ser!At(f, "others")] /\ UNCHANGED <<lib, seen>>
  BY <1>3, <1>8, <1>10, OnlyGoesOn
<1>11. CASE Ser!Put(Ser!Targets(f), TRUE, r)
  <2>1. Ser!Targets(f) \in SUBSET Episodes /\ Ser!Targets(f) \subseteq lib.listed
    BY <1>2 DEF Ser!Targets
  <2>2. /\ Listing(lib', seen') /\ lib'.files = lib.files
        /\ lib.wanted \subseteq lib'.wanted
    BY <1>2, <1>11, <2>1, PutKeeps
  <2>3. LosesWhatWasAsked
    BY <2>2, NothingLost
  <2>4. \E g : Fits(g) /\ op' = [op EXCEPT ![o] = g]
    BY <1>6, <1>8, <1>9
  <2> QED BY <1>3, <2>2, <2>3, <2>4, GoesOnFit
<1> QED BY <1>6, <1>10, <1>11

\* The episodes that are put to unmonitored were left out of the selection.
LEMMA OthersAreLeftOut ==
  ASSUME NEW f \in OperationType, f.todo # <<>>, VisitsAsked(f), f.req \in RequestType,
         f.eps \subseteq InSeason(Ser!Entry(f).season),
         NEW e \in f.eps \ Ser!Named(Ser!Entry(f))
  PROVE  e \notin Selected(f.req.sel) /\ \E i \in DOMAIN f.req.sel : f.req.sel[i].season = SeasonOf(e)
<1>1. e \in InSeason(Ser!Entry(f).season) /\ SeasonOf(e) = Ser!Entry(f).season
  BY DEF InSeason
<1>2. f.req.sel # <<>>
  BY <1>1, EntryIsVisited, SameWords DEF Named
<1>3. PICK k \in DOMAIN f.req.sel : Ser!Entry(f) = f.req.sel[k]
  BY <1>2, EntryIsVisited
<1>4. ASSUME NEW i \in DOMAIN f.req.sel, e \in Named(f.req.sel[i])
      PROVE  FALSE
  <2>1. f.req.sel[i].season = f.req.sel[k].season
    BY <1>1, <1>3, <1>4 DEF Named, InSeason
  <2>2. i = k
    BY <1>3, <2>1 DEF RequestType
  <2> QED BY <1>3, <1>4, <2>2, SameWords
<1> QED BY <1>1, <1>3, <1>4 DEF Selected

LEMMA MonitorOthersKeeps ==
  ASSUME Punctual, WantedInv, NEW o \in Ops, NEW r, Ser!MonitorOthers(o, r),
         Seasons \subseteq Nat
  PROVE  WantedInv' /\ LosesWhatWasAsked
<1> DEFINE f == op[o]
           next == [f EXCEPT !.changed = TRUE]
           others == f.eps \ Ser!Named(Ser!Entry(f))
<1>1. /\ f.pc = "others" /\ Ser!Put(others, FALSE, r)
      /\ \/ op' = [op EXCEPT ![o] = Ser!EntryFails(f)]
         \/ op' = [op EXCEPT ![o] = Ser!NextEntry(next)]
  BY DEF Ser!MonitorOthers, Ser!Go
<1>2. /\ f \in OperationType /\ Listing(lib, seen) /\ f.req.kind = "download"
      /\ f.todo # <<>> /\ VisitsAsked(f) /\ f.req \in RequestType
      /\ f.eps \subseteq InSeason(Ser!Entry(f).season) /\ f.eps \subseteq Episodes
  BY <1>1, Running DEF Place, AtEntry, OperationType
<1>3. ~Idle(o) /\ o \in DOMAIN op
  BY <1>1 DEF Idle, WantedInv
<1>4. next \in OperationType /\ next.req = f.req /\ next.todo = f.todo
  BY <1>2 DEF OperationType
<1>5. \A e \in others : e \notin Selected(op[o].req.sel)
        /\ \E i \in DOMAIN op[o].req.sel : op[o].req.sel[i].season = SeasonOf(e)
  BY <1>2, OthersAreLeftOut
<1>6. \A e \in others : AskedToLose(o, e)
  BY <1>2, <1>3, <1>5 DEF AskedToLose
<1> HIDE DEF f, next
<1>7. VisitsAsked(next)
  BY <1>2, <1>4 DEF VisitsAsked
<1>8. Fits(Ser!EntryFails(f)) /\ Fits(Ser!NextEntry(next))
  BY <1>2, <1>4, <1>7, EntryFailsFits, NextFits
<1>9. /\ Listing(lib', seen') /\ lib'.files = lib.files
      /\ lib.wanted \ others \subseteq lib'.wanted
  <2>1. others \in SUBSET Episodes
    BY <1>2
  <2> QED BY <1>1, <1>2, <2>1, PutKeeps
<1> HIDE DEF others
<1>10. LosesWhatWasAsked
  BY <1>3, <1>6, <1>9 DEF LosesWhatWasAsked
<1>11. \E g : Fits(g) /\ op' = [op EXCEPT ![o] = g]
  BY <1>1, <1>8
<1> QED BY <1>3, <1>9, <1>10, <1>11, GoesOnFit

LEMMA SearchKeeps ==
  ASSUME WantedInv, NEW o \in Ops, NEW r, Ser!Search(o, r)
  PROVE  WantedInv' /\ LosesWhatWasAsked
<1> DEFINE f == op[o]
           next == [f EXCEPT !.searched = TRUE]
           g == IF Ser!Taken(r) THEN Ser!Succeed(next) ELSE Ser!Fail(f)
<1>1. f.pc = "search" /\ op' = [op EXCEPT ![o] = g] /\ UNCHANGED <<lib, seen>>
  BY DEF Ser!Search, Ser!Go
<1>2. f \in OperationType
  BY Running
<1>3. ~Idle(o)
  BY <1>1 DEF Idle
<1>4. next \in OperationType
  BY <1>2 DEF OperationType
<1> HIDE DEF f, next
<1>5. Fits(g)
  BY <1>2, <1>4, EndsFit
<1> HIDE DEF g
<1> QED BY <1>1, <1>3, <1>5, OnlyGoesOn

\* A deletion that is at an entry, if it has a selection.
Deleting(f) ==
  /\ f \in OperationType /\ f.req.kind = "delete"
  /\ f.req.sel # <<>> => /\ f.todo # <<>> /\ VisitsAsked(f)
                         /\ f.eps \subseteq InSeason(Ser!Entry(f).season)

LEMMA AfterQueueFits ==
  ASSUME NEW f, Deleting(f)
  PROVE  Fits(Ser!AfterQueue(f))
<1> DEFINE g == [f EXCEPT !.pc = "unlink", !.left = Ser!Targets(f) \cap f.held]
<1>1. {"drop", "unlink"} \subseteq Ser!Pcs
  BY DEF Ser!Pcs
<1>2. f \in OperationType /\ f.req.kind = "delete" /\ f.held \in SUBSET Episodes
  BY DEF Deleting, OperationType
<1>3. CASE f.req.sel = <<>>
  <2>1. Fits(Ser!At(f, "drop"))
    BY <1>1, <1>2, <1>3, MovedTo DEF Fits, Place, StillSo, AtEntry
  <2> QED BY <1>3, <2>1 DEF Ser!AfterQueue
<1>4. CASE f.req.sel # <<>>
  <2>1. Ser!Targets(f) \cap f.held \in SUBSET (Nat \cup Episodes)
    BY <1>2
  <2>2. /\ g \in OperationType /\ g.pc = "unlink" /\ g.req = f.req /\ g.todo = f.todo
        /\ g.eps = f.eps /\ g.left = Ser!Targets(f) \cap f.held
    BY <1>1, <1>2, <2>1 DEF OperationType
  <2>3. Ser!AfterQueue(f) = g
    BY <1>4 DEF Ser!AfterQueue
  <2> HIDE DEF g
  <2>4. Ser!Entry(g) = Ser!Entry(f) /\ Ser!Targets(g) = Ser!Targets(f) /\ VisitsAsked(g)
    BY <1>4, <2>2 DEF Ser!Entry, Ser!Targets, VisitsAsked, Deleting
  <2>5. Fits(g)
    BY <1>2, <1>4, <2>2, <2>4 DEF Fits, Place, StillSo, AtEntry, Deleting
  <2> QED BY <2>3, <2>5
<1> QED BY <1>3, <1>4

\* A step among the downloads that are cancelled.
LEMMA AmongTheQueue ==
  ASSUME NEW f, Deleting(f), NEW g \in OperationType, g.req = f.req, g.todo = f.todo,
         g.eps = f.eps, g.pc \in {"queue", "remove"},
         g.pc = "remove" => g.left \subseteq Episodes
  PROVE  Deleting(g) /\ Fits(g)
<1>1. Ser!Entry(g) = Ser!Entry(f)
  BY DEF Ser!Entry
<1>2. f.req.sel # <<>> => VisitsAsked(g)
  BY DEF VisitsAsked, Deleting
<1>3. Deleting(g)
  BY <1>1, <1>2 DEF Deleting
<1> QED BY <1>3 DEF Deleting, Fits, Place, StillSo, AtEntry

LEMMA ReadQueueKeeps ==
  ASSUME WantedInv, NEW o \in Ops, NEW r, Ser!ReadQueue(o, r)
  PROVE  WantedInv' /\ LosesWhatWasAsked
<1> DEFINE f == op[o]
           mine == lib.queue \cap Ser!Doomed(f)
           slips == [f EXCEPT !.undone = @ \cup Ser!Doomed(f)]
           next == [f EXCEPT !.pc = "remove", !.left = mine]
           g == IF r # "ok" THEN Ser!AfterQueue(slips)
                ELSE IF mine = {} THEN Ser!AfterQueue(f) ELSE next
<1>1. f.pc = "queue" /\ op' = [op EXCEPT ![o] = g] /\ UNCHANGED <<lib, seen>>
  BY DEF Ser!ReadQueue, Ser!Go
<1>2. f \in OperationType /\ Deleting(f) /\ Listing(lib, seen)
  BY <1>1, Running DEF Deleting, Place, AtEntry
<1>3. ~Idle(o)
  BY <1>1 DEF Idle
<1>4. "remove" \in Ser!Pcs
  BY DEF Ser!Pcs
<1>5. mine \in SUBSET Episodes /\ f.undone \cup Ser!Doomed(f) \in SUBSET Episodes
  BY <1>2 DEF Listing, LibType, OperationType, Ser!Doomed, Ser!Targets
<1> HIDE DEF mine
<1>6. /\ slips \in OperationType /\ slips.req = f.req /\ slips.todo = f.todo
      /\ slips.eps = f.eps /\ slips.pc = "queue"
  BY <1>1, <1>2, <1>5 DEF OperationType
<1>7. /\ next \in OperationType /\ next.req = f.req /\ next.todo = f.todo
      /\ next.eps = f.eps /\ next.pc = "remove" /\ next.left \subseteq Episodes
  BY <1>2, <1>4, <1>5 DEF OperationType
<1> HIDE DEF f, slips, next
<1>8. Deleting(slips) /\ Fits(next)
  BY <1>2, <1>6, <1>7, AmongTheQueue
<1>9. Fits(g)
  BY <1>2, <1>8, AfterQueueFits
<1> HIDE DEF g
<1> QED BY <1>1, <1>3, <1>9, OnlyGoesOn

LEMMA RemoveItemKeeps ==
  ASSUME WantedInv, NEW o \in Ops, NEW e, NEW r, Ser!RemoveItem(o, e, r)
  PROVE  WantedInv' /\ LosesWhatWasAsked
<1> DEFINE f == op[o]
           next == [f EXCEPT !.left = @ \ {e}, !.undone = IF r = "ok" THEN @ ELSE @ \cup {e}]
           there == [lib EXCEPT !.queue = @ \ {e}]
           g == IF next.left = {} THEN Ser!AfterQueue(next) ELSE next
<1>1. /\ f.pc = "remove" /\ e \in f.left /\ lib' = (IF r = "refused" THEN lib ELSE there)
      /\ UNCHANGED seen /\ op' = [op EXCEPT ![o] = g]
  BY DEF Ser!RemoveItem, Ser!Go
<1>2. f \in OperationType /\ Deleting(f) /\ Listing(lib, seen) /\ f.left \subseteq Episodes
  BY <1>1, Running DEF Deleting, Place, AtEntry
<1>4. ~Idle(o)
  BY <1>1 DEF Idle
<1>5. /\ (IF r = "ok" THEN f.undone ELSE f.undone \cup {e}) \in SUBSET Episodes
      /\ f.left \ {e} \in SUBSET (Nat \cup Episodes) /\ f.left \ {e} \subseteq Episodes
  BY <1>1, <1>2 DEF OperationType
<1>6. /\ next \in OperationType /\ next.req = f.req /\ next.todo = f.todo
      /\ next.eps = f.eps /\ next.pc = "remove" /\ next.left \subseteq Episodes
  BY <1>1, <1>2, <1>5 DEF OperationType
<1>7. /\ there \in LibType /\ there.present = lib.present /\ there.listed = lib.listed
      /\ there.wanted = lib.wanted /\ there.files = lib.files
  BY <1>2 DEF Listing, LibType
<1> HIDE DEF f, next, there
<1>8. Deleting(next) /\ Fits(next)
  BY <1>2, <1>6, AmongTheQueue
<1>9. Fits(g)
  BY <1>8, AfterQueueFits
<1> HIDE DEF g
<1>10. Listing(lib', seen')
  BY <1>1, <1>2, <1>7 DEF Listing
<1>11. LosesWhatWasAsked
  BY <1>1, <1>7, NothingLost
<1> QED BY <1>1, <1>4, <1>9, <1>10, <1>11, GoesOnFit

\* A step at the same entry, after the downloads.
LEMMA AtTheEntry ==
  ASSUME NEW f, Deleting(f), f.req.sel # <<>>, NEW g \in OperationType, g.req = f.req,
         g.todo = f.todo, g.eps = f.eps,
         \/ g.pc \in {"unflag", "unflag_empty", "recheck"}
         \/ g.pc = "unlink" /\ g.left \subseteq Ser!Targets(f)
  PROVE  Fits(g)
<1>1. Ser!Entry(g) = Ser!Entry(f) /\ Ser!Targets(g) = Ser!Targets(f)
  BY DEF Ser!Entry, Ser!Targets
<1>2. VisitsAsked(g)
  BY DEF VisitsAsked, Deleting
<1> QED BY <1>1, <1>2 DEF Deleting, Fits, Place, StillSo, AtEntry

\* What is deleted of an entry was selected.
LEMMA TargetsAreSelected ==
  ASSUME NEW f, Deleting(f), f.req.sel # <<>>
  PROVE  Ser!Targets(f) \subseteq Selected(f.req.sel) /\ Ser!Targets(f) \in SUBSET Episodes
<1>1. f \in OperationType /\ f.todo # <<>> /\ VisitsAsked(f) /\ f.eps \subseteq Episodes
  BY DEF Deleting, OperationType
<1>2. \E k \in DOMAIN f.req.sel : Ser!Entry(f) = f.req.sel[k]
  BY <1>1, EntryIsVisited
<1> QED BY <1>1, <1>2, SameWords DEF Selected, Ser!Targets

LEMMA DeleteFileKeeps ==
  ASSUME WantedInv, NEW o \in Ops, NEW e, NEW r, Ser!DeleteFile(o, e, r)
  PROVE  WantedInv' /\ LosesWhatWasAsked
<1> DEFINE f == op[o]
           next == [f EXCEPT !.left = @ \ {e}, !.undone = IF r = "ok" THEN @ ELSE @ \cup {e}]
           there == [lib EXCEPT !.files = @ \ {e}]
<1>1. /\ f.pc = "unlink" /\ e \in f.left /\ lib' = (IF r = "refused" THEN lib ELSE there)
      /\ UNCHANGED seen /\ op' = [op EXCEPT ![o] = next]
  BY DEF Ser!DeleteFile, Ser!Go
<1>2. /\ f \in OperationType /\ Deleting(f) /\ Listing(lib, seen) /\ f.req.sel # <<>>
      /\ f.left \subseteq Ser!Targets(f)
  BY <1>1, Running DEF Deleting, Place, AtEntry
<1>3. ~Idle(o) /\ o \in DOMAIN op
  BY <1>1 DEF Idle, WantedInv
<1>4. /\ (IF r = "ok" THEN f.undone ELSE f.undone \cup {e}) \in SUBSET Episodes
      /\ f.left \ {e} \in SUBSET (Nat \cup Episodes)
  BY <1>1, <1>2, TargetsAreSelected DEF OperationType, Deleting
<1>5. /\ next \in OperationType /\ next.req = f.req /\ next.todo = f.todo
      /\ next.eps = f.eps /\ next.pc = "unlink" /\ next.left = f.left \ {e}
  BY <1>1, <1>2, <1>4 DEF OperationType
<1>6. /\ there \in LibType /\ there.present = lib.present /\ there.listed = lib.listed
      /\ there.wanted = lib.wanted /\ there.files = lib.files \ {e}
  BY <1>2 DEF Listing, LibType
<1>7. AskedToLose(o, e)
  BY <1>1, <1>2, <1>3, TargetsAreSelected DEF AskedToLose, Deleting
<1> HIDE DEF f, next, there
<1>8. Fits(next)
  BY <1>2, <1>5, AtTheEntry
<1>9. Listing(lib', seen')
  BY <1>1, <1>2, <1>6 DEF Listing
<1>10. LosesWhatWasAsked
  BY <1>1, <1>3, <1>6, <1>7 DEF LosesWhatWasAsked
<1> QED BY <1>1, <1>3, <1>8, <1>9, <1>10, GoesOnFit

LEMMA UnmonitorKeeps ==
  ASSUME Punctual, WantedInv, NEW o \in Ops, NEW r, Ser!Unmonitor(o, r)
  PROVE  WantedInv' /\ LosesWhatWasAsked
<1> DEFINE f == op[o]
           g == IF ~Ser!Taken(r) THEN Ser!Fail(f)
                ELSE IF Ser!Entry(f).numbers = {} THEN Ser!At(f, "unflag")
                ELSE Ser!At(f, "recheck")
<1>1. /\ f.pc = "unlink" /\ Ser!Put(Ser!Targets(f), FALSE, r)
      /\ op' = [op EXCEPT ![o] = g]
  BY DEF Ser!Unmonitor, Ser!Go
<1>2. f \in OperationType /\ Deleting(f) /\ Listing(lib, seen) /\ f.req.sel # <<>>
  BY <1>1, Running DEF Deleting, Place, AtEntry
<1>3. ~Idle(o) /\ o \in DOMAIN op
  BY <1>1 DEF Idle, WantedInv
<1>4. \A e \in Ser!Targets(f) : AskedToLose(o, e)
  BY <1>2, <1>3, TargetsAreSelected DEF AskedToLose, Deleting
<1>5. {"unflag", "recheck"} \subseteq Ser!Pcs
  BY DEF Ser!Pcs
<1> HIDE DEF f
<1>6. Fits(Ser!At(f, "unflag")) /\ Fits(Ser!At(f, "recheck"))
  BY <1>2, <1>5, MovedTo, AtTheEntry
<1>7. Fits(g)
  BY <1>2, <1>6, EndsFit
<1> HIDE DEF g
<1>8. /\ Listing(lib', seen') /\ lib'.files = lib.files
      /\ lib.wanted \ Ser!Targets(f) \subseteq lib'.wanted
  BY <1>1, <1>2, TargetsAreSelected, PutKeeps
<1>9. LosesWhatWasAsked
  BY <1>3, <1>4, <1>8 DEF LosesWhatWasAsked
<1> QED BY <1>1, <1>3, <1>7, <1>8, <1>9, GoesOnFit

LEMMA UnflagKeeps ==
  ASSUME WantedInv, NEW o \in Ops, NEW r, Ser!Unflag(o, r), Seasons \subseteq Nat
  PROVE  WantedInv' /\ LosesWhatWasAsked
<1> DEFINE f == op[o]
           flags == f.known \ {Ser!Entry(f).season}
           next == [f EXCEPT !.known = flags]
           there == [lib EXCEPT !.flagged = flags]
           g == IF Ser!Taken(r) THEN Ser!NextEntry(next)
                ELSE IF f.pc = "unflag" THEN Ser!Fail(f)
                ELSE Ser!NextEntry(f)
<1>1. /\ f.pc \in {"unflag", "unflag_empty"} /\ op' = [op EXCEPT ![o] = g]
      /\ UNCHANGED seen
      /\ lib' = IF r # "refused" /\ lib.present THEN there ELSE lib
  BY DEF Ser!Unflag, Ser!Go
<1>2. f \in OperationType /\ Deleting(f) /\ Listing(lib, seen) /\ f.req.sel # <<>>
  BY <1>1, Running DEF Deleting, Place, AtEntry
<1>3. ~Idle(o)
  BY <1>1 DEF Idle
<1>4. flags \in SUBSET Nat
  BY <1>2 DEF OperationType
<1> HIDE DEF flags
<1>5. /\ next \in OperationType /\ next.req = f.req /\ next.todo = f.todo
  BY <1>2, <1>4 DEF OperationType
<1>6. /\ there \in LibType /\ there.present = lib.present /\ there.listed = lib.listed
      /\ there.wanted = lib.wanted /\ there.files = lib.files
  BY <1>2, <1>4 DEF Listing, LibType
<1> HIDE DEF f, next, there
<1>7. f.todo # <<>> /\ VisitsAsked(next) /\ VisitsAsked(f)
  BY <1>2, <1>5 DEF VisitsAsked, Deleting
<1>8. Fits(Ser!NextEntry(next)) /\ Fits(Ser!NextEntry(f))
  BY <1>2, <1>5, <1>7, NextFits
<1>9. Fits(g)
  BY <1>2, <1>8, EndsFit
<1> HIDE DEF g
<1>10. Listing(lib', seen')
  BY <1>1, <1>2, <1>6 DEF Listing
<1>11. LosesWhatWasAsked
  BY <1>1, <1>6, NothingLost
<1> QED BY <1>1, <1>3, <1>9, <1>10, <1>11, GoesOnFit

LEMMA RecheckKeeps ==
  ASSUME WantedInv, NEW o \in Ops, NEW r, Ser!Recheck(o, r), Seasons \subseteq Nat
  PROVE  WantedInv' /\ LosesWhatWasAsked
<1> DEFINE f == op[o]
           read == lib.listed \cap Ser!InSeason(Ser!Entry(f).season)
           g == IF r # "ok" \/ read = {} \/ read \cap seen # {} THEN Ser!NextEntry(f)
                ELSE Ser!At(f, "unflag_empty")
<1>1. f.pc = "recheck" /\ op' = [op EXCEPT ![o] = g] /\ UNCHANGED <<lib, seen>>
  BY DEF Ser!Recheck, Ser!Go
<1>2. f \in OperationType /\ Deleting(f) /\ f.req.sel # <<>>
  BY <1>1, Running DEF Deleting, Place, AtEntry
<1>3. ~Idle(o)
  BY <1>1 DEF Idle
<1>4. "unflag_empty" \in Ser!Pcs
  BY DEF Ser!Pcs
<1> HIDE DEF f, read
<1>6. f.todo # <<>> /\ VisitsAsked(f)
  BY <1>2 DEF VisitsAsked, Deleting
<1>7. /\ Fits(Ser!NextEntry(f))
      /\ Fits(Ser!At(f, "unflag_empty"))
  BY <1>2, <1>4, <1>6, NextFits, MovedTo, AtTheEntry DEF Deleting
<1>8. Fits(g)
  BY <1>7
<1> HIDE DEF g
<1> QED BY <1>1, <1>3, <1>8, OnlyGoesOn

\* A poll that finds the rest of the series unwanted finds it so.
LEMMA PollKeeps ==
  ASSUME Punctual, WantedInv, NEW o \in Ops, NEW n \in Seasons, NEW r, Ser!Poll(o, n, r),
         Seasons \subseteq Nat
  PROVE  WantedInv' /\ LosesWhatWasAsked
<1> DEFINE f == op[o]
           next == [f EXCEPT !.left = @ \ {n}, !.some = @ \/ Ser!StillWanted(n)]
           again == [next EXCEPT !.left = Ser!Seasons \ {0}, !.some = FALSE, !.tries = @ + 1]
           g == IF r # "ok" \/ ~lib.present THEN Ser!Succeed(f)
                ELSE IF next.left # {} THEN next
                ELSE IF ~next.some THEN Ser!At(next, "drop")
                ELSE IF f.tries = 3 THEN Ser!Succeed(next)
                ELSE again
<1>1. /\ f.pc = "poll" /\ n \in f.left /\ Ser!Answered(n)
      /\ op' = [op EXCEPT ![o] = g] /\ UNCHANGED <<lib, seen>>
  BY DEF Ser!Poll, Ser!Go
<1>2. /\ f \in OperationType /\ StillSo(f, lib) /\ Listing(lib, seen)
      /\ f.req.kind = "delete" /\ f.req.sel # <<>> /\ f.tries \in 0..3
  BY <1>1, Running DEF Place, OperationType
<1>3. ~Idle(o)
  BY <1>1 DEF Idle
<1>4. /\ (f.some \/ Ser!StillWanted(n)) \in BOOLEAN
      /\ f.left \ {n} \in SUBSET (Nat \cup Episodes)
  BY <1>2 DEF OperationType, Ser!StillWanted
<1>5. /\ next \in OperationType /\ next.req = f.req /\ next.pc = "poll"
      /\ next.left = f.left \ {n} /\ next.some = (f.some \/ Ser!StillWanted(n))
      /\ next.tries = f.tries
  BY <1>1, <1>2, <1>4 DEF OperationType
<1>6. lib.present => lib.listed # {}
  BY <1>1, SameWords DEF Ser!Answered, Punctual
<1>7. ~Ser!StillWanted(n) => lib.wanted \cap InSeason(n) = {}
  BY <1>2, SameWords DEF Ser!StillWanted, Listing
<1> HIDE DEF f, next
<1>8. f.tries # 3 => again \in OperationType /\ again.req = f.req /\ again.pc = "poll"
        /\ again.left = Seasons \ {0} /\ again.some = FALSE
  <2>1. f.tries # 3 => next.tries + 1 \in 0..3
    BY <1>2, <1>5
  <2>2. Ser!Seasons \ {0} \in SUBSET (Nat \cup Episodes) /\ FALSE \in BOOLEAN
    BY SameWords
  <2>3. Ser!Seasons = Seasons
    BY SameWords
  <2> QED BY <1>5, <2>1, <2>2, <2>3 DEF OperationType
<1> HIDE DEF again
<1>9. Fits(Ser!Succeed(f)) /\ Fits(Ser!Succeed(next))
  BY <1>2, <1>5, EndsFit
<1>10. f.tries # 3 => Fits(again)
  BY <1>2, <1>8 DEF Fits, Place, StillSo, AtEntry
<1>11. ~next.some => \A m \in Seasons \ {0} : m \notin next.left => lib.wanted \cap InSeason(m) = {}
  BY <1>1, <1>2, <1>5, <1>7 DEF StillSo
<1>12. lib.present => Place(next) /\ StillSo(next, lib)
  BY <1>2, <1>5, <1>6, <1>11 DEF Place, StillSo, AtEntry
<1>13. lib.present /\ next.left = {} /\ ~next.some =>
         /\ Ser!At(next, "drop") \in OperationType /\ Place(Ser!At(next, "drop"))
         /\ StillSo(Ser!At(next, "drop"), lib)
  <2>1. "drop" \in Ser!Pcs
    BY DEF Ser!Pcs
  <2>2. lib.wanted \subseteq Episodes
    BY <1>2 DEF Listing, LibType
  <2>3. next.left = {} /\ ~next.some => lib.wanted \subseteq InSeason(0)
    BY <1>11, <2>2 DEF Seasons, InSeason
  <2> QED BY <1>2, <1>5, <1>6, <2>1, <2>3, MovedTo DEF Place, StillSo, AtEntry
<1>14. g \in OperationType /\ Place(g) /\ StillSo(g, lib)
  BY <1>5, <1>9, <1>10, <1>12, <1>13 DEF Fits
<1> HIDE DEF g
<1>15. StillSo(g, lib') /\ Listing(lib', seen') /\ LosesWhatWasAsked
  BY <1>1, <1>2, <1>14 DEF LosesWhatWasAsked
<1> QED BY <1>1, <1>3, <1>14, <1>15, GoesOnAs

\* The series is removed as a whole, or when nothing but specials is wanted of it.
LEMMA DropKeeps ==
  ASSUME WantedInv, NEW o \in Ops, NEW r, Ser!Drop(o, r)
  PROVE  WantedInv' /\ LosesWhatWasAsked
<1> DEFINE f == op[o]
           next == [f EXCEPT !.deleted = TRUE]
           gone == [lib EXCEPT !.present = FALSE, !.monitored = FALSE, !.listed = {}, !.flagged = {},
                               !.wanted = {}, !.files = {}]
           g == IF Ser!Taken(r) THEN Ser!Succeed(next) ELSE Ser!Fail(f)
<1>1. /\ f.pc = "drop" /\ op' = [op EXCEPT ![o] = g]
      /\ lib' = IF r = "refused" THEN lib ELSE gone
      /\ seen' = IF r = "refused" THEN seen ELSE {}
  BY DEF Ser!Drop, Ser!Go
<1>2. /\ f \in OperationType /\ StillSo(f, lib) /\ Listing(lib, seen)
      /\ f.req.kind = "delete"
  BY <1>1, Running DEF Place
<1>3. ~Idle(o) /\ o \in DOMAIN op
  BY <1>1 DEF Idle, WantedInv
<1>5. f.req.sel = <<>> => \A e \in lib.wanted : AskedToLose(o, e)
  BY <1>2, <1>3 DEF AskedToLose
<1>6. f.req.sel # <<>> => lib.wanted \subseteq InSeason(0)
  BY <1>1, <1>2 DEF StillSo
<1>7. /\ gone \in LibType /\ gone.listed = {} /\ gone.wanted = {}
  BY <1>2 DEF Listing, LibType
<1>8. next \in OperationType
  BY <1>2 DEF OperationType
<1> HIDE DEF f, next, gone
<1>9. Fits(g)
  BY <1>2, <1>8, EndsFit
<1> HIDE DEF g
<1>10. Listing(lib', seen')
  BY <1>1, <1>2, <1>7 DEF Listing
<1>11. LosesWhatWasAsked
  BY <1>1, <1>3, <1>5, <1>6 DEF LosesWhatWasAsked
<1> QED BY <1>1, <1>3, <1>9, <1>10, <1>11, GoesOnFit

LEMMA AskKeeps ==
  ASSUME Punctual, WantedInv, NEW o \in Ops, NEW req \in Requests, Ser!Ask(o, req)
  PROVE  WantedInv' /\ LosesWhatWasAsked
<1> DEFINE f == [Ser!NoFrame EXCEPT !.pc = "find", !.req = req]
<1>1. /\ op' = [op EXCEPT ![o] = f] /\ UNCHANGED <<lib, seen>>
      /\ \A p \in Ops : Idle(p)
  BY SameWords DEF Ser!Ask, Ser!Go, Punctual
<1>2. req \in RequestType
  BY DEF Punctual
<1>3. f \in OperationType /\ f.pc = "find"
  <2>1. "find" \in Ser!Pcs /\ <<>> \in Seq(Entries) /\ 0 \in 0..3
    BY DEF Ser!Pcs
  <2> QED BY <1>2, <2>1 DEF OperationType, Ser!NoFrame
<1> HIDE DEF f
<1>4. Place(f) /\ StillSo(f, lib)
  BY <1>3 DEF Place, StillSo, AtEntry
<1>5. op' \in [Ops -> OperationType] /\ Listing(lib', seen')
  BY <1>1, <1>3 DEF WantedInv
<1>6. \A p \in Ops : IF p = o THEN op'[p] = f ELSE op'[p] = op[p] /\ op[p].pc \in {"idle", "done"}
  BY <1>1 DEF WantedInv, Idle
<1>7. ASSUME NEW p \in Ops
      PROVE  Place(op'[p]) /\ StillSo(op'[p], lib')
  BY <1>1, <1>4, <1>6 DEF WantedInv
<1>8. (\A p \in Ops : Place(op[p]) /\ StillSo(op[p], lib))'
  BY <1>7
<1>9. \A p, q \in Ops : ~Idle(p)' /\ ~Idle(q)' => p = q
  BY <1>6 DEF Idle
<1>10. LosesWhatWasAsked
  BY <1>1 DEF LosesWhatWasAsked
<1> QED BY <1>5, <1>8, <1>9, <1>10 DEF WantedInv

\* Sonarr adds to what it lists, wants and has; once it lists the series it does
\* not read it again.
LEMMA SonarrKeeps ==
  ASSUME Punctual, WantedInv, Ser!Sonarr
  PROVE  WantedInv' /\ LosesWhatWasAsked
<1>1. /\ op' = op /\ op \in [Ops -> OperationType] /\ lib \in LibType
      /\ Listing(lib, seen)
  BY DEF WantedInv, Listing, Ser!Sonarr, Ser!Refresh, Ser!Settle, Ser!Grab, Ser!Import
<1>2. /\ Listing(lib', seen') /\ lib.listed \subseteq lib'.listed
      /\ lib.wanted \subseteq lib'.wanted /\ lib.files \subseteq lib'.files
      /\ lib.listed # {} => lib'.listed # {} /\ lib'.wanted = lib.wanted
  <2>1. CASE Ser!Refresh
    <3> DEFINE new == {e \in Episodes : Ser!SeasonOf(e) \in lib.flagged}
               there == [lib EXCEPT !.listed = Episodes, !.wanted = @ \cup new]
    <3>1. lib.present /\ lib.listed = {} /\ lib' = there /\ seen' = seen \cup new
      BY <2>1 DEF Ser!Refresh
    <3>2. /\ there \in LibType /\ there.present = lib.present /\ there.listed = Episodes
          /\ there.wanted = lib.wanted \cup new /\ there.files = lib.files
      BY <1>1 DEF LibType
    <3> HIDE DEF there
    <3>3. new \subseteq Episodes
      OBVIOUS
    <3> QED BY <1>1, <3>1, <3>2, <3>3 DEF Listing, LibType
  <2>2. CASE Ser!Settle
    BY <1>1, <2>2 DEF Ser!Settle, Listing
  <2>3. ASSUME NEW e \in Episodes, Ser!Grab(e)
        PROVE  <1>2
    <3> DEFINE there == [lib EXCEPT !.queue = @ \cup {e}]
    <3>1. lib' = there /\ seen' = seen
      BY <2>3 DEF Ser!Grab
    <3>2. /\ there \in LibType /\ there.present = lib.present /\ there.listed = lib.listed
          /\ there.wanted = lib.wanted /\ there.files = lib.files
      BY <1>1 DEF LibType
    <3> HIDE DEF there
    <3> QED BY <1>1, <3>1, <3>2 DEF Listing
  <2>4. ASSUME NEW e \in Episodes, Ser!Import(e)
        PROVE  <1>2
    <3> DEFINE there == [lib EXCEPT !.queue = @ \ {e}, !.files = @ \cup {e}]
    <3>1. lib' = there /\ seen' = seen
      BY <2>4 DEF Ser!Import
    <3>2. /\ there \in LibType /\ there.present = lib.present /\ there.listed = lib.listed
          /\ there.wanted = lib.wanted /\ there.files = lib.files \cup {e}
      BY <1>1 DEF LibType
    <3> HIDE DEF there
    <3> QED BY <1>1, <3>1, <3>2 DEF Listing
  <2> QED BY <2>1, <2>2, <2>3, <2>4 DEF Ser!Sonarr
<1>3. ASSUME NEW p \in Ops
      PROVE  StillSo(op[p], lib')
  <2>1. StillSo(op[p], lib) /\ op[p] \in OperationType
    BY <1>1 DEF WantedInv
  <2>2. CASE lib.listed # {}
    BY <1>2, <2>1, <2>2 DEF StillSo
  <2>3. CASE lib.listed = {}
    BY <1>2, <2>1, <2>3 DEF StillSo
  <2> QED BY <2>2, <2>3
<1>4. (\A p \in Ops : Place(op[p]) /\ StillSo(op[p], lib))'
  BY <1>1, <1>3 DEF WantedInv
<1>5. (\A o, p \in Ops : ~Idle(o) /\ ~Idle(p) => o = p)'
  BY <1>1 DEF WantedInv, Idle
<1>6. LosesWhatWasAsked
  BY <1>2, NothingLost
<1> QED BY <1>1, <1>2, <1>4, <1>5, <1>6 DEF WantedInv

LEMMA SeasonsAreNumbers ==
  ASSUME Punctual
  PROVE  Seasons \subseteq Nat
<1>1. \A e \in Episodes : e \in Nat \X Nat
  BY DEF Punctual, Ser!LibraryAssumption
<1> QED BY <1>1 DEF Seasons, SeasonOf

LEMMA WantedInvInitially ==
  ASSUME Punctual, Ser!Init
  PROVE  WantedInv
<1>1. Ser!NoFrame \in OperationType /\ Ser!NoFrame.pc = "idle"
  <2>1. "idle" \in Ser!Pcs /\ <<>> \in Seq(Entries) /\ 0 \in 0..3
    BY DEF Ser!Pcs
  <2>2. [kind |-> "download", sel |-> <<>>] \in RequestType
    BY <2>1 DEF RequestType
  <2> QED BY <2>1, <2>2 DEF OperationType, Ser!NoFrame
<1>2. op = [o \in Ops |-> Ser!NoFrame] /\ lib \in Libraries /\ seen = lib.wanted
  BY DEF Ser!Init
<1> HIDE DEF Ser!NoFrame
<1>3. Place(Ser!NoFrame) /\ StillSo(Ser!NoFrame, lib)
  BY <1>1 DEF Place, StillSo, AtEntry
<1>4. Listing(lib, seen)
  BY <1>2 DEF Punctual
<1> QED BY <1>1, <1>2, <1>3, <1>4 DEF WantedInv, Idle

LEMMA SeriesSteps ==
  ASSUME Punctual, WantedInv, Ser!Next
  PROVE  WantedInv' /\ LosesWhatWasAsked
<1>0. Seasons \subseteq Nat
  BY SeasonsAreNumbers
<1>1. CASE Ser!Sonarr
  BY <1>1, SonarrKeeps
<1>2. ASSUME NEW o \in Ops, NEW req \in Requests, Ser!Ask(o, req)
      PROVE  WantedInv' /\ LosesWhatWasAsked
  BY <1>2, AskKeeps
<1>3. ASSUME NEW o \in Ops, Ser!Step(o)
      PROVE  WantedInv' /\ LosesWhatWasAsked
  <2>1. PICK r \in {"ok", "refused", "lost"} :
          \/ Ser!Find(o, r) \/ Ser!List(o, r)
          \/ Ser!Lookup(o, r) \/ Ser!Add(o, r) \/ Ser!Flag(o, r)
          \/ Ser!Monitor(o, r) \/ Ser!MonitorOthers(o, r) \/ Ser!Search(o, r)
          \/ Ser!ReadQueue(o, r) \/ Ser!Unmonitor(o, r) \/ Ser!Unflag(o, r)
          \/ Ser!Recheck(o, r) \/ Ser!Drop(o, r)
          \/ \E e \in Episodes : Ser!RemoveItem(o, e, r) \/ Ser!DeleteFile(o, e, r)
          \/ \E n \in Seasons : Ser!Poll(o, n, r)
    BY <1>3, SameWords DEF Ser!Step
  <2>2. CASE Ser!Find(o, r) \/ Ser!List(o, r)
    BY <1>0, <2>2, FindKeeps, ListKeeps
  <2>3. CASE Ser!Lookup(o, r) \/ Ser!Add(o, r) \/ Ser!Flag(o, r)
    BY <1>0, <2>3, LookupKeeps, AddKeeps, FlagKeeps
  <2>4. CASE Ser!Monitor(o, r) \/ Ser!MonitorOthers(o, r) \/ Ser!Search(o, r)
    BY <1>0, <2>4, MonitorKeeps, MonitorOthersKeeps, SearchKeeps
  <2>5. CASE Ser!ReadQueue(o, r) \/ Ser!Unmonitor(o, r) \/ Ser!Unflag(o, r)
    BY <1>0, <2>5, ReadQueueKeeps, UnmonitorKeeps, UnflagKeeps
  <2>6. CASE Ser!Recheck(o, r) \/ Ser!Drop(o, r)
    BY <1>0, <2>6, RecheckKeeps, DropKeeps
  <2>7. CASE \E e \in Episodes : Ser!RemoveItem(o, e, r) \/ Ser!DeleteFile(o, e, r)
    BY <2>7, RemoveItemKeeps, DeleteFileKeeps
  <2>8. CASE \E n \in Seasons : Ser!Poll(o, n, r)
    BY <1>0, <2>8, PollKeeps
  <2> QED BY <2>1, <2>2, <2>3, <2>4, <2>5, <2>6, <2>7, <2>8
<1> QED BY <1>1, <1>2, <1>3 DEF Ser!Next

\* For every series with finitely many seasons, every selection and every way the
\* calls can fail: an episode that is wanted, specials aside, loses that, or its
\* file, only to an operation that asked for it; whatever Sonarr grabs or imports
\* while it is deleted, when one operation runs at a time and a selection has one
\* entry for a season (monitorAndDownloadSeries(), unmonitorAndDeleteSeries()).
THEOREM EpisodesStayWanted ==
  ASSUME Punctual
  PROVE  Ser!Spec => OnlyWhatWasAsked
<1>1. Ser!Init => WantedInv
  BY WantedInvInitially
<1>2. WantedInv /\ [Ser!Next]_(Ser!vars) => WantedInv'
  <2>1. CASE Ser!Next
    BY <2>1, SeriesSteps
  <2>2. CASE UNCHANGED Ser!vars
    BY <2>2 DEF Ser!vars, WantedInv, Idle
  <2> QED BY <2>1, <2>2
<1>3. WantedInv /\ [Ser!Next]_(Ser!vars) => [LosesWhatWasAsked]_lib
  <2>1. CASE Ser!Next
    BY <2>1, SeriesSteps
  <2>2. CASE UNCHANGED Ser!vars
    BY <2>2 DEF Ser!vars
  <2> QED BY <2>1, <2>2
<1> QED BY <1>1, <1>2, <1>3, PTL DEF Ser!Spec, OnlyWhatWasAsked
=============================================================================
