---------------------------- MODULE DiscordOutput ----------------------------
(***************************************************************************)
(* What the bot shows of one channel's turns in Discord                    *)
(* (discord/discord-handler.service.ts): the working message with its Stop *)
(* button, the streamed reply, the images and the end of a turn. The       *)
(* handlers are synchronous; what they post goes on after them, one        *)
(* request to Discord at a time, and other handlers run meanwhile.         *)
(*                                                                         *)
(* What the agent says is numbered in order: a chunk of text or an image is*)
(* an item. Discord does as asked in the order it is asked; only the       *)
(* answer takes time. The channel is in the client's cache, so that        *)
(* fetchChannel() takes none. A message that is split is one message here. *)
(***************************************************************************)
EXTENDS Naturals, FiniteSets, Sequences, SequencesExt

CONSTANTS
  Races,      \* what Discord may be too slow for, among RaceNames
  MaxTurns,   \* bound: turns of the channel
  MaxItems,   \* bound: items the agent says
  MaxClears   \* bound: /clear commands

\*   flush_overlap    the flush timer fires while its last flush is under way
\*   image_overlap    a flush and an image overlap, or text comes while an image waits
\*   image_at_end     a turn ends while an image is under way
\*   image_at_clear   /clear comes while an image is under way
\*   slow_final       a turn posts before the one before it has posted its last
RaceNames == {"flush_overlap", "image_overlap", "image_at_end", "image_at_clear", "slow_final"}

DiscordOutputAssumption ==
  Races \subseteq RaceNames /\ {MaxTurns, MaxItems, MaxClears} \subseteq Nat

VARIABLES
  turn,      \* the last turn, whether it is under way, the /clear commands
  said,      \* how many items the agent has said
  dropped,   \* how many of them a /clear forgot
  states,    \* the ChannelState objects ever created
  current,   \* the one in channelStates, 0 when there is none
  cleared,   \* the clearedTurnId watermark is set
  messages,  \* what was posted: its items, its Stop button, whether it is there
  working,   \* working messages whose send has not answered
  flushes,   \* reply placeholders whose send has not answered
  images,    \* the images in the order they came, and how far each is
  tail,      \* the image sendChains ends with, 0 when it has no entry
  finals     \* the finalizeTurn() calls under way

vars == <<turn, said, dropped, states, current, cleared, messages, working, flushes,
          images, tail, finals>>

NewState == [buffer |-> <<>>, reply |-> 0, timer |-> FALSE, flush |-> 0,
             work |-> 0, creating |-> FALSE, turn |-> 0]

Init ==
  /\ turn = [id |-> 0, running |-> FALSE, clears |-> 0] /\ said = 0 /\ dropped = 0
  /\ states = <<>> /\ current = 0 /\ cleared = FALSE /\ messages = <<>>
  /\ working = {} /\ flushes = {} /\ images = <<>> /\ tail = 0 /\ finals = {}

-----------------------------------------------------------------------------
(***************************************************************************)
(* Requests to Discord                                                     *)
(***************************************************************************)
Sent(items, button) ==
  Append(messages, [items |-> items, button |-> button, live |-> TRUE])

Deleted(m) == IF m = 0 THEN messages ELSE [messages EXCEPT ![m].live = FALSE]
Stripped(m) == IF m = 0 THEN messages ELSE [messages EXCEPT ![m].button = 0]

\* getOrCreateChannelState(): the states with one for the channel, and which.
StatesWithOne == IF current = 0 THEN Append(states, NewState) ELSE states
One == IF current = 0 THEN Len(states) + 1 ELSE current

Text == IF current = 0 THEN <<>> ELSE states[current].buffer
NoTimer == [s \in DOMAIN states |->
              IF s = current THEN [states[s] EXCEPT !.timer = FALSE] ELSE states[s]]

Under(race, calm) == race \in Races \/ calm
UnderWay(i) == i # 0 /\ images[i].at # "done"
NoImage == \A i \in DOMAIN images : ~UnderWay(i)

-----------------------------------------------------------------------------
(***************************************************************************)
(* The working message                                                     *)
(***************************************************************************)
\* onPromptStart(). The send may fail, which counts as no message.
PromptStart ==
  LET id == turn.id + 1
      creates == ~StatesWithOne[One].creating
  IN  /\ ~turn.running /\ turn.id < MaxTurns
      /\ turn' = [turn EXCEPT !.id = id, !.running = TRUE]
      /\ cleared' = FALSE
      /\ states' = [StatesWithOne EXCEPT ![One].turn = id, ![One].creating = TRUE]
      /\ current' = One
      /\ \E fails \in BOOLEAN :
           /\ messages' = IF creates /\ ~fails THEN Sent(<<>>, id) ELSE messages
           /\ working' = IF ~creates THEN working
                         ELSE working \cup {[turn |-> id, msg |-> IF fails THEN 0 ELSE Len(messages')]}
      /\ UNCHANGED <<said, dropped, flushes, images, tail, finals>>

\* The turn the answer is for may be over, and another one may be under way.
IsForTurn(w) == current # 0 /\ states[current].turn = w.turn

WorkingAnswers(w) ==
  /\ working' = working \ {w}
  /\ IF IsForTurn(w)
     THEN /\ states' = [states EXCEPT ![current].work = w.msg, ![current].creating = FALSE]
          /\ UNCHANGED messages
     ELSE messages' = Deleted(w.msg) /\ UNCHANGED states
  /\ UNCHANGED <<turn, said, dropped, current, cleared, flushes, images, tail, finals>>

-----------------------------------------------------------------------------
(***************************************************************************)
(* The reply as it is streamed                                             *)
(***************************************************************************)
\* onAgentMessageChunk(), which the watermark refuses.
Chunk ==
  /\ ~cleared /\ said < MaxItems
  /\ Under("image_overlap", \A i \in DOMAIN images : images[i].at # "waiting")
  /\ said' = said + 1
  /\ states' = [StatesWithOne EXCEPT ![One].buffer = Append(@, said'), ![One].timer = TRUE]
  /\ current' = One
  /\ UNCHANGED <<turn, dropped, cleared, messages, working, flushes, images, tail, finals>>

\* The flush timer fires: flushReply() with final = false edits the reply, or
\* posts it.
TimerFires ==
  /\ current # 0 /\ states[current].timer
  /\ Under("flush_overlap", \A f \in flushes : f.state # current)
  /\ Under("image_overlap", NoImage)
  /\ Under("slow_final", finals = {})
  /\ LET reply == states[current].reply
         posts == Text # <<>> /\ reply = 0
     IN  /\ messages' = IF posts THEN Sent(Text, 0)
                        ELSE IF reply = 0 THEN messages
                        ELSE [messages EXCEPT ![reply].items = Text]
         /\ flushes' = IF posts THEN flushes \cup {[state |-> current, msg |-> Len(messages')]}
                       ELSE flushes
         /\ states' = [NoTimer EXCEPT ![current].flush = IF posts THEN Len(messages') ELSE 0]
  /\ UNCHANGED <<turn, said, dropped, current, cleared, working, images, tail, finals>>

FlushAnswers(f) ==
  /\ flushes' = flushes \ {f}
  /\ states' = [states EXCEPT ![f.state].reply = f.msg]
  /\ UNCHANGED <<turn, said, dropped, current, cleared, messages, working, images, tail, finals>>

-----------------------------------------------------------------------------
(***************************************************************************)
(* Images                                                                  *)
(***************************************************************************)
\* onAgentMessageImage() and enqueueSend(): the image follows the chain's last.
Image ==
  /\ said < MaxItems
  /\ said' = said + 1
  /\ dropped' = IF cleared THEN said' ELSE dropped
  /\ images' = Append(images, [item |-> said', after |-> tail, at |-> "waiting", text |-> <<>>])
  /\ tail' = Len(images')
  /\ UNCHANGED <<turn, states, current, cleared, messages, working, flushes, finals>>

\* Mutant of Remains: the buffer is emptied.
NothingRemains(buffer, text) == <<>>

\* What flushReply() with final = true leaves in the buffer: all that was said
\* during its awaits.
Remains(buffer, text) == SubSeq(buffer, Len(text) + 1, Len(buffer))

\* The text before the image is posted for good.
FlushesText(i, text, st) ==
  /\ messages' = Sent(text, 0)
  /\ images' = [images EXCEPT ![i].at = "flushed"]
  /\ states' = IF current = 0 THEN st
               ELSE [st EXCEPT ![current].reply = 0, ![current].buffer = Remains(@, text)]

\* sendAgentImage(): a late image of a cleared channel is left out; the reply
\* that was streamed is deleted before the text is posted again.
ImageStarts(i) ==
  /\ images[i].at = "waiting" /\ ~UnderWay(images[i].after)
  /\ \/ /\ cleared
        /\ images' = [images EXCEPT ![i].at = "done"]
        /\ UNCHANGED <<states, messages>>
     \/ /\ ~cleared /\ Under("slow_final", finals = {})
        /\ Text = <<>>
        /\ images' = [images EXCEPT ![i].at = "flushed"]
        /\ states' = NoTimer
        /\ UNCHANGED messages
     \/ /\ ~cleared /\ Under("slow_final", finals = {})
        /\ Text # <<>>
        /\ Under("image_overlap", \A f \in flushes : f.state # current)
        /\ LET reply == states[current].reply
           IN  IF reply = 0 THEN FlushesText(i, Text, NoTimer)
               ELSE /\ messages' = Deleted(reply)
                    /\ images' = [images EXCEPT ![i].at = "deleting", ![i].text = Text]
                    /\ states' = NoTimer
  /\ UNCHANGED <<turn, said, dropped, current, cleared, working, flushes, tail, finals>>

ImageFlushes(i) ==
  /\ images[i].at = "deleting"
  /\ FlushesText(i, images[i].text, states)
  /\ UNCHANGED <<turn, said, dropped, current, cleared, working, flushes, tail, finals>>

ImageSends(i) ==
  /\ images[i].at = "flushed"
  /\ messages' = Sent(<<images[i].item>>, 0)
  /\ images' = [images EXCEPT ![i].at = "done"]
  /\ UNCHANGED <<turn, said, dropped, states, current, cleared, working, flushes, tail, finals>>

-----------------------------------------------------------------------------
(***************************************************************************)
(* The end of a turn, and /clear                                           *)
(***************************************************************************)
\* onPromptComplete() and finalizeTurn() up to its first await. The working
\* message is deleted or edited; either way its button is gone.
PromptComplete ==
  /\ current # 0
  /\ Under("image_at_end", NoImage)
  /\ turn' = [turn EXCEPT !.running = FALSE]
  /\ messages' = Stripped(states[current].work)
  /\ states' = NoTimer
  /\ finals' = IF Text = <<>> THEN finals
               ELSE finals \cup {[state |-> current, text |-> Text, at |-> "waiting"]}
  /\ current' = 0
  /\ UNCHANGED <<said, dropped, cleared, working, flushes, images, tail>>

\* What finalizeTurn() waits for before it reads the reply: the flush that was
\* under way.
FlushIsOver(s) == \A f \in flushes : f.msg # states[s].flush

FinalDeletes(f) ==
  /\ f.at = "waiting" /\ FlushIsOver(f.state)
  /\ messages' = Deleted(states[f.state].reply)
  /\ finals' = (finals \ {f}) \cup {[f EXCEPT !.at = "deleted"]}
  /\ UNCHANGED <<turn, said, dropped, states, current, cleared, working, flushes, images, tail>>

FinalSends(f) ==
  /\ f.at = "deleted"
  /\ Under("slow_final", \A g \in finals : g.state >= f.state)
  /\ messages' = Sent(f.text, 0)
  /\ finals' = finals \ {f}
  /\ UNCHANGED <<turn, said, dropped, states, current, cleared, working, flushes, images, tail>>

\* /clear: resetChannel() and, in the same step, the end of the session, whose
\* onPromptComplete() finds no state any more.
Clear ==
  /\ turn.clears < MaxClears
  /\ Under("image_at_clear", NoImage)
  /\ turn' = [turn EXCEPT !.running = FALSE, !.clears = @ + 1]
  /\ messages' = IF current = 0 THEN messages ELSE Stripped(states[current].work)
  /\ states' = NoTimer
  /\ current' = 0 /\ cleared' = TRUE /\ tail' = 0 /\ dropped' = said
  /\ UNCHANGED <<said, working, flushes, images, finals>>

\* The safety cleanup of the watermark.
WatermarkExpires ==
  /\ cleared /\ cleared' = FALSE
  /\ UNCHANGED <<turn, said, dropped, states, current, messages, working, flushes,
                 images, tail, finals>>

-----------------------------------------------------------------------------
Next ==
  \/ PromptStart \/ PromptComplete \/ Clear \/ WatermarkExpires
  \/ Chunk \/ Image \/ TimerFires
  \/ \E w \in working : WorkingAnswers(w)
  \/ \E f \in flushes : FlushAnswers(f)
  \/ \E i \in DOMAIN images : ImageStarts(i) \/ ImageFlushes(i) \/ ImageSends(i)
  \/ \E f \in finals : FinalDeletes(f) \/ FinalSends(f)

Spec == Init /\ [][Next]_vars

-----------------------------------------------------------------------------
TypeOK ==
  /\ turn.id <= MaxTurns /\ turn.running \in BOOLEAN /\ cleared \in BOOLEAN
  /\ said <= MaxItems /\ dropped <= said
  /\ current \in 0..Len(states) /\ (cleared => current = 0) /\ (turn.running => current # 0)
  /\ tail \in 0..Len(images)
  /\ \A s \in DOMAIN states : states[s].timer => s = current
  /\ \A f \in flushes : f.state \in DOMAIN states /\ f.msg \in DOMAIN messages
  /\ \A f \in finals : f.state \in DOMAIN states

\* All that was asked of Discord has been answered.
Settled ==
  /\ working = {} /\ flushes = {} /\ finals = {} /\ NoImage
  /\ current = 0 \/ ~states[current].timer

\* What the channel shows, from the top, of what no /clear has forgotten.
Shown ==
  LET live == SelectSeq(messages, LAMBDA m : m.live)
      items == FlattenSeq([m \in DOMAIN live |-> live[m].items])
  IN  SelectSeq(items, LAMBDA i : i > dropped)

\* Each chunk and each image is shown once and in the order it was said, however
\* the streamed reply, the images and the end of the turn fall.
SaidIsShown == Settled => Shown = [i \in 1..(said - dropped) |-> dropped + i]

\* A Stop button is that of the turn under way, or of a message whose send has
\* yet to answer and will take it away.
ButtonsAreOfTheTurn ==
  \A m \in DOMAIN messages :
    messages[m].live /\ messages[m].button # 0 =>
      \/ turn.running /\ messages[m].button = turn.id
      \/ \E w \in working : w.msg = m

=============================================================================
