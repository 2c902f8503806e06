----------------------------- MODULE Reminders -----------------------------
(***************************************************************************)
(* The reminders of tdr-bot (apps/tdr-bot/src/reminders): the table that   *)
(* outlives the process, the timers and cron jobs that do not, creation,   *)
(* cancellation, delivery, and what a restart makes of the rows            *)
(* (reminder.service.ts, reminder-delivery.service.ts).                    *)
(*                                                                         *)
(* Each database call is an await: its effect and the continuation behind  *)
(* it are two steps. Composing a message and an attempt to send it are one *)
(* step; an attempt that is given up has posted its message by then, or    *)
(* never does. Deliveries of one recurring reminder do not overlap, being  *)
(* at least a minute apart.                                                *)
(***************************************************************************)
EXTENDS ReminderTable, FiniteSets

CONSTANTS
  Kinds,        \* what may be created, among KindNames
  MaxReminders, \* MAX_REMINDERS_PER_USER
  MaxPending,   \* MAX_PENDING_DELIVERIES
  MaxTimeout,   \* MAX_TIMEOUT_MS, in ticks
  MaxCrashes,   \* bound: crashes and restarts
  MaxSends,     \* bound: deliveries of a recurring reminder
  Races         \* what may overlap or fail, among RaceNames

\* undated: a one-time reminder without scheduledAt; frequent: a recurring one
\* whose cron expression is refused.
KindNames == {"once", "undated", "recurring", "frequent"}

\*   creates  two creations of the user overlap
\*   cancels  a cancellation overlaps the creation or a delivery
\*   sends    an attempt to send a message fails
\*   answers  Discord posts a message, and the attempt ends in an error
\*   deletes  the DELETE after a delivery fails
RaceNames == {"creates", "cancels", "sends", "answers", "deletes"}

ASSUME RemindersAssumption ==
  /\ Kinds \subseteq KindNames /\ Races \subseteq RaceNames
  /\ MaxReminders \in Nat /\ MaxPending \in Nat /\ MaxTimeout \in Nat \ {0}
  /\ Horizon \in Nat /\ MaxCrashes \in Nat /\ MaxSends \in Nat /\ MaxAttempts \in Nat \ {0}

VARIABLES
  crashes,
  registered, \* setDeliveryFunction() was called
  gauge,      \* tdr_reminders_active
  tries,      \* failed attempts of the delivery under way
  cancelled,  \* history: cancel() has returned true
  failed      \* history: its last delivery failed

clock == <<now, crashes, up, booting, registered>>
memory == <<creating, cancelling, timer, pending, task, gauge>>
history == <<sent, unacked, tries, cancelled, failed>>
vars == <<clock, what, rows, memory, history>>

Init ==
  /\ now = 0 /\ crashes = 0
  /\ what = [r \in Ids |-> [kind |-> "none", at |-> 0]]
  /\ rows = {}
  /\ up = TRUE /\ booting = {} /\ registered = FALSE
  /\ creating = [r \in Ids |-> "new"]
  /\ cancelling = {}
  /\ timer = [r \in Ids |-> NoTimer]
  /\ pending = <<>>
  /\ task = [r \in Ids |-> "none"]
  /\ gauge = 0
  /\ sent = [r \in Ids |-> 0] /\ unacked = [r \in Ids |-> 0] /\ tries = [r \in Ids |-> 0]
  /\ cancelled = {} /\ failed = {}

\* Every onModuleInit() has returned, and the bot has logged in to Discord.
Serving == up /\ booting = {} /\ registered

Recurring(r) == Kind(r) \in {"recurring", "frequent"}

-----------------------------------------------------------------------------
(***************************************************************************)
(* Scheduling                                                              *)
(***************************************************************************)
\* Mutant of NextTimeout: what is left after MaxTimeout is forgotten.
NextTimeoutLast(at) ==
  [fires |-> IF at - now > MaxTimeout THEN now + MaxTimeout ELSE at, hop |-> FALSE]

\* scheduleTimeout(): delays longer than setTimeout() takes are hops.
NextTimeout(at) ==
  [fires |-> IF at - now > MaxTimeout THEN now + MaxTimeout ELSE at,
   hop   |-> at - now > MaxTimeout]

\* A cron job fires at any later time.
CronTimer == [fires |-> 0, hop |-> FALSE]

\* scheduleReminder(): a one-time reminder in the past is deleted.
Schedule(r) ==
  IF Kind(r) = "once" /\ Overdue(what[r].at)
  THEN /\ rows' = rows \ {r}
       /\ UNCHANGED timer
  ELSE /\ timer' = CASE Kind(r) = "once"      -> [timer EXCEPT ![r] = NextTimeout(what[r].at)]
                     [] Kind(r) = "recurring" -> [timer EXCEPT ![r] = CronTimer]
                     [] OTHER                 -> timer
       /\ UNCHANGED rows

\* reminderActiveDecrement() of scheduleReminder().
Purged(r) == IF Kind(r) = "once" /\ Overdue(what[r].at) THEN 1 ELSE 0

-----------------------------------------------------------------------------
(***************************************************************************)
(* create() and cancel()                                                   *)
(***************************************************************************)
BelowLimit == Cardinality(rows) < MaxReminders

\* listForUser() was answered, below the limit.
Create(r) ==
  /\ Serving /\ creating[r] = "new"
  /\ "creates" \in Races \/ \A s \in Ids : creating[s] # "counted"
  /\ BelowLimit
  /\ creating' = [creating EXCEPT ![r] = "counted"]
  /\ \E kind \in Kinds : \E at \in IF kind = "once" THEN 1..Horizon ELSE {0} :
       what' = [what EXCEPT ![r] = [kind |-> kind, at |-> at]]
  /\ UNCHANGED <<clock, rows, cancelling, timer, pending, task, gauge, history>>

Insert(r) ==
  /\ up /\ creating[r] = "counted"
  /\ creating' = [creating EXCEPT ![r] = "inserted"]
  /\ rows' = rows \cup {r}
  /\ UNCHANGED <<clock, what, cancelling, timer, pending, task, gauge, history>>

ScheduleCreated(r) ==
  /\ up /\ creating[r] = "inserted"
  /\ creating' = [creating EXCEPT ![r] = "over"]
  /\ Schedule(r)
  /\ gauge' = gauge - Purged(r) + 1
  /\ UNCHANGED <<clock, what, cancelling, pending, task, history>>

\* The DELETE of cancel() finds the row.
Cancel(r) ==
  /\ Serving /\ r \in rows
  /\ "cancels" \in Races \/ (creating[r] # "inserted" /\ task[r] = "none")
  /\ rows' = rows \ {r}
  /\ cancelling' = cancelling \cup {r}
  /\ UNCHANGED <<clock, what, creating, timer, pending, task, gauge, history>>

Unscheduled(r) == [timer EXCEPT ![r] = NoTimer]

CancelReturns(r) ==
  /\ r \in cancelling
  /\ cancelling' = cancelling \ {r}
  /\ timer' = Unscheduled(r)
  /\ gauge' = gauge - 1
  /\ cancelled' = cancelled \cup {r}
  /\ UNCHANGED <<clock, what, rows, creating, pending, task, sent, unacked, tries, failed>>

-----------------------------------------------------------------------------
(***************************************************************************)
(* Delivery                                                                *)
(***************************************************************************)
\* deliver() up to its first await.
Deliver(r, tasks) ==
  IF registered
  THEN task' = [tasks EXCEPT ![r] = "sending"] /\ UNCHANGED pending
  ELSE /\ task' = tasks
       /\ pending' = IF Len(pending) < MaxPending THEN Append(pending, r) ELSE pending

\* The timer of a one-time reminder.
TimerFires(r) ==
  /\ up /\ Kind(r) = "once" /\ timer[r].fires <= now
  /\ "cancels" \in Races \/ r \notin cancelling
  /\ \/ /\ timer[r].hop /\ ~Overdue(what[r].at)
        /\ timer' = [timer EXCEPT ![r] = NextTimeout(what[r].at)]
        /\ UNCHANGED <<pending, task>>
     \/ /\ ~timer[r].hop \/ Overdue(what[r].at)
        /\ timer' = [timer EXCEPT ![r] = NoTimer]
        /\ Deliver(r, task)
  /\ UNCHANGED <<clock, what, rows, creating, cancelling, gauge, history>>

\* The cron job of a recurring reminder asks for its row,
CronFires(r) ==
  /\ up /\ Kind(r) = "recurring" /\ timer[r] = CronTimer
  /\ task[r] = "none" /\ sent[r] < MaxSends /\ r \notin Range(pending)
  /\ "cancels" \in Races \/ r \notin cancelling
  /\ task' = [task EXCEPT ![r] = IF r \in rows THEN "found" ELSE "none"]
  /\ UNCHANGED <<clock, what, rows, creating, cancelling, timer, pending, gauge, history>>

\* and delivers it if it was there.
Found(r) ==
  /\ task[r] = "found"
  /\ Deliver(r, [task EXCEPT ![r] = "none"])
  /\ UNCHANGED <<clock, what, rows, creating, cancelling, timer, gauge, history>>

\* deliver() returns, whether its last attempt succeeded or not.
Delivered(r, succeeded) ==
  /\ task' = [task EXCEPT ![r] = IF Recurring(r) THEN "none" ELSE "deleting"]
  /\ tries' = [tries EXCEPT ![r] = 0]
  /\ failed' = IF succeeded THEN failed \ {r} ELSE failed \cup {r}

\* One attempt of sendToChannel(). Each failure is retried, as another attempt or
\* by the plain message that deliver() falls back to, until the attempts are used
\* up: fewer of them where the channel or the search, image or equation is missing.
Sends(r) ==
  /\ task[r] = "sending"
  /\ \/ /\ sent' = [sent EXCEPT ![r] = @ + 1]
        /\ Delivered(r, TRUE)
        /\ UNCHANGED unacked
     \/ /\ \/ /\ "sends" \in Races
              /\ UNCHANGED <<sent, unacked>>
           \/ /\ "answers" \in Races
              /\ sent' = [sent EXCEPT ![r] = @ + 1]
              /\ unacked' = [unacked EXCEPT ![r] = @ + 1]
        /\ \/ /\ tries[r] + 1 < MaxAttempts
              /\ tries' = [tries EXCEPT ![r] = @ + 1]
              /\ UNCHANGED <<task, failed>>
           \/ Delivered(r, FALSE)
  /\ UNCHANGED <<clock, what, rows, creating, cancelling, timer, pending, gauge, cancelled>>

\* deleteAfterDelivery()
Deletes(r) ==
  /\ task[r] = "deleting"
  /\ \/ rows' = rows \ {r} /\ gauge' = gauge - 1
     \/ /\ "deletes" \in Races
        /\ UNCHANGED <<rows, gauge>>
  /\ task' = [task EXCEPT ![r] = "none"]
  /\ UNCHANGED <<clock, what, creating, cancelling, timer, pending, history>>

-----------------------------------------------------------------------------
(***************************************************************************)
(* The process                                                             *)
(***************************************************************************)
\* Mutant of Flushed: what was queued is dropped.
FlushedNone == {}

\* What setDeliveryFunction() delivers of the queue.
Flushed == Range(pending)

Register ==
  /\ up /\ ~registered
  /\ registered' = TRUE
  /\ task' = [r \in Ids |-> IF r \in Flushed THEN "sending" ELSE task[r]]
  /\ pending' = <<>>
  /\ UNCHANGED <<now, crashes, up, booting, what, rows, creating, cancelling, timer,
                 gauge, history>>

\* onModuleInit() schedules the next row it loaded.
BootSchedules(r) ==
  /\ up /\ r \in booting
  /\ booting' = booting \ {r}
  /\ Schedule(r)
  /\ gauge' = gauge - Purged(r)
  /\ UNCHANGED <<now, crashes, up, registered, what, creating, cancelling, pending, task,
                 history>>

Crash ==
  /\ up /\ crashes < MaxCrashes
  /\ up' = FALSE /\ crashes' = crashes + 1
  /\ booting' = {} /\ registered' = FALSE
  /\ creating' = [r \in Ids |-> IF creating[r] = "new" THEN "new" ELSE "over"]
  /\ cancelling' = {} /\ pending' = <<>>
  /\ timer' = [r \in Ids |-> NoTimer]
  /\ task' = [r \in Ids |-> "none"] /\ tries' = [r \in Ids |-> 0]
  /\ gauge' = 0
  /\ UNCHANGED <<now, what, rows, sent, unacked, cancelled, failed>>

Restart ==
  /\ ~up
  /\ up' = TRUE
  /\ booting' = rows
  /\ UNCHANGED <<now, crashes, registered, what, rows, memory, history>>

Tick ==
  /\ now < Horizon
  /\ now' = now + 1
  /\ UNCHANGED <<crashes, up, booting, registered, what, rows, memory, history>>

-----------------------------------------------------------------------------
Service(r) ==
  \/ Insert(r) \/ ScheduleCreated(r) \/ CancelReturns(r)
  \/ TimerFires(r) \/ Found(r) \/ Sends(r) \/ Deletes(r) \/ BootSchedules(r)

Next ==
  \/ \E r \in Ids : Create(r) \/ Cancel(r) \/ CronFires(r) \/ Service(r)
  \/ Register \/ Crash \/ Restart \/ Tick

Spec == Init /\ [][Next]_vars

\* Timers fire, the database answers, the process is started again; nothing is
\* assumed of the user.
FairSpec ==
  /\ Spec
  /\ \A r \in Ids : WF_vars(Service(r))
  /\ WF_vars(Register) /\ WF_vars(Restart) /\ WF_vars(Tick)

-----------------------------------------------------------------------------
TypeOK ==
  /\ now \in 0..Horizon /\ crashes \in 0..MaxCrashes
  /\ what \in [Ids -> [kind : KindNames \cup {"none"}, at : 0..Horizon]]
  /\ rows \subseteq Ids /\ booting \subseteq Ids /\ cancelling \subseteq Ids
  /\ up \in BOOLEAN /\ registered \in BOOLEAN
  /\ creating \in [Ids -> {"new", "counted", "inserted", "over"}]
  /\ timer \in [Ids -> [fires : 0..Horizon, hop : BOOLEAN] \cup {NoTimer}]
  /\ pending \in Seq(Ids) /\ Len(pending) <= MaxPending
  /\ task \in [Ids -> {"none", "found", "sending", "deleting"}]
  /\ gauge \in Int
  /\ sent \in [Ids -> Nat] /\ unacked \in [Ids -> Nat] /\ tries \in [Ids -> 0..(MaxAttempts - 1)]
  /\ cancelled \subseteq Ids /\ failed \subseteq Ids

\* A reminder is not sent any more once cancel() has returned: its row and its
\* "cron job or timeout" are gone.
CancelledIsSilent == \A r \in cancelled : sent'[r] = sent[r]

\* "Per-user cap on active reminders": no user has more rows than the limit.
WithinLimit == Cardinality(rows) <= MaxReminders

\* A one-time reminder is deleted "after successful delivery", never after a
\* failed one.
UndeliveredIsKept ==
  [][\A r \in rows \ rows' : task[r] = "deleting" => r \notin failed]_vars

\* "Number of currently active reminders": the gauge counts the rows while no
\* call is under way.
GaugeCountsRows ==
  (Serving /\ cancelling = {} /\ \A r \in Ids : creating[r] # "inserted" /\ task[r] = "none")
    => gauge = Cardinality(rows)

\* A one-time reminder is not forgotten: it is sent, or cancelled, or deleted by
\* a restart that comes too late.
OnceIsSettled ==
  \A r \in Ids : (r \in rows /\ Kind(r) = "once") ~> (r \notin rows)
=============================================================================
