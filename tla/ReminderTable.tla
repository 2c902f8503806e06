--------------------------- MODULE ReminderTable ---------------------------
(***************************************************************************)
(* The reminders of tdr-bot: the table that outlives the process, the      *)
(* timers, queue and calls of the process that look after its rows, and    *)
(* what Reminders, which has their steps, promises of them.                *)
(***************************************************************************)
EXTENDS Integers, Sequences, Functions

CONSTANTS
  Ids,          \* reminders that may ever be created, all of one user
  Horizon,      \* bound: the clock
  MaxAttempts   \* attempts of a delivery to send its message: maxAttempts of the
                \* reminder's own kind of message, and of the plain one after it

VARIABLES
  now,
  what,       \* kind and time of each reminder created so far
  rows,       \* database: ids in the reminders table
  up,         \* the process runs
  booting,    \* rows onModuleInit() has loaded and not scheduled yet
  creating,   \* the await its create() is in
  cancelling, \* rows deleted by a cancel() that has not gone on
  timer,      \* its entry in the scheduler registry
  pending,    \* pendingDeliveries
  task,       \* the await its delivery is in
  sent,       \* history: messages of it that Discord has posted
  unacked     \* history: those of them whose attempt ended in an error all the same

NoTimer == [fires |-> Horizon + 1, hop |-> FALSE]

Kind(r) == what[r].kind

Overdue(at) == at <= now

-----------------------------------------------------------------------------
\* A timer, a queue or a call of this process will deal with the reminder.
InHand(r) ==
  \/ r \in booting \cup cancelling \cup Range(pending)
  \/ creating[r] = "inserted"
  \/ timer[r] # NoTimer
  \/ task[r] # "none"

\* Every stored reminder is looked after, across creations, deliveries that come
\* before the bot is ready, and restarts: create() "persists a new reminder and
\* schedules it for delivery".
RowsAreScheduled == up => \A r \in rows : InHand(r)

\* A message of a one-time reminder is posted after its time, never after one that
\* the service knows to be posted, and in one delivery: however often answers are
\* lost, or the process crashes between its timer, its message and its row.
SentOnceInTime ==
  \A r \in Ids : Kind(r) = "once" /\ sent'[r] # sent[r]
    => Overdue(what[r].at) /\ sent[r] = unacked[r] /\ sent'[r] <= MaxAttempts

\* Where no answer is lost, that is at most one message; a retry of an attempt
\* whose answer was lost posts another one.
PostedOnce == \A r \in Ids : Kind(r) = "once" => sent[r] <= 1

\* A timer, a queue or a call under way will deal with every stored reminder, and
\* a one-time reminder is delivered in time and once, whatever crashes fall in
\* between.
DeliveriesAreDue == []RowsAreScheduled /\ [][SentOnceInTime]_sent
=============================================================================
