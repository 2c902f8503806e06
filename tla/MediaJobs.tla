----------------------------- MODULE MediaJobs -----------------------------
(***************************************************************************)
(* The download service's movie and show jobs (apps/download/src/media):   *)
(* requests to Radarr and Sonarr, deletions, and the poller that follows   *)
(* their queues (media-download.service.ts, media-poller.service.ts,       *)
(* queue-status.util.ts, radarr.service.ts, sonarr.service.ts).            *)
(*                                                                         *)
(* Radarr and Sonarr are one external library each, called arr here. An    *)
(* action is one continuation of a request, a deletion or a poll, or a     *)
(* step of arr; every answer may arrive after others have gone on.         *)
(***************************************************************************)
EXTENDS JobStatus, FiniteSets

CONSTANTS
  Jobs,        \* bound: the jobs ever requested
  Movies,      \* titles of Radarr
  Shows,       \* titles of Sonarr
  MaxPolls,    \* bound: polls in flight at once, those of the cron included
  MaxBackoff,  \* MAX_BACKOFF_MS, in ticks of the cron (12 in the code)
  Deletes,     \* whether jobs are deleted
  NoTitle      \* a value outside Movies and Shows

Titles == Movies \cup Shows

MediaAssumption ==
  /\ NoTitle \notin Titles /\ Movies \cap Shows = {}
  /\ MaxPolls \in Nat \ {0} /\ MaxBackoff \in Nat \ {0}
  /\ Deletes \in BOOLEAN

Polls == 1..MaxPolls
Services == {Movies, Shows} \ {{}}
ServiceOf(t) == IF t \in Movies THEN Movies ELSE Shows

VARIABLES
  known,    \* whether radarrId or sonarrId is set
  shot,     \* queueSnapshot: the queue item the job last saw
  request,  \* where requestMovie() of the job waits
  deletion, \* where deleteMovieJob() of the job waits
  inLib, item,            \* arr: the title is there, its queue item
  poll,     \* the polls in flight
  backoff, wait           \* backoffMs, and the ticks until nextAllowedRunAt

jobVars == <<jobStatus, title, known, shot>>
arrVars == <<inLib, item, file, taken>>
pollVars == <<poll, backoff, wait>>
vars == <<jobVars, request, deletion, arrVars, pollVars>>

Statuses == {"none", "requested", "searching", "downloading", "importing"} \cup Terminal
Items == {"none", "queued", "downloading", "importing", "failed"}

\* part: for each service, the state of pollMovies() or pollShows(); seen and
\* shot: the jobs captured before the await; answer: the queue as arr read it.
NoPoll == [on |-> FALSE, part |-> [s \in Services |-> "idle"],
           seen |-> [j \in Jobs |-> "none"], shot |-> [j \in Jobs |-> "none"],
           answer |-> [t \in Titles |-> "none"]]

Init ==
  /\ jobStatus = [j \in Jobs |-> "none"]
  /\ title = [j \in Jobs |-> NoTitle]
  /\ known = [j \in Jobs |-> FALSE]
  /\ shot = [j \in Jobs |-> "none"]
  /\ request = [j \in Jobs |-> "none"]
  /\ deletion = [j \in Jobs |-> "none"]
  /\ inLib = [t \in Titles |-> FALSE]
  /\ item = [t \in Titles |-> "none"]
  /\ file = [t \in Titles |-> FALSE]
  /\ taken = {}
  /\ poll = [p \in Polls |-> NoPoll]
  /\ backoff = 1 /\ wait = 0

SetStatus(j, st) == jobStatus' = [jobStatus EXCEPT ![j] = st]

\* Title t leaves the queue, or loses its file, with nothing imported.
IsTaken(t) == taken' = taken \cup {j \in Jobs : known[j] /\ title[j] = t}

-----------------------------------------------------------------------------
(***************************************************************************)
(* requestMovie(), requestShow(): list the library, add the title if it is *)
(* missing, trigger a search. Every call may fail.                         *)
(***************************************************************************)
Request(j) ==
  /\ jobStatus[j] = "none"
  /\ \E t \in Titles : title' = [title EXCEPT ![j] = t]
  /\ SetStatus(j, "requested")
  /\ request' = [request EXCEPT ![j] = "listing"]
  /\ UNCHANGED <<known, shot, deletion, arrVars, pollVars>>

Listed(j) ==
  /\ request[j] = "listing"
  /\ request' = [request EXCEPT ![j] = IF inLib[title[j]] THEN "searching" ELSE "adding"]
  /\ UNCHANGED <<jobVars, deletion, arrVars, pollVars>>

\* arr refuses to add a title it has.
Added(j) ==
  /\ request[j] = "adding" /\ ~inLib[title[j]]
  /\ inLib' = [inLib EXCEPT ![title[j]] = TRUE]
  /\ request' = [request EXCEPT ![j] = "searching"]
  /\ UNCHANGED <<jobVars, deletion, item, file, taken, pollVars>>

Searched(j) ==
  /\ request[j] = "searching"
  /\ request' = [request EXCEPT ![j] = "none"]
  /\ known' = [known EXCEPT ![j] = TRUE]
  /\ SetStatus(j, "searching")
  /\ UNCHANGED <<title, shot, deletion, arrVars, pollVars>>

RequestFails(j) ==
  /\ request[j] # "none"
  /\ request' = [request EXCEPT ![j] = "none"]
  /\ SetStatus(j, "failed")
  /\ UNCHANGED <<title, known, shot, deletion, arrVars, pollVars>>

-----------------------------------------------------------------------------
(***************************************************************************)
(* deleteMovieJob(), deleteShowJob() and unmonitorAndDelete(): read the    *)
(* queue, cancel its items (a refusal is only logged), delete the title.   *)
(***************************************************************************)
Delete(j) ==
  /\ Deletes /\ jobStatus[j] # "none" /\ deletion[j] = "none"
  /\ \/ /\ known[j]
        /\ deletion' = [deletion EXCEPT ![j] = "queue"]
        /\ UNCHANGED jobStatus
     \/ /\ ~known[j]
        /\ SetStatus(j, "cancelled")
        /\ UNCHANGED deletion
  /\ UNCHANGED <<title, known, shot, request, arrVars, pollVars>>

QueueRead(j) ==
  /\ deletion[j] = "queue"
  /\ deletion' = [deletion EXCEPT ![j] =
                    IF item[title[j]] # "none" THEN "items" ELSE "title"]
  /\ UNCHANGED <<jobVars, request, arrVars, pollVars>>

ItemsCancelled(j) ==
  /\ deletion[j] = "items"
  /\ deletion' = [deletion EXCEPT ![j] = "title"]
  /\ \/ /\ item[title[j]] # "none"
        /\ item' = [item EXCEPT ![title[j]] = "none"]
        /\ IsTaken(title[j])
     \/ UNCHANGED <<item, taken>>
  /\ UNCHANGED <<jobVars, request, inLib, file, pollVars>>

TitleDeleted(j) ==
  /\ deletion[j] = "title" /\ inLib[title[j]]
  /\ inLib' = [inLib EXCEPT ![title[j]] = FALSE]
  /\ item' = [item EXCEPT ![title[j]] = "none"]
  /\ file' = [file EXCEPT ![title[j]] = FALSE]
  /\ IsTaken(title[j])
  /\ deletion' = [deletion EXCEPT ![j] = "none"]
  /\ SetStatus(j, "cancelled")
  /\ UNCHANGED <<title, known, shot, request, pollVars>>

\* A title that is gone is refused too; the job keeps its status.
DeletionFails(j) ==
  /\ deletion[j] \in {"queue", "title"}
  /\ deletion' = [deletion EXCEPT ![j] = "none"]
  /\ UNCHANGED <<jobVars, request, arrVars, pollVars>>

-----------------------------------------------------------------------------
(***************************************************************************)
(* arr: a title it has may be grabbed, downloaded and imported, which      *)
(* takes it out of the queue. So does whoever removes it from there: arr   *)
(* when a download failed, its page, tdr-bot. A download that failed and   *)
(* was left there is replaced by another release.                          *)
(***************************************************************************)
Successors(i) ==
  CASE i = "none" -> {"queued"}
    [] i = "queued" -> {"downloading", "failed"}
    [] i = "downloading" -> {"importing", "failed"}
    [] i = "importing" -> {"none"}
    [] i = "failed" -> {"queued"}

Progresses(t) ==
  /\ \E i \in Successors(item[t]) : item' = [item EXCEPT ![t] = i]
  /\ file' = [file EXCEPT ![t] = @ \/ item[t] = "importing"]
  /\ UNCHANGED taken

Removed(t) ==
  /\ item[t] # "none"
  /\ item' = [item EXCEPT ![t] = "none"]
  /\ IsTaken(t)
  /\ UNCHANGED file

ArrStep(t) ==
  /\ inLib[t]
  /\ Progresses(t) \/ Removed(t)
  /\ UNCHANGED <<jobVars, request, deletion, inLib, pollVars>>

-----------------------------------------------------------------------------
(***************************************************************************)
(* The poller. The cron fires every ten seconds, whether or not an earlier *)
(* poll has ended.                                                         *)
(***************************************************************************)
\* Mutant of Tracked: a job that is importing is not looked at any more.
TrackedUntilImport(j) == known[j] /\ jobStatus[j] \notin Terminal \cup {"importing"}

Tracked(j) == known[j] /\ jobStatus[j] \notin Terminal

Due == wait = 0

NextBackoff == IF 2 * backoff < MaxBackoff THEN 2 * backoff ELSE MaxBackoff

Recovered == backoff' = 1 /\ wait' = 0

\* A service none of whose titles is tracked is not asked.
Capture ==
  LET tracked == {j \in Jobs : Tracked(j)}
      asked == {ServiceOf(title[j]) : j \in tracked} IN
  [on |-> TRUE, part |-> [s \in Services |-> IF s \in asked THEN "asked" ELSE "idle"],
   seen |-> [j \in Jobs |-> IF j \in tracked THEN jobStatus[j] ELSE "none"],
   shot |-> [j \in Jobs |-> IF j \in tracked THEN shot[j] ELSE "none"],
   answer |-> [t \in Titles |-> "none"]]

Tick ==
  /\ \/ /\ wait > 0
        /\ wait' = wait - 1
        /\ UNCHANGED <<poll, backoff>>
     \/ \E p \in Polls :
          /\ Due
          /\ poll[p] = NoPoll /\ \A q \in Polls : q < p => poll[q] # NoPoll
          /\ \E j \in Jobs : Tracked(j)
          /\ poll' = [poll EXCEPT ![p] = Capture]
          /\ UNCHANGED <<backoff, wait>>
     \/ /\ Due /\ ~\E j \in Jobs : Tracked(j)
        /\ Recovered
        /\ UNCHANGED poll
  /\ UNCHANGED <<jobVars, request, deletion, arrVars>>

\* arr reads its queue for getQueue().
PollRead(p, s) ==
  /\ poll[p].part[s] = "asked"
  /\ poll' = [poll EXCEPT ![p].part[s] = "read",
                          ![p].answer = [t \in Titles |-> IF t \in s THEN item[t] ELSE @[t]]]
  /\ UNCHANGED <<jobVars, request, deletion, arrVars, backoff, wait>>

\* Mutant of Derive: an item that is gone is searched for again.
DeriveAbsentSearching(st, i) ==
  CASE i = "none" -> "searching"
    [] i = "failed" -> "failed"
    [] i = "importing" -> "importing"
    [] OTHER -> "downloading"

\* deriveStatusFromQueueItem()
Derive(st, i) ==
  CASE i = "none" /\ st \in {"downloading", "importing"} -> "completed"
    [] i = "none" /\ st \notin {"downloading", "importing"} -> st
    [] i = "failed" -> "failed"
    [] i = "importing" -> "importing"
    [] OTHER -> "downloading"

\* applyUpdate(): a job the poll captured is written if its status or its
\* snapshot, as captured, changes.
Updated(p, s) ==
  {j \in Jobs : /\ poll[p].seen[j] # "none" /\ title[j] \in s
                /\ LET i == poll[p].answer[title[j]] IN
                   \/ Derive(poll[p].seen[j], i) # poll[p].seen[j]
                   \/ i \notin {"none", poll[p].shot[j]}}

\* The poll after part s ended; a poll all of whose parts ended is forgotten.
Ended(p, s, on) ==
  LET r == [poll[p] EXCEPT !.on = on, !.part[s] = "idle"] IN
  IF \A q \in Services : r.part[q] = "idle" THEN NoPoll ELSE r

PollApplies(p, s) ==
  /\ poll[p].part[s] = "read"
  /\ LET i(j) == poll[p].answer[title[j]] IN
     /\ jobStatus' = [j \in Jobs |-> IF j \in Updated(p, s) THEN Derive(poll[p].seen[j], i(j))
                                                         ELSE jobStatus[j]]
     /\ shot' = [j \in Jobs |-> IF j \in Updated(p, s) /\ i(j) # "none" THEN i(j) ELSE shot[j]]
  /\ poll' = [poll EXCEPT ![p] = Ended(p, s, poll[p].on)]
  /\ IF poll[p].on /\ poll'[p] = NoPoll THEN Recovered ELSE UNCHANGED <<backoff, wait>>
  /\ UNCHANGED <<title, known, request, deletion, arrVars>>

\* getQueue() rejects. The first rejection ends poll(); the other part goes on.
PollFails(p, s) ==
  /\ poll[p].part[s] # "idle"
  /\ poll' = [poll EXCEPT ![p] = Ended(p, s, FALSE)]
  /\ IF poll[p].on THEN wait' = backoff /\ backoff' = NextBackoff
                   ELSE UNCHANGED <<backoff, wait>>
  /\ UNCHANGED <<jobVars, request, deletion, arrVars>>

-----------------------------------------------------------------------------
RequestStep(j) == Listed(j) \/ Added(j) \/ Searched(j) \/ RequestFails(j)
DeletionStep(j) == QueueRead(j) \/ ItemsCancelled(j) \/ TitleDeleted(j) \/ DeletionFails(j)
PollEnds(p, s) == PollApplies(p, s) \/ PollFails(p, s)

Next ==
  \/ \E j \in Jobs : Request(j) \/ RequestStep(j) \/ Delete(j) \/ DeletionStep(j)
  \/ \E t \in Titles : ArrStep(t)
  \/ Tick
  \/ \E p \in Polls, s \in Services : PollRead(p, s) \/ PollEnds(p, s)

Spec == Init /\ [][Next]_vars

\* The cron fires, an answer is applied once it came, and arr answers polls
\* again and again, though it may fail in between.
FairSpec ==
  /\ Spec
  /\ WF_vars(Tick)
  /\ \A p \in Polls, s \in Services :
       /\ WF_vars(PollRead(p, s) \/ PollEnds(p, s))
  /\ \A s \in Services :
       /\ SF_vars(\E p \in Polls : PollRead(p, s))
       /\ SF_vars(\E p \in Polls : PollApplies(p, s))

-----------------------------------------------------------------------------
TypeOK ==
  /\ jobStatus \in [Jobs -> Statuses]
  /\ title \in [Jobs -> Titles \cup {NoTitle}]
  /\ known \in [Jobs -> BOOLEAN]
  /\ shot \in [Jobs -> Items]
  /\ request \in [Jobs -> {"none", "listing", "adding", "searching"}]
  /\ deletion \in [Jobs -> {"none", "queue", "items", "title"}]
  /\ inLib \in [Titles -> BOOLEAN]
  /\ item \in [Titles -> Items]
  /\ file \in [Titles -> BOOLEAN]
  /\ taken \subseteq Jobs
  /\ poll \in [Polls -> [on : BOOLEAN, part : [Services -> {"idle", "asked", "read"}],
                         seen : [Jobs -> Statuses], shot : [Jobs -> Items],
                         answer : [Titles -> Items]]]
  /\ backoff \in 1..MaxBackoff /\ wait \in 0..MaxBackoff

\* A job that was deleted is not searched for, downloaded or imported again.
CancelledStaysEnded ==
  [][\A j \in Jobs : jobStatus[j] = "cancelled" => jobStatus'[j] \in Terminal]_vars

\* A job that is shown downloading or importing while its title is not in the
\* queue is noticed to have ended, whatever was deleted or failed meanwhile.
InQueue(j) == known[j] /\ item[title[j]] # "none"
QueueEndIsNoticed ==
  \A j \in Jobs :
    (jobStatus[j] \in {"downloading", "importing"} /\ ~InQueue(j))
      ~> (jobStatus[j] \in Terminal \/ InQueue(j))
=============================================================================
