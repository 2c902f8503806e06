--------------------------- MODULE SeriesLibrary ---------------------------
(***************************************************************************)
(* What tdr-bot does to one series in Sonarr: monitorAndDownloadSeries()   *)
(* and unmonitorAndDeleteSeries() (media/services/sonarr.service.ts).      *)
(*                                                                         *)
(* Sonarr is external: lib is its state, and it lists the episodes of a    *)
(* new series, grabs wanted episodes and imports finished downloads on its *)
(* own. An operation is a frame in op; an action is one call to Sonarr     *)
(* with the code that follows it up to the next call. A call is what       *)
(* executeWithRetry() makes of it: it may also be refused, without an      *)
(* effect, or its answer be lost, after its effect.                        *)
(***************************************************************************)
EXTENDS WantedEpisodes, Naturals, Sequences, FiniteSets, SequencesExt

CONSTANTS
  Ops,          \* bound: the operations ever asked for
  Requests,     \* [kind, sel]: what may be asked; sel = <<>> is the whole series
  Libraries,    \* the states of Sonarr at the start
  Races,        \* orders of events that are allowed, see below
  Faults,       \* ways a call can fail: "refused", "lost"
  MaxFailures   \* bound: calls that fail

\* overlap       two operations on the series at once
\* midway        Sonarr grabs or imports an episode that is being deleted
\* slow_listing  Sonarr has not listed a season's episodes when the reads of
\*               getEpisodesWithRetry() are used up
\* late_monitor  an episode put to monitored is read as unmonitored for a while
RaceNames == {"overlap", "midway", "slow_listing", "late_monitor"}

LibraryAssumption ==
  /\ \A e \in Episodes : e \in Nat \X Nat
  /\ \A r \in Requests : r.kind \in {"download", "delete"}
  /\ Races \subseteq RaceNames /\ Faults \subseteq {"refused", "lost"}
  /\ MaxFailures \in Nat
  /\ Seasons \ {0} # {}

VARIABLES
  seen,    \* the wanted episodes as Sonarr's answers show them
  failed   \* the number of failed calls

vars == <<lib, seen, op, failed>>

\* todo: the entries left, the current one first; known: currentSeries.seasons;
\* eps, held: the episodes read and those of them with a file; left: what the
\* current loop has still to visit; swallow: errors of the loop over todo are
\* caught per season. undone is history: the episodes about which a call failed
\* whose error is only logged; the report does not tell of them.
NoFrame ==
  [pc |-> "idle", req |-> [kind |-> "download", sel |-> <<>>], todo |-> <<>>,
   known |-> {}, eps |-> {}, held |-> {}, left |-> {}, tries |-> 0,
   some |-> FALSE, swallow |-> FALSE, undone |-> {}, changed |-> FALSE,
   searched |-> FALSE, added |-> FALSE, deleted |-> FALSE, success |-> FALSE]

Init ==
  /\ lib \in Libraries
  /\ seen = lib.wanted
  /\ op = [o \in Ops |-> NoFrame]
  /\ failed = 0

Midway(e) == \E o \in Ops :
  /\ op[o].req.kind = "delete"
  /\ op[o].pc \in {"queue", "remove", "unlink", "drop"}
  /\ e \in op[o].eps

-----------------------------------------------------------------------------
\* The calls.

\* A call with outcome r; "ok" is always possible.
Call(r) ==
  /\ r \in {"ok"} \cup Faults
  /\ r # "ok" => failed < MaxFailures
  /\ failed' = IF r = "ok" THEN failed ELSE failed + 1

Go(o, f) == op' = [op EXCEPT ![o] = f]
At(f, pc) == [f EXCEPT !.pc = pc]

\* The catch clauses of the two operations: the report says only that it failed.
Fail(f) == [f EXCEPT !.pc = "done", !.success = FALSE, !.added = FALSE, !.deleted = FALSE,
                     !.searched = FALSE]
Succeed(f) == [f EXCEPT !.pc = "done", !.success = TRUE]

Entry(f) == Head(f.todo)
Targets(f) == Named(Entry(f)) \cap f.eps

\* What follows the entries.
AfterAll(f) ==
  IF f.req.kind = "delete" THEN [f EXCEPT !.pc = "poll", !.tries = 1, !.left = Seasons \ {0},
                                          !.some = FALSE]
  ELSE IF f.changed \/ f.added THEN At(f, "search")
  ELSE Succeed(f)

\* Go on to the next entry, or to what follows them.
NextEntry(f) ==
  LET rest == [f EXCEPT !.todo = Tail(f.todo), !.tries = 1, !.eps = {}, !.held = {}] IN
  IF rest.todo = <<>> THEN AfterAll(rest) ELSE At(rest, "list")
StartEntries(f, todo) ==
  LET start == [f EXCEPT !.todo = todo, !.tries = 1] IN
  IF todo = <<>> THEN AfterAll(start) ELSE At(start, "list")

\* A failure inside the loop over the entries: monitorAllEpisodesInMonitoredSeasons()
\* logs it and takes the next season, the others give up.
EntryFails(f) ==
  IF f.swallow THEN NextEntry([f EXCEPT !.undone = @ \cup InSeason(Entry(f).season)])
               ELSE Fail(f)

\* monitorAllEpisodesInMonitoredSeasons(): the flagged seasons but the specials.
AllSeasons(f, flagged) ==
  LET whole(n) == [season |-> n, numbers |-> {}]
      order == SetToSeq(flagged \ {0})
  IN StartEntries([f EXCEPT !.swallow = TRUE, !.known = flagged],
                  [i \in DOMAIN order |-> whole(order[i])])

-----------------------------------------------------------------------------
\* Both operations.

Ask(o, req) ==
  /\ op[o].pc = "idle"
  /\ "overlap" \in Races \/ \A p \in Ops : Idle(p)
  /\ Go(o, [NoFrame EXCEPT !.pc = "find", !.req = req])
  /\ UNCHANGED <<lib, seen, failed>>

\* getSeriesByTvdbId(), and the choice of what to do.
Find(o, r) ==
  LET f == op[o]
      there == [f EXCEPT !.known = lib.flagged]
  IN
  /\ f.pc = "find"
  /\ Call(r)
  /\ Go(o, IF r # "ok" THEN Fail(f)
           ELSE IF ~lib.present
             THEN IF f.req.kind = "delete" THEN Fail(f) ELSE At(f, "lookup")
           ELSE IF f.req.sel # <<>> THEN StartEntries(there, f.req.sel)
           ELSE IF f.req.kind = "download" THEN At(there, "flag")
           ELSE [there EXCEPT !.pc = "queue", !.eps = Episodes])
  /\ UNCHANGED <<lib, seen>>

\* A read of a season that is the last of its retries finds what there is.
Answered(n) == lib.listed = {} /\ n \in Seasons => "slow_listing" \in Races \/ ~lib.present

\* getEpisodesWithRetry(): up to three reads, as long as nothing is listed.
List(o, r) ==
  LET f == op[o]
      read == lib.listed \cap InSeason(Entry(f).season)
      found == [f EXCEPT !.eps = read, !.held = read \cap lib.files]
      last == f.tries = 3
  IN
  /\ f.pc = "list"
  /\ Call(r)
  /\ last => Answered(Entry(f).season)
  /\ Go(o, IF r # "ok" THEN EntryFails(f)
           ELSE IF read = {} THEN IF last THEN NextEntry(f) ELSE [f EXCEPT !.tries = @ + 1]
           ELSE IF f.req.kind = "download" THEN At(found, "monitor")
           ELSE IF Targets(found) = {} THEN NextEntry(found)
           ELSE At(found, "queue"))
  /\ UNCHANGED <<lib, seen>>

-----------------------------------------------------------------------------
\* monitorAndDownloadSeries().

\* searchShows() and getSeriesConfiguration().
Lookup(o, r) ==
  /\ op[o].pc = "lookup"
  /\ Call(r)
  /\ Go(o, IF r = "ok" THEN At(op[o], "add") ELSE Fail(op[o]))
  /\ UNCHANGED <<lib, seen>>

\* determineMonitoringStrategy(): which seasons the new series has monitored.
Strategy(sel) ==
  IF sel = <<>> THEN Seasons \ {0} ELSE {sel[i].season : i \in DOMAIN sel}

\* addNewSeries(): the POST. Sonarr refuses a series it has.
Add(o, r) ==
  LET f == [op[o] EXCEPT !.added = TRUE]
      flagged == Strategy(f.req.sel)
      refused == r = "refused" \/ lib.present
  IN
  /\ f.pc = "add"
  /\ Call(r)
  /\ lib' = IF refused THEN lib
            ELSE [lib EXCEPT !.present = TRUE, !.monitored = TRUE, !.listed = {}, !.wanted = {},
                             !.files = {}, !.flagged = flagged]
  /\ seen' = IF refused THEN seen ELSE {}
  /\ Go(o, IF r # "ok" \/ lib.present THEN Fail(f)
           ELSE IF f.req.sel = <<>> THEN AllSeasons(f, flagged)
           ELSE StartEntries([f EXCEPT !.known = flagged], f.req.sel))

\* updateExistingSeriesMonitoring() without a selection: updateSeries() with the
\* series and every season monitored, the specials too.
Flag(o, r) ==
  LET f == op[o]
      all == [f EXCEPT !.changed = (Seasons \ {0}) \ f.known # {}]
  IN
  /\ f.pc = "flag"
  /\ Call(r)
  /\ lib' = IF r # "refused" /\ lib.present
              THEN [lib EXCEPT !.monitored = TRUE, !.flagged = Seasons] ELSE lib
  /\ Go(o, IF r = "ok" /\ lib.present THEN AllSeasons(all, Seasons) ELSE Fail(f))
  /\ UNCHANGED seen

\* updateEpisodesMonitoring(): the episodes become wanted, or unwanted.
Put(eps, monitored, r) ==
  IF r = "refused" \/ ~lib.present THEN UNCHANGED <<lib, seen>>
  ELSE IF monitored
    THEN /\ lib' = [lib EXCEPT !.wanted = @ \cup eps]
         /\ seen' = IF "late_monitor" \in Races THEN seen ELSE seen \cup eps
    ELSE lib' = [lib EXCEPT !.wanted = @ \ eps] /\ UNCHANGED seen
Taken(r) == r = "ok" /\ lib.present

\* applyEpisodeMonitoring(), or one season of monitorAllEpisodesInMonitoredSeasons().
Monitor(o, r) ==
  LET f == op[o]
      others == f.eps \ Named(Entry(f))
      next == [f EXCEPT !.changed = TRUE]
  IN
  /\ f.pc = "monitor"
  /\ IF Targets(f) = {}
       THEN Go(o, At(f, "others")) /\ UNCHANGED <<lib, seen, failed>> /\ r = "ok"
       ELSE /\ Call(r)
            /\ Put(Targets(f), TRUE, r)
            /\ Go(o, IF ~Taken(r) THEN EntryFails(f)
                     ELSE IF others = {} THEN NextEntry(next)
                     ELSE At(next, "others"))

\* The episodes of the season that were not selected are unmonitored.
MonitorOthers(o, r) ==
  LET f == op[o] IN
  /\ f.pc = "others"
  /\ Call(r)
  /\ Put(f.eps \ Named(Entry(f)), FALSE, r)
  /\ Go(o, IF Taken(r) THEN NextEntry([f EXCEPT !.changed = TRUE]) ELSE EntryFails(f))

\* triggerSeriesSearch().
Search(o, r) ==
  LET f == op[o] IN
  /\ f.pc = "search"
  /\ Call(r)
  /\ Go(o, IF Taken(r) THEN Succeed([f EXCEPT !.searched = TRUE]) ELSE Fail(f))
  /\ UNCHANGED <<lib, seen>>

-----------------------------------------------------------------------------
\* unmonitorAndDeleteSeries().

\* getQueue() of cancelDownloadsForSeries() and cancelDownloadsForEpisodes();
\* a failure cancels nothing.
Doomed(f) == IF f.req.sel = <<>> THEN f.eps ELSE Targets(f)
\* (mutant of AfterQueue) The files are deleted with a whole season only.
AfterQueueKeepsFiles(f) ==
  IF f.req.sel = <<>> THEN At(f, "drop")
  ELSE [f EXCEPT !.pc = "unlink", !.left = IF Entry(f).numbers = {} THEN f.held ELSE {}]
AfterQueue(f) ==
  IF f.req.sel = <<>> THEN At(f, "drop")
  ELSE [f EXCEPT !.pc = "unlink", !.left = Targets(f) \cap f.held]

ReadQueue(o, r) ==
  LET f == op[o]
      mine == lib.queue \cap Doomed(f)
  IN
  /\ f.pc = "queue"
  /\ Call(r)
  /\ Go(o, IF r # "ok" THEN AfterQueue([f EXCEPT !.undone = @ \cup Doomed(f)])
           ELSE IF mine = {} THEN AfterQueue(f)
           ELSE [f EXCEPT !.pc = "remove", !.left = mine])
  /\ UNCHANGED <<lib, seen>>

\* removeQueueItem(): an item that is gone is an error, like any other it is
\* logged and the next is taken.
RemoveItem(o, e, r) ==
  LET f == op[o]
      next == [f EXCEPT !.left = @ \ {e}, !.undone = IF r = "ok" THEN @ ELSE @ \cup {e}]
  IN
  /\ f.pc = "remove" /\ e \in f.left
  /\ Call(r)
  /\ lib' = IF r = "refused" THEN lib ELSE [lib EXCEPT !.queue = @ \ {e}]
  /\ Go(o, IF next.left = {} THEN AfterQueue(next) ELSE next)
  /\ UNCHANGED seen

\* deleteEpisodeFilesForEpisodes(): the files the episodes had when they were read.
DeleteFile(o, e, r) ==
  LET f == op[o]
      next == [f EXCEPT !.left = @ \ {e}, !.undone = IF r = "ok" THEN @ ELSE @ \cup {e}]
  IN
  /\ f.pc = "unlink" /\ e \in f.left
  /\ Call(r)
  /\ lib' = IF r = "refused" THEN lib ELSE [lib EXCEPT !.files = @ \ {e}]
  /\ Go(o, next)
  /\ UNCHANGED seen

\* applyEpisodeUnmonitoring(): the PUT after the files; then a whole season loses
\* its flag, of single episodes checkAndUnmonitorSeasonIfEmpty() looks first.
Unmonitor(o, r) ==
  LET f == op[o] IN
  /\ f.pc = "unlink" /\ f.left = {}
  /\ Call(r)
  /\ Put(Targets(f), FALSE, r)
  /\ Go(o, IF ~Taken(r) THEN Fail(f)
           ELSE IF Entry(f).numbers = {} THEN At(f, "unflag")
           ELSE At(f, "recheck"))

\* updateSeries() with the seasons this operation knows, one of them unflagged.
Unflag(o, r) ==
  LET f == op[o]
      flags == f.known \ {Entry(f).season}
      next == [f EXCEPT !.known = flags]
  IN
  /\ f.pc \in {"unflag", "unflag_empty"}
  /\ Call(r)
  /\ lib' = IF r # "refused" /\ lib.present THEN [lib EXCEPT !.flagged = flags] ELSE lib
  /\ Go(o, IF Taken(r) THEN NextEntry(next)
           ELSE IF f.pc = "unflag" THEN Fail(f)
           ELSE NextEntry(f))
  /\ UNCHANGED seen

\* checkAndUnmonitorSeasonIfEmpty(): its errors mean that the season is kept.
Recheck(o, r) ==
  LET f == op[o]
      read == lib.listed \cap InSeason(Entry(f).season)
  IN
  /\ f.pc = "recheck" /\ Answered(Entry(f).season)
  /\ Call(r)
  /\ Go(o, IF r # "ok" \/ read = {} \/ read \cap seen # {} THEN NextEntry(f)
           ELSE At(f, "unflag_empty"))
  /\ UNCHANGED <<lib, seen>>

\* (mutant of StillWanted) A season counts as long as it has files.
StillHeld(n) == lib.files \cap InSeason(n) # {}
\* hasMonitoredEpisodes, of one season.
StillWanted(n) == seen \cap lib.listed \cap InSeason(n) # {}

\* checkIfSeriesShouldBeDeleted(): each of up to three polls reads every season
\* but the specials; any error keeps the series.
Poll(o, n, r) ==
  LET f == op[o]
      next == [f EXCEPT !.left = @ \ {n}, !.some = @ \/ StillWanted(n)]
  IN
  /\ f.pc = "poll" /\ n \in f.left /\ (\A m \in f.left : n <= m) /\ Answered(n)
  /\ Call(r)
  /\ Go(o, IF r # "ok" \/ ~lib.present THEN Succeed(f)
           ELSE IF next.left # {} THEN next
           ELSE IF ~next.some THEN At(next, "drop")
           ELSE IF f.tries = 3 THEN Succeed(next)
           ELSE [next EXCEPT !.left = Seasons \ {0}, !.some = FALSE, !.tries = @ + 1])
  /\ UNCHANGED <<lib, seen>>

\* deleteSeries(), with its files: deleteEntireSeries(), or the end of
\* applyGranularUnmonitoring().
Drop(o, r) ==
  LET f == op[o] IN
  /\ f.pc = "drop"
  /\ Call(r)
  /\ lib' = IF r = "refused" THEN lib
            ELSE [lib EXCEPT !.present = FALSE, !.monitored = FALSE, !.listed = {}, !.flagged = {},
                             !.wanted = {}, !.files = {}]
  /\ seen' = IF r = "refused" THEN seen ELSE {}
  /\ Go(o, IF Taken(r) THEN Succeed([f EXCEPT !.deleted = TRUE]) ELSE Fail(f))

-----------------------------------------------------------------------------
\* Sonarr.

\* It has read the episodes of a series that was added; those of flagged
\* seasons are wanted.
Refresh ==
  /\ lib.present /\ lib.listed = {}
  /\ LET new == {e \in Episodes : SeasonOf(e) \in lib.flagged} IN
     /\ lib' = [lib EXCEPT !.listed = Episodes, !.wanted = @ \cup new]
     /\ seen' = seen \cup new
  /\ UNCHANGED <<op, failed>>

\* Its answers have caught up with what was put.
Settle == seen # lib.wanted /\ seen' = lib.wanted /\ UNCHANGED <<lib, op, failed>>

Grab(e) ==
  /\ lib.monitored /\ e \in lib.wanted \ (lib.files \cup lib.queue)
  /\ Midway(e) => "midway" \in Races
  /\ lib' = [lib EXCEPT !.queue = @ \cup {e}]
  /\ UNCHANGED <<seen, op, failed>>

Import(e) ==
  /\ e \in lib.queue /\ e \in lib.listed
  /\ Midway(e) => "midway" \in Races
  /\ lib' = [lib EXCEPT !.queue = @ \ {e}, !.files = @ \cup {e}]
  /\ UNCHANGED <<seen, op, failed>>

Sonarr == Refresh \/ Settle \/ \E e \in Episodes : Grab(e) \/ Import(e)

Step(o) == \E r \in {"ok", "refused", "lost"} :
  \/ Find(o, r) \/ List(o, r)
  \/ Lookup(o, r) \/ Add(o, r) \/ Flag(o, r) \/ Monitor(o, r) \/ MonitorOthers(o, r)
  \/ Search(o, r)
  \/ ReadQueue(o, r) \/ Unmonitor(o, r) \/ Unflag(o, r) \/ Recheck(o, r) \/ Drop(o, r)
  \/ \E e \in Episodes : RemoveItem(o, e, r) \/ DeleteFile(o, e, r)
  \/ \E n \in Seasons : Poll(o, n, r)

Next == Sonarr \/ \E o \in Ops : Step(o) \/ \E req \in Requests : Ask(o, req)

Spec == Init /\ [][Next]_vars

-----------------------------------------------------------------------------
Pcs == {"idle", "find", "lookup", "add", "flag", "list", "monitor", "others", "search",
        "queue", "remove", "unlink", "unflag", "unflag_empty", "recheck", "poll",
        "drop", "done"}

\* The variables have their types; Sonarr lists what it wants and has files of.
TypeOK ==
  /\ lib.present \in BOOLEAN /\ lib.monitored \in BOOLEAN /\ lib.flagged \subseteq Seasons
  /\ lib.listed \subseteq Episodes /\ lib.queue \subseteq Episodes
  /\ lib.wanted \cup lib.files \subseteq lib.listed
  /\ ~lib.present => lib.listed \cup lib.flagged = {}
  /\ seen \subseteq Episodes /\ failed \in 0..MaxFailures
  /\ \A o \in Ops : op[o].pc \in Pcs /\ op[o].tries \in 0..3 /\ op[o].undone \subseteq Episodes

\* What a successful report means, but for the episodes in "but".
DownloadHolds(f, but) ==
  /\ lib.present
  /\ f.req.sel = <<>> => lib.monitored /\ lib.listed \ InSeason(0) \subseteq lib.wanted \cup but
  /\ Selected(f.req.sel) \cap lib.listed \subseteq lib.wanted
  /\ \A i \in DOMAIN f.req.sel :
       lib.wanted \cap InSeason(f.req.sel[i].season) \subseteq Selected(f.req.sel)
DeletionHolds(f, but) ==
  LET gone == IF f.req.sel = <<>> THEN Episodes ELSE Selected(f.req.sel) IN
  /\ f.deleted \/ f.req.sel = <<>> => ~lib.present
  /\ lib.wanted \cap gone = {}
  /\ gone \cap (lib.files \cup lib.queue) \subseteq but
Holds(f, but) ==
  IF f.req.kind = "download" THEN DownloadHolds(f, but) ELSE DeletionHolds(f, but)

Reports(o) == op'[o].pc = "done" /\ op[o].pc # "done" /\ op'[o].success

\* When an operation reports success, the selected episodes are wanted and the
\* others of their seasons are not, or the deleted ones are not wanted, and the
\* series is gone if that is reported, whatever calls failed. A failed call about
\* a download, a file or, where all seasons were asked for, a season is only
\* logged: it leaves behind what it was about, and nothing else.
FailuresStayLocal == \A o \in Ops : Reports(o) => Holds(op[o], op[o].undone)'

-----------------------------------------------------------------------------
\* Statements the code does not keep.

\* A success, as reported to the user, is complete: no file and no download of
\* what was deleted is left, and all seasons are wanted. The report does not tell
\* of the calls that failed; its field for warnings is never set.
SuccessIsComplete == \A o \in Ops : Reports(o) => Holds(op[o], {})'

\* "Checks if season should be unmonitored": a season all of whose episodes were
\* deleted loses its flag, so that later episodes are not downloaded. Its single
\* read comes right after the PUT; Sonarr may still answer with the old state.
EmptySeasonIsUnflagged ==
  \A o \in Ops : Reports(o) /\ op[o].req.kind = "delete" /\ failed' = 0 =>
       \A n \in lib'.flagged :
         n \in {op[o].req.sel[i].season : i \in DOMAIN op[o].req.sel} =>
           lib'.wanted \cap InSeason(n) # {}

\* A report of failure says whether the series was added.
AdditionIsReported ==
  \A o \in Ops : op'[o].pc = "done" /\ op[o].added /\ lib'.present => op'[o].added

\* The specials are not monitored with the whole series.
SpecialsAreLeftOut == 0 \in lib'.flagged => 0 \in lib.flagged
=============================================================================
