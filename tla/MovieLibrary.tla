---------------------------- MODULE MovieLibrary ----------------------------
(***************************************************************************)
(* What tdr-bot does to one movie in Radarr: monitorAndDownloadMovie() and *)
(* unmonitorAndDeleteMovie() (media/services/radarr.service.ts), called    *)
(* with the options the request handlers pass: to monitor the movie, and   *)
(* to delete its files.                                                    *)
(*                                                                         *)
(* Radarr is external: lib is its state, and it grabs and imports on its   *)
(* own. An action is one call to Radarr with the code that follows it up   *)
(* to the next call; calls fail as in SeriesLibrary.                       *)
(***************************************************************************)
EXTENDS Naturals, FiniteSets

CONSTANTS
  Ops,          \* bound: the operations ever asked for
  Items,        \* queue items there can be for the movie
  Libraries,    \* the states of Radarr at the start
  Races,        \* subset of {"overlap", "midway"}
  Faults,       \* ways a call can fail: "refused", "lost"
  MaxFailures   \* bound: calls that fail

\* overlap  two operations on the movie at once
\* midway   Radarr grabs or imports the movie while it is being deleted
MovieAssumption ==
  /\ Races \subseteq {"overlap", "midway"} /\ Faults \subseteq {"refused", "lost"}
  /\ MaxFailures \in Nat

VARIABLES
  lib,     \* Radarr: the movie is present, monitored, has a file; its queue items
  op,      \* the operations' frames
  failed   \* the number of failed calls

vars == <<lib, op, failed>>

\* hadFile: currentMovie.hasFile; left: the queue items whose removal has not
\* settled; warned: a warning says that something was left undone.
NoFrame ==
  [pc |-> "idle", kind |-> "download", hadFile |-> FALSE, left |-> {},
   warned |-> FALSE, added |-> FALSE, searched |-> FALSE, filesDeleted |-> FALSE,
   success |-> FALSE]

Init ==
  /\ lib \in Libraries
  /\ op = [o \in Ops |-> NoFrame]
  /\ failed = 0

Idle(o) == op[o].pc \in {"idle", "done"}
Midway == \E o \in Ops : op[o].kind = "delete" /\ op[o].pc \in {"queue", "remove", "drop"}

Call(r) ==
  /\ r \in {"ok"} \cup Faults
  /\ r # "ok" => failed < MaxFailures
  /\ failed' = IF r = "ok" THEN failed ELSE failed + 1

Go(o, f) == op' = [op EXCEPT ![o] = f]
At(f, pc) == [f EXCEPT !.pc = pc]
Done(f, success) == [f EXCEPT !.pc = "done", !.success = success]

Ask(o, kind) ==
  /\ op[o].pc = "idle"
  /\ "overlap" \in Races \/ \A p \in Ops : Idle(p)
  /\ Go(o, [NoFrame EXCEPT !.pc = "find", !.kind = kind])
  /\ UNCHANGED <<lib, failed>>

\* isMovieInLibrary(), or getLibraryMovies(). A movie that is there but not
\* monitored is added like one that is not.
Find(o, r) ==
  LET f == op[o] IN
  /\ f.pc = "find"
  /\ Call(r)
  /\ Go(o, IF r # "ok" THEN Done(f, FALSE)
           ELSE IF f.kind = "delete" THEN IF lib.present THEN At(f, "get") ELSE Done(f, FALSE)
           ELSE IF lib.present /\ lib.monitored THEN At(f, "search")
           ELSE At(f, "lookup"))
  /\ UNCHANGED lib

-----------------------------------------------------------------------------
\* monitorAndDownloadMovie().

\* The lookup at TMDB and getMovieConfiguration().
Lookup(o, r) ==
  /\ op[o].pc = "lookup"
  /\ Call(r)
  /\ Go(o, IF r = "ok" THEN At(op[o], "add") ELSE Done(op[o], FALSE))
  /\ UNCHANGED lib

\* The POST. Radarr refuses a movie it has.
Add(o, r) ==
  LET taken == r # "refused" /\ ~lib.present IN
  /\ op[o].pc = "add"
  /\ Call(r)
  /\ lib' = IF taken THEN [lib EXCEPT !.present = TRUE, !.monitored = TRUE, !.file = FALSE]
            ELSE lib
  /\ Go(o, IF taken /\ r = "ok" THEN [op[o] EXCEPT !.pc = "search", !.added = TRUE]
           ELSE Done(op[o], FALSE))

\* triggerMovieSearch(): its failure fails the request for a movie that was
\* there, and is a warning for one that was added.
Search(o, r) ==
  LET f == op[o] IN
  /\ f.pc = "search"
  /\ Call(r)
  /\ Go(o, IF r = "ok" /\ lib.present THEN Done([f EXCEPT !.searched = TRUE], TRUE)
           ELSE Done([f EXCEPT !.warned = TRUE], f.added))
  /\ UNCHANGED lib

-----------------------------------------------------------------------------
\* unmonitorAndDeleteMovie().

\* getApiV3MovieById().
Get(o, r) ==
  LET f == op[o] IN
  /\ f.pc = "get"
  /\ Call(r)
  /\ Go(o, IF r = "ok" /\ lib.present
             THEN [f EXCEPT !.pc = "queue", !.hadFile = lib.file]
             ELSE Done(f, FALSE))
  /\ UNCHANGED lib

\* cancelMovieDownloads(): the queue, then all removals at once. Failures are
\* warnings.
ReadQueue(o, r) ==
  LET f == op[o] IN
  /\ f.pc = "queue"
  /\ Call(r)
  /\ Go(o, IF r # "ok" THEN [f EXCEPT !.pc = "drop", !.warned = TRUE]
           ELSE [f EXCEPT !.pc = "remove", !.left = lib.queue])
  /\ UNCHANGED lib

RemoveItem(o, i, r) ==
  LET f == op[o] IN
  /\ f.pc = "remove" /\ i \in f.left
  /\ Call(r)
  /\ lib' = IF r = "refused" THEN lib ELSE [lib EXCEPT !.queue = @ \ {i}]
  /\ Go(o, [f EXCEPT !.left = @ \ {i}, !.warned = @ \/ r # "ok" \/ i \notin lib.queue])

\* deleteApiV3MovieById(), with the files.
Drop(o, r) ==
  LET f == op[o]
      ok == r = "ok" /\ lib.present
  IN
  /\ f.pc = "drop" \/ (f.pc = "remove" /\ f.left = {})
  /\ Call(r)
  /\ lib' = IF r = "refused" THEN lib
            ELSE [lib EXCEPT !.present = FALSE, !.monitored = FALSE, !.file = FALSE]
  /\ Go(o, Done([f EXCEPT !.filesDeleted = ok /\ f.hadFile], ok))

-----------------------------------------------------------------------------
\* Radarr.

Grab(i) ==
  /\ lib.present /\ lib.monitored /\ ~lib.file /\ i \notin lib.queue
  /\ Midway => "midway" \in Races
  /\ lib' = [lib EXCEPT !.queue = @ \cup {i}]
  /\ UNCHANGED <<op, failed>>

Import(i) ==
  /\ lib.present /\ i \in lib.queue
  /\ Midway => "midway" \in Races
  /\ lib' = [lib EXCEPT !.queue = @ \ {i}, !.file = TRUE]
  /\ UNCHANGED <<op, failed>>

Step(o) == \E r \in {"ok", "refused", "lost"} :
  \/ Find(o, r) \/ Lookup(o, r) \/ Add(o, r) \/ Search(o, r)
  \/ Get(o, r) \/ ReadQueue(o, r) \/ Drop(o, r)
  \/ \E i \in Items : RemoveItem(o, i, r)

Next ==
  \/ \E i \in Items : Grab(i) \/ Import(i)
  \/ \E o \in Ops : Step(o) \/ \E kind \in {"download", "delete"} : Ask(o, kind)

Spec == Init /\ [][Next]_vars

-----------------------------------------------------------------------------
\* The variables have their types.
TypeOK ==
  /\ lib \in [present : BOOLEAN, monitored : BOOLEAN, file : BOOLEAN, queue : SUBSET Items]
  /\ lib.monitored \/ lib.file => lib.present
  /\ failed \in 0..MaxFailures
  /\ \A o \in Ops : op[o].left \subseteq Items

\* What a report means: a download that succeeded left the movie monitored and
\* searched for, unless a warning says otherwise; a deletion left no movie and no
\* download, and says whether it took a file with it.
ReportHolds(f, before) ==
  f.success =>
    IF f.kind = "download" THEN lib'.monitored /\ (f.searched \/ f.warned)
    ELSE /\ ~lib'.present
         /\ lib'.queue = {} \/ f.warned
         /\ f.filesDeleted = before.file

\* When an operation reports success, Radarr is in the state that was asked for.
SuccessIsTrue ==
  \A o \in Ops : op'[o].pc = "done" /\ op[o].pc # "done" => ReportHolds(op'[o], lib)

-----------------------------------------------------------------------------
\* Statements the code does not keep.

\* A movie in the library that is not monitored can be asked for (the tests expect
\* success, with the warning that it is not monitored): Radarr refuses to add it.
UnmonitoredIsAdded ==
  \A o \in Ops : op'[o].pc = "done" /\ op[o].pc = "add" /\ failed' = failed =>
       op'[o].success

\* A download that reports a failure did not add the movie: the answer of the POST
\* may be lost, and the retries are refused because the movie is there.
FailureAddsNothing ==
  \A o \in Ops : op'[o].pc = "done" /\ op[o].pc # "done" /\ ~op'[o].success
                    /\ op[o].kind = "download" => lib' = lib
=============================================================================
