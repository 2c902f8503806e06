------------------------------- MODULE MCMedia -------------------------------
(***************************************************************************)
(* What users ask of Radarr and Sonarr, through the download service and   *)
(* through tdr-bot, checked in one run: a behaviour is one of these parts, *)
(* chosen at the start, while the other variables keep their initial state.*)
(*                                                                         *)
(*   shared   the download service: two jobs for one movie; one poll at a  *)
(*            time, no deletions                                           *)
(*   both     a movie job and then a show job; nothing is taken out of a   *)
(*            queue, and the downloads of the show do not fail;            *)
(*            otherwise the same                                           *)
(*   jobs     one movie job, which may be deleted, and polls that overlap, *)
(*            with the fairness of FairSpec                                *)
(*   series   tdr-bot: two operations, one after the other, on a series of *)
(*            two seasons and a special, one of whose calls may fail       *)
(*   movies   the same on a movie                                          *)
(*   chat     three messages of one user, whose searches find one title or *)
(*            two                                                          *)
(***************************************************************************)
EXTENDS MediaRequests, JobStatus, WantedEpisodes

VARIABLES
  part,
  known, shot, request, deletion, inLib, item, poll, backoff, wait,  \* MediaJobs
  pollStatus, pollTitle, pollFile, pollTaken,                        \* of Overlap
  seen, failed,                                                      \* SeriesLibrary
  movieLib, movieOp                                                  \* MovieLibrary

Shared == INSTANCE MediaJobs WITH
  Jobs <- {"j1", "j2"}, Movies <- {"m1"}, Shows <- {}, MaxPolls <- 1,
  MaxBackoff <- 2, Deletes <- FALSE, NoTitle <- "none"

Both == INSTANCE MediaJobs WITH
  Jobs <- {"j1", "j2"}, Movies <- {"m1"}, Shows <- {"s1"}, MaxPolls <- 1,
  MaxBackoff <- 1, Deletes <- FALSE, NoTitle <- "none"

Overlap == INSTANCE MediaJobs WITH
  Jobs <- {"j1"}, Movies <- {"m1"}, Shows <- {}, MaxPolls <- 2,
  MaxBackoff <- 1, Deletes <- TRUE, NoTitle <- "none",
  jobStatus <- pollStatus, title <- pollTitle, file <- pollFile, taken <- pollTaken

Calls == {"refused", "lost"}

\* A special, and two seasons of two episodes and one.
Eps == {<<0, 1>>, <<1, 1>>, <<1, 2>>, <<2, 1>>}
Entry(n, numbers) == [season |-> n, numbers |-> numbers]
Selections == {<<>>, <<Entry(1, {})>>, <<Entry(2, {1}), Entry(1, {2})>>}
NoSeries ==
  [present |-> FALSE, monitored |-> FALSE, listed |-> {}, flagged |-> {}, wanted |-> {},
   files |-> {}, queue |-> {}]
HalfDone ==
  [present |-> TRUE, monitored |-> TRUE, listed |-> Eps, flagged |-> {1},
   wanted |-> {<<1, 1>>, <<1, 2>>}, files |-> {<<1, 1>>, <<2, 1>>}, queue |-> {<<1, 2>>}]
Unwanted == [HalfDone EXCEPT !.monitored = FALSE, !.wanted = {}]

Series == INSTANCE SeriesLibrary WITH
  Ops <- 1..2, Requests <- [kind : {"download", "delete"}, sel : Selections],
  Libraries <- {NoSeries, HalfDone, Unwanted}, Races <- {}, Faults <- Calls, MaxFailures <- 1

Releases == {"r1", "r2"}
AnyMovie == {l \in [present : BOOLEAN, monitored : BOOLEAN, file : BOOLEAN, queue : SUBSET Releases] :
               l.monitored \/ l.file \/ l.queue # {} => l.present}

Movies == INSTANCE MovieLibrary WITH
  Ops <- 1..2, Items <- Releases, Libraries <- AnyMovie, Races <- {}, Faults <- Calls,
  MaxFailures <- 1, lib <- movieLib, op <- movieOp

\* A search finds one title or two.
MCLists == {<<"a">>, <<"a", "b">>}

ASSUME PartsAssumption ==
  /\ Shared!MediaAssumption /\ Both!MediaAssumption /\ Overlap!MediaAssumption
  /\ Series!LibraryAssumption /\ Movies!MovieAssumption

jobVars == <<jobStatus, title, known, shot, request, deletion, inLib, item, file, taken,
             poll, backoff, wait, pollStatus, pollTitle, pollFile, pollTaken>>
overlapVars == Overlap!vars
libVars == <<lib, seen, op, failed, movieLib, movieOp>>
mcVars == <<part, jobVars, libVars, vars>>

MCInit ==
  /\ part \in {"shared", "both", "jobs", "series", "movies", "chat"}
  /\ CASE part = "both" -> Both!Init
       [] part = "jobs" -> Overlap!Init
       [] OTHER -> Shared!Init
  /\ IF part = "jobs"
       THEN jobStatus = <<>> /\ title = <<>> /\ file = <<>> /\ taken = {}
       ELSE /\ pollStatus = [j1 |-> "none"] /\ pollTitle = [j1 |-> "m1"]
            /\ pollFile = [m1 |-> FALSE] /\ pollTaken = {}
  /\ IF part = "series" THEN Series!Init ELSE lib = NoSeries /\ seen = {} /\ op = <<>>
  /\ IF part = "movies" THEN Movies!Init ELSE movieLib = NoSeries /\ movieOp = <<>>
  /\ failed = 0
  /\ Init

\* The movie is asked for first, and then the show, whose downloads do not fail;
\* nothing is taken out of a queue.
BothConfined ==
  /\ title'["j1"] # "s1" /\ title'["j2"] # "m1"
  /\ item'["s1"] # "failed" /\ taken' = {}
  /\ jobStatus'["j2"] # "none" => jobStatus'["j1"] # "none" /\ request'["j1"] = "none"

JobsNext ==
  /\ \/ /\ \/ part = "shared" /\ Shared!Next
           \/ part = "both" /\ Both!Next /\ BothConfined
        /\ UNCHANGED <<pollStatus, pollTitle, pollFile, pollTaken>>
     \/ part = "jobs" /\ Overlap!Next /\ UNCHANGED <<jobStatus, title, file, taken>>
  /\ UNCHANGED <<libVars, vars>>

LibraryNext ==
  /\ \/ part = "series" /\ Series!Next /\ UNCHANGED <<movieLib, movieOp>>
     \/ part = "movies" /\ Movies!Next /\ UNCHANGED <<lib, seen, op>>
  /\ UNCHANGED <<jobVars, vars>>

\* Messages differ in nothing but their order.
ChatNext ==
  /\ part = "chat" /\ Next
  /\ \A m \in 2..3 : frame'[m].pc # "idle" => frame'[m - 1].pc # "idle"
  /\ UNCHANGED <<jobVars, libVars>>

MCNext == UNCHANGED part /\ (JobsNext \/ LibraryNext \/ ChatNext)

\* The fairness of Overlap!FairSpec, while that part runs.
InJobs(A) == part = "jobs" /\ A

MCSpec ==
  /\ MCInit /\ [][MCNext]_mcVars
  /\ WF_overlapVars(InJobs(Overlap!Tick))
  /\ \A p \in 1..2 :
       WF_overlapVars(InJobs(Overlap!PollRead(p, {"m1"}) \/ Overlap!PollEnds(p, {"m1"})))
  /\ SF_overlapVars(InJobs(\E p \in 1..2 : Overlap!PollRead(p, {"m1"})))
  /\ SF_overlapVars(InJobs(\E p \in 1..2 : Overlap!PollApplies(p, {"m1"})))

-----------------------------------------------------------------------------
\* The variables have their types, in every situation.
PartsTypeOK ==
  /\ part = "shared" => Shared!TypeOK
  /\ part = "both" => Both!TypeOK
  /\ part = "jobs" => Overlap!TypeOK
  /\ part = "series" => Series!TypeOK
  /\ part = "movies" => Movies!TypeOK
  /\ part = "chat" => TypeOK

\* A job shown downloading or importing while its title is not in the queue is
\* noticed to have ended, whatever was deleted or failed meanwhile.
QueueEndIsNoticed == []PartsTypeOK /\ (part = "jobs" => Overlap!QueueEndIsNoticed)

\* What tdr-bot reports as done was done, though a call failed or its answer was
\* lost on the way: a movie is monitored or gone, episodes are wanted or not, but a
\* download of the movie may be left if a warning says so, and a download or a file
\* of an episode, or a season that is to be monitored, whose own call failed.
DoneButForFailures ==
  [][/\ part = "series" => Series!FailuresStayLocal
     /\ part = "movies" => Movies!SuccessIsTrue]_libVars
=============================================================================
