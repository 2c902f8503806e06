------------------------- MODULE DownloadScheduler -------------------------
(***************************************************************************)
(* The download service's video jobs (apps/download/src/download): the     *)
(* queue and its limit, the phases a job goes through between awaits, the  *)
(* child process it waits for, and cancellation (download-scheduler.       *)
(* service.ts, download-video.service.ts, download.service.ts,             *)
(* download-state.service.ts).                                             *)
(*                                                                         *)
(* An action is one continuation: the code from one await of               *)
(* maybeProcessNextJob() and the phase it runs to the next, or one request *)
(* handler. Nothing is persisted; a restart of the service forgets all: in *)
(* the model that is the error of a child, which ends the service.         *)
(***************************************************************************)
EXTENDS Naturals, Sequences, FiniteSets, SequencesExt

CONSTANTS
  NumJobs,        \* bound: jobs ever added
  MaxDownloads,   \* MAX_DOWNLOADS
  MaxFiles,       \* bound: video files of one job
  Cancels         \* whether jobs are cancelled

ASSUME SchedulerAssumption ==
  /\ NumJobs \in Nat
  /\ MaxDownloads \in Nat \ {0}
  /\ MaxFiles \in Nat \ {0}
  /\ Cancels \in BOOLEAN

\* Jobs are numbered in the order they are added.
Jobs == 1..NumJobs

VARIABLES
  queue,       \* ids waiting for a slot, the oldest first
  inProgress,  \* ids that hold a slot
  status,      \* DownloadJobStatus, as every client sees it
  phase,       \* where the pipeline of the job waits
  proc,        \* the child process stored in the job: none, running or exited
  waiter,      \* who listens to its close event: pipeline, cancel or nobody
  files        \* video files still to convert

vars == <<queue, inProgress, status, phase, proc, waiter, files>>

Statuses == {"none", "pending", "downloading", "converting", "uploading", "cleaning",
             "completed", "failed", "cancelling", "cancelled"}
\* info          getVideoInfo()              downloading  yt-dlp runs
\* listing       its files are listed        preparing    the render directory is made
\* converting    ffmpeg runs                 between      one file is converted
\* uploading     the put requests            cleaning     the files are removed
Phases == {"none", "queued", "info", "downloading", "listing", "preparing",
           "converting", "between", "uploading", "cleaning", "done"}
Active == Phases \ {"none", "queued", "done"}

Init ==
  /\ queue = <<>>
  /\ inProgress = {}
  /\ status = [j \in Jobs |-> "none"]
  /\ phase = [j \in Jobs |-> "none"]
  /\ proc = [j \in Jobs |-> "none"]
  /\ waiter = [j \in Jobs |-> "none"]
  /\ files = [j \in Jobs |-> 0]

-----------------------------------------------------------------------------
(***************************************************************************)
(* maybeProcessNextJob() on a queue q and the slots held, after the caller *)
(* has set the statuses st and phases ph: it starts at most one job, which *)
(* runs as far as the metadata request of download().                      *)
(***************************************************************************)
MayStart(q, held) == q # <<>> /\ Cardinality(held) < MaxDownloads

MaybeProcessNext(q, held, st, ph) ==
  IF MayStart(q, held)
  THEN LET j == Head(q) IN
       /\ queue' = Tail(q)
       /\ inProgress' = held \cup {j}
       /\ status' = [st EXCEPT ![j] = "downloading"]
       /\ phase' = [ph EXCEPT ![j] = "info"]
  ELSE queue' = q /\ inProgress' = held /\ status' = st /\ phase' = ph

\* createVideoDownloadJob(), once the job's directory exists.
Add(j) ==
  /\ phase[j] = "none"
  /\ \A k \in Jobs : k < j => phase[k] # "none"
  /\ MaybeProcessNext(Append(queue, j), inProgress,
                      [status EXCEPT ![j] = "pending"], [phase EXCEPT ![j] = "queued"])
  /\ UNCHANGED <<proc, waiter, files>>

\* Mutant of Released: a failed job keeps its slot.
KeptOnFailure(j, outcome) == IF outcome = "failed" THEN inProgress ELSE inProgress \ {j}

\* The slots once job j has ended.
Released(j, outcome) == inProgress \ {j}

\* The end of the try block or its catch, and the finally block.
Ends(j, outcome) ==
  /\ MaybeProcessNext(queue, Released(j, outcome),
                      [status EXCEPT ![j] = outcome], [phase EXCEPT ![j] = "done"])

Goes(j, to) ==
  /\ phase' = [phase EXCEPT ![j] = to]
  /\ UNCHANGED <<queue, inProgress>>

\* A phase that rejects ends the job.
Fails(j) == Ends(j, "failed") /\ UNCHANGED <<proc, waiter, files>>

\* Mutant of Spawns: the new process is not stored in the job.
SpawnsUnstored(j) == UNCHANGED proc /\ waiter' = [waiter EXCEPT ![j] = "pipeline"]

\* runProcess() and the store of its process in the job.
Spawns(j) ==
  /\ proc' = [proc EXCEPT ![j] = "running"]
  /\ waiter' = [waiter EXCEPT ![j] = "pipeline"]

-----------------------------------------------------------------------------
(***************************************************************************)
(* The phases. Each step but Spawns may reject instead.                    *)
(***************************************************************************)
\* The metadata came, failed or timed out: the download starts all the same.
Downloads(j) ==
  /\ phase[j] = "info"
  /\ Goes(j, "downloading")
  /\ Spawns(j)
  /\ UNCHANGED <<status, files>>

\* The child closes. If cancel() has taken the close event over, the pipeline
\* is not told.
ProcessCloses(j) ==
  /\ proc[j] = "running"
  /\ proc' = [proc EXCEPT ![j] = "exited"]
  /\ waiter' = [waiter EXCEPT ![j] = "none"]
  /\ UNCHANGED files
  /\ \/ /\ waiter[j] = "pipeline" /\ phase[j] \in {"downloading", "converting"}
        /\ \/ /\ Goes(j, IF phase[j] = "downloading" THEN "listing" ELSE "between")
              /\ UNCHANGED status
           \/ Ends(j, "failed")
     \/ /\ waiter[j] = "cancel"
        /\ status' = [status EXCEPT ![j] = "cancelled"]
        /\ UNCHANGED <<queue, inProgress, phase>>

\* A child that could not be spawned or killed emits error. The listener, which
\* cancel() leaves alone, writes the Error to the log stream, which takes text
\* only and throws: the service ends, and the next one knows none of the jobs.
ProcessErrors(j) ==
  /\ proc[j] = "running"
  /\ queue' = <<>> /\ inProgress' = {}
  /\ status' = [k \in Jobs |-> "none"]
  /\ phase' = [k \in Jobs |-> IF phase[k] = "none" THEN "none" ELSE "done"]
  /\ proc' = [k \in Jobs |-> "none"] /\ waiter' = [k \in Jobs |-> "none"]
  /\ files' = [k \in Jobs |-> 0]

\* download() has found its files; convert() begins.
StartsConverting(j) ==
  /\ phase[j] = "listing"
  /\ \/ \E n \in 1..MaxFiles :
          /\ files' = [files EXCEPT ![j] = n]
          /\ status' = [status EXCEPT ![j] = "converting"]
          /\ Goes(j, "preparing")
          /\ UNCHANGED <<proc, waiter>>
     \/ Fails(j)

MoreFiles(j) == files[j] > 0

ConvertsNext(j) ==
  /\ phase[j] \in {"preparing", "between"}
  /\ \/ /\ MoreFiles(j)
        /\ files' = [files EXCEPT ![j] = @ - 1]
        /\ Goes(j, "converting")
        /\ Spawns(j)
        /\ UNCHANGED status
     \/ Fails(j)

StartsUploading(j) ==
  /\ phase[j] = "between" /\ ~MoreFiles(j)
  /\ status' = [status EXCEPT ![j] = "uploading"]
  /\ Goes(j, "uploading")
  /\ UNCHANGED <<proc, waiter, files>>

StartsCleaning(j) ==
  /\ phase[j] = "uploading"
  /\ \/ /\ status' = [status EXCEPT ![j] = "cleaning"]
        /\ Goes(j, "cleaning")
        /\ UNCHANGED <<proc, waiter, files>>
     \/ Fails(j)

Completes(j) ==
  /\ phase[j] = "cleaning"
  /\ \/ Ends(j, "completed") /\ UNCHANGED <<proc, waiter, files>>
     \/ Fails(j)

-----------------------------------------------------------------------------
\* queue.delete(): an id is in the queue at most once.
Deleted(j) ==
  IF j \in ToSet(queue)
  THEN RemoveAt(queue, CHOOSE i \in DOMAIN queue : queue[i] = j) ELSE queue

\* cancelVideoDownloadJob(): refused without a process. It takes over the close
\* event of the process the job stores, which may have exited long ago, kills
\* it, and deletes the id from the queue.
Cancel(j) ==
  /\ Cancels
  /\ proc[j] # "none"
  /\ waiter' = [waiter EXCEPT ![j] = IF proc[j] = "running" THEN "cancel" ELSE "none"]
  /\ MaybeProcessNext(Deleted(j), inProgress,
                      [status EXCEPT ![j] = "cancelling"], phase)
  /\ UNCHANGED <<proc, files>>

Pipeline(j) == \/ Downloads(j) \/ ProcessCloses(j) \/ ProcessErrors(j)
               \/ StartsConverting(j) \/ ConvertsNext(j) \/ StartsUploading(j)
               \/ StartsCleaning(j) \/ Completes(j)

Next == \E j \in Jobs : Add(j) \/ Cancel(j) \/ Pipeline(j)

Spec == Init /\ [][Next]_vars

\* Requests are answered and processes end: their own timeouts see to it.
FairSpec == Spec /\ \A j \in Jobs : WF_vars(Pipeline(j))

-----------------------------------------------------------------------------
TypeOK ==
  /\ queue \in Seq(Jobs)
  /\ inProgress \subseteq Jobs
  /\ status \in [Jobs -> Statuses]
  /\ phase \in [Jobs -> Phases]
  /\ proc \in [Jobs -> {"none", "running", "exited"}]
  /\ waiter \in [Jobs -> {"none", "pipeline", "cancel"}]
  /\ files \in [Jobs -> 0..MaxFiles]

\* A job holds a slot exactly while its pipeline is between its first and its
\* last await, waits in the queue exactly once before, and no more than the
\* limit run: whatever fails, slots are neither lost nor duplicated.
SlotsAreJobs ==
  /\ inProgress = {j \in Jobs : phase[j] \in Active}
  /\ ToSet(queue) = {j \in Jobs : phase[j] = "queued"}
  /\ IsInjective(queue)
  /\ Cardinality(inProgress) <= MaxDownloads

\* No job waits while a slot is free: each end of a job, each of which looks
\* for one job only, keeps the slots full. (maybeProcessNextJob)
WorkConserving == queue # <<>> => Cardinality(inProgress) = MaxDownloads

\* Slots are neither lost, nor duplicated, nor left free.
SlotsAreKept == SlotsAreJobs /\ WorkConserving

\* Jobs are started in the order they were added.
StartsInOrder ==
  \A i, j \in Jobs : phase[i] = "queued" /\ phase[j] \in Active \cup {"done"} => j < i

\* The pipeline of a job nobody cancelled that waits for a child listens to a
\* child that runs, the one stored in the job: it cannot wait for ever.
PipelineIsWoken ==
  \A j \in Jobs :
    phase[j] \in {"downloading", "converting"} /\ status[j] \notin {"cancelling", "cancelled"}
      => proc[j] = "running" /\ waiter[j] = "pipeline"

\* Every job that was queued gets a slot, in a service that does not end: "Max
\* downloads reached, waiting for slots".
QueuedStarts == \A j \in Jobs : (phase[j] = "queued") ~> (phase[j] \in Active \cup {"done"})

\* A job whose cancellation was accepted does not go on to the next phase.
CancelledGoesNoFurther ==
  [][\A j \in Jobs : status[j] = "cancelling" =>
       status'[j] \in {"cancelling", "cancelled", "failed", "none"}]_vars
=============================================================================
