----------------------------- MODULE MCDownload -----------------------------
(***************************************************************************)
(* The parts of the download service that share no state, and the breaker  *)
(* of tdr-bot's calls, checked in one run: a behaviour is a behaviour of   *)
(* one of them, chosen at the start, while the others keep their initial   *)
(* state.                                                                  *)
(*                                                                         *)
(*   jobs     the scheduler, with cancellations                            *)
(*   calm     the scheduler when nobody cancels, with its fairness         *)
(*   update   the yt-dlp updater, whose steps, rollbacks and clean-ups may *)
(*            fail                                                         *)
(*   retry    the same, with downloads that start during an update and     *)
(*            answers that break off, and its fairness                     *)
(*   list     the linked list the scheduler's queue is kept in             *)
(*   breaker  two calls at a time to a service that goes down and comes    *)
(*            up, with its fairness                                        *)
(***************************************************************************)
EXTENDS DownloadScheduler, UpdateFlag

VARIABLES
  part,
  latest, binary, temp, backup, retryCount, timers, starts, downloads, failures,
  head, tail, size, node, out,
  breaker, elapsed, up, call

Calm == INSTANCE DownloadScheduler WITH Cancels <- FALSE

Update == INSTANCE YtdlpUpdate WITH
  MaxStarts <- 3, MaxRelease <- 3, MaxRetries <- 2,
  Faults <- {"step_fails", "rollback_fails", "leftovers"}

Retry == INSTANCE YtdlpUpdate WITH
  MaxStarts <- 2, MaxRelease <- 3, MaxRetries <- 2,
  Faults <- {"step_fails", "rollback_fails", "leftovers", "late_download", "stream_breaks"}

List == INSTANCE LinkedQueue WITH
  Values <- {"v1", "v2"}, Nodes <- {"n1", "n2", "n3"}, Nil <- "nil", LastDeletes <- TRUE

Breaker == INSTANCE CircuitBreaker WITH Calls <- 1..2, failureThreshold <- 3

ASSUME PartsAssumption ==
  /\ Update!UpdaterAssumption /\ List!QueueAssumption
  /\ Breaker!BreakerAssumption

updateVars == <<latest, binary, temp, backup, check, isUpdating, retryCount, timers,
                starts, downloads, failures>>
listVars == <<head, tail, size, node, out>>
breakerVars == <<breaker, elapsed, up, call>>
mcVars == <<part, vars, updateVars, listVars, breakerVars>>

MCInit ==
  /\ part \in {"jobs", "calm", "update", "retry", "list", "breaker"}
  /\ Init /\ Update!Init /\ List!Init /\ Breaker!Init

MCNext ==
  /\ UNCHANGED part
  /\ \/ /\ part = "jobs"
        /\ Next
        /\ UNCHANGED <<updateVars, listVars, breakerVars>>
     \/ /\ part = "calm"
        /\ Calm!Next
        /\ UNCHANGED <<updateVars, listVars, breakerVars>>
     \/ /\ part = "update"
        /\ Update!Next
        /\ UNCHANGED <<vars, listVars, breakerVars>>
     \/ /\ part = "retry"
        /\ Retry!Next
        /\ UNCHANGED <<vars, listVars, breakerVars>>
     \/ /\ part = "list"
        /\ List!Next
        /\ UNCHANGED <<vars, updateVars, breakerVars>>
     \/ /\ part = "breaker"
        /\ Breaker!Next
        /\ UNCHANGED <<vars, updateVars, listVars>>

\* The fairness of Calm!FairSpec, Retry!FairSpec and Breaker!FairSpec, for the part that runs.
MCSpec ==
  /\ MCInit /\ [][MCNext]_mcVars
  /\ \A j \in Jobs : WF_vars(part = "calm" /\ Calm!Pipeline(j))
  /\ WF_updateVars(part = "retry" /\ \E k \in Checks : Retry!RetryFires(k))
  /\ \A k \in Checks : WF_updateVars(part = "retry" /\ Retry!CheckSteps(k))
  /\ WF_breakerVars(part = "breaker" /\ Breaker!ResetTimeout)
  /\ WF_breakerVars(part = "breaker" /\ \E c \in 1..2 : Breaker!Start(c))
  /\ \A c \in 1..2 : WF_breakerVars(part = "breaker" /\ Breaker!End(c))

-----------------------------------------------------------------------------
\* The state of the parts the scheduler's own type invariant does not describe.
PartsTypeOK == Update!TypeOK /\ List!TypeOK

\* Jobs start in the order they were added, and no pipeline waits for a child
\* that is gone; so, when no job is cancelled, each that was queued gets a slot.
JobsMoveOn ==
  /\ [](part = "jobs" => StartsInOrder /\ PipelineIsWoken)
  /\ part = "calm" => QueuedStarts

\* A rollback leaves the version the update began with, and between updates
\* there is a yt-dlp that runs, whatever step failed, but for a backup that
\* cannot be moved back and is still there; a chain of retries ends: with no more
\* requests, the timers run out.
FailuresAreUndone ==
  /\ [](part \in {"update", "retry"} => Update!BinaryWorksAtRest)
  /\ [][(part \in {"update", "retry"}) => Update!RollbackRestores]_updateVars
  /\ part = "retry" => Retry!RetriesEnd

\* The state of a breaker is that of its count, and when the service is up for
\* good the breaker is closed for good.
BreakerHeals ==
  /\ [](part = "breaker" => Breaker!TypeOK)
  /\ part = "breaker" => Breaker!BreakerHeals

\* The linked list behaves as a queue of values, and can be walked both ways.
IsAQueue == List!IsAQueue
=============================================================================
