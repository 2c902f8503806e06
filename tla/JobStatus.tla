----------------------------- MODULE JobStatus -----------------------------
(***************************************************************************)
(* The statuses of the download service's movie and show jobs: what        *)
(* MediaJobs, which has their requests and polls, promises of them.        *)
(***************************************************************************)
EXTENDS Naturals

VARIABLES
  jobStatus,   \* DownloadJobStatus of each job
  title,       \* the movie or show it was requested for
  file,        \* which titles arr has a file of
  taken        \* history: the jobs whose title left arr's queue, or lost its
               \* file, with nothing imported, after they were requested

Terminal == {"cancelled", "completed", "failed"}

-----------------------------------------------------------------------------
\* A job is reported completed only when its title was imported, or when it was
\* taken out of the queue after the job was requested: the poller cannot tell the
\* two apart, but it does not end a job whose title has not left the queue.
CompletedHasLeft ==
  \A j \in DOMAIN jobStatus :
    jobStatus[j] = "completed" => file[title[j]] \/ j \in taken

\* What the poller takes it for: "its disappearance means Radarr/Sonarr finished
\* the import and dropped it from the queue". Not so when the item was removed,
\* or failed, between two polls.
CompletedIsImported ==
  \A j \in DOMAIN jobStatus : jobStatus[j] = "completed" => file[title[j]]

\* The lifecycle is "Requested -> Searching -> Downloading -> Importing ->
\* Completed/Failed": a job that ended stays as it ended, and one that was
\* grabbed is not requested or searched for again.
Rank(st) == CASE st = "none" -> 0 [] st = "requested" -> 1 [] st = "searching" -> 2
              [] st \in {"downloading", "importing"} -> 3 [] OTHER -> 4
StatusAdvances ==
  \A j \in DOMAIN jobStatus :
    /\ Rank(jobStatus'[j]) >= Rank(jobStatus[j])
    /\ jobStatus[j] \in Terminal => jobStatus'[j] = jobStatus[j]

\* A job is reported completed only when its title was imported or taken out of
\* the queue; and, unless jobs are deleted or polls overlap, it stays as it ended,
\* and is not requested or searched for again once it was grabbed.
StatusFollowsQueue == []CompletedHasLeft /\ [][StatusAdvances]_jobStatus
=============================================================================
