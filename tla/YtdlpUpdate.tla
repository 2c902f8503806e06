----------------------------- MODULE YtdlpUpdate -----------------------------
(***************************************************************************)
(* The download service's updater of its yt-dlp binary                     *)
(* (apps/download/src/ytdlp-update): checks started by a cron job, a       *)
(* request or a retry timer, the steps of an update over three files, its  *)
(* rollback, and the downloads that run the binary meanwhile.              *)
(*                                                                         *)
(* An action is the code between two awaits of one check. A file holds the *)
(* number of a release, Broken while it is being written, or nothing.      *)
(***************************************************************************)
EXTENDS Naturals, UpdateFlag

CONSTANTS
  MaxStarts,    \* bound: checks started by cron or requests
  MaxRelease,   \* bound: releases published
  MaxRetries,   \* YTDLP_UPDATE_MAX_RETRIES
  Faults        \* which of the events below may happen

UpdaterAssumption ==
  /\ MaxStarts \in Nat /\ MaxRetries \in Nat
  /\ MaxRelease \in Nat \ {0}

\* step_fails      a request, a spawn or a move of an update fails
\* stream_breaks   the body of the download breaks off
\* copy_fails      the copy of the binary fails half-way
\* rollback_fails  the move of a rollback fails
\* leftovers       the final clean-up fails
\* overlap         a check starts while another one awaits its answers
\* late_download   a download starts while an update is under way
AllFaults == {"step_fails", "stream_breaks", "copy_fails", "rollback_fails", "leftovers",
              "overlap", "late_download"}

Nothing == 0
Broken  == MaxRelease + 1
Versions == 1..MaxRelease

VARIABLES
  latest,      \* the latest release on GitHub
  binary,      \* /usr/bin/yt-dlp
  temp,        \* the downloaded file
  backup,      \* the copy of the replaced binary
  retryCount,  \* updateRetryCount
  timers,      \* retry timers set
  starts,      \* checks started by cron or requests
  downloads,   \* whether a video job is in progress
  failures     \* history: whether a rollback or a clean-up has failed

vars == <<latest, binary, temp, backup, check, isUpdating, retryCount, timers,
          starts, downloads, failures>>
files == <<binary, temp, backup>>

Idle == [at |-> "idle", dry |-> FALSE, seen |-> Nothing]

Works(f) == f \in Versions

Init ==
  /\ latest = 1
  /\ binary = 1 /\ temp = Nothing /\ backup = Nothing
  /\ check = [k \in Checks |-> Idle]
  /\ isUpdating = FALSE
  /\ retryCount = 0 /\ timers = 0 /\ starts = 0
  /\ downloads = FALSE
  /\ failures = {}

At(k, step) == check' = [check EXCEPT ![k].at = step]
Ends(k) == check' = [check EXCEPT ![k] = Idle]

-----------------------------------------------------------------------------
\* The environment: releases, and video jobs that begin and end.
Publish ==
  /\ latest < MaxRelease
  /\ latest' = latest + 1
  /\ UNCHANGED <<files, check, isUpdating, retryCount, timers, starts, downloads, failures>>

DownloadBegins ==
  /\ ~downloads
  /\ "late_download" \in Faults \/ \A k \in Checks : ~Performing(k)
  /\ downloads' = TRUE
  /\ UNCHANGED <<latest, files, check, isUpdating, retryCount, timers, starts, failures>>

DownloadEnds ==
  /\ downloads
  /\ downloads' = FALSE
  /\ UNCHANGED <<latest, files, check, isUpdating, retryCount, timers, starts, failures>>

-----------------------------------------------------------------------------
(***************************************************************************)
(* checkForUpdates().                                                      *)
(***************************************************************************)
MayCheck == ~isUpdating

Begins(k, dry) ==
  /\ check[k].at = "idle"
  /\ MayCheck
  /\ "overlap" \in Faults \/ \A l \in Checks : check[l].at \in {"idle"} \cup Steps
  /\ check' = [check EXCEPT ![k] = [at |-> "version", dry |-> dry, seen |-> Nothing]]

\* The cron job, POST /check, and POST /check?dryRun=true, which calls the same
\* method and edits its result.
Start(k, dry) ==
  /\ starts < MaxStarts
  /\ starts' = starts + 1
  /\ Begins(k, dry)
  /\ UNCHANGED <<latest, files, isUpdating, retryCount, timers, downloads, failures>>

\* A retry timer fires; with an update under way it does nothing.
RetryFires(k) ==
  /\ timers > 0
  /\ timers' = timers - 1
  /\ IF isUpdating THEN UNCHANGED check ELSE Begins(k, FALSE)
  /\ UNCHANGED <<latest, files, isUpdating, retryCount, starts, downloads, failures>>

\* The answer of yt-dlp --version; an error ends the check.
VersionRead(k) ==
  /\ check[k].at = "version"
  /\ \/ /\ Works(binary)
        /\ check' = [check EXCEPT ![k].at = "release", ![k].seen = binary]
     \/ /\ ~Works(binary) \/ "step_fails" \in Faults
        /\ Ends(k)
  /\ UNCHANGED <<latest, files, isUpdating, retryCount, timers, starts, downloads, failures>>

ScheduleRetry ==
  IF retryCount >= MaxRetries
  THEN retryCount' = 0 /\ UNCHANGED timers
  ELSE retryCount' = retryCount + 1 /\ timers' = timers + 1

CanPerformUpdate == ~downloads

\* The answer of GitHub, and what follows up to performUpdate()'s first await.
ReleaseRead(k) ==
  /\ check[k].at = "release"
  /\ \/ /\ latest > check[k].seen /\ CanPerformUpdate
        /\ isUpdating' = TRUE
        /\ At(k, "getCurrentVersion")
        /\ UNCHANGED <<retryCount, timers>>
     \/ /\ latest > check[k].seen /\ ~CanPerformUpdate
        /\ ScheduleRetry
        /\ Ends(k)
        /\ UNCHANGED isUpdating
     \/ /\ latest <= check[k].seen \/ "step_fails" \in Faults
        /\ Ends(k)
        /\ UNCHANGED <<isUpdating, retryCount, timers>>
  /\ UNCHANGED <<latest, files, starts, downloads, failures>>

-----------------------------------------------------------------------------
(***************************************************************************)
(* performUpdate(): each step either goes on or is caught, and then the    *)
(* rollback follows.                                                       *)
(***************************************************************************)
StepMayFail == "step_fails" \in Faults

GetCurrentVersion(k) ==
  /\ check[k].at = "getCurrentVersion"
  /\ \/ /\ Works(binary)
        /\ check' = [check EXCEPT ![k].at = "downloadNewBinary", ![k].seen = binary]
     \/ /\ ~Works(binary) \/ StepMayFail
        /\ check' = [check EXCEPT ![k].at = "rollback", ![k].seen = binary]
  /\ UNCHANGED files

\* The answer has come; the file is opened and written ...
OpenTemp(k) ==
  /\ check[k].at = "downloadNewBinary"
  /\ \/ temp' = Broken /\ At(k, "writing")
     \/ StepMayFail /\ UNCHANGED temp /\ At(k, "rollback")
  /\ UNCHANGED <<binary, backup>>

\* ... to its end, or not. Only the file is listened to: a body that breaks off
\* neither finishes the file nor fails it, and the update waits for ever.
DownloadNewBinary(k) ==
  /\ check[k].at = "writing"
  /\ \/ temp' = latest /\ At(k, "verifyNewBinary")
     \/ StepMayFail /\ UNCHANGED temp /\ At(k, "rollback")
     \/ "stream_breaks" \in Faults /\ UNCHANGED temp /\ At(k, "hung")
  /\ UNCHANGED <<binary, backup>>

\* The downloaded file runs; the copy of the current one begins.
VerifyNewBinary(k) ==
  /\ check[k].at = "verifyNewBinary"
  /\ \/ Works(temp) /\ backup' = Broken /\ At(k, "backupCurrentBinary")
     \/ (~Works(temp) \/ StepMayFail) /\ UNCHANGED backup /\ At(k, "rollback")
  /\ UNCHANGED <<binary, temp>>

\* Mutant of BackupCurrentBinary: what is kept is the new file.
BackupTheNewBinary(k) ==
  /\ check[k].at = "backupCurrentBinary"
  /\ backup' = temp
  /\ At(k, "installNewBinary")
  /\ UNCHANGED <<binary, temp>>

BackupCurrentBinary(k) ==
  /\ check[k].at = "backupCurrentBinary"
  /\ \/ binary # Nothing /\ backup' = binary /\ At(k, "installNewBinary")
     \/ (binary = Nothing \/ "copy_fails" \in Faults) /\ UNCHANGED backup /\ At(k, "rollback")
  /\ UNCHANGED <<binary, temp>>

\* move() with overwrite removes the old file ...
RemoveOld(k) ==
  /\ check[k].at = "installNewBinary"
  /\ \/ binary' = Nothing /\ At(k, "moving")
     \/ StepMayFail /\ UNCHANGED binary /\ At(k, "rollback")
  /\ UNCHANGED <<temp, backup>>

\* What a move that fails behind the removal may leave at its destination: it
\* renames, or copies and then removes the source.
HalfMoved(source) == {Nothing, Broken, source}

\* ... and puts the new one there.
InstallNewBinary(k) ==
  /\ check[k].at = "moving"
  /\ \/ /\ temp # Nothing
        /\ binary' = temp /\ temp' = Nothing
        /\ At(k, "testNewBinary")
     \/ /\ temp = Nothing \/ StepMayFail
        /\ binary' \in HalfMoved(temp)
        /\ At(k, "rollback")
        /\ UNCHANGED temp
  /\ UNCHANGED backup

TestNewBinary(k) ==
  /\ check[k].at = "testNewBinary"
  /\ \/ Works(binary) /\ At(k, "cleanup")
     \/ (~Works(binary) \/ StepMayFail) /\ At(k, "rollback")
  /\ UNCHANGED files

\* A failure of either removal is logged.
Cleanup(k) ==
  /\ check[k].at = "cleanup"
  /\ \/ temp' = Nothing /\ backup' = Nothing /\ UNCHANGED failures
     \/ /\ "leftovers" \in Faults
        /\ temp' \in {temp, Nothing} /\ backup' \in {backup, Nothing}
        /\ failures' = failures \cup {"cleanup"}
  /\ Ends(k)
  /\ UNCHANGED binary

RollbackFails(k) ==
  /\ "rollback_fails" \in Faults
  /\ failures' = failures \cup {"rollback"}
  /\ Ends(k)
  /\ UNCHANGED <<temp, backup>>

\* Whatever file is at the backup's path is moved over the binary: that is
\* removed ...
RemoveFailed(k) ==
  /\ check[k].at = "rollback" /\ backup # Nothing
  /\ binary' = Nothing
  /\ At(k, "restoring")
  /\ UNCHANGED <<temp, backup>>

\* ... and the backup takes its place, or the failure is logged: "Rollback failed
\* - manual intervention may be required".
Rollback(k) ==
  \/ /\ check[k].at = "rollback"
     /\ \/ backup = Nothing /\ Ends(k) /\ UNCHANGED <<files, failures>>
        \/ backup # Nothing /\ RollbackFails(k) /\ UNCHANGED binary
  \/ /\ check[k].at = "restoring"
     /\ \/ /\ binary' = backup /\ backup' = Nothing
           /\ Ends(k)
           /\ UNCHANGED <<temp, failures>>
        \/ RollbackFails(k) /\ binary' \in HalfMoved(backup)

\* Mutant of Released: an update that was rolled back does not release the flag.
ReleasedOnSuccess(k) == IF check[k].at = "cleanup" THEN FALSE ELSE isUpdating

\* The finally block.
Released(k) == FALSE

Step(k) == \/ GetCurrentVersion(k) \/ OpenTemp(k) \/ DownloadNewBinary(k)
             \/ VerifyNewBinary(k) \/ BackupCurrentBinary(k) \/ RemoveOld(k)
             \/ InstallNewBinary(k) \/ TestNewBinary(k) \/ RemoveFailed(k)

PerformUpdate(k) ==
  /\ \/ /\ Step(k)
        /\ UNCHANGED <<isUpdating, retryCount, failures>>
     \/ /\ Cleanup(k)
        /\ retryCount' = 0
        /\ isUpdating' = Released(k)
     \/ /\ Rollback(k)
        /\ isUpdating' = Released(k)
        /\ UNCHANGED retryCount
  /\ UNCHANGED <<latest, timers, starts, downloads>>

-----------------------------------------------------------------------------
CheckSteps(k) == VersionRead(k) \/ ReleaseRead(k) \/ PerformUpdate(k)

Next ==
  \/ Publish \/ DownloadBegins \/ DownloadEnds
  \/ \E k \in Checks : \/ \E dry \in BOOLEAN : Start(k, dry)
                       \/ RetryFires(k)
                       \/ CheckSteps(k)

Spec == Init /\ [][Next]_vars

\* Requests and spawned processes end, and timers fire.
FairSpec ==
  /\ Spec
  /\ WF_vars(\E k \in Checks : RetryFires(k))
  /\ \A k \in Checks : WF_vars(CheckSteps(k))

-----------------------------------------------------------------------------
TypeOK ==
  /\ latest \in Versions
  /\ {binary, temp, backup} \subseteq {Nothing, Broken} \cup Versions
  /\ check \in [Checks -> [at : {"idle", "version", "release"} \cup Steps,
                           dry : BOOLEAN, seen : {Nothing, Broken} \cup Versions]]
  /\ isUpdating \in BOOLEAN
  /\ retryCount \in 0..MaxRetries
  /\ timers \in Nat
  /\ starts \in 0..MaxStarts
  /\ downloads \in BOOLEAN
  /\ failures \subseteq {"rollback", "cleanup"}

AtRest == \A k \in Checks : ~Performing(k)

\* Between updates there is a yt-dlp that runs, whatever step failed; if that
\* was the rollback, the backup is still there and runs.
BinaryWorksAtRest == AtRest => Works(binary) \/ ("rollback" \in failures /\ Works(backup))

\* A rollback leaves the version the update began with, as long as no rollback
\* and no clean-up has failed.
RollbackRestores ==
  \A k \in Checks :
    check[k].at \in {"rollback", "restoring"} /\ check'[k].at = "idle" /\ failures' = {}
      => binary' = check[k].seen

\* While downloads go on, the binary they spawn is not touched: "safe to proceed".
InstalledWithoutDownloads == downloads => binary # Nothing

\* A dry run "simulate[s] the check without performing actual update".
DryRunChangesNothing == \A k \in Checks : check[k].dry => ~Performing(k)

\* Nothing has to be repaired by hand.
BinaryRunsAtRest == AtRest => Works(binary)

\* An update ends, whatever GitHub's answer does.
UpdatesEnd == \A k \in Checks : Performing(k) ~> ~Performing(k)

\* A chain of retries ends: with no more requests, the timers run out, and every
\* check is over but one whose download has broken off.
RetriesEnd == <>[](timers = 0 /\ \A k \in Checks : check[k].at \in {"idle", "hung"})
=============================================================================
