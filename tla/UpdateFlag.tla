----------------------------- MODULE UpdateFlag -----------------------------
(***************************************************************************)
(* The flag isUpdating of the updater of yt-dlp, and the checks it keeps   *)
(* apart: what YtdlpUpdate, which has their steps, promises of them.       *)
(***************************************************************************)
EXTENDS FiniteSets, Naturals

CONSTANT Checks  \* bound: checks that may be under way at the same time

VARIABLES
  check,       \* each check: where it waits, the versions it works with
  isUpdating

\* The awaits of performUpdate().
Steps == {"getCurrentVersion", "downloadNewBinary", "writing", "hung", "verifyNewBinary",
          "backupCurrentBinary", "installNewBinary", "moving", "testNewBinary",
          "cleanup", "rollback", "restoring"}

Performing(k) == check[k].at \in Steps

-----------------------------------------------------------------------------
\* The flag says that an update is under way, and is released by every path that ends.
FlagIsUpdate == isUpdating <=> \E k \in Checks : Performing(k)

\* One update at a time: "Update already in progress, skipping".
OneUpdate == Cardinality({k \in Checks : Performing(k)}) <= 1

\* The flag and the update it stands for.
UpdateIsExclusive == FlagIsUpdate /\ OneUpdate
=============================================================================
