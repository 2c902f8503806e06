------------------------------ MODULE MCViews ------------------------------
(***************************************************************************)
(* What the console of tdr-code shows, checked in one run: a behaviour is  *)
(* one of these parts, chosen at the start, while the other variables keep *)
(* their initial state.                                                    *)
(*                                                                         *)
(*   pages    the console's pages                                          *)
(*   polled   a tail of a log file whose path is polled                    *)
(*   watched  a tail of a log file that is watched, and never rotated      *)
(***************************************************************************)
EXTENDS LiveUpdates

VARIABLES
  part,
  files, path, tail, work, out

Polled == INSTANCE LogTail WITH
  Checks <- {"k"}, Poll <- TRUE, Races <- {}, MaxFiles <- 2, MaxSize <- 3, MaxEras <- 1,
  conn <- tail

Watched == INSTANCE LogTail WITH
  Checks <- {"k"}, Poll <- FALSE, Races <- {}, MaxFiles <- 1, MaxSize <- 3, MaxEras <- 1,
  conn <- tail

ASSUME PartsAssumption == Polled!LogTailAssumption /\ Watched!LogTailAssumption

tailVars == <<files, path, tail, work, out>>

MCInit ==
  /\ part \in {"pages", "polled", "watched"}
  /\ Init /\ Polled!Init
  /\ part = "pages" => path = 1

MCNext ==
  /\ UNCHANGED part
  /\ \/ part = "pages" /\ Next /\ UNCHANGED tailVars
     \/ part = "polled" /\ Polled!Next /\ UNCHANGED vars
     \/ part = "watched" /\ Watched!Next /\ UNCHANGED vars

\* The fairness of LiveUpdates!FairSpec and LogTail!FairSpec, for the part that runs.
MCSpec ==
  /\ MCInit /\ [][MCNext]_<<part, vars, tailVars>>
  /\ \A t \in Topics :
       /\ WF_vars(part = "pages" /\ Send(t)) /\ WF_vars(part = "pages" /\ Publish(t))
       /\ WF_vars(part = "pages" /\ WindowEnds(t))
  /\ WF_vars(part = "pages" /\ StalenessTick) /\ WF_vars(part = "pages" /\ FallbackTick)
  /\ \A p \in Pages :
       /\ WF_vars(part = "pages" /\ Subscribe(p)) /\ WF_vars(part = "pages" /\ Listen(p))
       /\ WF_vars(part = "pages" /\ Open(p)) /\ WF_vars(part = "pages" /\ Signal(p))
       /\ WF_vars(part = "pages" /\ Flush(p)) /\ WF_vars(part = "pages" /\ Answer(p))
       /\ WF_vars(part = "pages" /\ Show(p))
  /\ \A p \in Polled!Procs :
       /\ WF_tailVars(part = "polled" /\ Polled!Steps(p))
       /\ WF_tailVars(part = "watched" /\ Watched!Steps(p))
  /\ WF_tailVars(part = "polled" /\ Polled!Fires("k"))
  /\ WF_tailVars(part = "watched" /\ Watched!Fires("k"))

-----------------------------------------------------------------------------
\* PagesCatchUp and TailCatchesUp of the part that runs: once nothing more is
\* written, the pages show what the database holds, and a tail has read the whole
\* file, whether it is polled or watched.
ViewsCatchUp ==
  <>[](IF part = "pages" THEN Current ELSE Polled!CaughtUp)

\* A tail sends whole lines with their offsets, each once and in order.
LinesAreSent == Polled!TypeOK /\ Polled!EachLineOnceInOrder
=============================================================================
