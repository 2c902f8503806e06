--------------------------- MODULE TurnExclusion ---------------------------
(***************************************************************************)
(* What the git write lock promises to the turns of all channels: one at a *)
(* time has the shared workspace, they get it in the order they asked, and *)
(* one that is stopped or whose session ends gives up its place or the     *)
(* workspace. Turns are numbered in the order they ask. It promises this   *)
(* until the service closes.                                               *)
(***************************************************************************)
EXTENDS Naturals

VARIABLES
  writers,  \* turns that have the workspace
  waiting,  \* turns that have asked for it and wait
  asked,    \* turns that ever asked
  closing   \* the service is being closed

Init == writers = {} /\ waiting = {} /\ asked = 0 /\ ~closing

\* The one that asked first of those that wait gets the workspace.
Enter ==
  /\ writers = {}
  /\ \E t \in waiting :
       /\ \A u \in waiting : t <= u
       /\ writers' = {t} /\ waiting' = waiting \ {t}
  /\ UNCHANGED <<asked, closing>>

\* Any number of turns end or give up; one may ask.
Change ==
  /\ writers' \subseteq writers
  /\ \/ asked' = asked /\ waiting' \subseteq waiting
     \/ /\ asked' = asked + 1
        /\ asked' \in waiting' /\ waiting' \subseteq waiting \cup {asked'}
  /\ UNCHANGED closing

Close == closing'

Next == Enter \/ Change \/ Close

Spec == Init /\ [][Next]_<<writers, waiting, asked, closing>>
=============================================================================
