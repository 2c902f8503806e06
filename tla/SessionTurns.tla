---------------------------- MODULE SessionTurns ----------------------------
(***************************************************************************)
(* SessionManager with its turns seen as users of the shared workspace.    *)
(***************************************************************************)
EXTENDS SessionManager

\* Turns of live sessions whose acquire() has not returned yet: granted ones
\* whose continuation is due, and the parked ones.
WaitingTurns ==
    LET granted == {e.turn : e \in {e \in ToSet(git.lock.settled) : e.granted}}
        parked  == {w.turn : w \in ToSet(git.lock.queue)}
    IN  {t \in granted \cup parked : InLiveSession(t)}

Exclusion == INSTANCE TurnExclusion WITH
    writers <- {t \in TurnId : Writing(t)},
    waiting <- WaitingTurns,
    asked   <- Len(turns),
    closing <- shutdown

\* Through every creation, Stop, /clear, eviction and death the turns of all
\* channels share the workspace as TurnExclusion says, until onModuleDestroy.
TurnsExclude == Exclusion!Spec

=============================================================================
