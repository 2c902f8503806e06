--------------------------- MODULE GitTurnContext ---------------------------
(***************************************************************************)
(* The per-turn git identity of tdr-code's bot process                     *)
(* (src/apps/tdr-code/src/agent/git-turn-context.ts).  The record adds to  *)
(* the lock the map of active turns (only its key matters: the value's     *)
(* release closure is the channel's) and the tmpfs directory in which the  *)
(* git wrapper of a channel's agent finds the identity it commits as.      *)
(***************************************************************************)
EXTENDS GitWriteLock

CONSTANTS
    User,        \* Discord users, by whose identity a turn commits
    NoUser       \* a channel without an identity directory

ASSUME NoUserAssumption == NoUser \notin User

Git(T) == [lock        : Lock(T),
           activeTurns : SUBSET Channel,
           identity    : [Channel -> User \cup {NoUser}]]

SweptGit == [lock        |-> FreeLock,
             activeTurns |-> {},
             identity    |-> [c \in Channel |-> NoUser]]

\* begin(): register the turn and write the triggering user's files.
Begin(git, c, u) ==
    [git EXCEPT !.activeTurns = @ \cup {c}, !.identity[c] = u]

\* begin() throws: before activeTurns.set (master key, database) or after it
\* (the file writes).
BeginThrows(git, c) ==
    {git, [git EXCEPT !.activeTurns = @ \cup {c}, !.identity[c] = NoUser]}

\* end(): a no-op unless the CHANNEL has an active turn; the lock goes first.
End(git, c) ==
    IF c \in git.activeTurns
    THEN [git EXCEPT !.activeTurns = @ \ {c},
                     !.lock        = Release(@, c),
                     !.identity[c] = NoUser]
    ELSE git

\* (mutant of Abort) The identity directory is left behind.
AbortKeepsIdentity(git, c) ==
    [git EXCEPT !.activeTurns = @ \ {c}, !.lock = ReleaseIfHeldBy(@, c)]

\* abort(): the force-kill paths.  Drops the closure unused and releases the
\* lock only if the channel holds it.
Abort(git, c) ==
    [git EXCEPT !.activeTurns = @ \ {c},
                !.lock        = ReleaseIfHeldBy(@, c),
                !.identity[c] = IF c \in git.activeTurns THEN NoUser ELSE @]

\* sweep(): remove every identity directory, at boot and at shutdown.
Sweep(git) == [git EXCEPT !.identity = [c \in Channel |-> NoUser]]

=============================================================================
