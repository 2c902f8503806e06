---------------------------- MODULE GitWriteLock ----------------------------
(***************************************************************************)
(* The process-global mutex of tdr-code's bot process                      *)
(* (src/apps/tdr-code/src/agent/git-write-lock.ts).  One record stands for *)
(* the object: the channel that holds it, the parked acquire() calls in    *)
(* arrival order, and the promises settled since the last microtask        *)
(* checkpoint, whose continuations the event loop still has to run.        *)
(*                                                                         *)
(* A caller is identified by the turn that called acquire(); the code      *)
(* itself only knows the caller's channel, which is what makes its release *)
(* closure ambiguous between two turns of one channel.                     *)
(***************************************************************************)
EXTENDS Integers, Sequences, SequencesExt

CONSTANTS
    Channel,     \* Discord channels (threads) with an agent session
    NoChannel    \* "null" in holderChannelId

ASSUME NoChannelAssumption == NoChannel \notin Channel

\* The lock when its callers are among T.
Waiter(T)     == [turn : T, channel : Channel]
Settlement(T) == [turn : T, granted : BOOLEAN]

Lock(T) == [holder  : Channel \cup {NoChannel},
            queue   : Seq(Waiter(T)),
            settled : Seq(Settlement(T))]

FreeLock == [holder |-> NoChannel, queue |-> <<>>, settled |-> <<>>]

\* grant(): set the holder and resolve the caller's promise; the caller does
\* not test the lock again when it wakes up.
Grant(lock, w) ==
    [lock EXCEPT !.holder  = w.channel,
                 !.settled = Append(@, [turn |-> w.turn, granted |-> TRUE])]

\* (mutant of GrantNext) queue.pop(): the newest waiter is woken.
GrantNewest(lock) ==
    IF lock.queue = <<>>
    THEN lock
    ELSE Grant([lock EXCEPT !.queue = Front(@)], Last(lock.queue))

\* queue.shift() followed by next.grant(), the tail of both releases.
GrantNext(lock) ==
    IF lock.queue = <<>>
    THEN lock
    ELSE Grant([lock EXCEPT !.queue = Tail(@)], Head(lock.queue))

\* (mutant of Acquire) The null-check of the holder is dropped.
AcquireUnchecked(lock, t, c) == Grant(lock, [turn |-> t, channel |-> c])

\* acquire(): granted at once when the lock is free, parked otherwise.
Acquire(lock, t, c) ==
    LET w == [turn |-> t, channel |-> c]
    IN  IF lock.holder = NoChannel
        THEN Grant(lock, w)
        ELSE [lock EXCEPT !.queue = Append(@, w)]

\* (mutant of Release) The next waiter is not woken.
ReleaseNoWake(lock, c) == [lock EXCEPT !.holder = IF @ = c THEN NoChannel ELSE @]

\* The closure acquire() resolves with.  It clears the holder only when its
\* own channel holds the lock, but wakes the next waiter in either case.
Release(lock, c) ==
    GrantNext([lock EXCEPT !.holder = IF @ = c THEN NoChannel ELSE @])

\* releaseIfHeldBy(): a true no-op for a channel that is not the holder.
ReleaseIfHeldBy(lock, c) ==
    IF lock.holder = c
    THEN GrantNext([lock EXCEPT !.holder = NoChannel])
    ELSE lock

\* findIndex(w => w.channelId === channelId) + 1; 0 when c has no waiter.
WaiterIndex(lock, c) == SelectInSeq(lock.queue, LAMBDA w : w.channel = c)

\* cancelWaiter(): reject the channel's first parked acquire(), if any.
CancelWaiter(lock, c) ==
    LET i == WaiterIndex(lock, c)
    IN  IF i = 0
        THEN lock
        ELSE [lock EXCEPT
                !.queue   = RemoveAt(@, i),
                !.settled = Append(@, [turn    |-> lock.queue[i].turn,
                                       granted |-> FALSE])]

=============================================================================
