------------------------ MODULE SessionManagerProofs ------------------------
(***************************************************************************)
(* SessionManager is type correct, and no waiter is stranded behind a free *)
(* git-write lock, for every set of channels and users, every cap, all the *)
(* races and every bound.                                                  *)
(*                                                                         *)
(* The first part is what every operation of GitWriteLock and              *)
(* GitTurnContext preserves, for any set of turns: the type of the lock,   *)
(* and that a free lock has no waiter.                                     *)
(*                                                                         *)
(* The inductive invariant is TypeInv: the types, and a lock that strands  *)
(* no waiter.  The second needs the first (a lock is granted to a channel, *)
(* which is never the null value), and no helper of SessionManager opens   *)
(* the lock: each passes it to the operations of GitTurnContext.           *)
(***************************************************************************)
EXTENDS SessionManager, WellFoundedInduction, SequenceTheorems, TLAPS

\* A lock of the given turns that does not strand a waiter.
ServedLock(T) ==
    {lock \in Lock(T) : lock.holder = NoChannel => lock.queue = <<>>}

-----------------------------------------------------------------------------
(* Sequences *)

\* Elements of a larger set.
LEMMA SeqMonotone ==
    ASSUME NEW S, NEW T, S \subseteq T, NEW s \in Seq(S)
    PROVE  s \in Seq(T)
  OBVIOUS

\* Removing an element leaves a sequence over the same set.
LEMMA RemoveAtType ==
    ASSUME NEW S, NEW s \in Seq(S), NEW i \in 1 .. Len(s)
    PROVE  RemoveAt(s, i) \in Seq(S)
  BY DEF RemoveAt

\* A set of numbers has a least element, a set of indices also a greatest.
LEMMA MinExists ==
    ASSUME NEW I \in SUBSET Nat, I # {}
    PROVE  \E i \in I : \A j \in I : i <= j
<1>1. IsWellFoundedOn(OpToRel(<, Nat), Nat)
  BY NatLessThanWellFounded
<1>2. PICK i \in I : \A j \in I : <<j, i>> \notin OpToRel(<, Nat)
  BY <1>1, WFMin, Zenon
<1>3. \A j \in I : ~(j < i)
  BY <1>2 DEF OpToRel
<1> QED
  BY <1>3

\* The least element of a set of numbers is one of them, below all others.
LEMMA MinType ==
    ASSUME NEW n \in Nat, NEW I \in SUBSET (1 .. n), I # {}
    PROVE  Min(I) \in I /\ \A i \in I : Min(I) <= i
<1>1. I \in SUBSET Nat
  OBVIOUS
<1>2. \E i \in I : \A j \in I : i <= j
  BY <1>1, MinExists
<1> QED
  BY <1>2 DEF Min

\* The greatest of a non-empty set of indices is one of them.
LEMMA MaxType ==
    ASSUME NEW n \in Nat, NEW I \in SUBSET (1 .. n), I # {}
    PROVE  Max(I) \in I /\ \A i \in I : i <= Max(I)
<1> DEFINE J == {j \in Nat : \E i \in I : j = n - i}
<1>0. \A i \in I : i \in Nat /\ n - i \in Nat
  OBVIOUS
<1>1. /\ J \in SUBSET Nat
      /\ \A i \in I : n - i \in J
      /\ J # {}
  <2>1. \A i \in I : n - i \in J
    BY <1>0
  <2> QED
    BY <2>1
<1>2. PICK j \in J : \A k \in J : j <= k
  <2> HIDE DEF J
  <2> QED
    BY <1>1, MinExists
<1>3. PICK i \in I : j = n - i
  BY <1>2
<1>4. \A k \in I : i >= k
  <2> TAKE k \in I
  <2>1. n - i <= n - k
    BY <1>1, <1>2, <1>3
  <2> QED
    BY <1>0, <2>1
<1> QED
  BY <1>3, <1>4 DEF Max

-----------------------------------------------------------------------------
(* The lock.  An operation of which more is known than that it keeps the     *)
(* type of the lock states the rest in its own lemma.                        *)

\* grant() gives the lock to a channel.
LEMMA GrantType ==
    ASSUME NEW T, NEW lock \in Lock(T), NEW w \in Waiter(T)
    PROVE  Grant(lock, w) \in ServedLock(T)
<1>1. w.channel \in Channel /\ w.turn \in T
  BY DEF Waiter
<1>2. [turn |-> w.turn, granted |-> TRUE] \in Settlement(T)
  BY <1>1 DEF Settlement
<1>3. Append(lock.settled, [turn |-> w.turn, granted |-> TRUE]) \in Seq(Settlement(T))
  BY <1>2 DEF Lock
<1>4. Grant(lock, w) \in Lock(T) /\ Grant(lock, w).holder = w.channel
  BY <1>1, <1>3 DEF Grant, Lock
<1> QED
  BY <1>1, <1>4, NoChannelAssumption DEF ServedLock

\* Both releases end in a lock that is held or has no waiter.
LEMMA GrantNextType ==
    ASSUME NEW T, NEW lock \in Lock(T)
    PROVE  GrantNext(lock) \in ServedLock(T)
<1>1. CASE lock.queue = <<>>
  BY <1>1 DEF GrantNext, ServedLock
<1>2. CASE lock.queue # <<>>
  <2>1. /\ lock.queue \in Seq(Waiter(T))
        /\ Head(lock.queue) \in Waiter(T)
        /\ Tail(lock.queue) \in Seq(Waiter(T))
    BY <1>2 DEF Lock
  <2>2. [lock EXCEPT !.queue = Tail(@)] \in Lock(T)
    BY <2>1 DEF Lock
  <2> QED
    BY <1>2, <2>1, <2>2, GrantType DEF GrantNext
<1> QED
  BY <1>1, <1>2

\* acquire() keeps the lock served: it only parks behind a holder.
LEMMA AcquireType ==
    ASSUME NEW T, NEW lock \in ServedLock(T),
           NEW t \in T, NEW c \in Channel
    PROVE  Acquire(lock, t, c) \in ServedLock(T)
<1> DEFINE w == [turn |-> t, channel |-> c]
<1>1. w \in Waiter(T) /\ lock \in Lock(T)
  BY DEF Waiter, ServedLock
<1>2. CASE lock.holder = NoChannel
  BY <1>1, <1>2, GrantType DEF Acquire
<1>3. CASE lock.holder # NoChannel
  <2>1. Append(lock.queue, w) \in Seq(Waiter(T))
    BY <1>1 DEF Lock
  <2>2. /\ [lock EXCEPT !.queue = Append(@, w)] \in Lock(T)
        /\ [lock EXCEPT !.queue = Append(@, w)].holder # NoChannel
    BY <1>1, <1>3, <2>1 DEF Lock
  <2> QED
    BY <1>3, <2>2 DEF Acquire, ServedLock
<1> QED
  BY <1>2, <1>3

\* The release closure keeps the lock served, also when its channel no longer holds it.
LEMMA ReleaseType ==
    ASSUME NEW T, NEW lock \in Lock(T), NEW c \in Channel
    PROVE  Release(lock, c) \in ServedLock(T)
<1>1. [lock EXCEPT !.holder = IF @ = c THEN NoChannel ELSE @] \in Lock(T)
  BY DEF Lock
<1> QED
  BY <1>1, GrantNextType DEF Release

\* releaseIfHeldBy() keeps the lock served.
LEMMA ReleaseIfHeldByType ==
    ASSUME NEW T, NEW lock \in ServedLock(T), NEW c \in Channel
    PROVE  ReleaseIfHeldBy(lock, c) \in ServedLock(T)
<1>1. [lock EXCEPT !.holder = NoChannel] \in Lock(T)
  BY DEF Lock, ServedLock
<1> QED
  BY <1>1, GrantNextType DEF ReleaseIfHeldBy

\* The index found is that of a waiter of the channel.
LEMMA WaiterIndexType ==
    ASSUME NEW T, NEW lock \in Lock(T), NEW c \in Channel
    PROVE  /\ WaiterIndex(lock, c) \in 0 .. Len(lock.queue)
           /\ WaiterIndex(lock, c) # 0
                => lock.queue[WaiterIndex(lock, c)].channel = c
           /\ WaiterIndex(lock, c) = 0
                => \A i \in 1 .. Len(lock.queue) : lock.queue[i].channel # c
<1> DEFINE I == {i \in 1 .. Len(lock.queue) : lock.queue[i].channel = c}
<1>1. WaiterIndex(lock, c) = IF I # {} THEN Min(I) ELSE 0
  BY DEF WaiterIndex, SelectInSeq
<1>2. Len(lock.queue) \in Nat /\ I \in SUBSET (1 .. Len(lock.queue))
  BY DEF Lock
<1>3. I # {} => Min(I) \in I
  BY <1>2, MinType
<1> QED
  BY <1>1, <1>2, <1>3

\* cancelWaiter() keeps the lock served: it never touches the holder.
LEMMA CancelWaiterType ==
    ASSUME NEW T, NEW lock \in ServedLock(T), NEW c \in Channel
    PROVE  CancelWaiter(lock, c) \in ServedLock(T)
<1> DEFINE i == WaiterIndex(lock, c)
<1>1. lock \in Lock(T)
  BY DEF ServedLock
<1>2. CASE i = 0
  BY <1>2 DEF CancelWaiter
<1>3. CASE i # 0
  <2>1. i \in 1 .. Len(lock.queue) /\ lock.queue \in Seq(Waiter(T))
    BY <1>1, <1>3, WaiterIndexType DEF Lock
  <2>2. RemoveAt(lock.queue, i) \in Seq(Waiter(T))
    BY <2>1, RemoveAtType
  <2> HIDE DEF i
  <2>3. lock.queue[i] \in Waiter(T)
    BY <2>1
  <2>4. lock.holder # NoChannel
    BY <2>1 DEF ServedLock
  <2> DEFINE rejected == [turn |-> lock.queue[i].turn, granted |-> FALSE]
  <2>7. rejected \in Settlement(T)
    BY <2>3 DEF Waiter, Settlement
  <2>8. Append(lock.settled, rejected) \in Seq(Settlement(T))
    BY <1>1, <2>7 DEF Lock
  <2> HIDE DEF rejected
  <2>5. CancelWaiter(lock, c) =
          [lock EXCEPT !.queue   = RemoveAt(lock.queue, i),
                       !.settled = Append(lock.settled, rejected)]
    BY <1>3 DEF CancelWaiter, i, rejected
  <2>6. CancelWaiter(lock, c) \in Lock(T) /\ CancelWaiter(lock, c).holder # NoChannel
    BY <1>1, <2>2, <2>4, <2>5, <2>8 DEF Lock
  <2> QED
    BY <2>6 DEF ServedLock
<1> QED
  BY <1>2, <1>3

-----------------------------------------------------------------------------
(* Who waits for the lock, and whose promise is settled *)

\* The parked acquire() calls.
Waiters(lock) == {lock.queue[i] : i \in 1 .. Len(lock.queue)}

\* The settled promises, the turns that get them, and those of these turns that
\* got the lock.
Answers(lock) == {lock.settled[i] : i \in 1 .. Len(lock.settled)}
Woken(lock)   == {e.turn : e \in Answers(lock)}
Granted(lock) == {e.turn : e \in {a \in Answers(lock) : a.granted}}

\* No turn occurs twice.
Distinct(s) == \A i, j \in 1 .. Len(s) : s[i].turn = s[j].turn => i = j

\* The turns of T, and no others, wait for the lock or for the event loop to
\* get to the answer, each of them once.
Awaits(lock, T) ==
    /\ Distinct(lock.queue) /\ Distinct(lock.settled)
    /\ T = {w.turn : w \in Waiters(lock)} \cup Woken(lock)
    /\ \A w \in Waiters(lock) : w.turn \notin Woken(lock)

\* The turns that have a place at the lock: they wait, or were granted it and
\* have yet to hear of it.
Places(lock) == Granted(lock) \cup {w.turn : w \in Waiters(lock)}

\* Who asked first is served first: the waiters stand in the order of their
\* turns' numbers, behind those that were granted the lock.
InOrder(lock) ==
    /\ \A i, j \in 1 .. Len(lock.queue) : i < j => lock.queue[i].turn < lock.queue[j].turn
    /\ \A t \in Granted(lock), w \in Waiters(lock) : t < w.turn

\* What becomes of an orderly lock when nobody asks: it is orderly, and nobody
\* has gained a place.
Yields(lock, new) == InOrder(lock) => InOrder(new) /\ Places(new) \subseteq Places(lock)

\* r is s without its i-th element.
Without(s, i, r) ==
    /\ Len(r) = Len(s) - 1
    /\ \A j \in 1 .. Len(r) : r[j] = IF j < i THEN s[j] ELSE s[j + 1]

\* Where the elements of a sequence go when one is removed.
LEMMA RemoveAtIsWithout ==
    ASSUME NEW S, NEW s \in Seq(S), NEW i \in 1 .. Len(s)
    PROVE  Without(s, i, RemoveAt(s, i))
<1> DEFINE a == SubSeq(s, 1, i - 1)
           b == SubSeq(s, i + 1, Len(s))
<1>1. /\ a \in Seq(S) /\ Len(a) = i - 1
      /\ \A j \in 1 .. i - 1 : a[j] = s[j]
  OBVIOUS
<1>2. /\ b \in Seq(S) /\ Len(b) = Len(s) - i
      /\ \A j \in 1 .. Len(s) - i : b[j] = s[i + j]
  OBVIOUS
<1>3. RemoveAt(s, i) = a \o b
  BY DEF RemoveAt
<1> HIDE DEF a, b
<1>4. /\ Len(a \o b) = Len(a) + Len(b)
      /\ \A j \in 1 .. Len(a) + Len(b) :
           (a \o b)[j] = IF j <= Len(a) THEN a[j] ELSE b[j - Len(a)]
  BY <1>1, <1>2, ConcatProperties
<1>5. \A j \in 1 .. Len(s) - 1 : (a \o b)[j] = IF j < i THEN s[j] ELSE s[j + 1]
  <2> TAKE j \in 1 .. Len(s) - 1
  <2>0. j \in 1 .. Len(a) + Len(b) /\ Len(s) \in Nat
    BY <1>1, <1>2
  <2>1. CASE j < i
    BY <1>1, <1>4, <2>0, <2>1
  <2>2. CASE ~(j < i)
    <3>1. /\ ~(j <= Len(a)) /\ j - Len(a) \in 1 .. Len(s) - i
          /\ i + (j - Len(a)) = j + 1
      BY <1>1, <2>0, <2>2
    <3> QED
      BY <1>2, <1>4, <2>0, <2>2, <3>1
  <2> QED
    BY <2>1, <2>2
<1>6. Len(RemoveAt(s, i)) = Len(s) - 1
  BY <1>1, <1>2, <1>3, <1>4
<1> QED
  BY <1>3, <1>5, <1>6 DEF Without

\* The tail is the sequence without its first element.
LEMMA TailIsWithout ==
    ASSUME NEW S, NEW s \in Seq(S), s # <<>>
    PROVE  /\ Without(s, 1, Tail(s)) /\ Tail(s) \in Seq(S)
           /\ 1 \in 1 .. Len(s) /\ Head(s) = s[1]
  BY DEF Without

\* What is left of a sequence of distinct turns when its i-th element is taken
\* out: all others, still distinct, still in order.
LEMMA WithoutDistinct ==
    ASSUME NEW S, NEW s \in Seq(S), NEW r \in Seq(S), NEW i \in 1 .. Len(s),
           Without(s, i, r), Distinct(s)
    PROVE  /\ Distinct(r)
           /\ \A j \in 1 .. Len(r) : \E k \in 1 .. Len(s) : k # i /\ r[j] = s[k]
           /\ \A k \in 1 .. Len(s) : k # i => \E j \in 1 .. Len(r) : r[j] = s[k]
           /\ \A j \in 1 .. Len(r) : r[j].turn # s[i].turn
<1>1. Len(s) \in Nat /\ Len(r) = Len(s) - 1
  BY DEF Without
<1>2. \A j \in 1 .. Len(r) :
        \E k \in (1 .. Len(s)) \ {i} : r[j] = s[k] /\ k = IF j < i THEN j ELSE j + 1
  BY <1>1 DEF Without
<1>3. \A k \in (1 .. Len(s)) \ {i} : \E j \in 1 .. Len(r) : r[j] = s[k]
  <2> TAKE k \in (1 .. Len(s)) \ {i}
  <2>1. CASE k < i
    BY <1>1, <2>1 DEF Without
  <2>2. CASE k > i
    <3>1. k - 1 \in 1 .. Len(r) /\ ~(k - 1 < i) /\ (k - 1) + 1 = k
      BY <1>1, <2>2
    <3> QED
      BY <3>1 DEF Without
  <2> QED
    BY <2>1, <2>2
<1>4. Distinct(r)
  BY <1>1, <1>2 DEF Distinct
<1>5. \A j \in 1 .. Len(r) : r[j].turn # s[i].turn
  BY <1>2 DEF Distinct
<1> QED
  BY <1>2, <1>3, <1>4, <1>5

\* Taking the i-th waiter out of the queue and settling its promise, whatever
\* the answer: no turn is lost and none is answered twice.
LEMMA WakeAwaits ==
    ASSUME NEW S, NEW T, NEW lock \in Lock(S), NEW new \in Lock(S), Awaits(lock, T),
           NEW i \in 1 .. Len(lock.queue), Without(lock.queue, i, new.queue),
           NEW e \in Settlement(S), e.turn = lock.queue[i].turn,
           new.settled = Append(lock.settled, e)
    PROVE  /\ Awaits(new, T) /\ Waiters(new) \subseteq Waiters(lock)
           /\ Answers(new) = Answers(lock) \cup {e}
<1> DEFINE q == lock.queue
           r == new.queue
           s == lock.settled
           w == q[i].turn
<1>1. /\ q \in Seq(Waiter(S)) /\ r \in Seq(Waiter(S))
      /\ s \in Seq(Settlement(S))
      /\ Distinct(q) /\ Distinct(s)
  BY DEF Lock, Awaits
<1>2. /\ Distinct(r)
      /\ \A j \in 1 .. Len(r) : \E k \in 1 .. Len(q) : k # i /\ r[j] = q[k]
      /\ \A k \in 1 .. Len(q) : k # i => \E j \in 1 .. Len(r) : r[j] = q[k]
      /\ \A j \in 1 .. Len(r) : r[j].turn # w
  <2>1. i \in 1 .. Len(q) /\ Without(q, i, r)
    OBVIOUS
  <2> HIDE DEF q, r
  <2> QED
    BY <1>1, <2>1, WithoutDistinct DEF w
<1>3. /\ Len(new.settled) = Len(s) + 1 /\ Len(s) \in Nat
      /\ \A j \in 1 .. Len(s) : new.settled[j] = s[j]
      /\ new.settled[Len(s) + 1] = e
  BY <1>1
<1>4. e.turn = w
  OBVIOUS
<1>5. /\ \A x \in Waiters(lock) : x.turn \notin Woken(lock)
      /\ T = {x.turn : x \in Waiters(lock)} \cup Woken(lock)
  BY DEF Awaits
<1>6. q[i] \in Waiters(lock) /\ w \notin Woken(lock)
  BY <1>5 DEF Waiters
<1> HIDE DEF w
<1>7. /\ Answers(new) = Answers(lock) \cup {e}
      /\ Woken(new) = Woken(lock) \cup {w}
  <2>1. Answers(new) = Answers(lock) \cup {e}
    BY <1>3 DEF Answers
  <2> QED
    BY <1>4, <2>1 DEF Woken
<1>8. Distinct(new.settled)
  BY SMTT(30), <1>1, <1>3, <1>4, <1>6 DEF Distinct, Woken, Answers
<1>9. /\ \A x \in Waiters(new) : x \in Waiters(lock) /\ x.turn # w
      /\ \A x \in Waiters(lock) : x \in Waiters(new) \/ x.turn = w
  <2>1. ASSUME NEW j \in 1 .. Len(r)
        PROVE  r[j] \in Waiters(lock) /\ r[j].turn # w
    BY <1>2 DEF Waiters
  <2>2. ASSUME NEW k \in 1 .. Len(q), k # i
        PROVE  q[k] \in Waiters(new)
    BY <1>2, <2>2 DEF Waiters
  <2> QED
    BY <2>1, <2>2 DEF Waiters, w
<1>10. Awaits(new, T)
  <2>1. T = {x.turn : x \in Waiters(new)} \cup Woken(new)
    BY <1>5, <1>6, <1>7, <1>9 DEF w
  <2> QED
    BY <1>2, <1>5, <1>7, <1>8, <1>9, <2>1 DEF Awaits
<1> QED
  BY <1>7, <1>9, <1>10

\* A grant is one more turn with the lock, a rejection is none.
LEMMA AnswersGranted ==
    ASSUME NEW lock, NEW new, NEW e, Answers(new) = Answers(lock) \cup {e}
    PROVE  /\ e.granted => Granted(new) = Granted(lock) \cup {e.turn}
           /\ ~e.granted => Granted(new) = Granted(lock)
  BY DEF Granted

\* Taking the first waiter out to grant it the lock, or any to send it away,
\* leaves the others in order.
LEMMA WakeYields ==
    ASSUME NEW S, NEW lock \in Lock(S), NEW new \in Lock(S),
           NEW i \in 1 .. Len(lock.queue), Without(lock.queue, i, new.queue),
           NEW e, e.turn = lock.queue[i].turn, e.granted => i = 1,
           Answers(new) = Answers(lock) \cup {e}
    PROVE  Yields(lock, new)
<1> SUFFICES ASSUME InOrder(lock)
             PROVE  InOrder(new) /\ Places(new) \subseteq Places(lock)
  BY DEF Yields
<1> DEFINE q == lock.queue
           r == new.queue
           Old(j) == IF j < i THEN j ELSE j + 1
<1>1. Len(q) \in Nat /\ Len(r) = Len(q) - 1
  BY DEF Without, Lock
<1>2. \A j \in 1 .. Len(r) : Old(j) \in 1 .. Len(q) /\ r[j] = q[Old(j)]
  BY <1>1 DEF Without
<1>3. \A j, k \in 1 .. Len(r) : j < k => Old(j) < Old(k)
  BY <1>1
<1> HIDE DEF Old, q, r
<1>4. \A j, k \in 1 .. Len(r) : j < k => r[j].turn < r[k].turn
  BY <1>2, <1>3 DEF InOrder, q
<1>5. \A w \in Waiters(new) : w \in Waiters(lock)
  BY <1>2 DEF Waiters, q, r
<1>6. e.granted => Granted(new) = Granted(lock) \cup {e.turn}
  BY AnswersGranted
<1>7. ~e.granted => Granted(new) = Granted(lock)
  BY AnswersGranted
<1>8. ASSUME e.granted, NEW w \in Waiters(new)
      PROVE  e.turn < w.turn
  <2>1. PICK j \in 1 .. Len(r) : w = r[j]
    BY DEF Waiters, r
  <2>2. i < Old(j) /\ Old(j) \in 1 .. Len(q) /\ w = q[Old(j)]
    BY <1>1, <1>2, <1>8, <2>1 DEF Old
  <2> QED
    BY <2>2 DEF InOrder, q
<1>9. \A t \in Granted(new), w \in Waiters(new) : t < w.turn
  BY <1>5, <1>6, <1>7, <1>8 DEF InOrder
<1>10. e.turn \in Places(lock)
  BY DEF Places, Waiters
<1>11. Places(new) \subseteq Places(lock)
  BY <1>5, <1>6, <1>7, <1>10 DEF Places
<1> QED
  BY <1>4, <1>9, <1>11 DEF InOrder, r

\* Only the queue and the settled promises matter to those who wait.
LEMMA SameWaiters ==
    ASSUME NEW lock, NEW new, NEW T,
           new.queue = lock.queue, new.settled = lock.settled
    PROVE  /\ Awaits(new, T) <=> Awaits(lock, T)
           /\ Waiters(new) = Waiters(lock)
           /\ Woken(new) = Woken(lock) /\ Granted(new) = Granted(lock)
           /\ Yields(lock, new)
<1>1. /\ Waiters(new) = Waiters(lock) /\ Woken(new) = Woken(lock)
      /\ Granted(new) = Granted(lock)
  BY DEF Waiters, Answers, Woken, Granted
<1>2. Yields(lock, new)
  BY <1>1 DEF Yields, InOrder, Places
<1> QED
  BY <1>1, <1>2 DEF Awaits

\* queue.shift() and grant() wake the first waiter, if there is one.
LEMMA GrantNextWakes ==
    ASSUME NEW S, NEW T, NEW lock \in Lock(S), Awaits(lock, T)
    PROVE  /\ Awaits(GrantNext(lock), T)
           /\ Waiters(GrantNext(lock)) \subseteq Waiters(lock)
           /\ lock.queue = <<>> => GrantNext(lock) = lock
           /\ lock.queue # <<>> =>
                /\ Head(lock.queue) \in Waiters(lock)
                /\ GrantNext(lock).holder = Head(lock.queue).channel
                /\ Granted(GrantNext(lock)) = Granted(lock) \cup {Head(lock.queue).turn}
           /\ Yields(lock, GrantNext(lock))
<1>1. CASE lock.queue = <<>>
  BY <1>1 DEF GrantNext, Yields
<1>2. CASE lock.queue # <<>>
  <2> DEFINE w == Head(lock.queue)
             new == GrantNext(lock)
  <2>1. /\ lock.queue \in Seq(Waiter(S)) /\ new \in Lock(S)
        /\ lock.settled \in Seq(Settlement(S))
    BY GrantNextType DEF Lock, ServedLock
  <2>2. /\ Without(lock.queue, 1, Tail(lock.queue))
        /\ 1 \in 1 .. Len(lock.queue) /\ w = lock.queue[1]
    BY <1>2, <2>1, TailIsWithout
  <2>3. /\ new.queue = Tail(lock.queue) /\ new.holder = w.channel
        /\ new.settled = Append(lock.settled, [turn |-> w.turn, granted |-> TRUE])
    BY <1>2 DEF GrantNext, Grant, Lock
  <2>4. w \in Waiters(lock)
    BY <2>2 DEF Waiters
  <2> HIDE DEF w, new
  <2>5. /\ Awaits(new, T) /\ Waiters(new) \subseteq Waiters(lock)
        /\ Granted(new) = Granted(lock) \cup {w.turn}
        /\ Yields(lock, new)
    <3> DEFINE e == [turn |-> w.turn, granted |-> TRUE]
    <3>1. e \in Settlement(S) /\ e.turn = w.turn /\ e.granted
      <4>1. w \in Waiter(S)
        BY <2>1, <2>2
      <4> QED
        BY <4>1 DEF Settlement, Waiter
    <3>2. new.settled = Append(lock.settled, e) /\ e.turn = lock.queue[1].turn
      BY <2>2, <2>3
    <3>3. Without(lock.queue, 1, new.queue)
      BY <2>2, <2>3
    <3> HIDE DEF e
    <3>4. /\ Awaits(new, T) /\ Waiters(new) \subseteq Waiters(lock)
          /\ Answers(new) = Answers(lock) \cup {e}
      BY <2>1, <2>2, <3>1, <3>2, <3>3, WakeAwaits
    <3>5. Yields(lock, new)
      BY <2>1, <2>2, <3>2, <3>3, <3>4, WakeYields
    <3> QED
      BY <3>1, <3>4, <3>5, AnswersGranted
  <2> QED
    BY <1>2, <2>3, <2>4, <2>5 DEF w, new
<1> QED
  BY <1>1, <1>2

\* The lock as a release leaves it to the next waiter.
LEMMA FreedLock ==
    ASSUME NEW S, NEW T, NEW lock \in Lock(S), Awaits(lock, T),
           NEW h \in Channel \cup {NoChannel}
    PROVE  LET freed == [lock EXCEPT !.holder = h]
           IN  /\ freed \in Lock(S) /\ Awaits(freed, T)
               /\ freed.holder = h /\ freed.queue = lock.queue
               /\ Waiters(freed) = Waiters(lock) /\ Granted(freed) = Granted(lock)
               /\ Yields(lock, freed)
<1> DEFINE freed == [lock EXCEPT !.holder = h]
<1>1. /\ freed \in Lock(S) /\ freed.holder = h
      /\ freed.queue = lock.queue /\ freed.settled = lock.settled
  BY DEF Lock
<1> HIDE DEF freed
<1>2. /\ Awaits(freed, T)
      /\ Waiters(freed) = Waiters(lock) /\ Granted(freed) = Granted(lock)
      /\ Yields(lock, freed)
  BY <1>1, SameWaiters
<1> QED
  BY <1>1, <1>2 DEF freed

\* One thing done to the lock after the other.
LEMMA YieldsTwice ==
    ASSUME NEW lock, NEW mid, NEW new, Yields(lock, mid), Yields(mid, new)
    PROVE  Yields(lock, new)
  BY DEF Yields

\* Both releases keep whoever still waits.
LEMMA ReleaseAwaits ==
    ASSUME NEW S, NEW T, NEW lock \in Lock(S), NEW c \in Channel, Awaits(lock, T)
    PROVE  /\ Awaits(Release(lock, c), T)
           /\ Waiters(Release(lock, c)) \subseteq Waiters(lock)
           /\ Awaits(ReleaseIfHeldBy(lock, c), T)
           /\ Waiters(ReleaseIfHeldBy(lock, c)) \subseteq Waiters(lock)
           /\ Yields(lock, Release(lock, c)) /\ Yields(lock, ReleaseIfHeldBy(lock, c))
<1> DEFINE h == IF lock.holder = c THEN NoChannel ELSE lock.holder
           a == [lock EXCEPT !.holder = h]
           b == [lock EXCEPT !.holder = NoChannel]
<1>1. h \in Channel \cup {NoChannel}
  BY DEF Lock
<1>2. /\ a \in Lock(S) /\ Awaits(a, T) /\ Waiters(a) = Waiters(lock) /\ Yields(lock, a)
      /\ b \in Lock(S) /\ Awaits(b, T) /\ Waiters(b) = Waiters(lock) /\ Yields(lock, b)
  <2> HIDE DEF h
  <2> QED
    BY <1>1, FreedLock
<1>3. /\ Release(lock, c) = GrantNext(a)
      /\ ReleaseIfHeldBy(lock, c) = IF lock.holder = c THEN GrantNext(b) ELSE lock
  BY DEF Release, ReleaseIfHeldBy
<1> HIDE DEF a, b
<1>4. Yields(lock, GrantNext(a)) /\ Yields(lock, GrantNext(b)) /\ Yields(lock, lock)
  BY <1>2, GrantNextWakes, YieldsTwice DEF Yields
<1> QED
  BY <1>2, <1>3, <1>4, GrantNextWakes

\* cancelWaiter() answers its channel's first waiter and nobody else.
LEMMA CancelAwaits ==
    ASSUME NEW S, NEW T, NEW lock \in Lock(S), NEW c \in Channel, Awaits(lock, T)
    PROVE  LET new == CancelWaiter(lock, c)
           IN  /\ Awaits(new, T) /\ Waiters(new) \subseteq Waiters(lock)
               /\ new.holder = lock.holder /\ Granted(new) = Granted(lock)
               /\ Yields(lock, new)
               /\ (\A w \in Waiters(lock) : w.channel # c) => new = lock
               /\ (\A v, w \in Waiters(lock) : v.channel = w.channel => v = w)
                    => \A w \in Waiters(new) : w.channel # c
<1> DEFINE i == WaiterIndex(lock, c)
           new == CancelWaiter(lock, c)
           e == [turn |-> lock.queue[i].turn, granted |-> FALSE]
<1>1. /\ i \in 0 .. Len(lock.queue)
      /\ i # 0 => lock.queue[i].channel = c
      /\ i = 0 => \A j \in 1 .. Len(lock.queue) : lock.queue[j].channel # c
  BY WaiterIndexType
<1>2. CASE i = 0
  <2>1. new = lock
    BY <1>2 DEF CancelWaiter
  <2>2. \A w \in Waiters(lock) : w.channel # c
    BY <1>1, <1>2 DEF Waiters
  <2> QED
    BY <2>1, <2>2 DEF Yields
<1>3. CASE i # 0
  <2>1. /\ lock.queue \in Seq(Waiter(S)) /\ i \in 1 .. Len(lock.queue)
        /\ lock.settled \in Seq(Settlement(S))
    BY <1>1, <1>3 DEF Lock
  <2>2. lock.queue[i] \in Waiters(lock) /\ lock.queue[i].channel = c
    BY <1>1, <1>3, <2>1 DEF Waiters
  <2>3. /\ new = [lock EXCEPT !.queue   = RemoveAt(lock.queue, i),
                              !.settled = Append(lock.settled, e)]
    BY <1>3 DEF CancelWaiter
  <2>4. RemoveAt(lock.queue, i) \in Seq(Waiter(S))
    <3> HIDE DEF i
    <3> QED
      BY <2>1, RemoveAtType
  <2>5. e \in Settlement(S)
    <3>1. lock.queue[i] \in Waiter(S)
      <4> HIDE DEF i
      <4> QED
        BY <2>1
    <3> QED
      BY <3>1 DEF Waiter, Settlement
  <2>6. Append(lock.settled, e) \in Seq(Settlement(S))
    <3> HIDE DEF e
    <3> QED
      BY <2>1, <2>5
  <2>7. /\ new \in Lock(S) /\ new.holder = lock.holder
        /\ new.queue = RemoveAt(lock.queue, i)
        /\ new.settled = Append(lock.settled, e)
    <3> HIDE DEF e, new, i
    <3> QED
      BY <2>3, <2>4, <2>6 DEF Lock
  <2>8. Without(lock.queue, i, new.queue)
    <3> HIDE DEF e, new, i
    <3> QED
      BY <2>1, <2>7, RemoveAtIsWithout
  <2> HIDE DEF new, i
  <2>9. /\ Awaits(new, T) /\ Waiters(new) \subseteq Waiters(lock)
        /\ Granted(new) = Granted(lock) /\ Yields(lock, new)
    <3>1. e.turn = lock.queue[i].turn /\ ~e.granted
      BY DEF e
    <3> HIDE DEF e
    <3>2. /\ Awaits(new, T) /\ Waiters(new) \subseteq Waiters(lock)
          /\ Answers(new) = Answers(lock) \cup {e}
      BY <2>1, <2>5, <2>7, <2>8, <3>1, WakeAwaits
    <3>3. Yields(lock, new)
      BY <2>1, <2>7, <2>8, <3>1, <3>2, WakeYields
    <3> QED
      BY <3>1, <3>2, <3>3, AnswersGranted
  <2>10. ASSUME \A v, w \in Waiters(lock) : v.channel = w.channel => v = w
         PROVE  \A w \in Waiters(new) : w.channel # c
    <3>1. \A j \in 1 .. Len(new.queue) : new.queue[j].turn # lock.queue[i].turn
      <4>1. Distinct(lock.queue) /\ new.queue \in Seq(Waiter(S))
        BY <2>7 DEF Awaits, Lock
      <4> QED
        BY <2>1, <2>8, <4>1, WithoutDistinct
    <3>2. \A w \in Waiters(new) : w.turn # lock.queue[i].turn
      BY <3>1 DEF Waiters
    <3> QED
      BY <2>2, <2>9, <2>10, <3>2
  <2> QED
    BY <2>2, <2>7, <2>9, <2>10 DEF new
<1> QED
  BY <1>2, <1>3

\* Whoever is put at the end of the queue waits there with those before.
LEMMA AppendedWaiters ==
  ASSUME NEW lock, NEW new, NEW w, Len(lock.queue) \in Nat,
         Len(new.queue) = Len(lock.queue) + 1,
         \A j \in 1 .. Len(lock.queue) : new.queue[j] = lock.queue[j],
         new.queue[Len(lock.queue) + 1] = w
  PROVE  Waiters(new) = Waiters(lock) \cup {w}
<1>1. ASSUME NEW j \in 1 .. Len(new.queue)
      PROVE  new.queue[j] \in Waiters(lock) \cup {w}
  <2>1. CASE j = Len(lock.queue) + 1
    BY <2>1
  <2>2. CASE j # Len(lock.queue) + 1
    <3>1. j \in 1 .. Len(lock.queue)
      BY <2>2
    <3> QED
      BY <3>1 DEF Waiters
  <2> QED
    BY <2>1, <2>2
<1>2. ASSUME NEW j \in 1 .. Len(lock.queue)
      PROVE  lock.queue[j] \in Waiters(new)
  <2>1. j \in 1 .. Len(new.queue) /\ new.queue[j] = lock.queue[j]
    OBVIOUS
  <2> QED
    BY <2>1 DEF Waiters
<1>3. w \in Waiters(new)
  <2>1. Len(lock.queue) + 1 \in 1 .. Len(new.queue)
    OBVIOUS
  <2> QED
    BY <2>1 DEF Waiters
<1>4. ASSUME NEW x \in Waiters(new) PROVE x \in Waiters(lock) \cup {w}
  <2>1. PICK j \in 1 .. Len(new.queue) : x = new.queue[j]
    BY DEF Waiters
  <2> QED
    BY <1>1, <2>1
<1>5. ASSUME NEW x \in Waiters(lock) PROVE x \in Waiters(new)
  <2>1. PICK j \in 1 .. Len(lock.queue) : x = lock.queue[j]
    BY DEF Waiters
  <2> QED
    BY <1>2, <2>1
<1> QED
  BY <1>3, <1>4, <1>5

\* acquire() makes one more turn wait.
LEMMA AcquireAwaits ==
    ASSUME NEW S, NEW T, NEW lock \in Lock(S), Awaits(lock, T),
           NEW t, t \notin T, NEW c \in Channel
    PROVE  LET new == Acquire(lock, t, c)
           IN  /\ Awaits(new, T \cup {t})
               /\ Waiters(new) \subseteq Waiters(lock) \cup {[turn |-> t, channel |-> c]}
               /\ lock.holder = NoChannel =>
                    /\ new.holder = c /\ Waiters(new) = Waiters(lock)
                    /\ Granted(new) = Granted(lock) \cup {t}
               /\ lock.holder # NoChannel =>
                    new.holder = lock.holder /\ Granted(new) = Granted(lock)
<1> DEFINE w == [turn |-> t, channel |-> c]
           e == [turn |-> t, granted |-> TRUE]
           new == Acquire(lock, t, c)
<1>1. /\ lock.queue \in Seq(Waiter(S)) /\ lock.settled \in Seq(Settlement(S))
      /\ Distinct(lock.queue) /\ Distinct(lock.settled)
      /\ T = {x.turn : x \in Waiters(lock)} \cup Woken(lock)
      /\ \A x \in Waiters(lock) : x.turn \notin Woken(lock)
  BY DEF Lock, Awaits
<1>2. w.turn = t /\ w.channel = c /\ e.turn = t /\ e.granted
  OBVIOUS
<1>3. CASE lock.holder = NoChannel
  <2>1. /\ new.holder = c /\ new.queue = lock.queue
        /\ new.settled = Append(lock.settled, e)
    BY <1>3 DEF Acquire, Grant, Lock
  <2> HIDE DEF new, e, w
  <2>2. /\ Len(new.settled) = Len(lock.settled) + 1 /\ Len(lock.settled) \in Nat
        /\ \A j \in 1 .. Len(lock.settled) : new.settled[j] = lock.settled[j]
        /\ new.settled[Len(lock.settled) + 1] = e
    BY <1>1, <2>1
  <2>3. Waiters(new) = Waiters(lock)
    BY <2>1 DEF Waiters
  <2>4. /\ Answers(new) = Answers(lock) \cup {e}
        /\ Woken(new) = Woken(lock) \cup {t}
    <3>1. Answers(new) = Answers(lock) \cup {e}
      BY <2>2 DEF Answers
    <3> QED
      BY <1>2, <3>1 DEF Woken
  <2>5. Granted(new) = Granted(lock) \cup {t}
    BY <1>2, <2>4, AnswersGranted
  <2>6. Distinct(new.settled) /\ Distinct(new.queue)
    BY <1>1, <1>2, <2>1, <2>2 DEF Distinct, Woken, Answers
  <2>7. Awaits(new, T \cup {t})
    <3>1. \A x \in Waiters(new) : x.turn \notin Woken(new)
      BY <1>1, <2>3, <2>4
    <3>2. T \cup {t} = {x.turn : x \in Waiters(new)} \cup Woken(new)
      BY <1>1, <2>3, <2>4
    <3> QED
      BY <2>6, <3>1, <3>2 DEF Awaits
  <2> QED
    BY <1>3, <2>1, <2>3, <2>5, <2>7 DEF new
<1>4. CASE lock.holder # NoChannel
  <2>1. /\ new.holder = lock.holder /\ new.queue = Append(lock.queue, w)
        /\ new.settled = lock.settled
    BY <1>4 DEF Acquire, Lock
  <2> HIDE DEF new, e, w
  <2>2. /\ Len(new.queue) = Len(lock.queue) + 1 /\ Len(lock.queue) \in Nat
        /\ \A j \in 1 .. Len(lock.queue) : new.queue[j] = lock.queue[j]
        /\ new.queue[Len(lock.queue) + 1] = w
    BY <1>1, <2>1
  <2>3. Waiters(new) = Waiters(lock) \cup {w}
    BY <2>2, AppendedWaiters
  <2>4. Woken(new) = Woken(lock) /\ Granted(new) = Granted(lock)
    BY <2>1, SameWaiters DEF Woken, Granted, Answers
  <2>5. Distinct(new.settled) /\ Distinct(new.queue)
    BY <1>1, <1>2, <2>1, <2>2 DEF Distinct, Waiters
  <2>6. Awaits(new, T \cup {t})
    <3>1. \A x \in Waiters(new) : x.turn \notin Woken(new)
      BY <1>1, <1>2, <2>3, <2>4
    <3>2. T \cup {t} = {x.turn : x \in Waiters(new)} \cup Woken(new)
      BY <1>1, <1>2, <2>3, <2>4
    <3> QED
      BY <2>5, <3>1, <3>2 DEF Awaits
  <2> QED
    BY <1>4, <2>1, <2>3, <2>4, <2>6 DEF new, w
<1> QED
  BY <1>3, <1>4

\* Who asks last stands last: acquire() by a turn with the highest number so far.
LEMMA AcquireInOrder ==
    ASSUME NEW S, NEW lock \in Lock(S), InOrder(lock),
           lock.holder = NoChannel => lock.queue = <<>>,
           NEW t, \A p \in Places(lock) : p < t,
           NEW c \in Channel, NEW new, new = Acquire(lock, t, c)
    PROVE  InOrder(new) /\ Places(new) = Places(lock) \cup {t}
<1> DEFINE w == [turn |-> t, channel |-> c]
           e == [turn |-> t, granted |-> TRUE]
<1>1. /\ lock.queue \in Seq(Waiter(S)) /\ lock.settled \in Seq(Settlement(S))
      /\ Len(lock.queue) \in Nat
  BY DEF Lock
<1>2. w.turn = t /\ e.turn = t /\ e.granted
  OBVIOUS
<1>3. CASE lock.holder = NoChannel
  <2>1. new.queue = <<>> /\ new.settled = Append(lock.settled, e) /\ lock.queue = <<>>
    BY <1>3 DEF Acquire, Grant, Lock
  <2> HIDE DEF e
  <2>2. /\ Len(new.settled) = Len(lock.settled) + 1 /\ Len(lock.settled) \in Nat
        /\ \A j \in 1 .. Len(lock.settled) : new.settled[j] = lock.settled[j]
        /\ new.settled[Len(lock.settled) + 1] = e
    BY <1>1, <2>1
  <2>3. Answers(new) = Answers(lock) \cup {e}
    <3>1. ASSUME NEW j \in 1 .. Len(new.settled)
          PROVE  new.settled[j] \in Answers(lock) \cup {e}
      <4>1. CASE j = Len(lock.settled) + 1
        BY <2>2, <4>1
      <4>2. CASE j # Len(lock.settled) + 1
        <5>1. j \in 1 .. Len(lock.settled)
          BY <2>2, <4>2
        <5> QED
          BY <2>2, <5>1 DEF Answers
      <4> QED
        BY <4>1, <4>2
    <3>2. \A j \in 1 .. Len(lock.settled) : lock.settled[j] \in Answers(new)
      BY <2>2 DEF Answers
    <3>3. e \in Answers(new)
      BY <2>2 DEF Answers
    <3>4. \A x \in Answers(new) : x \in Answers(lock) \cup {e}
      BY <3>1 DEF Answers
    <3>5. \A x \in Answers(lock) : x \in Answers(new)
      BY <3>2 DEF Answers
    <3> QED
      BY <3>3, <3>4, <3>5
  <2>4. Granted(new) = Granted(lock) \cup {t}
    BY <1>2, <2>3, AnswersGranted
  <2>5. Waiters(new) = {} /\ Waiters(lock) = {} /\ Len(new.queue) = 0
    BY <2>1 DEF Waiters
  <2> QED
    BY <2>4, <2>5 DEF InOrder, Places
<1>4. CASE lock.holder # NoChannel
  <2>1. new.queue = Append(lock.queue, w) /\ new.settled = lock.settled
    BY <1>4 DEF Acquire, Lock
  <2> HIDE DEF w
  <2>2. /\ Len(new.queue) = Len(lock.queue) + 1
        /\ \A j \in 1 .. Len(lock.queue) : new.queue[j] = lock.queue[j]
        /\ new.queue[Len(lock.queue) + 1] = w
    BY <1>1, <2>1, SMTT(30)
  <2>3. Waiters(new) = Waiters(lock) \cup {w}
    BY <1>1, <2>2, AppendedWaiters, SMTT(30)
  <2>4. Granted(new) = Granted(lock)
    BY <2>1 DEF Granted, Answers
  <2>5. \A i \in 1 .. Len(lock.queue) : lock.queue[i].turn < t
    BY DEF Places, Waiters
  <2>6. \A i, j \in 1 .. Len(new.queue) : i < j => new.queue[i].turn < new.queue[j].turn
    <3> SUFFICES ASSUME NEW i \in 1 .. Len(new.queue), NEW j \in 1 .. Len(new.queue), i < j
                 PROVE  new.queue[i].turn < new.queue[j].turn
      OBVIOUS
    <3>1. i \in 1 .. Len(lock.queue)
      BY <1>1, <2>2
    <3>2. CASE j = Len(lock.queue) + 1
      BY <1>2, <2>2, <2>5, <3>1, <3>2
    <3>3. CASE j # Len(lock.queue) + 1
      <4>1. j \in 1 .. Len(lock.queue)
        BY <1>1, <2>2, <3>3
      <4> QED
        BY <2>2, <3>1, <4>1 DEF InOrder
    <3> QED
      BY <3>2, <3>3
  <2>7. \A x \in Granted(new), y \in Waiters(new) : x < y.turn
    BY <1>2, <2>3, <2>4 DEF InOrder, Places
  <2>8. Places(new) = Places(lock) \cup {t}
    BY <1>2, <2>3, <2>4 DEF Places
  <2> QED
    BY <2>6, <2>7, <2>8 DEF InOrder
<1> QED
  BY <1>3, <1>4

\* The lock when the first settled promise has been taken.
Resume(lock) == [lock EXCEPT !.settled = Tail(@)]

\* The continuation of a settled promise runs.
LEMMA ResumeAwaits ==
    ASSUME NEW S, NEW T, NEW lock \in Lock(S), Awaits(lock, T), lock.settled # <<>>
    PROVE  LET t   == Head(lock.settled).turn
               new == Resume(lock)
           IN  /\ t \in T /\ t \in S /\ t \notin {w.turn : w \in Waiters(lock)}
               /\ new \in Lock(S) /\ Awaits(new, T \ {t})
               /\ new.holder = lock.holder /\ new.queue = lock.queue
               /\ Waiters(new) = Waiters(lock)
               /\ Granted(new) = Granted(lock) \ {t}
               /\ t \in Granted(lock) <=> Head(lock.settled).granted
               /\ Yields(lock, new)
<1> DEFINE t   == Head(lock.settled).turn
           new == Resume(lock)
           s   == lock.settled
           r   == Tail(s)
<1>1. /\ lock.queue \in Seq(Waiter(S)) /\ s \in Seq(Settlement(S))
      /\ Distinct(lock.queue) /\ Distinct(s)
      /\ T = {x.turn : x \in Waiters(lock)} \cup Woken(lock)
      /\ \A x \in Waiters(lock) : x.turn \notin Woken(lock)
  BY DEF Lock, Awaits
<1>2. /\ Without(s, 1, r) /\ r \in Seq(Settlement(S))
      /\ 1 \in 1 .. Len(s) /\ Head(s) = s[1]
  BY <1>1, TailIsWithout
<1>3. /\ new \in Lock(S) /\ new.holder = lock.holder
      /\ new.queue = lock.queue /\ new.settled = r
  <2> HIDE DEF r
  <2>1. new = [lock EXCEPT !.settled = r]
    BY DEF r, Resume
  <2> QED
    BY <1>2, <2>1 DEF Lock
<1>4. t \in S /\ t \in Woken(lock)
  <2>1. s[1] \in Settlement(S)
    BY <1>1, <1>2
  <2> QED
    BY <1>2, <2>1 DEF Settlement, Woken, Answers
<1> HIDE DEF r, new, s
<1>5. /\ Distinct(r)
      /\ \A j \in 1 .. Len(r) : \E k \in 1 .. Len(s) : k # 1 /\ r[j] = s[k]
      /\ \A k \in 1 .. Len(s) : k # 1 => \E j \in 1 .. Len(r) : r[j] = s[k]
      /\ \A j \in 1 .. Len(r) : r[j].turn # s[1].turn
  <2>1. /\ s \in Seq(Settlement(S)) /\ r \in Seq(Settlement(S)) /\ 1 \in 1 .. Len(s)
        /\ Without(s, 1, r) /\ Distinct(s)
    BY ONLY <1>1, <1>2
  <2> QED
    BY ONLY SMTT(30), <2>1, WithoutDistinct
<1>6. Waiters(new) = Waiters(lock)
  <2>1. new.queue = lock.queue
    BY <1>3
  <2> QED
    BY ONLY <2>1 DEF Waiters
<1>7. t = s[1].turn
  BY <1>2 DEF s
<1> HIDE DEF t
<1>8. /\ \A e \in Answers(new) : e \in Answers(lock) /\ e.turn # t
      /\ \A e \in Answers(lock) : e \in Answers(new) \/ e.turn = t
  <2>1. ASSUME NEW j \in 1 .. Len(r)
        PROVE  r[j] \in Answers(lock) /\ r[j].turn # t
    BY <1>5, <1>7 DEF Answers, s
  <2>2. ASSUME NEW k \in 1 .. Len(s), k # 1
        PROVE  s[k] \in Answers(new)
    <3>1. PICK j \in 1 .. Len(r) : r[j] = s[k]
      BY ONLY <1>5, <2>2
    <3> QED
      BY ONLY <1>3, <3>1 DEF Answers
  <2> QED
    BY SMTT(20), <1>3, <1>7, <2>1, <2>2 DEF Answers, s
<1>12. Woken(new) = Woken(lock) \ {t}
  BY <1>8 DEF Woken
<1>9. Granted(new) = Granted(lock) \ {t}
  BY <1>8 DEF Granted
<1>13. Yields(lock, new)
  BY <1>3, <1>6, <1>9 DEF Yields, InOrder, Places
<1>10. t \in Granted(lock) <=> s[1].granted
  <2>1. s[1] \in Answers(lock)
    BY <1>2 DEF Answers, s
  <2>2. \A e \in Answers(lock) : e.turn = t => e = s[1]
    BY <1>1, <1>2, <1>7 DEF Answers, Distinct, s
  <2> QED
    BY <1>7, <2>1, <2>2 DEF Granted
<1>11. Awaits(new, T \ {t})
  <2>1. T \ {t} = {x.turn : x \in Waiters(new)} \cup Woken(new)
    BY <1>1, <1>4, <1>6, <1>12
  <2>2. \A x \in Waiters(new) : x.turn \notin Woken(new)
    BY <1>1, <1>6, <1>12
  <2> QED
    BY <1>1, <1>3, <1>5, <2>1, <2>2 DEF Awaits
<1> QED
  BY <1>1, <1>2, <1>3, <1>4, <1>6, <1>9, <1>10, <1>11, <1>13 DEF t, new, s, r

-----------------------------------------------------------------------------
(* The turn context *)

\* A git record whose lock strands no waiter.
ServedGit(T) == {g \in Git(T) : g.lock \in ServedLock(T)}

\* begin() does not touch the lock.
LEMMA BeginType ==
    ASSUME NEW T, NEW g \in ServedGit(T), NEW c \in Channel, NEW u \in User
    PROVE  Begin(g, c, u) \in ServedGit(T)
  BY DEF Begin, ServedGit, Git

\* Nor does a begin() that throws.
LEMMA BeginThrowsType ==
    ASSUME NEW T, NEW g \in ServedGit(T), NEW c \in Channel
    PROVE  BeginThrows(g, c) \subseteq ServedGit(T)
<1> DEFINE begun == [g EXCEPT !.activeTurns = @ \cup {c}, !.identity[c] = NoUser]
<1>1. begun \in ServedGit(T)
  BY DEF ServedGit, Git
<1> QED
  BY <1>1 DEF BeginThrows

\* end() keeps the lock served.
LEMMA EndType ==
    ASSUME NEW T, NEW g \in ServedGit(T), NEW c \in Channel
    PROVE  End(g, c) \in ServedGit(T)
<1>1. g.lock \in Lock(T)
  BY DEF ServedGit, ServedLock
<1>2. Release(g.lock, c) \in ServedLock(T)
  BY <1>1, ReleaseType
<1> QED
  BY <1>2 DEF End, ServedGit, Git, ServedLock

\* abort() keeps the lock served.
LEMMA AbortType ==
    ASSUME NEW T, NEW g \in ServedGit(T), NEW c \in Channel
    PROVE  Abort(g, c) \in ServedGit(T)
<1>1. ReleaseIfHeldBy(g.lock, c) \in ServedLock(T)
  BY ReleaseIfHeldByType DEF ServedGit
<1> QED
  BY <1>1 DEF Abort, ServedGit, Git, ServedLock

\* sweep() does not touch the lock.
LEMMA SweepType ==
    ASSUME NEW T, NEW g \in ServedGit(T)
    PROVE  Sweep(g) \in ServedGit(T)
  BY DEF Sweep, ServedGit, Git

\* Any new lock that strands no waiter may replace the old one.
LEMMA LockUpdateType ==
    ASSUME NEW T, NEW g \in ServedGit(T), NEW lock \in ServedLock(T)
    PROVE  [g EXCEPT !.lock = lock] \in ServedGit(T)
  BY DEF ServedGit, Git, ServedLock

\* Turns that started meanwhile change nothing.
LEMMA ServedGitMonotone ==
    ASSUME NEW S, NEW T, S \subseteq T, NEW g \in ServedGit(S)
    PROVE  g \in ServedGit(T)
<1>1. Waiter(S) \subseteq Waiter(T) /\ Settlement(S) \subseteq Settlement(T)
  BY DEF Waiter, Settlement
<1>2. g.lock \in Lock(S)
  BY DEF ServedGit, ServedLock
<1>3. /\ g.lock.queue \in Seq(Waiter(T))
      /\ g.lock.settled \in Seq(Settlement(T))
  BY <1>1, <1>2, SeqMonotone DEF Lock
<1>4. g.lock \in ServedLock(T)
  BY <1>2, <1>3 DEF ServedGit, ServedLock, Lock
<1> QED
  BY <1>4 DEF ServedGit, Git, ServedLock

-----------------------------------------------------------------------------
(* The session manager *)

\* The variables a turn or a session's end changes.
CoreType ==
    /\ git \in ServedGit(TurnId)
    /\ sessions \in [Channel -> 0 .. Len(obj)]
    /\ recency \in Seq(SessionId)
    /\ obj \in Seq(ManagedSession)
    /\ turns \in Seq(Turn)
    /\ openTurn \in [Channel -> Nat]
    /\ live \in [Channel -> LiveRow]
    /\ killed \in [Channel -> Nat]

\* The variables they leave alone.
RestType ==
    /\ pending \in [Channel -> Pending]
    /\ callers \in Seq(Caller)
    /\ span \in Seq(Teardown \cup {TeardownRest} \cup Create)
    /\ gates \in Seq(User)
    /\ sent \in Nat
    /\ epoch \in [Channel -> Nat]
    /\ shutdown \in BOOLEAN

TypeInv == CoreType /\ RestType

\* The invariant says no more and no less than the two properties proved.
LEMMA TypeInvMeaning == TypeInv <=> TypeOK /\ NoStrandedWaiter
<1>1. git \in ServedGit(TurnId) <=> git \in Git(TurnId) /\ NoStrandedWaiter
  BY DEF ServedGit, Git, ServedLock, NoStrandedWaiter
<1> QED
  BY <1>1 DEF TypeInv, CoreType, RestType, TypeOK

-----------------------------------------------------------------------------
(* Data *)

\* Replacing one element of a sequence.
LEMMA UpdateType ==
    ASSUME NEW S, NEW o \in Seq(S), NEW i \in 1 .. Len(o), NEW v \in S
    PROVE  /\ [o EXCEPT ![i] = v] \in Seq(S)
           /\ Len([o EXCEPT ![i] = v]) = Len(o)
  OBVIOUS

\* Appending to a sequence makes its index set one larger.
LEMMA AppendType ==
    ASSUME NEW S, NEW s \in Seq(S), NEW e \in S
    PROVE  Append(s, e) \in Seq(S) \ {<<>>}
<1>1. Len(Append(s, e)) = Len(s) + 1 /\ Len(s) \in Nat /\ Len(<<>>) = 0
  OBVIOUS
<1>2. Append(s, e) # <<>>
  BY <1>1
<1> QED
  BY <1>2

\* Removing a session from the recency order keeps it a sequence of sessions.
LEMMA RemoveFirstType ==
    ASSUME NEW S, NEW s \in Seq(S), NEW e
    PROVE  RemoveFirst(s, e) \in Seq(S)
<1> DEFINE I == {i \in 1 .. Len(s) : s[i] = e}
<1>1. CASE I = {}
  BY <1>1 DEF RemoveFirst
<1>2. CASE I # {}
  <2>1. Len(s) \in Nat /\ I \in SUBSET (1 .. Len(s))
    OBVIOUS
  <2>2. Min(I) \in 1 .. Len(s)
    <3> HIDE DEF I
    <3> QED
      BY <1>2, <2>1, MinType
  <2>3. SelectInSeq(s, LAMBDA v : v = e) = Min(I)
    BY <1>2 DEF SelectInSeq
  <2>4. RemoveFirst(s, e) = RemoveAt(s, Min(I))
    BY <1>2, <2>3 DEF RemoveFirst
  <2> QED
    BY <2>2, <2>4, RemoveAtType
<1> QED
  BY <1>1, <1>2

\* syncLiveStatus() writes a well-formed row.
LEMMA SyncLiveStatusType ==
    ASSUME NEW rows \in [Channel -> LiveRow], NEW s \in ManagedSession
    PROVE  SyncLiveStatus(rows, s) \in [Channel -> LiveRow]
<1>1. Len(s.queue) \in Nat /\ s.prompting \in BOOLEAN
  BY DEF ManagedSession
<1>2. LiveOf(s) \in LiveRow
  BY <1>1 DEF LiveOf, LiveRow
<1> QED
  BY <1>2 DEF SyncLiveStatus

\* abort() and cancelWaiter(), as teardown() calls them, leave a well-formed lock that strands no waiter.
LEMMA AbortTurnType ==
    ASSUME NEW T, NEW g \in ServedGit(T), NEW c \in Channel
    PROVE  AbortTurn(g, c) \in ServedGit(T)
<1> DEFINE a == Abort(g, c)
<1>1. a \in ServedGit(T)
  BY AbortType
<1> HIDE DEF a
<1>2. CancelWaiter(a.lock, c) \in ServedLock(T)
  BY <1>1, CancelWaiterType DEF ServedGit
<1>3. AbortTurn(g, c) = [a EXCEPT !.lock = CancelWaiter(a.lock, c)]
  BY DEF AbortTurn, a
<1> QED
  BY <1>1, <1>2, <1>3, LockUpdateType

\* cancelWaiter(), as Stop calls it, does so too.
LEMMA StopWaitingType ==
    ASSUME NEW T, NEW g \in ServedGit(T), NEW c \in Channel
    PROVE  StopWaiting(g, c) \in ServedGit(T)
<1>1. CancelWaiter(g.lock, c) \in ServedLock(T)
  BY CancelWaiterType DEF ServedGit
<1> QED
  BY <1>1, LockUpdateType DEF StopWaiting

\* A turn's channel is a channel.
LEMMA ChannelOfType ==
    ASSUME CoreType, NEW t \in TurnId
    PROVE  turns[t].session \in SessionId /\ ChannelOf(t) \in Channel
<1>1. turns[t] \in Turn
  BY DEF CoreType, TurnId
<1>2. turns[t].session \in SessionId
  BY <1>1 DEF Turn
<1>3. obj[turns[t].session] \in ManagedSession
  BY <1>2 DEF CoreType, SessionId
<1> QED
  BY <1>2, <1>3 DEF ChannelOf, ManagedSession

-----------------------------------------------------------------------------
(* Helpers of the handlers *)

\* The end of a session (teardown() and the process handlers) preserves the types of what it touches.
LEMMA EndSessionType ==
    ASSUME CoreType, NEW c \in Channel, sessions[c] # 0,
           NEW o \in Seq(ManagedSession), Len(o) = Len(obj),
           NEW k \in [Channel -> Nat],
           NEW process \in {"running", "terminating", "exited"},
           EndSession(c, o, k, process),
           git' \in ServedGit(TurnId),
           turns' \in Seq(Turn), Len(turns') = Len(turns)
    PROVE  CoreType' /\ Len(obj') = Len(obj)
<1> DEFINE s == sessions[c]
           ended == [o[s] EXCEPT !.process   = process,
                                 !.idleTimer = FALSE,
                                 !.plan      = 0,
                                 !.row       = CloseSession(@)]
<1>1. s \in 1 .. Len(o) /\ Len(obj) \in Nat
  BY DEF CoreType
<1>2. o[s] \in ManagedSession /\ o[s].plan \in Nat
  <2>1. o[s] \in ManagedSession
    BY <1>1
  <2> QED
    BY <2>1 DEF ManagedSession
<1>3. CloseSession(o[s].row) \in {"none", "open", "closed"}
  BY <1>2 DEF ManagedSession, CloseSession
<1>4. ended \in ManagedSession
  BY <1>2, <1>3 DEF ManagedSession
<1>5. obj' = [o EXCEPT ![s] = ended]
  BY DEF EndSession
<1>6. obj' \in Seq(ManagedSession) /\ Len(obj') = Len(obj)
  <2> HIDE DEF ended, s
  <2> QED
    BY <1>1, <1>4, <1>5, UpdateType
<1>7. SessionId' = SessionId /\ TurnId' = TurnId /\ Turn' = Turn
  BY <1>6 DEF SessionId, TurnId, Turn
<1>8. sessions' \in [Channel -> 0 .. Len(obj)]
  BY <1>1 DEF EndSession, CoreType
<1>9. recency' \in Seq(SessionId)
  BY RemoveFirstType DEF EndSession, CoreType
<1>10. openTurn' \in [Channel -> Nat]
  BY DEF EndSession, CoreType, PromptComplete
<1>11. live' \in [Channel -> LiveRow]
  BY DEF EndSession, CoreType, RemoveLiveStatus, LiveRow
<1>12. killed' \in [Channel -> Nat]
  BY <1>2 DEF EndSession
<1> QED
  BY <1>6, <1>7, <1>8, <1>9, <1>10, <1>11, <1>12 DEF CoreType

\* A started turn, and what executePrompt() writes before `await acquire()', are well-formed.
LEMMA ExecutePromptType ==
    ASSUME CoreType, NEW o \in Seq(ManagedSession), Len(o) = Len(obj),
           NEW s \in 1 .. Len(o), NEW m \in Message,
           NEW ts \in Seq(Turn), Len(ts) = Len(turns),
           NEW g \in ServedGit(TurnId),
           ExecutePrompt(s, m, o, ts, g),
           sessions' = sessions, recency' \in Seq(SessionId),
           killed' \in [Channel -> Nat]
    PROVE  CoreType' /\ Len(obj') = Len(obj)
<1> DEFINE t == Len(ts) + 1
           c == o[s].channelId
           started == [o[s] EXCEPT !.currentTurnId   = t,
                                   !.cancelRequested = FALSE,
                                   !.prompting       = TRUE,
                                   !.activeUserId    = m.user,
                                   !.idleTimer       = FALSE]
           turn == [session |-> s, phase |-> "acquiring", user |-> m.user]
<1>1. /\ turns' = Append(ts, turn)
      /\ obj' = [o EXCEPT ![s] = started]
      /\ openTurn' = PromptStart(openTurn, c, t)
      /\ live' = SyncLiveStatus(live, started)
      /\ git' = [g EXCEPT !.lock = Acquire(g.lock, t, c)]
  BY DEF ExecutePrompt
<1>2. t \in Nat /\ m.user \in User
  BY DEF Message
<1>3. o[s] \in ManagedSession
  OBVIOUS
<1>4. c \in Channel /\ started \in ManagedSession
  BY <1>2, <1>3 DEF ManagedSession
<1>5. turn \in Turn
  BY <1>2 DEF Turn, SessionId
<1> HIDE DEF t, c, started, turn
<1>6. obj' \in Seq(ManagedSession) /\ Len(obj') = Len(obj)
  BY <1>1, <1>4, UpdateType
<1>7. turns' \in Seq(Turn) /\ Len(turns') = t /\ t = Len(turns) + 1
  BY <1>1, <1>5 DEF t
<1>8. SessionId' = SessionId /\ Turn' = Turn
  BY <1>6 DEF SessionId, Turn
<1>9. TurnId \subseteq 1 .. t /\ t \in 1 .. t
  BY <1>2, <1>7 DEF TurnId, CoreType
<1>10. g \in ServedGit(1 .. t)
  BY <1>9, ServedGitMonotone
<1>11. Acquire(g.lock, t, c) \in ServedLock(1 .. t)
  BY <1>4, <1>9, <1>10, AcquireType DEF ServedGit
<1>12. git' \in ServedGit(TurnId')
  BY <1>1, <1>7, <1>10, <1>11, LockUpdateType DEF TurnId
<1>13. openTurn' \in [Channel -> Nat]
  BY <1>1, <1>2 DEF PromptStart, CoreType
<1>14. live' \in [Channel -> LiveRow]
  BY <1>1, <1>4, SyncLiveStatusType DEF CoreType
<1>15. sessions' \in [Channel -> 0 .. Len(obj')]
  BY <1>6 DEF CoreType
<1> QED
  BY <1>6, <1>7, <1>8, <1>12, <1>13, <1>14, <1>15 DEF CoreType

\* The turn of a frame that returns.
LEMMA DoneType ==
    ASSUME CoreType, NEW t \in TurnId, NEW phase \in {"acquiring", "prompting", "done"}
    PROVE  /\ [turns EXCEPT ![t].phase = phase] \in Seq(Turn)
           /\ Len([turns EXCEPT ![t].phase = phase]) = Len(turns)
<1> DEFINE v == [turns[t] EXCEPT !.phase = phase]
<1>1. t \in 1 .. Len(turns) /\ turns \in Seq(Turn)
  BY DEF CoreType, TurnId
<1>2. turns[t] \in Turn
  BY <1>1
<1>3. v \in Turn
  BY <1>2 DEF Turn
<1>4. [turns EXCEPT ![t].phase = phase] = [turns EXCEPT ![t] = v]
  OBVIOUS
<1> HIDE DEF v
<1> QED
  BY <1>1, <1>3, <1>4, UpdateType

\* Two frames with the same lengths speak of the same ids.
LEMMA SameIds ==
    ASSUME Len(obj') = Len(obj), Len(turns') = Len(turns)
    PROVE  SessionId' = SessionId /\ TurnId' = TurnId /\ Turn' = Turn /\ Caller' = Caller
  BY DEF SessionId, TurnId, Turn, Caller

\* The success path of a turn, with the drain of the queue, preserves the types.
LEMMA SettleTurnType ==
    ASSUME CoreType, NEW t \in TurnId, NEW g \in ServedGit(TurnId), SettleTurn(t, g)
    PROVE  CoreType' /\ Len(obj') = Len(obj)
<1> DEFINE s  == turns[t].session
           c  == ChannelOf(t)
           q  == obj[s].queue
           ts == [turns EXCEPT ![t].phase = "done"]
           idle  == [obj[s] EXCEPT !.prompting = FALSE]
           armed == [obj[s] EXCEPT !.prompting = FALSE, !.idleTimer = TRUE]
           drained == [obj[s] EXCEPT !.queue = Tail(q)]
<1>1. s \in SessionId /\ c \in Channel
  BY ChannelOfType
<1>2. s \in 1 .. Len(obj) /\ obj \in Seq(ManagedSession)
  BY <1>1 DEF SessionId, CoreType
<1>3. obj[s] \in ManagedSession
  BY <1>2
<1>4. ts \in Seq(Turn) /\ Len(ts) = Len(turns)
  BY DoneType
<1>5. idle \in ManagedSession /\ armed \in ManagedSession
  BY <1>3 DEF ManagedSession
<1>6. UNCHANGED <<sessions, recency, killed>>
  BY DEF SettleTurn
<1>7. CASE /\ obj' = [obj EXCEPT ![s].prompting = FALSE]
           /\ openTurn' = PromptComplete(openTurn, c)
           /\ turns' = ts /\ git' = g
           /\ UNCHANGED live
  <2>1. obj' = [obj EXCEPT ![s] = idle]
    BY <1>7
  <2> HIDE DEF idle, s, ts, c
  <2>2. obj' \in Seq(ManagedSession) /\ Len(obj') = Len(obj)
    BY <1>2, <1>5, <2>1, UpdateType
  <2>3. SessionId' = SessionId /\ TurnId' = TurnId /\ Turn' = Turn
    BY <1>4, <1>7, <2>2, SameIds
  <2> QED
    BY <1>4, <1>6, <1>7, <2>2, <2>3 DEF CoreType, PromptComplete
<1>8. CASE /\ obj' = [obj EXCEPT ![s] = armed]
           /\ openTurn' = PromptComplete(openTurn, c)
           /\ live' = SyncLiveStatus(live, obj'[s])
           /\ turns' = ts /\ git' = g
  <2> HIDE DEF armed, s, ts, c
  <2>1. obj' = [obj EXCEPT ![s] = armed] /\ obj'[s] = armed
    BY <1>2, <1>8
  <2>2. obj' \in Seq(ManagedSession) /\ Len(obj') = Len(obj)
    BY <1>2, <1>5, <2>1, UpdateType
  <2>3. SessionId' = SessionId /\ TurnId' = TurnId /\ Turn' = Turn
    BY <1>4, <1>8, <2>2, SameIds
  <2>4. live' \in [Channel -> LiveRow]
    BY <1>5, <1>8, <2>1, SyncLiveStatusType DEF CoreType
  <2> QED
    BY <1>4, <1>6, <1>8, <2>2, <2>3, <2>4 DEF CoreType, PromptComplete
<1>9. CASE /\ q # <<>>
           /\ ExecutePrompt(s, Head(q), [obj EXCEPT ![s].queue = Tail(q)], ts, g)
  <2>1. q \in Seq(Message) /\ q # <<>>
    BY <1>3, <1>9 DEF ManagedSession
  <2>2. Head(q) \in Message /\ Tail(q) \in Seq(Message)
    BY <2>1
  <2>3. drained \in ManagedSession
    BY <1>3, <2>2 DEF ManagedSession
  <2>4. [obj EXCEPT ![s].queue = Tail(q)] = [obj EXCEPT ![s] = drained]
    OBVIOUS
  <2>5. ExecutePrompt(s, Head(q), [obj EXCEPT ![s] = drained], ts, g)
    BY <1>9, <2>4
  <2> HIDE DEF drained, s, ts, q
  <2>6. /\ [obj EXCEPT ![s] = drained] \in Seq(ManagedSession)
        /\ Len([obj EXCEPT ![s] = drained]) = Len(obj)
    BY <1>2, <2>3, UpdateType
  <2>7. recency' \in Seq(SessionId) /\ killed' \in [Channel -> Nat]
    BY <1>6 DEF CoreType
  <2> QED
    BY <1>2, <1>4, <1>6, <2>2, <2>5, <2>6, <2>7, ExecutePromptType
<1> QED
  BY <1>7, <1>8, <1>9 DEF SettleTurn

\* The error path of a turn, with the teardown of its channel, preserves the types.
LEMMA FailTurnType ==
    ASSUME CoreType, NEW t \in TurnId, NEW g \in ServedGit(TurnId), FailTurn(t, g)
    PROVE  CoreType' /\ Len(obj') = Len(obj)
<1> DEFINE s == turns[t].session
           c == ChannelOf(t)
           idle == [obj[s] EXCEPT !.prompting = FALSE]
           o == [obj EXCEPT ![s] = idle]
<1>1. s \in SessionId /\ c \in Channel
  BY ChannelOfType
<1>2. s \in 1 .. Len(obj) /\ obj \in Seq(ManagedSession)
  BY <1>1 DEF SessionId, CoreType
<1>3. obj[s] \in ManagedSession
  BY <1>2
<1>4. idle \in ManagedSession
  BY <1>3 DEF ManagedSession
<1>5. o \in Seq(ManagedSession) /\ Len(o) = Len(obj)
  <2> HIDE DEF idle, s
  <2> QED
    BY <1>2, <1>4, UpdateType
<1>6. turns' \in Seq(Turn) /\ Len(turns') = Len(turns) /\ git' = g
  BY DoneType DEF FailTurn
<1>7. [obj EXCEPT ![turns[t].session].prompting = FALSE] = o
  OBVIOUS
<1> HIDE DEF s, c, o, idle
<1>8. CASE /\ obj' = o
           /\ openTurn' = PromptComplete(openTurn, c)
           /\ UNCHANGED <<sessions, recency, live, killed>>
  <2>1. SessionId' = SessionId /\ TurnId' = TurnId /\ Turn' = Turn
    BY <1>5, <1>6, <1>8, SameIds
  <2> QED
    BY <1>1, <1>5, <1>6, <1>8, <2>1 DEF CoreType, PromptComplete
<1>9. CASE sessions[c] # 0 /\ EndSession(c, o, killed, "terminating")
  <2>1. killed \in [Channel -> Nat]
    BY DEF CoreType
  <2> QED
    BY <1>1, <1>5, <1>6, <1>9, <2>1, EndSessionType
<1> QED
  BY <1>7, <1>8, <1>9 DEF FailTurn, c, s

\* The catch block passes on a lock that strands no waiter.
LEMMA AfterCatchType ==
    ASSUME NEW T, NEW g \in ServedGit(T), NEW c \in Channel
    PROVE  AfterCatch(g, c) \in ServedGit(T)
  BY AbortTurnType DEF AfterCatch

\* A session that cancel() has worked on is a session.
LEMMA CancelledType ==
    ASSUME NEW s \in ManagedSession
    PROVE  Cancelled(s) \in ManagedSession
<1>1. <<>> \in Seq(Message)
  OBVIOUS
<1> QED
  BY <1>1 DEF Cancelled, ManagedSession

\* prompt() behind `await getOrCreate()' preserves the types on each of its four ways out.
LEMMA ContinuePromptType ==
    ASSUME CoreType, NEW s \in SessionId, NEW m \in Message, ContinuePrompt(s, m)
    PROVE  CoreType' /\ Len(obj') = Len(obj)
<1> DEFINE c == obj[s].channelId
           superseded == obj[s].plan # 0 /\ obj[s].prompting
           touched == [obj[s] EXCEPT !.idleTimer = TRUE]
           now == IF superseded THEN Cancelled(touched) ELSE touched
           o == [obj EXCEPT ![s] = now]
           g == IF superseded THEN StopWaiting(git, c) ELSE git
           k == ForgetKilledPlan(killed, c)
           queued == [now EXCEPT !.queue = Append(@, m)]
           touch == recency' = IF sessions[c] = s
                               THEN Append(RemoveFirst(recency, s), s)
                               ELSE recency
<1>1. /\ s \in 1 .. Len(obj) /\ obj \in Seq(ManagedSession)
      /\ recency \in Seq(SessionId)
      /\ killed \in [Channel -> Nat] /\ git \in ServedGit(TurnId)
      /\ turns \in Seq(Turn) /\ live \in [Channel -> LiveRow]
  BY DEF CoreType, SessionId
<1>2. obj[s] \in ManagedSession
  BY <1>1
<1>3. c \in Channel /\ touched \in ManagedSession
  BY <1>2 DEF ManagedSession
<1>4. now \in ManagedSession
  BY <1>3, CancelledType
<1>5. o \in Seq(ManagedSession) /\ Len(o) = Len(obj) /\ o[s] = now
  <2> HIDE DEF now
  <2> QED
    BY <1>1, <1>4, UpdateType
<1>6. g \in ServedGit(TurnId)
  BY <1>1, <1>3, StopWaitingType
<1>7. k \in [Channel -> Nat]
  BY <1>1 DEF ForgetKilledPlan
<1>8. touch => recency' \in Seq(SessionId)
  <2>1. RemoveFirst(recency, s) \in Seq(SessionId)
    BY <1>1, RemoveFirstType
  <2> QED
    BY <1>1, <2>1
<1>9. queued \in ManagedSession
  <2> HIDE DEF now
  <2>1. Append(now.queue, m) \in Seq(Message)
    BY <1>4 DEF ManagedSession
  <2> QED
    BY <1>4, <2>1 DEF ManagedSession
<1>10. \/ /\ sessions[c] # 0
          /\ EndSession(c, o, k, "terminating")
          /\ git' = AbortTurn(g, c)
          /\ UNCHANGED turns
       \/ /\ obj' = o /\ git' = g /\ killed' = k
          /\ live' = IF superseded THEN SyncLiveStatus(live, now) ELSE live
          /\ touch
          /\ UNCHANGED <<sessions, turns, openTurn>>
       \/ /\ obj' = [o EXCEPT ![s].queue = Append(@, m)]
          /\ git' = g /\ killed' = k
          /\ live' = SyncLiveStatus(live, obj'[s])
          /\ touch
          /\ UNCHANGED <<sessions, turns, openTurn>>
       \/ /\ ExecutePrompt(s, m, o, turns, g)
          /\ killed' = k
          /\ touch
          /\ UNCHANGED sessions
  BY DEF ContinuePrompt
<1> HIDE DEF c, superseded, touched, now, o, g, k, touch
<1>11. CASE /\ sessions[c] # 0
            /\ EndSession(c, o, k, "terminating")
            /\ git' = AbortTurn(g, c)
            /\ UNCHANGED turns
  <2>1. git' \in ServedGit(TurnId)
    BY <1>3, <1>6, <1>11, AbortTurnType
  <2> QED
    BY <1>1, <1>3, <1>5, <1>7, <1>11, <2>1, EndSessionType
<1>12. CASE /\ obj' = o /\ git' = g /\ killed' = k
            /\ live' = IF superseded THEN SyncLiveStatus(live, now) ELSE live
            /\ touch
            /\ UNCHANGED <<sessions, turns, openTurn>>
  <2>1. SessionId' = SessionId /\ TurnId' = TurnId /\ Turn' = Turn
    BY <1>5, <1>12, SameIds
  <2>2. live' \in [Channel -> LiveRow]
    BY <1>1, <1>4, <1>12, SyncLiveStatusType
  <2> QED
    BY <1>5, <1>6, <1>7, <1>8, <1>12, <2>1, <2>2 DEF CoreType
<1>13. CASE /\ obj' = [o EXCEPT ![s].queue = Append(@, m)]
            /\ git' = g /\ killed' = k
            /\ live' = SyncLiveStatus(live, obj'[s])
            /\ touch
            /\ UNCHANGED <<sessions, turns, openTurn>>
  <2>1. obj' = [o EXCEPT ![s] = queued]
    BY <1>5, <1>13
  <2> HIDE DEF queued
  <2>2. obj' \in Seq(ManagedSession) /\ Len(obj') = Len(obj) /\ obj'[s] = queued
    BY <1>1, <1>5, <1>9, <2>1, UpdateType
  <2>3. SessionId' = SessionId /\ TurnId' = TurnId /\ Turn' = Turn
    BY <1>13, <2>2, SameIds
  <2>4. live' \in [Channel -> LiveRow]
    BY <1>1, <1>9, <1>13, <2>2, SyncLiveStatusType
  <2> QED
    BY <1>6, <1>7, <1>8, <1>13, <2>2, <2>3, <2>4 DEF CoreType
<1>14. CASE /\ ExecutePrompt(s, m, o, turns, g)
            /\ killed' = k
            /\ touch
            /\ UNCHANGED sessions
  BY <1>1, <1>5, <1>6, <1>7, <1>8, <1>14, ExecutePromptType
<1> QED
  BY <1>10, <1>11, <1>12, <1>13, <1>14

\* What the helpers leave alone keeps its type.
LEMMA RestUnchanged ==
    ASSUME RestType, Len(obj') = Len(obj),
           UNCHANGED <<pending, callers, span, gates, sent, epoch, shutdown>>
    PROVE  RestType'
<1>1. Caller' = Caller
  BY DEF Caller, SessionId
<1> QED
  BY <1>1 DEF RestType

\* A session's end by teardown() in some callback.
LEMMA TeardownType ==
    ASSUME CoreType, NEW c \in Channel, sessions[c] # 0,
           NEW o \in Seq(ManagedSession), Len(o) = Len(obj),
           EndSession(c, o, killed, "terminating"),
           git' = AbortTurn(git, c), UNCHANGED turns
    PROVE  CoreType' /\ Len(obj') = Len(obj)
<1>1. /\ git' \in ServedGit(TurnId)
      /\ turns' \in Seq(Turn) /\ Len(turns') = Len(turns)
      /\ killed \in [Channel -> Nat]
  BY AbortTurnType DEF CoreType
<1> QED
  BY <1>1, EndSessionType

\* Changing session objects alone.
LEMMA ObjectsType ==
    ASSUME CoreType, obj' \in Seq(ManagedSession), Len(obj') = Len(obj),
           UNCHANGED <<git, sessions, recency, turns, openTurn, live, killed>>
    PROVE  CoreType'
<1>1. SessionId' = SessionId /\ TurnId' = TurnId /\ Turn' = Turn
  BY DEF SessionId, TurnId, Turn
<1> QED
  BY <1>1 DEF CoreType

\* prompt() up to its first await preserves the invariant, whichever way it goes.
LEMMA RequestPromptType ==
    ASSUME TypeInv, NEW c \in Channel, NEW m \in Message,
           NEW k \in [Channel -> Nat], RequestPrompt(c, m, k)
    PROVE  TypeInv'
<1>1. /\ sent' \in Nat
      /\ UNCHANGED <<callers, gates, epoch, shutdown>>
  BY DEF RequestPrompt, TypeInv, RestType
<1>2. CASE /\ sessions[c] # 0
           /\ ContinuePrompt(sessions[c], m)
           /\ UNCHANGED <<pending, span>>
  <2>1. sessions[c] \in SessionId
    BY <1>2 DEF TypeInv, CoreType, SessionId
  <2>2. CoreType' /\ Len(obj') = Len(obj)
    BY <1>2, <2>1, ContinuePromptType DEF TypeInv
  <2>3. Caller' = Caller
    BY <2>2 DEF Caller, SessionId
  <2> QED
    BY <1>1, <1>2, <2>2, <2>3 DEF TypeInv, RestType
<1>3. CASE /\ pending[c].stage # "none"
           /\ pending' = [pending EXCEPT ![c].callers = Append(@, m)]
           /\ killed' = k
           /\ UNCHANGED <<git, sessions, recency, obj, turns, span, openTurn, live>>
  <2> DEFINE p == [pending[c] EXCEPT !.callers = Append(@, m)]
  <2>1. pending[c] \in Pending \ {NoPending}
    BY <1>3 DEF TypeInv, RestType, Pending, NoPending
  <2>2. pending[c].callers \in Seq(Message)
    BY <2>1 DEF Pending
  <2>3. Append(pending[c].callers, m) \in Seq(Message) \ {<<>>}
    BY <2>2, AppendType
  <2>4. p \in Pending
    BY <2>1, <2>3 DEF Pending
  <2>5. pending' = [pending EXCEPT ![c] = p] /\ pending \in [Channel -> Pending]
    BY <1>3 DEF TypeInv, RestType
  <2> HIDE DEF p
  <2>6. pending' \in [Channel -> Pending]
    BY <2>4, <2>5
  <2>7. CoreType'
    BY <1>3 DEF TypeInv, CoreType, SessionId, TurnId, Turn
  <2> QED
    BY <1>1, <1>3, <2>6, <2>7 DEF TypeInv, RestType, Caller, SessionId
<1>4. CASE /\ span' = <<[op |-> "create", channel |-> c, message |-> m]>>
           /\ killed' = k
           /\ UNCHANGED <<git, sessions, recency, obj, turns, pending, openTurn, live>>
  <2>1. [op |-> "create", channel |-> c, message |-> m] \in Create
    BY DEF Create
  <2>2. span' \in Seq(Teardown \cup {TeardownRest} \cup Create)
    BY <1>4, <2>1
  <2>3. CoreType'
    BY <1>4 DEF TypeInv, CoreType, SessionId, TurnId, Turn
  <2> QED
    BY <1>1, <1>4, <2>2, <2>3 DEF TypeInv, RestType, Caller, SessionId
<1> QED
  BY <1>2, <1>3, <1>4 DEF RequestPrompt

-----------------------------------------------------------------------------
(* One lemma per action *)

\* The invariant survives Prompt.
LEMMA PromptStep ==
    ASSUME TypeInv, NEW c \in Channel, NEW m \in Message, Prompt(c, m)
    PROVE  TypeInv'
<1>1. killed \in [Channel -> Nat] /\ RequestPrompt(c, m, killed)
  BY DEF Prompt, TypeInv, CoreType
<1> QED
  BY <1>1, RequestPromptType

\* The eviction victim, if there is one, is a mapped session.
LEMMA LongestIdleType ==
    ASSUME CoreType, LongestIdle # 0
    PROVE  LongestIdle \in 1 .. Len(recency) /\ InMap(recency[LongestIdle])
<1> DEFINE I == {i \in 1 .. Len(recency) :
                   InMap(recency[i]) /\ ~obj[recency[i]].prompting}
<1>1. LongestIdle = IF I # {} THEN Min(I) ELSE 0
  BY DEF LongestIdle, SelectInSeq
<1>2. Len(recency) \in Nat /\ I \in SUBSET (1 .. Len(recency))
  BY DEF CoreType
<1>3. I # {} => Min(I) \in I
  <2> HIDE DEF I
  <2> QED
    BY <1>2, MinType
<1> QED
  BY <1>1, <1>2, <1>3

\* A channel's latest row is one of its session objects, or there is none.
LEMMA LatestRowType ==
    ASSUME CoreType, NEW c \in Channel
    PROVE  LatestRow(c) \in 0 .. Len(obj)
<1> DEFINE R == {i \in SessionId : obj[i].channelId = c /\ obj[i].row # "none"}
<1>1. LatestRow(c) = IF R = {} THEN 0 ELSE Max(R)
  BY DEF LatestRow
<1>2. Len(obj) \in Nat /\ R \in SUBSET (1 .. Len(obj))
  BY DEF CoreType, SessionId
<1>3. R # {} => Max(R) \in 1 .. Len(obj)
  <2> HIDE DEF R
  <2> QED
    BY <1>2, MaxType
<1> QED
  BY <1>1, <1>2, <1>3

\* The invariant survives CreateStep.
LEMMA CreateStepStep ==
    ASSUME TypeInv, CreateStep
    PROVE  TypeInv'
<1> DEFINE c == Head(span).channel
           m == Head(span).message
           started ==
             [stage     |-> IF Resumable(c) THEN "load" ELSE "create",
              cancelled |-> FALSE,
              callers   |-> <<m>>,
              epoch     |-> IF Resumable(c) THEN obj[LatestRow(c)].epoch ELSE 0]
<1>1. /\ span \in Seq(Teardown \cup {TeardownRest} \cup Create) /\ span # <<>>
      /\ CoreType /\ RestType
  BY DEF CreateStep, TypeInv, RestType
<1>2. Head(span) \in Create /\ Tail(span) \in Seq(Teardown \cup {TeardownRest} \cup Create)
  <2>1. Head(span) \in Teardown \cup {TeardownRest} \cup Create
    BY <1>1
  <2> QED
    BY <1>1, <2>1 DEF CreateStep, Teardown, TeardownRest
<1>3. c \in Channel /\ m \in Message
  BY <1>2 DEF Create
<1>4. UNCHANGED <<turns, callers, gates, sent, epoch, shutdown>>
  BY DEF CreateStep
<1>5. CASE /\ LongestIdle # 0
           /\ LET victim == obj[recency[LongestIdle]].channelId
              IN  /\ EndSession(victim, obj, killed, "terminating")
                  /\ git' = AbortTurn(git, victim)
           /\ UNCHANGED <<pending, span>>
  <2> DEFINE s == recency[LongestIdle]
  <2>1. s \in 1 .. Len(obj) /\ InMap(s)
    BY <1>1, <1>5, LongestIdleType DEF CoreType, SessionId
  <2>2. obj \in Seq(ManagedSession) /\ obj[s] \in ManagedSession
    BY <1>1, <2>1 DEF CoreType
  <2>3. obj[s].channelId \in Channel /\ sessions[obj[s].channelId] # 0
    BY <2>1, <2>2 DEF ManagedSession, InMap
  <2>4. CoreType' /\ Len(obj') = Len(obj)
    BY <1>1, <1>4, <1>5, <2>2, <2>3, TeardownType
  <2> QED
    BY <1>1, <1>4, <1>5, <2>4, RestUnchanged DEF TypeInv
<1>6. CASE /\ span' = Tail(span)
           /\ UNCHANGED <<git, sessions, recency, obj, pending, openTurn, live, killed>>
  BY <1>1, <1>2, <1>4, <1>6
  DEF TypeInv, CoreType, RestType, SessionId, TurnId, Turn, Caller
<1>7. CASE /\ span' = Tail(span)
           /\ pending' = [pending EXCEPT ![c] = started]
           /\ UNCHANGED <<git, sessions, recency, obj, openTurn, live, killed>>
  <2>1. Resumable(c) => obj[LatestRow(c)].epoch \in Nat
    <3>1. Resumable(c) => LatestRow(c) \in 1 .. Len(obj)
      BY <1>1, <1>3, LatestRowType DEF Resumable
    <3>2. Resumable(c) => obj[LatestRow(c)] \in ManagedSession
      BY <1>1, <3>1 DEF CoreType
    <3> QED
      BY <3>2 DEF ManagedSession
  <2>2. <<m>> \in Seq(Message) \ {<<>>}
    BY <1>3
  <2>3. started \in Pending
    BY <2>1, <2>2 DEF Pending
  <2> HIDE DEF started
  <2>4. pending' \in [Channel -> Pending]
    BY <1>1, <1>7, <2>3 DEF RestType
  <2> QED
    BY <1>1, <1>2, <1>4, <1>7, <2>4
    DEF TypeInv, CoreType, RestType, SessionId, TurnId, Turn, Caller
<1> QED
  BY <1>5, <1>6, <1>7 DEF CreateStep

\* A session object enters the map.
LEMMA InstallSessionStep ==
    ASSUME TypeInv, NEW c \in Channel, pending[c].stage # "none",
           NEW o \in Seq(ManagedSession), Len(o) = Len(obj),
           NEW memory \in Nat, NEW imageCapable \in BOOLEAN, NEW inserted \in BOOLEAN,
           InstallSession(c, o, memory, imageCapable, inserted)
    PROVE  TypeInv'
<1> DEFINE s == Len(o) + 1
           p == pending[c]
           new == [channelId |-> c, process |-> "running", prompting |-> FALSE,
                   currentTurnId |-> 0, cancelRequested |-> FALSE,
                   queue |-> <<>>, imageCapable |-> imageCapable,
                   activeUserId |-> Head(p.callers).user, idleTimer |-> TRUE,
                   plan |-> 0, row |-> IF inserted THEN "open" ELSE "none",
                   acp |-> inserted, epoch |-> memory]
<1>1. /\ obj' = Append(o, new)
      /\ sessions' = [sessions EXCEPT ![c] = s]
      /\ recency' = Append(recency, s)
      /\ live' = SyncLiveStatus(live, new)
      /\ pending' = [pending EXCEPT ![c] = NoPending]
      /\ callers' = [i \in 1 .. Len(p.callers) |->
                       [session |-> s, message |-> p.callers[i]]]
      /\ UNCHANGED <<git, turns, span, openTurn, killed, gates, sent, epoch, shutdown>>
  BY DEF InstallSession
<1>2. CoreType /\ RestType
  BY DEF TypeInv
<1>3. p \in Pending \ {NoPending}
  BY <1>2 DEF RestType, Pending, NoPending
<1>4. p.callers \in Seq(Message) /\ p.callers # <<>>
  BY <1>3 DEF Pending
<1>5. Head(p.callers).user \in User
  <2>1. Head(p.callers) \in Message
    BY <1>4
  <2> QED
    BY <2>1 DEF Message
<1>6. new \in ManagedSession
  <2>1. <<>> \in Seq(Message)
    OBVIOUS
  <2> QED
    BY <1>5, <2>1 DEF ManagedSession
<1> HIDE DEF s, p, new
<1>7. obj' \in Seq(ManagedSession) /\ Len(obj') = s /\ s \in Nat /\ s = Len(obj) + 1
  BY <1>1, <1>6 DEF s
<1>8. SessionId \subseteq SessionId' /\ s \in SessionId'
  BY <1>7 DEF SessionId
<1>9. sessions' \in [Channel -> 0 .. Len(obj')]
  BY <1>1, <1>2, <1>7 DEF CoreType
<1>10. recency' \in Seq(SessionId')
  <2>1. recency \in Seq(SessionId')
    BY <1>2, <1>8, SeqMonotone DEF CoreType
  <2> QED
    BY <1>1, <1>8, <2>1
<1>11. turns' \in Seq(Turn')
  <2>1. Turn \subseteq Turn'
    BY <1>8 DEF Turn
  <2> QED
    BY <1>1, <1>2, <2>1, SeqMonotone DEF CoreType
<1>12. live' \in [Channel -> LiveRow]
  BY <1>1, <1>2, <1>6, SyncLiveStatusType DEF CoreType
<1>13. pending' \in [Channel -> Pending]
  BY <1>1, <1>2 DEF RestType, Pending
<1>14. callers' \in Seq(Caller')
  <2>1. \A i \in 1 .. Len(p.callers) :
          [session |-> s, message |-> p.callers[i]] \in Caller'
    BY <1>4, <1>8 DEF Caller
  <2>2. Len(p.callers) \in Nat
    BY <1>4
  <2> QED
    BY <1>1, <2>1, <2>2
<1>15. TurnId' = TurnId
  BY <1>1 DEF TurnId
<1>16. CoreType'
  BY <1>1, <1>2, <1>7, <1>9, <1>10, <1>11, <1>12, <1>15 DEF CoreType
<1>17. RestType'
  BY <1>1, <1>2, <1>13, <1>14 DEF RestType
<1> QED
  BY <1>16, <1>17 DEF TypeInv

\* Only pendingSessions changes.
LEMMA PendingStep ==
    ASSUME TypeInv, pending' \in [Channel -> Pending],
           UNCHANGED <<git, sessions, recency, obj, turns, callers, span, openTurn,
                       live, killed, gates, sent, epoch, shutdown>>
    PROVE  TypeInv'
  BY DEF TypeInv, CoreType, RestType, SessionId, TurnId, Turn, Caller

\* The invariant survives FallBackToCreate.
LEMMA FallBackToCreateStep ==
    ASSUME TypeInv, NEW c \in Channel, pending[c].stage # "none", FallBackToCreate(c)
    PROVE  TypeInv'
<1> DEFINE p == [pending[c] EXCEPT !.stage = "create"]
<1>1. pending \in [Channel -> Pending] /\ pending[c] \in Pending \ {NoPending}
  BY DEF TypeInv, RestType, Pending, NoPending
<1>2. p \in Pending
  BY <1>1 DEF Pending
<1>3. pending' = [pending EXCEPT ![c] = p]
  BY DEF FallBackToCreate
<1> HIDE DEF p
<1>4. pending' \in [Channel -> Pending]
  BY <1>1, <1>2, <1>3
<1> QED
  BY <1>4, PendingStep DEF FallBackToCreate

\* The invariant survives LoadResolves.
LEMMA LoadResolvesStep ==
    ASSUME TypeInv, NEW c \in Channel, LoadResolves(c)
    PROVE  TypeInv'
<1> DEFINE r == LatestRow(c)
           closed == [obj[r] EXCEPT !.row = CloseSession(@)]
<1>1. pending[c].stage # "none" /\ CoreType
  BY DEF LoadResolves, TypeInv
<1>2. CASE FallBackToCreate(c)
  BY <1>1, <1>2, FallBackToCreateStep
<1>3. CASE /\ Resumable(c)
           /\ \E imageCapable \in {TRUE, ~Images}, inserted \in {TRUE, ~Faults} :
                InstallSession(c, [obj EXCEPT ![r].row = CloseSession(@)],
                               pending[c].epoch, imageCapable, inserted)
  <2>1. r \in 1 .. Len(obj)
    BY <1>1, <1>3, LatestRowType DEF Resumable
  <2>2. obj \in Seq(ManagedSession) /\ obj[r] \in ManagedSession
    BY <1>1, <2>1 DEF CoreType
  <2>3. closed \in ManagedSession
    BY <2>2 DEF ManagedSession, CloseSession
  <2>4. [obj EXCEPT ![r].row = CloseSession(@)] = [obj EXCEPT ![r] = closed]
    OBVIOUS
  <2>5. pending[c] \in Pending \ {NoPending}
    BY <1>1 DEF TypeInv, RestType, Pending, NoPending
  <2>6. pending[c].epoch \in Nat
    BY <2>5 DEF Pending
  <2>7. PICK imageCapable \in BOOLEAN, inserted \in BOOLEAN :
          InstallSession(c, [obj EXCEPT ![r] = closed], pending[c].epoch,
                         imageCapable, inserted)
    BY <1>3, <2>4, BoundsAssumption, Zenon
  <2> HIDE DEF r, closed
  <2>8. /\ [obj EXCEPT ![r] = closed] \in Seq(ManagedSession)
        /\ Len([obj EXCEPT ![r] = closed]) = Len(obj)
    BY <2>1, <2>2, <2>3, UpdateType
  <2> QED
    BY <1>1, <2>6, <2>7, <2>8, InstallSessionStep
<1> QED
  BY <1>2, <1>3 DEF LoadResolves

\* The invariant survives LoadRejects.
LEMMA LoadRejectsStep ==
    ASSUME TypeInv, NEW c \in Channel, LoadRejects(c)
    PROVE  TypeInv'
  BY FallBackToCreateStep DEF LoadRejects

\* The invariant survives CreateResolves.
LEMMA CreateResolvesStep ==
    ASSUME TypeInv, NEW c \in Channel, CreateResolves(c)
    PROVE  TypeInv'
<1>1. pending[c].stage # "none"
  BY DEF CreateResolves
<1>2. obj \in Seq(ManagedSession) /\ epoch[c] \in Nat
  BY DEF TypeInv, CoreType, RestType
<1>3. PICK imageCapable \in BOOLEAN, inserted \in BOOLEAN :
        InstallSession(c, obj, epoch[c], imageCapable, inserted)
  BY BoundsAssumption, Zenon DEF CreateResolves
<1> QED
  BY <1>1, <1>2, <1>3, InstallSessionStep

\* The invariant survives CreateRejects.
LEMMA CreateRejectsStep ==
    ASSUME TypeInv, NEW c \in Channel, CreateRejects(c)
    PROVE  TypeInv'
<1>1. pending' \in [Channel -> Pending]
  BY DEF CreateRejects, TypeInv, RestType, Pending
<1> QED
  BY <1>1, PendingStep DEF CreateRejects

\* The invariant survives a prompt() frame that resumes.
LEMMA RunCallerStep ==
    ASSUME TypeInv, RunCaller
    PROVE  TypeInv'
<1>1. callers \in Seq(Caller) /\ callers # <<>> /\ CoreType
  BY DEF RunCaller, TypeInv, RestType
<1>2. Head(callers) \in Caller /\ Tail(callers) \in Seq(Caller)
  BY <1>1
<1>3. Head(callers).session \in SessionId /\ Head(callers).message \in Message
  BY <1>2 DEF Caller
<1>4. CoreType' /\ Len(obj') = Len(obj)
  BY <1>1, <1>3, ContinuePromptType DEF RunCaller
<1>5. Caller' = Caller
  BY <1>4 DEF Caller, SessionId
<1> QED
  BY <1>2, <1>4, <1>5 DEF RunCaller, TypeInv, RestType

\* A step of a turn or a callback that ends in NoOtherFrame.
LEMMA CoreStep ==
    ASSUME TypeInv, CoreType', Len(obj') = Len(obj), NoOtherFrame
    PROVE  TypeInv'
  BY RestUnchanged DEF TypeInv, NoOtherFrame

\* The invariant survives RunWaiter.
LEMMA RunWaiterStep ==
    ASSUME TypeInv, RunWaiter
    PROVE  TypeInv'
<1> DEFINE next == Head(git.lock.settled)
           t == next.turn
           s == turns[t].session
           c == ChannelOf(t)
           g == [git EXCEPT !.lock.settled = Tail(@)]
           begun == Begin(g, c, obj[s].activeUserId)
<1>1. CoreType /\ NoOtherFrame
  BY DEF TypeInv, RunWaiter
<1>2. /\ git \in ServedGit(TurnId) /\ git.lock \in ServedLock(TurnId)
      /\ git.lock.settled \in Seq(Settlement(TurnId))
      /\ git.lock.settled # <<>>
  BY <1>1 DEF RunWaiter, CoreType, ServedGit, ServedLock, Lock
<1>3. next \in Settlement(TurnId)
  BY <1>2
<1>4. t \in TurnId
  BY <1>3 DEF Settlement
<1>5. s \in SessionId /\ c \in Channel
  BY <1>1, <1>4, ChannelOfType
<1>6. g \in ServedGit(TurnId)
  <2> DEFINE rest == [git.lock EXCEPT !.settled = Tail(git.lock.settled)]
  <2>1. rest \in ServedLock(TurnId)
    <3>1. Tail(git.lock.settled) \in Seq(Settlement(TurnId))
      BY <1>2
    <3> QED
      BY <1>2, <3>1 DEF ServedLock, Lock
  <2>2. g = [git EXCEPT !.lock = rest]
    OBVIOUS
  <2> QED
    BY <1>2, <2>1, <2>2, LockUpdateType
<1>7. begun \in ServedGit(TurnId)
  <2>1. obj[s] \in ManagedSession
    BY <1>1, <1>5 DEF CoreType, SessionId
  <2>2. obj[s].activeUserId \in User
    BY <2>1 DEF ManagedSession
  <2> QED
    BY <1>5, <1>6, <2>2, BeginType
<1>8. \/ /\ git' = begun
         /\ turns' = [turns EXCEPT ![t].phase = "prompting"]
         /\ UNCHANGED <<sessions, recency, obj, openTurn, live, killed>>
      \/ SettleTurn(t, End(begun, c))
      \/ \E thrown \in BeginThrows(g, c) :
           LET caught == AfterCatch(thrown, c)
           IN  FailTurn(t, [caught EXCEPT !.lock = ReleaseIfHeldBy(@, c)])
      \/ SettleTurn(t, [g EXCEPT !.lock = ReleaseIfHeldBy(@, c)])
  BY DEF RunWaiter
<1> HIDE DEF next, t, s, c, g, begun
<1>9. CASE /\ git' = begun
           /\ turns' = [turns EXCEPT ![t].phase = "prompting"]
           /\ UNCHANGED <<sessions, recency, obj, openTurn, live, killed>>
  <2>1. turns' \in Seq(Turn) /\ Len(turns') = Len(turns)
    BY <1>1, <1>4, <1>9, DoneType
  <2>2. Len(obj') = Len(obj)
    BY <1>9
  <2>3. SessionId' = SessionId /\ TurnId' = TurnId /\ Turn' = Turn
    BY <2>1, <2>2, SameIds
  <2>4. CoreType'
    BY <1>1, <1>7, <1>9, <2>1, <2>3 DEF CoreType
  <2> QED
    BY <1>1, <2>2, <2>4, CoreStep
<1>10. CASE SettleTurn(t, End(begun, c))
  <2>1. End(begun, c) \in ServedGit(TurnId)
    BY <1>5, <1>7, EndType
  <2> QED
    BY <1>1, <1>4, <1>10, <2>1, SettleTurnType, CoreStep
<1>11. CASE \E thrown \in BeginThrows(g, c) :
              LET caught == AfterCatch(thrown, c)
              IN  FailTurn(t, [caught EXCEPT !.lock = ReleaseIfHeldBy(@, c)])
  <2>1. PICK thrown \in BeginThrows(g, c) :
          FailTurn(t, [AfterCatch(thrown, c) EXCEPT !.lock = ReleaseIfHeldBy(@, c)])
    BY <1>11
  <2> DEFINE caught == AfterCatch(thrown, c)
  <2>2. thrown \in ServedGit(TurnId)
    BY <1>5, <1>6, BeginThrowsType
  <2>3. caught \in ServedGit(TurnId)
    BY <1>5, <2>2, AfterCatchType
  <2> HIDE DEF caught
  <2>4. ReleaseIfHeldBy(caught.lock, c) \in ServedLock(TurnId)
    BY <1>5, <2>3, ReleaseIfHeldByType DEF ServedGit
  <2>5. [caught EXCEPT !.lock = ReleaseIfHeldBy(@, c)] \in ServedGit(TurnId)
    BY <2>3, <2>4, LockUpdateType
  <2>6. FailTurn(t, [caught EXCEPT !.lock = ReleaseIfHeldBy(@, c)])
    BY <2>1 DEF caught
  <2> QED
    BY <1>1, <1>4, <2>5, <2>6, FailTurnType, CoreStep
<1>12. CASE SettleTurn(t, [g EXCEPT !.lock = ReleaseIfHeldBy(@, c)])
  <2>1. ReleaseIfHeldBy(g.lock, c) \in ServedLock(TurnId)
    BY <1>5, <1>6, ReleaseIfHeldByType DEF ServedGit
  <2>2. [g EXCEPT !.lock = ReleaseIfHeldBy(@, c)] \in ServedGit(TurnId)
    BY <1>6, <2>1, LockUpdateType
  <2> QED
    BY <1>1, <1>4, <1>12, <2>2, SettleTurnType, CoreStep
<1> QED
  BY <1>8, <1>9, <1>10, <1>11, <1>12

\* The invariant survives PromptResolves.
LEMMA PromptResolvesStep ==
    ASSUME TypeInv, NEW t \in TurnId, PromptResolves(t)
    PROVE  TypeInv'
<1>1. CoreType /\ NoOtherFrame /\ git \in ServedGit(TurnId)
  BY DEF TypeInv, CoreType, PromptResolves
<1>2. End(git, ChannelOf(t)) \in ServedGit(TurnId)
  BY <1>1, ChannelOfType, EndType
<1> QED
  BY <1>1, <1>2, SettleTurnType, CoreStep DEF PromptResolves

\* The invariant survives PromptRejects.
LEMMA PromptRejectsStep ==
    ASSUME TypeInv, NEW t \in TurnId, PromptRejects(t)
    PROVE  TypeInv'
<1>1. CoreType /\ NoOtherFrame /\ git \in ServedGit(TurnId)
  BY DEF TypeInv, CoreType, PromptRejects
<1>2. ChannelOf(t) \in Channel
  BY <1>1, ChannelOfType
<1>3. End(AfterCatch(git, ChannelOf(t)), ChannelOf(t)) \in ServedGit(TurnId)
  BY <1>1, <1>2, AfterCatchType, EndType
<1> QED
  BY <1>1, <1>3, FailTurnType, CoreStep DEF PromptRejects

\* The invariant survives Stop.
LEMMA StopStep ==
    ASSUME TypeInv, NEW t \in TurnId, Stop(t)
    PROVE  TypeInv'
<1> DEFINE c == ChannelOf(t)
           s == sessions[c]
           v == Cancelled(obj[s])
<1>1. CoreType /\ NoOtherFrame
  BY DEF TypeInv, Stop
<1>2. c \in Channel
  BY <1>1, ChannelOfType
<1>3. s \in 1 .. Len(obj) /\ obj \in Seq(ManagedSession)
  BY <1>1, <1>2 DEF CoreType, Stop
<1>4. v \in ManagedSession
  BY <1>3, CancelledType
<1>5. /\ obj' = [obj EXCEPT ![s] = v]
      /\ live' = SyncLiveStatus(live, obj'[s])
      /\ git' = StopWaiting(git, c)
      /\ UNCHANGED <<sessions, recency, turns, openTurn, killed>>
  BY DEF Stop
<1> HIDE DEF c, s, v
<1>6. obj' \in Seq(ManagedSession) /\ Len(obj') = Len(obj) /\ obj'[s] = v
  BY <1>3, <1>4, <1>5, UpdateType
<1>7. SessionId' = SessionId /\ TurnId' = TurnId /\ Turn' = Turn
  BY <1>5, <1>6, SameIds
<1>8. live' \in [Channel -> LiveRow]
  BY <1>1, <1>4, <1>5, <1>6, SyncLiveStatusType DEF CoreType
<1>9. git' \in ServedGit(TurnId)
  BY <1>1, <1>2, <1>5, StopWaitingType DEF CoreType
<1>10. CoreType'
  BY <1>1, <1>5, <1>6, <1>7, <1>8, <1>9 DEF CoreType
<1> QED
  BY <1>1, <1>6, <1>10, CoreStep

\* Replacing one session object by another.
LEMMA ObjectStep ==
    ASSUME TypeInv, NEW s \in SessionId, NEW v \in ManagedSession,
           obj' = [obj EXCEPT ![s] = v],
           UNCHANGED <<git, sessions, recency, turns, openTurn, live, killed>>
    PROVE  CoreType' /\ Len(obj') = Len(obj)
<1>1. s \in 1 .. Len(obj) /\ obj \in Seq(ManagedSession) /\ CoreType
  BY DEF TypeInv, CoreType, SessionId
<1>2. obj' \in Seq(ManagedSession) /\ Len(obj') = Len(obj)
  BY <1>1, UpdateType
<1> QED
  BY <1>1, <1>2, ObjectsType

\* The invariant survives IdleTimeout.
LEMMA IdleTimeoutStep ==
    ASSUME TypeInv, NEW s \in SessionId, IdleTimeout(s)
    PROVE  TypeInv'
<1> DEFINE c == obj[s].channelId
           v == [obj[s] EXCEPT !.idleTimer = FALSE]
           o == [obj EXCEPT ![s] = v]
<1>1. CoreType /\ s \in 1 .. Len(obj) /\ obj \in Seq(ManagedSession)
  BY DEF TypeInv, CoreType, SessionId
<1>2. obj[s] \in ManagedSession
  BY <1>1
<1>3. c \in Channel /\ v \in ManagedSession
  BY <1>2 DEF ManagedSession
<1>4. \/ /\ sessions[c] # 0
         /\ TeardownCallback(c, o)
      \/ /\ obj' = o
         /\ UNCHANGED <<git, sessions, recency, turns, openTurn, live, killed>>
         /\ NoOtherFrame
  BY DEF IdleTimeout
<1>5. o \in Seq(ManagedSession) /\ Len(o) = Len(obj)
  <2> HIDE DEF v
  <2> QED
    BY <1>1, <1>3, UpdateType
<1> HIDE DEF c, o
<1>6. CASE sessions[c] # 0 /\ TeardownCallback(c, o)
  BY <1>1, <1>3, <1>5, <1>6, TeardownType, CoreStep DEF TeardownCallback
<1>7. CASE /\ obj' = o
           /\ UNCHANGED <<git, sessions, recency, turns, openTurn, live, killed>>
           /\ NoOtherFrame
  BY <1>1, <1>5, <1>7, ObjectsType, CoreStep
<1> QED
  BY <1>4, <1>6, <1>7

\* The invariant survives PollTick.
LEMMA PollTickStep ==
    ASSUME TypeInv, PollTick
    PROVE  TypeInv'
<1> DEFINE n == IF "same_tick" \in Races THEN 2 ELSE 1
<1>1. /\ n \in 1 .. 2
      /\ \E targets \in [1 .. n -> LiveSessions] :
           span' = [i \in DOMAIN targets |-> [op |-> "teardown", channel |-> targets[i]]]
  BY DEF PollTick
<1> HIDE DEF n
<1>2. PICK targets \in [1 .. n -> LiveSessions] :
        span' = [i \in 1 .. n |-> [op |-> "teardown", channel |-> targets[i]]]
  BY <1>1
<1>3. \A i \in 1 .. n : [op |-> "teardown", channel |-> targets[i]] \in Teardown
  BY <1>2 DEF LiveSessions, Teardown
<1>4. span' \in Seq(Teardown)
  BY <1>1, <1>2, <1>3
<1>5. span' \in Seq(Teardown \cup {TeardownRest} \cup Create)
  BY <1>4, SeqMonotone
<1> QED
  BY <1>5 DEF PollTick, TypeInv, CoreType, RestType, SessionId, TurnId, Turn, Caller

\* The invariant survives ShutdownBegin.
LEMMA ShutdownBeginStep ==
    ASSUME TypeInv, Shutdown
    PROVE  TypeInv'
<1>1. span' \in Seq(Teardown \cup {TeardownRest} \cup Create)
  BY DEF Shutdown
<1> QED
  BY <1>1 DEF Shutdown, TypeInv, CoreType, RestType, SessionId, TurnId, Turn, Caller

\* The invariant survives TeardownStep.
LEMMA TeardownStepStep ==
    ASSUME TypeInv, TeardownStep
    PROVE  TypeInv'
<1> DEFINE c == Head(span).channel
<1>1. /\ span \in Seq(Teardown \cup {TeardownRest} \cup Create) /\ span # <<>>
      /\ CoreType /\ RestType
      /\ span' = Tail(span)
      /\ UNCHANGED <<turns, pending, callers, gates, sent, epoch, shutdown>>
  BY DEF TeardownStep, TypeInv, RestType
<1>2. /\ Head(span) \in Teardown \cup {TeardownRest} \cup Create
      /\ span' \in Seq(Teardown \cup {TeardownRest} \cup Create)
  BY <1>1
<1>3. c \in Channel
  BY <1>2 DEF TeardownStep, Teardown, TeardownRest, Create
<1>4. CoreType' /\ Len(obj') = Len(obj)
  <2>1. CASE /\ sessions[c] # 0
             /\ EndSession(c, obj, killed, "terminating")
             /\ git' = AbortTurn(git, c)
    <3>1. obj \in Seq(ManagedSession)
      BY <1>1 DEF CoreType
    <3> HIDE DEF c
    <3> QED
      BY <1>1, <1>3, <2>1, <3>1, TeardownType
  <2>2. CASE UNCHANGED <<git, sessions, recency, obj, openTurn, live, killed>>
    BY <1>1, <2>2 DEF CoreType, SessionId, TurnId, Turn
  <2> QED
    BY <2>1, <2>2 DEF TeardownStep
<1>5. Caller' = Caller
  BY <1>4 DEF Caller, SessionId
<1> QED
  BY <1>1, <1>2, <1>4, <1>5 DEF TypeInv, RestType

\* The invariant survives ShutdownStep.
LEMMA ShutdownStepStep ==
    ASSUME TypeInv, ShutdownStep
    PROVE  TypeInv'
<1>1. /\ CoreType /\ RestType /\ obj \in Seq(ManagedSession)
      /\ UNCHANGED <<turns, pending, callers, gates, sent, epoch, shutdown>>
  BY DEF ShutdownStep, TypeInv, CoreType
<1>2. CASE \E c \in LiveSessions :
             /\ EndSession(c, obj, killed, "terminating")
             /\ git' = AbortTurn(git, c)
             /\ UNCHANGED span
  <2>1. PICK c \in Channel : /\ sessions[c] # 0
                             /\ EndSession(c, obj, killed, "terminating")
                             /\ git' = AbortTurn(git, c)
                             /\ UNCHANGED span
    BY <1>2 DEF LiveSessions
  <2>2. CoreType' /\ Len(obj') = Len(obj)
    BY <1>1, <2>1, TeardownType
  <2> QED
    BY <1>1, <2>1, <2>2, RestUnchanged DEF TypeInv
<1>3. CASE /\ git' = Sweep(git)
           /\ span' = <<>>
           /\ UNCHANGED <<sessions, recency, obj, openTurn, live, killed>>
  <2>1. git' \in ServedGit(TurnId)
    BY <1>1, <1>3, SweepType DEF CoreType
  <2>2. CoreType'
    BY <1>1, <1>3, <2>1 DEF CoreType, SessionId, TurnId, Turn
  <2> QED
    BY <1>1, <1>3, <2>2 DEF TypeInv, RestType, Caller, SessionId
<1> QED
  BY <1>2, <1>3 DEF ShutdownStep

\* The invariant survives Clear.
LEMMA ClearStep ==
    ASSUME TypeInv, NEW c \in Channel, Clear(c)
    PROVE  TypeInv'
<1> DEFINE r == LatestRow(c)
           forgotten == [obj[r] EXCEPT !.acp = FALSE]
           o == IF r = 0 THEN obj ELSE [obj EXCEPT ![r] = forgotten]
           p == [pending[c] EXCEPT !.cancelled = TRUE]
<1>1. /\ CoreType /\ RestType /\ obj \in Seq(ManagedSession)
      /\ pending \in [Channel -> Pending]
  BY DEF TypeInv, CoreType, RestType
<1>2. /\ UNCHANGED <<turns, callers, span, gates, sent, shutdown>>
      /\ epoch' \in [Channel -> Nat]
  BY <1>1 DEF Clear, RestType
<1>3. pending' \in [Channel -> Pending]
  <2>1. CASE pending[c].stage = "none"
    BY <1>1, <2>1 DEF Clear
  <2>2. CASE pending[c].stage # "none"
    <3>1. pending[c] \in Pending \ {NoPending}
      BY <1>1, <2>2 DEF Pending, NoPending
    <3>2. p \in Pending
      BY <3>1 DEF Pending
    <3>3. pending' = [pending EXCEPT ![c] = p]
      BY <2>2 DEF Clear
    <3> HIDE DEF p
    <3> QED
      BY <1>1, <3>2, <3>3
  <2> QED
    BY <2>1, <2>2
<1>4. o \in Seq(ManagedSession) /\ Len(o) = Len(obj)
  <2>1. CASE r = 0
    BY <1>1, <2>1
  <2>2. CASE r # 0
    <3>1. r \in 1 .. Len(obj)
      BY <1>1, <2>2, LatestRowType
    <3>2. obj[r] \in ManagedSession
      BY <1>1, <3>1
    <3>3. forgotten \in ManagedSession
      BY <3>2 DEF ManagedSession
    <3> HIDE DEF forgotten, r
    <3> QED
      BY <1>1, <2>2, <3>1, <3>3, UpdateType
  <2> QED
    BY <2>1, <2>2
<1>5. \/ /\ sessions[c] # 0
         /\ EndSession(c, o, killed, "terminating")
         /\ git' = AbortTurn(git, c)
      \/ /\ obj' = o
         /\ UNCHANGED <<git, sessions, recency, openTurn, live, killed>>
  BY DEF Clear
<1> HIDE DEF o, p, r
<1>6. CoreType' /\ Len(obj') = Len(obj)
  BY <1>1, <1>2, <1>4, <1>5, TeardownType, ObjectsType
<1>7. Caller' = Caller
  BY <1>6 DEF Caller, SessionId
<1> QED
  BY <1>1, <1>2, <1>3, <1>6, <1>7 DEF TypeInv, RestType

\* The invariant survives ProcessExits.
LEMMA ProcessExitsStep ==
    ASSUME TypeInv, NEW s \in SessionId, ProcessExits(s)
    PROVE  TypeInv'
<1> DEFINE c == obj[s].channelId
           v == [obj[s] EXCEPT !.process = "exited"]
<1>1. /\ CoreType /\ s \in 1 .. Len(obj) /\ obj \in Seq(ManagedSession)
      /\ git \in ServedGit(TurnId) /\ killed \in [Channel -> Nat]
      /\ turns \in Seq(Turn)
  BY DEF TypeInv, CoreType, SessionId
<1>2. obj[s] \in ManagedSession
  BY <1>1
<1>3. c \in Channel /\ v \in ManagedSession
  BY <1>2 DEF ManagedSession
<1>4. UNCHANGED turns /\ NoOtherFrame
  BY DEF ProcessExits
<1>5. CASE /\ sessions[c] = s
           /\ EndSession(c, obj, killed, "exited")
           /\ git' = Abort(git, c)
  <2>1. git' \in ServedGit(TurnId)
    BY <1>1, <1>3, <1>5, AbortType
  <2>2. sessions[c] # 0 /\ turns' \in Seq(Turn) /\ Len(turns') = Len(turns)
    BY <1>1, <1>4, <1>5
  <2> HIDE DEF c
  <2>3. CoreType' /\ Len(obj') = Len(obj)
    BY <1>1, <1>3, <1>5, <2>1, <2>2, EndSessionType
  <2> QED
    BY <1>4, <2>3, CoreStep
<1>6. CASE /\ obj' = [obj EXCEPT ![s].process = "exited"]
           /\ UNCHANGED <<git, sessions, recency, openTurn, live, killed>>
  <2>1. obj' = [obj EXCEPT ![s] = v]
    BY <1>6
  <2> HIDE DEF v
  <2>2. CoreType' /\ Len(obj') = Len(obj)
    BY <1>3, <1>4, <1>6, <2>1, ObjectStep
  <2> QED
    BY <1>4, <2>2, CoreStep
<1> QED
  BY <1>5, <1>6 DEF ProcessExits

\* The invariant survives PlanNeeded.
LEMMA PlanNeededStep ==
    ASSUME TypeInv, NEW t \in TurnId, PlanNeeded(t)
    PROVE  TypeInv'
<1> DEFINE s == sessions[ChannelOf(t)]
           v == [obj[s] EXCEPT !.plan = Len(gates) + 1]
<1>1. CoreType /\ gates \in Seq(User)
  BY DEF TypeInv, RestType
<1>2. ChannelOf(t) \in Channel
  BY <1>1, ChannelOfType
<1>3. s \in SessionId /\ obj[s] \in ManagedSession
  BY <1>1, <1>2 DEF CoreType, SessionId, PlanNeeded
<1>4. v \in ManagedSession /\ obj[s].activeUserId \in User
  <2> DEFINE p == Len(gates) + 1
  <2>1. p \in Nat
    BY <1>1
  <2> HIDE DEF s, p
  <2> QED
    BY <1>3, <2>1 DEF ManagedSession
<1>5. obj' = [obj EXCEPT ![s] = v]
  BY DEF PlanNeeded
<1>6. gates' \in Seq(User)
  BY <1>1, <1>4 DEF PlanNeeded
<1> HIDE DEF s, v
<1>7. CoreType' /\ Len(obj') = Len(obj)
  BY <1>3, <1>4, <1>5, ObjectStep DEF PlanNeeded
<1>8. Caller' = Caller
  BY <1>7 DEF Caller, SessionId
<1> QED
  BY <1>6, <1>7, <1>8 DEF PlanNeeded, TypeInv, RestType

\* The invariant survives PlanTimeout.
LEMMA PlanTimeoutStep ==
    ASSUME TypeInv, NEW c \in Channel, PlanTimeout(c)
    PROVE  TypeInv'
<1>1. CoreType /\ obj \in Seq(ManagedSession)
  BY DEF TypeInv, CoreType
<1> QED
  BY <1>1, TeardownType, CoreStep DEF PlanTimeout, TeardownCallback

\* The invariant survives PlanClick.
LEMMA PlanClickStep ==
    ASSUME TypeInv, NEW c \in Channel, NEW p \in 1 .. Len(gates), PlanClick(c, p)
    PROVE  TypeInv'
<1> DEFINE s == sessions[c]
           v == [obj[s] EXCEPT !.plan = 0]
           m == [user |-> gates[p], image |-> FALSE]
           k == ForgetKilledPlan(killed, c)
<1>1. CoreType /\ gates[p] \in User /\ killed \in [Channel -> Nat]
  BY DEF TypeInv, CoreType, RestType
<1>2. CASE /\ s # 0
           /\ obj' = [obj EXCEPT ![s].plan = 0]
           /\ UNCHANGED <<git, sessions, recency, turns, openTurn, live, killed>>
           /\ NoOtherFrame
  <2>1. s \in SessionId /\ obj[s] \in ManagedSession
    BY <1>1, <1>2 DEF CoreType, SessionId
  <2>2. v \in ManagedSession
    BY <2>1 DEF ManagedSession
  <2>3. obj' = [obj EXCEPT ![s] = v]
    BY <1>2
  <2> HIDE DEF s, v
  <2>4. CoreType' /\ Len(obj') = Len(obj)
    BY <1>2, <2>1, <2>2, <2>3, ObjectStep
  <2> QED
    BY <1>2, <2>4, CoreStep
<1>3. CASE RequestPrompt(c, m, k)
  <2>1. m \in Message
    BY <1>1 DEF Message
  <2>2. k \in [Channel -> Nat]
    BY <1>1 DEF ForgetKilledPlan
  <2> HIDE DEF m, k
  <2> QED
    BY <1>3, <2>1, <2>2, RequestPromptType
<1> QED
  BY <1>2, <1>3 DEF PlanClick

-----------------------------------------------------------------------------
(* The theorems *)

\* The invariant holds when the bot starts.
LEMMA InitTypeInv == Init => TypeInv
<1> SUFFICES ASSUME Init PROVE TypeInv
  OBVIOUS
<1>1. FreeLock \in ServedLock(TurnId)
  BY DEF FreeLock, ServedLock, Lock
<1>2. git \in ServedGit(TurnId)
  BY <1>1 DEF Init, SweptGit, ServedGit, Git, ServedLock
<1>3. CoreType
  BY <1>2 DEF Init, CoreType, LiveRow
<1>4. RestType
  <2>1. /\ callers \in Seq(Caller) /\ gates \in Seq(User)
        /\ span \in Seq(Teardown \cup {TeardownRest} \cup Create)
    BY DEF Init
  <2> QED
    BY <2>1 DEF Init, RestType, Pending
<1> QED
  BY <1>3, <1>4 DEF TypeInv

\* Every step, and stuttering, preserves the invariant.
LEMMA NextTypeInv ==
    ASSUME TypeInv, [Next]_vars
    PROVE  TypeInv'
<1>1. CASE UNCHANGED vars
  BY <1>1 DEF vars, TypeInv, CoreType, RestType, SessionId, TurnId, Turn, Caller
<1>2. CASE Next
  BY <1>2, PromptStep, LoadResolvesStep, LoadRejectsStep, CreateResolvesStep,
     CreateRejectsStep, ClearStep, PlanTimeoutStep, PlanClickStep,
     PromptResolvesStep, PromptRejectsStep, StopStep, PlanNeededStep,
     IdleTimeoutStep, ProcessExitsStep, CreateStepStep, TeardownStepStep,
     ShutdownStepStep, RunCallerStep, RunWaiterStep, PollTickStep,
     ShutdownBeginStep
  DEF Next
<1> QED
  BY <1>1, <1>2

\* The whole state keeps its types, also where an index outlives the map entry
\* it came from: every session, turn and lock continuation that the bot's
\* closures still hold names an object that exists.
THEOREM TypeCorrect == Spec => []TypeOK
<1>1. Spec => []TypeInv
  BY InitTypeInv, NextTypeInv, PTL DEF Spec
<1>2. TypeInv => TypeOK
  BY TypeInvMeaning
<1> QED
  BY <1>1, <1>2, PTL

\* However turns are cut short (Stop, teardown, process death, errors, /clear,
\* shutdown, in the same callback or later), GitWriteLock is never left free
\* with an acquire() parked behind it.
THEOREM NoWaiterStranded == Spec => []NoStrandedWaiter
<1>1. Spec => []TypeInv
  BY InitTypeInv, NextTypeInv, PTL DEF Spec
<1>2. TypeInv => NoStrandedWaiter
  BY TypeInvMeaning
<1> QED
  BY <1>1, <1>2, PTL

=============================================================================
