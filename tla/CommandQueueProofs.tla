------------------------- MODULE CommandQueueProofs -------------------------
(***************************************************************************)
(* Proofs about the command queue, for every number of channels, bots,     *)
(* requests and edits: the types and the bound on the queue, that a        *)
(* command runs at most once and at the bot it was issued for, and, when   *)
(* neither rare event happens, that the console and the newest bot see     *)
(* what is current.                                                        *)
(***************************************************************************)
EXTENDS CommandQueue, Integers, FiniteSetTheorems, TLAPS

CommandType == [generation : Gens, type : Types, target : Channels \cup {NoTarget},
                status : {"pending", "consumed"}]

Rereads  == {i \in DOMAIN commands : commands[i].type = "reread_config"}
Requests == {i \in DOMAIN commands : commands[i].type # "reread_config"}

\* The types, without the bound on the queue.
Typed ==
  /\ status \in [Gens -> {"none", "starting", "running", "stopping", "ended"}]
  /\ proc \in [Gens -> {"none", "constructed", "serving", "dead"}]
  /\ commands \in Seq(CommandType)
  /\ config \in 0..MaxEdits
  /\ editing \in BOOLEAN
  /\ known \in [Gens -> 0..MaxEdits]
  /\ sessions \in [Gens -> SUBSET Channels]
  /\ live \in [Channels -> 0..MaxGenerations]
  /\ ran \in [Ids -> Seq(Gens)]

\* The queue holds one command per request and at most one per edit that is over.
Counted ==
  /\ Cardinality(Requests) <= MaxRequests
  /\ Cardinality(Rereads) + (IF editing THEN 1 ELSE 0) <= config

\* Only a claim runs a command, and it takes it out of the pending ones.
RunsFollowClaims ==
  \A i \in Ids :
    /\ Len(ran[i]) <= 1
    /\ i \notin DOMAIN commands \/ commands[i].status = "pending" => ran[i] = <<>>
    /\ ran[i] # <<>> => ran[i] = <<commands[i].generation>>

\* The rows are those of the first n generations.
RowsAre(n) ==
  /\ n \in 0..MaxGenerations
  /\ \A g \in Gens : status[g] # "none" <=> g <= n

\* What a process left behind names a generation that has a row.
OfRows ==
  /\ \A g \in Gens : proc[g] # "none" \/ sessions[g] # {} => status[g] # "none"
  /\ \A c \in Channels : live[c] # 0 => status[live[c]] # "none"

QueueInv ==
  /\ Typed /\ Counted /\ RunsFollowClaims
  /\ \E n : RowsAre(n)
  /\ OfRows /\ LiveRowIsTheNewest

-----------------------------------------------------------------------------
(***************************************************************************)
(* Sequences, counts, and the latest generation.                           *)
(***************************************************************************)

LEMMA SeqByIndex ==
  ASSUME NEW S, NEW s \in Seq(S), NEW f, DOMAIN f = DOMAIN s, f = [i \in DOMAIN s |-> f[i]],
         \A i \in DOMAIN s : f[i] \in S
  PROVE  f \in Seq(S) /\ Len(f) = Len(s)
<1>1. DOMAIN s = 1..Len(s) /\ Len(s) \in Nat
  OBVIOUS
<1>2. f \in [1..Len(s) -> S]
  BY <1>1
<1> QED
  BY <1>1, <1>2

LEMMA Interval == ASSUME NEW n \in Nat PROVE IsFiniteSet(1..n) /\ Cardinality(1..n) = n
<1>1. IsFiniteSet(1..n) /\ Cardinality(1..n) = IF 1 > n THEN 0 ELSE n - 1 + 1
  BY FS_Interval
<1> QED
  BY <1>1

\* The indices with a property, after a command is appended.
LEMMA CountAppended ==
  ASSUME NEW n \in Nat, NEW A \in SUBSET (1..n), NEW B \in SUBSET (1..(n + 1)),
         B \cap (1..n) = A
  PROVE  /\ IsFiniteSet(A) /\ IsFiniteSet(B)
         /\ Cardinality(B) = Cardinality(A) + (IF n + 1 \in B THEN 1 ELSE 0)
<1>1. IsFiniteSet(1..n) /\ IsFiniteSet(A) /\ Cardinality(A) \in Nat
  BY Interval, FS_Subset, FS_CardinalityType
<1>2. CASE n + 1 \in B
  <2>1. A \subseteq B /\ \A k \in 1..(n + 1) : k \in 1..n \/ k = n + 1
    OBVIOUS
  <2>2. /\ \A k \in A : k \in 1..n
        /\ \A k \in B : k \in 1..(n + 1)
        /\ n + 1 \notin 1..n
    OBVIOUS
  <2>4. n + 1 \notin A /\ \A k : k \in B <=> k \in A \/ k = n + 1
    BY <1>2, <2>1, <2>2
  <2>3. B = A \cup {n + 1} /\ n + 1 \notin A
    BY <2>4
  <2> QED
    BY <1>1, <1>2, <2>3, FS_AddElement
<1>3. CASE n + 1 \notin B
  <2>1. A \subseteq B /\ \A k \in 1..(n + 1) : k \in 1..n \/ k = n + 1
    OBVIOUS
  <2>2. B = A
    BY <1>3, <2>1
  <2> QED
    BY <1>1, <1>3, <2>2
<1> QED
  BY <1>2, <1>3

\* The two counts add up to the length.
LEMMA CountsAddUp ==
  ASSUME Typed
  PROVE  /\ IsFiniteSet(Requests) /\ IsFiniteSet(Rereads)
         /\ Cardinality(Requests) \in Nat /\ Cardinality(Rereads) \in Nat
         /\ Len(commands) = Cardinality(Requests) + Cardinality(Rereads)
<1>1. Len(commands) \in Nat /\ DOMAIN commands = 1..Len(commands)
  BY DEF Typed
<1>2. IsFiniteSet(1..Len(commands)) /\ Cardinality(1..Len(commands)) = Len(commands)
  BY <1>1, Interval
<1>3. IsFiniteSet(Requests) /\ IsFiniteSet(Rereads)
  BY <1>1, <1>2, FS_Subset DEF Requests, Rereads
<1>4. Cardinality(Requests) \in Nat /\ Cardinality(Rereads) \in Nat
  BY <1>3, FS_CardinalityType
<1>5. Requests \cup Rereads = 1..Len(commands) /\ Requests \cap Rereads = {}
  BY <1>1 DEF Requests, Rereads
<1>6. Cardinality(Requests \cup Rereads)
        = Cardinality(Requests) + Cardinality(Rereads) - Cardinality({})
  BY <1>3, <1>5, FS_Union
<1> QED
  <2>1. Cardinality({}) = 0
    BY FS_EmptySet
  <2>2. Cardinality(Requests \cup Rereads) = Cardinality(Requests) + Cardinality(Rereads)
    BY <1>4, <1>6, <2>1
  <2>3. Cardinality(Requests \cup Rereads) = Len(commands)
    BY <1>2, <1>5
  <2> QED
    BY <1>3, <1>4, <2>2, <2>3

\* latestGeneration() is the number of rows.
LEMMA LatestIsCount ==
  ASSUME NEW st, NEW n \in 0..MaxGenerations,
         \A g \in Gens : st[g] # "none" <=> g <= n
  PROVE  LET rows == {g \in Gens : st[g] # "none"}
         IN (IF rows = {} THEN 0 ELSE CHOOSE g \in rows : \A h \in rows : h <= g) = n
<1> DEFINE rows == {g \in Gens : st[g] # "none"}
<1>1. n \in Nat /\ rows = {g \in Gens : g <= n}
  BY CommandQueueAssumption
<1>2. CASE n = 0
  <2>1. rows = {}
    BY <1>1, <1>2 DEF Gens
  <2> QED
    BY <1>2, <2>1
<1>3. CASE n # 0
  <2>1. n \in rows /\ rows # {}
    BY <1>1, <1>3 DEF Gens
  <2>2. \A g \in rows : (\A h \in rows : h <= g) => g = n
    BY <1>1, <2>1 DEF Gens
  <2>3. \A h \in rows : h <= n
    BY <1>1
  <2> HIDE DEF rows
  <2>4. (CHOOSE g \in rows : \A h \in rows : h <= g) = n
    BY <2>1, <2>2, <2>3
  <2> QED
    BY <2>1, <2>4 DEF rows
<1> QED
  BY <1>2, <1>3

\* Without a new row the latest generation is the same.
LEMMA SameLatest ==
  ASSUME QueueInv, \A g \in Gens : status[g] # "none" <=> status'[g] # "none"
  PROVE  /\ LatestGeneration' = LatestGeneration
         /\ LatestGeneration \in 0..MaxGenerations
         /\ \A g \in Gens : status[g] # "none" <=> g <= LatestGeneration
         /\ (\E n : RowsAre(n))'
<1>1. PICK n : RowsAre(n)
  BY DEF QueueInv
<1>2. /\ n \in 0..MaxGenerations
      /\ \A g \in Gens : status[g] # "none" <=> g <= n
      /\ \A g \in Gens : status'[g] # "none" <=> g <= n
  BY <1>1 DEF RowsAre
<1>3. LatestGeneration = n
  BY <1>2, LatestIsCount DEF LatestGeneration
<1>4. LatestGeneration' = n
  BY <1>2, LatestIsCount DEF LatestGeneration
<1> QED
  BY <1>2, <1>3, <1>4 DEF RowsAre

-----------------------------------------------------------------------------
(***************************************************************************)
(* The actions. Most leave the queue, or the bots, alone.                  *)
(***************************************************************************)

QueueAlone == UNCHANGED <<commands, config, editing, ran>>
NoNewRow   == \A g \in Gens : status[g] # "none" <=> status'[g] # "none"

\* The queue's own part of the invariant is kept when the queue is left alone.
LEMMA QueueAloneKeeps ==
  ASSUME QueueInv, QueueAlone
  PROVE  Counted' /\ RunsFollowClaims'
BY DEF QueueInv, QueueAlone, Counted, RunsFollowClaims, Requests, Rereads

\* A bot that is not the newest writes rows of earlier generations only.
LEMMA BotsKeep ==
  ASSUME QueueInv, QueueAlone, Typed', NoNewRow,
         \A g \in Gens : proc'[g] # "none" => status[g] # "none",
         UNCHANGED <<sessions, live>>
  PROVE  QueueInv'
<1>1. LatestGeneration' = LatestGeneration /\ (\E n : RowsAre(n))'
  BY SameLatest DEF NoNewRow
<1>2. OfRows'
  BY DEF QueueInv, Typed, OfRows, NoNewRow, Gens
<1>3. LiveRowIsTheNewest'
  BY <1>1 DEF QueueInv, LiveRowIsTheNewest
<1> QED
  BY <1>1, <1>2, <1>3, QueueAloneKeeps DEF QueueInv

LEMMA InsertGenerationStep ==
  ASSUME QueueInv, NEW g \in Gens, InsertGeneration(g)
  PROVE  QueueInv'
<1>1. PICK n : RowsAre(n)
  BY DEF QueueInv
<1>2. g = n + 1 /\ n \in Nat
  BY <1>1, CommandQueueAssumption DEF RowsAre, InsertGeneration, Gens
<1>3. RowsAre(n + 1)'
  BY <1>1, <1>2, CommandQueueAssumption DEF QueueInv, Typed, RowsAre, InsertGeneration, Gens
<1>4. Typed' /\ OfRows'
  BY DEF QueueInv, Typed, OfRows, InsertGeneration
<1>5. LatestGeneration' = g
  BY <1>2, <1>3, LatestIsCount DEF LatestGeneration, RowsAre
<1>6. LiveRowIsTheNewest'
  BY <1>5 DEF QueueInv, OfRows, LiveRowIsTheNewest, InsertGeneration
<1> QED
  BY <1>3, <1>4, <1>6, QueueAloneKeeps DEF QueueInv, QueueAlone, InsertGeneration

LEMMA ConstructStep == ASSUME QueueInv, NEW g \in Gens, Construct(g) PROVE QueueInv'
<1>1. Typed' /\ QueueAlone /\ NoNewRow
  BY DEF QueueInv, Typed, Construct, QueueAlone, NoNewRow
<1>2. \A h \in Gens : proc'[h] # "none" => status[h] # "none"
  BY DEF QueueInv, Typed, OfRows, Construct
<1> QED
  BY <1>1, <1>2, BotsKeep DEF Construct

LEMMA ReadyStep == ASSUME QueueInv, NEW g \in Gens, Ready(g) PROVE QueueInv'
<1>1. Typed' /\ QueueAlone /\ NoNewRow
  BY DEF QueueInv, Typed, Ready, QueueAlone, NoNewRow
<1>2. \A h \in Gens : proc'[h] # "none" => status[h] # "none"
  BY DEF QueueInv, Typed, OfRows, Ready
<1> QED
  BY <1>1, <1>2, BotsKeep DEF Ready

LEMMA RowEndsStep ==
  ASSUME QueueInv, NEW g \in Gens, MarkStopping(g) \/ Finalize(g)
  PROVE  QueueInv'
<1>1. Typed' /\ QueueAlone /\ NoNewRow
  BY DEF QueueInv, Typed, MarkStopping, Finalize, QueueAlone, NoNewRow
<1>2. \A h \in Gens : proc'[h] # "none" => status[h] # "none"
  BY DEF QueueInv, OfRows, MarkStopping, Finalize
<1> QED
  BY <1>1, <1>2, BotsKeep DEF MarkStopping, Finalize

\* Sessions only end, and a live row goes only with a session of its generation or
\* for a later one.
LEMMA SessionsEnd ==
  ASSUME QueueInv, Typed', Counted', RunsFollowClaims', UNCHANGED status,
         \A g \in Gens : proc'[g] # "none" => status[g] # "none",
         \A g \in Gens : sessions'[g] \subseteq sessions[g],
         \A c \in Channels :
           \/ live'[c] = live[c]
           \/ /\ live'[c] = 0
              /\ live[c] # 0 => \E g \in Gens : g >= live[c] /\ c \notin sessions'[g]
                                              /\ status[g] # "none"
  PROVE  QueueInv'
<1>1. /\ LatestGeneration' = LatestGeneration /\ (\E n : RowsAre(n))'
      /\ LatestGeneration \in 0..MaxGenerations
      /\ \A g \in Gens : status[g] # "none" <=> g <= LatestGeneration
  BY SameLatest
<1>2. OfRows'
  BY DEF QueueInv, Typed, OfRows
<1>3. LiveRowIsTheNewest'
  <2> SUFFICES ASSUME NEW g \in Gens, NEW c \in Channels,
                      g = LatestGeneration, c \in sessions'[g]
               PROVE  live'[c] = g
    BY <1>1 DEF LiveRowIsTheNewest
  <2>1. live[c] = g
    BY DEF QueueInv, LiveRowIsTheNewest
  <2>2. \A h \in Gens : h >= g /\ status[h] # "none" => h = g
    BY <1>1 DEF Gens
  <2> QED
    BY <2>1, <2>2 DEF Gens
<1> QED
  BY <1>1, <1>2, <1>3 DEF QueueInv

LEMMA DiesStep == ASSUME QueueInv, NEW g \in Gens, Dies(g) PROVE QueueInv'
<1>1. Typed' /\ QueueAlone
  BY DEF QueueInv, Typed, Dies, QueueAlone
<1>2. \A h \in Gens : proc'[h] # "none" => status[h] # "none"
  BY DEF QueueInv, Typed, OfRows, Dies, Up
<1>3. \A h \in Gens : sessions'[h] \subseteq sessions[h]
  BY DEF QueueInv, Typed, Dies
<1> QED
  BY <1>1, <1>2, <1>3, QueueAloneKeeps, SessionsEnd DEF Dies

LEMMA EndSessionStep ==
  ASSUME QueueInv, NEW g \in Gens, NEW c \in Channels, EndSession(g, c)
  PROVE  QueueInv'
<1>1. Typed' /\ QueueAlone
  BY CommandQueueAssumption
  DEF QueueInv, Typed, EndSession, RemoveLiveStatus, QueueAlone
<1>2. \A h \in Gens : proc'[h] # "none" => status[h] # "none"
  BY DEF QueueInv, OfRows, EndSession
<1>3. \A h \in Gens : sessions'[h] \subseteq sessions[h]
  BY DEF QueueInv, Typed, EndSession
<1>4. \A d \in Channels :
        \/ live'[d] = live[d]
        \/ live'[d] = 0 /\ g >= live[d] /\ d \notin sessions'[g] /\ status[g] # "none"
  BY DEF QueueInv, Typed, OfRows, EndSession, RemoveLiveStatus, Gens
<1> QED
  BY <1>1, <1>2, <1>3, <1>4, QueueAloneKeeps, SessionsEnd DEF EndSession

LEMMA PromptStep ==
  ASSUME QueueInv, NEW g \in Gens, NEW c \in Channels, Prompt(g, c)
  PROVE  QueueInv'
<1>1. Typed' /\ QueueAlone /\ status[g] # "none"
  BY DEF QueueInv, Typed, OfRows, Prompt, UpsertLiveStatus, QueueAlone, Gens
<1>2. /\ LatestGeneration' = LatestGeneration /\ (\E n : RowsAre(n))'
      /\ LatestGeneration \in 0..MaxGenerations
      /\ \A h \in Gens : status[h] # "none" <=> h <= LatestGeneration
  BY SameLatest DEF Prompt
<1>3. OfRows'
  BY <1>1 DEF QueueInv, Typed, OfRows, Prompt, UpsertLiveStatus
<1>4. LiveRowIsTheNewest'
  <2> SUFFICES ASSUME NEW h \in Gens, NEW d \in Channels,
                      h = LatestGeneration, d \in sessions'[h]
               PROVE  live'[d] = h
    BY <1>2 DEF LiveRowIsTheNewest
  <2>1. g <= h /\ live[d] \in 0..MaxGenerations /\ (live[d] = 0 \/ live[d] <= h)
    BY <1>1, <1>2 DEF QueueInv, Typed, OfRows, Gens
  <2>2. CASE d = c /\ h = g
    BY <2>1, <2>2 DEF Prompt, UpsertLiveStatus, QueueInv, Typed, Gens
  <2>3. CASE d # c \/ h # g
    <3>1. live[d] = h
      BY <2>3 DEF QueueInv, Typed, LiveRowIsTheNewest, Prompt
    <3> QED
      BY <2>1, <2>3, <3>1 DEF Prompt, UpsertLiveStatus, QueueInv, Typed, Gens
  <2> QED
    BY <2>2, <2>3
<1> QED
  BY <1>1, <1>2, <1>3, <1>4, QueueAloneKeeps DEF QueueInv

\* What a command appended to the queue changes: one index more, not yet run.
LEMMA EnqueueEffect ==
  ASSUME Typed, RunsFollowClaims, UNCHANGED ran,
         NEW g \in Gens, NEW type \in Types, NEW target \in Channels \cup {NoTarget},
         Enqueue(g, type, target)
  PROVE  /\ commands' \in Seq(CommandType)
         /\ RunsFollowClaims'
         /\ Cardinality(Requests)' = Cardinality(Requests) +
              (IF type # "reread_config" THEN 1 ELSE 0)
         /\ Cardinality(Rereads)' = Cardinality(Rereads) +
              (IF type = "reread_config" THEN 1 ELSE 0)
<1> DEFINE n == Len(commands)
           c == Command(g, type, target)
<1>1. c \in CommandType /\ c.status = "pending" /\ c.type = type
  BY DEF Command, CommandType
<1>2. commands' = Append(commands, c)
  BY DEF Enqueue
<1> HIDE DEF c
<1>3. /\ n \in Nat /\ DOMAIN commands = 1..n /\ DOMAIN commands' = 1..(n + 1)
      /\ commands' \in Seq(CommandType)
      /\ \A i \in 1..n : commands'[i] = commands[i]
      /\ commands'[n + 1] = c
  BY <1>1, <1>2 DEF Typed
<1> HIDE DEF n
<1>4. RunsFollowClaims'
  <2> SUFFICES ASSUME NEW i \in Ids
               PROVE  /\ Len(ran[i]) <= 1
                      /\ i \notin DOMAIN commands' \/ commands'[i].status = "pending"
                           => ran[i] = <<>>
                      /\ ran[i] # <<>> => ran[i] = <<commands'[i].generation>>
    BY DEF RunsFollowClaims
  <2>1. CASE i \in 1..n
    BY <1>3, <2>1 DEF RunsFollowClaims
  <2>2. CASE i \notin 1..n
    BY <1>3, <2>2 DEF RunsFollowClaims
  <2> QED
    BY <2>1, <2>2
<1>5. /\ Requests \in SUBSET (1..n) /\ Requests' \in SUBSET (1..(n + 1))
      /\ Requests' \cap (1..n) = Requests
      /\ n + 1 \in Requests' <=> type # "reread_config"
  BY <1>1, <1>3 DEF Requests
<1>6. /\ Rereads \in SUBSET (1..n) /\ Rereads' \in SUBSET (1..(n + 1))
      /\ Rereads' \cap (1..n) = Rereads
      /\ n + 1 \in Rereads' <=> type = "reread_config"
  BY <1>1, <1>3 DEF Rereads
<1>7. Cardinality(Requests') = Cardinality(Requests) + (IF n + 1 \in Requests' THEN 1 ELSE 0)
  BY <1>3, <1>5, CountAppended
<1>8. Cardinality(Rereads') = Cardinality(Rereads) + (IF n + 1 \in Rereads' THEN 1 ELSE 0)
  BY <1>3, <1>6, CountAppended
<1> QED
  BY <1>3, <1>4, <1>5, <1>6, <1>7, <1>8

\* The console's actions leave the bots alone.
LEMMA ConsoleKeeps ==
  ASSUME QueueInv, Typed', Counted', RunsFollowClaims',
         UNCHANGED <<status, proc, sessions, live>>
  PROVE  QueueInv'
<1>1. LatestGeneration' = LatestGeneration /\ (\E n : RowsAre(n))'
  BY SameLatest
<1> QED
  BY <1>1 DEF QueueInv, OfRows, LiveRowIsTheNewest

\* A running latest generation is a generation.
LEMMA LatestIsGen ==
  ASSUME QueueInv, IsRunning(LatestGeneration)
  PROVE  LatestGeneration \in Gens
<1>1. PICK n \in 0..MaxGenerations : \A g \in Gens : status[g] # "none" <=> g <= n
  BY DEF QueueInv, RowsAre
<1>2. LatestGeneration = n
  BY <1>1, LatestIsCount DEF LatestGeneration
<1> QED
  BY <1>2, CommandQueueAssumption DEF IsRunning, Gens

LEMMA RequestStep ==
  ASSUME QueueInv, InsertUnknown \/ \E c \in Channels : RequestTeardown(c)
  PROVE  QueueInv'
<1>1. /\ RoomForRequest /\ LatestGeneration \in Gens
      /\ UNCHANGED <<status, proc, config, editing, known, sessions, live, ran>>
  BY LatestIsGen DEF InsertUnknown, RequestTeardown
<1>2. PICK type \in {"unknown", "teardown_channel"}, target \in Channels \cup {NoTarget} :
        Enqueue(LatestGeneration, type, target)
  BY DEF InsertUnknown, RequestTeardown
<1>3. type \in Types /\ type # "reread_config" /\ Typed /\ RunsFollowClaims
  BY DEF Types, QueueInv
<1>4. /\ commands' \in Seq(CommandType) /\ RunsFollowClaims'
      /\ Cardinality(Requests)' = Cardinality(Requests) + 1
      /\ Cardinality(Rereads)' = Cardinality(Rereads) + 0
  BY <1>1, <1>2, <1>3, EnqueueEffect
<1>5. Counted'
  <2>1. Cardinality(Requests) \in Nat /\ Cardinality(Rereads) \in Nat
    BY <1>3, CountsAddUp
  <2>2. Cardinality(Requests) < MaxRequests
    BY <1>1 DEF RoomForRequest, Requests
  <2> QED
    BY <1>1, <1>4, <2>1, <2>2, CommandQueueAssumption DEF QueueInv, Counted
<1>6. Typed'
  BY <1>1, <1>3, <1>4 DEF Typed
<1> QED
  BY <1>1, <1>4, <1>5, <1>6, ConsoleKeeps

LEMMA EditConfigStep == ASSUME QueueInv, EditConfig PROVE QueueInv'
<1>1. Typed'
  BY CommandQueueAssumption DEF QueueInv, Typed, EditConfig
<1>2. RunsFollowClaims'
  BY DEF QueueInv, RunsFollowClaims, EditConfig
<1>3. Counted'
  <2>1. Cardinality(Rereads) \in Nat /\ config \in Nat
    BY CountsAddUp, CommandQueueAssumption DEF QueueInv, Typed
  <2> QED
    BY <2>1 DEF QueueInv, Counted, EditConfig, Requests, Rereads
<1> QED
  BY <1>1, <1>2, <1>3, ConsoleKeeps DEF EditConfig

LEMMA SignalRereadStep == ASSUME QueueInv, SignalReread PROVE QueueInv'
<1>1. /\ editing /\ ~editing'
      /\ UNCHANGED <<status, proc, config, known, sessions, live, ran>>
  BY DEF SignalReread
<1>2. /\ Typed /\ RunsFollowClaims /\ Counted
      /\ Cardinality(Requests) \in Nat /\ Cardinality(Rereads) \in Nat
      /\ config \in Nat
  BY CountsAddUp, CommandQueueAssumption DEF QueueInv, Typed
<1>3. CASE /\ IsRunning(LatestGeneration)
           /\ Enqueue(LatestGeneration, "reread_config", NoTarget)
  <2>1. /\ commands' \in Seq(CommandType) /\ RunsFollowClaims'
        /\ Cardinality(Requests)' = Cardinality(Requests) + 0
        /\ Cardinality(Rereads)' = Cardinality(Rereads) + 1
    BY <1>1, <1>2, <1>3, LatestIsGen, EnqueueEffect DEF Types
  <2>2. Counted'
    BY <1>1, <1>2, <2>1 DEF Counted
  <2>3. Typed'
    BY <1>1, <1>2, <2>1 DEF Typed, SignalReread
  <2> QED
    BY <1>1, <2>1, <2>2, <2>3, ConsoleKeeps
<1>4. CASE UNCHANGED commands
  <2>1. Typed' /\ RunsFollowClaims' /\ Requests' = Requests /\ Rereads' = Rereads
    BY <1>1, <1>2, <1>4 DEF Typed, RunsFollowClaims, Requests, Rereads, SignalReread
  <2>2. Counted'
    BY <1>1, <1>2, <2>1 DEF Counted
  <2> QED
    BY <1>1, <2>1, <2>2, ConsoleKeeps
<1> QED
  BY <1>3, <1>4 DEF SignalReread

-----------------------------------------------------------------------------
(***************************************************************************)
(* The tick of a poller.                                                   *)
(***************************************************************************)

\* What is run was claimed.
LEMMA DoneWasClaimed ==
  ASSUME NEW ids, NEW done \in Dispatched(ids)
  PROVE  done \subseteq ids
BY DEF Dispatched

\* A claim changes the status of what it claims, and nothing else.
LEMMA ClaimEffect ==
  ASSUME Typed, NEW ids \in SUBSET DOMAIN commands, Claim(ids)
  PROVE  /\ commands' \in Seq(CommandType) /\ DOMAIN commands' = DOMAIN commands
         /\ \A i \in DOMAIN commands :
              /\ commands'[i].type = commands[i].type
              /\ commands'[i].generation = commands[i].generation
              /\ commands'[i].target = commands[i].target
              /\ commands'[i].status = IF i \in ids THEN "consumed" ELSE commands[i].status
<1>1. /\ DOMAIN commands' = DOMAIN commands
      /\ commands' = [i \in DOMAIN commands |-> commands'[i]]
  BY DEF Claim
<1>2. ASSUME NEW i \in DOMAIN commands
      PROVE  /\ commands'[i] \in CommandType
             /\ commands'[i].type = commands[i].type
             /\ commands'[i].generation = commands[i].generation
             /\ commands'[i].target = commands[i].target
             /\ commands'[i].status = IF i \in ids THEN "consumed" ELSE commands[i].status
  <2>1. commands[i] \in CommandType
    BY DEF Typed
  <2>2. commands'[i] = IF i \in ids THEN [commands[i] EXCEPT !.status = "consumed"]
                                    ELSE commands[i]
    BY DEF Claim
  <2> QED
    BY <2>1, <2>2 DEF CommandType
<1>3. commands' \in Seq(CommandType)
  BY <1>1, <1>2, SeqByIndex DEF Typed
<1> QED
  BY <1>1, <1>2, <1>3

LEMMA PollStep == ASSUME QueueInv, NEW g \in Gens, Poll(g) PROVE QueueInv'
<1> DEFINE claimed == Claimable(g)
<1>1. /\ Typed /\ RunsFollowClaims /\ Up(g) /\ Claim(claimed)
      /\ UNCHANGED <<status, proc, config, editing>>
  BY DEF QueueInv, Poll
<1>2. PICK done \in Dispatched(claimed) :
        LET torn == {commands[i].target :
                       i \in {j \in done : commands[j].type = "teardown_channel"}}
        IN /\ sessions' = [sessions EXCEPT ![g] = @ \ torn]
           /\ RemoveLiveStatus(g, torn \cap sessions[g])
           /\ known' = IF RereadsConfig(done) THEN [known EXCEPT ![g] = config] ELSE known
           /\ ran' = [i \in Ids |-> IF i \in done /\ commands[i].type # "unknown"
                                      THEN Append(ran[i], g) ELSE ran[i]]
  BY DEF Poll
<1> DEFINE torn == {commands[i].target :
                      i \in {j \in done : commands[j].type = "teardown_channel"}}
<1>3. /\ claimed \in SUBSET DOMAIN commands /\ done \subseteq claimed
      /\ \A i \in claimed : commands[i].generation = g /\ commands[i].status = "pending"
  BY DoneWasClaimed DEF Claimable
<1>4. /\ commands' \in Seq(CommandType) /\ DOMAIN commands' = DOMAIN commands
      /\ \A i \in DOMAIN commands :
           /\ commands'[i].type = commands[i].type
           /\ commands'[i].generation = commands[i].generation
           /\ commands'[i].status = IF i \in claimed THEN "consumed" ELSE commands[i].status
  BY <1>1, <1>3, ClaimEffect
<1> HIDE DEF claimed
<1>5. /\ sessions' = [sessions EXCEPT ![g] = @ \ torn]
      /\ live' = [c \in Channels |-> IF c \in torn \cap sessions[g] /\ live[c] <= g
                                     THEN 0 ELSE live[c]]
  BY <1>2 DEF RemoveLiveStatus
<1> HIDE DEF torn
<1>6. \A i \in Ids : IF i \in done /\ commands[i].type # "unknown"
                     THEN ran[i] = <<>> /\ ran'[i] = <<g>> ELSE ran'[i] = ran[i]
  <2>1. Append(<<>>, g) = <<g>>
    OBVIOUS
  <2> SUFFICES ASSUME NEW i \in Ids, i \in done, commands[i].type # "unknown"
               PROVE  ran[i] = <<>> /\ ran'[i] = <<g>>
    BY <1>2
  <2>2. ran[i] = <<>>
    BY <1>1, <1>3 DEF RunsFollowClaims
  <2> QED
    BY <1>2, <2>1, <2>2
<1>7. Typed'
  <2>1. ran' \in [Ids -> Seq(Gens)]
    BY <1>1, <1>2 DEF Typed
  <2>2. known' \in [Gens -> 0..MaxEdits]
    BY <1>1, <1>2 DEF Typed
  <2>3. sessions' \in [Gens -> SUBSET Channels] /\ live' \in [Channels -> 0..MaxGenerations]
    BY <1>1, <1>5, CommandQueueAssumption DEF Typed
  <2> QED
    BY <1>1, <1>4, <2>1, <2>2, <2>3 DEF Typed
<1>8. RunsFollowClaims'
  <2> SUFFICES ASSUME NEW i \in Ids
               PROVE  /\ Len(ran'[i]) <= 1
                      /\ i \notin DOMAIN commands' \/ commands'[i].status = "pending"
                           => ran'[i] = <<>>
                      /\ ran'[i] # <<>> => ran'[i] = <<commands'[i].generation>>
    BY DEF RunsFollowClaims
  <2>1. CASE i \in done /\ commands[i].type # "unknown"
    <3>1. ran'[i] = <<g>> /\ i \in claimed /\ i \in DOMAIN commands
      BY <1>3, <1>6, <2>1
    <3>2. commands'[i].status = "consumed" /\ commands'[i].generation = g
      BY <1>3, <1>4, <3>1
    <3>3. Len(<<g>>) = 1
      OBVIOUS
    <3> QED
      BY <1>4, <3>1, <3>2, <3>3
  <2>2. CASE ~(i \in done /\ commands[i].type # "unknown")
    <3>1. ran'[i] = ran[i]
      BY <1>6, <2>2
    <3>2. CASE i \in DOMAIN commands
      BY <1>1, <1>3, <1>4, <3>1, <3>2 DEF RunsFollowClaims
    <3>3. CASE i \notin DOMAIN commands
      BY <1>1, <1>4, <3>1, <3>3 DEF RunsFollowClaims
    <3> QED
      BY <3>2, <3>3
  <2> QED
    BY <2>1, <2>2
<1>9. Requests' = Requests /\ Rereads' = Rereads
  BY <1>4 DEF Requests, Rereads
<1>10. Counted'
  BY <1>1, <1>9 DEF QueueInv, Counted
<1>11. \A h \in Gens : proc'[h] # "none" => status[h] # "none"
  BY <1>1 DEF QueueInv, OfRows
<1>12. \A h \in Gens : sessions'[h] \subseteq sessions[h]
  BY <1>1, <1>5 DEF Typed
<1>13. status[g] # "none"
  BY <1>1 DEF QueueInv, OfRows, Up
<1>14. \A c \in Channels :
         \/ live'[c] = live[c]
         \/ live'[c] = 0 /\ g >= live[c] /\ c \notin sessions'[g] /\ status[g] # "none"
  BY <1>1, <1>5, <1>13 DEF Typed, Gens
<1> QED
  BY <1>1, <1>7, <1>8, <1>10, <1>11, <1>12, <1>14, SessionsEnd

-----------------------------------------------------------------------------
LEMMA InitQueueInv == Init => QueueInv
<1> SUFFICES ASSUME Init PROVE QueueInv
  OBVIOUS
<1>1. Typed
  <2>1. commands \in Seq(CommandType) /\ ran \in [Ids -> Seq(Gens)]
    BY DEF Init
  <2>2. config \in 0..MaxEdits /\ known \in [Gens -> 0..MaxEdits]
        /\ live \in [Channels -> 0..MaxGenerations]
    BY CommandQueueAssumption DEF Init
  <2> QED
    BY <2>1, <2>2 DEF Init, Typed
<1>2. Requests = {} /\ Rereads = {}
  BY DEF Init, Requests, Rereads
<1>3. Counted
  BY <1>2, FS_EmptySet, CommandQueueAssumption DEF Init, Counted
<1>4. RunsFollowClaims
  BY DEF Init, RunsFollowClaims
<1>5. RowsAre(0)
  BY CommandQueueAssumption DEF Init, RowsAre, Gens
<1>6. OfRows /\ LiveRowIsTheNewest
  BY DEF Init, OfRows, LiveRowIsTheNewest
<1> QED
  BY <1>1, <1>3, <1>4, <1>5, <1>6 DEF QueueInv

LEMMA NextQueueInv == ASSUME QueueInv, [Next]_vars PROVE QueueInv'
<1>1. CASE UNCHANGED vars
  BY <1>1, BotsKeep DEF vars, QueueInv, Typed, OfRows, QueueAlone, NoNewRow
<1>2. CASE Generations
  BY <1>2, InsertGenerationStep, ConstructStep, ReadyStep, RowEndsStep, DiesStep
  DEF Generations
<1>3. CASE Bots
  BY <1>3, PollStep, PromptStep, EndSessionStep DEF Bots
<1>4. CASE Console
  BY <1>4, RequestStep, EditConfigStep, SignalRereadStep DEF Console
<1> QED
  BY <1>1, <1>2, <1>3, <1>4 DEF Next

LEMMA QueueInvHolds == Spec => []QueueInv
BY InitQueueInv, NextQueueInv, PTL DEF Spec

\* The tables and the bots keep their types, and the queue its bound: one command
\* per request, at most one per edit.
THEOREM TypeCorrect == Spec => []TypeOK
<1>1. ASSUME QueueInv PROVE TypeOK
  <2>1. Len(commands) <= MaxRequests + MaxEdits
    BY <1>1, CountsAddUp, CommandQueueAssumption DEF QueueInv, Typed, Counted
  <2> QED
    BY <1>1, <2>1 DEF QueueInv, Typed, TypeOK, CommandType
<1> QED
  BY <1>1, QueueInvHolds, PTL

\* claimPending() in one transaction makes a command run at most once, whatever
\* bots overlap and whatever a dispatch throws, and only in the bot it was for.
THEOREM CommandsRunOnceAtTheirBot == Spec => []RunsOnceAtItsBot
<1>1. ASSUME QueueInv PROVE RunsOnceAtItsBot
  <2> SUFFICES ASSUME NEW i \in Ids
               PROVE  /\ Len(ran[i]) <= 1
                      /\ i > Len(commands) => ran[i] = <<>>
                      /\ \A k \in DOMAIN ran[i] : ran[i][k] = commands[i].generation
    BY DEF RunsOnceAtItsBot
  <2>1. ran[i] \in Seq(Gens) /\ DOMAIN commands = 1..Len(commands) /\ Len(commands) \in Nat
    BY <1>1 DEF QueueInv, Typed
  <2>2. i > Len(commands) => i \notin DOMAIN commands
    BY <2>1, CommandQueueAssumption DEF Ids
  <2> QED
    BY <1>1, <2>1, <2>2 DEF QueueInv, RunsFollowClaims
<1> QED
  BY <1>1, QueueInvHolds, PTL

\* However generations overlap, the newest bot's sessions carry its generation.
THEOREM LiveRowsAreTheNewest == Spec => []LiveRowIsTheNewest
<1>1. QueueInv => LiveRowIsTheNewest
  BY DEF QueueInv
<1> QED
  BY <1>1, QueueInvHolds, PTL

-----------------------------------------------------------------------------
(***************************************************************************)
(* The configuration a running bot works with, when edits look for a bot   *)
(* only once it is connected and no dispatch throws.                       *)
(***************************************************************************)

Told(g) == \E i \in DOMAIN commands : /\ commands[i].generation = g
                                      /\ commands[i].status = "pending"
                                      /\ commands[i].type = "reread_config"

\* A newest bot with an old configuration hears of it: before it is running from
\* the edit under way, afterwards from a command.
HearsOfIt ==
  /\ \A g \in Gens : status[g] = "starting" => proc[g] # "serving"
  /\ \A g \in Gens : g = LatestGeneration /\ Up(g) /\ known[g] # config =>
       \/ editing
       \/ status[g] # "starting" /\ (status[g] = "running" => Told(g))

\* Steps after which the newest bot knows and has been told no less.
LEMMA HearsStill ==
  ASSUME QueueInv, HearsOfIt, UNCHANGED config,
         \A g \in Gens : status[g] # "none" <=> status'[g] # "none",
         \A g \in Gens : status'[g] = "starting" =>
           status[g] = "starting" /\ proc'[g] # "serving",
         \A g \in Gens : Up(g)' /\ known'[g] # config =>
           Up(g) /\ known[g] # config /\ (editing => editing'),
         \A g \in Gens : status'[g] = "running" =>
           \/ status[g] = "running" /\ (Told(g) => Told(g)' \/ known'[g] = config)
           \/ status[g] = "starting"
  PROVE  HearsOfIt'
<1>1. LatestGeneration' = LatestGeneration
  BY SameLatest
<1> QED
  BY <1>1 DEF HearsOfIt

LEMMA GenerationsHear == ASSUME QueueInv, HearsOfIt, Generations PROVE HearsOfIt'
<1>1. ASSUME NEW g \in Gens, InsertGeneration(g) PROVE HearsOfIt'
  <2>1. PICK n : RowsAre(n)
    BY DEF QueueInv
  <2>2. g = n + 1 /\ n \in Nat
    BY <1>1, <2>1, CommandQueueAssumption DEF RowsAre, InsertGeneration, Gens
  <2>3. RowsAre(n + 1)'
    BY <1>1, <2>1, <2>2, CommandQueueAssumption
    DEF QueueInv, Typed, RowsAre, InsertGeneration, Gens
  <2>4. LatestGeneration' = g
    BY <2>2, <2>3, LatestIsCount DEF LatestGeneration, RowsAre
  <2>5. proc'[g] = "none" /\ \A h \in Gens : status'[h] = IF h = g THEN "starting" ELSE status[h]
    BY <1>1 DEF QueueInv, Typed, OfRows, InsertGeneration
  <2> QED
    BY <1>1, <2>4, <2>5 DEF HearsOfIt, Up, InsertGeneration
<1>2. ASSUME NEW g \in Gens, Construct(g) PROVE HearsOfIt'
  BY <1>2, HearsStill DEF QueueInv, Typed, Construct, Up, Told, HearsOfIt
<1>3. ASSUME NEW g \in Gens, Ready(g) PROVE HearsOfIt'
  BY <1>3, HearsStill DEF QueueInv, Typed, Ready, Up, Told, HearsOfIt
<1>4. ASSUME NEW g \in Gens, MarkStopping(g) \/ Finalize(g) PROVE HearsOfIt'
  BY <1>4, HearsStill DEF QueueInv, Typed, MarkStopping, Finalize, Up, Told, HearsOfIt
<1>5. ASSUME NEW g \in Gens, Dies(g) PROVE HearsOfIt'
  BY <1>5, HearsStill DEF QueueInv, Typed, Dies, Up, Told, HearsOfIt
<1> QED
  BY <1>1, <1>2, <1>3, <1>4, <1>5 DEF Generations

LEMMA PollHears ==
  ASSUME Races = {}, QueueInv, HearsOfIt, NEW g \in Gens, Poll(g)
  PROVE  HearsOfIt'
<1> DEFINE claimed == Claimable(g)
<1>1. /\ Typed /\ claimed \in SUBSET DOMAIN commands /\ Claim(claimed)
      /\ UNCHANGED <<status, proc, config, editing>>
  BY DEF QueueInv, Poll, Claimable
<1>2. known' = IF RereadsConfig(claimed) THEN [known EXCEPT ![g] = config] ELSE known
  BY DEF Poll, Dispatched
<1>3. /\ DOMAIN commands' = DOMAIN commands
      /\ \A i \in DOMAIN commands :
           /\ commands'[i].type = commands[i].type
           /\ commands'[i].generation = commands[i].generation
           /\ commands'[i].status = IF i \in claimed THEN "consumed" ELSE commands[i].status
  BY <1>1, ClaimEffect
<1>4. ASSUME NEW h \in Gens, h # g, Told(h) PROVE Told(h)'
  BY <1>3, <1>4 DEF Told, Claimable
<1>5. ASSUME Told(g), status[g] = "running" PROVE known'[g] = config
  BY <1>1, <1>2, <1>5 DEF Told, Claimable, RereadsConfig, Typed
<1>6. \A h \in Gens : known'[h] = known[h] \/ known'[h] = config
  BY <1>1, <1>2 DEF Typed
<1> HIDE DEF claimed
<1> QED
  BY <1>1, <1>4, <1>5, <1>6, HearsStill DEF HearsOfIt, Up

LEMMA BotsHear == ASSUME Races = {}, QueueInv, HearsOfIt, Bots PROVE HearsOfIt'
<1>1. ASSUME NEW g \in Gens, NEW c \in Channels, Prompt(g, c) \/ EndSession(g, c)
      PROVE  HearsOfIt'
  BY <1>1, HearsStill DEF Prompt, EndSession, Up, Told, HearsOfIt
<1> QED
  BY <1>1, PollHears DEF Bots

\* A command appended to the queue leaves the others there.
LEMMA EnqueueTells ==
  ASSUME Typed, NEW g \in Gens, NEW type \in Types, NEW target \in Channels \cup {NoTarget},
         Enqueue(g, type, target)
  PROVE  /\ \A h \in Gens : Told(h) => Told(h)'
         /\ type = "reread_config" => Told(g)'
<1>1. /\ DOMAIN commands' = 1..(Len(commands) + 1) /\ DOMAIN commands = 1..Len(commands)
      /\ Len(commands) \in Nat
      /\ \A i \in DOMAIN commands : commands'[i] = commands[i]
      /\ commands'[Len(commands) + 1] = Command(g, type, target)
  BY DEF Enqueue, Typed
<1>2. DOMAIN commands \subseteq DOMAIN commands' /\ Len(commands) + 1 \in DOMAIN commands'
  BY <1>1
<1> QED
  BY <1>1, <1>2 DEF Told, Command

LEMMA ConsoleHears == ASSUME Races = {}, QueueInv, HearsOfIt, Console PROVE HearsOfIt'
<1>1. ASSUME InsertUnknown \/ \E c \in Channels : RequestTeardown(c) PROVE HearsOfIt'
  <2>1. LatestGeneration \in Gens /\ UNCHANGED <<status, proc, config, editing, known>>
    BY <1>1, LatestIsGen DEF InsertUnknown, RequestTeardown
  <2>2. \A h \in Gens : Told(h) => Told(h)'
    BY <1>1, <2>1, EnqueueTells DEF QueueInv, InsertUnknown, RequestTeardown, Types
  <2> QED
    BY <2>1, <2>2, HearsStill DEF Up, HearsOfIt
<1>2. CASE EditConfig
  <2>1. LatestGeneration' = LatestGeneration
    BY <1>2, SameLatest DEF EditConfig
  <2> QED
    BY <1>2, <2>1 DEF EditConfig, HearsOfIt
<1>3. CASE SignalReread
  <2>1. LatestGeneration' = LatestGeneration /\ UNCHANGED <<status, proc, config, known>>
    BY <1>3, SameLatest DEF SignalReread
  <2>2. ASSUME IsRunning(LatestGeneration) PROVE Told(LatestGeneration)'
    BY <1>3, <2>2, <2>1, LatestIsGen, EnqueueTells DEF SignalReread, QueueInv, Types
  <2>3. ~ConnectingOnOld(LatestGeneration)
    BY <1>3 DEF SignalReread
  <2> SUFFICES ASSUME NEW g \in Gens, g = LatestGeneration, Up(g), known[g] # config
               PROVE  status[g] # "starting" /\ (status[g] = "running" => Told(g)')
    BY <2>1 DEF HearsOfIt, Up
  <2>4. g # 0
    BY CommandQueueAssumption DEF Gens
  <2>5. status[g] # "starting"
    BY <2>3, <2>4 DEF ConnectingOnOld, HearsOfIt, Up
  <2> QED
    BY <2>1, <2>2, <2>4, <2>5 DEF IsRunning, Told
<1> QED
  BY <1>1, <1>2, <1>3 DEF Console

\* When neither rare event happens, the console shows the newest bot's sessions as
\* its own, and a running bot with an old configuration has been told of the edit or
\* is about to be.
THEOREM BothSidesStayCurrent ==
  ASSUME Races = {}
  PROVE  Spec => []BothSidesAreCurrent
<1>1. Init => HearsOfIt
  BY DEF Init, HearsOfIt, Up
<1>2. ASSUME QueueInv, HearsOfIt, [Next]_vars PROVE HearsOfIt'
  <2>1. CASE UNCHANGED vars
    BY <1>2, <2>1, HearsStill DEF vars, Up, Told, HearsOfIt
  <2> QED
    BY <1>2, <2>1, GenerationsHear, BotsHear, ConsoleHears DEF Next
<1>3. ASSUME QueueInv, HearsOfIt PROVE BothSidesAreCurrent
  <2> SUFFICES ASSUME IsRunning(LatestGeneration), Up(LatestGeneration),
                      known[LatestGeneration] # config, ~editing
               PROVE  \E i \in Claimable(LatestGeneration) : commands[i].type = "reread_config"
    BY <1>3 DEF QueueInv, BothSidesAreCurrent, StaleBotIsTold
  <2>1. LatestGeneration \in Gens /\ status[LatestGeneration] = "running"
    BY <1>3, LatestIsGen DEF IsRunning
  <2>2. Told(LatestGeneration)
    BY <1>3, <2>1 DEF HearsOfIt
  <2> QED
    BY <2>1, <2>2 DEF Told, Claimable
<1> QED
  BY <1>1, <1>2, <1>3, QueueInvHolds, PTL DEF Spec
=============================================================================
