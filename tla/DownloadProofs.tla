-------------------------- MODULE DownloadProofs --------------------------
(***************************************************************************)
(* The download service: its slots, and the updater of its yt-dlp binary.  *)
(*                                                                         *)
(* The slots are neither lost, nor duplicated, nor left free while a job   *)
(* waits, jobs start in the order they were added, and no pipeline waits   *)
(* for a child that is gone: for any number of jobs, of files and of       *)
(* slots, with cancellations and failures anywhere.                        *)
(*                                                                         *)
(* The updater performs one update at a time and undoes what failed, for   *)
(* any number of checks, releases and retries.  Unless a check starts      *)
(* while another awaits its answers, at most one check is under way at     *)
(* all, and the flag says whether it performs an update: Local(k) says so  *)
(* of the check k that moves.  FilesAt says of every step of the update    *)
(* where the version it began with is: in the binary, or in the backup, so *)
(* that the rollback puts it back.                                         *)
(*                                                                         *)
(* The jobs of Radarr and Sonarr follow their queues, for any number of    *)
(* jobs, titles and polls: what is shown as completed has left the queue,  *)
(* and, with one poll at a time, no status goes back.                      *)
(***************************************************************************)
EXTENDS DownloadScheduler, UpdateFlag, JobStatus, FiniteSetTheorems, TLAPS

InOrder(q) == \A a, b \in DOMAIN q : a < b => q[a] < q[b]

\* What holds of a queue q and the slots held when the phases are ph.
Queueing(q, held, ph) ==
  /\ q \in Seq(Jobs) /\ InOrder(q)
  /\ ph \in [Jobs -> Phases]
  /\ held = {j \in Jobs : ph[j] \in Active}
  /\ ToSet(q) = {j \in Jobs : ph[j] = "queued"}
  /\ Cardinality(held) <= MaxDownloads
  /\ \A i, j \in Jobs : ph[i] = "queued" /\ ph[j] \in Active \cup {"done"} => j < i
  /\ \A i, j \in Jobs : i < j /\ ph[i] = "none" => ph[j] = "none"

\* At most one job could be started: each caller of maybeProcessNextJob() has
\* added one job, or freed one slot.
OneToStart(q, held) == Len(q) <= 1 \/ Cardinality(held) >= MaxDownloads - 1

\* A process is stored by a job that was started.
ProcessesAreOfStarted ==
  \A j \in Jobs : proc[j] # "none" => phase[j] \in (Active \ {"info"}) \cup {"done"}

SchedulerInv ==
  TypeOK /\ Queueing(queue, inProgress, phase) /\ WorkConserving /\ ProcessesAreOfStarted

-----------------------------------------------------------------------------
(***************************************************************************)
(* Lemmas about queues and slots                                           *)
(***************************************************************************)
LEMMA JobsAreFinite ==
  ASSUME NEW held \in SUBSET Jobs
  PROVE  IsFiniteSet(held) /\ Cardinality(held) \in Nat
<1>1. IsFiniteSet(Jobs)
  BY SchedulerAssumption, FS_Interval DEF Jobs
<1> QED BY <1>1, FS_Subset, FS_CardinalityType

\* The head of a queue in order is before the rest of it.
LEMMA HeadIsFirst ==
  ASSUME NEW q \in Seq(Jobs), q # <<>>, InOrder(q)
  PROVE  /\ Head(q) \in Jobs /\ Tail(q) \in Seq(Jobs) /\ InOrder(Tail(q))
         /\ ToSet(Tail(q)) = ToSet(q) \ {Head(q)} /\ Head(q) \in ToSet(q)
         /\ \A j \in ToSet(Tail(q)) : Head(q) < j
         /\ Len(Tail(q)) = Len(q) - 1
<1>1. /\ Len(q) \in Nat /\ Len(q) > 0 /\ DOMAIN q = 1..Len(q) /\ Head(q) = q[1]
      /\ \A i \in 1..Len(q) : q[i] \in Jobs
  OBVIOUS
<1>2. /\ Tail(q) \in Seq(Jobs) /\ Len(Tail(q)) = Len(q) - 1
      /\ \A i \in 1..(Len(q) - 1) : Tail(q)[i] = q[i + 1]
  OBVIOUS
<1>3. DOMAIN Tail(q) = 1..(Len(q) - 1)
  BY <1>1, <1>2
<1>4. InOrder(Tail(q))
  BY <1>1, <1>2, <1>3 DEF InOrder
<1>5. \A i \in 1..Len(q) : i > 1 => q[1] < q[i]
  BY <1>1 DEF InOrder
<1>6. \A i \in 1..Len(q) : i > 1 => i - 1 \in 1..(Len(q) - 1) /\ Tail(q)[i - 1] = q[i]
  BY <1>1, <1>2
<1>7. ToSet(Tail(q)) = {q[i] : i \in 2..Len(q)}
  <2>1. ToSet(Tail(q)) = {Tail(q)[i] : i \in 1..(Len(q) - 1)}
    BY <1>3 DEF ToSet
  <2>2. \A i \in 1..(Len(q) - 1) : i + 1 \in 2..Len(q) /\ Tail(q)[i] = q[i + 1]
    BY <1>1, <1>2
  <2>3. \A i \in 2..Len(q) : i - 1 \in 1..(Len(q) - 1) /\ Tail(q)[i - 1] = q[i]
    BY <1>1, <1>6
  <2>4. ASSUME NEW x \in ToSet(Tail(q)) PROVE x \in {q[i] : i \in 2..Len(q)}
    BY <2>1, <2>2
  <2>5. ASSUME NEW x \in {q[i] : i \in 2..Len(q)} PROVE x \in ToSet(Tail(q))
    <3>1. PICK i \in 2..Len(q) : x = q[i]
      OBVIOUS
    <3> QED BY <3>1, <2>1, <2>3
  <2> QED BY <2>4, <2>5
<1>8. ToSet(q) = {q[i] : i \in 1..Len(q)}
  BY <1>1 DEF ToSet
<1>9. \A j \in ToSet(Tail(q)) : q[1] < j
  <2>1. \A i \in 2..Len(q) : q[1] < q[i]
    BY <1>1, <1>5
  <2> QED BY <2>1, <1>7
<1>10. \A i \in 2..Len(q) : q[i] # q[1]
  BY <1>1, <1>5 DEF Jobs
<1>11. ToSet(Tail(q)) = ToSet(q) \ {q[1]} /\ q[1] \in ToSet(q)
  BY <1>1, <1>7, <1>8, <1>10
<1> QED BY <1>1, <1>2, <1>4, <1>9, <1>11

LEMMA AppendedIsLast ==
  ASSUME NEW q \in Seq(Jobs), NEW j \in Jobs, InOrder(q), \A k \in ToSet(q) : k < j
  PROVE  /\ Append(q, j) \in Seq(Jobs) /\ InOrder(Append(q, j))
         /\ ToSet(Append(q, j)) = ToSet(q) \cup {j} /\ Len(Append(q, j)) = Len(q) + 1
<1>1. /\ Len(q) \in Nat /\ DOMAIN q = 1..Len(q) /\ \A i \in 1..Len(q) : q[i] \in Jobs
      /\ Append(q, j) \in Seq(Jobs) /\ Len(Append(q, j)) = Len(q) + 1
      /\ DOMAIN Append(q, j) = 1..(Len(q) + 1)
      /\ \A i \in 1..Len(q) : Append(q, j)[i] = q[i]
      /\ Append(q, j)[Len(q) + 1] = j
  OBVIOUS
<1>2. \A i \in 1..Len(q) : q[i] < j
  BY <1>1 DEF ToSet
<1>3. InOrder(Append(q, j))
  BY <1>1, <1>2 DEF InOrder, Jobs
<1>4. ToSet(Append(q, j)) = ToSet(q) \cup {j}
  BY <1>1 DEF ToSet
<1> QED BY <1>1, <1>3, <1>4

\* Ids are in the queue once.
LEMMA InOrderIsInjective ==
  ASSUME NEW q \in Seq(Jobs), InOrder(q)
  PROVE  IsInjective(q)
<1>1. /\ DOMAIN q = 1..Len(q) /\ Len(q) \in Nat /\ \A i \in 1..Len(q) : q[i] \in Jobs
  OBVIOUS
<1>2. SUFFICES ASSUME NEW a \in 1..Len(q), NEW b \in 1..Len(q), q[a] = q[b] PROVE a = b
  BY <1>1 DEF IsInjective
<1>3. ~(a < b) /\ ~(b < a)
  BY <1>1, <1>2 DEF InOrder, Jobs
<1> QED BY <1>1, <1>3

\* maybeProcessNextJob() keeps what holds of the queue and the slots, and when
\* it returns nothing waits for a slot that is free.
LEMMA ProcessedNext ==
  ASSUME NEW q, NEW held, NEW st \in [Jobs -> Statuses], NEW ph,
         Queueing(q, held, ph), OneToStart(q, held), MaybeProcessNext(q, held, st, ph)
  PROVE  /\ Queueing(queue', inProgress', phase') /\ WorkConserving'
         /\ status' \in [Jobs -> Statuses]
         /\ \A j \in Jobs : phase'[j] # ph[j] => ph[j] = "queued" /\ phase'[j] = "info"
         /\ \A j \in Jobs : status'[j] # st[j] => ph[j] = "queued" /\ phase'[j] = "info"
<1>1. /\ q \in Seq(Jobs) /\ InOrder(q) /\ ph \in [Jobs -> Phases] /\ held \in SUBSET Jobs
      /\ Cardinality(held) \in Nat /\ IsFiniteSet(held) /\ MaxDownloads \in Nat \ {0}
  BY JobsAreFinite, SchedulerAssumption DEF Queueing
<1>2. CASE ~MayStart(q, held)
  <2>1. queue' = q /\ inProgress' = held /\ status' = st /\ phase' = ph
    BY <1>2 DEF MaybeProcessNext
  <2>2. q # <<>> => Cardinality(held) = MaxDownloads
    BY <1>1, <1>2 DEF MayStart, Queueing
  <2> QED BY <2>1, <2>2 DEF WorkConserving
<1>3. CASE MayStart(q, held)
  <2> DEFINE j == Head(q)
  <2>1. /\ queue' = Tail(q) /\ inProgress' = held \cup {j}
        /\ status' = [st EXCEPT ![j] = "downloading"] /\ phase' = [ph EXCEPT ![j] = "info"]
    BY <1>3 DEF MaybeProcessNext
  <2>2. q # <<>> /\ Cardinality(held) < MaxDownloads
    BY <1>3 DEF MayStart
  <2>3. /\ j \in Jobs /\ Tail(q) \in Seq(Jobs) /\ InOrder(Tail(q))
        /\ ToSet(Tail(q)) = ToSet(q) \ {j} /\ j \in ToSet(q)
        /\ \A k \in ToSet(Tail(q)) : j < k
        /\ Len(Tail(q)) = Len(q) - 1
    BY <1>1, <2>2, HeadIsFirst
  <2> HIDE DEF j
  <2>4. ph[j] = "queued" /\ j \notin held
    BY <2>3 DEF Queueing, Active
  <2>5. Cardinality(held \cup {j}) = Cardinality(held) + 1
    BY <1>1, <2>4, FS_AddElement
  <2>6. phase' \in [Jobs -> Phases] /\ \A k \in Jobs : phase'[k] = IF k = j THEN "info" ELSE ph[k]
    BY <1>1, <2>1, <2>3 DEF Phases
  <2>7. inProgress' = {k \in Jobs : phase'[k] \in Active}
    BY <2>1, <2>3, <2>6 DEF Queueing, Active, Phases
  <2>8. ToSet(queue') = {k \in Jobs : phase'[k] = "queued"}
    BY <2>1, <2>3, <2>6 DEF Queueing
  <2>9. Cardinality(inProgress') <= MaxDownloads
    BY <1>1, <2>1, <2>2, <2>5
  <2>10. \A a, b \in Jobs : phase'[a] = "queued" /\ phase'[b] \in Active \cup {"done"} => b < a
    <3>1. SUFFICES ASSUME NEW a \in Jobs, NEW b \in Jobs, phase'[a] = "queued",
                          phase'[b] \in Active \cup {"done"}
                   PROVE  b < a
      OBVIOUS
    <3>2. CASE b = j
      BY <3>1, <3>2, <2>1, <2>3, <2>8
    <3>3. CASE b # j
      BY <3>1, <3>3, <2>6 DEF Queueing
    <3> QED BY <3>2, <3>3
  <2>11. \A a, b \in Jobs : a < b /\ phase'[a] = "none" => phase'[b] = "none"
    BY <2>4, <2>6 DEF Queueing
  <2>12. Queueing(queue', inProgress', phase')
    BY <2>1, <2>3, <2>6, <2>7, <2>8, <2>9, <2>10, <2>11 DEF Queueing
  <2>13. WorkConserving'
    <3>1. SUFFICES ASSUME Tail(q) # <<>> PROVE Cardinality(held) + 1 = MaxDownloads
      BY <2>1, <2>5 DEF WorkConserving
    <3>2. Len(Tail(q)) > 0 /\ Len(q) \in Nat
      BY <3>1, <2>3, <1>1
    <3>3. Cardinality(held) >= MaxDownloads - 1
      BY <3>2, <2>3 DEF OneToStart
    <3> QED BY <3>3, <2>2, <1>1
  <2>14. status' \in [Jobs -> Statuses] /\ \A k \in Jobs \ {j} : status'[k] = st[k]
    BY <2>1, <2>3 DEF Statuses
  <2> QED BY <2>4, <2>6, <2>12, <2>13, <2>14
<1> QED BY <1>2, <1>3

-----------------------------------------------------------------------------
(***************************************************************************)
(* The invariant                                                           *)
(***************************************************************************)
LEMMA SchedulerInit ==
  ASSUME Init
  PROVE  SchedulerInv /\ PipelineIsWoken
<1> USE SchedulerAssumption DEF Init
<1>1. Cardinality({}) = 0
  BY FS_EmptySet
<1>2. /\ queue \in Seq(Jobs) /\ InOrder(queue) /\ ToSet(queue) = {}
  BY DEF InOrder, ToSet
<1>3. Queueing(queue, inProgress, phase)
  BY <1>1, <1>2 DEF Queueing, Phases, Active
<1>4. TypeOK
  BY <1>2 DEF TypeOK, Statuses, Phases
<1> QED BY <1>3, <1>4 DEF SchedulerInv, WorkConserving, ProcessesAreOfStarted, PipelineIsWoken

\* What SchedulerInv says of one job and of the slots.
LEMMA Types ==
  ASSUME SchedulerInv
  PROVE  /\ TypeOK /\ Queueing(queue, inProgress, phase) /\ WorkConserving
         /\ ProcessesAreOfStarted
         /\ Cardinality(inProgress) \in Nat /\ IsFiniteSet(inProgress)
         /\ Len(queue) \in Nat /\ (queue # <<>> => Len(queue) > 0)
         /\ queue = <<>> => Len(queue) = 0
BY JobsAreFinite DEF SchedulerInv, TypeOK

\* A job's directory exists: it is queued, and started if a slot is free.
LEMMA AddStep ==
  ASSUME SchedulerInv, PipelineIsWoken, NEW j \in Jobs, Add(j)
  PROVE  SchedulerInv' /\ PipelineIsWoken'
<1> USE SchedulerAssumption
<1> DEFINE st == [status EXCEPT ![j] = "pending"]
           ph == [phase EXCEPT ![j] = "queued"]
           q == Append(queue, j)
<1>a. /\ phase[j] = "none" /\ \A k \in Jobs : k < j => phase[k] # "none"
      /\ MaybeProcessNext(q, inProgress, st, ph) /\ UNCHANGED <<proc, waiter, files>>
  BY DEF Add
<1>b. st \in [Jobs -> Statuses] /\ ph \in [Jobs -> Phases]
      /\ \A k \in Jobs : ph[k] = IF k = j THEN "queued" ELSE phase[k]
  BY Types DEF TypeOK, Statuses, Phases
<1>1. \A k \in Jobs : phase[k] # "none" => k < j
  <2>1. \A k \in Jobs : j < k => phase[k] = "none"
    BY <1>a, Types DEF Queueing
  <2> QED BY <2>1, <1>a DEF Jobs
<1>2. /\ q \in Seq(Jobs) /\ InOrder(q) /\ ToSet(q) = ToSet(queue) \cup {j}
      /\ Len(q) = Len(queue) + 1
  <2>1. \A k \in ToSet(queue) : k < j
    BY <1>1, Types DEF Queueing
  <2> QED BY <2>1, Types, AppendedIsLast DEF Queueing
<1> HIDE DEF st, ph, q
<1>3. Queueing(q, inProgress, ph)
  <2>1. inProgress = {k \in Jobs : ph[k] \in Active}
    BY <1>a, <1>b, Types DEF Queueing, Active, Phases
  <2>2. ToSet(q) = {k \in Jobs : ph[k] = "queued"}
    BY <1>2, <1>b, Types DEF Queueing
  <2>3. \A a, b \in Jobs : ph[a] = "queued" /\ ph[b] \in Active \cup {"done"} => b < a
    BY <1>1, <1>b, Types DEF Queueing, Active
  <2>4. \A a, b \in Jobs : a < b /\ ph[a] = "none" => ph[b] = "none"
    BY <1>a, <1>b, Types DEF Queueing
  <2> QED BY <1>b, <1>2, <2>1, <2>2, <2>3, <2>4, Types DEF Queueing
<1>4. OneToStart(q, inProgress)
  BY <1>2, Types DEF OneToStart, WorkConserving
<1>5. /\ Queueing(queue', inProgress', phase') /\ WorkConserving'
      /\ status' \in [Jobs -> Statuses]
      /\ \A k \in Jobs : phase'[k] # ph[k] => ph[k] = "queued" /\ phase'[k] = "info"
      /\ \A k \in Jobs : status'[k] # st[k] => ph[k] = "queued" /\ phase'[k] = "info"
  BY <1>a, <1>b, <1>3, <1>4, ProcessedNext
<1>6. \A k \in Jobs : phase'[k] # phase[k] =>
        phase[k] \in {"none", "queued"} /\ phase'[k] \in {"queued", "info"}
  BY <1>a, <1>b, <1>5
<1>7. TypeOK'
  BY <1>a, <1>5, Types DEF TypeOK, Queueing, Phases
<1>8. ProcessesAreOfStarted'
  BY <1>a, <1>6, Types DEF ProcessesAreOfStarted, Active
<1>9. PipelineIsWoken'
  <2>1. SUFFICES ASSUME NEW k \in Jobs, phase'[k] \in {"downloading", "converting"},
                        status'[k] \notin {"cancelling", "cancelled"}
                 PROVE  proc[k] = "running" /\ waiter[k] = "pipeline"
    BY <1>a DEF PipelineIsWoken
  <2>2. phase'[k] = phase[k] /\ k # j
    BY <1>6, <1>a, <2>1
  <2>3. status'[k] = status[k]
    BY <1>5, <2>1, <2>2, Types DEF st, TypeOK
  <2> QED BY <2>1, <2>2, <2>3 DEF PipelineIsWoken
<1> QED BY <1>5, <1>7, <1>8, <1>9 DEF SchedulerInv

\* The end of a job frees its slot, for the next one.
LEMMA EndsStep ==
  ASSUME SchedulerInv, PipelineIsWoken, NEW j \in Jobs, phase[j] \in Active,
         NEW outcome \in {"completed", "failed"}, Ends(j, outcome),
         proc' \in [Jobs -> {"none", "running", "exited"}],
         waiter' \in [Jobs -> {"none", "pipeline", "cancel"}], UNCHANGED files,
         \A k \in Jobs \ {j} : proc'[k] = proc[k] /\ waiter'[k] = waiter[k]
  PROVE  SchedulerInv' /\ PipelineIsWoken'
<1> USE SchedulerAssumption
<1> DEFINE st == [status EXCEPT ![j] = outcome]
           ph == [phase EXCEPT ![j] = "done"]
           held == inProgress \ {j}
<1>a. MaybeProcessNext(queue, held, st, ph)
  BY DEF Ends, Released
<1>b. st \in [Jobs -> Statuses] /\ ph \in [Jobs -> Phases]
      /\ \A k \in Jobs : ph[k] = IF k = j THEN "done" ELSE phase[k]
  BY Types DEF TypeOK, Statuses, Phases
<1>1. Cardinality(held) = Cardinality(inProgress) - 1
  <2>1. j \in inProgress
    BY Types DEF Queueing
  <2> QED BY <2>1, Types, FS_RemoveElement
<1> HIDE DEF st, ph
<1>3. Queueing(queue, held, ph)
  <2>1. held = {k \in Jobs : ph[k] \in Active}
    BY <1>b, Types DEF Queueing, Active, Phases
  <2>2. ToSet(queue) = {k \in Jobs : ph[k] = "queued"}
    BY <1>b, Types DEF Queueing, Active
  <2>3. \A a, b \in Jobs : ph[a] = "queued" /\ ph[b] \in Active \cup {"done"} => b < a
    BY <1>b, Types DEF Queueing, Active
  <2>4. \A a, b \in Jobs : a < b /\ ph[a] = "none" => ph[b] = "none"
    BY <1>b, Types DEF Queueing, Active
  <2>5. Cardinality(held) <= MaxDownloads
    BY <1>1, Types DEF Queueing
  <2> QED BY <1>b, <2>1, <2>2, <2>3, <2>4, <2>5, Types DEF Queueing
<1>4. OneToStart(queue, held)
  BY <1>1, Types DEF OneToStart, WorkConserving
<1> HIDE DEF held
<1>5. /\ Queueing(queue', inProgress', phase') /\ WorkConserving'
      /\ status' \in [Jobs -> Statuses]
      /\ \A k \in Jobs : phase'[k] # ph[k] => ph[k] = "queued" /\ phase'[k] = "info"
      /\ \A k \in Jobs : status'[k] # st[k] => ph[k] = "queued" /\ phase'[k] = "info"
  BY <1>a, <1>b, <1>3, <1>4, ProcessedNext
<1>6. phase'[j] = "done" /\ \A k \in Jobs \ {j} : phase'[k] # phase[k] =>
        phase[k] = "queued" /\ phase'[k] = "info"
  BY <1>b, <1>5
<1>7. TypeOK'
  BY <1>5, Types DEF TypeOK, Queueing, Phases
<1>8. ProcessesAreOfStarted'
  BY <1>6, Types DEF ProcessesAreOfStarted, Active
<1>9. PipelineIsWoken'
  <2>1. SUFFICES ASSUME NEW k \in Jobs, phase'[k] \in {"downloading", "converting"},
                        status'[k] \notin {"cancelling", "cancelled"}
                 PROVE  proc'[k] = "running" /\ waiter'[k] = "pipeline"
    BY DEF PipelineIsWoken
  <2>2. phase'[k] = phase[k] /\ k # j
    BY <1>6, <2>1
  <2>3. status'[k] = status[k]
    BY <1>5, <2>1, <2>2, Types DEF st, TypeOK
  <2> QED BY <2>1, <2>2, <2>3 DEF PipelineIsWoken
<1> QED BY <1>5, <1>7, <1>8, <1>9 DEF SchedulerInv

\* A step of a running pipeline to another phase keeps its slot.
LEMMA GoesStep ==
  ASSUME SchedulerInv, PipelineIsWoken, NEW j \in Jobs, phase[j] \in Active,
         NEW to \in Active \ {"info"}, Goes(j, to),
         proc' \in [Jobs -> {"none", "running", "exited"}],
         waiter' \in [Jobs -> {"none", "pipeline", "cancel"}],
         files' \in [Jobs -> 0..MaxFiles], status' \in [Jobs -> Statuses],
         \A k \in Jobs \ {j} : proc'[k] = proc[k] /\ waiter'[k] = waiter[k]
                                 /\ status'[k] = status[k],
         to \in {"downloading", "converting"} => proc'[j] = "running" /\ waiter'[j] = "pipeline"
  PROVE  SchedulerInv' /\ PipelineIsWoken'
<1>1. /\ phase' \in [Jobs -> Phases] /\ UNCHANGED <<queue, inProgress>>
      /\ \A k \in Jobs : phase'[k] = IF k = j THEN to ELSE phase[k]
  BY Types DEF Goes, TypeOK, Active
<1>2. Queueing(queue', inProgress', phase')
  <2>1. inProgress = {k \in Jobs : phase'[k] \in Active}
    BY <1>1, Types DEF Queueing
  <2>2. ToSet(queue) = {k \in Jobs : phase'[k] = "queued"}
    BY <1>1, Types DEF Queueing, Active
  <2>3. \A a, b \in Jobs : phase'[a] = "queued" /\ phase'[b] \in Active \cup {"done"} => b < a
    BY <1>1, Types DEF Queueing, Active
  <2>4. \A a, b \in Jobs : a < b /\ phase'[a] = "none" => phase'[b] = "none"
    BY <1>1, Types DEF Queueing, Active
  <2> QED BY <1>1, <2>1, <2>2, <2>3, <2>4, Types DEF Queueing
<1>3. TypeOK'
  BY <1>1, Types DEF TypeOK
<1>4. WorkConserving' /\ ProcessesAreOfStarted'
  BY <1>1, Types DEF WorkConserving, ProcessesAreOfStarted
<1>5. PipelineIsWoken'
  BY <1>1 DEF PipelineIsWoken
<1> QED BY <1>2, <1>3, <1>4, <1>5 DEF SchedulerInv

-----------------------------------------------------------------------------
(***************************************************************************)
(* The steps of a pipeline and the cancellation                            *)
(***************************************************************************)
LEMMA SpawnedTypes ==
  ASSUME SchedulerInv, NEW j \in Jobs, Spawns(j)
  PROVE  /\ proc' \in [Jobs -> {"none", "running", "exited"}]
         /\ waiter' \in [Jobs -> {"none", "pipeline", "cancel"}]
         /\ proc'[j] = "running" /\ waiter'[j] = "pipeline"
         /\ \A k \in Jobs \ {j} : proc'[k] = proc[k] /\ waiter'[k] = waiter[k]
BY Types DEF Spawns, TypeOK

LEMMA FailsStep ==
  ASSUME SchedulerInv, PipelineIsWoken, NEW j \in Jobs, phase[j] \in Active, Fails(j)
  PROVE  SchedulerInv' /\ PipelineIsWoken'
BY EndsStep, Types DEF Fails, TypeOK

LEMMA DownloadsStep ==
  ASSUME SchedulerInv, PipelineIsWoken, NEW j \in Jobs, Downloads(j)
  PROVE  SchedulerInv' /\ PipelineIsWoken'
<1>1. phase[j] \in Active /\ "downloading" \in Active \ {"info"}
  BY DEF Downloads, Active, Phases
<1>2. Goes(j, "downloading") /\ Spawns(j) /\ UNCHANGED <<status, files>>
  BY DEF Downloads
<1> QED BY <1>1, <1>2, SpawnedTypes, GoesStep, Types DEF TypeOK

\* The child that closes is the pipeline's, or was left to cancel().
LEMMA ProcessClosesStep ==
  ASSUME SchedulerInv, PipelineIsWoken, NEW j \in Jobs, ProcessCloses(j)
  PROVE  SchedulerInv' /\ PipelineIsWoken'
<1>1. /\ proc[j] = "running" /\ proc' = [proc EXCEPT ![j] = "exited"]
      /\ waiter' = [waiter EXCEPT ![j] = "none"] /\ UNCHANGED files
  BY DEF ProcessCloses
<1>2. /\ proc' \in [Jobs -> {"none", "running", "exited"}]
      /\ waiter' \in [Jobs -> {"none", "pipeline", "cancel"}]
      /\ \A k \in Jobs \ {j} : proc'[k] = proc[k] /\ waiter'[k] = waiter[k]
      /\ proc'[j] = "exited"
  BY <1>1, Types DEF TypeOK
<1>3. phase[j] \in (Active \ {"info"}) \cup {"done"}
  BY <1>1, Types DEF ProcessesAreOfStarted
<1>4. CASE phase[j] \in {"downloading", "converting"} /\ waiter[j] = "pipeline"
  <2>1. phase[j] \in Active
    BY <1>3, <1>4
  <2>2. CASE Ends(j, "failed")
    BY <2>1, <2>2, <1>1, <1>2, EndsStep
  <2>3. CASE Goes(j, IF phase[j] = "downloading" THEN "listing" ELSE "between") /\ UNCHANGED status
    <3> DEFINE to == IF phase[j] = "downloading" THEN "listing" ELSE "between"
    <3>1. to \in Active \ {"info"} /\ to \notin {"downloading", "converting"}
      BY DEF Active, Phases
    <3>2. Goes(j, to)
      BY <2>3
    <3> HIDE DEF to
    <3>3. files' \in [Jobs -> 0..MaxFiles] /\ status' \in [Jobs -> Statuses]
      BY <1>1, <2>3, Types DEF TypeOK
    <3> QED BY <2>1, <2>3, <3>1, <3>2, <3>3, <1>2, GoesStep
  <2> QED BY <1>4, <2>2, <2>3 DEF ProcessCloses
<1>5. CASE ~(phase[j] \in {"downloading", "converting"} /\ waiter[j] = "pipeline")
  <2>1. /\ UNCHANGED <<queue, inProgress, phase>>
        /\ status' = status \/ status' = [status EXCEPT ![j] = "cancelled"]
        /\ phase[j] = "done" \/ status' = [status EXCEPT ![j] = "cancelled"]
    BY <1>5 DEF ProcessCloses
  <2>2. status' \in [Jobs -> Statuses] /\ \A k \in Jobs \ {j} : status'[k] = status[k]
    BY <2>1, Types DEF TypeOK, Statuses
  <2>3. phase[j] = "done" \/ status'[j] = "cancelled"
    BY <2>1, Types DEF TypeOK
  <2>4. TypeOK' /\ Queueing(queue', inProgress', phase') /\ WorkConserving'
    BY <2>1, <2>2, <1>1, <1>2, Types DEF TypeOK, WorkConserving
  <2>5. ProcessesAreOfStarted'
    BY <2>1, <1>2, <1>3, Types DEF ProcessesAreOfStarted
  <2>6. PipelineIsWoken'
    BY <2>1, <2>2, <2>3, <1>2 DEF PipelineIsWoken
  <2> QED BY <2>4, <2>5, <2>6 DEF SchedulerInv
<1> QED BY <1>4, <1>5

LEMMA StartsConvertingStep ==
  ASSUME SchedulerInv, PipelineIsWoken, NEW j \in Jobs, StartsConverting(j)
  PROVE  SchedulerInv' /\ PipelineIsWoken'
<1>1. phase[j] \in Active
  BY DEF StartsConverting, Active, Phases
<1>2. CASE Fails(j)
  BY <1>1, <1>2, FailsStep
<1>3. ASSUME NEW n \in 1..MaxFiles, files' = [files EXCEPT ![j] = n],
             status' = [status EXCEPT ![j] = "converting"], Goes(j, "preparing"),
             UNCHANGED <<proc, waiter>>
      PROVE  SchedulerInv' /\ PipelineIsWoken'
  <2>1. /\ files' \in [Jobs -> 0..MaxFiles] /\ status' \in [Jobs -> Statuses]
        /\ \A k \in Jobs \ {j} : status'[k] = status[k]
    BY <1>3, SchedulerAssumption, Types DEF TypeOK, Statuses
  <2>2. "preparing" \in Active \ {"info"}
    BY DEF Active, Phases
  <2> QED BY <1>1, <1>3, <2>1, <2>2, GoesStep, Types DEF TypeOK
<1> QED BY <1>2, <1>3 DEF StartsConverting

LEMMA ConvertsNextStep ==
  ASSUME SchedulerInv, PipelineIsWoken, NEW j \in Jobs, ConvertsNext(j)
  PROVE  SchedulerInv' /\ PipelineIsWoken'
<1>1. phase[j] \in Active /\ "converting" \in Active \ {"info"}
  BY DEF ConvertsNext, Active, Phases
<1>2. CASE Fails(j)
  BY <1>1, <1>2, FailsStep
<1>3. CASE ~Fails(j)
  <2>1. /\ MoreFiles(j) /\ files' = [files EXCEPT ![j] = @ - 1] /\ Goes(j, "converting")
        /\ Spawns(j) /\ UNCHANGED status
    BY <1>3 DEF ConvertsNext
  <2>2. files' \in [Jobs -> 0..MaxFiles]
    <3>1. files \in [Jobs -> 0..MaxFiles] /\ files[j] > 0
      BY <2>1, Types DEF MoreFiles, TypeOK
    <3>2. files[j] - 1 \in 0..MaxFiles
      BY <3>1, SchedulerAssumption
    <3> QED BY <2>1, <3>1, <3>2
  <2> QED BY <1>1, <2>1, <2>2, SpawnedTypes, GoesStep, Types DEF TypeOK
<1> QED BY <1>2, <1>3

LEMMA StatusStep ==
  ASSUME SchedulerInv, PipelineIsWoken, NEW j \in Jobs, phase[j] \in Active,
         NEW to \in {"uploading", "cleaning"}, status' = [status EXCEPT ![j] = to],
         Goes(j, to), UNCHANGED <<proc, waiter, files>>
  PROVE  SchedulerInv' /\ PipelineIsWoken'
<1>1. to \in Active \ {"info"} /\ to \notin {"downloading", "converting"} /\ to \in Statuses
  BY DEF Active, Phases, Statuses
<1>2. status' \in [Jobs -> Statuses] /\ \A k \in Jobs \ {j} : status'[k] = status[k]
  BY <1>1, Types DEF TypeOK
<1> QED BY <1>1, <1>2, GoesStep, Types DEF TypeOK

LEMMA LastPhasesStep ==
  ASSUME SchedulerInv, PipelineIsWoken, NEW j \in Jobs,
         StartsUploading(j) \/ StartsCleaning(j) \/ Completes(j)
  PROVE  SchedulerInv' /\ PipelineIsWoken'
<1>1. phase[j] \in Active
  BY DEF StartsUploading, StartsCleaning, Completes, Active, Phases
<1>2. CASE Fails(j)
  BY <1>1, <1>2, FailsStep
<1>3. CASE StartsUploading(j)
  BY <1>1, <1>3, StatusStep DEF StartsUploading
<1>4. CASE StartsCleaning(j) /\ ~Fails(j)
  BY <1>1, <1>4, StatusStep DEF StartsCleaning
<1>5. CASE Completes(j) /\ ~Fails(j)
  BY <1>1, <1>5, EndsStep, Types DEF Completes, TypeOK
<1> QED BY <1>2, <1>3, <1>4, <1>5

\* The error of a child ends the service: no job is left.
LEMMA ProcessErrorsStep ==
  ASSUME SchedulerInv, PipelineIsWoken, NEW j \in Jobs, ProcessErrors(j)
  PROVE  SchedulerInv' /\ PipelineIsWoken'
<1>1. /\ queue' = <<>> /\ inProgress' = {}
      /\ phase' \in [Jobs -> Phases]
      /\ \A k \in Jobs : /\ phase'[k] = IF phase[k] = "none" THEN "none" ELSE "done"
                         /\ proc'[k] = "none"
  BY DEF ProcessErrors, Phases
<1>2. TypeOK'
  <2>1. status' \in [Jobs -> Statuses]
    BY DEF ProcessErrors, Statuses
  <2>2. /\ proc' \in [Jobs -> {"none", "running", "exited"}]
        /\ waiter' \in [Jobs -> {"none", "pipeline", "cancel"}]
        /\ files' \in [Jobs -> 0..MaxFiles]
    BY SchedulerAssumption DEF ProcessErrors
  <2> QED BY <1>1, <2>1, <2>2 DEF TypeOK
<1>3. Queueing(queue', inProgress', phase')
  <2>1. InOrder(queue') /\ ToSet(queue') = {} /\ queue' \in Seq(Jobs)
    BY <1>1 DEF InOrder, ToSet
  <2>2. Cardinality(inProgress') = 0
    BY <1>1, FS_EmptySet
  <2>3. {k \in Jobs : phase'[k] \in Active} = {} /\ {k \in Jobs : phase'[k] = "queued"} = {}
    BY <1>1 DEF Active
  <2>4. \A a, b \in Jobs : a < b /\ phase'[a] = "none" => phase'[b] = "none"
    BY <1>1, Types DEF Queueing
  <2>5. Cardinality(inProgress') <= MaxDownloads
    BY <2>2, SchedulerAssumption
  <2> QED BY <1>1, <2>1, <2>3, <2>4, <2>5 DEF Queueing
<1>4. WorkConserving' /\ ProcessesAreOfStarted' /\ PipelineIsWoken'
  BY <1>1 DEF WorkConserving, ProcessesAreOfStarted, PipelineIsWoken
<1> QED BY <1>2, <1>3, <1>4 DEF SchedulerInv

\* A cancelled job is not in the queue: it has a process.
LEMMA CancelStep ==
  ASSUME SchedulerInv, PipelineIsWoken, NEW j \in Jobs, Cancel(j)
  PROVE  SchedulerInv' /\ PipelineIsWoken'
<1> DEFINE st == [status EXCEPT ![j] = "cancelling"]
<1>1. phase[j] \in (Active \ {"info"}) \cup {"done"}
  BY Types DEF Cancel, ProcessesAreOfStarted
<1>2. j \notin ToSet(queue)
  BY <1>1, Types DEF Queueing, Active
<1>3. /\ MaybeProcessNext(queue, inProgress, st, phase)
      /\ waiter' = [waiter EXCEPT ![j] = IF proc[j] = "running" THEN "cancel" ELSE "none"]
      /\ UNCHANGED <<proc, files>>
  BY <1>2 DEF Cancel, Deleted
<1>4. st \in [Jobs -> Statuses] /\ st[j] = "cancelling" /\ \A k \in Jobs \ {j} : st[k] = status[k]
  BY Types DEF TypeOK, Statuses
<1>5. OneToStart(queue, inProgress)
  BY SchedulerAssumption, Types DEF OneToStart, WorkConserving
<1> HIDE DEF st
<1>6. /\ Queueing(queue', inProgress', phase') /\ WorkConserving'
      /\ status' \in [Jobs -> Statuses]
      /\ \A k \in Jobs : phase'[k] # phase[k] => phase[k] = "queued" /\ phase'[k] = "info"
      /\ \A k \in Jobs : status'[k] # st[k] => phase[k] = "queued" /\ phase'[k] = "info"
  BY <1>3, <1>4, <1>5, ProcessedNext, Types
<1>7. /\ waiter' \in [Jobs -> {"none", "pipeline", "cancel"}]
      /\ \A k \in Jobs \ {j} : waiter'[k] = waiter[k]
  BY <1>3, Types DEF TypeOK
<1>8. TypeOK'
  BY <1>3, <1>6, <1>7, Types DEF TypeOK, Queueing
<1>9. ProcessesAreOfStarted'
  BY <1>3, <1>6, Types DEF ProcessesAreOfStarted, Active
<1>10. PipelineIsWoken'
  <2>1. SUFFICES ASSUME NEW k \in Jobs, phase'[k] \in {"downloading", "converting"},
                        status'[k] \notin {"cancelling", "cancelled"}
                 PROVE  proc[k] = "running" /\ waiter'[k] = "pipeline"
    BY <1>3 DEF PipelineIsWoken
  <2>2. phase'[k] = phase[k] /\ status'[k] = st[k]
    BY <1>6, <2>1
  <2>3. k # j /\ status'[k] = status[k]
    BY <2>1, <2>2, <1>4
  <2> QED BY <2>1, <2>2, <2>3, <1>7 DEF PipelineIsWoken
<1> QED BY <1>6, <1>8, <1>9, <1>10 DEF SchedulerInv

LEMMA SchedulerStep ==
  ASSUME SchedulerInv, PipelineIsWoken, [Next]_vars
  PROVE  SchedulerInv' /\ PipelineIsWoken'
<1>1. CASE Next
  <2>1. PICK j \in Jobs : Add(j) \/ Cancel(j) \/ Pipeline(j)
    BY <1>1 DEF Next
  <2>2. CASE Pipeline(j)
    BY <2>2, DownloadsStep, ProcessClosesStep, StartsConvertingStep, ConvertsNextStep,
       LastPhasesStep, ProcessErrorsStep DEF Pipeline
  <2> QED BY <2>1, <2>2, AddStep, CancelStep
<1>2. CASE UNCHANGED vars
  <2>1. UNCHANGED <<queue, inProgress, status, phase, proc, waiter, files>>
    BY <1>2 DEF vars
  <2> QED BY <2>1 DEF SchedulerInv, TypeOK, WorkConserving, ProcessesAreOfStarted, PipelineIsWoken
<1> QED BY <1>1, <1>2

LEMMA SchedulerInvariant == Spec => [](SchedulerInv /\ PipelineIsWoken)
<1>1. Init => SchedulerInv /\ PipelineIsWoken
  BY SchedulerInit
<1>2. (SchedulerInv /\ PipelineIsWoken) /\ [Next]_vars => (SchedulerInv /\ PipelineIsWoken)'
  BY SchedulerStep
<1> QED BY <1>1, <1>2, PTL DEF Spec

-----------------------------------------------------------------------------
(***************************************************************************)
(* The theorems                                                            *)
(***************************************************************************)
\* Every variable of the scheduler keeps its type; no job converts more files
\* than it has.
THEOREM TypeCorrect == Spec => []TypeOK
<1>1. SchedulerInv => TypeOK
  BY DEF SchedulerInv
<1> QED BY <1>1, SchedulerInvariant, PTL

\* Whichever phases fail and whoever cancels, a job holds a slot exactly while
\* its pipeline runs, waits in the queue once before, no more than MAX_DOWNLOADS
\* run, and none waits while a slot is free, although each end of a job looks
\* for one successor only (maybeProcessNextJob).
THEOREM SlotsStayKept == Spec => []SlotsAreKept
<1>1. SchedulerInv => SlotsAreKept
  BY InOrderIsInjective DEF SchedulerInv, Queueing, SlotsAreKept, SlotsAreJobs
<1> QED BY <1>1, SchedulerInvariant, PTL

\* Jobs start in the order they were added, and the pipeline of a job that was
\* not cancelled never waits for a child that has closed already.
THEOREM JobsStartInOrder == Spec => [](StartsInOrder /\ PipelineIsWoken)
<1>1. SchedulerInv => StartsInOrder
  BY DEF SchedulerInv, Queueing, StartsInOrder
<1> QED BY <1>1, SchedulerInvariant, PTL

-----------------------------------------------------------------------------
(***************************************************************************)
(* The updater                                                             *)
(***************************************************************************)

\* What YtdlpUpdate has besides the flag and the checks.
CONSTANTS MaxStarts, MaxRelease, MaxRetries, Faults
VARIABLES latest, binary, temp, backup, retryCount, timers, starts, downloads, failures

Update == INSTANCE YtdlpUpdate

File == {Update!Nothing, Update!Broken} \cup Update!Versions
Place == {"idle", "version", "release"} \cup Update!Steps

\* Every other check is idle.
Alone(k) == \A l \in Checks \ {k} : check[l].at = "idle"

Local(k) == Update!TypeOK /\ Alone(k) /\ (isUpdating <=> Update!Performing(k))

\* At most one check is under way.
OneCheck == \A k, l \in Checks : check[k].at # "idle" /\ check[l].at # "idle" => k = l

ExclusiveInv == Update!TypeOK /\ Update!FlagIsUpdate /\ OneCheck

\* What an update finds at the backup's path: what an earlier rollback or
\* clean-up has left, which runs.
Spare ==
    /\ backup = Update!Nothing \/ Update!Works(backup)
    /\ failures = {} => backup = Update!Nothing

\* The files between updates.
Resting == Spare /\ (Update!Works(binary) \/ ("rollback" \in failures /\ Update!Works(backup)))

\* Where the version that works is at each step of the update: in the binary
\* until that is removed, in the backup from the end of the copy on.
FilesAt(k) ==
    LET at == check[k].at
        seen == check[k].seen
    IN  /\ at \in {"downloadNewBinary", "writing", "hung", "verifyNewBinary", "backupCurrentBinary",
                   "installNewBinary"}
             => binary = seen
        /\ at \in {"getCurrentVersion", "downloadNewBinary", "writing", "hung", "verifyNewBinary"}
             => Spare
        /\ at \in {"release", "getCurrentVersion", "cleanup"} => Update!Works(binary)
        /\ at \in {"downloadNewBinary", "writing", "hung", "verifyNewBinary", "backupCurrentBinary",
                   "installNewBinary", "moving", "testNewBinary", "cleanup", "rollback", "restoring"}
             => Update!Works(seen)
        /\ at \in {"installNewBinary", "moving", "testNewBinary", "cleanup"} => backup = seen
        /\ at = "rollback" =>
             /\ Update!Works(backup) \/ (backup = Update!Nothing /\ Update!Works(binary))
             /\ failures = {} => backup = seen \/ (backup = Update!Nothing /\ binary = seen)
        /\ at = "restoring" => Update!Works(backup) /\ (failures = {} => backup = seen)

\* The same of the one check that may be under way, and the files at rest.
FilesKept(k) == FilesAt(k) /\ (~Update!Performing(k) => Resting)

UndoneInv ==
    /\ \A k \in Checks : FilesAt(k)
    /\ (\A k \in Checks : ~Update!Performing(k)) => Resting

-----------------------------------------------------------------------------
(* One check at a time *)

\* A check that is under way is alone, and the flag is its own.
LEMMA MoverIsAlone ==
    ASSUME ExclusiveInv, NEW k \in Checks, check[k].at # "idle"
    PROVE  Local(k)
<1>1. Alone(k)
  BY DEF ExclusiveInv, OneCheck, Alone
<1>2. \A l \in Checks \ {k} : ~Update!Performing(l)
  BY <1>1 DEF Alone, Update!Performing, Update!Steps
<1> QED
  BY <1>1, <1>2 DEF ExclusiveInv, Update!FlagIsUpdate, Local

\* The invariant says no more than that of one check.
LEMMA AloneIsEnough ==
    ASSUME NEW k \in Checks
    PROVE  Local(k) => ExclusiveInv
<1> SUFFICES ASSUME Local(k) PROVE ExclusiveInv
  OBVIOUS
<1>1. \A l \in Checks \ {k} : ~Update!Performing(l)
  BY DEF Local, Alone, Update!Performing, Update!Steps
<1> QED
  BY <1>1 DEF Local, Alone, ExclusiveInv, Update!FlagIsUpdate, OneCheck

\* A check that begins is alone, unless checks may overlap.
LEMMA BeginnerIsAlone ==
    ASSUME ExclusiveInv, "overlap" \notin Faults, NEW k \in Checks, NEW dry \in BOOLEAN,
           Update!Begins(k, dry)
    PROVE  Local(k)
<1>1. \A l \in Checks : ~Update!Performing(l)
  BY DEF ExclusiveInv, Update!FlagIsUpdate, Update!Begins, Update!MayCheck
<1>2. \A l \in Checks : check[l].at \in {"idle"} \cup Update!Steps
  BY DEF Update!Begins
<1>3. \A l \in Checks : check[l].at = "idle"
  BY <1>1, <1>2 DEF Update!Performing
<1> QED
  BY <1>1, <1>3 DEF ExclusiveInv, Update!FlagIsUpdate, Local, Alone

\* What a change of one check leaves.
LEMMA CheckChanges ==
    ASSUME Update!TypeOK, NEW k \in Checks, NEW at \in Place, NEW seen \in File, NEW dry \in BOOLEAN,
           \/ check' = [check EXCEPT ![k] = [at |-> at, dry |-> dry, seen |-> seen]]
           \/ check' = [check EXCEPT ![k].at = at] /\ seen = check[k].seen
           \/ check' = [check EXCEPT ![k].at = at, ![k].seen = seen]
    PROVE  /\ check' \in [Checks -> [at : Place, dry : BOOLEAN, seen : File]]
           /\ check'[k].at = at /\ check'[k].seen = seen
           /\ \A l \in Checks \ {k} : check'[l] = check[l]
<1>1. check \in [Checks -> [at : Place, dry : BOOLEAN, seen : File]]
  BY DEF Update!TypeOK, Place, File
<1> QED
  BY <1>1

\* Where the check of a step may go, from where.
Moves(k, at, seen) ==
    /\ at \in Place /\ seen \in File
    /\ check'[k].at = at /\ check'[k].seen = seen
    /\ check' \in [Checks -> [at : Place, dry : BOOLEAN, seen : File]]
    /\ \A l \in Checks \ {k} : check'[l] = check[l]

\* A move keeps the check alone, when the flag follows it.
LEMMA MoverStaysAlone ==
    ASSUME NEW k \in Checks, Local(k), NEW at, NEW seen, Moves(k, at, seen),
           isUpdating' \in BOOLEAN, isUpdating' <=> at \in Update!Steps,
           latest' \in Update!Versions, {binary', temp', backup'} \subseteq File,
           retryCount' \in 0 .. MaxRetries, timers' \in Nat, starts' \in 0 .. MaxStarts,
           downloads' \in BOOLEAN, failures' \subseteq {"rollback", "cleanup"}
    PROVE  Local(k)'
  BY DEF Local, Alone, Moves, Update!TypeOK, Update!Performing, File, Place

\* The forms of a move.
LEMMA Forms ==
    ASSUME Update!TypeOK, NEW k \in Checks
    PROVE  /\ \A at \in Place : Update!At(k, at) => Moves(k, at, check[k].seen)
           /\ \A at \in Place, seen \in File :
                check' = [check EXCEPT ![k].at = at, ![k].seen = seen] => Moves(k, at, seen)
           /\ Update!Ends(k) => Moves(k, "idle", Update!Nothing)
           /\ \A dry \in BOOLEAN : Update!Begins(k, dry) => Moves(k, "version", Update!Nothing)
<1>1. check \in [Checks -> [at : Place, dry : BOOLEAN, seen : File]]
  BY DEF Update!TypeOK, Place, File
<1>2. check[k] \in [at : Place, dry : BOOLEAN, seen : File]
  BY <1>1
<1>3. ASSUME NEW at \in Place, Update!At(k, at)
      PROVE  Moves(k, at, check[k].seen)
  BY <1>1, <1>2, <1>3 DEF Moves, Update!At
<1>4. ASSUME NEW at \in Place, NEW seen \in File,
             check' = [check EXCEPT ![k].at = at, ![k].seen = seen]
      PROVE  Moves(k, at, seen)
  BY <1>1, <1>2, <1>4 DEF Moves
<1>5. ASSUME Update!Ends(k)
      PROVE  Moves(k, "idle", Update!Nothing)
  BY <1>1, <1>2, <1>5 DEF Moves, Update!Ends, Update!Idle, Place, File
<1>6. ASSUME NEW dry \in BOOLEAN, Update!Begins(k, dry)
      PROVE  Moves(k, "version", Update!Nothing)
  BY <1>1, <1>2, <1>6 DEF Moves, Update!Begins, Place, File
<1> QED
  BY <1>3, <1>4, <1>5, <1>6

-----------------------------------------------------------------------------
(* The steps of performUpdate() *)

\* What a rollback needs, when the copy does not fail.
Intact(k) == FilesKept(k) /\ "copy_fails" \notin Faults

\* The types of what a step reads.
LEMMA ReadTypes ==
    ASSUME NEW k \in Checks, Local(k)
    PROVE  /\ Update!TypeOK /\ check[k].at \in Place /\ check[k].seen \in File
           /\ binary \in File /\ temp \in File /\ backup \in File /\ latest \in Update!Versions
           /\ Update!Versions \subseteq File /\ Update!Nothing \in File /\ Update!Broken \in File
           /\ failures \subseteq {"rollback", "cleanup"}
  BY DEF Local, Update!TypeOK, File, Place

\* A step of the update that goes on to another one.
LEMMA GoesOn ==
    ASSUME NEW k \in Checks, Local(k), check[k].at \in Update!Steps,
           NEW at \in Update!Steps, NEW seen \in File, Moves(k, at, seen),
           {binary', temp', backup'} \subseteq File,
           UNCHANGED <<isUpdating, retryCount, latest, timers, starts, downloads, failures>>
    PROVE  Local(k)'
<1>1. Update!TypeOK /\ isUpdating
  BY DEF Local, Update!Performing
<1>2. isUpdating' /\ isUpdating' \in BOOLEAN
  BY <1>1
<1> QED
  BY <1>1, <1>2, MoverStaysAlone DEF Update!TypeOK, File

\* Each step keeps the check alone, and the version it began with in its place.
LEMMA StepKeeps ==
    ASSUME NEW k \in Checks, Local(k), Update!Step(k),
           UNCHANGED <<isUpdating, retryCount, latest, timers, starts, downloads, failures>>
    PROVE  Local(k)' /\ (Intact(k) => FilesKept(k)')
<1>0. /\ Update!TypeOK /\ check[k].at \in Place /\ check[k].seen \in File
      /\ binary \in File /\ temp \in File /\ backup \in File /\ latest \in Update!Versions
      /\ Update!Versions \subseteq File /\ Update!Nothing \in File /\ Update!Broken \in File
      /\ failures \subseteq {"rollback", "cleanup"}
  BY ReadTypes
<1>1. CASE Update!GetCurrentVersion(k)
  <2>1. \/ Moves(k, "downloadNewBinary", binary) /\ Update!Works(binary)
        \/ Moves(k, "rollback", binary)
    BY <1>0, <1>1, Forms DEF Update!GetCurrentVersion, Update!At, Place, Update!Steps, Update!files
  <2>2. check[k].at = "getCurrentVersion"
    BY <1>1 DEF Update!GetCurrentVersion
  <2>3. {binary', temp', backup'} \subseteq File
    BY <1>0, <1>1, <2>1 DEF Update!GetCurrentVersion, Update!files
  <2>4. Local(k)'
    BY <1>0, <2>1, <2>2, <2>3, GoesOn DEF Update!Steps
  <2>5. ASSUME Intact(k)
        PROVE  FilesKept(k)'
    BY <1>0, <1>1, <2>1, <2>2, <2>5
       DEF Intact, FilesKept, FilesAt, Spare, Resting, Update!Performing, Update!Steps, Moves, Update!Works, Update!GetCurrentVersion, Update!files, Update!Versions, Update!Nothing
  <2> QED
    BY <2>4, <2>5
<1>2. CASE Update!OpenTemp(k)
  <2>1. \/ Moves(k, "writing", check[k].seen) /\ temp' = Update!Broken
        \/ Moves(k, "rollback", check[k].seen) /\ temp' = temp
    BY <1>0, <1>2, Forms DEF Update!OpenTemp, Update!At, Place, Update!Steps, Update!files
  <2>2. check[k].at = "downloadNewBinary"
    BY <1>2 DEF Update!OpenTemp
  <2>3. {binary', temp', backup'} \subseteq File
    BY <1>0, <1>2, <2>1 DEF Update!OpenTemp, Update!files
  <2>4. Local(k)'
    BY <1>0, <2>1, <2>2, <2>3, GoesOn DEF Update!Steps
  <2>5. ASSUME Intact(k)
        PROVE  FilesKept(k)'
    BY <1>0, <1>2, <2>1, <2>2, <2>5
       DEF Intact, FilesKept, FilesAt, Spare, Resting, Update!Performing, Update!Steps, Moves, Update!Works, Update!OpenTemp, Update!files, Update!Versions, Update!Nothing
  <2> QED
    BY <2>4, <2>5
<1>3. CASE Update!DownloadNewBinary(k)
  <2>1. \/ Moves(k, "verifyNewBinary", check[k].seen) /\ temp' = latest
        \/ Moves(k, "rollback", check[k].seen) /\ temp' = temp
        \/ Moves(k, "hung", check[k].seen) /\ temp' = temp
    BY <1>0, <1>3, Forms DEF Update!DownloadNewBinary, Update!At, Place, Update!Steps, Update!files
  <2>2. check[k].at = "writing"
    BY <1>3 DEF Update!DownloadNewBinary
  <2>3. {binary', temp', backup'} \subseteq File
    BY <1>0, <1>3, <2>1 DEF Update!DownloadNewBinary, Update!files
  <2>4. Local(k)'
    BY <1>0, <2>1, <2>2, <2>3, GoesOn DEF Update!Steps
  <2>5. ASSUME Intact(k)
        PROVE  FilesKept(k)'
    BY <1>0, <1>3, <2>1, <2>2, <2>5
       DEF Intact, FilesKept, FilesAt, Spare, Resting, Update!Performing, Update!Steps, Moves, Update!Works, Update!DownloadNewBinary, Update!files, Update!Versions, Update!Nothing
  <2> QED
    BY <2>4, <2>5
<1>4. CASE Update!VerifyNewBinary(k)
  <2>1. \/ Moves(k, "backupCurrentBinary", check[k].seen) /\ backup' = Update!Broken
        \/ Moves(k, "rollback", check[k].seen) /\ backup' = backup
    BY <1>0, <1>4, Forms DEF Update!VerifyNewBinary, Update!At, Place, Update!Steps, Update!files
  <2>2. check[k].at = "verifyNewBinary"
    BY <1>4 DEF Update!VerifyNewBinary
  <2>3. {binary', temp', backup'} \subseteq File
    BY <1>0, <1>4, <2>1 DEF Update!VerifyNewBinary, Update!files
  <2>4. Local(k)'
    BY <1>0, <2>1, <2>2, <2>3, GoesOn DEF Update!Steps
  <2>5. ASSUME Intact(k)
        PROVE  FilesKept(k)'
    BY <1>0, <1>4, <2>1, <2>2, <2>5
       DEF Intact, FilesKept, FilesAt, Spare, Resting, Update!Performing, Update!Steps, Moves, Update!Works, Update!VerifyNewBinary, Update!files, Update!Versions, Update!Nothing
  <2> QED
    BY <2>4, <2>5
<1>5. CASE Update!BackupCurrentBinary(k)
  <2>1. \/ Moves(k, "installNewBinary", check[k].seen) /\ backup' = binary
        \/ Moves(k, "rollback", check[k].seen) /\ backup' = backup /\ (binary = Update!Nothing \/ "copy_fails" \in Faults)
    BY <1>0, <1>5, Forms DEF Update!BackupCurrentBinary, Update!At, Place, Update!Steps, Update!files
  <2>2. check[k].at = "backupCurrentBinary"
    BY <1>5 DEF Update!BackupCurrentBinary
  <2>3. {binary', temp', backup'} \subseteq File
    BY <1>0, <1>5, <2>1 DEF Update!BackupCurrentBinary, Update!files
  <2>4. Local(k)'
    BY <1>0, <2>1, <2>2, <2>3, GoesOn DEF Update!Steps
  <2>5. ASSUME Intact(k)
        PROVE  FilesKept(k)'
    BY <1>0, <1>5, <2>1, <2>2, <2>5
       DEF Intact, FilesKept, FilesAt, Spare, Resting, Update!Performing, Update!Steps, Moves, Update!Works, Update!BackupCurrentBinary, Update!files, Update!Versions, Update!Nothing
  <2> QED
    BY <2>4, <2>5
<1>6. CASE Update!RemoveOld(k)
  <2>1. \/ Moves(k, "moving", check[k].seen) /\ binary' = Update!Nothing
        \/ Moves(k, "rollback", check[k].seen) /\ binary' = binary
    BY <1>0, <1>6, Forms DEF Update!RemoveOld, Update!At, Place, Update!Steps, Update!files
  <2>2. check[k].at = "installNewBinary"
    BY <1>6 DEF Update!RemoveOld
  <2>3. {binary', temp', backup'} \subseteq File
    BY <1>0, <1>6, <2>1 DEF Update!RemoveOld, Update!files
  <2>4. Local(k)'
    BY <1>0, <2>1, <2>2, <2>3, GoesOn DEF Update!Steps
  <2>5. ASSUME Intact(k)
        PROVE  FilesKept(k)'
    BY <1>0, <1>6, <2>1, <2>2, <2>5
       DEF Intact, FilesKept, FilesAt, Spare, Resting, Update!Performing, Update!Steps, Moves, Update!Works, Update!RemoveOld, Update!files, Update!Versions, Update!Nothing
  <2> QED
    BY <2>4, <2>5
<1>7. CASE Update!InstallNewBinary(k)
  <2>1. \/ Moves(k, "testNewBinary", check[k].seen) /\ binary' = temp /\ temp' = Update!Nothing
        \/ Moves(k, "rollback", check[k].seen) /\ binary' \in Update!HalfMoved(temp) /\ temp' = temp
    BY <1>0, <1>7, Forms DEF Update!InstallNewBinary, Update!At, Place, Update!Steps, Update!files
  <2>2. check[k].at = "moving"
    BY <1>7 DEF Update!InstallNewBinary
  <2>3. {binary', temp', backup'} \subseteq File
    BY <1>0, <1>7, <2>1 DEF Update!InstallNewBinary, Update!HalfMoved, Update!files
  <2>4. Local(k)'
    BY <1>0, <2>1, <2>2, <2>3, GoesOn DEF Update!Steps
  <2>5. ASSUME Intact(k)
        PROVE  FilesKept(k)'
    BY <1>0, <1>7, <2>1, <2>2, <2>5
       DEF Intact, FilesKept, FilesAt, Spare, Resting, Update!Performing, Update!Steps, Moves, Update!Works, Update!InstallNewBinary, Update!files, Update!Versions, Update!Nothing
  <2> QED
    BY <2>4, <2>5
<1>8. CASE Update!TestNewBinary(k)
  <2>1. \/ Moves(k, "cleanup", check[k].seen) /\ Update!Works(binary)
        \/ Moves(k, "rollback", check[k].seen)
    BY <1>0, <1>8, Forms DEF Update!TestNewBinary, Update!At, Place, Update!Steps, Update!files
  <2>2. check[k].at = "testNewBinary"
    BY <1>8 DEF Update!TestNewBinary
  <2>3. {binary', temp', backup'} \subseteq File
    BY <1>0, <1>8, <2>1 DEF Update!TestNewBinary, Update!files
  <2>4. Local(k)'
    BY <1>0, <2>1, <2>2, <2>3, GoesOn DEF Update!Steps
  <2>5. ASSUME Intact(k)
        PROVE  FilesKept(k)'
    BY <1>0, <1>8, <2>1, <2>2, <2>5
       DEF Intact, FilesKept, FilesAt, Spare, Resting, Update!Performing, Update!Steps, Moves, Update!Works, Update!TestNewBinary, Update!files, Update!Versions, Update!Nothing
  <2> QED
    BY <2>4, <2>5
<1>9. CASE Update!RemoveFailed(k)
  <2>1. Moves(k, "restoring", check[k].seen)
    BY <1>0, <1>9, Forms DEF Update!RemoveFailed, Place, Update!Steps
  <2>2. check[k].at = "rollback"
    BY <1>9 DEF Update!RemoveFailed
  <2>3. {binary', temp', backup'} \subseteq File
    BY <1>0, <1>9 DEF Update!RemoveFailed
  <2>4. Local(k)'
    BY <1>0, <2>1, <2>2, <2>3, GoesOn DEF Update!Steps
  <2>5. ASSUME Intact(k)
        PROVE  FilesKept(k)'
    BY <1>0, <1>9, <2>1, <2>2, <2>5
       DEF Intact, FilesKept, FilesAt, Spare, Resting, Update!Performing, Update!Steps, Moves, Update!Works, Update!RemoveFailed, Update!Versions, Update!Nothing
  <2> QED
    BY <2>4, <2>5
<1> QED
  BY <1>1, <1>2, <1>3, <1>4, <1>5, <1>6, <1>7, <1>8, <1>9 DEF Update!Step

\* The end of an update.
LEMMA Finishes ==
    ASSUME NEW k \in Checks, Local(k), Moves(k, "idle", Update!Nothing),
           isUpdating' = FALSE, retryCount' \in 0 .. MaxRetries,
           {binary', temp', backup'} \subseteq File, failures' \subseteq {"rollback", "cleanup"},
           UNCHANGED <<latest, timers, starts, downloads>>
    PROVE  Local(k)'
<1>1. /\ latest \in Update!Versions /\ timers \in Nat /\ starts \in 0 .. MaxStarts
      /\ downloads \in BOOLEAN
  BY DEF Local, Update!TypeOK
<1>2. downloads' \in BOOLEAN /\ isUpdating' \in BOOLEAN /\ ~isUpdating'
  BY <1>1
<1>3. "idle" \notin Update!Steps
  BY DEF Update!Steps
<1> QED
  BY <1>1, <1>2, <1>3, MoverStaysAlone

\* The end of an update releases the flag; a rollback has put the version back.
LEMMA PerformKeeps ==
    ASSUME NEW k \in Checks, Local(k), Update!PerformUpdate(k), MaxRetries \in Nat
    PROVE  /\ Local(k)'
           /\ Intact(k) => FilesKept(k)'
<1>0. /\ Update!TypeOK /\ check[k].at \in Place /\ check[k].seen \in File
      /\ binary \in File /\ temp \in File /\ backup \in File /\ latest \in Update!Versions
      /\ Update!Versions \subseteq File /\ Update!Nothing \in File /\ Update!Broken \in File
      /\ failures \subseteq {"rollback", "cleanup"}
  BY ReadTypes
<1>1. CASE Update!Step(k) /\ UNCHANGED <<isUpdating, retryCount, failures>>
  <2>1. UNCHANGED <<isUpdating, retryCount, latest, timers, starts, downloads, failures>>
    BY <1>1 DEF Update!PerformUpdate
  <2> QED
    BY <1>1, <2>1, StepKeeps
<1>2. CASE Update!Cleanup(k) /\ retryCount' = 0 /\ isUpdating' = Update!Released(k)
  <2>1. Moves(k, "idle", Update!Nothing)
    BY <1>0, <1>2, Forms DEF Update!Cleanup
  <2>2. {binary', temp', backup'} \subseteq File /\ failures' \subseteq {"rollback", "cleanup"}
    BY <1>0, <1>2 DEF Update!Cleanup
  <2>3. isUpdating' = FALSE /\ UNCHANGED <<latest, timers, starts, downloads>>
    BY <1>2 DEF Update!PerformUpdate, Update!Released
  <2>4. retryCount' \in 0 .. MaxRetries
    BY <1>0, <1>2 DEF Update!TypeOK
  <2>5. Local(k)'
    BY <1>0, <2>1, <2>2, <2>3, <2>4, Finishes
  <2>6. ASSUME Intact(k)
        PROVE  FilesKept(k)'
    BY <1>0, <1>2, <2>1, <2>6
       DEF Intact, FilesKept, FilesAt, Spare, Resting, Update!Performing, Update!Steps, Moves, Update!Works, Update!Cleanup, Update!Nothing
  <2> QED
    BY <2>5, <2>6
<1>3. CASE Update!Rollback(k) /\ isUpdating' = Update!Released(k) /\ UNCHANGED retryCount
  <2>1. Moves(k, "idle", Update!Nothing)
    BY <1>0, <1>3, Forms DEF Update!Rollback, Update!RollbackFails
  <2>2. {binary', temp', backup'} \subseteq File /\ failures' \subseteq {"rollback", "cleanup"}
    BY <1>0, <1>3 DEF Update!Rollback, Update!RollbackFails, Update!HalfMoved, Update!files
  <2>3. isUpdating' = FALSE /\ UNCHANGED <<latest, timers, starts, downloads>>
    BY <1>3 DEF Update!PerformUpdate, Update!Released
  <2>4. retryCount' \in 0 .. MaxRetries
    BY <1>0, <1>3 DEF Update!TypeOK
  <2>5. Local(k)'
    BY <1>0, <2>1, <2>2, <2>3, <2>4, Finishes
  <2>6. ASSUME Intact(k)
        PROVE  FilesKept(k)'
    BY <1>0, <1>3, <2>1, <2>6
       DEF Intact, FilesKept, FilesAt, Spare, Resting, Update!Performing, Update!Steps, Moves, Update!Works,
           Update!Rollback, Update!RollbackFails, Update!HalfMoved, Update!files, Update!Nothing,
           Update!Versions
  <2> QED
    BY <2>5, <2>6
<1> QED
  BY <1>1, <1>2, <1>3 DEF Update!PerformUpdate

-----------------------------------------------------------------------------
(* The steps before an update *)

\* The answers a check awaits before an update keep it alone and touch no file.
LEMMA AnswersKeep ==
    ASSUME NEW k \in Checks, Local(k), Update!VersionRead(k) \/ Update!ReleaseRead(k), MaxRetries \in Nat
    PROVE  /\ Local(k)'
           /\ Intact(k) => FilesKept(k)'
<1>0. /\ Update!TypeOK /\ check[k].at \in Place /\ check[k].seen \in File
      /\ binary \in File /\ temp \in File /\ backup \in File /\ latest \in Update!Versions
      /\ Update!Versions \subseteq File /\ Update!Nothing \in File /\ Update!Broken \in File
      /\ failures \subseteq {"rollback", "cleanup"}
  BY ReadTypes
<1>1. ~Update!Performing(k) /\ ~isUpdating
  BY DEF Update!VersionRead, Update!ReleaseRead, Update!Performing, Update!Steps, Local
<1>2. PICK at \in {"release", "idle", "getCurrentVersion"}, seen \in File :
        /\ Moves(k, at, seen) /\ (isUpdating' <=> at \in Update!Steps)
        /\ at = "release" => Update!Works(binary)
        /\ at = "getCurrentVersion" => check[k].at = "release"
  <2>1. CASE Update!VersionRead(k)
    <3>1. \/ Moves(k, "release", binary) /\ Update!Works(binary)
          \/ Moves(k, "idle", Update!Nothing)
      BY <1>0, <2>1, Forms DEF Update!VersionRead, Place
    <3> QED
      BY <1>0, <1>1, <2>1, <3>1 DEF Update!VersionRead, Update!Steps
  <2>2. CASE Update!ReleaseRead(k)
    <3>1. \/ Moves(k, "getCurrentVersion", check[k].seen) /\ isUpdating' /\ check[k].at = "release"
          \/ Moves(k, "idle", Update!Nothing) /\ isUpdating' = isUpdating
      BY <1>0, <2>2, Forms DEF Update!ReleaseRead, Place, Update!Steps
    <3> QED
      BY <1>0, <1>1, <2>2, <3>1 DEF Update!Steps
  <2> QED
    BY <2>1, <2>2
<1>3. /\ isUpdating' \in BOOLEAN
      /\ latest' \in Update!Versions /\ retryCount' \in 0 .. MaxRetries
      /\ timers' \in Nat /\ starts' \in 0 .. MaxStarts /\ downloads' \in BOOLEAN
      /\ UNCHANGED <<Update!files, failures>> /\ failures' \subseteq {"rollback", "cleanup"}
  <2>1. /\ isUpdating \in BOOLEAN /\ downloads \in BOOLEAN
        /\ retryCount \in 0 .. MaxRetries /\ timers \in Nat /\ starts \in 0 .. MaxStarts
    BY <1>0 DEF Update!TypeOK
  <2>2. UNCHANGED <<latest, Update!files, starts, downloads, failures>>
    BY DEF Update!VersionRead, Update!ReleaseRead
  <2>3. downloads' \in BOOLEAN
    BY <2>1, <2>2
  <2>4. isUpdating' = TRUE \/ isUpdating' = isUpdating
    BY DEF Update!VersionRead, Update!ReleaseRead
  <2>5. retryCount' \in 0 .. MaxRetries /\ timers' \in Nat
    BY <2>1 DEF Update!VersionRead, Update!ReleaseRead, Update!ScheduleRetry
  <2> QED
    BY <1>0, <2>1, <2>2, <2>3, <2>4, <2>5
<1>4. {binary', temp', backup'} \subseteq File
  BY <1>0, <1>3 DEF Update!files
<1>5. Local(k)'
  BY <1>2, <1>3, <1>4, MoverStaysAlone
<1>6. ASSUME Intact(k)
      PROVE  FilesKept(k)'
  BY <1>0, <1>1, <1>2, <1>3, <1>6
     DEF Intact, FilesKept, FilesAt, Spare, Resting, Update!Performing, Update!Steps, Moves, Update!Works, Update!files
<1> QED
  BY <1>5, <1>6

\* So does the beginning of a check.
LEMMA BeginningKeeps ==
    ASSUME NEW k \in Checks, Local(k), NEW dry \in BOOLEAN, Update!Begins(k, dry),
           UNCHANGED <<latest, Update!files, isUpdating, retryCount, downloads, failures>>,
           timers' \in Nat, starts' \in 0 .. MaxStarts
    PROVE  /\ Local(k)'
           /\ Intact(k) => FilesKept(k)'
<1>0. /\ Update!TypeOK /\ check[k].at = "idle" /\ ~isUpdating
      /\ binary \in File /\ temp \in File /\ backup \in File /\ latest \in Update!Versions
      /\ Update!Nothing \in File /\ "version" \in Place /\ "version" \notin Update!Steps
  BY ReadTypes DEF Update!Begins, Update!MayCheck, Place, Update!Steps
<1>1. Moves(k, "version", Update!Nothing)
  BY <1>0, Forms
<1>2. {binary', temp', backup'} \subseteq File
  BY <1>0 DEF Update!files
<1>3. /\ isUpdating' \in BOOLEAN /\ ~isUpdating'
      /\ latest' \in Update!Versions /\ retryCount' \in 0 .. MaxRetries /\ downloads' \in BOOLEAN
      /\ failures' \subseteq {"rollback", "cleanup"}
  BY <1>0 DEF Update!TypeOK
<1>4. Local(k)'
  BY <1>0, <1>1, <1>2, <1>3, MoverStaysAlone
<1>5. ASSUME Intact(k)
      PROVE  FilesKept(k)'
  BY <1>0, <1>1, <1>5 DEF Intact, FilesKept, FilesAt, Spare, Resting, Update!Performing, Update!Steps, Moves, Update!Works, Update!files
<1> QED
  BY <1>4, <1>5

-----------------------------------------------------------------------------
(* The invariants *)

\* While a check is under way, that of this check is the whole invariant.
LEMMA KeptIsUndone ==
    ASSUME NEW k \in Checks
    PROVE  Local(k) => (FilesKept(k) <=> UndoneInv)
<1> SUFFICES ASSUME Local(k) PROVE FilesKept(k) <=> UndoneInv
  OBVIOUS
<1>1. \A l \in Checks \ {k} : check[l].at = "idle"
  BY DEF Local, Alone
<1>2. \A l \in Checks \ {k} : FilesAt(l)
  BY <1>1 DEF FilesAt
<1>3. \A l \in Checks \ {k} : ~Update!Performing(l)
  BY <1>1 DEF Update!Performing, Update!Steps
<1>4. ASSUME FilesKept(k) PROVE UndoneInv
  BY <1>2, <1>4 DEF FilesKept, UndoneInv
<1>5. ASSUME UndoneInv PROVE FilesKept(k)
  BY <1>3, <1>5 DEF FilesKept, UndoneInv
<1> QED
  BY <1>4, <1>5

\* What the environment does changes no check and no file.
LEMMA NoCheckMoves ==
    ASSUME ExclusiveInv, UNCHANGED <<Update!files, check, isUpdating, retryCount, failures>>,
           latest' \in Update!Versions, timers' \in Nat, starts' \in 0 .. MaxStarts,
           downloads' \in BOOLEAN
    PROVE  ExclusiveInv' /\ (UndoneInv => UndoneInv')
<1>1. /\ check' = check /\ isUpdating' = isUpdating /\ retryCount' = retryCount
      /\ binary' = binary /\ temp' = temp /\ backup' = backup /\ failures' = failures
  BY DEF Update!files
<1>2. Update!TypeOK'
  <2>1. Update!TypeOK /\ isUpdating \in BOOLEAN
    BY DEF ExclusiveInv, Update!TypeOK
  <2>2. isUpdating' \in BOOLEAN
    BY <1>1, <2>1
  <2> QED
    BY <1>1, <2>1, <2>2 DEF Update!TypeOK
<1>3. Update!FlagIsUpdate' /\ OneCheck'
  BY <1>1 DEF ExclusiveInv, Update!FlagIsUpdate, OneCheck, Update!Performing
<1>4. UndoneInv => UndoneInv'
  BY <1>1 DEF UndoneInv, FilesAt, Spare, Resting, Update!Performing, Update!Works
<1> QED
  BY <1>2, <1>3, <1>4 DEF ExclusiveInv

\* Initially no check is under way, and the binary works.
LEMMA InitInv == Update!UpdaterAssumption /\ Update!Init => ExclusiveInv /\ UndoneInv
<1> SUFFICES ASSUME Update!UpdaterAssumption, Update!Init PROVE ExclusiveInv /\ UndoneInv
  OBVIOUS
<1>1. \A k \in Checks : check[k] = Update!Idle
  BY DEF Update!Init
<1>2. \A k \in Checks : check[k].at = "idle"
  BY <1>1 DEF Update!Idle
<1>3. \A k \in Checks : ~Update!Performing(k) /\ FilesAt(k)
  BY <1>2 DEF Update!Performing, Update!Steps, FilesAt
<1>4. 1 \in Update!Versions
  BY DEF Update!UpdaterAssumption, Update!Versions
<1>5. Update!Idle \in [at : {"idle", "version", "release"} \cup Update!Steps, dry : BOOLEAN,
                seen : {Update!Nothing, Update!Broken} \cup Update!Versions]
  BY DEF Update!Idle
<1>6. Update!TypeOK
  <2>1. isUpdating \in BOOLEAN /\ downloads \in BOOLEAN
    BY DEF Update!Init
  <2>2. latest \in Update!Versions /\ {binary, temp, backup} \subseteq {Update!Nothing, Update!Broken} \cup Update!Versions
    BY <1>4 DEF Update!Init
  <2>3. check \in [Checks -> [at : {"idle", "version", "release"} \cup Update!Steps, dry : BOOLEAN,
                              seen : {Update!Nothing, Update!Broken} \cup Update!Versions]]
    BY <1>5 DEF Update!Init
  <2>4. /\ retryCount \in 0 .. MaxRetries /\ timers \in Nat /\ starts \in 0 .. MaxStarts
        /\ failures \subseteq {"rollback", "cleanup"}
    BY DEF Update!Init, Update!UpdaterAssumption
  <2> QED
    BY <2>1, <2>2, <2>3, <2>4 DEF Update!TypeOK
<1>7. Update!FlagIsUpdate /\ OneCheck
  BY <1>2, <1>3 DEF Update!Init, Update!FlagIsUpdate, OneCheck
<1>8. UndoneInv
  BY <1>3, <1>4 DEF Update!Init, UndoneInv, Spare, Resting, Update!Works
<1> QED
  BY <1>6, <1>7, <1>8 DEF ExclusiveInv

\* A step that a check takes, or with which it begins.
LEMMA CheckKeeps ==
    ASSUME Update!UpdaterAssumption, "overlap" \notin Faults, ExclusiveInv, NEW k \in Checks,
           \/ \E dry \in BOOLEAN : Update!Start(k, dry)
           \/ Update!RetryFires(k)
           \/ Update!CheckSteps(k)
    PROVE  /\ ExclusiveInv'
           /\ UndoneInv /\ "copy_fails" \notin Faults => UndoneInv'
<1>0. MaxRetries \in Nat /\ Update!TypeOK
  BY DEF Update!UpdaterAssumption, ExclusiveInv
<1>1. ASSUME Local(k), Local(k)', Intact(k) => FilesKept(k)'
      PROVE  /\ ExclusiveInv'
             /\ UndoneInv /\ "copy_fails" \notin Faults => UndoneInv'
  <2>1. ExclusiveInv'
    <3>1. Local(k) => ExclusiveInv
      BY AloneIsEnough
    <3>2. \A l \in Checks \ {k} : ~Update!Performing(l)'
      BY <1>1 DEF Local, Alone, Update!Performing, Update!Steps
    <3> QED
      BY <1>1, <3>2 DEF Local, Alone, ExclusiveInv, Update!FlagIsUpdate, OneCheck
  <2>2. ASSUME UndoneInv, "copy_fails" \notin Faults
        PROVE  UndoneInv'
    <3>1. Intact(k)
      BY <1>1, <2>2, KeptIsUndone DEF Intact
    <3>2. FilesKept(k)'
      BY <1>1, <3>1
    <3>3. \A l \in Checks \ {k} : FilesAt(l)'
      BY <1>1 DEF Local, Alone, FilesAt
    <3> QED
      BY <1>1, <3>1, <3>2, <3>3 DEF FilesKept, UndoneInv
  <2> QED
    BY <2>1, <2>2
<1>2. ASSUME NEW dry \in BOOLEAN, Update!Start(k, dry)
      PROVE  Local(k) /\ Local(k)' /\ (Intact(k) => FilesKept(k)')
  <2>1. Update!Begins(k, dry)
    BY <1>2 DEF Update!Start
  <2>2. UNCHANGED <<latest, Update!files, isUpdating, retryCount, timers, downloads, failures>>
    BY <1>2 DEF Update!Start
  <2>3. timers' \in Nat /\ starts' \in 0 .. MaxStarts
    BY <1>0, <1>2, <2>2 DEF Update!Start, Update!UpdaterAssumption, Update!TypeOK
  <2>4. Local(k)
    BY <2>1, BeginnerIsAlone
  <2> QED
    BY <2>1, <2>2, <2>3, <2>4, BeginningKeeps
<1>3. ASSUME Update!RetryFires(k), ~isUpdating
      PROVE  Local(k) /\ Local(k)' /\ (Intact(k) => FilesKept(k)')
  <2>1. Update!Begins(k, FALSE) /\ FALSE \in BOOLEAN
    BY <1>3 DEF Update!RetryFires
  <2>2. UNCHANGED <<latest, Update!files, isUpdating, retryCount, starts, downloads, failures>>
    BY <1>3 DEF Update!RetryFires
  <2>3. timers' \in Nat /\ starts' \in 0 .. MaxStarts
    BY <1>0, <1>3, <2>2 DEF Update!RetryFires, Update!TypeOK
  <2>4. Local(k)
    BY <2>1, BeginnerIsAlone
  <2> QED
    BY <2>1, <2>2, <2>3, <2>4, BeginningKeeps
<1>4. ASSUME Update!CheckSteps(k)
      PROVE  Local(k) /\ Local(k)' /\ (Intact(k) => FilesKept(k)')
  <2>1. check[k].at # "idle"
    BY <1>4 DEF Update!CheckSteps, Update!VersionRead, Update!ReleaseRead, Update!PerformUpdate, Update!Step, Update!Cleanup, Update!Rollback, Update!RemoveFailed,
                Update!GetCurrentVersion, Update!OpenTemp, Update!DownloadNewBinary, Update!VerifyNewBinary,
                Update!BackupCurrentBinary, Update!RemoveOld, Update!InstallNewBinary, Update!TestNewBinary
  <2>2. Local(k)
    BY <2>1, MoverIsAlone
  <2>3. CASE Update!VersionRead(k) \/ Update!ReleaseRead(k)
    BY <1>0, <2>2, <2>3, AnswersKeep
  <2>4. CASE Update!PerformUpdate(k)
    BY <1>0, <2>2, <2>4, PerformKeeps
  <2> QED
    BY <1>4, <2>3, <2>4 DEF Update!CheckSteps
<1>5. CASE Update!RetryFires(k) /\ isUpdating
  <2>1. /\ UNCHANGED <<Update!files, check, isUpdating, retryCount, failures>>
        /\ latest' = latest /\ starts' = starts /\ downloads' = downloads
    BY <1>5 DEF Update!RetryFires
  <2>2. latest' \in Update!Versions /\ timers' \in Nat /\ starts' \in 0 .. MaxStarts
    BY <1>0, <1>5, <2>1 DEF Update!RetryFires, Update!TypeOK
  <2>3. downloads \in BOOLEAN
    BY <1>0 DEF Update!TypeOK
  <2>4. downloads' \in BOOLEAN
    BY <2>1, <2>3
  <2> QED
    BY <2>1, <2>2, <2>4, NoCheckMoves
<1> QED
  BY <1>1, <1>2, <1>3, <1>4, <1>5

\* Every step preserves the invariants.
LEMMA NextKeeps ==
    ASSUME Update!UpdaterAssumption, "overlap" \notin Faults
    PROVE  ExclusiveInv /\ [Update!Next]_(Update!vars)
             => /\ ExclusiveInv'
                /\ UndoneInv /\ "copy_fails" \notin Faults => UndoneInv'
<1> SUFFICES ASSUME ExclusiveInv, [Update!Next]_(Update!vars)
             PROVE  /\ ExclusiveInv'
                    /\ UndoneInv /\ "copy_fails" \notin Faults => UndoneInv'
  OBVIOUS
<1>0. /\ latest \in Update!Versions /\ timers \in Nat /\ starts \in 0 .. MaxStarts
      /\ downloads \in BOOLEAN /\ MaxRelease \in Nat
  BY DEF ExclusiveInv, Update!TypeOK, Update!UpdaterAssumption
<1>1. CASE Update!Publish
  <2>1. latest' \in Update!Versions
    BY <1>0, <1>1 DEF Update!Publish, Update!Versions
  <2>2. UNCHANGED <<Update!files, check, isUpdating, retryCount, timers, starts, downloads, failures>>
    BY <1>1 DEF Update!Publish
  <2>3. downloads' \in BOOLEAN
    BY <1>0, <2>2
  <2> QED
    BY <1>0, <2>1, <2>2, <2>3, NoCheckMoves
<1>2. CASE Update!DownloadBegins \/ Update!DownloadEnds
  <2>1. UNCHANGED <<latest, Update!files, check, isUpdating, retryCount, timers, starts, failures>>
    BY <1>2 DEF Update!DownloadBegins, Update!DownloadEnds
  <2>2. downloads' \in BOOLEAN
    BY <1>2 DEF Update!DownloadBegins, Update!DownloadEnds
  <2> QED
    BY <1>0, <2>1, <2>2, NoCheckMoves
<1>3. ASSUME NEW k \in Checks,
             \/ \E dry \in BOOLEAN : Update!Start(k, dry)
             \/ Update!RetryFires(k)
             \/ Update!CheckSteps(k)
      PROVE  /\ ExclusiveInv'
             /\ UndoneInv /\ "copy_fails" \notin Faults => UndoneInv'
  BY <1>3, CheckKeeps
<1>4. CASE UNCHANGED Update!vars
  <2>1. /\ UNCHANGED <<Update!files, check, isUpdating, retryCount, failures>>
        /\ UNCHANGED <<latest, timers, starts, downloads>>
    BY <1>4 DEF Update!vars, Update!files
  <2>2. downloads' \in BOOLEAN
    BY <1>0, <2>1
  <2> QED
    BY <1>0, <2>1, <2>2, NoCheckMoves
<1> QED
  BY <1>1, <1>2, <1>3, <1>4 DEF Update!Next

\* A check that leaves the rollback has taken its step.
LEMMA RollbackIsTheStep ==
    ASSUME ExclusiveInv, Update!Next, NEW k \in Checks,
           check[k].at \in {"rollback", "restoring"}, check'[k].at = "idle"
    PROVE  Update!Rollback(k)
<1>1. Update!Performing(k) /\ isUpdating /\ check' # check
  BY DEF Update!Performing, Update!Steps, ExclusiveInv, Update!FlagIsUpdate
<1>2. ~Update!Publish /\ ~Update!DownloadBegins /\ ~Update!DownloadEnds
  BY <1>1 DEF Update!Publish, Update!DownloadBegins, Update!DownloadEnds
<1>3. PICK l \in Checks : \/ \E dry \in BOOLEAN : Update!Start(l, dry)
                         \/ Update!RetryFires(l)
                         \/ Update!CheckSteps(l)
  BY <1>2 DEF Update!Next
<1>4. Update!CheckSteps(l)
  BY <1>1, <1>3 DEF Update!Start, Update!RetryFires, Update!Begins, Update!MayCheck
<1>5. check[l].at # "idle"
  BY <1>4 DEF Update!CheckSteps, Update!VersionRead, Update!ReleaseRead, Update!PerformUpdate, Update!Step, Update!Cleanup, Update!Rollback, Update!RemoveFailed,
              Update!GetCurrentVersion, Update!OpenTemp, Update!DownloadNewBinary, Update!VerifyNewBinary,
              Update!BackupCurrentBinary, Update!RemoveOld, Update!InstallNewBinary, Update!TestNewBinary
<1>6. l = k
  BY <1>5 DEF ExclusiveInv, OneCheck
<1>7. ~Update!RemoveFailed(k)
  <2>1. Update!At(k, "restoring") => Moves(k, "restoring", check[k].seen)
    BY Forms DEF ExclusiveInv, Place, Update!Steps
  <2>2. ~Update!At(k, "restoring")
    BY <2>1 DEF Moves
  <2> QED
    BY <2>2 DEF Update!RemoveFailed
<1> QED
  BY <1>4, <1>6, <1>7 DEF Update!CheckSteps, Update!VersionRead, Update!ReleaseRead, Update!PerformUpdate, Update!Step, Update!Cleanup,
                    Update!GetCurrentVersion, Update!OpenTemp, Update!DownloadNewBinary, Update!VerifyNewBinary,
                    Update!BackupCurrentBinary, Update!RemoveOld, Update!InstallNewBinary, Update!TestNewBinary

\* The flag is up exactly while an update is under way, and there is one at a
\* time: every path of performUpdate() that ends releases the flag, and none takes it
\* twice.
\* That no check starts while another awaits its answers is assumed: the code
\* tests the flag before those awaits and sets it after them.
THEOREM UpdatesExclude ==
    ASSUME Update!UpdaterAssumption, "overlap" \notin Faults
    PROVE  Update!Spec => []UpdateIsExclusive
<1>1. Update!Init => ExclusiveInv
  BY InitInv
<1>2. ExclusiveInv /\ [Update!Next]_(Update!vars) => ExclusiveInv'
  BY NextKeeps
<1>3. ExclusiveInv => UpdateIsExclusive
  <2> SUFFICES ASSUME ExclusiveInv PROVE UpdateIsExclusive
    OBVIOUS
  <2>0. /\ Steps = Update!Steps
        /\ \A k : Performing(k) <=> Update!Performing(k)
        /\ FlagIsUpdate
    BY DEF ExclusiveInv, Steps, Update!Steps, Performing, Update!Performing, FlagIsUpdate,
           Update!FlagIsUpdate
  <2> DEFINE P == {k \in Checks : Performing(k)}
  <2>1. P = {} \/ \E k \in P : P = {k}
    BY DEF ExclusiveInv, OneCheck, Performing, Steps
  <2>2. Cardinality(P) = 0 \/ Cardinality(P) = 1
    BY <2>1, FS_EmptySet, FS_Singleton
  <2> QED
    BY <2>0, <2>2 DEF UpdateIsExclusive, OneUpdate
<1> QED
  BY <1>1, <1>2, <1>3, PTL DEF Update!Spec

\* Between updates there is a yt-dlp that runs, whichever step failed and however
\* many failed before, unless it was the move of a rollback: then what the
\* rollback was to restore is still there and runs. A rollback leaves the version
\* the update began with, until a rollback or a clean-up has failed. The backup
\* is assumed to be copied whole.
THEOREM FailedUpdatesAreUndone ==
    ASSUME Update!UpdaterAssumption, {"overlap", "copy_fails"} \cap Faults = {}
    PROVE  Update!Spec => []Update!BinaryWorksAtRest /\ [][Update!RollbackRestores]_(Update!vars)
<1> DEFINE Inv == ExclusiveInv /\ UndoneInv
<1>0. /\ "overlap" \notin Faults
      /\ "copy_fails" \notin Faults
  OBVIOUS
<1>1. Update!Init => Inv
  BY InitInv
<1>2. Inv /\ [Update!Next]_(Update!vars) => Inv'
  BY <1>0, NextKeeps
<1>3. Inv => Update!BinaryWorksAtRest
  BY DEF UndoneInv, Resting, Update!BinaryWorksAtRest, Update!AtRest
<1>4. Inv /\ [Update!Next]_(Update!vars) => [Update!RollbackRestores]_(Update!vars)
  <2> SUFFICES ASSUME Inv, Update!Next PROVE Update!RollbackRestores
    OBVIOUS
  <2> SUFFICES ASSUME NEW k \in Checks, check[k].at \in {"rollback", "restoring"},
                      check'[k].at = "idle", failures' = {}
               PROVE  binary' = check[k].seen
    BY DEF Update!RollbackRestores
  <2>1. Update!Rollback(k)
    BY RollbackIsTheStep
  <2>2. Local(k)
    BY MoverIsAlone
  <2>3. FilesKept(k) /\ check[k].seen \in File
    BY <2>2, KeptIsUndone, ReadTypes
  <2>4. ~Update!RollbackFails(k)
    BY DEF Update!RollbackFails
  <2> QED
    BY <2>1, <2>3, <2>4
       DEF FilesKept, FilesAt, Update!Rollback, Update!Works, Update!Versions, Update!Nothing,
           Update!files
<1> QED
  BY <1>1, <1>2, <1>3, <1>4, PTL DEF Update!Spec

-----------------------------------------------------------------------------
(***************************************************************************)
(* The jobs of Radarr and Sonarr                                           *)
(***************************************************************************)

\* What MediaJobs has besides the statuses; MediaIds are its Jobs.
CONSTANTS MediaIds, Movies, Shows, MaxPolls, MaxBackoff, Deletes, NoTitle
VARIABLES known, shot, request, deletion, inLib, item, poll, backoff, wait

Media == INSTANCE MediaJobs WITH Jobs <- MediaIds

Shown == {"downloading", "importing"}

\* The title is in the queue, or was imported.
Grabbed(t) == item[t] # "none" \/ file[t]

\* What the poller may show: the job's title was grabbed after it was requested,
\* and has left the queue again.
WasGrabbed(j) == Grabbed(title[j]) \/ j \in taken
HasLeft(j) == file[title[j]] \/ j \in taken

\* A job is polled once its request is over; the title of one that is shown as
\* downloading was grabbed, that of one that is shown as completed left the queue.
JobIsAt(j) ==
  /\ deletion[j] # "none" => known[j] /\ Deletes
  /\ jobStatus[j] # "none" => title[j] \in Media!Titles
  /\ request[j] # "none" => /\ ~known[j]
                            /\ jobStatus[j] = "requested" \/ (jobStatus[j] = "cancelled" /\ Deletes)
  /\ jobStatus[j] = "none" => ~known[j]
  /\ known[j] => jobStatus[j] \notin {"none", "requested"}
  /\ jobStatus[j] \in {"searching"} \cup Shown => known[j]
  /\ jobStatus[j] \in Shown => WasGrabbed(j)
  /\ jobStatus[j] = "completed" => known[j] /\ HasLeft(j)

\* A title that arr answered to have in its queue was grabbed, and one that it
\* answered to have lost, after it was grabbed, has left the queue.
SeenIsOf(p, j) ==
  poll[p].seen[j] # "none" =>
    /\ known[j] /\ poll[p].seen[j] \in {"searching"} \cup Shown
    /\ poll[p].seen[j] \in Shown => WasGrabbed(j)
    /\ \A s \in Media!Services :
         poll[p].part[s] = "read" /\ title[j] \in s =>
           /\ poll[p].answer[title[j]] # "none" => WasGrabbed(j)
           /\ poll[p].answer[title[j]] = "none" /\ poll[p].seen[j] \in Shown => HasLeft(j)

ImportInv ==
  /\ Media!TypeOK
  /\ \A j \in MediaIds : JobIsAt(j)
  /\ \A p \in Media!Polls, j \in MediaIds : SeenIsOf(p, j)

\* What a poll saw of a job is what the job still is, until it is written.
FreshInv ==
  \A p \in Media!Polls, j \in MediaIds, s \in Media!Services :
    poll[p].part[s] # "idle" /\ title[j] \in s /\ poll[p].seen[j] # "none" =>
      poll[p].seen[j] = jobStatus[j]

-----------------------------------------------------------------------------
(***************************************************************************)
(* What the actions do to a poll                                           *)
(***************************************************************************)
PollType ==
  [on : BOOLEAN, part : [Media!Services -> {"idle", "asked", "read"}],
   seen : [MediaIds -> Media!Statuses], shot : [MediaIds -> Media!Items],
   answer : [Media!Titles -> Media!Items]]

\* The types of all variables but the polls.
RestType ==
  /\ jobStatus \in [MediaIds -> Media!Statuses]
  /\ title \in [MediaIds -> Media!Titles \cup {NoTitle}]
  /\ known \in [MediaIds -> BOOLEAN]
  /\ shot \in [MediaIds -> Media!Items]
  /\ request \in [MediaIds -> {"none", "listing", "adding", "searching"}]
  /\ deletion \in [MediaIds -> {"none", "queue", "items", "title"}]
  /\ inLib \in [Media!Titles -> BOOLEAN]
  /\ item \in [Media!Titles -> Media!Items]
  /\ file \in [Media!Titles -> BOOLEAN]
  /\ taken \subseteq MediaIds
  /\ backoff \in 1..MaxBackoff /\ wait \in 0..MaxBackoff

\* The types are those of the polls and of the rest.
LEMMA MediaTypes == Media!TypeOK <=> RestType /\ poll \in [Media!Polls -> PollType]
BY DEF Media!TypeOK, RestType, PollType

\* A title is of one service.
LEMMA ServicesAreApart ==
  ASSUME Media!MediaAssumption
  PROVE  /\ \A s \in Media!Services : s \subseteq Media!Titles
         /\ \A s, r \in Media!Services : s # r => s \cap r = {}
         /\ \A t \in Media!Titles : t \in Media!ServiceOf(t)
         /\ \A t \in Media!Titles, s \in Media!Services : t \in s => s = Media!ServiceOf(t)
         /\ NoTitle \notin Media!Titles
BY DEF Media!MediaAssumption, Media!Services, Media!Titles, Media!ServiceOf

\* What a queue item makes of a status.
LEMMA DeriveIs ==
  ASSUME NEW st \in Media!Statuses, NEW i \in Media!Items
  PROVE  /\ Media!Derive(st, i) \in Media!Statuses
         /\ i = "none" /\ st \in Shown => Media!Derive(st, i) = "completed"
         /\ i = "none" /\ st \notin Shown => Media!Derive(st, i) = st
         /\ i # "none" => Media!Derive(st, i) \in Shown \cup {"failed"}
BY DEF Media!Derive, Media!Statuses, Media!Items, Media!Terminal, Shown

\* A poll that is not under way, and one that begins.
LEMMA NewPolls ==
  ASSUME RestType
  PROVE  Media!NoPoll \in PollType /\ Media!Capture \in PollType
<1>1. "none" \in Media!Statuses /\ "none" \in Media!Items
  BY DEF Media!Statuses, Media!Items
<1>2. Media!NoPoll \in PollType
  BY <1>1 DEF Media!NoPoll, PollType
<1>3. Media!Capture \in PollType
  BY <1>1 DEF Media!Capture, PollType, RestType
<1> QED BY <1>2, <1>3

\* What PollRead() leaves behind.
LEMMA ReadIs ==
  ASSUME NEW p \in Media!Polls, NEW s \in Media!Services, Media!TypeOK, Media!PollRead(p, s)
  PROVE  /\ poll' \in [Media!Polls -> PollType]
         /\ \A q \in Media!Polls : q # p => poll'[q] = poll[q]
         /\ poll'[p].part[s] = "read" /\ poll'[p].seen = poll[p].seen
         /\ \A r \in Media!Services : r # s => poll'[p].part[r] = poll[p].part[r]
         /\ \A t \in Media!Titles :
              poll'[p].answer[t] = IF t \in s THEN item[t] ELSE poll[p].answer[t]
<1> DEFINE ans == [t \in Media!Titles |-> IF t \in s THEN item[t] ELSE poll[p].answer[t]]
           new == [poll[p] EXCEPT !.part[s] = "read", !.answer = ans]
<1>1. RestType /\ poll \in [Media!Polls -> PollType] /\ poll[p] \in PollType
  BY MediaTypes
<1>2. poll' = [poll EXCEPT ![p] = new]
  BY <1>1 DEF Media!PollRead, PollType
<1>3. ans \in [Media!Titles -> Media!Items]
  BY <1>1 DEF RestType, PollType
<1> HIDE DEF ans
<1>4. /\ new \in PollType /\ new.part = [poll[p].part EXCEPT ![s] = "read"]
      /\ new.seen = poll[p].seen /\ new.answer = ans
  BY <1>1, <1>3 DEF PollType
<1> HIDE DEF new
<1>5. poll' \in [Media!Polls -> PollType] /\ poll'[p] = new
      /\ \A q \in Media!Polls : q # p => poll'[q] = poll[q]
  BY <1>1, <1>2, <1>4
<1>6. poll[p].part \in [Media!Services -> {"idle", "asked", "read"}]
  BY <1>1 DEF PollType
<1>7. \A t \in Media!Titles : ans[t] = IF t \in s THEN item[t] ELSE poll[p].answer[t]
  BY DEF ans
<1> QED BY <1>4, <1>5, <1>6, <1>7

\* What remains of a poll one of whose parts ends: nothing, or what it was.
Remains(new, old, s) ==
  /\ new.part[s] = "idle"
  /\ \A r \in Media!Services : new.part[r] # "idle" => new.part[r] = old.part[r]
  /\ \/ new.seen = old.seen /\ new.answer = old.answer
     \/ /\ \A r \in Media!Services : new.part[r] = "idle"
        /\ \A j \in MediaIds : new.seen[j] = "none"

LEMMA EndedIs ==
  ASSUME NEW p \in Media!Polls, NEW s \in Media!Services, NEW on \in BOOLEAN, Media!TypeOK,
         poll' = [poll EXCEPT ![p] = Media!Ended(p, s, on)]
  PROVE  /\ poll' \in [Media!Polls -> PollType]
         /\ \A q \in Media!Polls : q # p => poll'[q] = poll[q]
         /\ Remains(poll'[p], poll[p], s)
<1> DEFINE r == [poll[p] EXCEPT !.on = on, !.part[s] = "idle"]
           new == Media!Ended(p, s, on)
<1>1. RestType /\ poll \in [Media!Polls -> PollType] /\ poll[p] \in PollType
  BY MediaTypes
<1>2. /\ r \in PollType /\ r.part = [poll[p].part EXCEPT ![s] = "idle"]
      /\ r.seen = poll[p].seen /\ r.answer = poll[p].answer
  BY <1>1 DEF PollType
<1>3. new = IF \A q \in Media!Services : r.part[q] = "idle" THEN Media!NoPoll ELSE r
  BY DEF Media!Ended
<1> HIDE DEF r
<1>4. /\ Media!NoPoll \in PollType
      /\ \A q \in Media!Services : Media!NoPoll.part[q] = "idle"
      /\ \A j \in MediaIds : Media!NoPoll.seen[j] = "none"
  BY <1>1, NewPolls DEF Media!NoPoll
<1>5. new \in PollType
  BY <1>2, <1>3, <1>4
<1>6. poll[p].part \in [Media!Services -> {"idle", "asked", "read"}]
  BY <1>1 DEF PollType
<1>7. Remains(new, poll[p], s)
  BY <1>2, <1>3, <1>4, <1>6 DEF Remains
<1>8. poll' = [poll EXCEPT ![p] = new]
  OBVIOUS
<1> HIDE DEF new
<1>9. poll' \in [Media!Polls -> PollType] /\ poll'[p] = new
      /\ \A q \in Media!Polls : q # p => poll'[q] = poll[q]
  BY <1>1, <1>5, <1>8
<1> QED BY <1>7, <1>9

-----------------------------------------------------------------------------
(***************************************************************************)
(* Types                                                                   *)
(***************************************************************************)

\* A poll takes what it is told about the jobs into their statuses and snapshots.
LEMMA AppliesTypes ==
  ASSUME NEW p \in Media!Polls, NEW s \in Media!Services, Media!TypeOK, Media!PollApplies(p, s)
  PROVE  jobStatus' \in [MediaIds -> Media!Statuses] /\ shot' \in [MediaIds -> Media!Items]
<1>1. RestType /\ poll[p] \in PollType
  BY MediaTypes
<1>2. \A j \in Media!Updated(p, s) : j \in MediaIds /\ title[j] \in s /\ s \subseteq Media!Titles
  BY DEF Media!Updated, Media!Services, Media!Titles
<1>3. \A j \in Media!Updated(p, s) : /\ poll[p].answer[title[j]] \in Media!Items
                                     /\ poll[p].seen[j] \in Media!Statuses
  BY <1>1, <1>2 DEF PollType
<1>4. \A j \in Media!Updated(p, s) :
        Media!Derive(poll[p].seen[j], poll[p].answer[title[j]]) \in Media!Statuses
  BY <1>3, DeriveIs
<1>5. ASSUME NEW j \in MediaIds
      PROVE  /\ jobStatus[j] \in Media!Statuses /\ shot[j] \in Media!Items
             /\ j \in Media!Updated(p, s) =>
                  /\ Media!Derive(poll[p].seen[j], poll[p].answer[title[j]]) \in Media!Statuses
                  /\ poll[p].answer[title[j]] \in Media!Items
  BY <1>1, <1>3, <1>4 DEF RestType
<1>6. /\ jobStatus' = [j \in MediaIds |->
           IF j \in Media!Updated(p, s)
             THEN Media!Derive(poll[p].seen[j], poll[p].answer[title[j]]) ELSE jobStatus[j]]
      /\ shot' = [j \in MediaIds |->
           IF j \in Media!Updated(p, s) /\ poll[p].answer[title[j]] # "none"
             THEN poll[p].answer[title[j]] ELSE shot[j]]
  BY DEF Media!PollApplies
<1> QED BY <1>5, <1>6

\* The ticks to wait stay within the bound.
LEMMA BackoffTypes ==
  ASSUME Media!MediaAssumption, RestType
  PROVE  1 \in 1..MaxBackoff /\ 0 \in 0..MaxBackoff /\ backoff \in 0..MaxBackoff
         /\ Media!NextBackoff \in 1..MaxBackoff /\ (wait > 0 => wait - 1 \in 0..MaxBackoff)
BY DEF Media!MediaAssumption, RestType, Media!NextBackoff

\* Each step keeps the types.
LEMMA MediaTypesKept ==
  ASSUME Media!MediaAssumption, Media!TypeOK, Media!Next
  PROVE  Media!TypeOK'
<1>1. RestType /\ poll \in [Media!Polls -> PollType]
  BY MediaTypes
<1>0. SUFFICES RestType' /\ poll' \in [Media!Polls -> PollType]
  BY DEF Media!TypeOK, RestType, PollType
<1>2. ASSUME NEW j \in MediaIds, Media!Request(j) PROVE RestType' /\ poll' = poll
  BY <1>1, <1>2 DEF RestType, Media!Request, Media!SetStatus, Media!Statuses, Media!arrVars, Media!pollVars
<1>3. ASSUME NEW j \in MediaIds, Media!RequestStep(j) PROVE RestType' /\ poll' = poll
  <2>1. CASE Media!Listed(j)
    BY <1>1, <2>1 DEF RestType, Media!Listed, Media!jobVars, Media!arrVars, Media!pollVars
  <2>2. CASE Media!Added(j)
    BY <1>1, <2>2 DEF RestType, Media!Added, Media!jobVars, Media!pollVars
  <2>3. CASE Media!Searched(j)
    BY <1>1, <2>3 DEF RestType, Media!Searched, Media!SetStatus, Media!Statuses, Media!arrVars, Media!pollVars
  <2>4. CASE Media!RequestFails(j)
    BY <1>1, <2>4 DEF RestType, Media!RequestFails, Media!SetStatus, Media!Statuses, Media!Terminal, Media!arrVars, Media!pollVars
  <2> QED BY <1>3, <2>1, <2>2, <2>3, <2>4 DEF Media!RequestStep
<1>4. ASSUME NEW j \in MediaIds, Media!Delete(j) PROVE RestType' /\ poll' = poll
  BY <1>1, <1>4 DEF RestType, Media!Delete, Media!SetStatus, Media!Statuses, Media!Terminal, Media!arrVars, Media!pollVars
<1>5. ASSUME NEW j \in MediaIds, Media!DeletionStep(j) PROVE RestType' /\ poll' = poll
  <2>0. "none" \in Media!Items
    BY DEF Media!Items
  <2>1. CASE Media!QueueRead(j)
    BY <1>1, <2>1 DEF RestType, Media!QueueRead, Media!jobVars, Media!arrVars, Media!pollVars
  <2>2. CASE Media!ItemsCancelled(j)
    BY <1>1, <2>0, <2>2 DEF RestType, Media!ItemsCancelled, Media!IsTaken, Media!jobVars, Media!pollVars
  <2>3. CASE Media!TitleDeleted(j)
    BY <1>1, <2>0, <2>3 DEF RestType, Media!TitleDeleted, Media!IsTaken, Media!SetStatus, Media!Statuses, Media!Terminal, Media!pollVars
  <2>4. CASE Media!DeletionFails(j)
    BY <1>1, <2>4 DEF RestType, Media!DeletionFails, Media!jobVars, Media!arrVars, Media!pollVars
  <2> QED BY <1>5, <2>1, <2>2, <2>3, <2>4 DEF Media!DeletionStep
<1>6. ASSUME NEW t \in Media!Titles, Media!ArrStep(t) PROVE RestType' /\ poll' = poll
  <2>1. Media!Successors(item[t]) \subseteq Media!Items
    BY <1>1 DEF RestType, Media!Successors, Media!Items
  <2>2. item' \in [Media!Titles -> Media!Items]
    BY <1>1, <1>6, <2>1 DEF RestType, Media!ArrStep, Media!Progresses, Media!Removed, Media!Items
  <2>3. file' \in [Media!Titles -> BOOLEAN] /\ taken' \subseteq MediaIds
    BY <1>1, <1>6 DEF RestType, Media!ArrStep, Media!Progresses, Media!Removed, Media!IsTaken
  <2> QED BY <1>1, <1>6, <2>2, <2>3 DEF RestType, Media!ArrStep, Media!jobVars, Media!pollVars
<1>7. CASE Media!Tick
  <2>1. backoff' \in 1..MaxBackoff /\ wait' \in 0..MaxBackoff
    BY <1>1, <1>7, BackoffTypes DEF Media!Tick, Media!Recovered, RestType
  <2>2. poll' \in [Media!Polls -> PollType]
    BY <1>1, <1>7, NewPolls DEF Media!Tick
  <2> QED BY <1>1, <1>7, <2>1, <2>2 DEF RestType, Media!Tick, Media!jobVars, Media!arrVars
<1>8. ASSUME NEW p \in Media!Polls, NEW s \in Media!Services, Media!PollRead(p, s)
      PROVE  RestType' /\ poll' \in [Media!Polls -> PollType]
  <2>1. poll' \in [Media!Polls -> PollType]
    BY <1>8, ReadIs
  <2> QED BY <1>1, <1>8, <2>1 DEF RestType, Media!PollRead, Media!jobVars, Media!arrVars
<1>9. ASSUME NEW p \in Media!Polls, NEW s \in Media!Services, Media!PollApplies(p, s)
      PROVE  RestType' /\ poll' \in [Media!Polls -> PollType]
  <2>1. poll[p].on \in BOOLEAN
    BY <1>1 DEF PollType
  <2>2. poll' \in [Media!Polls -> PollType]
    BY <1>9, <2>1, EndedIs DEF Media!PollApplies
  <2>3. jobStatus' \in [MediaIds -> Media!Statuses] /\ shot' \in [MediaIds -> Media!Items]
    BY <1>9, AppliesTypes
  <2>4. backoff' \in 1..MaxBackoff /\ wait' \in 0..MaxBackoff
    BY <1>1, <1>9, BackoffTypes DEF Media!PollApplies, Media!Recovered, RestType
  <2> QED BY <1>1, <1>9, <2>2, <2>3, <2>4 DEF RestType, Media!PollApplies, Media!arrVars
<1>10. ASSUME NEW p \in Media!Polls, NEW s \in Media!Services, Media!PollFails(p, s)
       PROVE  RestType' /\ poll' \in [Media!Polls -> PollType]
  <2>1. poll' \in [Media!Polls -> PollType]
    BY <1>10, EndedIs DEF Media!PollFails
  <2>2. backoff' \in 1..MaxBackoff /\ wait' \in 0..MaxBackoff
    BY <1>1, <1>10, BackoffTypes DEF Media!PollFails, RestType
  <2> QED BY <1>1, <1>10, <2>1, <2>2 DEF RestType, Media!PollFails, Media!jobVars, Media!arrVars
<1> QED
  BY <1>1, <1>2, <1>3, <1>4, <1>5, <1>6, <1>7, <1>8, <1>9, <1>10 DEF Media!Next, Media!PollEnds

-----------------------------------------------------------------------------
(***************************************************************************)
(* What is shown was grabbed, and has left the queue                       *)
(***************************************************************************)

\* What was grabbed for job i, or has left the queue, stays so.
StaysGrabbed(i) == (WasGrabbed(i) => WasGrabbed(i)') /\ (HasLeft(i) => HasLeft(i)')

\* What arr, or a deletion, does to one title: it keeps what it has, or it is taken.
LEMMA LibraryKeeps ==
  ASSUME NEW t \in Media!Titles, UNCHANGED <<title, known>>,
         \A u \in Media!Titles : u # t => item'[u] = item[u] /\ file'[u] = file[u],
         \/ taken' = taken /\ (Grabbed(t) => Grabbed(t)') /\ (file[t] => file'[t])
         \/ Media!IsTaken(t),
         NEW i \in MediaIds, known[i], title[i] \in Media!Titles
  PROVE  StaysGrabbed(i)
<1>1. CASE title[i] = t
  BY <1>1 DEF StaysGrabbed, WasGrabbed, HasLeft, Grabbed, Media!IsTaken
<1>2. CASE title[i] # t
  BY <1>2 DEF StaysGrabbed, WasGrabbed, HasLeft, Grabbed, Media!IsTaken
<1> QED BY <1>1, <1>2

\* What holds of the polls still does when no poll moves, and arr and the jobs go on.
LEMMA PollsKept ==
  ASSUME ImportInv, poll' = poll,
         \A j \in MediaIds : known[j] => known'[j] /\ title'[j] = title[j] /\ StaysGrabbed(j)
  PROVE  \A p \in Media!Polls, j \in MediaIds : SeenIsOf(p, j)'
<1> SUFFICES ASSUME NEW p \in Media!Polls, NEW j \in MediaIds PROVE SeenIsOf(p, j)'
  OBVIOUS
<1>1. SeenIsOf(p, j)
  BY DEF ImportInv
<1> QED BY <1>1 DEF SeenIsOf, StaysGrabbed

\* A step of a request.
LEMMA RequestKeeps ==
  ASSUME Media!MediaAssumption, ImportInv, NEW j \in MediaIds,
         Media!Request(j) \/ Media!RequestStep(j)
  PROVE  /\ \A i \in MediaIds : JobIsAt(i)'
         /\ \A i \in MediaIds : known[i] => known'[i] /\ title'[i] = title[i] /\ StaysGrabbed(i)
         /\ UNCHANGED poll
<1>1. RestType /\ \A i \in MediaIds : JobIsAt(i)
  BY MediaTypes DEF ImportInv
<1>2. /\ UNCHANGED <<deletion, item, file, taken, poll>>
      /\ \A i \in MediaIds : i # j => /\ jobStatus'[i] = jobStatus[i] /\ title'[i] = title[i]
                                      /\ known'[i] = known[i] /\ request'[i] = request[i]
      /\ \A i \in MediaIds : known[i] => title'[i] = title[i] /\ known'[i]
  BY <1>1 DEF JobIsAt, RestType, Media!Request, Media!RequestStep, Media!Listed, Media!Added,
     Media!Searched, Media!RequestFails, Media!SetStatus, Media!jobVars, Media!arrVars, Media!pollVars
<1>3. \A i \in MediaIds : title'[i] = title[i] => StaysGrabbed(i)
  BY <1>2 DEF StaysGrabbed, WasGrabbed, HasLeft, Grabbed
<1>4. ASSUME NEW i \in MediaIds, i # j PROVE JobIsAt(i)'
  BY <1>1, <1>2, <1>3, <1>4 DEF JobIsAt, StaysGrabbed
<1>5. JobIsAt(j)'
  <2>1. CASE Media!Request(j)
    BY <1>1, <2>1 DEF JobIsAt, Shown, RestType, Media!Request, Media!SetStatus
  <2>2. CASE Media!RequestStep(j)
    <3>1. /\ title'[j] = title[j] /\ ~known[j] /\ title[j] \in Media!Titles /\ deletion'[j] = "none"
          /\ \/ UNCHANGED <<jobStatus, known>> /\ request[j] # "none"
             \/ jobStatus'[j] = "searching" /\ known'[j] /\ request'[j] = "none"
             \/ jobStatus'[j] = "failed" /\ ~known'[j] /\ request'[j] = "none"
      BY <1>1, <1>2, <2>2 DEF JobIsAt, RestType, Media!RequestStep, Media!Listed, Media!Added,
         Media!Searched, Media!RequestFails, Media!SetStatus, Media!jobVars
    <3> QED BY <1>1, <3>1 DEF JobIsAt, Shown
  <2> QED BY <2>1, <2>2
<1> QED BY <1>2, <1>3, <1>4, <1>5

\* A step of a deletion.
LEMMA DeletionKeeps ==
  ASSUME Media!MediaAssumption, ImportInv, NEW j \in MediaIds,
         Media!Delete(j) \/ Media!DeletionStep(j)
  PROVE  /\ \A i \in MediaIds : JobIsAt(i)'
         /\ \A i \in MediaIds : known[i] => known'[i] /\ title'[i] = title[i] /\ StaysGrabbed(i)
         /\ UNCHANGED poll
<1>1. RestType /\ \A i \in MediaIds : JobIsAt(i)
  BY MediaTypes DEF ImportInv
<1>2. /\ UNCHANGED <<title, known, request, poll>>
      /\ deletion[j] # "none" => title[j] \in Media!Titles
      /\ \A i \in MediaIds : i # j => jobStatus'[i] = jobStatus[i] /\ deletion'[i] = deletion[i]
  BY <1>1 DEF JobIsAt, RestType, Media!Delete, Media!DeletionStep, Media!QueueRead,
     Media!ItemsCancelled, Media!TitleDeleted, Media!DeletionFails, Media!SetStatus, Media!jobVars,
     Media!arrVars, Media!pollVars
<1>3. ASSUME NEW i \in MediaIds, known[i] PROVE StaysGrabbed(i)
  <2>0. title[i] \in Media!Titles
    BY <1>1, <1>3 DEF JobIsAt
  <2>1. CASE UNCHANGED <<item, file, taken>>
    BY <1>2, <2>1 DEF StaysGrabbed, WasGrabbed, HasLeft, Grabbed
  <2>2. CASE ~UNCHANGED <<item, file, taken>>
    <3>1. Media!ItemsCancelled(j) \/ Media!TitleDeleted(j)
      BY <2>2 DEF Media!Delete, Media!DeletionStep, Media!QueueRead, Media!DeletionFails, Media!arrVars
    <3>2. Media!IsTaken(title[j]) /\ title[j] \in Media!Titles
      BY <1>2, <2>2, <3>1 DEF Media!ItemsCancelled, Media!TitleDeleted
    <3>3. \A u \in Media!Titles : u # title[j] => item'[u] = item[u] /\ file'[u] = file[u]
      BY <1>1, <3>1 DEF RestType, Media!ItemsCancelled, Media!TitleDeleted
    <3> QED BY <1>2, <1>3, <2>0, <3>2, <3>3, LibraryKeeps
  <2> QED BY <2>1, <2>2
<1>4. ASSUME NEW i \in MediaIds, i # j PROVE JobIsAt(i)'
  BY <1>1, <1>2, <1>3, <1>4 DEF JobIsAt, StaysGrabbed, Shown
<1>5. JobIsAt(j)'
  <2>1. \/ jobStatus'[j] = jobStatus[j] /\ (deletion'[j] # "none" => known[j] /\ Deletes)
        \/ /\ jobStatus[j] # "none" /\ jobStatus'[j] = "cancelled"
           /\ (deletion'[j] # "none" => known[j]) /\ Deletes
    BY <1>1 DEF JobIsAt, RestType, Media!Delete, Media!DeletionStep, Media!QueueRead,
       Media!ItemsCancelled, Media!TitleDeleted, Media!DeletionFails, Media!SetStatus, Media!jobVars
  <2>2. JobIsAt(j) /\ (known[j] => StaysGrabbed(j))
    BY <1>1, <1>3
  <2>3. CASE jobStatus'[j] = jobStatus[j] /\ (deletion'[j] # "none" => known[j] /\ Deletes)
    BY <1>2, <2>2, <2>3 DEF JobIsAt, StaysGrabbed, Shown
  <2>4. CASE /\ jobStatus[j] # "none" /\ jobStatus'[j] = "cancelled"
             /\ (deletion'[j] # "none" => known[j]) /\ Deletes
    BY <1>2, <2>2, <2>4 DEF JobIsAt, Shown
  <2> QED BY <2>1, <2>3, <2>4
<1> QED BY <1>2, <1>3, <1>4, <1>5

\* Nothing is deleted.
LEMMA NoDeletion ==
  ASSUME ImportInv, ~Deletes, NEW j \in MediaIds
  PROVE  ~Media!Delete(j) /\ ~Media!DeletionStep(j)
BY DEF ImportInv, JobIsAt, Media!Delete, Media!DeletionStep, Media!QueueRead,
       Media!ItemsCancelled, Media!TitleDeleted, Media!DeletionFails

\* A title leaves arr's queue when it is imported, or it is taken.
LEMMA ArrKeeps ==
  ASSUME ImportInv, NEW t \in Media!Titles, Media!ArrStep(t)
  PROVE  /\ \A i \in MediaIds : JobIsAt(i)'
         /\ \A i \in MediaIds : known[i] => known'[i] /\ title'[i] = title[i] /\ StaysGrabbed(i)
         /\ UNCHANGED <<jobStatus, title, known, poll>>
<1>1. RestType /\ \A i \in MediaIds : JobIsAt(i)
  BY MediaTypes DEF ImportInv
<1>2. \A i \in Media!Successors(item[t]) : i = "none" => item[t] = "importing"
  BY <1>1 DEF Media!Successors, RestType, Media!Items
<1>3. UNCHANGED <<jobStatus, title, known, request, deletion, poll>>
  BY DEF Media!ArrStep, Media!jobVars, Media!pollVars
<1>4. /\ \A u \in Media!Titles : u # t => item'[u] = item[u] /\ file'[u] = file[u]
      /\ \/ taken' = taken /\ (Grabbed(t) => Grabbed(t)') /\ (file[t] => file'[t])
         \/ Media!IsTaken(t)
  BY <1>1, <1>2 DEF Media!ArrStep, Media!Progresses, Media!Removed, Grabbed, RestType
<1>5. ASSUME NEW i \in MediaIds, known[i] PROVE StaysGrabbed(i)
  <2>1. title[i] \in Media!Titles
    BY <1>1, <1>5 DEF JobIsAt
  <2> QED BY <1>3, <1>4, <1>5, <2>1, LibraryKeeps
<1>6. ASSUME NEW i \in MediaIds PROVE JobIsAt(i)'
  BY <1>1, <1>3, <1>5 DEF JobIsAt, StaysGrabbed, Shown
<1> QED BY <1>3, <1>5, <1>6

\* A poll sees the jobs that are tracked.
LEMMA CaptureKeeps ==
  ASSUME ImportInv, Media!Tick
  PROVE  \A p \in Media!Polls, j \in MediaIds : SeenIsOf(p, j)'
<1>1. RestType /\ poll \in [Media!Polls -> PollType] /\ \A j \in MediaIds : JobIsAt(j)
  BY MediaTypes DEF ImportInv
<1>2. UNCHANGED <<jobStatus, title, known, item, file, taken>>
  BY DEF Media!Tick, Media!jobVars, Media!arrVars
<1>3. /\ \A s \in Media!Services : Media!Capture.part[s] # "read"
      /\ \A j \in MediaIds : Media!Capture.seen[j] # "none" =>
           known[j] /\ jobStatus[j] \notin Media!Terminal /\ Media!Capture.seen[j] = jobStatus[j]
  BY DEF Media!Capture, Media!Tracked
<1> SUFFICES ASSUME NEW p \in Media!Polls, NEW j \in MediaIds PROVE SeenIsOf(p, j)'
  OBVIOUS
<1>4. poll'[p] = poll[p] \/ poll'[p] = Media!Capture
  BY <1>1 DEF Media!Tick
<1>5. CASE poll'[p] = poll[p]
  <2>1. SeenIsOf(p, j)
    BY DEF ImportInv
  <2> QED BY <1>2, <1>5, <2>1 DEF SeenIsOf, WasGrabbed, HasLeft, Grabbed
<1>6. CASE poll'[p] = Media!Capture
  <2>1. ASSUME Media!Capture.seen[j] # "none"
        PROVE  /\ known[j] /\ jobStatus[j] \in {"searching"} \cup Shown
               /\ jobStatus[j] \in Shown => WasGrabbed(j)
               /\ Media!Capture.seen[j] = jobStatus[j]
    <3>1. known[j] /\ jobStatus[j] \notin Media!Terminal /\ Media!Capture.seen[j] = jobStatus[j]
      BY <1>3, <2>1
    <3>2. jobStatus[j] \in Media!Statuses /\ JobIsAt(j)
      BY <1>1 DEF RestType
    <3> QED BY <3>1, <3>2 DEF JobIsAt, Media!Statuses, Media!Terminal, Shown
  <2> QED BY <1>2, <1>3, <1>6, <2>1 DEF SeenIsOf, WasGrabbed, HasLeft, Grabbed
<1> QED BY <1>4, <1>5, <1>6

\* arr answers with what its queue is.
LEMMA ReadKeeps ==
  ASSUME Media!MediaAssumption, ImportInv, NEW p \in Media!Polls, NEW s \in Media!Services,
         Media!PollRead(p, s)
  PROVE  \A q \in Media!Polls, j \in MediaIds : SeenIsOf(q, j)'
<1>1. RestType /\ Media!TypeOK
  BY MediaTypes DEF ImportInv
<1>2. UNCHANGED <<jobStatus, title, known, item, file, taken>>
  BY DEF Media!PollRead, Media!jobVars, Media!arrVars
<1>3. /\ \A q \in Media!Polls : q # p => poll'[q] = poll[q]
      /\ poll'[p].part[s] = "read" /\ poll'[p].seen = poll[p].seen
      /\ \A r \in Media!Services : r # s => poll'[p].part[r] = poll[p].part[r]
      /\ \A t \in Media!Titles :
           poll'[p].answer[t] = IF t \in s THEN item[t] ELSE poll[p].answer[t]
  BY <1>1, ReadIs
<1> SUFFICES ASSUME NEW q \in Media!Polls, NEW j \in MediaIds PROVE SeenIsOf(q, j)'
  OBVIOUS
<1>4. SeenIsOf(q, j)
  BY DEF ImportInv
<1>5. CASE q # p
  BY <1>2, <1>3, <1>4, <1>5 DEF SeenIsOf, WasGrabbed, HasLeft, Grabbed
<1>6. CASE q = p
  <2>1. ASSUME poll[p].seen[j] # "none", NEW r \in Media!Services, poll'[p].part[r] = "read",
               title[j] \in r
        PROVE  /\ poll'[p].answer[title[j]] # "none" => WasGrabbed(j)
               /\ poll'[p].answer[title[j]] = "none" /\ poll[p].seen[j] \in Shown => HasLeft(j)
    <3>0. title[j] \in Media!Titles
      BY <2>1, ServicesAreApart
    <3>1. CASE r = s
      <4>1. poll'[p].answer[title[j]] = item[title[j]]
        BY <1>3, <2>1, <3>0, <3>1
      <4> QED BY <1>4, <1>6, <2>1, <4>1 DEF SeenIsOf, WasGrabbed, HasLeft, Grabbed
    <3>2. CASE r # s
      <4>1. title[j] \notin s
        BY <2>1, <3>2, ServicesAreApart
      <4> QED BY <1>3, <1>4, <1>6, <2>1, <3>0, <3>2, <4>1 DEF SeenIsOf
    <3> QED BY <3>1, <3>2
  <2> QED BY <1>2, <1>3, <1>4, <1>6, <2>1 DEF SeenIsOf, WasGrabbed, HasLeft, Grabbed
<1> QED BY <1>5, <1>6

\* A part of a poll that ends leaves nothing that did not hold before.
LEMMA EndKeeps ==
  ASSUME ImportInv, NEW p \in Media!Polls, NEW s \in Media!Services, Media!PollEnds(p, s)
  PROVE  /\ \A q \in Media!Polls, j \in MediaIds : SeenIsOf(q, j)'
         /\ UNCHANGED <<title, known, request, deletion, item, file, taken>>
         /\ Remains(poll'[p], poll[p], s) /\ \A q \in Media!Polls : q # p => poll'[q] = poll[q]
<1>1. Media!TypeOK /\ poll[p].on \in BOOLEAN
  BY MediaTypes DEF ImportInv, PollType
<1>2. Remains(poll'[p], poll[p], s) /\ \A q \in Media!Polls : q # p => poll'[q] = poll[q]
  BY <1>1, EndedIs DEF Media!PollEnds, Media!PollApplies, Media!PollFails
<1>3. UNCHANGED <<title, known, request, deletion, item, file, taken>>
  BY DEF Media!PollEnds, Media!PollApplies, Media!PollFails, Media!jobVars, Media!arrVars
<1>4. ASSUME NEW q \in Media!Polls, NEW j \in MediaIds PROVE SeenIsOf(q, j)'
  <2>1. SeenIsOf(q, j)
    BY DEF ImportInv
  <2>2. CASE q # p
    BY <1>2, <1>3, <2>1, <2>2 DEF SeenIsOf, WasGrabbed, HasLeft, Grabbed
  <2>3. CASE q = p
    BY <1>2, <1>3, <2>1, <2>3 DEF SeenIsOf, Remains, WasGrabbed, HasLeft, Grabbed
  <2> QED BY <2>2, <2>3
<1> QED BY <1>2, <1>3, <1>4

\* What a poll writes: the status derived from what it saw and from the answer.
LEMMA WritesIs ==
  ASSUME ImportInv, NEW p \in Media!Polls, NEW s \in Media!Services, Media!PollApplies(p, s),
         NEW j \in MediaIds, jobStatus'[j] # jobStatus[j]
  PROVE  /\ poll[p].part[s] = "read" /\ title[j] \in s /\ title[j] \in Media!Titles
         /\ poll[p].seen[j] \in {"searching"} \cup Shown
         /\ jobStatus'[j] = Media!Derive(poll[p].seen[j], poll[p].answer[title[j]])
         /\ poll[p].answer[title[j]] \in Media!Items
<1>1. poll[p] \in PollType
  BY MediaTypes DEF ImportInv
<1>2. /\ j \in Media!Updated(p, s)
      /\ jobStatus'[j] = Media!Derive(poll[p].seen[j], poll[p].answer[title[j]])
      /\ poll[p].part[s] = "read"
  BY DEF Media!PollApplies
<1>3. title[j] \in s /\ poll[p].seen[j] # "none" /\ title[j] \in Media!Titles
  BY <1>2 DEF Media!Updated, Media!Services, Media!Titles
<1>4. SeenIsOf(p, j)
  BY DEF ImportInv
<1> QED BY <1>1, <1>2, <1>3, <1>4 DEF SeenIsOf, PollType

\* A poll shows as downloading what was grabbed, as completed what has left the queue.
LEMMA ApplyKeeps ==
  ASSUME ImportInv, NEW p \in Media!Polls, NEW s \in Media!Services, Media!PollApplies(p, s)
  PROVE  \A j \in MediaIds : JobIsAt(j)'
<1> SUFFICES ASSUME NEW j \in MediaIds PROVE JobIsAt(j)'
  OBVIOUS
<1>1. UNCHANGED <<title, known, request, deletion, item, file, taken>> /\ JobIsAt(j)
  BY EndKeeps DEF Media!PollEnds, ImportInv
<1>2. CASE jobStatus'[j] = jobStatus[j]
  BY <1>1, <1>2 DEF JobIsAt, WasGrabbed, HasLeft, Grabbed
<1>3. CASE jobStatus'[j] # jobStatus[j]
  <2> DEFINE i == poll[p].answer[title[j]]
             st == poll[p].seen[j]
  <2>1. /\ poll[p].part[s] = "read" /\ title[j] \in s /\ title[j] \in Media!Titles
        /\ st \in {"searching"} \cup Shown /\ jobStatus'[j] = Media!Derive(st, i)
        /\ i \in Media!Items
    BY <1>3, WritesIs
  <2>2. SeenIsOf(p, j)
    BY DEF ImportInv
  <2>3. /\ known[j] /\ (i # "none" => WasGrabbed(j))
        /\ (i = "none" /\ st \in Shown => HasLeft(j))
        /\ (st \in Shown => WasGrabbed(j))
    BY <2>1, <2>2 DEF SeenIsOf, Shown
  <2>4. st \in Media!Statuses
    BY <2>1 DEF Shown, Media!Statuses
  <2> HIDE DEF i, st
  <2>5. \/ i = "none" /\ st \in Shown /\ jobStatus'[j] = "completed"
        \/ i = "none" /\ st = "searching" /\ jobStatus'[j] = "searching"
        \/ i # "none" /\ jobStatus'[j] \in Shown \cup {"failed"}
    BY <2>1, <2>4, DeriveIs DEF Shown
  <2> QED BY <1>1, <2>1, <2>3, <2>5 DEF JobIsAt, WasGrabbed, HasLeft, Grabbed, Shown
<1> QED BY <1>2, <1>3

\* Every step keeps the invariant.
LEMMA ImportNext ==
  ASSUME Media!MediaAssumption, ImportInv, [Media!Next]_(Media!vars)
  PROVE  ImportInv'
<1>0. Media!TypeOK' /\ RestType /\ \A j \in MediaIds : JobIsAt(j)
  <2>1. CASE Media!Next
    BY <2>1, MediaTypesKept, MediaTypes DEF ImportInv
  <2>2. CASE UNCHANGED Media!vars
    BY <2>2, MediaTypes DEF ImportInv, Media!vars, Media!jobVars, Media!arrVars, Media!pollVars, Media!TypeOK
  <2> QED BY <2>1, <2>2
<1> DEFINE Kept == /\ \A i \in MediaIds : JobIsAt(i)'
                   /\ \A p \in Media!Polls, i \in MediaIds : SeenIsOf(p, i)'
<1> SUFFICES Kept
  BY <1>0 DEF ImportInv
<1>1. ASSUME NEW j \in MediaIds, Media!Request(j) \/ Media!RequestStep(j) PROVE Kept
  BY <1>1, RequestKeeps, PollsKept
<1>2. ASSUME NEW j \in MediaIds, Media!Delete(j) \/ Media!DeletionStep(j) PROVE Kept
  BY <1>2, DeletionKeeps, PollsKept
<1>3. ASSUME NEW t \in Media!Titles, Media!ArrStep(t) PROVE Kept
  BY <1>3, ArrKeeps, PollsKept
<1>4. CASE Media!Tick
  <2>1. UNCHANGED <<jobStatus, title, known, request, deletion, item, file, taken>>
    BY <1>4 DEF Media!Tick, Media!jobVars, Media!arrVars
  <2>2. \A j \in MediaIds : JobIsAt(j)'
    BY <1>0, <2>1 DEF JobIsAt, WasGrabbed, HasLeft, Grabbed
  <2> QED BY <1>4, <2>2, CaptureKeeps
<1>5. ASSUME NEW p \in Media!Polls, NEW s \in Media!Services, Media!PollRead(p, s) PROVE Kept
  <2>1. UNCHANGED <<jobStatus, title, known, request, deletion, item, file, taken>>
    BY <1>5 DEF Media!PollRead, Media!jobVars, Media!arrVars
  <2>2. \A j \in MediaIds : JobIsAt(j)'
    BY <1>0, <2>1 DEF JobIsAt, WasGrabbed, HasLeft, Grabbed
  <2> QED BY <1>5, <2>2, ReadKeeps
<1>6. ASSUME NEW p \in Media!Polls, NEW s \in Media!Services, Media!PollEnds(p, s) PROVE Kept
  <2>1. /\ \A q \in Media!Polls, i \in MediaIds : SeenIsOf(q, i)'
        /\ UNCHANGED <<title, known, request, deletion, item, file, taken>>
    BY <1>6, EndKeeps
  <2>2. CASE Media!PollApplies(p, s)
    BY <2>1, <2>2, ApplyKeeps
  <2>3. CASE Media!PollFails(p, s)
    <3>1. jobStatus' = jobStatus
      BY <2>3 DEF Media!PollFails, Media!jobVars
    <3>2. \A j \in MediaIds : JobIsAt(j)'
      BY <1>0, <2>1, <3>1 DEF JobIsAt, WasGrabbed, HasLeft, Grabbed
    <3> QED BY <2>1, <3>2
  <2> QED BY <1>6, <2>2, <2>3 DEF Media!PollEnds
<1>7. CASE UNCHANGED Media!vars
  <2>1. UNCHANGED <<jobStatus, title, known, request, deletion, item, file, taken, poll>>
    BY <1>7 DEF Media!vars, Media!jobVars, Media!arrVars, Media!pollVars
  <2> QED BY <1>0, <2>1 DEF ImportInv, JobIsAt, SeenIsOf, WasGrabbed, HasLeft, Grabbed
<1> QED
  BY <1>1, <1>2, <1>3, <1>4, <1>5, <1>6, <1>7 DEF Media!Next

-----------------------------------------------------------------------------
(***************************************************************************)
(* What a poll writes is not out of date                                   *)
(***************************************************************************)

\* One poll at a time leaves a job as it saw it until it writes.
LEMMA FreshNext ==
  ASSUME Media!MediaAssumption, MaxPolls = 1, ~Deletes, ImportInv, FreshInv,
         [Media!Next]_(Media!vars)
  PROVE  FreshInv'
<1> USE DEF FreshInv
<1>0. /\ RestType /\ Media!TypeOK /\ Media!Polls = {1}
      /\ \A j \in MediaIds : JobIsAt(j) /\ SeenIsOf(1, j)
  BY MediaTypes DEF ImportInv, Media!Polls
<1>1. ASSUME NEW j \in MediaIds, Media!Request(j) \/ Media!RequestStep(j) PROVE FreshInv'
  <2>1. \A i \in MediaIds : known[i] => jobStatus'[i] = jobStatus[i] /\ title'[i] = title[i]
    BY <1>0, <1>1 DEF JobIsAt, RestType, Media!Request, Media!RequestStep, Media!Listed, Media!Added,
       Media!Searched, Media!RequestFails, Media!SetStatus, Media!jobVars
  <2>2. poll' = poll
    BY <1>1, RequestKeeps
  <2> QED BY <1>0, <2>1, <2>2 DEF SeenIsOf
<1>2. ASSUME NEW t \in Media!Titles, Media!ArrStep(t) PROVE FreshInv'
  BY <1>2 DEF Media!ArrStep, Media!jobVars, Media!pollVars
<1>3. CASE Media!Tick
  <2>1. poll' = poll \/ poll'[1] = Media!Capture
    BY <1>0, <1>3, MediaTypes DEF Media!Tick
  <2>2. \A j \in MediaIds : Media!Capture.seen[j] # "none" => Media!Capture.seen[j] = jobStatus[j]
    BY DEF Media!Capture
  <2>3. UNCHANGED <<jobStatus, title>>
    BY <1>3 DEF Media!Tick, Media!jobVars
  <2> QED BY <1>0, <2>1, <2>2, <2>3
<1>4. ASSUME NEW p \in Media!Polls, NEW s \in Media!Services, Media!PollRead(p, s) PROVE FreshInv'
  <2>0. p = 1 /\ poll[p].part[s] = "asked"
    BY <1>0, <1>4 DEF Media!PollRead
  <2>1. /\ poll'[1].seen = poll[1].seen /\ poll[1].part[s] = "asked"
        /\ \A r \in Media!Services : r # s => poll'[1].part[r] = poll[1].part[r]
    BY <1>0, <1>4, <2>0, ReadIs
  <2>2. UNCHANGED <<jobStatus, title>>
    BY <1>4 DEF Media!PollRead, Media!jobVars
  <2>3. \A r \in Media!Services : poll'[1].part[r] # "idle" => poll[1].part[r] # "idle"
    BY <2>1
  <2> QED BY <1>0, <2>1, <2>2, <2>3
<1>5. ASSUME NEW p \in Media!Polls, NEW s \in Media!Services, Media!PollEnds(p, s) PROVE FreshInv'
  <2>1. Remains(poll'[1], poll[1], s) /\ title' = title
    BY <1>0, <1>5, EndKeeps
  <2>2. ASSUME NEW j \in MediaIds, title[j] \notin s PROVE jobStatus'[j] = jobStatus[j]
    BY <1>0, <1>5, <2>2, WritesIs DEF Media!PollEnds, Media!PollFails, Media!jobVars
  <2>3. ASSUME NEW j \in MediaIds, NEW r \in Media!Services, poll'[1].part[r] # "idle",
               title[j] \in r, poll'[1].seen[j] # "none"
        PROVE  poll'[1].seen[j] = jobStatus'[j]
    <3>1. r # s /\ poll[1].part[r] # "idle" /\ poll'[1].seen = poll[1].seen
      BY <2>1, <2>3 DEF Remains
    <3>2. title[j] \notin s
      BY <2>3, <3>1, ServicesAreApart
    <3> QED BY <1>0, <2>2, <2>3, <3>1, <3>2
  <2> QED BY <1>0, <2>1, <2>3
<1>6. CASE UNCHANGED Media!vars
  BY <1>6 DEF Media!vars, Media!jobVars, Media!pollVars
<1>7. \A j \in MediaIds : ~Media!Delete(j) /\ ~Media!DeletionStep(j)
  BY NoDeletion
<1> QED
  BY <1>1, <1>2, <1>3, <1>4, <1>5, <1>6, <1>7 DEF Media!Next

\* A job goes on from where it is.
LEMMA FreshAdvances ==
  ASSUME Media!MediaAssumption, MaxPolls = 1, ~Deletes, ImportInv, FreshInv, Media!Next
  PROVE  StatusAdvances
<1>0. /\ RestType /\ Media!TypeOK /\ Media!Polls = {1}
      /\ \A j \in MediaIds : JobIsAt(j) /\ SeenIsOf(1, j) /\ jobStatus[j] \in Media!Statuses
  BY MediaTypes DEF ImportInv, Media!Polls, RestType
<1> SUFFICES ASSUME NEW j \in MediaIds
             PROVE  /\ Rank(jobStatus'[j]) >= Rank(jobStatus[j])
                    /\ jobStatus[j] \in Terminal => jobStatus'[j] = jobStatus[j]
  BY <1>0 DEF StatusAdvances, RestType
<1>1. /\ jobStatus[j] = "none" => Rank(jobStatus[j]) = 0
      /\ jobStatus[j] = "requested" => Rank(jobStatus[j]) = 1
      /\ jobStatus[j] = "searching" => Rank(jobStatus[j]) = 2
      /\ jobStatus[j] \in Shown => Rank(jobStatus[j]) = 3
      /\ Rank(jobStatus[j]) \in 0..4
  BY <1>0 DEF Rank, Media!Statuses, Media!Terminal, Shown
<1>2. /\ jobStatus'[j] = "requested" => Rank(jobStatus'[j]) = 1
      /\ jobStatus'[j] = "searching" => Rank(jobStatus'[j]) = 2
      /\ jobStatus'[j] \in Shown => Rank(jobStatus'[j]) = 3
      /\ jobStatus'[j] \in {"completed", "failed"} => Rank(jobStatus'[j]) = 4
  BY DEF Rank, Shown
<1>3. CASE jobStatus'[j] = jobStatus[j]
  BY <1>1, <1>3
<1>4. CASE jobStatus'[j] # jobStatus[j]
  <2>1. \/ jobStatus[j] = "none" /\ jobStatus'[j] = "requested"
        \/ jobStatus[j] = "requested" /\ jobStatus'[j] \in {"searching", "failed"}
        \/ \E s \in Media!Services : Media!PollApplies(1, s)
    <3>1. ASSUME NEW i \in MediaIds, Media!Request(i)
          PROVE  jobStatus[j] = "none" /\ jobStatus'[j] = "requested"
      BY <1>0, <1>4, <3>1 DEF Media!Request, Media!SetStatus, RestType
    <3>2. ASSUME NEW i \in MediaIds, Media!RequestStep(i)
          PROVE  jobStatus[j] = "requested" /\ jobStatus'[j] \in {"searching", "failed"}
      BY <1>0, <1>4, <3>2 DEF Media!RequestStep, Media!Listed, Media!Added, Media!Searched,
         Media!RequestFails, Media!SetStatus, Media!jobVars, RestType, JobIsAt
    <3>3. \A i \in MediaIds : ~Media!Delete(i) /\ ~Media!DeletionStep(i)
      BY NoDeletion
    <3>4. \A t \in Media!Titles : ~Media!ArrStep(t)
      BY <1>4 DEF Media!ArrStep, Media!jobVars
    <3>5. ~Media!Tick /\ \A p \in Media!Polls, s \in Media!Services : ~Media!PollRead(p, s) /\ ~Media!PollFails(p, s)
      BY <1>4 DEF Media!Tick, Media!PollRead, Media!PollFails, Media!jobVars
    <3> QED BY <1>0, <3>1, <3>2, <3>3, <3>4, <3>5 DEF Media!Next, Media!PollEnds
  <2>2. ASSUME NEW s \in Media!Services, Media!PollApplies(1, s)
        PROVE  /\ jobStatus[j] \in {"searching"} \cup Shown
               /\ jobStatus'[j] \in Shown \cup {"completed", "failed"}
    <3>1. /\ poll[1].part[s] = "read" /\ title[j] \in s
          /\ poll[1].seen[j] \in {"searching"} \cup Shown
          /\ jobStatus'[j] = Media!Derive(poll[1].seen[j], poll[1].answer[title[j]])
          /\ poll[1].answer[title[j]] \in Media!Items
      BY <1>0, <1>4, <2>2, WritesIs
    <3>2. poll[1].seen[j] = jobStatus[j]
      BY <1>0, <3>1 DEF FreshInv, Shown
    <3> QED BY <1>0, <1>4, <3>1, <3>2, DeriveIs DEF Shown
  <2>3. jobStatus[j] \in {"none", "requested", "searching"} \cup Shown => jobStatus[j] \notin Terminal
    BY DEF Terminal, Shown
  <2> QED BY <1>1, <1>2, <2>1, <2>2, <2>3
<1> QED BY <1>3, <1>4

\* The variables of MediaJobs have their types, whatever is deleted and however
\* many polls overlap.
THEOREM MediaTypeCorrect == Media!MediaAssumption => (Media!Spec => []Media!TypeOK)
<1> SUFFICES ASSUME Media!MediaAssumption PROVE Media!Spec => []Media!TypeOK
  OBVIOUS
<1>1. Media!Init => Media!TypeOK
  <2> SUFFICES ASSUME Media!Init PROVE Media!TypeOK
    OBVIOUS
  <2>1. RestType
    BY DEF Media!Init, RestType, Media!Statuses, Media!Items, Media!MediaAssumption
  <2>2. poll \in [Media!Polls -> PollType]
    BY <2>1, NewPolls DEF Media!Init
  <2> QED BY <2>1, <2>2, MediaTypes
<1>2. Media!TypeOK /\ [Media!Next]_(Media!vars) => Media!TypeOK'
  <2>1. CASE UNCHANGED Media!vars
    BY <2>1 DEF Media!vars, Media!jobVars, Media!arrVars, Media!pollVars, Media!TypeOK
  <2> QED BY <2>1, MediaTypesKept
<1> QED BY <1>1, <1>2, PTL DEF Media!Spec

\* The invariant holds initially.
LEMMA ImportInit ==
  ASSUME Media!MediaAssumption, Media!Init
  PROVE  ImportInv /\ FreshInv
<1>1. RestType
  BY DEF Media!Init, RestType, Media!Statuses, Media!Items, Media!MediaAssumption
<1>2. poll \in [Media!Polls -> PollType]
  BY <1>1, NewPolls DEF Media!Init
<1>3. \A j \in MediaIds : JobIsAt(j)
  BY DEF Media!Init, JobIsAt, Shown
<1>4. \A p \in Media!Polls : /\ \A s \in Media!Services : poll[p].part[s] = "idle"
                             /\ \A j \in MediaIds : poll[p].seen[j] = "none"
  BY DEF Media!Init, Media!NoPoll
<1> QED BY <1>1, <1>2, <1>3, <1>4, MediaTypes DEF ImportInv, FreshInv, SeenIsOf

\* A job is reported completed only when its title was imported, or was taken out
\* of the queue after the job was requested: however many polls overlap, however
\* late their answers are applied, and whatever is deleted meanwhile.
THEOREM CompletedJobsHaveLeft ==
  ASSUME Media!MediaAssumption
  PROVE  Media!Spec => []CompletedHasLeft
<1>1. Media!Init => ImportInv
  BY ImportInit
<1>2. ImportInv /\ [Media!Next]_(Media!vars) => ImportInv'
  BY ImportNext
<1>3. ImportInv => CompletedHasLeft
  BY DEF ImportInv, JobIsAt, HasLeft, CompletedHasLeft, Media!TypeOK
<1> QED BY <1>1, <1>2, <1>3, PTL DEF Media!Spec

\* Unless jobs are deleted or polls overlap, moreover, a job stays as it ended,
\* and is not requested or searched for again once it was grabbed.
THEOREM StatusesFollowTheQueue ==
  ASSUME Media!MediaAssumption, ~Deletes, MaxPolls = 1
  PROVE  Media!Spec => StatusFollowsQueue
<1> DEFINE Inv == ImportInv /\ FreshInv
<1>1. Media!Init => Inv
  BY ImportInit
<1>2. Inv /\ [Media!Next]_(Media!vars) => Inv'
  BY ImportNext, FreshNext
<1>3. Inv => CompletedHasLeft
  BY DEF ImportInv, JobIsAt, HasLeft, CompletedHasLeft, Media!TypeOK
<1>4. Inv /\ [Media!Next]_(Media!vars) => [StatusAdvances]_jobStatus
  <2> SUFFICES ASSUME Inv, [Media!Next]_(Media!vars), jobStatus' # jobStatus PROVE StatusAdvances
    OBVIOUS
  <2>1. Media!Next
    BY DEF Media!vars, Media!jobVars
  <2> QED BY <2>1, FreshAdvances
<1> QED BY <1>1, <1>2, <1>3, <1>4, PTL DEF Media!Spec, StatusFollowsQueue
=============================================================================
